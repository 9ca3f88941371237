\* thread_count = 2: is a connection whose command failed closed?
CONSTANTS
    t1 = t1
    t2 = t2
    c1 = c1
    c2 = c2
    NoCon = NoCon
    PacketAllocMayFail = FALSE
    Threads = {t1, t2}
    Conns = {c1, c2}
    Owner <- MultiOwner
    MaxCmds <- MultiMax

SPECIFICATION Spec

PROPERTY CommandErrorClosesCon

CHECK_DEADLOCK FALSE
