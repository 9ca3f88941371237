\* thread_count = 1: commands run inline in _thread_packet_read; a packet
\* allocation at the top of the read loop may fail.
CONSTANTS
    t1 = t1
    t2 = t2
    c1 = c1
    c2 = c2
    NoCon = NoCon
    PacketAllocMayFail = TRUE
    Threads = {t1}
    Conns = {c1, c2}
    Owner <- SingleOwner
    MaxCmds <- SafetyMax

SPECIFICATION Spec

PROPERTY OutputDelivered

\* Every behaviour ends with the peers done sending and all queues drained:
\* the server then waits for input that never comes.
CHECK_DEADLOCK FALSE
