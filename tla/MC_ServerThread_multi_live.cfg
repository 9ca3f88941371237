\* thread_count = 2: commands run on the processing thread.
CONSTANTS
    t1 = t1
    t2 = t2
    c1 = c1
    c2 = c2
    NoCon = NoCon
    PacketAllocMayFail = FALSE
    Threads = {t1, t2}
    Conns = {c1, c2}
    Owner <- MultiOwner
    MaxCmds <- MultiMax

SPECIFICATION Spec

PROPERTY OutputDelivered
PROPERTY QueuedCommandsRun

\* Every behaviour ends with the peers done sending and all queues drained:
\* the server then waits for input that never comes.
CHECK_DEADLOCK FALSE
