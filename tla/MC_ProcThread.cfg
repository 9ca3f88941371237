CONSTANTS
    t1 = t1
    t2 = t2
    ThreadList <- MC_ThreadList
    MaxPackets = 2

SPECIFICATION Spec

INVARIANT TypeOK
PROPERTY IdleOnlyWhenDrained
PROPERTY KillCompletes
PROPERTY ImplementsProcQueue

\* With the packets bounded, every behaviour ends with the processing thread
\* blocked on proc_cond or returned: the server really stops there.
CHECK_DEADLOCK FALSE
