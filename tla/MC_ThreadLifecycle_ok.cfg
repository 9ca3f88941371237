\* Thread create/free when no call fails.
CONSTANTS
    th1 = th1
    th2 = th2
    th3 = th3
    NoThread = NoThread
    ThreadIds <- MC_ThreadIds
    Faults <- MC_NoFaults
SPECIFICATION Spec
INVARIANT ProcJoinedAtTeardown
\* The caller stops once every thread is freed.
CHECK_DEADLOCK FALSE
