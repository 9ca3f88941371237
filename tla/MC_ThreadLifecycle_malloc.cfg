\* Creating a thread without a caller's structure, where malloc may fail.
CONSTANTS
    th1 = th1
    th2 = th2
    th3 = th3
    NoThread = NoThread
    ThreadIds <- MC_ThreadIds
    Faults <- MC_MallocFault
SPECIFICATION Spec
INVARIANT NoJoinOfUnstartedProc
\* The caller stops once every thread is freed.
CHECK_DEADLOCK FALSE
