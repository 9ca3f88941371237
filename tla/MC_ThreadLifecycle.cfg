\* Thread create/free with every call able to fail.
CONSTANTS
    th1 = th1
    th2 = th2
    th3 = th3
    NoThread = NoThread
    ThreadIds <- MC_ThreadIds
    Faults <- MC_AllFaults
SPECIFICATION Spec
INVARIANT TypeOK
\* The caller stops once every thread is freed.
CHECK_DEADLOCK FALSE
