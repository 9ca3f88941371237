\* One worker on two functions, three submitted jobs.
CONSTANTS
    f1 = f1
    f2 = f2
    Funcs <- MC_Funcs
    MaxJobs = 3
SPECIFICATION Spec

INVARIANT NoopCoalesced
\* Once every job is done the worker sleeps waiting for a NOOP that no
\* submission will send: the bounded system stops there.
CHECK_DEADLOCK FALSE
