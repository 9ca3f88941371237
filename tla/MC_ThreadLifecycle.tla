------------------------- MODULE MC_ThreadLifecycle -------------------------
(* Three thread structures: enough for a create to start the processing    *)
(* thread (the second), one more after it (the third), and frees at two,   *)
(* one and zero remaining threads.                                         *)
EXTENDS ThreadLifecycle

CONSTANTS th1, th2, th3

MC_ThreadIds == {th1, th2, th3}

MC_NoFaults == {}

MC_AllFaults == FaultKinds

MC_MallocFault == {"malloc"}

MC_MutexFault == {"mutex_init"}

=============================================================================
