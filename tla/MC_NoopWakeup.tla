---------------------------- MODULE MC_NoopWakeup ----------------------------
(* Two functions, so that the worker sleeps on two lists and a second     *)
(* submission meets it still on one of them; three jobs, so that a job    *)
(* can be submitted while a NOOP is between its send and its removal.     *)
EXTENDS NoopWakeup

CONSTANTS f1, f2

MC_Funcs == {f1, f2}

=============================================================================
