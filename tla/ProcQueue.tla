------------------------------ MODULE ProcQueue ------------------------------
(***************************************************************************)
(* What the processing thread of a multi-threaded gearmand server promises *)
(* its I/O threads, with no locks, flags or passes in it: each producer    *)
(* puts packets on a queue of its own at any time; one consumer takes them *)
(* and runs them until it has been closed and has exited.  Once closed the *)
(* consumer may exit with packets still queued, and never exits before.    *)
(* Under fairness every queued packet is run unless the consumer exits     *)
(* first, and a closed consumer exits.  ProcThread is checked to implement *)
(* this specification.                                                     *)
(***************************************************************************)
EXTENDS Naturals

CONSTANT Producers

VARIABLES
    queued,   \* [p |-> packets p has put and the consumer has not taken]
    done,     \* [p |-> packets of p the consumer has run]
    closed,   \* the consumer has been told to stop
    exited    \* the consumer has stopped

vars == <<queued, done, closed, exited>>

Init ==
    /\ queued = [p \in Producers |-> 0]
    /\ done = [p \in Producers |-> 0]
    /\ closed = FALSE
    /\ exited = FALSE

Put(p) ==
    /\ queued' = [queued EXCEPT ![p] = @ + 1]
    /\ UNCHANGED <<done, closed, exited>>

Take(p) ==
    /\ ~exited
    /\ queued[p] > 0
    /\ queued' = [queued EXCEPT ![p] = @ - 1]
    /\ done' = [done EXCEPT ![p] = @ + 1]
    /\ UNCHANGED <<closed, exited>>

Close ==
    /\ ~closed
    /\ closed' = TRUE
    /\ UNCHANGED <<queued, done, exited>>

Exit ==
    /\ closed
    /\ ~exited
    /\ exited' = TRUE
    /\ UNCHANGED <<queued, done, closed>>

Next ==
    \/ \E p \in Producers : Put(p) \/ Take(p)
    \/ Close
    \/ Exit

Spec ==
    /\ Init /\ [][Next]_vars
    /\ \A p \in Producers : WF_vars(Take(p))
    /\ WF_vars(Exit)

=============================================================================
