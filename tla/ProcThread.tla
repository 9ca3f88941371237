----------------------------- MODULE ProcThread -----------------------------
(***************************************************************************)
(* The processing thread of a multi-threaded gearmand server               *)
(* (libgearman/server_thread.c: _proc, _proc_thread_kill) and the two      *)
(* parties that talk to it through proc_lock / proc_cond:                  *)
(*   - the I/O threads, which queue a packet on their proc list and then   *)
(*     set proc_wakeup and signal proc_cond (gearman_server_proc_packet_add *)
(*     called from _thread_packet_read);                                   *)
(*   - the thread that frees the server threads, which sets proc_shutdown, *)
(*     signals proc_cond and joins the processing thread.                  *)
(* A packet is abstracted to a count per I/O thread: what is checked here  *)
(* is that no queued packet is left behind by a missed wakeup and that the *)
(* join of the processing thread returns.                                  *)
(* Every critical section under proc_lock is one atomic step, so the lock  *)
(* itself is not a variable; proc_shutdown is written outside the lock, as *)
(* in the code, by a step of its own.                                      *)
(***************************************************************************)
EXTENDS Naturals, Sequences, FiniteSets

CONSTANTS
    ThreadList,   \* server->thread_list: the I/O threads, in list order
    MaxPackets    \* bound on the packets one I/O thread queues

IOThreads == {ThreadList[i] : i \in 1..Len(ThreadList)}

ASSUME /\ Len(ThreadList) >= 1
       /\ MaxPackets \in Nat \ {0}

VARIABLES
    pending,        \* [t |-> packets on t's proc list not yet run]
    added,          \* [t |-> packets t has queued so far]
    signalled,      \* [t |-> packets of t whose wakeup has been posted]
    ran,            \* [t |-> packets of t the processing thread has run]
    ioPc,           \* [t |-> "read" | "signal"]: where t is in proc_packet_add
    proc_wakeup,    \* server->proc_wakeup
    proc_shutdown,  \* server->proc_shutdown
    procPc,         \* "lock" | "waiting" | "scan" | "exited"
    scanIdx,        \* position of the processing thread in thread_list
    killPc          \* "idle" | "signal" | "join" | "done"

vars == <<pending, added, signalled, ran, ioPc, proc_wakeup, proc_shutdown,
          procPc, scanIdx, killPc>>

TypeOK ==
    /\ pending \in [IOThreads -> 0..MaxPackets]
    /\ added \in [IOThreads -> 0..MaxPackets]
    /\ signalled \in [IOThreads -> 0..MaxPackets]
    /\ ran \in [IOThreads -> 0..MaxPackets]
    /\ ioPc \in [IOThreads -> {"read", "signal"}]
    /\ proc_wakeup \in BOOLEAN
    /\ proc_shutdown \in BOOLEAN
    /\ procPc \in {"lock", "waiting", "scan", "exited"}
    /\ scanIdx \in 1..Len(ThreadList) + 1
    /\ killPc \in {"idle", "signal", "join", "done"}

\* pthread_cond_signal: wakes the processing thread if it waits on proc_cond;
\* a signal with no waiter is lost.
CondSignal ==
    procPc' = IF procPc = "waiting" THEN "lock" ELSE procPc

Init ==
    /\ pending = [t \in IOThreads |-> 0]
    /\ added = [t \in IOThreads |-> 0]
    /\ signalled = [t \in IOThreads |-> 0]
    /\ ran = [t \in IOThreads |-> 0]
    /\ ioPc = [t \in IOThreads |-> "read"]
    /\ proc_wakeup = FALSE
    /\ proc_shutdown = FALSE
    /\ procPc = "lock"
    /\ scanIdx = 1
    /\ killPc = "idle"

-----------------------------------------------------------------------------
(* I/O thread side.                                                        *)

\* _thread_packet_read, multi-threaded branch: a complete packet is handed to
\* the processing thread; proc_packet_add first puts it on the thread's proc
\* list under the thread lock.
IoQueuePacket(t) ==
    /\ ioPc[t] = "read"
    /\ added[t] < MaxPackets
    /\ pending' = [pending EXCEPT ![t] = @ + 1]
    /\ added' = [added EXCEPT ![t] = @ + 1]
    /\ ioPc' = [ioPc EXCEPT ![t] = "signal"]
    /\ UNCHANGED <<signalled, ran, proc_wakeup, proc_shutdown, procPc, scanIdx,
                   killPc>>

\* gearman_server_proc_packet_add, second half: under proc_lock set
\* proc_wakeup and signal proc_cond.
IoPostWakeup(t) ==
    /\ ioPc[t] = "signal"
    /\ proc_wakeup' = TRUE
    /\ CondSignal
    /\ signalled' = [signalled EXCEPT ![t] = added[t]]
    /\ ioPc' = [ioPc EXCEPT ![t] = "read"]
    /\ UNCHANGED <<pending, added, ran, proc_shutdown, scanIdx, killPc>>

-----------------------------------------------------------------------------
(* Processing thread: _proc.                                                *)

\* Mutant: the loop returns whenever no wakeup is pending, without testing
\* proc_shutdown.
ProcCheckWakeupNoShutdownTest ==
    /\ procPc = "lock"
    /\ \/ /\ proc_wakeup
          /\ proc_wakeup' = FALSE
          /\ procPc' = "scan"
          /\ scanIdx' = 1
       \/ /\ ~proc_wakeup
          /\ procPc' = "exited"
          /\ UNCHANGED <<proc_wakeup, scanIdx>>
    /\ UNCHANGED <<pending, added, signalled, ran, ioPc, proc_shutdown,
                   killPc>>

\* Lock proc_lock and test the loop condition: with a wakeup pending, clear
\* it and start a pass over thread_list; else exit on shutdown; else wait on
\* proc_cond (which releases the lock).
ProcCheckWakeup ==
    /\ procPc = "lock"
    /\ \/ /\ proc_wakeup
          /\ proc_wakeup' = FALSE
          /\ procPc' = "scan"
          /\ scanIdx' = 1
       \/ /\ ~proc_wakeup
          /\ procPc' = IF proc_shutdown THEN "exited" ELSE "waiting"
          /\ UNCHANGED <<proc_wakeup, scanIdx>>
    /\ UNCHANGED <<pending, added, signalled, ran, ioPc, proc_shutdown,
                   killPc>>

\* pthread_cond_wait may return without a signal.
ProcSpuriousWakeup ==
    /\ procPc = "waiting"
    /\ procPc' = "lock"
    /\ UNCHANGED <<pending, added, signalled, ran, ioPc, proc_wakeup,
                   proc_shutdown, scanIdx, killPc>>

\* Mutant: the emptiness test of the proc list is off by one.
ProcRunPacketOffByOne ==
    /\ procPc = "scan"
    /\ scanIdx <= Len(ThreadList)
    /\ LET t == ThreadList[scanIdx] IN
         IF pending[t] >= 0
         THEN /\ pending' = [pending EXCEPT ![t] = @ - 1]
              /\ ran' = [ran EXCEPT ![t] = @ + 1]
              /\ UNCHANGED scanIdx
         ELSE /\ scanIdx' = scanIdx + 1
              /\ UNCHANGED <<pending, ran>>
    /\ UNCHANGED <<added, signalled, ioPc, proc_wakeup, proc_shutdown, procPc,
                   killPc>>

\* One iteration of the pass: gearman_server_con_proc_next on the current
\* thread yields a packet, which is run; when the list is empty move on.
ProcRunPacket ==
    /\ procPc = "scan"
    /\ scanIdx <= Len(ThreadList)
    /\ LET t == ThreadList[scanIdx] IN
         IF pending[t] > 0
         THEN /\ pending' = [pending EXCEPT ![t] = @ - 1]
              /\ ran' = [ran EXCEPT ![t] = @ + 1]
              /\ UNCHANGED scanIdx
         ELSE /\ scanIdx' = scanIdx + 1
              /\ UNCHANGED <<pending, ran>>
    /\ UNCHANGED <<added, signalled, ioPc, proc_wakeup, proc_shutdown, procPc,
                   killPc>>

\* Mutant: proc_wakeup cleared at the end of the pass instead of before it.
ProcScanDoneLateClear ==
    /\ procPc = "scan"
    /\ scanIdx = Len(ThreadList) + 1
    /\ procPc' = "lock"
    /\ proc_wakeup' = FALSE
    /\ UNCHANGED <<pending, added, signalled, ran, ioPc, proc_shutdown,
                   scanIdx, killPc>>

\* End of the pass: back to the top of the outer loop.
ProcScanDone ==
    /\ procPc = "scan"
    /\ scanIdx = Len(ThreadList) + 1
    /\ procPc' = "lock"
    /\ UNCHANGED <<pending, added, signalled, ran, ioPc, proc_wakeup,
                   proc_shutdown, scanIdx, killPc>>

-----------------------------------------------------------------------------
(* _proc_thread_kill, called from gearman_server_thread_free.              *)

\* Return at once if already shut down; else set proc_shutdown (outside the
\* lock, as the code does).
KillStart ==
    /\ killPc = "idle"
    /\ IF proc_shutdown
       THEN /\ killPc' = "done"
            /\ UNCHANGED proc_shutdown
       ELSE /\ proc_shutdown' = TRUE
            /\ killPc' = "signal"
    /\ UNCHANGED <<pending, added, signalled, ran, ioPc, proc_wakeup, procPc,
                   scanIdx>>

\* Mutant: the condition variable is not signalled.
KillSignalDropped ==
    /\ killPc = "signal"
    /\ killPc' = "join"
    /\ UNCHANGED <<pending, added, signalled, ran, ioPc, proc_wakeup,
                   proc_shutdown, procPc, scanIdx>>

\* Lock proc_lock, signal proc_cond, unlock.
KillSignal ==
    /\ killPc = "signal"
    /\ CondSignal
    /\ killPc' = "join"
    /\ UNCHANGED <<pending, added, signalled, ran, ioPc, proc_wakeup,
                   proc_shutdown, scanIdx>>

\* pthread_join returns once the processing thread has returned.
KillJoin ==
    /\ killPc = "join"
    /\ procPc = "exited"
    /\ killPc' = "done"
    /\ UNCHANGED <<pending, added, signalled, ran, ioPc, proc_wakeup,
                   proc_shutdown, procPc, scanIdx>>

-----------------------------------------------------------------------------
Next ==
    \/ \E t \in IOThreads : IoQueuePacket(t) \/ IoPostWakeup(t)
    \/ ProcCheckWakeup \/ ProcSpuriousWakeup \/ ProcRunPacket \/ ProcScanDone
    \/ KillStart \/ KillSignal \/ KillJoin

\* The threads are scheduled by the OS and keep running while they can, so
\* each step of theirs is weakly fair.  A spurious wakeup is never required,
\* and nothing forces the server to shut down, so KillStart is not fair.
Fairness ==
    /\ \A t \in IOThreads : WF_vars(IoPostWakeup(t))
    /\ WF_vars(ProcCheckWakeup)
    /\ WF_vars(ProcRunPacket)
    /\ WF_vars(ProcScanDone)
    /\ WF_vars(KillSignal)
    /\ WF_vars(KillJoin)

Spec == Init /\ [][Next]_vars /\ Fairness

-----------------------------------------------------------------------------
(* Properties.                                                              *)

\* No lost wakeup: at the step where the processing thread blocks on
\* proc_cond or returns from _proc, every packet whose wakeup an I/O thread
\* has posted has been run.  It depends on _proc clearing proc_wakeup under
\* the lock BEFORE its pass over thread_list, so that a packet queued on a
\* list the pass has already visited leaves proc_wakeup set for the next
\* pass.  (A packet posted after the return is never run; see README.)
IdleOnlyWhenDrained ==
    [][ (procPc = "lock" /\ procPc' \in {"waiting", "exited"})
          => \A t \in IOThreads : ran'[t] >= signalled'[t] ]_vars

\* _proc_thread_kill does not hang: once it has started, pthread_join
\* returns.  It depends on proc_shutdown being set before the signal under
\* proc_lock, so that the processing thread either sees it before it waits or
\* is woken by the signal.
KillCompletes ==
    (killPc # "idle") ~> (killPc = "done")

\* The processing thread implements ProcQueue: the packets on an I/O
\* thread's proc list are that producer's queue, proc_shutdown closes the
\* consumer and the return from _proc is its exit.  So _proc returns only
\* after proc_shutdown was set, every packet on a proc list is eventually
\* run unless _proc has returned, and once proc_shutdown is set _proc
\* returns: what the lock, the wakeup flag and the pass over thread_list
\* are there to guarantee.
PQ == INSTANCE ProcQueue
        WITH Producers <- IOThreads,
             queued <- pending,
             done <- ran,
             closed <- proc_shutdown,
             exited <- (procPc = "exited")

ImplementsProcQueue == PQ!Spec

=============================================================================
