----------------------------- MODULE NoopWakeup -----------------------------
(***************************************************************************)
(* Waking a sleeping worker in a multi-threaded gearmand server: the       *)
(* worker's connection seen from its I/O thread (_thread_packet_read       *)
(* queuing its commands, _thread_packet_flush sending its replies and      *)
(* clearing noop_queued after a NOOP has been sent, without a lock), the   *)
(* processing thread running its commands and the jobs clients submit, and *)
(* the worker itself.  The dispatcher and the worker are not under src/    *)
(* and are modelled from the spec (sections 4.3, 8): SUBMIT pops a worker  *)
(* sleeping on the function and queues it a NOOP unless noop_queued is     *)
(* set; GRAB_JOB takes a queued job or answers NO_JOB; PRE_SLEEP answers   *)
(* NOOP if a job is queued, else records the worker as sleeping on all its *)
(* functions and clears noop_queued.  One worker, registered for every     *)
(* function; a command runs atomically under the dispatcher lock.          *)
(* Each run call of the I/O thread ends by reporting the shutdown mode     *)
(* (gearman_server_thread_run, lines 251-264), reading job_count without   *)
(* the lock; an admin may ask for an immediate or a graceful shutdown, and *)
(* a graceful one refuses further SUBMITs (spec section 5).                *)
(***************************************************************************)
EXTENDS Naturals, Sequences, FiniteSets, Functions

CONSTANTS
    Funcs,     \* the functions the worker has sent CAN_DO for
    MaxJobs    \* bound on the jobs clients submit

ASSUME MaxJobs \in Nat \ {0}

Replies == {"NOOP", "NO_JOB", "JOB_ASSIGN"}
Commands == {"GRAB_JOB", "PRE_SLEEP", "WORK_COMPLETE"}

VARIABLES
    queue,          \* [f |-> jobs of f queued]
    submitted,      \* jobs submitted so far
    running,        \* jobs assigned to the worker and not complete
    sleepers,       \* functions whose sleeping list holds the worker
    noop_queued,    \* server_con->noop_queued
    outq,           \* server_con->io_packet_list: replies not yet sent
    flushPc,        \* "idle" | "sent" | "cleared": where the flush is
    toWorker,       \* replies sent and not yet read by the worker
    wire,           \* commands the worker sent that the server has not read
    procq,          \* commands read and waiting for the processing thread
    wPc,            \* worker: "grab" | "grab_wait" | "working" | "sleep_wait"
    noops,          \* NOOPs sent to the worker since its last GRAB_JOB
    job_count,      \* server->job_count: jobs queued or running
    shutdown,       \* server->shutdown
    shutdown_graceful, \* server->shutdown_graceful
    runRet          \* *ret_ptr of the last gearman_server_thread_run

ctl == <<shutdown, shutdown_graceful, runRet>>
RunRets == {"SUCCESS", "SHUTDOWN", "SHUTDOWN_GRACEFUL"}

vars == <<queue, submitted, running, sleepers, noop_queued, outq, flushPc,
          toWorker, wire, procq, wPc, noops, job_count, ctl>>

TypeOK ==
    /\ queue \in [Funcs -> 0..MaxJobs]
    /\ submitted \in 0..MaxJobs
    /\ running \in 0..1
    /\ sleepers \subseteq Funcs
    /\ noop_queued \in BOOLEAN
    /\ outq \in Seq(Replies)
    /\ flushPc \in {"idle", "sent", "cleared"}
    /\ toWorker \in Seq(Replies)
    /\ wire \in Seq(Commands)
    /\ procq \in Seq(Commands)
    /\ wPc \in {"grab", "grab_wait", "working", "sleep_wait"}
    /\ noops \in Nat
    /\ job_count \in 0..MaxJobs
    /\ shutdown \in BOOLEAN
    /\ shutdown_graceful \in BOOLEAN
    /\ runRet \in RunRets

\* A worker that has registered its functions and not yet asked for work.
Init ==
    /\ queue = [f \in Funcs |-> 0]
    /\ submitted = 0
    /\ running = 0
    /\ sleepers = {}
    /\ noop_queued = FALSE
    /\ outq = <<>>
    /\ flushPc = "idle"
    /\ toWorker = <<>>
    /\ wire = <<>>
    /\ procq = <<>>
    /\ wPc = "grab"
    /\ noops = 0
    /\ job_count = 0
    /\ shutdown = FALSE
    /\ shutdown_graceful = FALSE
    /\ runRet = "SUCCESS"

JobQueued == \E f \in Funcs : queue[f] > 0

\* gearman_server_io_packet_add of a NOOP, coalesced on noop_queued.
QueueNoop ==
    IF noop_queued
    THEN UNCHANGED <<outq, noop_queued>>
    ELSE /\ outq' = Append(outq, "NOOP")
         /\ noop_queued' = TRUE

-----------------------------------------------------------------------------
(* Processing thread: the dispatcher.                                       *)

\* A client's SUBMIT_JOB for f, refused once a graceful shutdown began:
\* queue the job and count it in job_count; if the worker sleeps on f, pop
\* it from f's sleeping list and send it a NOOP.
Submit(f) ==
    /\ ~shutdown_graceful
    /\ submitted < MaxJobs
    /\ submitted' = submitted + 1
    /\ job_count' = job_count + 1
    /\ queue' = [queue EXCEPT ![f] = @ + 1]
    /\ IF f \in sleepers
       THEN /\ sleepers' = sleepers \ {f}
            /\ QueueNoop
       ELSE UNCHANGED <<sleepers, outq, noop_queued>>
    /\ UNCHANGED <<ctl, running, flushPc, toWorker, wire, procq, wPc, noops>>

\* Mutant: GRAB_JOB takes a job without checking the queue holds one.
RunGrabAnyQueue ==
    /\ procq # <<>> /\ Head(procq) = "GRAB_JOB"
    /\ procq' = Tail(procq)
    /\ \/ \E f \in Funcs :
            /\ queue' = [queue EXCEPT ![f] = @ - 1]
            /\ running' = running + 1
            /\ outq' = Append(outq, "JOB_ASSIGN")
       \/ /\ ~JobQueued
          /\ outq' = Append(outq, "NO_JOB")
          /\ UNCHANGED <<queue, running>>
    /\ UNCHANGED <<ctl, job_count, submitted, sleepers, noop_queued, flushPc,
                   toWorker, wire, wPc, noops>>

\* GRAB_JOB: assign a queued job of any function, or answer NO_JOB.
RunGrab ==
    /\ procq # <<>> /\ Head(procq) = "GRAB_JOB"
    /\ procq' = Tail(procq)
    /\ \/ \E f \in Funcs :
            /\ queue[f] > 0
            /\ queue' = [queue EXCEPT ![f] = @ - 1]
            /\ running' = running + 1
            /\ outq' = Append(outq, "JOB_ASSIGN")
       \/ /\ ~JobQueued
          /\ outq' = Append(outq, "NO_JOB")
          /\ UNCHANGED <<queue, running>>
    /\ UNCHANGED <<ctl, job_count, submitted, sleepers, noop_queued, flushPc,
                   toWorker, wire, wPc, noops>>

\* Mutant: PRE_SLEEP records the worker as sleeping without looking at the
\* queues.
RunPreSleepBlind ==
    /\ procq # <<>> /\ Head(procq) = "PRE_SLEEP"
    /\ procq' = Tail(procq)
    /\ sleepers' = Funcs
    /\ noop_queued' = FALSE
    /\ UNCHANGED <<ctl, job_count, queue, submitted, running, outq, flushPc,
                   toWorker, wire, wPc, noops>>

\* PRE_SLEEP: answer NOOP at once if a job is queued (the missed-wake
\* check), else sleep on every function and clear noop_queued.
RunPreSleep ==
    /\ procq # <<>> /\ Head(procq) = "PRE_SLEEP"
    /\ procq' = Tail(procq)
    /\ \/ /\ JobQueued
          /\ QueueNoop
          /\ UNCHANGED sleepers
       \/ /\ ~JobQueued
          /\ sleepers' = Funcs
          /\ noop_queued' = FALSE
          /\ UNCHANGED outq
    /\ UNCHANGED <<ctl, job_count, queue, submitted, running, flushPc,
                   toWorker, wire, wPc, noops>>

\* Mutant: the finished job is not taken off job_count.
RunCompleteKeepsCount ==
    /\ procq # <<>> /\ Head(procq) = "WORK_COMPLETE"
    /\ procq' = Tail(procq)
    /\ running' = running - 1
    /\ UNCHANGED <<ctl, job_count, queue, submitted, sleepers, noop_queued,
                   outq, flushPc, toWorker, wire, wPc, noops>>

\* WORK_COMPLETE: the job is finished, removed and taken off job_count.
RunComplete ==
    /\ procq # <<>> /\ Head(procq) = "WORK_COMPLETE"
    /\ procq' = Tail(procq)
    /\ running' = running - 1
    /\ job_count' = job_count - 1
    /\ UNCHANGED <<ctl, queue, submitted, sleepers, noop_queued, outq, flushPc,
                   toWorker, wire, wPc, noops>>

\* The admin verb "shutdown" or "shutdown graceful" sets the server's flag.
AdminShutdown ==
    /\ ~shutdown
    /\ shutdown' = TRUE
    /\ UNCHANGED <<shutdown_graceful, runRet, job_count, queue, submitted,
                   running, sleepers, noop_queued, outq, flushPc, toWorker,
                   wire, procq, wPc, noops>>

AdminShutdownGraceful ==
    /\ ~shutdown_graceful
    /\ shutdown_graceful' = TRUE
    /\ UNCHANGED <<shutdown, runRet, job_count, queue, submitted, running,
                   sleepers, noop_queued, outq, flushPc, toWorker, wire, procq,
                   wPc, noops>>

-----------------------------------------------------------------------------
(* The worker's I/O thread.  Reading and flushing the connection are steps *)
(* of the same thread, so no command is read between a send and the       *)
(* removal of the packet sent.                                             *)

\* _thread_packet_read, multi-threaded: a command goes to the proc queue.
IoRead ==
    /\ flushPc = "idle"
    /\ wire # <<>>
    /\ wire' = Tail(wire)
    /\ procq' = Append(procq, Head(wire))
    /\ UNCHANGED <<ctl, job_count, queue, submitted, running, sleepers,
                   noop_queued, outq, flushPc, toWorker, wPc, noops>>

\* _thread_packet_flush: gearman_con_send of the head packet succeeds.
IoSend ==
    /\ flushPc = "idle"
    /\ outq # <<>>
    /\ toWorker' = Append(toWorker, Head(outq))
    /\ noops' = IF Head(outq) = "NOOP" THEN noops + 1 ELSE noops
    /\ flushPc' = "sent"
    /\ UNCHANGED <<ctl, job_count, queue, submitted, running, sleepers,
                   noop_queued, outq, wire, procq, wPc>>

\* Mutant: noop_queued is not cleared after a NOOP was sent.
IoClearNoopSkipped ==
    /\ flushPc = "sent"
    /\ flushPc' = "cleared"
    /\ UNCHANGED <<ctl, job_count, queue, submitted, running, sleepers,
                   noop_queued, outq, toWorker, wire, procq, wPc, noops>>

\* If the packet sent was a NOOP, clear noop_queued, without any lock: the
\* processing thread may run before the packet is removed.
IoClearNoop ==
    /\ flushPc = "sent"
    /\ noop_queued' = IF Head(outq) = "NOOP" THEN FALSE ELSE noop_queued
    /\ flushPc' = "cleared"
    /\ UNCHANGED <<ctl, job_count, queue, submitted, running, sleepers,
                   outq, toWorker, wire, procq, wPc, noops>>

\* gearman_server_io_packet_remove: take the sent packet off the list.
IoRemove ==
    /\ flushPc = "cleared"
    /\ outq' = Tail(outq)
    /\ flushPc' = "idle"
    /\ UNCHANGED <<ctl, job_count, queue, submitted, running, sleepers,
                   noop_queued, toWorker, wire, procq, wPc, noops>>

\* The shutdown mode a run call reports when it reads jobs in job_count.
ShutdownMode(jobs) ==
    CASE shutdown -> "SHUTDOWN"
      [] shutdown_graceful /\ jobs = 0 -> "SHUTDOWN"
      [] shutdown_graceful -> "SHUTDOWN_GRACEFUL"
      [] OTHER -> "SUCCESS"

\* Mutant: the run call counts only the queued jobs, not the running ones.
RunReturnQueuedOnly ==
    /\ flushPc = "idle"
    /\ runRet' = ShutdownMode(FoldFunction(+, 0, queue))
    /\ UNCHANGED <<shutdown, shutdown_graceful, job_count, queue, submitted,
                   running, sleepers, noop_queued, outq, flushPc, toWorker,
                   wire, procq, wPc, noops>>

\* End of gearman_server_thread_run, after its loops: report the shutdown
\* mode, reading job_count without the dispatcher lock, at whatever point
\* between the processing thread's steps the I/O thread reaches it.
RunReturn ==
    /\ flushPc = "idle"
    /\ runRet' = ShutdownMode(job_count)
    /\ UNCHANGED <<shutdown, shutdown_graceful, job_count, queue, submitted,
                   running, sleepers, noop_queued, outq, flushPc, toWorker,
                   wire, procq, wPc, noops>>

-----------------------------------------------------------------------------
(* The worker: GRAB_JOB; on JOB_ASSIGN work and report WORK_COMPLETE; on   *)
(* NO_JOB send PRE_SLEEP and wait for a NOOP.  A NOOP it is not waiting    *)
(* for is ignored.                                                         *)

WorkerGrab ==
    /\ wPc = "grab"
    /\ wire' = Append(wire, "GRAB_JOB")
    /\ wPc' = "grab_wait"
    /\ noops' = 0
    /\ UNCHANGED <<ctl, job_count, queue, submitted, running, sleepers,
                   noop_queued, outq, flushPc, toWorker, procq>>

WorkerRecv ==
    /\ toWorker # <<>>
    /\ toWorker' = Tail(toWorker)
    /\ LET r == Head(toWorker) IN
       \/ /\ r = "JOB_ASSIGN" /\ wPc = "grab_wait"
          /\ wPc' = "working"
          /\ UNCHANGED wire
       \/ /\ r = "NO_JOB" /\ wPc = "grab_wait"
          /\ wire' = Append(wire, "PRE_SLEEP")
          /\ wPc' = "sleep_wait"
       \/ /\ r = "NOOP" /\ wPc = "sleep_wait"
          /\ wPc' = "grab"
          /\ UNCHANGED wire
       \/ /\ r = "NOOP" /\ wPc # "sleep_wait"
          /\ UNCHANGED <<wire, wPc>>
    /\ UNCHANGED <<ctl, job_count, queue, submitted, running, sleepers,
                   noop_queued, outq, flushPc, procq, noops>>

WorkerComplete ==
    /\ wPc = "working"
    /\ wire' = Append(wire, "WORK_COMPLETE")
    /\ wPc' = "grab"
    /\ UNCHANGED <<ctl, job_count, queue, submitted, running, sleepers,
                   noop_queued, outq, flushPc, toWorker, procq, noops>>

Next ==
    \/ \E f \in Funcs : Submit(f)
    \/ RunGrab \/ RunPreSleep \/ RunComplete
    \/ IoRead \/ IoSend \/ IoClearNoop \/ IoRemove \/ RunReturn
    \/ AdminShutdown \/ AdminShutdownGraceful
    \/ WorkerGrab \/ WorkerRecv \/ WorkerComplete

\* The server threads and the worker process keep running while they can;
\* clients submit when they like, so Submit is not fair, and nothing forces
\* an admin to shut the server down.  gearmand calls the run call again on
\* every event of the thread, and each WORK_COMPLETE queues a packet for the
\* client, an event of some I/O thread: RunReturn is weakly fair.
Fairness ==
    /\ WF_vars(RunGrab) /\ WF_vars(RunPreSleep) /\ WF_vars(RunComplete)
    /\ WF_vars(IoRead) /\ WF_vars(IoSend) /\ WF_vars(IoClearNoop)
    /\ WF_vars(IoRemove)
    /\ WF_vars(RunReturn)
    /\ WF_vars(WorkerGrab) /\ WF_vars(WorkerRecv) /\ WF_vars(WorkerComplete)

Spec == Init /\ [][Next]_vars /\ Fairness

-----------------------------------------------------------------------------
(* Properties.                                                              *)

\* NOOP coalescing (spec section 8, property 7): between two GRAB_JOBs the
\* worker is sent at most one NOOP, however the dispatcher's setting of
\* noop_queued interleaves with the I/O thread clearing it after the send.
NoopCoalesced ==
    noops <= 1

\* noop_queued is never stale TRUE (spec section 3, Connection): while it
\* is set, a NOOP is on the worker's io_packet_list, queued or sent and not
\* yet removed.  A stale TRUE would make SUBMIT skip a worker that no NOOP
\* will wake.  It rests on _thread_packet_flush clearing the flag, without
\* the lock, after the send and before the remove, racing the dispatcher
\* that sets it and queues a NOOP in between.
NoopFlagNotStale ==
    noop_queued => \E i \in 1..Len(outq) : outq[i] = "NOOP"

\* No missed wake (spec section 8, property 5): a queued job is eventually
\* assigned; the worker never sleeps for good while a job waits.
NoJobStuck ==
    \A f \in Funcs : (queue[f] > 0) ~> (queue[f] = 0)

\* A run call reports GEARMAN_SHUTDOWN for a graceful shutdown only when
\* no job is queued or running, and none arrives after it: the unlocked
\* read of job_count (gearman_server_thread_run) is never stale in the
\* direction that would lose a job, because job_count only falls once
\* SUBMIT is refused and WORK_COMPLETE is what takes a job off it.
ShutdownOnlyWhenDrained ==
    (runRet = "SHUTDOWN" /\ ~shutdown)
        => (running = 0 /\ \A f \in Funcs : queue[f] = 0)

\* Once an admin asks for a shutdown, of either kind, some run call of the
\* I/O thread eventually reports GEARMAN_SHUTDOWN: the queued jobs are
\* worked off and job_count comes back to 0.
ShutdownCompletes ==
    (shutdown \/ shutdown_graceful) ~> (runRet = "SHUTDOWN")

=============================================================================
