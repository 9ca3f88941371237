# TLA+ models of the gearmand server threads

This directory holds TLA+ models of `src/libgearman/server_thread.c`, the
threading core of the gearmand job server, and the TLC configurations that
check them. `spec.md` describes the whole server. The code under `src/` is:

- the server-thread file, 447 lines;
- a client test file, `src/tests/task.cc`.

The dispatcher, the job table, the connection endpoint and the gearmand
driver live outside `src/`. Where the models need them, they are modelled
from `spec.md` and marked `spec_modelled` in `PROJECT.json`.

## 1. The system: parts and how they interact

| Part | Code | State | Operations |
|---|---|---|---|
| I/O thread (one or more) | `gearman_server_thread_run`, `_thread_packet_read`, `_thread_packet_flush` | per connection: `proc_packet_list`, `io_packet_list`, `con.events` (POLLOUT), `ret`, options DEAD/FREE; per thread: proc list, io list | run: (1) multi-threaded, drain the io list (free FREE connections, return failed ones, flush); (2) for each ready connection read packets (POLLIN), then flush (POLLOUT); (3) single-threaded, flush the io list; (4) report the shutdown mode |
| Processing thread | `_proc` | `proc_wakeup`, `proc_shutdown`, `proc_lock`, `proc_cond` | wait for a wakeup; pass over `thread_list`; per connection: a DEAD connection has its records dropped, is marked FREE and is handed back; otherwise its packets run in order, each result stored in `con->ret` |
| Thread lifecycle | `gearman_server_thread_create`, `gearman_server_thread_free`, `_proc_thread_start`, `_proc_thread_kill` | `thread_list`, `thread_count`, `proc_id` | create (start the processing thread when the second thread is created; malloc; mutex init; list add; `gearman_create`) with an exit on every failure; free (kill the processing thread if multi-threaded; free connections; list del) |
| Dispatcher (not in `src/`) | `gearman_server_run_command`, `gearman_server_proc_packet_add`, `gearman_server_io_packet_add`, `gearman_server_con_free` | jobs, worker and client records that point at connections | run a command, queue replies and forwarded packets, drop a connection's records |
| Connection endpoint (not in `src/`) | `gearman_con_recv`/`send`/`set_events` | socket buffers, `events`, `revents` | read a packet, send with `GEARMAN_IO_WAIT`, set and clear POLLOUT |
| Accessors, logging | lines 149-181, 441-446 | callbacks | setters and getters |
| Client tests | `src/tests/task.cc` | none | client-library test cases |

How the parts interact depends on `thread_count`.

With one thread, `_thread_packet_read` runs each command inline. An error from
the command makes `gearman_server_thread_run` return the connection at once,
and the caller closes it.

With several threads, the flow is:

1. An I/O thread appends each packet to the connection's proc queue.
2. It flags the connection onto its thread's proc list.
3. It sets `proc_wakeup` and signals `proc_cond`.
4. The processing thread runs the packets. Every packet a command queues puts
   the target connection on that connection's owner thread's io list.
5. That I/O thread flushes the connection the next time it runs.

A connection closed in multi-threaded mode is torn down in two steps:

1. The I/O thread marks it DEAD and hands it to the processing thread.
2. The processing thread drops the dispatcher's records of it, marks it FREE
   and hands it back.
3. Only then does the I/O thread free it.

### Hard behaviours

- **Lost wakeups.** Several I/O threads race with the processing thread on the
  wakeup flag (line 407).
- **Hang at shutdown.** Shutdown writes `proc_shutdown` outside the lock and
  then joins the processing thread (lines 371-384).
- **Concurrent queue use.** The processing thread runs a connection's queue
  while its I/O thread appends to it.
- **Interrupted flushes.** Flushes are cut short by `GEARMAN_IO_WAIT` and
  resumed from two places: the POLLOUT branch and the io list. The
  early-return gate at line 323 sits in front of both.
- **Kill before the last packets.** The first `gearman_server_thread_free`
  kills the processing thread while other I/O threads may still queue
  packets (line 118). Whether one can be left depends on the order in
  which the caller stops the I/O threads, which is not code under `src/`:
  `proc` checks only the packets whose wakeup was posted before `_proc`
  returns.
- **Teardown hand-off.** The DEAD to FREE teardown is a hand-off between two
  threads.
- **Lost errors.** `con->ret` is written by every command and read only when
  the connection next comes off the io list.
- **Unlocked NOOP flag.** The I/O thread clears a worker's `noop_queued`
  after sending a NOOP without the dispatcher lock (line 336), while the
  processing thread tests and sets it to coalesce NOOPs.
- **Unlocked job count.** At the end of every run call, a graceful shutdown
  is reported done when `job_count`, read without the dispatcher lock, is 0
  (line 256).
- **Allocation failure mid-read.** A packet allocation can fail after part
  of a read has already run or been queued (line 281).
- **Failure exits.** Every failure exit of thread creation leaves the
  processing thread in some state.

The `hazards` of `PROJECT.json` list these at the lines where they bite.

## 2. Modules

| Module | Models | State | Actions |
|---|---|---|---|
| `ProcThread` | the `proc_lock`/`proc_cond` handshake: I/O threads posting packets, `_proc`'s wait and pass, `_proc_thread_kill` | packets per I/O thread (pending, added, signalled, ran), `proc_wakeup`, `proc_shutdown`, program counters of the processing thread and of the killer | `IoQueuePacket`, `IoPostWakeup`, `ProcCheckWakeup`, `ProcSpuriousWakeup`, `ProcRunPacket`, `ProcScanDone`, `KillStart`, `KillSignal`, `KillJoin` |
| `ProcQueue` | what the processing thread promises its I/O threads, with no locks or flags: each producer puts packets on its own queue; one consumer takes them until it is closed and exits | packets queued and run per producer, closed, exited | `Put`, `Take`, `Close`, `Exit` |
| `ServerThread` | connections through the I/O threads and the processing thread: the three loops of the run call, read, flush, the processing thread's per-connection body, and DEAD to FREE teardown | the wire of each peer, proc and io queues, the proc and io lists of each thread, POLLOUT, `ret`, connection state, whether the dispatcher still references a connection; history variables `enq`, `got`, `failed` | `PeerSend`, `PeerClose`, `IoNext`, `PollRead`, `ReadPacket`, `ReadAllocFails`, `ReadEnd`, `PollWrite`, `IoNextSingle`, `ProcNext`, `ProcRun` |
| `NoopWakeup` | waking one sleeping worker, and shutting the server down: its connection's I/O thread (read, send, and the unlocked clear of `noop_queued` between send and remove), the report of the shutdown mode at the end of each run call (lines 251-264), the dispatcher's SUBMIT, GRAB_JOB, PRE_SLEEP and WORK_COMPLETE with `job_count`, the admin's shutdown verbs (from the spec), and the worker | queued jobs per function, the functions whose sleeping list holds the worker, `noop_queued`, the io list, the flush position, both directions of the wire, the proc queue, the worker's state, NOOPs since the last GRAB_JOB, `job_count`, `shutdown`, `shutdown_graceful`, the last run call's result | `Submit`, `RunGrab`, `RunPreSleep`, `RunComplete`, `IoRead`, `IoSend`, `IoClearNoop`, `IoRemove`, `RunReturn`, `AdminShutdown`, `AdminShutdownGraceful`, `WorkerGrab`, `WorkerRecv`, `WorkerComplete` |
| `ThreadLifecycle` | create and free of server threads with every failure exit, start and kill of the processing thread, and the gearmand caller (create until failure or shutdown, then free all) | `thread_list`, `thread_count`, processing-thread state, whether `proc_lock`/`cond` are initialised, `proc_shutdown`, the caller's program counter and return points | `CreateBegin`, `CreateAlloc`, `CreateMutex`, `CreateGearman`, `FreeBegin`, `FreeUnlink`, `Kill`, `Shutdown`, `Teardown` |

Each module has an MC module that binds its CONSTANTS to model values
(`MC_ProcThread`, `MC_ServerThread`, `MC_NoopWakeup`, `MC_ThreadLifecycle`).

### Refinement

`ProcThread` implements `ProcQueue`. The mapping is a `PQ == INSTANCE
ProcQueue WITH ...` at the end of `ProcThread`:

- `queued` is `pending`, the packets an I/O thread has added and the pass has
  not yet run;
- `done` is `ran`;
- `closed` is `proc_shutdown`;
- `exited` is `_proc` having returned.

Every step of the handshake is a `Put`, a `Take`, a `Close`, an `Exit` or a
stutter. The abstract fairness, that a queued packet is taken unless the
consumer exits and that a closed consumer exits, then follows from the weak
fairness of the real threads. The run `proc` checks `ImplementsProcQueue ==
PQ!Spec` as a property.

### Abstractions

- **Atomic critical sections.** A critical section under `proc_lock` or a
  thread lock is one step. `proc_shutdown` is written outside the lock, and
  its write is a step of its own, as in the code.
- **Dispatcher as effects.** `ServerThread` models the dispatcher only by its
  effect on connections. A command either fails, or queues one packet on its
  own connection or on another connection the dispatcher still references.
  The failure outcome stands for spec section 7's "memory" kind, the one that
  makes `gearman_server_run_command` return an error. A failed command queues
  nothing. `CloseCon` stands for the caller closing a returned connection
  (`gearman_server_con_free`).
- **Packets as numbers.** A packet is `<<connection, command number>>`.
- **Sends.** A send moves some prefix of the io queue to the peer. If the
  whole queue did not go, the send returned `GEARMAN_IO_WAIT` and POLLOUT
  stays set in `con.events`.
- **POLLOUT reporting.** A readiness report clears the reported bits from
  `con.events`, as `gearman_con_set_revents` does.
- **Split between modules.** `ServerThread` lets the processing thread pick
  any flagged connection. The wakeup that gets it there is checked separately
  in `ProcThread`, where packets are counts per I/O thread.
- **One worker, one connection.** `NoopWakeup` follows one worker connection
  that has sent CAN_DO for every function. A dispatcher command is one step
  under the dispatcher lock. The I/O thread's flush of one packet is three
  steps: the send (`IoSend`), the clear of `noop_queued` if the packet was a
  NOOP (`IoClearNoop`, line 336, no lock held), and the remove under the
  thread lock (`IoRemove`, line 338). The processing thread may run between
  any two of them, so a SUBMIT can queue a new NOOP after the flag is cleared
  and before the sent NOOP is removed. Reading and flushing are steps of the same I/O
  thread, so no command is read while a sent packet waits to be removed.
- **Shutdown report.** `RunReturn` is the end of any run call of the
  worker's I/O thread. It may happen between any two steps of the
  processing thread, which is how the unlocked read of `job_count` is
  modelled: the int is read whole, at some point of the interleaving, and it
  is the value last written. The model is sequentially consistent, so a read
  of an older value is not explored. SUBMIT
  is refused once a graceful shutdown has begun (spec section 5), and
  WORK_COMPLETE takes the job off `job_count`.
- **Allocation failure on read.** `ReadAllocFails` is enabled by the constant
  `PacketAllocMayFail`. It is TRUE only in `conn_single`, to keep the
  multi-threaded runs within their time.
- **Kill as one step.** In `ThreadLifecycle` a kill of a started processing
  thread is one step; `ProcThread` checks that this join returns. A kill of a
  processing thread that was never started is undefined behaviour. It is
  recorded in `badJoin`, and the model continues as if the calls returned.

## 3. Runs

| Run | cfg | Checks | Shows |
|---|---|---|---|
| `proc` | `MC_ProcThread.cfg` | `TypeOK`, `IdleOnlyWhenDrained`, `KillCompletes`, `ImplementsProcQueue` | with the I/O threads free to post during and after the kill: no lost wakeup (when the processing thread blocks or returns, every posted packet has run); the kill's join returns; the handshake refines `ProcQueue` |
| `conn_multi` | `MC_ServerThread_multi.cfg` | `TypeOK`, `DeliveredInQueueOrder`, `FreedConUnreferenced` | with 2 I/O threads and the processing thread: replies arrive in queue order across `GEARMAN_IO_WAIT`; no connection is freed while referenced |
| `conn_multi_live` | `MC_ServerThread_multi_live.cfg` | `OutputDelivered`, `QueuedCommandsRun` | queued replies are sent; queued packets are run |
| `conn_single` | `MC_ServerThread_single.cfg` | `OutputDelivered` | single-threaded: replies are sent, also to a connection whose peer's read failed to allocate a packet midway |
| `conn_multi_error` | `MC_ServerThread_multi_error.cfg` | `CommandErrorClosesCon` (violation) | multi-threaded, a failing command never closes its connection (finding 1) |
| `noop` | `MC_NoopWakeup.cfg` | `TypeOK`, `NoopFlagNotStale`, `NoJobStuck`, `ShutdownOnlyWhenDrained`, `ShutdownCompletes` | `noop_queued` is never set while no NOOP is on the worker's io list, although the I/O thread clears it without the lock between the send and the remove; no job stays queued while the worker sleeps; the unlocked read of `job_count` never reports a graceful shutdown done while a job is queued or running, and a requested shutdown is eventually reported |
| `noop_coalesce` | `MC_NoopWakeup_coalesce.cfg` | `NoopCoalesced` (violation) | a worker sleeping on two functions gets two NOOPs before its next GRAB_JOB (finding 4) |
| `life` | `MC_ThreadLifecycle.cfg` | `TypeOK` | every create and free path, each failure included, is taken and keeps the state well formed; the failure paths' properties are checked by the three runs below |
| `life_ok` | `MC_ThreadLifecycle_ok.cfg` | `ProcJoinedAtTeardown` | with no failure, freeing all threads joins the processing thread |
| `life_malloc` | `MC_ThreadLifecycle_malloc.cfg` | `NoJoinOfUnstartedProc` (violation) | finding 2 |
| `life_mutex` | `MC_ThreadLifecycle_mutex.cfg` | `ProcJoinedAtTeardown` (violation) | finding 3 |

Each property of a passing run has a mutant in `PROJECT.json`: a plausible
bug in the definition that models the code. With the mutant in place, TLC
finds the property violated. Examples:

- the wakeup flag cleared after the pass instead of before it;
- a dropped signal in the kill;
- CON_DEAD tested instead of CON_FREE;
- a send that drops the packet that would block;
- `noop_queued` not cleared after a NOOP is sent;
- off-by-one in when a free kills the processing thread.

### Findings

1. **Multi-threaded command errors are lost** (`server_thread.c:432`, with
   202). `_proc` stores a command's result in `con->ret`. The I/O thread reads
   it only when the connection is on its io list. A failing command queues no
   packet, so nothing puts the connection there, and the next successful
   command overwrites `ret`. The connection stays open, although
   single-threaded the same error closes it (lines 304-305) and spec section
   7 says an allocation failure drops the connection.
2. **Join of a processing thread that was never started**
   (`server_thread.c:79`). `gearman_server_thread_create(server, NULL)` with
   a failing malloc for the first thread calls `_proc_thread_kill`. That
   locks and signals a mutex and a condition variable that were never
   initialised, and joins an unset thread id. gearmand itself passes its
   own structure, so only other callers of the library reach this.
3. **Processing thread never joined** (`server_thread.c:91`). A failing
   `pthread_mutex_init` while creating the second thread returns NULL
   without killing the processing thread it just started. `thread_count` is
   still 1, so no later `gearman_server_thread_free` kills it, and the thread
   outlives the server whose lists it reads.
4. **NOOPs are not coalesced across functions** (`server_thread.c:336`, a
   divergence from spec section 8, property 7). `_thread_packet_flush`
   clears `noop_queued` as soon as the NOOP is sent, not when the worker next
   sends GRAB_JOB. SUBMIT pops the worker from the sleeping list of one
   function only. The worker sleeps on `f1` and `f2`; a job for `f1` sends it
   a NOOP; a job for `f2` then finds `noop_queued` clear and queues a second
   one before the worker has grabbed. A worker ignores a NOOP it is not
   waiting for, so the cost is one extra packet. The unlocked clear itself is
   does not lose a wake: `noop` shows the flag is never set while no NOOP is
   queued. It can be clear while a sent NOOP is still on the list, so the
   list can hold two NOOPs, unlike spec section 3's "true iff exactly one
   NOOP" on the connection.

## 4. Bounds, and why they are enough

- **`ProcThread`:** 2 I/O threads, 2 packets each. Two threads let a packet
  be queued on a list the pass has already visited, and a second packet
  exercises a repeated wakeup. 2,104 states.
- **`ServerThread`:** 2 connections.
  - Safety runs: 2 commands per peer. Multi-threaded, each connection has its
    own thread, so the processing thread queues across threads. This lets a
    command of one connection forward a packet to the other, and makes a
    flush be interrupted between two packets. 2.3M states, about 2 minutes.
  - Liveness runs: `c1` sends 2 commands and `c2` sends 1, which keeps the
    liveness graph small (166k states). The single-threaded runs put both
    connections on one thread.
  - Sends may move any prefix of the queue. Peers may close at any time.
    Commands may fail at any time.
- **`NoopWakeup`:** 2 functions and 3 jobs (17,586 states, with an admin
  shutdown of either kind possible at any point). Two functions let
  two submissions reach one worker sleeping on both. Three jobs let a
  submission land while a NOOP has been sent but not yet removed, after the
  worker has already worked one job and gone back to sleep.
- **`ThreadLifecycle`:** 3 thread structures. This is enough for the start of
  the processing thread (at the second) and a create after it (the third),
  and for frees at 2, 1 and 0 remaining threads. The fault sets enable one
  failing call kind, or all of them.

## 5. Fairness

The threads are OS threads that keep running while they have work, so their
steps are weakly fair.

Fairness is placed on the instance of each flush that sends the whole queue.
The reason is that a live peer reads its socket, so the socket eventually
accepts what is queued.

Some steps are not fair:

- **Peers.** They may stay silent or keep their connection open.
- **Shutdown.** Nothing forces the server to shut down.
- **Spurious wakeups.** They are allowed but never required.
- **Clients.** In `NoopWakeup` a client submits when it likes.

`RunReturn` is weakly fair. gearmand calls the run call again on every event
of the thread. Each WORK_COMPLETE queues a packet for the client, which is
an event of some I/O thread, and every I/O thread ends its run call with
the same report.

The bounded systems really stop: all peers are done and all queues are
drained, or the lifecycle caller is done. So the cfgs say
`CHECK_DEADLOCK FALSE`.

## 6. Not modelled, and the plan

Not modelled yet:

- gearmand's teardown after a run call reports `GEARMAN_SHUTDOWN`, and an
  immediate shutdown's abandoned jobs; both are outside `src/`;
- a failing packet allocation in the multi-threaded runs (see
  Abstractions);
- the rest of the dispatcher: job priorities, background jobs, several
  workers, worker disconnect and requeue. `gearman_server_run_command` and
  the job table are not under `src/`; the models take from the spec only the
  commands whose effects the server-thread code depends on (a queued reply
  or NOOP, `noop_queued`, `job_count`), and more of it would check the spec
  against itself rather than this code;
- the accessors and logging (lines 149-181, 441-446), which only read or
  store callbacks and change no state the threads share;
- the connection endpoint and codec, which are abstracted;
- `src/tests/task.cc`. Its low-background test calls
  `gearman_client_add_task_high_background` (line 230), so the LOW_BG path is
  untested; the client library is not under `src/`.

Further work:

1. **`Dispatch`**, modelled from spec sections 4.3 and 8: jobs per
   (function, priority) FIFO, several workers, worker disconnect with requeue
   at the head; an abstract `JobQueue` that it refines; invariants 1, 2 and 6
   of spec section 8.
2. **A POLLOUT stickiness run.** Spec section 4.1 says POLLOUT stays set
   until the outbound side drains. The code clears it on every report (line
   232). A run will ask whether the spec's reading would starve the flush
   gate at line 323.
