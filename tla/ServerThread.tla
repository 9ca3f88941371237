---------------------------- MODULE ServerThread ----------------------------
(***************************************************************************)
(* The connection side of the gearmand server threads                      *)
(* (libgearman/server_thread.c): gearman_server_thread_run with its three  *)
(* loops, _thread_packet_read, _thread_packet_flush, and the per-connection *)
(* part of the processing thread _proc; together with the two things they  *)
(* call that live outside server_thread.c and are modelled from the spec:  *)
(* handing a packet to the processing thread, and closing a connection     *)
(* that gearman_server_thread_run returned with an error (DEAD, then FREE). *)
(*                                                                         *)
(* With one I/O thread (thread_count = 1) commands run inline in the read  *)
(* loop; with more, packets go to the processing thread through the        *)
(* connection's proc queue and replies come back through its io list.      *)
(* The dispatcher (gearman_server_run_command) is abstracted to its effect *)
(* on the connections: a command either fails, or queues one packet on its *)
(* own connection (a reply) or on another connection the dispatcher still  *)
(* references (a forwarded WORK_* / NOOP).  The wakeup of the processing   *)
(* thread is checked in ProcThread; here it picks any flagged connection.  *)
(***************************************************************************)
EXTENDS Naturals, Sequences, SequencesExt, FiniteSets

CONSTANTS
    Threads,   \* the I/O threads
    Conns,     \* the connections
    Owner,     \* [Conns -> Threads]: server_con->thread
    MaxCmds,   \* [Conns -> Nat]: bound on the commands each peer sends
    NoCon,     \* no connection
    PacketAllocMayFail  \* gearman_server_packet_create may return NULL

ASSUME /\ Owner \in [Conns -> Threads]
       /\ MaxCmds \in [Conns -> Nat \ {0}]
       /\ NoCon \notin Conns
       /\ PacketAllocMayFail \in BOOLEAN

\* The largest command number, and the most packets one connection can be
\* sent.
CmdMax == Max({MaxCmds[c] : c \in Conns})
OutMax == FoldFunction(+, 0, MaxCmds)

\* server->thread_count > 1: a processing thread runs the commands.
Multi == Cardinality(Threads) > 1

\* A packet queued to a connection: <<connection of the command, its number>>.
Packets == Conns \X (1..CmdMax)

VARIABLES
    wire,        \* [c |-> commands the peer sent that the server has not read]
    nsent,       \* [c |-> commands the peer has sent]
    peerClosed,  \* [c |-> the peer closed its end]
    procq,       \* [c |-> con->proc_packet_list]
    procReady,   \* [t |-> connections on t's proc list]
    ioReady,     \* [t |-> connections on t's io list]
    outq,        \* [c |-> con->io_packet_list]
    pollout,     \* [c |-> POLLOUT is set in con->con.events]
    ret,         \* [c |-> con->ret]
    st,          \* [c |-> "open" | "dead" (CON_DEAD) | "free" (CON_FREE) | "freed"]
    refs,        \* [c |-> the dispatcher still holds worker/client records of c]
    rdCon,       \* [t |-> connection t is in _thread_packet_read for, or NoCon]
    rdOut,       \* [t |-> POLLOUT was among that connection's revents]
    procCur,     \* connection whose packets the processing thread is running
    enq,         \* [c |-> every packet queued on c, in queue order]
    got,         \* [c |-> every packet the peer of c received, in order]
    failed       \* [c |-> some command of c returned an error]

peer == <<wire, nsent, peerClosed>>
conn == <<procq, outq, pollout, ret, st, refs>>
sched == <<procReady, ioReady, rdCon, rdOut, procCur>>
hist == <<enq, got, failed>>
vars == <<peer, conn, sched, hist>>

\* The connections of thread t (server_con->thread = t): the proc and io
\* lists of t hold only these.
OwnedBy(t) == {c \in Conns : Owner[c] = t}

TypeOK ==
    /\ wire \in [Conns -> Seq(1..CmdMax)]
    /\ nsent \in [Conns -> 0..CmdMax]
    /\ peerClosed \in [Conns -> BOOLEAN]
    /\ procq \in [Conns -> Seq(1..CmdMax)]
    /\ procReady \in [Threads -> SUBSET Conns]
    /\ ioReady \in [Threads -> SUBSET Conns]
    /\ \A t \in Threads : procReady[t] \cup ioReady[t] \subseteq OwnedBy(t)
    /\ outq \in [Conns -> Seq(Packets)]
    /\ pollout \in [Conns -> BOOLEAN]
    /\ ret \in [Conns -> {"SUCCESS", "ERROR"}]
    /\ st \in [Conns -> {"open", "dead", "free", "freed"}]
    /\ refs \in [Conns -> BOOLEAN]
    /\ rdCon \in [Threads -> Conns \cup {NoCon}]
    /\ rdOut \in [Threads -> BOOLEAN]
    /\ procCur \in Conns \cup {NoCon}
    /\ enq \in [Conns -> Seq(Packets)]
    /\ got \in [Conns -> Seq(Packets)]
    /\ failed \in [Conns -> BOOLEAN]

Init ==
    /\ wire = [c \in Conns |-> <<>>]
    /\ nsent = [c \in Conns |-> 0]
    /\ peerClosed = [c \in Conns |-> FALSE]
    /\ procq = [c \in Conns |-> <<>>]
    /\ procReady = [t \in Threads |-> {}]
    /\ ioReady = [t \in Threads |-> {}]
    /\ outq = [c \in Conns |-> <<>>]
    /\ pollout = [c \in Conns |-> FALSE]
    /\ ret = [c \in Conns |-> "SUCCESS"]
    /\ st = [c \in Conns |-> "open"]
    /\ refs = [c \in Conns |-> TRUE]
    /\ rdCon = [t \in Threads |-> NoCon]
    /\ rdOut = [t \in Threads |-> FALSE]
    /\ procCur = NoCon
    /\ enq = [c \in Conns |-> <<>>]
    /\ got = [c \in Conns |-> <<>>]
    /\ failed = [c \in Conns |-> FALSE]

-----------------------------------------------------------------------------
(* Helpers for calls that change connection state.                         *)

\* The connections a command of c may queue a packet on: its own, and any
\* other whose worker or client records the dispatcher still holds.
Targets(c) == {c} \cup {d \in Conns \ {c} : refs[d]}

\* Mutant: d is put on the io list of the thread that ran the command.
IoPacketAddRunnerThread(d, p) ==
    /\ outq' = [outq EXCEPT ![d] = Append(@, p)]
    /\ enq' = [enq EXCEPT ![d] = Append(@, p)]
    /\ ioReady' = [ioReady EXCEPT ![Owner[p[1]]] = @ \cup {d}]

\* gearman_server_io_packet_add: append p to d's io_packet_list and put d on
\* its thread's io list (gearman_server_con_io_add).
IoPacketAdd(d, p) ==
    /\ outq' = [outq EXCEPT ![d] = Append(@, p)]
    /\ enq' = [enq EXCEPT ![d] = Append(@, p)]
    /\ ioReady' = [ioReady EXCEPT ![Owner[d]] = @ \cup {d}]

\* Mutant: the packet whose send returned GEARMAN_IO_WAIT is removed too.
SendDropsOnWait(c, k) ==
    /\ outq' = [outq EXCEPT ![c] =
                   SubSeq(@, IF k < Len(@) THEN k + 2 ELSE k + 1, Len(@))]
    /\ got' = [got EXCEPT ![c] = @ \o SubSeq(outq[c], 1, k)]
    /\ pollout' = [pollout EXCEPT ![c] = k < Len(outq[c])]

\* Mutant: GEARMAN_IO_WAIT does not leave POLLOUT set.
SendNoPollout(c, k) ==
    /\ outq' = [outq EXCEPT ![c] = SubSeq(@, k + 1, Len(@))]
    /\ got' = [got EXCEPT ![c] = @ \o SubSeq(outq[c], 1, k)]
    /\ pollout' = [pollout EXCEPT ![c] = FALSE]

\* The send loop of _thread_packet_flush: the first k packets of the queue
\* are sent and removed; the k+1st returns GEARMAN_IO_WAIT, which leaves
\* POLLOUT set; when all are sent, POLLOUT is cleared.
Send(c, k) ==
    /\ outq' = [outq EXCEPT ![c] = SubSeq(@, k + 1, Len(@))]
    /\ got' = [got EXCEPT ![c] = @ \o SubSeq(outq[c], 1, k)]
    /\ pollout' = [pollout EXCEPT ![c] = k < Len(outq[c])]

\* _thread_packet_flush: return GEARMAN_IO_WAIT at once while POLLOUT is set.
Flush(c, k) ==
    IF pollout[c] THEN UNCHANGED <<outq, got, pollout>> ELSE Send(c, k)

\* A send fails once the socket is closed, by the peer or by the server.
FlushFails(c) ==
    /\ ~pollout[c]
    /\ outq[c] # <<>>
    /\ (peerClosed[c] \/ st[c] # "open")

\* The caller of gearman_server_thread_run closes the connection it returned
\* with an error, and gearman_server_con_free runs.  Multi-threaded, the
\* connection is only marked CON_DEAD and put on its proc list, so that the
\* processing thread drops the dispatcher's records of it; single-threaded,
\* the records and the connection are freed at once.  io is the io list the
\* caller leaves behind.
CloseCon(c, io) ==
    IF Multi
    THEN /\ st' = [st EXCEPT ![c] = "dead"]
         /\ procReady' = [procReady EXCEPT ![Owner[c]] = @ \cup {c}]
         /\ ioReady' = io
         /\ UNCHANGED <<refs, outq>>
    ELSE /\ st' = [st EXCEPT ![c] = "freed"]
         /\ refs' = [refs EXCEPT ![c] = FALSE]
         /\ outq' = [outq EXCEPT ![c] = <<>>]
         /\ ioReady' = [io EXCEPT ![Owner[c]] = @ \ {c}]
         /\ UNCHANGED procReady

\* gearman_server_proc_packet_add: append the packet to the connection's
\* proc queue and put the connection on its thread's proc list.
ProcPacketAdd(t, c, n) ==
    /\ procq' = [procq EXCEPT ![c] = Append(@, n)]
    /\ procReady' = [procReady EXCEPT ![t] = @ \cup {c}]

-----------------------------------------------------------------------------
(* The peer of each connection.                                             *)

PeerSend(c) ==
    /\ st[c] = "open"
    /\ ~peerClosed[c]
    /\ nsent[c] < MaxCmds[c]
    /\ wire' = [wire EXCEPT ![c] = Append(@, nsent[c] + 1)]
    /\ nsent' = [nsent EXCEPT ![c] = @ + 1]
    /\ UNCHANGED <<peerClosed, conn, sched, hist>>

PeerClose(c) ==
    /\ st[c] = "open"
    /\ ~peerClosed[c]
    /\ peerClosed' = [peerClosed EXCEPT ![c] = TRUE]
    /\ UNCHANGED <<wire, nsent, conn, sched, hist>>

-----------------------------------------------------------------------------
(* An I/O thread: gearman_server_thread_run and the functions it calls.    *)
(* gearman_server_thread_run is called again each time the thread's event  *)
(* loop fires, so its loops are actions the thread may take at any time;   *)
(* only the read loop keeps its place, in rdCon.                           *)

\* Mutant: CON_DEAD is tested instead of CON_FREE.
ConDeadFlagged(c) == st[c] \in {"dead", "free"}

\* The processing thread has set CON_FREE on c.
ConFreeFlagged(c) == st[c] = "free"

\* gearman_server_con_free of a connection the processing thread marked
\* CON_FREE: it leaves the thread's lists and its queued packets are freed.
FreeCon(c, io) ==
    /\ st' = [st EXCEPT ![c] = "freed"]
    /\ outq' = [outq EXCEPT ![c] = <<>>]
    /\ ioReady' = io
    /\ procReady' = [procReady EXCEPT ![Owner[c]] = @ \ {c}]

\* Multi-threaded, first loop of gearman_server_thread_run: take c off the
\* io list; free it if CON_FREE, return it if a command left con->ret set,
\* else flush the packets the processing thread queued.
IoNext(t, c, k) ==
    /\ Multi
    /\ rdCon[t] = NoCon
    /\ c \in ioReady[t]
    /\ k \in 0..Len(outq[c])
    /\ LET io == [ioReady EXCEPT ![t] = @ \ {c}] IN
       \/ /\ ConFreeFlagged(c)
          /\ FreeCon(c, io)
          /\ UNCHANGED <<peer, procq, pollout, ret, refs, rdCon, rdOut,
                         procCur, hist>>
       \/ /\ ~ConFreeFlagged(c)
          /\ \/ /\ ret[c] # "SUCCESS" \/ FlushFails(c)
                /\ CloseCon(c, io)
                /\ UNCHANGED <<peer, procq, pollout, ret, rdCon, rdOut,
                               procCur, hist>>
             \/ /\ ret[c] = "SUCCESS"
                /\ Flush(c, k)
                /\ ioReady' = io
                /\ UNCHANGED <<peer, procq, ret, st, refs, procReady, rdCon,
                               rdOut, procCur, enq, failed>>

\* Second loop: gearman_con_ready yields c with revents POLLIN (data or end
\* of stream); gearman_con_set_revents clears the reported bits from
\* con.events, and _thread_packet_read starts.
PollRead(t, c) ==
    /\ rdCon[t] = NoCon
    /\ Owner[c] = t
    /\ st[c] = "open"
    /\ wire[c] # <<>> \/ peerClosed[c]
    /\ rdCon' = [rdCon EXCEPT ![t] = c]
    /\ rdOut' = [rdOut EXCEPT ![t] = pollout[c]]
    /\ pollout' = [pollout EXCEPT ![c] = FALSE]
    /\ UNCHANGED <<peer, procq, outq, ret, st, refs, procReady, ioReady,
                   procCur, hist>>

\* Second loop: gearman_con_ready yields c with revents POLLOUT only: the bit
\* is cleared from con.events and the packets are flushed.
PollWrite(t, c, k) ==
    /\ rdCon[t] = NoCon
    /\ Owner[c] = t
    /\ st[c] = "open"
    /\ wire[c] = <<>> /\ ~peerClosed[c]
    /\ pollout[c]
    /\ k \in 0..Len(outq[c])
    /\ Send(c, k)
    /\ UNCHANGED <<peer, procq, ret, st, refs, sched, enq, failed>>

\* Single-threaded, gearman_server_run_command returned an error: the read
\* loop returns it, and gearman_server_thread_run returns c to be closed.
InlineCommandError(t, c) ==
    /\ failed' = [failed EXCEPT ![c] = TRUE]
    /\ CloseCon(c, ioReady)
    /\ rdCon' = [rdCon EXCEPT ![t] = NoCon]
    /\ UNCHANGED <<nsent, peerClosed, procq, pollout, ret, rdOut, procCur, enq,
                   got>>

\* _thread_packet_read, one turn of its loop: gearman_con_recv returns a
\* complete packet.  Single-threaded, the command runs here, and an error
\* ends the loop and makes gearman_server_thread_run return c; multi-threaded,
\* the packet goes to the processing thread.
ReadPacket(t) ==
    LET c == rdCon[t]
        n == Head(wire[c])
    IN
    /\ c # NoCon
    /\ wire[c] # <<>>
    /\ wire' = [wire EXCEPT ![c] = Tail(@)]
    /\ \/ /\ Multi
          /\ ProcPacketAdd(t, c, n)
          /\ UNCHANGED <<nsent, peerClosed, outq, pollout, ret, st, refs,
                         ioReady, rdCon, rdOut, procCur, hist>>
       \/ /\ ~Multi
          /\ \/ /\ \E d \in Targets(c) : IoPacketAdd(d, <<c, n>>)
                /\ UNCHANGED <<nsent, peerClosed, procq, pollout, ret, st,
                               refs, procReady, rdCon, rdOut, procCur, got,
                               failed>>
             \/ InlineCommandError(t, c)

\* _thread_packet_read, top of a turn of its loop: gearman_server_packet_create
\* returns NULL, the read returns GEARMAN_MEMORY_ALLOCATION_FAILURE, and
\* gearman_server_thread_run returns c to be closed, with the commands the
\* peer sent after it unread and those queued earlier in the same read
\* still on the proc queue.
ReadAllocFails(t) ==
    LET c == rdCon[t] IN
    /\ PacketAllocMayFail
    /\ c # NoCon
    /\ rdCon' = [rdCon EXCEPT ![t] = NoCon]
    /\ CloseCon(c, ioReady)
    /\ UNCHANGED <<peer, procq, pollout, ret, rdOut, procCur, hist>>

\* _thread_packet_read ends: gearman_con_recv returns GEARMAN_IO_WAIT, and
\* the loop of gearman_server_thread_run flushes c if POLLOUT was reported;
\* or it returns an error (end of stream), and c is returned and closed.
ReadEnd(t, k) ==
    LET c == rdCon[t] IN
    /\ c # NoCon
    /\ wire[c] = <<>>
    /\ k \in 0..Len(outq[c])
    /\ rdCon' = [rdCon EXCEPT ![t] = NoCon]
    /\ \/ /\ peerClosed[c] \/ (rdOut[t] /\ FlushFails(c))
          /\ CloseCon(c, ioReady)
          /\ UNCHANGED <<peer, procq, pollout, ret, rdOut, procCur, hist>>
       \/ /\ ~peerClosed[c]
          /\ IF rdOut[t] THEN Flush(c, k) ELSE UNCHANGED <<outq, got, pollout>>
          /\ UNCHANGED <<peer, procq, ret, st, refs, procReady, ioReady, rdOut,
                         procCur, enq, failed>>

\* Single-threaded, third loop: flush the connections whose commands queued
\* packets in this call.
IoNextSingle(t, c, k) ==
    /\ ~Multi
    /\ rdCon[t] = NoCon
    /\ c \in ioReady[t]
    /\ k \in 0..Len(outq[c])
    /\ LET io == [ioReady EXCEPT ![t] = @ \ {c}] IN
       \/ /\ FlushFails(c)
          /\ CloseCon(c, io)
          /\ UNCHANGED <<peer, procq, pollout, ret, rdCon, rdOut, procCur,
                         hist>>
       \/ /\ Flush(c, k)
          /\ ioReady' = io
          /\ UNCHANGED <<peer, procq, ret, st, refs, procReady, rdCon, rdOut,
                         procCur, enq, failed>>

-----------------------------------------------------------------------------
(* The processing thread, per connection: the body of the pass in _proc.   *)

\* gearman_server_con_proc_next yields c.  If it is CON_DEAD, drop the
\* dispatcher's records of it (gearman_server_con_free_workers,
\* gearman_server_client_free), mark it CON_FREE and hand it back to its I/O
\* thread; otherwise start running its packets.
ProcNext(c) ==
    /\ Multi
    /\ procCur = NoCon
    /\ c \in procReady[Owner[c]]
    /\ procReady' = [procReady EXCEPT ![Owner[c]] = @ \ {c}]
    /\ \/ /\ st[c] \in {"dead", "free"}
          /\ refs' = [refs EXCEPT ![c] = FALSE]
          /\ st' = [st EXCEPT ![c] = "free"]
          /\ ioReady' = [ioReady EXCEPT ![Owner[c]] = @ \cup {c}]
          /\ UNCHANGED <<peer, procq, outq, pollout, ret, rdCon, rdOut,
                         procCur, hist>>
       \/ /\ st[c] = "open"
          /\ procCur' = c
          /\ UNCHANGED <<peer, conn, ioReady, rdCon, rdOut, hist>>

\* gearman_server_proc_packet_remove: the oldest packet of the proc queue,
\* and the queue without it.
ProcPacketRemove(c) == <<Head(procq[c]), Tail(procq[c])>>

\* Mutant: the inner loop runs one packet and moves on.
KeepRunningOnce(c) == procCur' = NoCon

\* The inner while (1) stays on c after running a packet.
KeepRunning(c) == procCur' = c

\* One turn of the inner loop: take the next packet and run its command,
\* storing the result in con->ret; stop when the queue is empty.
ProcRun ==
    LET c == procCur IN
    /\ c # NoCon
    /\ \/ /\ procq[c] = <<>>
          /\ procCur' = NoCon
          /\ UNCHANGED <<peer, conn, procReady, ioReady, rdCon, rdOut, hist>>
       \/ /\ procq[c] # <<>>
          /\ LET n == ProcPacketRemove(c)[1] IN
             /\ procq' = [procq EXCEPT ![c] = ProcPacketRemove(c)[2]]
             /\ \/ /\ \E d \in Targets(c) : IoPacketAdd(d, <<c, n>>)
                   /\ ret' = [ret EXCEPT ![c] = "SUCCESS"]
                   /\ UNCHANGED failed
                \/ /\ ret' = [ret EXCEPT ![c] = "ERROR"]
                   /\ failed' = [failed EXCEPT ![c] = TRUE]
                   /\ UNCHANGED <<outq, enq, ioReady>>
          /\ KeepRunning(c)
          /\ UNCHANGED <<peer, pollout, st, refs, procReady, rdCon, rdOut,
                         got>>

-----------------------------------------------------------------------------
Next ==
    \/ \E c \in Conns : PeerSend(c) \/ PeerClose(c) \/ ProcNext(c)
    \/ ProcRun
    \/ \E t \in Threads :
         \/ ReadPacket(t)
         \/ ReadAllocFails(t)
         \/ \E c \in Conns : PollRead(t, c)
         \/ \E c \in Conns, k \in 0..OutMax :
              IoNext(t, c, k) \/ PollWrite(t, c, k) \/ IoNextSingle(t, c, k)
         \/ \E k \in 0..OutMax : ReadEnd(t, k)

\* The I/O threads and the processing thread keep running while they have
\* work, so their steps are weakly fair.  Fairness is put on the instance of
\* each flushing step that sends the whole queue: a live peer reads its
\* socket, so the socket eventually takes what is queued.  The peers are not
\* fair: a client or worker may stay silent or keep its connection open.
Fairness ==
    /\ \A t \in Threads :
         /\ WF_vars(ReadPacket(t))
         /\ \A c \in Conns :
              /\ WF_vars(rdCon[t] = c /\ ReadEnd(t, Len(outq[c])))
              /\ WF_vars(PollRead(t, c))
              /\ WF_vars(IoNext(t, c, Len(outq[c])))
              /\ WF_vars(PollWrite(t, c, Len(outq[c])))
              /\ WF_vars(IoNextSingle(t, c, Len(outq[c])))
    /\ \A c \in Conns : WF_vars(ProcNext(c))
    /\ WF_vars(ProcRun)

Spec == Init /\ [][Next]_vars /\ Fairness

-----------------------------------------------------------------------------
(* Properties.                                                              *)

\* The peer receives the packets queued on its connection in the order they
\* were queued, none lost and none repeated, however _thread_packet_flush is
\* interrupted by GEARMAN_IO_WAIT and resumed from the POLLOUT branch or from
\* the io list.
DeliveredInQueueOrder ==
    \A c \in Conns : IsPrefix(got[c], enq[c])

\* A connection is freed only after the dispatcher has dropped every record
\* that points to it, so no command can queue a packet on freed memory.
\* Multi-threaded this is the DEAD -> FREE hand-off between the I/O thread
\* and the processing thread.
FreedConUnreferenced ==
    \A c \in Conns : st[c] = "freed" => ~refs[c]

\* Every packet queued on an open connection is sent to its peer (sending
\* is the only way out of the queue): a flush cut short by GEARMAN_IO_WAIT
\* is resumed, and packets the processing thread queues are picked up from
\* the io list.
OutputDelivered ==
    \A c \in Conns : (outq[c] # <<>>) ~> (outq[c] = <<>> \/ st[c] # "open")

\* Every packet handed to the processing thread is run (running is the only
\* way out of the proc queue), unless its connection dies first.
QueuedCommandsRun ==
    \A c \in Conns : (procq[c] # <<>>) ~> (procq[c] = <<>> \/ st[c] # "open")

\* A command that returns an error gets its connection closed (spec section
\* 7: an allocation failure drops the connection): single-threaded, the read
\* loop returns the error to the caller at once.
CommandErrorClosesCon ==
    \A c \in Conns : failed[c] ~> (st[c] # "open")

=============================================================================
