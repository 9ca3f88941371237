--------------------------- MODULE ThreadLifecycle ---------------------------
(***************************************************************************)
(* Creating and freeing the I/O threads of a gearmand server, and the      *)
(* processing thread that comes and goes with them                         *)
(* (libgearman/server_thread.c: gearman_server_thread_create,              *)
(* gearman_server_thread_free, _proc_thread_start, _proc_thread_kill).     *)
(* The caller (gearmand) creates threads at start-up and, when one         *)
(* creation fails or the server stops, frees every thread on the list;    *)
(* that caller is modelled from the spec (section 7: a thread-spawn        *)
(* failure is fatal).  The steps of a create or a free run one after the   *)
(* other on the calling thread; the wakeup and join handshake with the     *)
(* processing thread is checked in ProcThread, so a join of a started      *)
(* processing thread is one step here.                                     *)
(***************************************************************************)
EXTENDS Naturals, FiniteSets

CONSTANTS
    ThreadIds,  \* the gearman_server_thread_st structures a caller may create
    Faults,     \* the calls that may fail: a subset of FaultKinds
    NoThread

FaultKinds == {"proc_start", "malloc", "mutex_init", "gearman_create"}

ASSUME /\ Faults \subseteq FaultKinds
       /\ NoThread \notin ThreadIds

VARIABLES
    threads,        \* server->thread_list
    thread_count,   \* server->thread_count, kept by GEARMAN_LIST_ADD / _DEL
    created,        \* threads a create has been called for
    procState,      \* processing thread: "none" | "running" | "exited"
    procObjs,       \* proc_lock and proc_cond: "uninit" | "init" | "destroyed"
    proc_shutdown,  \* server->proc_shutdown
    badJoin,        \* _proc_thread_kill joined a thread that was never started
    pc,             \* where the calling thread is
    cur,            \* the thread being created or freed
    prealloc,       \* the caller passed its own structure (thread != NULL)
    afterKill,      \* where _proc_thread_kill returns to
    afterFree       \* where gearman_server_thread_free returns to

vars == <<threads, thread_count, created, procState, procObjs, proc_shutdown, badJoin, pc,
          cur, prealloc, afterKill, afterFree>>

Pcs == {"idle", "alloc", "mutex", "gcreate", "kill", "free", "unlink",
        "teardown", "done"}

TypeOK ==
    /\ threads \subseteq ThreadIds
    /\ thread_count \in 0..Cardinality(ThreadIds)
    /\ created \subseteq ThreadIds
    /\ procState \in {"none", "running", "exited"}
    /\ procObjs \in {"uninit", "init", "destroyed"}
    /\ proc_shutdown \in BOOLEAN
    /\ badJoin \in BOOLEAN
    /\ pc \in Pcs
    /\ cur \in ThreadIds \cup {NoThread}
    /\ prealloc \in BOOLEAN
    /\ afterKill \in Pcs
    /\ afterFree \in Pcs

\* The server starts with no threads and no processing thread.
Init ==
    /\ threads = {}
    /\ thread_count = 0
    /\ created = {}
    /\ procState = "none"
    /\ procObjs = "uninit"
    /\ proc_shutdown = FALSE
    /\ badJoin = FALSE
    /\ pc = "idle"
    /\ cur = NoThread
    /\ prealloc = FALSE
    /\ afterKill = "idle"
    /\ afterFree = "idle"

\* The call at step f fails.
Fails(f) == f \in Faults

-----------------------------------------------------------------------------
(* gearman_server_thread_create                                            *)

\* The thread being created makes the server multi-threaded.
StartsProc(n) == n = 1

\* Entry, with the caller's structure or NULL: if the server has exactly one
\* thread, _proc_thread_start initialises proc_lock and proc_cond and
\* creates the processing thread; a failure there returns NULL.
CreateBegin(th, pre) ==
    /\ pc = "idle"
    /\ th \notin created
    /\ created' = created \cup {th}
    /\ cur' = th
    /\ prealloc' = pre
    /\ IF StartsProc(thread_count)
       THEN \/ /\ procState' = "running"
               /\ procObjs' = "init"
               /\ pc' = "alloc"
            \/ /\ Fails("proc_start")
               /\ procObjs' \in {"uninit", "init"}
               /\ pc' = "teardown"
               /\ UNCHANGED procState
       ELSE /\ pc' = "alloc"
            /\ UNCHANGED <<procState, procObjs>>
    /\ UNCHANGED <<threads, thread_count, proc_shutdown, badJoin, afterKill, afterFree>>

\* Without a caller's structure, malloc one; if that fails, kill the
\* processing thread and return NULL.
CreateAlloc ==
    /\ pc = "alloc"
    /\ \/ /\ prealloc \/ ~Fails("malloc")
          /\ pc' = "mutex"
          /\ UNCHANGED afterKill
       \/ /\ ~prealloc /\ Fails("malloc")
          /\ pc' = "kill"
          /\ afterKill' = "teardown"
    /\ UNCHANGED <<threads, thread_count, created, procState, procObjs, proc_shutdown,
                   badJoin, cur, prealloc, afterFree>>

\* Mutant: a failed pthread_mutex_init undoes the create with
\* gearman_server_thread_free, as a failed gearman_create does.
CreateMutexFreesThread ==
    /\ pc = "mutex"
    /\ \/ /\ pc' = "gcreate"
          /\ threads' = threads \cup {cur}
          /\ thread_count' = thread_count + 1
          /\ UNCHANGED afterFree
       \/ /\ Fails("mutex_init")
          /\ pc' = "free"
          /\ afterFree' = "teardown"
          /\ UNCHANGED <<threads, thread_count>>
    /\ UNCHANGED <<created, procState, procObjs, proc_shutdown, badJoin, cur,
                   prealloc, afterKill>>

\* pthread_mutex_init of the thread lock: on failure free the structure and
\* return NULL; else GEARMAN_LIST_ADD puts the thread on the server's list.
CreateMutex ==
    /\ pc = "mutex"
    /\ \/ /\ pc' = "gcreate"
          /\ threads' = threads \cup {cur}
          /\ thread_count' = thread_count + 1
       \/ /\ Fails("mutex_init")
          /\ pc' = "teardown"
          /\ UNCHANGED <<threads, thread_count>>
    /\ UNCHANGED <<created, procState, procObjs, proc_shutdown, badJoin, cur,
                   prealloc, afterKill, afterFree>>

\* gearman_create: on failure gearman_server_thread_free undoes the create.
CreateGearman ==
    /\ pc = "gcreate"
    /\ \/ /\ pc' = "idle"
          /\ UNCHANGED afterFree
       \/ /\ Fails("gearman_create")
          /\ pc' = "free"
          /\ afterFree' = "teardown"
    /\ UNCHANGED <<threads, thread_count, created, procState, procObjs, proc_shutdown,
                   badJoin, cur, prealloc, afterKill>>

-----------------------------------------------------------------------------
(* gearman_server_thread_free                                              *)

\* Mutant: the processing thread is killed only while three threads remain.
FreeKillsProcLate(n) == n > 2

\* The thread being freed leaves the server with a processing thread.
FreeKillsProc(n) == n > 1

\* Entry: kill the processing thread if the server is multi-threaded.
FreeBegin ==
    /\ pc = "free"
    /\ IF FreeKillsProc(thread_count)
       THEN /\ pc' = "kill"
            /\ afterKill' = "unlink"
       ELSE /\ pc' = "unlink"
            /\ UNCHANGED afterKill
    /\ UNCHANGED <<threads, thread_count, created, procState, procObjs, proc_shutdown,
                   badJoin, cur, prealloc, afterFree>>

\* Free the connections and free lists, destroy the lock, and
\* GEARMAN_LIST_DEL the thread from the server's list.
FreeUnlink ==
    /\ pc = "unlink"
    /\ threads' = threads \ {cur}
    /\ thread_count' = thread_count - 1
    /\ pc' = afterFree
    /\ UNCHANGED <<created, procState, procObjs, proc_shutdown, badJoin, cur,
                   prealloc, afterKill, afterFree>>

-----------------------------------------------------------------------------
(* _proc_thread_kill                                                       *)

\* Return if already shut down; else set proc_shutdown, signal proc_cond,
\* join the processing thread and destroy proc_cond and proc_lock.  With no
\* processing thread ever started, the lock and the signal use objects that
\* may never have been initialised and pthread_join is given an unset id.
Kill ==
    /\ pc = "kill"
    /\ pc' = afterKill
    /\ IF proc_shutdown
       THEN UNCHANGED <<proc_shutdown, procState, procObjs, badJoin>>
       ELSE /\ proc_shutdown' = TRUE
            /\ procObjs' = "destroyed"
            /\ IF procState = "running"
               THEN /\ procState' = "exited"
                    /\ UNCHANGED badJoin
               ELSE /\ badJoin' = TRUE
                    /\ UNCHANGED procState
    /\ UNCHANGED <<threads, thread_count, created, cur, prealloc, afterKill, afterFree>>

-----------------------------------------------------------------------------
(* The caller: gearmand stops creating threads when one fails or when the *)
(* server shuts down, and frees every thread on the list.                 *)

Shutdown ==
    /\ pc = "idle"
    /\ pc' = "teardown"
    /\ UNCHANGED <<threads, thread_count, created, procState, procObjs, proc_shutdown,
                   badJoin, cur, prealloc, afterKill, afterFree>>

Teardown ==
    /\ pc = "teardown"
    /\ IF threads # {}
       THEN \E th \in threads :
              /\ cur' = th
              /\ pc' = "free"
              /\ afterFree' = "teardown"
       ELSE /\ pc' = "done"
            /\ UNCHANGED <<cur, afterFree>>
    /\ UNCHANGED <<threads, thread_count, created, procState, procObjs, proc_shutdown,
                   badJoin, prealloc, afterKill>>

Next ==
    \/ \E th \in ThreadIds, pre \in BOOLEAN : CreateBegin(th, pre)
    \/ CreateAlloc \/ CreateMutex \/ CreateGearman
    \/ FreeBegin \/ FreeUnlink \/ Kill
    \/ Shutdown \/ Teardown

Spec == Init /\ [][Next]_vars

-----------------------------------------------------------------------------
(* Properties.                                                              *)

\* When every thread has been freed, the processing thread, if one was
\* started, has been joined: it does not outlive the server it reads.
ProcJoinedAtTeardown ==
    pc = "done" => procState # "running"

\* _proc_thread_kill never locks, signals and joins a processing thread that
\* was never started.
NoJoinOfUnstartedProc ==
    ~badJoin

=============================================================================
