-------------------------- MODULE MC_ServerThread --------------------------
(* Two connections, each of whose peers sends up to two commands.  With   *)
(* two I/O threads each connection has its own thread, so the processing  *)
(* thread queues packets across threads; with one thread both share it.   *)
EXTENDS ServerThread

CONSTANTS t1, t2, c1, c2

MultiOwner == (c1 :> t1) @@ (c2 :> t2)
SingleOwner == (c1 :> t1) @@ (c2 :> t1)

MultiMax == (c1 :> 2) @@ (c2 :> 1)
SafetyMax == (c1 :> 2) @@ (c2 :> 2)

=============================================================================
