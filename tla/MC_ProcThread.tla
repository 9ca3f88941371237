--------------------------- MODULE MC_ProcThread ---------------------------
(* Two I/O threads, each queueing up to two packets for the processing    *)
(* thread: enough for a packet to land on a list the pass has already      *)
(* visited while the pass is still running on the other list.              *)
EXTENDS ProcThread

CONSTANTS t1, t2

MC_ThreadList == <<t1, t2>>

=============================================================================
