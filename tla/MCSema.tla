------------------------------- MODULE MCSema -------------------------------
(* Three clients: one waits, one comes back again and again, one signals   *)
(* or deletes.  Two semaphores; with two on the queues the third gets no   *)
(* client_t.                                                               *)
EXTENDS Sema, TLC
=============================================================================
