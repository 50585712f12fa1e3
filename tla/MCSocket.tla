------------------------------ MODULE MCSocket ------------------------------
(* Two tasks of a connection and one of another connection write to it, and *)
(* one task waits for it to be drained. With three writers one is at it,    *)
(* one was handed the turn and has not run, and one queues.                 *)
EXTENDS SocketConnection

=============================================================================
