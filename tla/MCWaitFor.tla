----------------------------- MODULE MCWaitFor ------------------------------
(* Three clients on two channels: a lock held, one client in its queue and  *)
(* another one behind it, with each of them free to go at any time.         *)
EXTENDS WaitFor

=============================================================================
