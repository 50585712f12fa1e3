------------------------------- MODULE MCJobs -------------------------------
(* The jobs, instantiated for TLC. *)
EXTENDS Jobs

CONSTANTS command, pane
=============================================================================
