----------------------------- MODULE MCJobRequest -----------------------------
(* JobRequest for TLC. *)
EXTENDS JobRequest

===============================================================================
