----------------------------- MODULE MCSession -----------------------------
(* Session on small instances. *)
EXTENDS SessionProps
============================================================================
