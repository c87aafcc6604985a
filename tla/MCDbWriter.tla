----------------------------- MODULE MCDbWriter -----------------------------
(* Model values for TLC's run of DbWriter. *)
EXTENDS DbWriter

CONSTANTS h1, h2, p1
=============================================================================
