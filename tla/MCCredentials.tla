--------------------------- MODULE MCCredentials ---------------------------
(* Credentials with two requests at a time; they are interchangeable, and so are
   the passwords. *)
EXTENDS Credentials, TLC

Symmetry == Permutations(Tasks) \cup Permutations(Passwords)
=============================================================================
