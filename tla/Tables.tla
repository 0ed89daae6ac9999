------------------------------- MODULE Tables -------------------------------
(* What the tables of carta-ctl's database have in common.                 *)
CONSTANTS
  Users,  \* the names rows are kept under: username in the claims of a token
  Nil     \* no row, an empty cell, no user, SQL's NULL
=============================================================================
