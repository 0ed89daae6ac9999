------------------------------ MODULE MCLeases ------------------------------
(* Leases on a small instance: two sessions and two messages that ask for  *)
(* a worker, which may be both of one session or one of each.              *)
EXTENDS Leases

CONSTANTS s1, s2, q1, q2

TwoSessions == {s1, s2}
TwoRequests == {q1, q2}

(* Sessions have no names: q1 is of s1, whoever sends q2. *)
MCInit == Init /\ owner[q1] = s1
MCSpec == MCInit /\ [][Next]_vars /\ Fairness

AllFaults == {"lost", "kill", "ctl", "spawner"}
=============================================================================
