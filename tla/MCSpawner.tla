------------------------------ MODULE MCSpawner ------------------------------
(* Spawner on a small instance.                                            *)
EXTENDS Spawner, TLC

CONSTANTS p1, p2, d1, g1, l1

OnePost == {p1}
TwoPosts == {p1, p2}
OneDelete == {d1}
OneGet == {g1}
OneList == {l1}
NoRequests == {}
NoFaults == {}
AllFaults == {"kill", "listen"}

Symmetry == Permutations(TwoPosts)
=============================================================================
