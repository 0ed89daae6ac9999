-------------------------------- MODULE Lease --------------------------------
(***************************************************************************)
(* Who answers for one worker, from its start to its end.  A worker is     *)
(* stopped by the spawner that could not start it properly, or by the      *)
(* cleanup of the session it belongs to; never under a session that uses   *)
(* it, and never once nobody answers for it any more: such a worker runs   *)
(* until it ends by itself or with its spawner.                            *)
(***************************************************************************)

VARIABLES
  worker,  \* "none", "running", "exited" (by itself) or "stopped" (by request)
  holder   \* who answers for it while it runs: the "spawner" that starts it,
           \* an open "session", the "cleanup" of a session, or, once it is
           \* "lost", no one; "nobody" while there is nothing to answer for

vars == <<worker, holder>>

Init == worker = "none" /\ holder = "nobody"

Start ==
  /\ worker = "none"
  /\ worker' = "running" /\ holder' = "spawner"

Exit ==
  /\ worker = "running"
  /\ worker' = "exited" /\ holder' = "nobody"

Stop ==
  /\ worker = "running" /\ holder \in {"spawner", "cleanup"}
  /\ worker' = "stopped" /\ holder' = "nobody"

(* The session learns of the worker, perhaps when it is already over. *)
Deliver ==
  /\ holder = "spawner"
  /\ holder' \in {"session", "cleanup"}
  /\ UNCHANGED worker

EndSession ==
  /\ holder = "session"
  /\ holder' = "cleanup"
  /\ UNCHANGED worker

Lose ==
  /\ holder \in {"spawner", "session", "cleanup"}
  /\ holder' = "lost"
  /\ UNCHANGED worker

Next == Start \/ Exit \/ Stop \/ Deliver \/ EndSession \/ Lose

Spec == Init /\ [][Next]_vars
=============================================================================
