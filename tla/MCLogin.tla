------------------------------- MODULE MCLogin -------------------------------
(***************************************************************************)
(* A browser with two tabs and two people who use it.  The configuration   *)
(* may change between two runs of the controller.                          *)
(***************************************************************************)
EXTENDS Login, TLC

CONSTANTS t1, t2, u1, u2, f1, f2

TwoTabs == {t1, t2}
TwoUsers == {u1, u2}
TwoFlows == {f1, f2}

(* --override, --auth_mode, CARTA_CONTROLLER_AUTH_MODE, the file. *)
SomeGivens ==
  {<<Absent, Absent, Absent, Absent>>, <<Absent, Absent, Absent, "oidc">>,
   <<"both", "none", Absent, "pam">>, <<Absent, Absent, "pam", "oidc">>,
   <<Absent, "unknown", "pam", "oidc">>}

Symmetry == Permutations(TwoUsers) \cup Permutations(TwoFlows)

VARIABLE show  \* what a behaviour shows

shown == <<vars, show>>

(* Either two tabs of a controller that stays up, or one tab and one flow  *)
(* around restarts.  Only one tab holds an access token: what a tab does   *)
(* with its token concerns no other.                                       *)
MCInit ==
  /\ Init
  /\ show \in {"tabs", "restarts"}

MCNext ==
  /\ Next
  /\ show = "tabs" =>
       /\ stage' # "ended" /\ (stage = "loading" => mode' = "both")
       /\ stage' \in {"routes", "serving"} => endSession'
  /\ show = "restarts" => request'[t2] = Nil /\ (\E f \in Flows : flow'[f] = "new")
  /\ request'[t2] # Nil => request'[t2].kind # "refresh"
  /\ UNCHANGED show

MCSpec == MCInit /\ [][MCNext]_shown
=============================================================================
