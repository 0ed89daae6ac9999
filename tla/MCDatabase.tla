----------------------------- MODULE MCDatabase -----------------------------
(***************************************************************************)
(* The database of carta-ctl on a small instance: two users, the first     *)
(* with two tabs.  No statement reads or writes two tables, so a request   *)
(* for one table does the same whatever is in the others: a behaviour      *)
(* shows either the workspaces or the users' other documents, and leaves   *)
(* the rest empty.                                                         *)
(***************************************************************************)
EXTENDS Workspaces, Preferences, TLC

CONSTANTS u1, u2, n1, n2, id1, id2, id3, c1, c2, t1, t2, t3, version, k1, current

VARIABLE table  \* which of the two a behaviour shows

TwoUsers == {u1, u2}
TwoNames == {n1, n2}
ThreeIds == {id1, id2, id3}
TwoContents == {c1, c2}
ThreeTabs == {t1, t2, t3}
LoggedIn == [t \in ThreeTabs |-> IF t = t3 THEN u2 ELSE u1]
TwoKeys == {version, k1}
OneTitle == {n1}
OneValue == {current}

vars == <<spacesVars, storeVars, table>>

Init ==
  /\ WorkspacesInit
  /\ PreferencesInit
  /\ table \in {"workspaces", "preferences"}

Next ==
  \/ table = "workspaces" /\ WorkspacesNext /\ UNCHANGED <<storeVars, table>>
  \/ table = "preferences" /\ PreferencesNext /\ UNCHANGED <<spacesVars, table>>

Spec == Init /\ [][Next]_vars

Symmetry == Permutations(ThreeIds)
=============================================================================
