-------------------------- MODULE Preferences_proofs --------------------------
(* Theorems about Preferences and their proofs.                            *)
EXTENDS Preferences, TLAPS

(* The cells a step writes, and the tab that writes them. *)
Wrote(t, change) ==
  /\ store' = [store EXCEPT ![UserOf[t]] =
                 [c \in Cells |-> IF c \in DOMAIN change THEN change[c] ELSE @[c]]]
  /\ Writes(t, change)

(* What a step can be: some cells are read or some are written. *)
LEMMA Moves ==
  ASSUME CellsTypeOK, PreferencesNext
  PROVE  \E t \in Tabs :
           \/ \E cells \in SUBSET Cells : Reads(t, cells) /\ UNCHANGED store
           \/ \E cells \in SUBSET Cells :
                \E change \in [cells -> Values \cup {Nil}] : Wrote(t, change)
<1> USE TabsAssumption
<1>1. PICK t \in Tabs :
        \/ GetPreferences(t)
        \/ \E cells \in SUBSET Preference :
             ClearPreferences(t, cells) \/ \E v \in Values : SetPreferences(t, cells, v)
        \/ \E kind \in Kinds : GetDocuments(t, kind)
        \/ \E cell \in Document :
             ClearDocument(t, cell) \/ \E v \in Values : SetDocument(t, cell, v)
  BY DEF PreferencesNext
<1>2. Preference \subseteq Cells /\ Document \subseteq Cells
      /\ \A kind \in Kinds : {kind} \X Titles \subseteq Cells
  BY DEF Cells, Document
<1>3. UserOf[t] \in Users /\ store[UserOf[t]] \in [Cells -> Values \cup {Nil}]
  BY DEF CellsTypeOK
<1>4. CASE GetPreferences(t)
  BY <1>2, <1>4 DEF GetPreferences
<1>5. CASE \E kind \in Kinds : GetDocuments(t, kind)
  BY <1>2, <1>5 DEF GetDocuments
<1>6. ASSUME NEW cells \in SUBSET Preference, ClearPreferences(t, cells)
      PROVE \E change \in [cells -> Values \cup {Nil}] : Wrote(t, change)
  <2> DEFINE change == [c \in cells |-> Nil]
  <2>1. change \in [cells -> Values \cup {Nil}] /\ DOMAIN change = cells
    OBVIOUS
  <2>2. Wrote(t, change)
    BY <1>3, <1>6, <2>1 DEF ClearPreferences, Wrote
  <2> QED BY <2>1, <2>2
<1>7. ASSUME NEW cells \in SUBSET Preference, NEW v \in Values,
             SetPreferences(t, cells, v)
      PROVE \E change \in [cells \cup {VersionCell} -> Values \cup {Nil}] :
              Wrote(t, change)
  <2> DEFINE change == [c \in cells \cup {VersionCell} |->
                          IF c = VersionCell THEN Current ELSE v]
  <2>1. change \in [cells \cup {VersionCell} -> Values \cup {Nil}]
    BY KeysAssumption
  <2>2. Wrote(t, change)
    BY <1>3, <1>7, <2>1 DEF SetPreferences, Merge, Wrote
  <2> QED BY <2>1, <2>2
<1>8. VersionCell \in Preference
  BY KeysAssumption DEF VersionCell, Preference
<1>9. ASSUME NEW cell \in Document, NEW v \in Values \cup {Nil},
             store' = [store EXCEPT ![UserOf[t]][cell] = v],
             Writes(t, [c \in {cell} |-> v])
      PROVE \E change \in [{cell} -> Values \cup {Nil}] : Wrote(t, change)
  <2> DEFINE change == [c \in {cell} |-> v]
  <2>1. change \in [{cell} -> Values \cup {Nil}] /\ DOMAIN change = {cell}
    OBVIOUS
  <2>2. [store[UserOf[t]] EXCEPT ![cell] = v]
          = [c \in Cells |-> IF c \in DOMAIN change THEN change[c]
                             ELSE store[UserOf[t]][c]]
    BY <1>2, <1>3, <2>1
  <2>3. Wrote(t, change)
    BY <1>3, <1>9, <2>2 DEF Wrote
  <2> QED BY <2>1, <2>3
<1>10. CASE \E cell \in Document :
              ClearDocument(t, cell) \/ \E v \in Values : SetDocument(t, cell, v)
  <2>1. PICK cell \in Document :
          ClearDocument(t, cell) \/ \E v \in Values : SetDocument(t, cell, v)
    BY <1>10
  <2>2. \E change \in [{cell} -> Values \cup {Nil}] : Wrote(t, change)
    BY <1>9, <2>1 DEF ClearDocument, SetDocument
  <2>3. {cell} \subseteq Cells
    BY <1>2
  <2> QED BY <2>2, <2>3
<1>11. CASE \E cells \in SUBSET Preference :
              ClearPreferences(t, cells) \/ \E v \in Values : SetPreferences(t, cells, v)
  <2>1. PICK cells \in SUBSET Preference :
          ClearPreferences(t, cells) \/ \E v \in Values : SetPreferences(t, cells, v)
    BY <1>11
  <2>2. cells \in SUBSET Cells /\ cells \cup {VersionCell} \in SUBSET Cells
    BY <1>2, <1>8
  <2>3. CASE ClearPreferences(t, cells)
    BY <1>6, <2>2, <2>3
  <2>4. CASE \E v \in Values : SetPreferences(t, cells, v)
    BY <1>7, <2>2, <2>4
  <2> QED BY <2>1, <2>3, <2>4
<1> QED BY <1>1, <1>4, <1>5, <1>10, <1>11

(* The variables keep their types. *)
THEOREM TypeCorrect == PreferencesSpec => []CellsTypeOK
<1>1. PreferencesInit => CellsTypeOK
  BY DEF PreferencesInit, CellsTypeOK
<1>2. CellsTypeOK /\ [PreferencesNext]_storeVars => CellsTypeOK'
  <2> SUFFICES ASSUME CellsTypeOK, PreferencesNext PROVE CellsTypeOK'
    BY DEF CellsTypeOK, storeVars
  <2> USE TabsAssumption
  <2>1. ASSUME NEW t \in Tabs, NEW cells \in SUBSET Cells,
               Reads(t, cells), UNCHANGED store
        PROVE CellsTypeOK'
    BY <2>1 DEF CellsTypeOK, Reads
  <2>2. ASSUME NEW t \in Tabs, NEW cells \in SUBSET Cells,
               NEW change \in [cells -> Values \cup {Nil}], Wrote(t, change)
        PROVE CellsTypeOK'
    BY <2>2 DEF CellsTypeOK, Wrote, Writes
  <2> QED BY <2>1, <2>2, Moves
<1> QED BY <1>1, <1>2, PTL DEF PreferencesSpec

(* What a tab saw stands until that very cell is written. *)
THEOREM SeenStands == PreferencesSpec => []WhatWasSeenStands
<1>1. PreferencesInit => WhatWasSeenStands
  BY DEF PreferencesInit, WhatWasSeenStands
<1>2. CellsTypeOK /\ WhatWasSeenStands /\ [PreferencesNext]_storeVars => WhatWasSeenStands'
  <2> SUFFICES ASSUME CellsTypeOK, WhatWasSeenStands, PreferencesNext PROVE WhatWasSeenStands'
    BY DEF WhatWasSeenStands, storeVars
  <2> USE TabsAssumption
  <2>1. ASSUME NEW t \in Tabs, NEW cells \in SUBSET Cells,
               Reads(t, cells), UNCHANGED store
        PROVE WhatWasSeenStands'
    BY <2>1 DEF CellsTypeOK, Reads, WhatWasSeenStands
  <2>2. ASSUME NEW t \in Tabs, NEW cells \in SUBSET Cells,
               NEW change \in [cells -> Values \cup {Nil}], Wrote(t, change)
        PROVE WhatWasSeenStands'
    <3> SUFFICES ASSUME NEW s \in Tabs, NEW c \in Cells, seen'[s][c] # Unknown
                 PROVE  store'[UserOf[s]][c] = seen'[s][c]
      BY DEF WhatWasSeenStands
    <3>1. CASE c \notin cells \/ UserOf[s] # UserOf[t]
      <4>1. seen'[s][c] = seen[s][c]
        BY <2>2, <3>1 DEF Wrote, Writes
      <4>2. store'[UserOf[s]][c] = store[UserOf[s]][c]
        BY <2>2, <3>1 DEF CellsTypeOK, Wrote
      <4> QED BY <4>1, <4>2 DEF WhatWasSeenStands
    <3>2. CASE c \in cells /\ UserOf[s] = UserOf[t]
      <4>1. s = t /\ seen'[s][c] = change[c]
        BY <2>2, <3>2 DEF Wrote, Writes
      <4>2. store'[UserOf[s]][c] = change[c]
        BY <2>2, <3>2 DEF CellsTypeOK, Wrote
      <4> QED BY <4>1, <4>2
    <3> QED BY <3>1, <3>2
  <2> QED BY <2>1, <2>2, Moves
<1> QED BY <1>1, <1>2, TypeCorrect, PTL DEF PreferencesSpec
=============================================================================
