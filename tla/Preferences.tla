----------------------------- MODULE Preferences -----------------------------
(***************************************************************************)
(* The preferences, layouts and snippets carta-ctl keeps for its users in  *)
(* PostgreSQL.  A handler of /api/database checks its request, runs one    *)
(* SQL statement and answers, so a request is one step, and the requests   *)
(* of all users and tabs interleave.  A statement that fails changes       *)
(* nothing.  A preference, a layout and a snippet are each a cell of their *)
(* user's store.                                                           *)
(***************************************************************************)
EXTENDS Tables

CONSTANTS
  Tabs,
  UserOf,   \* UserOf[t]: the user who is logged in at tab t
  Keys,     \* preference keys
  Version,  \* the key "version"
  Titles,   \* names of layouts and snippets
  Values,   \* what a cell may hold
  Current,  \* PREFERENCE_SCHEMA_VERSION, the value of the version
  Unknown   \* what a tab cannot know

Kinds == {"layout", "snippet"}
Preference == {"preference"} \X Keys
Document == Kinds \X Titles
Cells == Preference \cup Document
VersionCell == <<"preference", Version>>

ASSUME TabsAssumption == UserOf \in [Tabs -> Users]
ASSUME KeysAssumption == Version \in Keys /\ Current \in Values
ASSUME EmptyAssumption == {Nil, Unknown} \cap Values = {} /\ Nil # Unknown

VARIABLES
  store,  \* store[u][c]: the cell c of user u
  seen    \* history: seen[t][c], cell c when tab t last read or wrote it, or
          \* Unknown when another tab of the user has written it since

storeVars == <<store, seen>>

CellsTypeOK ==
  /\ store \in [Users -> [Cells -> Values \cup {Nil}]]
  /\ seen \in [Tabs -> [Cells -> Values \cup {Nil, Unknown}]]

(* EnsureTables on an empty database. *)
PreferencesInit ==
  /\ store = [u \in Users |-> [c \in Cells |-> Nil]]
  /\ seen = [t \in Tabs |-> [c \in Cells |-> Unknown]]

(* Tab t is shown these cells, or gives cells these values; the user's     *)
(* other tabs know nothing of that.                                        *)
Reads(t, cells) ==
  seen' = [seen EXCEPT ![t] =
             [c \in Cells |-> IF c \in cells THEN store[UserOf[t]][c] ELSE @[c]]]

Writes(t, change) ==
  seen' = [s \in Tabs |-> [c \in Cells |->
    IF c \notin DOMAIN change \/ UserOf[s] # UserOf[t] THEN seen[s][c]
    ELSE IF s = t THEN change[c] ELSE Unknown]]

-----------------------------------------------------------------------------
(* Preferences.                                                            *)

GetPreferences(t) ==
  /\ Reads(t, Preference)
  /\ UNCHANGED store

(* Mutant: the update overwrites the whole store. *)
Merge_change(old, change) == change
(* Mutant: the update replaces the preferences. *)
Merge_replace(old, change) ==
  [c \in Cells |-> IF c \notin Preference THEN old[c]
                   ELSE IF c \in DOMAIN change THEN change[c] ELSE Nil]
(* preferences.content || EXCLUDED.content *)
Merge(old, change) ==
  [c \in Cells |-> IF c \in DOMAIN change THEN change[c] ELSE old[c]]

(* PUT /preferences; the handler adds the version to what the tab sends. *)
SetPreferences(t, cells, value) ==
  LET change == [c \in cells \cup {VersionCell} |->
                   IF c = VersionCell THEN Current ELSE value] IN
  /\ store' = [store EXCEPT ![UserOf[t]] = Merge(@, change)]
  /\ Writes(t, change)

(* DELETE /preferences, which needs a key: content - $2::text[]. *)
ClearPreferences(t, cells) ==
  /\ cells # {}
  /\ store' = [store EXCEPT ![UserOf[t]] =
                 [c \in Cells |-> IF c \in cells THEN Nil ELSE @[c]]]
  /\ Writes(t, [c \in cells |-> Nil])

-----------------------------------------------------------------------------
(* Layouts and snippets.                                                   *)

GetDocuments(t, kind) ==
  /\ Reads(t, {kind} \X Titles)
  /\ UNCHANGED store

SetDocument(t, cell, value) ==
  /\ store' = [store EXCEPT ![UserOf[t]][cell] = value]
  /\ Writes(t, [c \in {cell} |-> value])

ClearDocument(t, cell) ==
  /\ store' = [store EXCEPT ![UserOf[t]][cell] = Nil]
  /\ Writes(t, [c \in {cell} |-> Nil])

-----------------------------------------------------------------------------
PreferencesNext == \E t \in Tabs :
  \/ GetPreferences(t)
  \/ \E cells \in SUBSET Preference :
       ClearPreferences(t, cells) \/ \E v \in Values : SetPreferences(t, cells, v)
  \/ \E kind \in Kinds : GetDocuments(t, kind)
  \/ \E cell \in Document :
       ClearDocument(t, cell) \/ \E v \in Values : SetDocument(t, cell, v)

PreferencesSpec == PreferencesInit /\ [][PreferencesNext]_storeVars

-----------------------------------------------------------------------------
(* Properties.                                                             *)

(* database.go:274-280, 319-328, 463-469, 658-664: what a tab has read or  *)
(* written stands until a tab of the same user writes that very key or     *)
(* name: not an update of other keys, nor another user, nor another kind   *)
(* of document takes it away.                                              *)
WhatWasSeenStands ==
  \A t \in Tabs, c \in Cells :
    seen[t][c] # Unknown => store[UserOf[t]][c] = seen[t][c]
=============================================================================
