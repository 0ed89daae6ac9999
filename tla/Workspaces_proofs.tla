-------------------------- MODULE Workspaces_proofs --------------------------
(* Theorems about Workspaces and their proofs.                             *)
EXTENDS Workspaces, TLAPS

(* The variables keep their types. *)
THEOREM TypeCorrect == WorkspacesSpec => []RowsTypeOK
<1>1. WorkspacesInit => RowsTypeOK
  BY DEF WorkspacesInit, RowsTypeOK, Rows
<1>2. RowsTypeOK /\ [WorkspacesNext]_spacesVars => RowsTypeOK'
  <2> SUFFICES ASSUME RowsTypeOK, [WorkspacesNext]_spacesVars PROVE RowsTypeOK'
    OBVIOUS
  <2>1. ASSUME NEW u \in Users, Refuse(u) PROVE RowsTypeOK'
    BY <2>1 DEF RowsTypeOK, Refuse, Answers
  <2>2. ASSUME NEW u \in Users, NEW n \in Names, NEW content \in Contents,
               NEW shared \in Shared, NEW id \in Ids, NEW asked \in Ids \cup {Nil},
               Store(u, n, asked, id, content, shared)
        PROVE RowsTypeOK'
    BY <2>2 DEF RowsTypeOK, Store, Answers, Row, Rows, Places, Entry
  <2>3. ASSUME NEW u \in Users, Set(u) PROVE RowsTypeOK'
    <3>1. PICK n \in Names, content \in Contents, shared \in Shared :
            \/ SetWithoutId(u, n, content, shared)
            \/ \E id \in Ids : SetWithId(u, n, id, content, shared)
      BY <2>3 DEF Set
    <3>2. CASE SetWithoutId(u, n, content, shared)
      <4>1. IdsFor(<<u, n>>) \subseteq Ids
        BY DEF IdsFor, Filled, RowsTypeOK, Rows, Row, Places
      <4> QED BY <2>2, <3>2, <4>1 DEF SetWithoutId
    <3>3. CASE \E id \in Ids : SetWithId(u, n, id, content, shared)
      BY <2>2, <3>3 DEF SetWithId
    <3> QED BY <3>1, <3>2, <3>3
  <2>4. ASSUME NEW u \in Users, NEW n \in Names, ClearWorkspace(u, n) PROVE RowsTypeOK'
    BY <2>4 DEF RowsTypeOK, ClearWorkspace, Answers, Rows
  <2>5. ASSUME NEW u \in Users, NEW id \in Ids, ShareWorkspace(u, id) PROVE RowsTypeOK'
    <3>1. \A p \in Sharable(u, id) : [spaces[p] EXCEPT !.shared = TRUE] \in Rows
      BY DEF RowsTypeOK, Sharable, Filled, Rows, Row, Shared
    <3> QED BY <2>5, <3>1 DEF RowsTypeOK, ShareWorkspace, Answers
  <2>6. ASSUME NEW u \in Users, NEW asked \in Ids \cup {Nil}, NEW places,
               places \subseteq Filled, Shows(u, asked, places)
        PROVE RowsTypeOK'
    BY <2>6 DEF RowsTypeOK, Shows, Answers, Filled, Entry, Rows
  <2>7. ASSUME NEW u \in Users, NEW id \in Ids, GetByKey(u, id) PROVE RowsTypeOK'
    BY <2>6, <2>7 DEF GetByKey, Readable
  <2>8. ASSUME NEW u \in Users, NEW n \in Names, GetByName(u, n) PROVE RowsTypeOK'
    BY <2>6, <2>8 DEF GetByName
  <2>9. ASSUME NEW u \in Users, ListWorkspaces(u) PROVE RowsTypeOK'
    BY <2>6, <2>9 DEF ListWorkspaces
  <2>10. CASE UNCHANGED spacesVars
    BY <2>10 DEF RowsTypeOK, spacesVars
  <2> QED
    BY <2>1, <2>3, <2>4, <2>5, <2>7, <2>8, <2>9, <2>10 DEF WorkspacesNext
<1> QED BY <1>1, <1>2, PTL DEF WorkspacesSpec

-----------------------------------------------------------------------------
(* What a request of user u does to the table, if anything. *)
Moved(u) ==
  \/ spaces' = spaces
  \/ \E n \in Names, id \in Ids, content \in Contents, shared \in Shared,
       asked \in Ids \cup {Nil} :
       /\ Store(u, n, asked, id, content, shared)
       /\ asked = id \/ (asked = Nil /\ id \in IdsFor(<<u, n>>))
  \/ \E n \in Names : ClearWorkspace(u, n)
  \/ \E id \in Ids : ShareWorkspace(u, id)

(* A step is the request of one user and answers him. *)
LEMMA Moves ==
  ASSUME RowsTypeOK, WorkspacesNext
  PROVE  \E u \in Users : answer'.to = u /\ Moved(u)
<1>1. PICK u \in Users :
        \/ Refuse(u) \/ Set(u) \/ ListWorkspaces(u)
        \/ \E n \in Names : ClearWorkspace(u, n) \/ GetByName(u, n)
        \/ \E id \in Ids : ShareWorkspace(u, id) \/ GetByKey(u, id)
  BY DEF WorkspacesNext
<1>2. CASE Refuse(u) \/ ListWorkspaces(u)
             \/ (\E n \in Names : GetByName(u, n)) \/ (\E id \in Ids : GetByKey(u, id))
  <2>1. ASSUME NEW asked, NEW places, Shows(u, asked, places)
        PROVE answer'.to = u /\ spaces' = spaces
    BY <2>1 DEF Shows, Answers
  <2>2. Refuse(u) => answer'.to = u /\ spaces' = spaces
    BY DEF Refuse, Answers
  <2>3. answer'.to = u /\ spaces' = spaces
    BY <1>2, <2>1, <2>2 DEF ListWorkspaces, GetByName, GetByKey
  <2> QED BY <2>3 DEF Moved
<1>3. CASE Set(u)
  <2>1. PICK n \in Names, content \in Contents, shared \in Shared :
          \/ SetWithoutId(u, n, content, shared)
          \/ \E id \in Ids : SetWithId(u, n, id, content, shared)
    BY <1>3 DEF Set
  <2>2. IdsFor(<<u, n>>) \subseteq Ids
    BY DEF IdsFor, Filled, RowsTypeOK, Rows, Row, Places
  <2>3. CASE SetWithoutId(u, n, content, shared)
    <3>1. PICK id \in IdsFor(<<u, n>>) : Store(u, n, Nil, id, content, shared)
      BY <2>3 DEF SetWithoutId
    <3>2. answer'.to = u
      BY <3>1 DEF Store, Answers
    <3>3. Moved(u)
      BY <2>2, <3>1 DEF Moved
    <3> QED BY <3>2, <3>3
  <2>4. CASE \E id \in Ids : SetWithId(u, n, id, content, shared)
    <3>1. PICK id \in Ids : Store(u, n, id, id, content, shared)
      BY <2>4 DEF SetWithId
    <3>2. answer'.to = u
      BY <3>1 DEF Store, Answers
    <3>3. Moved(u)
      BY <3>1 DEF Moved
    <3> QED BY <3>2, <3>3
  <2> QED BY <2>1, <2>3, <2>4
<1>4. CASE (\E n \in Names : ClearWorkspace(u, n))
             \/ (\E id \in Ids : ShareWorkspace(u, id))
  <2>1. answer'.to = u
    <3>1. \A n \in Names : ClearWorkspace(u, n) => answer'.to = u
      BY DEF ClearWorkspace, Answers
    <3>2. \A id \in Ids : ShareWorkspace(u, id) => answer'.to = u
      BY DEF ShareWorkspace, Answers
    <3> QED BY <1>4, <3>1, <3>2
  <2>2. Moved(u)
    BY <1>4 DEF Moved
  <2> QED BY <2>1, <2>2
<1> QED BY <1>1, <1>2, <1>3, <1>4

(* UniqueIds is inductive given the types: the constraint keeps it. *)
THEOREM IdsUnique == WorkspacesSpec => []UniqueIds
<1>1. WorkspacesInit => UniqueIds
  BY DEF WorkspacesInit, UniqueIds
<1>2. RowsTypeOK /\ UniqueIds /\ [WorkspacesNext]_spacesVars => UniqueIds'
  <2> SUFFICES ASSUME RowsTypeOK, UniqueIds, [WorkspacesNext]_spacesVars PROVE UniqueIds'
    OBVIOUS
  <2>1. CASE spaces' = spaces
    BY <2>1 DEF UniqueIds
  <2>2. ASSUME NEW u \in Users, NEW n \in Names, NEW id, NEW content, NEW shared,
               NEW asked, Store(u, n, asked, id, content, shared)
        PROVE UniqueIds'
    BY <2>2 DEF Store, Taken, Filled, UniqueIds, RowsTypeOK, Places
  <2>3. ASSUME NEW u \in Users, NEW n \in Names, ClearWorkspace(u, n)
        PROVE UniqueIds'
    BY <2>3 DEF ClearWorkspace, UniqueIds, RowsTypeOK, Places
  <2>4. ASSUME NEW u \in Users, NEW id \in Ids, ShareWorkspace(u, id)
        PROVE UniqueIds'
    <3>1. \A p \in Places : (spaces'[p] # NoRow => spaces[p] # NoRow)
                            /\ spaces'[p].id = spaces[p].id
      BY <2>4 DEF ShareWorkspace, Sharable, Filled, RowsTypeOK, Rows, Row, NoRow
    <3> QED BY <3>1 DEF UniqueIds
  <2>5. CASE WorkspacesNext
    BY <2>1, <2>2, <2>3, <2>4, <2>5, Moves DEF Moved
  <2> QED BY <2>1, <2>5 DEF spacesVars
<1> QED BY <1>1, <1>2, TypeCorrect, PTL DEF WorkspacesSpec

(* No request changes a row of another user's. *)
THEOREM RowsAreOwn == WorkspacesSpec => OwnRowsOnly
<1>1. RowsTypeOK /\ [WorkspacesNext]_spacesVars
        => [\A p \in Places : spaces'[p] # spaces[p] => answer'.ok /\ answer'.to = p[1]]_spacesVars
  <2> SUFFICES ASSUME RowsTypeOK, WorkspacesNext, NEW p \in Places, spaces'[p] # spaces[p]
               PROVE  answer'.ok /\ answer'.to = p[1]
    OBVIOUS
  <2>1. PICK u \in Users : Moved(u)
    BY Moves
  <2>2. ASSUME NEW n \in Names, NEW id, NEW content, NEW shared, NEW asked,
               Store(u, n, asked, id, content, shared)
        PROVE answer'.ok /\ answer'.to = p[1]
    BY <2>2 DEF Store, Answers, RowsTypeOK, Places
  <2>3. ASSUME NEW n \in Names, ClearWorkspace(u, n)
        PROVE answer'.ok /\ answer'.to = p[1]
    BY <2>3 DEF ClearWorkspace, Answers, RowsTypeOK, Places
  <2>4. ASSUME NEW id \in Ids, ShareWorkspace(u, id)
        PROVE answer'.ok /\ answer'.to = p[1]
    BY <2>4 DEF ShareWorkspace, Sharable, Answers, RowsTypeOK
  <2> QED BY <2>1, <2>2, <2>3, <2>4 DEF Moved
<1> QED BY <1>1, TypeCorrect, PTL DEF WorkspacesSpec, OwnRowsOnly

(* A row keeps its id but for a request that brings another. *)
THEOREM KeysAreKept == WorkspacesSpec => KeyIsKept
<1>1. RowsTypeOK /\ [WorkspacesNext]_spacesVars
        => [\A p \in Places :
              spaces[p] # NoRow /\ spaces'[p] # NoRow /\ spaces'[p].id # spaces[p].id
                => answer'.asked = spaces'[p].id]_spacesVars
  <2> SUFFICES ASSUME RowsTypeOK, WorkspacesNext, NEW p \in Places, spaces[p] # NoRow,
                      spaces'[p] # NoRow, spaces'[p].id # spaces[p].id
               PROVE  answer'.asked = spaces'[p].id
    OBVIOUS
  <2>1. PICK u \in Users : Moved(u)
    BY Moves
  <2>2. ASSUME NEW n \in Names, NEW id \in Ids, NEW content, NEW shared, NEW asked,
               Store(u, n, asked, id, content, shared),
               asked = id \/ (asked = Nil /\ id \in IdsFor(<<u, n>>))
        PROVE answer'.asked = spaces'[p].id
    <3>1. p = <<u, n>> /\ spaces'[p].id = id /\ answer'.asked = asked
      BY <2>2 DEF Store, Answers, RowsTypeOK, Places
    <3>2. id \notin IdsFor(<<u, n>>)
      BY <3>1 DEF IdsFor, Filled
    <3> QED BY <2>2, <3>1, <3>2
  <2>3. ASSUME NEW n \in Names, ClearWorkspace(u, n) PROVE FALSE
    BY <2>3 DEF ClearWorkspace, RowsTypeOK, Places
  <2>4. ASSUME NEW id \in Ids, ShareWorkspace(u, id) PROVE FALSE
    BY <2>4 DEF ShareWorkspace, Sharable, Filled, RowsTypeOK, Rows, Row, NoRow
  <2> QED BY <2>1, <2>2, <2>3, <2>4 DEF Moved
<1> QED BY <1>1, TypeCorrect, PTL DEF WorkspacesSpec, KeyIsKept

-----------------------------------------------------------------------------
(* What each answer shows, by itself: no history is needed.                *)
LEMMA Shown ==
  ASSUME RowsTypeOK, WorkspacesNext
  PROVE  ShownIsVisible'
<1>1. ASSUME NEW u \in Users, NEW asked, NEW places,
             \A p \in places : p[1] = u \/ spaces[p].shared = TRUE,
             Shows(u, asked, places)
      PROVE ShownIsVisible'
  BY <1>1 DEF Shows, Answers, ShownIsVisible
<1>2. ASSUME NEW u \in Users, NEW asked, NEW ok, Answers(u, ok, asked, {})
      PROVE ShownIsVisible'
  BY <1>2 DEF Answers, ShownIsVisible
<1>3. ASSUME NEW u \in Users, NEW n \in Names, NEW id, NEW content, NEW shared, NEW asked,
             Store(u, n, asked, id, content, shared)
      PROVE ShownIsVisible'
  BY <1>3 DEF Store, Answers, RowsTypeOK, Places, ShownIsVisible
<1>4. PICK u \in Users :
        \/ Refuse(u) \/ Set(u) \/ ListWorkspaces(u)
        \/ \E n \in Names : ClearWorkspace(u, n) \/ GetByName(u, n)
        \/ \E id \in Ids : ShareWorkspace(u, id) \/ GetByKey(u, id)
  BY DEF WorkspacesNext
<1>5. Set(u) => ShownIsVisible'
  BY <1>3 DEF Set, SetWithId, SetWithoutId
<1>6. ASSUME NEW id \in Ids, GetByKey(u, id) PROVE ShownIsVisible'
  <2>1. Shows(u, id, Readable(u, id))
    BY <1>6 DEF GetByKey
  <2>2. \A p \in Readable(u, id) : p[1] = u \/ spaces[p].shared = TRUE
    BY DEF Readable
  <2> QED BY <1>1, <2>1, <2>2
<1>7. ASSUME NEW n \in Names, GetByName(u, n) PROVE ShownIsVisible'
  <2>1. Shows(u, Nil, {<<u, n>>})
    BY <1>7 DEF GetByName
  <2>2. \A p \in {<<u, n>>} : p[1] = u \/ spaces[p].shared = TRUE
    OBVIOUS
  <2> QED BY <1>1, <2>1, <2>2
<1>8. ListWorkspaces(u) => ShownIsVisible'
  BY <1>1 DEF ListWorkspaces
<1>9. Refuse(u) \/ (\E n \in Names : ClearWorkspace(u, n))
                \/ (\E id \in Ids : ShareWorkspace(u, id))
        => ShownIsVisible'
  BY <1>2 DEF Refuse, ClearWorkspace, ShareWorkspace
<1> QED BY <1>4, <1>5, <1>6, <1>7, <1>8, <1>9

(* No answer shows a user what is neither theirs nor shared.               *)
THEOREM OnlyVisibleShown == WorkspacesSpec => []ShownIsVisible
<1>1. WorkspacesInit => ShownIsVisible
  BY DEF WorkspacesInit, ShownIsVisible
<1>2. RowsTypeOK /\ ShownIsVisible /\ [WorkspacesNext]_spacesVars => ShownIsVisible'
  <2> SUFFICES ASSUME RowsTypeOK, ShownIsVisible, [WorkspacesNext]_spacesVars
               PROVE  ShownIsVisible'
    OBVIOUS
  <2>1. CASE WorkspacesNext
    BY <2>1, Shown
  <2>2. CASE UNCHANGED spacesVars
    BY <2>2 DEF spacesVars, ShownIsVisible
  <2> QED BY <2>1, <2>2
<1> QED BY <1>1, <1>2, TypeCorrect, PTL DEF WorkspacesSpec
=============================================================================
