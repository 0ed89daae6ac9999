------------------------------ MODULE Workspaces ------------------------------
(***************************************************************************)
(* The workspaces carta-ctl keeps for its users in PostgreSQL.  A handler  *)
(* of /api/database checks its request, runs one SQL statement and         *)
(* answers, so a request is one step, and the requests of all users and    *)
(* tabs interleave.  A statement that fails changes nothing.               *)
(*                                                                         *)
(* A workspace is a row under its owner and name; the UUID of the row is   *)
(* the key others read it by once it is shared.                            *)
(***************************************************************************)
EXTENDS Tables

CONSTANTS
  Names,
  Ids,       \* UUIDs
  Contents   \* workspaces that pass the schema

ASSUME NoRowAssumption == Nil \notin Users \cup Ids \cup BOOLEAN

VARIABLES
  spaces,  \* spaces[u][n]: the row of user u and name n, or Nil
  given,   \* history: the ids that were ever in a row
  answer   \* the last answer: to whom, whether it was 200, the id its request
           \* brought, or Nil, and the workspaces in it

spacesVars == <<spaces, given, answer>>

Shared == BOOLEAN \cup {Nil}
Row == [id : Ids, content : Contents, shared : Shared]
Places == Users \X Names
Entry == [place : Places, row : Row]

NoRow == [id |-> Nil, content |-> Nil, shared |-> Nil]
Rows == Row \cup {NoRow}

RowsTypeOK ==
  /\ spaces \in [Places -> Rows]
  /\ given \subseteq Ids
  /\ answer \in [to : Users \cup {Nil}, ok : BOOLEAN, asked : Ids \cup {Nil},
                 shows : SUBSET Entry]

(* EnsureTables on an empty database. *)
WorkspacesInit ==
  /\ spaces = [p \in Places |-> NoRow]
  /\ given = {}
  /\ answer = [to |-> Nil, ok |-> FALSE, asked |-> Nil, shows |-> {}]

Answers(u, ok, asked, shows) ==
  answer' = [to |-> u, ok |-> ok, asked |-> asked, shows |-> shows]

(* Any request may be malformed, fail its schema, meet a failing database  *)
(* or find nothing.                                                        *)
Refuse(u) ==
  /\ Answers(u, FALSE, Nil, {})
  /\ UNCHANGED <<spaces, given>>

-----------------------------------------------------------------------------
Filled == {p \in Places : spaces[p] # NoRow}

(* Mutant: the constraint unique_workspace_id is left out. *)
Taken_never(id, place) == FALSE
(* unique_workspace_id: another row has this id. *)
Taken(id, place) == \E p \in Filled \ {place} : spaces[p].id = id

(* Mutant: the column id has no default. *)
IdsFor_none(place) == IF place \in Filled THEN {spaces[place].id} ELSE {Nil}
(* Mutant: an update writes the new default id, too. *)
IdsFor_default(place) == Ids \ given
(* Without an id in the request: the one of the row, or gen_random_uuid(). *)
IdsFor(place) == IF place \in Filled THEN {spaces[place].id} ELSE Ids \ given

(* INSERT ... ON CONFLICT (name, username) DO UPDATE *)
Store(u, n, asked, id, content, shared) ==
  LET row == [id |-> id, content |-> content, shared |-> shared] IN
  /\ ~Taken(id, <<u, n>>)
  /\ spaces' = [spaces EXCEPT ![<<u, n>>] = row]
  /\ given' = given \cup {id}
  /\ Answers(u, TRUE, asked, {[place |-> <<u, n>>, row |-> row]})

(* PUT /workspace, with an id in the request or without; shared is NULL    *)
(* unless the request brings it.                                           *)
SetWithId(u, n, id, content, shared) ==
  Store(u, n, id, id, content, shared)

SetWithoutId(u, n, content, shared) ==
  \E id \in IdsFor(<<u, n>>) : Store(u, n, Nil, id, content, shared)

(* DELETE FROM workspaces WHERE name = $2 AND username = $1 *)
ClearWorkspace(u, n) ==
  /\ spaces' = [spaces EXCEPT ![<<u, n>>] = NoRow]
  /\ Answers(u, TRUE, Nil, {})
  /\ UNCHANGED given

(* Mutant: anyone shares any workspace. *)
Sharable_any(u, id) == {p \in Filled : spaces[p].id = id}
(* WHERE id = $1 AND username = $2 *)
Sharable(u, id) == {p \in Filled : spaces[p].id = id /\ p[1] = u}

(* UPDATE workspaces SET shared = true ...; 404 without a row. *)
ShareWorkspace(u, id) ==
  /\ Sharable(u, id) # {}
  /\ spaces' = [p \in Places |-> IF p \in Sharable(u, id)
                                 THEN [spaces[p] EXCEPT !.shared = TRUE] ELSE spaces[p]]
  /\ Answers(u, TRUE, id, {})
  /\ UNCHANGED given

(* Mutant: who has the key may read. *)
Readable_key(u, id) == {p \in Filled : spaces[p].id = id}
(* WHERE id = $1 AND (username = $2 OR shared = true) *)
Readable(u, id) ==
  {p \in Filled : spaces[p].id = id /\ (p[1] = u \/ spaces[p].shared = TRUE)}

(* A GET that finds rows at these places. *)
Shows(u, asked, places) ==
  /\ Answers(u, TRUE, asked, {[place |-> p, row |-> spaces[p]] : p \in places})
  /\ UNCHANGED <<spaces, given>>

GetByKey(u, id) == Readable(u, id) # {} /\ Shows(u, id, Readable(u, id))

GetByName(u, n) == <<u, n>> \in Filled /\ Shows(u, Nil, {<<u, n>>})

ListWorkspaces(u) == Shows(u, Nil, {p \in Filled : p[1] = u})

-----------------------------------------------------------------------------
Set(u) ==
  \E n \in Names, content \in Contents, shared \in Shared :
    \/ SetWithoutId(u, n, content, shared)
    \/ \E id \in Ids : SetWithId(u, n, id, content, shared)

WorkspacesNext == \E u \in Users :
  \/ Refuse(u) \/ Set(u) \/ ListWorkspaces(u)
  \/ \E n \in Names : ClearWorkspace(u, n) \/ GetByName(u, n)
  \/ \E id \in Ids : ShareWorkspace(u, id) \/ GetByKey(u, id)

WorkspacesSpec == WorkspacesInit /\ [][WorkspacesNext]_spacesVars

-----------------------------------------------------------------------------
(* Properties.                                                             *)

(* database.go:92-101, 961-975: whatever ids requests bring, and whatever  *)
(* is cleared and saved again, no two workspaces have one id, so a key     *)
(* leads to one workspace at most.                                         *)
UniqueIds ==
  \A p, q \in Places :
    p # q /\ spaces[p] # NoRow /\ spaces[q] # NoRow => spaces[p].id # spaces[q].id

(* database.go:770: what a user is shown is his own or shared. *)
ShownIsVisible ==
  \A e \in answer.shows : e.place[1] = answer.to \/ e.row.shared = TRUE

(* Every handler: a request changes, shares or clears no workspace of      *)
(* another user, and a refused one changes nothing.                        *)
OwnRowsOnly ==
  [][\A p \in Places :
       spaces'[p] # spaces[p] => answer'.ok /\ answer'.to = p[1]]_spacesVars

(* database.go:961-975: a workspace that is saved again or shared keeps    *)
(* the key others read it by, unless the request brings another.           *)
KeyIsKept ==
  [][\A p \in Places :
       spaces[p] # NoRow /\ spaces'[p] # NoRow /\ spaces'[p].id # spaces[p].id
         => answer'.asked = spaces'[p].id]_spacesVars
=============================================================================
