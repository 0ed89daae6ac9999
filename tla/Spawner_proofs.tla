--------------------------- MODULE Spawner_proofs ---------------------------
(***************************************************************************)
(* Theorems about Spawner, for any number of requests of each kind and     *)
(* whatever may fail.                                                      *)
(***************************************************************************)
EXTENDS Spawner, TLAPS

USE DEF mainVars, delVars, getVars

Dead(p) == proc[p] \in {"zombie", "reaped"}

-----------------------------------------------------------------------------
(* The inductive invariant.  The properties of Spawner speak of the map,   *)
(* the handlers and the children; what ties them together is how far each  *)
(* handler has got with its child.                                         *)

(* Main leaves its first step only after the signal. *)
StopInv == mpc \in MainSteps \ {"serving", "crashed"} => stopping

(* What a POST handler knows of its child, and what its id in the map says *)
(* about the handler.                                                      *)
PostInv ==
  \A p \in Posts :
    /\ post[p] = "idle" => proc[p] = "none"
    /\ post[p] = "launching" => proc[p] # "reaped"
    /\ post[p] = "refused" => proc[p] \in {"none", "reaped"}
    /\ post[p] \in {"testing", "killing", "inserting", "failed"}
         => proc[p] \in {"running", "zombie"}
    /\ post[p] = "created" => proc[p] # "none"
    /\ p \in workerMap => post[p] = "created"

(* A DELETE handler past Kill has a dead target; before that it names an   *)
(* id at least, one of a worker that was created if it found it.           *)
DelInv ==
  \A d \in Deletes :
    /\ del[d] # "idle" => target[d] \in Posts
    /\ del[d] = "killing" => post[target[d]] = "created"
    /\ del[d] \in {"unmapping", "stopped"} => Dead(target[d])

(* So has main once it is about to remove the entry it is at. *)
MainInv ==
  /\ mpc \in {"term", "wait", "reap", "unmap"} =>
       cur \in Posts /\ post[cur] = "created"
  /\ mpc = "unmap" => Dead(cur)

(* As long as no two accesses overlapped, every write reached the map. *)
RaceInv == Overlap => raced

TrackInv ==
  ~raced => \A p \in Posts : proc[p] = "running" =>
    p \in workerMap \/ InFlight(p) \/ (post[p] = "failed" /\ "kill" \in Faults)

(* What the loop of the shutdown has left behind it: the workers it had    *)
(* before it and no longer sees are dead, and so are those it has been to. *)
SweepInv ==
  ~raced /\ "kill" \notin Faults =>
    /\ \A p \in present \ workerMap : Dead(p)
    /\ \A p \in visited :
         Dead(p) \/ (p = cur /\ mpc \in {"term", "wait", "reap", "unmap", "crashed"})
    /\ mpc \in {"drain", "sleep", "exited"} => \A p \in present : Dead(p)

IInv == /\ TypeOK /\ StopInv /\ PostInv /\ DelInv /\ MainInv /\ RaceInv
        /\ TrackInv /\ SweepInv

-----------------------------------------------------------------------------
LEMMA InitIInv == Init => IInv
<1> SUFFICES ASSUME Init PROVE IInv
  OBVIOUS
<1>1. TypeOK
  BY DEF Init, TypeOK, MainSteps, PostSteps, DelSteps, GetSteps, ListSteps
<1>2. StopInv /\ PostInv /\ DelInv /\ MainInv /\ TrackInv /\ SweepInv
  BY DEF Init, StopInv, PostInv, DelInv, MainInv, TrackInv, SweepInv, InFlight
<1>3. RaceInv
  BY DEF Init, RaceInv, Overlap, Writers
<1> QED
  BY <1>1, <1>2, <1>3 DEF IInv

(* All that Kill can do to child p. *)
LEMMA KillEffect ==
  ASSUME TypeOK, NEW p \in Posts, NEW ok \in BOOLEAN, Kill(p, ok)
  PROVE  /\ proc' \in [Posts -> {"none", "running", "zombie", "reaped"}]
         /\ cause' \in [Posts -> {"none", "itself", "killed", "context"}]
         /\ \A q \in Posts \ {p} : proc'[q] = proc[q]
         /\ proc'[p] = IF ok /\ proc[p] = "running" THEN "zombie" ELSE proc[p]
  BY DEF TypeOK, Kill

LEMMA OutcomesBoolean == \A p : SignalOutcomes(p) \subseteq BOOLEAN
  BY DEF SignalOutcomes

(* Types are inductive together with what DelInv and MainInv say of the id *)
(* a goroutine is about to use as a key.                                   *)
LEMMA TypeStep == TypeOK /\ DelInv /\ MainInv /\ [Next]_vars => TypeOK'
<1> SUFFICES ASSUME TypeOK, DelInv, MainInv, [Next]_vars PROVE TypeOK'
  OBVIOUS
<1> USE DEF TypeOK, MainSteps, PostSteps, DelSteps, GetSteps, ListSteps, NoteRace
<1>1. ASSUME NEW p \in Posts, Post(p) PROVE TypeOK'
  <2>1. CASE PostArrives(p) \/ PostRejected(p) \/ ChildReady(p)
             \/ TestPasses(p) \/ TestFails(p) \/ TestBreaks(p) \/ LaunchRefused(p)
    BY ZenonT(30), <2>1 DEF PostStep, PostArrives, PostRejected, ChildReady, TestPasses,
                TestFails, TestBreaks, LaunchRefused
  <2>2. CASE ChildStarts(p) \/ LaunchCollects(p)
    BY <2>2 DEF PostStep, ChildStarts, LaunchCollects
  <2>3. CASE LaunchTimesOut(p) \/ KillUntested(p)
    <3>1. PICK ok \in BOOLEAN : Kill(p, ok)
      BY <2>3, OutcomesBoolean DEF LaunchTimesOut, KillUntested
    <3>2. CASE LaunchTimesOut(p)
      BY <3>1, <3>2, KillEffect DEF LaunchTimesOut
    <3>3. CASE KillUntested(p)
      BY <3>1, <3>3, KillEffect DEF PostStep, KillUntested
    <3> QED
      BY <2>3, <3>2, <3>3
  <2>4. CASE Insert(p)
    BY <2>4 DEF PostStep, Insert, Written
  <2> QED
    BY <1>1, <2>1, <2>2, <2>3, <2>4 DEF Post, PostServed
<1>2. ASSUME NEW p \in Posts, WorkerExits(p) \/ ContextKills(p) PROVE TypeOK'
  BY <1>2 DEF WorkerExits, ContextKills
<1>3. ASSUME NEW d \in Deletes, DeleteArrives(d) \/ DeleteServed(d)
      PROVE  TypeOK'
  <2>1. CASE DeleteArrives(d) \/ DeleteFinds(d)
    BY ZenonT(30), <2>1 DEF DelStep, DeleteArrives, DeleteFinds
  <2>2. CASE DeleteKills(d)
    <3>1. PICK ok \in BOOLEAN :
            /\ DelStep(d, "killing", IF ok THEN "unmapping" ELSE "failed")
            /\ Kill(target[d], ok)
            /\ UNCHANGED <<workerMap, target>>
      BY <2>2, OutcomesBoolean DEF DeleteKills
    <3>2. target[d] \in Posts
      BY <3>1 DEF DelStep, DelInv
    <3> QED
      BY <3>1, <3>2, KillEffect DEF DelStep
  <2>3. CASE DeleteUnmaps(d)
    BY <2>3 DEF DelStep, DeleteUnmaps, Written
  <2> QED
    BY <1>3, <2>1, <2>2, <2>3 DEF DeleteServed
<1>4. ASSUME NEW g \in Gets,
             GetArrives(g) \/ GetFinds(g) \/ GetTested(g) \/ GetBreaks(g)
      PROVE  TypeOK'
  <2>1. CASE GetArrives(g)
    BY <2>1 DEF GetStep, GetArrives
  <2>2. CASE GetFinds(g)
    BY <2>2 DEF GetStep, GetFinds
  <2>3. CASE GetTested(g) \/ GetBreaks(g)
    BY ZenonT(30), <2>3 DEF GetStep, GetTested, GetBreaks
  <2> QED
    BY <1>4, <2>1, <2>2, <2>3
<1>5. ASSUME NEW l \in Lists, ListArrives(l) \/ ListAnswers(l) PROVE TypeOK'
  BY ZenonT(30), <1>5 DEF ListStep, ListArrives, ListAnswers
<1>6. CASE Main
  <2>1. CASE ShutdownBegins \/ LoopEnds \/ Drain \/ Exit
    BY ZenonT(30), <2>1 DEF MainStep, ShutdownBegins, LoopEnds, Drain, Exit
  <2>2. CASE LoopVisits
    BY <2>2 DEF MainStep, LoopVisits
  <2>3. CASE Terminate
    <3>1. PICK ok \in BOOLEAN :
            /\ MainStep("term", IF ok THEN "wait" ELSE "loop")
            /\ termed' = IF ok THEN termed \cup {cur} ELSE termed
            /\ UNCHANGED <<proc, workerMap, present, visited, cur, cause>>
      BY <2>3, OutcomesBoolean DEF Terminate
    <3>2. termed' \subseteq Posts
      BY <3>1 DEF MainStep, MainInv
    <3> QED
      BY <3>1, <3>2 DEF MainStep
  <2>4. CASE ChildWaitedFor \/ ChildReaped
    BY ZenonT(30), <2>4 DEF MainStep, ChildWaitedFor, ChildReaped
  <2>6. CASE WaitTimesOut
    <3>1. PICK ok \in BOOLEAN : Kill(cur, ok)
      BY <2>6, OutcomesBoolean DEF WaitTimesOut
    <3>2. cur \in Posts
      BY <2>6 DEF MainStep, WaitTimesOut, MainInv
    <3> QED
      BY <2>6, <3>1, <3>2, KillEffect DEF MainStep, WaitTimesOut
  <2>5. CASE Unmap
    BY <2>5 DEF MainStep, Unmap, Written
  <2> QED
    BY <1>6, <2>1, <2>2, <2>3, <2>4, <2>5, <2>6 DEF Main
<1>7. CASE SignalArrives \/ MapFault \/ ServeFails
  BY ZenonT(30), <1>7 DEF SignalArrives, MapFault, ServeFails
<1>8. CASE UNCHANGED vars
  BY <1>8 DEF vars
<1> QED
  BY <1>1, <1>2, <1>3, <1>4, <1>5, <1>6, <1>7, <1>8 DEF Next

(* Whoever takes a step, raced records an overlap. *)
LEMMA RaceStep == RaceInv /\ [Next]_vars => RaceInv' /\ (raced => raced')
<1> SUFFICES ASSUME RaceInv, [Next]_vars PROVE RaceInv' /\ (raced => raced')
  OBVIOUS
<1>1. CASE NoteRace
  BY <1>1 DEF NoteRace, RaceInv
<1>2. CASE UNCHANGED <<mpc, post, del, get, list, raced>>
  BY <1>2 DEF RaceInv, Overlap, Writers, Readers
<1>3. CASE MapFault \/ ServeFails
  BY <1>3 DEF MapFault, ServeFails, RaceInv, Overlap, Writers, Readers, Accepting,
              MainSteps
<1> QED
  BY <1>1, <1>2, <1>3
  DEF Next, vars, Post, PostServed, PostArrives, PostRejected, ChildReady,
      TestPasses, TestFails, TestBreaks, LaunchRefused, ChildStarts,
      LaunchTimesOut, LaunchCollects, KillUntested, Insert, PostStep, WorkerExits,
      ContextKills, DeleteArrives, DeleteServed, DeleteFinds, DeleteKills,
      DeleteUnmaps, DelStep, GetArrives, GetFinds, GetTested, GetBreaks, GetStep,
      ListArrives, ListAnswers, ListStep, Main, MainStep, ShutdownBegins,
      LoopVisits, LoopEnds, Terminate, ChildWaitedFor, WaitTimesOut, ChildReaped,
      Unmap, Drain, Exit, SignalArrives

-----------------------------------------------------------------------------
(* What one step may do to child p, to the handler of POST p and to the    *)
(* entry p of the map.  The invariants need no more of the actions.        *)
ProcMoves(p) ==
  \/ proc'[p] = proc[p]
  \/ /\ proc[p] = "none" /\ proc'[p] = "running"
     /\ post[p] = "launching" /\ post'[p] = "launching"
     /\ ~stopping /\ Up
  \/ proc[p] = "running" /\ proc'[p] = "zombie" /\ post'[p] # "refused"
  \/ /\ proc[p] = "zombie" /\ proc'[p] = "reaped"
     /\ \/ post[p] = "launching" /\ post'[p] = "refused"
        \/ post[p] = "created" /\ post'[p] = "created"

PostMoves(p) ==
  \/ post'[p] = post[p]
  \/ post[p] = "idle" /\ post'[p] \in {"launching", "refused"} /\ proc'[p] = proc[p]
  \/ /\ post[p] = "launching" /\ post'[p] = "refused"
     /\ proc'[p] \in {"none", "reaped"}
  \/ /\ post[p] = "launching" /\ post'[p] = "testing"
     /\ proc[p] \in {"running", "zombie"} /\ proc'[p] = proc[p]
  \/ /\ post[p] = "testing" /\ post'[p] \in {"killing", "inserting"}
     /\ proc'[p] = proc[p]
  \/ /\ post[p] = "killing" /\ post'[p] = "failed"
     /\ proc'[p] # "running" \/ "kill" \in Faults
  \/ /\ post[p] = "inserting" /\ post'[p] = "created"
     /\ proc'[p] = proc[p]
     /\ ~Overlap => p \in workerMap'

MapMoves(p) ==
  \/ p \in workerMap' <=> p \in workerMap
  \/ p \in workerMap' /\ post[p] = "inserting" /\ post'[p] = "created"
  \/ p \in workerMap /\ Dead(p) /\ proc'[p] = proc[p] /\ post'[p] = post[p]
  \/ p \in workerMap /\ Overlap

Moves == \A p \in Posts : ProcMoves(p) /\ PostMoves(p) /\ MapMoves(p)

LEMMA StepMoves ==
  TypeOK /\ PostInv /\ DelInv /\ MainInv /\ [Next]_vars => Moves
<1> SUFFICES ASSUME TypeOK, PostInv, DelInv, MainInv, [Next]_vars PROVE Moves
  OBVIOUS
<1> USE DEF Moves, ProcMoves, PostMoves, MapMoves
<1>0. /\ post \in [Posts -> PostSteps] /\ workerMap \subseteq Posts
      /\ proc \in [Posts -> {"none", "running", "zombie", "reaped"}]
  BY DEF TypeOK
<1>1. CASE UNCHANGED <<post, proc, workerMap>>
  BY <1>1
<1>2. ASSUME NEW p \in Posts, Post(p) PROVE Moves
  <2>1. CASE PostArrives(p) \/ PostRejected(p) \/ ChildReady(p)
             \/ TestPasses(p) \/ TestFails(p) \/ TestBreaks(p)
    BY <1>0, <2>1 DEF PostStep, PostArrives, PostRejected, ChildReady,
                      TestPasses, TestFails, TestBreaks
  <2>2. CASE ChildStarts(p)
    BY <1>0, <2>2 DEF ChildStarts
  <2>3. CASE LaunchRefused(p) \/ LaunchCollects(p)
    BY <1>0, <2>3 DEF PostStep, LaunchRefused, LaunchCollects
  <2>4. CASE LaunchTimesOut(p)
    <3>1. PICK ok \in BOOLEAN : Kill(p, ok)
      BY <2>4, OutcomesBoolean DEF LaunchTimesOut
    <3> QED
      BY <1>0, <2>4, <3>1, KillEffect DEF LaunchTimesOut
  <2>5. CASE KillUntested(p)
    <3>1. PICK ok \in SignalOutcomes(p) : Kill(p, ok)
      BY <2>5 DEF KillUntested
    <3>2. ok \in BOOLEAN
      BY <3>1, OutcomesBoolean
    <3>3. /\ post' = [post EXCEPT ![p] = "failed"] /\ post[p] = "killing"
          /\ workerMap' = workerMap
      BY <2>5 DEF KillUntested, PostStep
    <3>4. proc'[p] # "running" \/ "kill" \in Faults
      BY <3>1, <3>2, <3>3, KillEffect DEF SignalOutcomes, PostInv
    <3> QED
      BY <1>0, <3>1, <3>2, <3>3, <3>4, KillEffect
  <2>6. CASE Insert(p)
    BY <1>0, <2>6 DEF PostStep, Insert, Written
  <2> QED
    BY <1>2, <2>1, <2>2, <2>3, <2>4, <2>5, <2>6 DEF Post, PostServed
<1>3. ASSUME NEW p \in Posts, WorkerExits(p) \/ ContextKills(p) PROVE Moves
  BY <1>0, <1>3 DEF WorkerExits, ContextKills, PostInv
<1>4. ASSUME NEW d \in Deletes, DeleteKills(d) PROVE Moves
  <2>1. PICK ok \in BOOLEAN : Kill(target[d], ok)
    BY <1>4, OutcomesBoolean DEF DeleteKills
  <2>2. /\ del[d] = "killing" /\ post' = post /\ workerMap' = workerMap
        /\ target[d] \in Posts /\ post[target[d]] = "created"
    BY <1>4 DEF DeleteKills, DelStep, DelInv
  <2> QED
    BY <1>0, <2>1, <2>2, KillEffect
<1>5. ASSUME NEW d \in Deletes, DeleteUnmaps(d) PROVE Moves
  BY <1>0, <1>5 DEF DeleteUnmaps, DelStep, Written, DelInv
<1>6. CASE ChildWaitedFor \/ ChildReaped
  BY <1>0, <1>6 DEF ChildWaitedFor, ChildReaped, MainStep, MainInv
<1>7. CASE WaitTimesOut
  <2>1. PICK ok \in BOOLEAN : Kill(cur, ok)
    BY <1>7, OutcomesBoolean DEF WaitTimesOut
  <2>2. /\ post' = post /\ workerMap' = workerMap
        /\ cur \in Posts /\ post[cur] = "created"
    BY <1>7 DEF WaitTimesOut, MainStep, MainInv
  <2> QED
    BY <1>0, <2>1, <2>2, KillEffect
<1>8. CASE Unmap
  BY <1>0, <1>8 DEF Unmap, MainStep, Written, MainInv
<1> QED
  BY <1>1, <1>2, <1>3, <1>4, <1>5, <1>6, <1>7, <1>8
  DEF Next, vars, DeleteArrives, DeleteServed, DeleteFinds, DelStep, GetArrives,
      GetFinds, GetTested, GetBreaks, GetStep, ListArrives, ListAnswers,
      ListStep, Main, MainStep, ShutdownBegins, LoopVisits, LoopEnds, Terminate,
      Drain, Exit, SignalArrives, MapFault, ServeFails

-----------------------------------------------------------------------------
LEMMA PostInvStep == PostInv /\ Moves => PostInv'
  BY DEF PostInv, Moves, ProcMoves, PostMoves, MapMoves

LEMMA TrackStep == TrackInv /\ RaceInv /\ (raced => raced') /\ Moves => TrackInv'
<1> SUFFICES ASSUME TrackInv, RaceInv, raced => raced', Moves, ~raced',
                    NEW p \in Posts, proc'[p] = "running"
             PROVE  p \in workerMap' \/ InFlight(p)'
                      \/ (post'[p] = "failed" /\ "kill" \in Faults)
  BY DEF TrackInv
<1>1. ~Overlap /\ ProcMoves(p) /\ PostMoves(p) /\ MapMoves(p)
  BY DEF RaceInv, Moves
<1>2. CASE proc[p] # "running"
  BY <1>1, <1>2 DEF ProcMoves, InFlight
<1>3. CASE proc[p] = "running" /\ InFlight(p)
  BY <1>1, <1>3 DEF PostMoves, MapMoves, InFlight
<1>4. CASE proc[p] = "running" /\ p \in workerMap
  BY <1>1, <1>4 DEF MapMoves, Dead
<1>5. CASE post[p] = "failed" /\ "kill" \in Faults
  BY <1>1, <1>5 DEF PostMoves
<1> QED
  BY <1>2, <1>3, <1>4, <1>5 DEF TrackInv

LEMMA DelStepInv ==
  TypeOK /\ PostInv /\ DelInv /\ MainInv /\ [Next]_vars => DelInv'
<1> SUFFICES ASSUME TypeOK, PostInv, DelInv, MainInv, [Next]_vars PROVE DelInv'
  OBVIOUS
<1>1. \A p \in Posts : /\ post[p] = "created" => post'[p] = "created"
                       /\ Dead(p) => Dead(p)'
  BY StepMoves DEF Moves, ProcMoves, PostMoves, Dead
<1>2. CASE UNCHANGED <<del, target>>
  BY <1>1, <1>2 DEF DelInv, Dead
<1>3. ASSUME NEW d \in Deletes, DeleteArrives(d) \/ DeleteServed(d)
      PROVE  DelInv'
  <2>1. CASE DeleteArrives(d)
    BY <1>1, <2>1 DEF DeleteArrives, DelStep, DelInv, TypeOK, Dead
  <2>2. CASE DeleteFinds(d)
    <3>1. PICK found \in SUBSET workerMap :
            DelStep(d, "lookup", IF target[d] \in found THEN "killing" ELSE "notFound")
      BY <2>2 DEF DeleteFinds, Found
    <3>2. del' = [del EXCEPT ![d] = IF target[d] \in found THEN "killing" ELSE "notFound"]
          /\ target' = target /\ proc' = proc /\ post' = post /\ del[d] = "lookup"
      BY <2>2, <3>1 DEF DeleteFinds, DelStep
    <3>3. target[d] \in Posts /\ (target[d] \in found => post[target[d]] = "created")
      BY <3>1, <3>2 DEF DelInv, PostInv, TypeOK
    <3> QED
      BY <3>2, <3>3 DEF DelInv, TypeOK, Dead
  <2>3. CASE DeleteKills(d)
    <3>1. PICK ok \in SignalOutcomes(target[d]) :
            /\ DelStep(d, "killing", IF ok THEN "unmapping" ELSE "failed")
            /\ Kill(target[d], ok)
            /\ UNCHANGED <<workerMap, target>>
      BY <2>3 DEF DeleteKills
    <3>2. ok \in BOOLEAN /\ target[d] \in Posts
      BY <3>1, OutcomesBoolean DEF DelStep, DelInv
    <3>3. proc[target[d]] \in {"running", "zombie", "reaped"}
      BY <3>1, <3>2 DEF DelStep, DelInv, PostInv, TypeOK
    <3>4. proc'[target[d]] = IF ok /\ proc[target[d]] = "running"
                             THEN "zombie" ELSE proc[target[d]]
      BY <3>1, <3>2, KillEffect
    <3>5. ok => Dead(target[d])'
      BY <3>1, <3>3, <3>4 DEF Dead
    <3> QED
      BY <1>1, <3>1, <3>2, <3>5 DEF DelStep, DelInv, TypeOK, Dead
  <2>4. CASE DeleteUnmaps(d)
    BY <1>1, <2>4 DEF DeleteUnmaps, DelStep, DelInv, TypeOK, Dead
  <2> QED
    BY <1>3, <2>1, <2>2, <2>3, <2>4 DEF DeleteServed
<1> QED
  BY <1>2, <1>3
  DEF Next, vars, Post, PostServed, PostArrives, PostRejected, ChildReady,
      TestPasses, TestFails, TestBreaks, LaunchRefused, ChildStarts,
      LaunchTimesOut, LaunchCollects, KillUntested, Insert, PostStep, WorkerExits,
      ContextKills, GetArrives, GetFinds, GetTested, GetBreaks, GetStep,
      ListArrives, ListAnswers, ListStep, Main, MainStep, ShutdownBegins,
      LoopVisits, LoopEnds, Terminate, ChildWaitedFor, WaitTimesOut, ChildReaped,
      Unmap, Drain, Exit, SignalArrives, MapFault, ServeFails

LEMMA MainStepInv ==
  TypeOK /\ PostInv /\ DelInv /\ MainInv /\ StopInv /\ [Next]_vars
  => MainInv' /\ StopInv'
<1> SUFFICES ASSUME TypeOK, PostInv, DelInv, MainInv, StopInv, [Next]_vars
             PROVE  MainInv' /\ StopInv'
  OBVIOUS
<1>1. \A p \in Posts : /\ post[p] = "created" => post'[p] = "created"
                       /\ Dead(p) => Dead(p)'
  BY StepMoves DEF Moves, ProcMoves, PostMoves, Dead
<1> USE DEF MainInv, StopInv, MainSteps, Dead, Up
<1>2. CASE UNCHANGED <<mpc, cur, stopping>>
  BY <1>1, <1>2
<1>3. CASE SignalArrives \/ MapFault \/ ServeFails
  BY <1>1, <1>3 DEF SignalArrives, MapFault, ServeFails
<1>4. CASE Main
  <2>1. CASE ShutdownBegins \/ LoopEnds \/ Drain
    BY <1>1, <2>1 DEF ShutdownBegins, LoopEnds, Drain, MainStep
  <2>2. CASE LoopVisits
    BY <1>1, <2>2 DEF LoopVisits, MainStep, TypeOK, PostInv
  <2>3. CASE Terminate
    BY <1>1, <2>3 DEF Terminate, MainStep
  <2>4. CASE ChildWaitedFor \/ ChildReaped
    BY <1>1, <2>4 DEF ChildWaitedFor, ChildReaped, MainStep, TypeOK
  <2>5. CASE WaitTimesOut
    BY <1>1, <2>5 DEF WaitTimesOut, MainStep
  <2>6. CASE Unmap
    BY <1>1, <2>6 DEF Unmap, MainStep
  <2>7. CASE Exit
    BY <1>1, <2>7 DEF Exit, MainStep
  <2> QED
    BY <1>4, <2>1, <2>2, <2>3, <2>4, <2>5, <2>6, <2>7 DEF Main
<1> QED
  BY <1>2, <1>3, <1>4
  DEF Next, vars, Post, PostServed, PostArrives, PostRejected, ChildReady,
      TestPasses, TestFails, TestBreaks, LaunchRefused, ChildStarts,
      LaunchTimesOut, LaunchCollects, KillUntested, Insert, PostStep, WorkerExits,
      ContextKills, DeleteArrives, DeleteServed, DeleteFinds, DeleteKills,
      DeleteUnmaps, DelStep, GetArrives, GetFinds, GetTested, GetBreaks, GetStep,
      ListArrives, ListAnswers, ListStep

(* The loop goes on to the next entry only once the one it is at has ended, *)
(* and ends only when no entry it began with is left unvisited.             *)
LEMMA SweepStep ==
  /\ TypeOK /\ PostInv /\ DelInv /\ MainInv /\ RaceInv /\ SweepInv
  /\ [Next]_vars
  => SweepInv'
<1> SUFFICES ASSUME TypeOK, PostInv, DelInv, MainInv, RaceInv, SweepInv, [Next]_vars,
                    ~raced', "kill" \notin Faults
             PROVE  /\ \A p \in present' \ workerMap' : Dead(p)'
                    /\ \A p \in visited' :
                         \/ Dead(p)'
                         \/ /\ p = cur'
                            /\ mpc' \in {"term", "wait", "reap", "unmap", "crashed"}
                    /\ mpc' \in {"drain", "sleep", "exited"} =>
                         \A p \in present' : Dead(p)'
  BY DEF SweepInv
<1>1. ~raced /\ ~Overlap
  BY RaceStep DEF RaceInv
<1>2. \A p \in Posts : /\ Dead(p) => Dead(p)'
                       /\ p \in workerMap \ workerMap' => Dead(p)
  BY <1>1, StepMoves DEF Moves, ProcMoves, MapMoves, Dead
<1>3. present \subseteq Posts /\ visited \subseteq Posts /\ workerMap \subseteq Posts
  BY DEF TypeOK
<1>4. CASE present' = present /\ visited' = visited /\ cur' = cur
           /\ mpc' \in {mpc, "crashed"}
  BY <1>1, <1>2, <1>3, <1>4 DEF SweepInv
<1>5. CASE Main
  <2>1. CASE ShutdownBegins
    BY <1>1, <1>2, <1>3, <2>1 DEF ShutdownBegins, MainStep, SweepInv
  <2>2. CASE LoopVisits
    BY <1>1, <1>2, <1>3, <2>2 DEF LoopVisits, MainStep, SweepInv
  <2>3. CASE LoopEnds
    <3>1. present \cap workerMap \subseteq visited /\ mpc = "loop" /\ mpc' = "drain"
          /\ UNCHANGED <<proc, workerMap, present, visited, cur>>
      BY <1>1, <2>3 DEF LoopEnds, MainStep, Found
    <3> QED
      BY <1>1, <1>2, <1>3, <3>1 DEF SweepInv
  <2>4. CASE Terminate
    <3>1. PICK ok \in SignalOutcomes(cur) :
            /\ MainStep("term", IF ok THEN "wait" ELSE "loop")
            /\ UNCHANGED <<proc, workerMap, present, visited, cur>>
      BY <2>4 DEF Terminate
    <3>2. mpc = "term" /\ mpc' = (IF ok THEN "wait" ELSE "loop") /\ ok \in BOOLEAN
      BY <3>1, OutcomesBoolean DEF MainStep
    <3>3. ok \/ Dead(cur)
      BY <3>1 DEF SignalOutcomes, Dead
    <3> QED
      BY <1>1, <1>2, <1>3, <3>1, <3>2, <3>3 DEF SweepInv
  <2>5. CASE ChildWaitedFor \/ WaitTimesOut \/ ChildReaped
    <3>1. /\ present' = present /\ visited' = visited /\ cur' = cur
          /\ workerMap' = workerMap
          /\ mpc \in {"wait", "reap"} /\ mpc' \in {"reap", "unmap"}
      BY <2>5 DEF ChildWaitedFor, WaitTimesOut, ChildReaped, MainStep
    <3> QED
      BY <1>1, <1>2, <1>3, <3>1 DEF SweepInv
  <2>6. CASE Unmap
    <3>1. /\ present' = present /\ visited' = visited /\ cur' = cur
          /\ mpc = "unmap" /\ mpc' = "loop" /\ cur \in Posts /\ Dead(cur)
      BY <2>6 DEF Unmap, MainStep, MainInv
    <3> QED
      BY <1>1, <1>2, <1>3, <3>1 DEF SweepInv
  <2>7. CASE Drain \/ Exit
    BY <1>1, <1>2, <1>3, <2>7 DEF Drain, Exit, MainStep, SweepInv
  <2> QED
    BY <1>5, <2>1, <2>2, <2>3, <2>4, <2>5, <2>6, <2>7 DEF Main
<1> QED
  BY <1>4, <1>5
  DEF Next, vars, Post, PostServed, PostArrives, PostRejected, ChildReady,
      TestPasses, TestFails, TestBreaks, LaunchRefused, ChildStarts,
      LaunchTimesOut, LaunchCollects, KillUntested, Insert, PostStep, WorkerExits,
      ContextKills, DeleteArrives, DeleteServed, DeleteFinds, DeleteKills,
      DeleteUnmaps, DelStep, GetArrives, GetFinds, GetTested, GetBreaks, GetStep,
      ListArrives, ListAnswers, ListStep, SignalArrives, MapFault, ServeFails

LEMMA StepIInv == IInv /\ [Next]_vars => IInv'
  BY TypeStep, RaceStep, StepMoves, PostInvStep, TrackStep, DelStepInv, MainStepInv,
     SweepStep
  DEF IInv

LEMMA Invariance == Spec => []IInv
  BY InitIInv, StepIInv, PTL DEF Spec

-----------------------------------------------------------------------------
(* Every variable keeps its type. *)
THEOREM TypeCorrect == Spec => []TypeOK
<1>1. IInv => TypeOK
  BY DEF IInv
<1> QED
  BY <1>1, Invariance, PTL

(* As long as the program is up and no two accesses to the map overlapped, *)
(* a running worker is in the map, or its POST handler is at work on it,   *)
(* or a kill of it was refused: for any number of requests.                *)
THEOREM WorkersTracked == Spec => []Tracked
<1>1. IInv => Tracked
  BY DEF IInv, TrackInv, Tracked
<1> QED
  BY <1>1, Invariance, PTL

(* A DELETE that was answered "Worker stopped" left its worker dead, even  *)
(* where signals may be refused.                                           *)
THEOREM StoppedWorkersDead == Spec => []StoppedMeansDead
<1>1. IInv => StoppedMeansDead
  BY DEF IInv, DelInv, Dead, StoppedMeansDead
<1> QED
  BY <1>1, Invariance, PTL

(* When main's loop is through, the workers that were in the map when it   *)
(* began have ended, unless accesses to the map overlapped.                *)
THEOREM ShutdownComplete == Spec => []SweepComplete
<1>1. IInv => SweepComplete
  BY DEF IInv, SweepInv, SweepComplete, Dead
<1> QED
  BY <1>1, Invariance, PTL

(* Whoever takes an id out of the map, its process has ended, unless       *)
(* accesses to the map overlapped before.                                  *)
THEOREM EntriesOutliveWorkers == Spec => DroppedOnlyDead
<1>1. IInv /\ [Next]_vars =>
        [\A p \in workerMap \ workerMap' :
           raced \/ proc[p] \in {"zombie", "reaped"}]_vars
  <2> SUFFICES ASSUME IInv, [Next]_vars, NEW p \in workerMap \ workerMap'
               PROVE  raced \/ proc[p] \in {"zombie", "reaped"}
    OBVIOUS
  <2>1. p \in Posts
    BY DEF IInv, TypeOK
  <2> QED
    BY <2>1, StepMoves DEF IInv, RaceInv, PostInv, Moves, MapMoves, Dead
<1> QED
  BY <1>1, Invariance, PTL DEF Spec, DroppedOnlyDead

(* Each POST, with what DELETE and the shutdown do to its child, keeps to  *)
(* the contract that SpawnWorker implements.                               *)
THEOREM LaunchRespected == Spec => UsesLaunch
<1>1. Init => \A p \in Posts : Launched(p)!Init
  BY DEF Init, Launched!Init, PhaseOf
<1>2. IInv /\ [Next]_vars =>
        [\A p \in Posts : Launched(p)!Next \/ UNCHANGED Launched(p)!vars]_vars
  <2> SUFFICES ASSUME IInv, [Next]_vars, NEW p \in Posts
               PROVE  Launched(p)!Next \/ UNCHANGED Launched(p)!vars
    OBVIOUS
  <2>1. ProcMoves(p) /\ PostMoves(p)
    BY StepMoves DEF IInv, Moves
  <2> QED
    BY <2>1 DEF IInv, PostInv, ProcMoves, PostMoves, PhaseOf, Launched!Next,
        Launched!Begin, Launched!Refuse, Launched!Die, Launched!Succeed,
        Launched!Collect, Launched!OwnerCollects, Launched!vars
<1> QED
  BY <1>1, <1>2, Invariance, PTL DEF Spec, UsesLaunch

-----------------------------------------------------------------------------
(* The child that main waits for was not waited for before, and once main  *)
(* has killed it, it is dead, unless the kill was refused.                 *)
AwaitedIsThere ==
  /\ mpc \in {"wait", "reap"} => proc[cur] \in {"running", "zombie"}
  /\ mpc = "reap" /\ proc[cur] = "running" => "kill" \in Faults

LEMMA AwaitedStep == IInv /\ AwaitedIsThere /\ [Next]_vars => AwaitedIsThere'
<1> SUFFICES ASSUME IInv, AwaitedIsThere, [Next]_vars PROVE AwaitedIsThere'
  OBVIOUS
<1> USE DEF AwaitedIsThere
<1>1. CASE Main
  <2>1. CASE Terminate
    <3>1. /\ proc' = proc /\ cur' = cur /\ cur \in Posts /\ post[cur] = "created"
          /\ mpc' = "wait" => proc[cur] # "reaped"
          /\ mpc' \in {"wait", "loop"}
      BY <2>1 DEF Terminate, MainStep, SignalOutcomes, IInv, MainInv
    <3> QED BY <3>1 DEF IInv, PostInv, TypeOK
  <2>2. CASE WaitTimesOut
    <3>1. PICK ok \in SignalOutcomes(cur) : Kill(cur, ok)
      BY <2>2 DEF WaitTimesOut
    <3>2. mpc = "wait" /\ cur' = cur /\ cur \in Posts
      BY <2>2 DEF WaitTimesOut, MainStep, IInv, MainInv
    <3>3. ok \/ "kill" \in Faults
      BY <3>1, <3>2 DEF SignalOutcomes
    <3> QED BY <3>1, <3>2, <3>3 DEF Kill, IInv, TypeOK
  <2>3. CASE ~Terminate /\ ~WaitTimesOut
    BY <1>1, <2>3 DEF Main, ShutdownBegins, LoopVisits, LoopEnds, ChildWaitedFor,
       ChildReaped, Unmap, Drain, Exit, MainStep
  <2> QED BY <2>1, <2>2, <2>3
<1>2. CASE ~Main
  <2> SUFFICES ASSUME mpc' \in {"wait", "reap"}
               PROVE  /\ proc'[cur'] \in {"running", "zombie"}
                      /\ mpc' = "reap" /\ proc'[cur'] = "running" => "kill" \in Faults
    OBVIOUS
  <2>1. mpc' = mpc /\ cur' = cur
    BY <1>2 DEF Next, vars, Post, PostServed, PostArrives, PostRejected, ChildReady,
      TestPasses, TestFails, TestBreaks, LaunchRefused, ChildStarts,
      LaunchTimesOut, LaunchCollects, KillUntested, Insert, PostStep, WorkerExits,
      ContextKills, DeleteArrives, DeleteServed, DeleteFinds, DeleteKills,
      DeleteUnmaps, DelStep, GetArrives, GetFinds, GetTested, GetBreaks, GetStep,
      ListArrives, ListAnswers, ListStep, SignalArrives, MapFault, ServeFails
  <2>2. cur \in Posts /\ post[cur] = "created"
    BY <2>1 DEF IInv, MainInv
  <2>3. proc'[cur] = proc[cur] \/ (proc[cur] = "running" /\ proc'[cur] = "zombie")
    <3>1. CASE \E p \in Posts : LaunchCollects(p)
      <4>1. PICK p \in Posts : post[p] = "launching" /\ proc' = [proc EXCEPT ![p] = "reaped"]
        BY <3>1 DEF LaunchCollects, PostStep
      <4> QED BY <2>2, <4>1 DEF IInv, TypeOK
    <3>2. CASE ~\E p \in Posts : LaunchCollects(p)
      <4>1. proc'[cur] # "reaped" \/ proc[cur] = "reaped"
        <5>1. CASE \E p, ok : Kill(p, ok)
          BY <2>2, <5>1 DEF Kill, IInv, TypeOK
        <5>2. CASE ~\E p, ok : Kill(p, ok)
          <6>1. \/ \E p \in Posts : WorkerExits(p) \/ ContextKills(p) \/ ChildStarts(p)
                \/ proc' = proc
            BY <1>2, <3>2, <5>2 DEF Next, vars, Post, PostServed, PostArrives,
               PostRejected, ChildReady, TestPasses, TestFails, TestBreaks,
               LaunchRefused, LaunchTimesOut, KillUntested, Insert, PostStep,
               DeleteArrives, DeleteServed, DeleteFinds, DeleteKills, DeleteUnmaps,
               DelStep, GetArrives, GetFinds, GetTested, GetBreaks, GetStep,
               ListArrives, ListAnswers, ListStep, SignalArrives, MapFault, ServeFails
          <6> QED BY <2>2, <6>1 DEF WorkerExits, ContextKills, ChildStarts, IInv, TypeOK
        <5> QED BY <5>1, <5>2
      <4>2. ProcMoves(cur)
        BY <2>2, StepMoves DEF IInv, Moves
      <4> QED BY <2>2, <4>1, <4>2 DEF ProcMoves
    <3> QED BY <3>1, <3>2
  <2> QED BY <2>1, <2>3
<1> QED BY <1>1, <1>2

(* The shutdown waits for each child at most once, and never for one that  *)
(* is not going to end: its Wait returns, unless SIGKILL was refused.      *)
THEOREM AwaitedChildren == Spec => []AwaitedIsThere
<1>1. Init => AwaitedIsThere
  BY DEF Init, AwaitedIsThere
<1> QED BY <1>1, AwaitedStep, Invariance, PTL DEF Spec
=============================================================================
