------------------------------- MODULE Spawner -------------------------------
(***************************************************************************)
(* The carta-spawn process: its HTTP handlers, each on a goroutine of its  *)
(* own, the map of workers they share without a lock, the children they    *)
(* start, and the main goroutine that shuts everything down on a signal.   *)
(*                                                                         *)
(* Each POST request starts at most one child and makes up one workerId,   *)
(* so a POST, its child and its id are the same value here.  What happens  *)
(* inside SpawnWorker is in SpawnWorker.tla; here a launch takes the steps *)
(* that Launch.tla allows.                                                 *)
(***************************************************************************)
EXTENDS Naturals, FiniteSets

CONSTANTS
  Posts,    \* POST / requests
  Deletes,  \* DELETE /worker/{id} requests
  Gets,     \* GET /worker/{id} requests
  Lists,    \* GET /workers requests
  Nobody,   \* no worker
  Faults    \* what may fail: "kill" (a signal is refused), "listen" (Accept)

ASSUME FaultsAssumption == Faults \subseteq {"kill", "listen"}
ASSUME NobodyAssumption == Nobody \notin Posts

VARIABLES
  mpc,        \* the main goroutine, see MainSteps
  stopping,   \* the global context is done
  post,       \* post[p]: where the handler of POST p stands
  proc,       \* proc[p]: its child, as in Launch
  workerMap,  \* the ids in the map
  del, target,\* del[d]: where DELETE d stands, target[d]: the id it names
  get, about, \* the same for GET g
  list,       \* list[l]: where GET /workers l stands
  present,    \* the ids in the map when main's loop over it began
  visited,    \* the ids that loop has produced
  cur,        \* the id it is at
  termed,     \* history: workers that were sent SIGTERM
  cause,      \* history: cause[p], what ended child p
  raced       \* history: two accesses to the map overlapped, one a write

mainVars == <<mpc, stopping, present, visited, cur>>
delVars == <<del, target>>
getVars == <<get, about>>
vars == <<mpc, stopping, post, proc, workerMap, del, target, get, about, list,
          present, visited, cur, termed, cause, raced>>

MainSteps == {"serving", "loop", "term", "wait", "reap", "unmap", "drain",
              "sleep", "exited", "crashed"}
PostSteps == {"idle", "launching", "testing", "killing", "inserting",
              "created", "refused", "failed"}
DelSteps == {"idle", "lookup", "killing", "unmapping", "stopped", "notFound",
             "failed"}
GetSteps == {"idle", "lookup", "testing", "dead", "reachable", "unreachable",
             "notFound"}
ListSteps == {"idle", "reading", "listed"}

TypeOK ==
  /\ mpc \in MainSteps /\ stopping \in BOOLEAN
  /\ post \in [Posts -> PostSteps]
  /\ proc \in [Posts -> {"none", "running", "zombie", "reaped"}]
  /\ workerMap \subseteq Posts
  /\ del \in [Deletes -> DelSteps]
  /\ target \in [Deletes -> Posts \cup {Nobody}]
  /\ get \in [Gets -> GetSteps] /\ about \in [Gets -> Posts \cup {Nobody}]
  /\ list \in [Lists -> ListSteps]
  /\ present \subseteq Posts /\ visited \subseteq Posts
  /\ cur \in Posts \cup {Nobody}
  /\ termed \subseteq Posts
  /\ cause \in [Posts -> {"none", "itself", "killed", "context"}]
  /\ raced \in BOOLEAN

Init ==
  /\ mpc = "serving" /\ stopping = FALSE
  /\ post = [p \in Posts |-> "idle"] /\ proc = [p \in Posts |-> "none"]
  /\ workerMap = {}
  /\ del = [d \in Deletes |-> "idle"] /\ target = [d \in Deletes |-> Nobody]
  /\ get = [g \in Gets |-> "idle"] /\ about = [g \in Gets |-> Nobody]
  /\ list = [l \in Lists |-> "idle"]
  /\ present = {} /\ visited = {} /\ cur = Nobody
  /\ termed = {} /\ cause = [p \in Posts |-> "none"] /\ raced = FALSE

-----------------------------------------------------------------------------
(* The map.  A goroutine at one of these steps is inside an access to it,  *)
(* and the access takes effect at its end.                                 *)

Writers == {p \in Posts : post[p] = "inserting"}
           \cup {d \in Deletes : del[d] = "unmapping"}
           \cup (IF mpc = "unmap" THEN {"main"} ELSE {})
Readers == {d \in Deletes : del[d] = "lookup"}
           \cup {g \in Gets : get[g] = "lookup"}
           \cup {l \in Lists : list[l] = "reading"}
           \cup (IF mpc = "loop" THEN {"main"} ELSE {})

Overlap == \E w \in Writers : Writers \cup Readers # {w}

(* What the map may hold after a write that meant to leave m in it, and    *)
(* which of its ids a read may find.  Go promises nothing of an access     *)
(* that overlaps another: the write or any entry may get lost.             *)
Written(m) == IF Overlap THEN SUBSET (m \cup workerMap) ELSE {m}
Found == IF Overlap THEN SUBSET workerMap ELSE {workerMap}

(* Every step of a handler or of main notes whether accesses overlap now. *)
NoteRace == raced' = (raced \/ Overlap')

-----------------------------------------------------------------------------
(* The process and its children.                                           *)

Up == mpc \notin {"exited", "crashed"}
Accepting == mpc \in MainSteps \ {"drain", "sleep", "exited", "crashed"}

(* Whether Process.Kill or Signal reports success: not once the child has  *)
(* been waited for, and perhaps not where signals are refused.             *)
SignalOutcomes(p) ==
  IF proc[p] = "reaped" THEN {FALSE}
  ELSE IF "kill" \in Faults THEN BOOLEAN ELSE {TRUE}

(* Child p after Kill returned ok, and what ended it. *)
Kill(p, ok) ==
  LET dies == ok /\ proc[p] = "running" IN
  /\ proc' = [proc EXCEPT ![p] = IF dies THEN "zombie" ELSE @]
  /\ cause' = [cause EXCEPT ![p] = IF dies THEN "killed" ELSE @]

WorkerExits(p) ==
  /\ proc[p] = "running"
  /\ proc' = [proc EXCEPT ![p] = "zombie"]
  /\ cause' = [cause EXCEPT ![p] = "itself"]
  /\ UNCHANGED <<mainVars, post, workerMap, delVars, getVars, list, termed,
                 raced>>

(* exec.CommandContext: a goroutine per child kills it when the context is *)
(* done.                                                                   *)
ContextKills(p) ==
  /\ Up /\ stopping /\ proc[p] = "running"
  /\ proc' = [proc EXCEPT ![p] = "zombie"]
  /\ cause' = [cause EXCEPT ![p] = "context"]
  /\ UNCHANGED <<mainVars, post, workerMap, delVars, getVars, list, termed,
                 raced>>

SignalArrives ==
  /\ Up /\ ~stopping
  /\ stopping' = TRUE
  /\ UNCHANGED <<mpc, present, visited, cur, post, proc, workerMap, delVars,
                 getVars, list, termed,
                 cause, raced>>

(* Go's runtime stops the program when it notices overlapping accesses.    *)
MapFault ==
  /\ Up /\ Overlap
  /\ mpc' = "crashed"
  /\ UNCHANGED <<stopping, present, visited, cur, post, proc, workerMap,
                 delVars, getVars, list, termed,
                 cause, raced>>

(* ListenAndServe returns an error: os.Exit(1), whatever is running. *)
ServeFails ==
  /\ "listen" \in Faults /\ Accepting
  /\ mpc' = "crashed"
  /\ UNCHANGED <<stopping, present, visited, cur, post, proc, workerMap,
                 delVars, getVars, list, termed,
                 cause, raced>>

-----------------------------------------------------------------------------
(* POST /                                                                  *)

PostStep(p, from, to) ==
  /\ Up /\ post[p] = from
  /\ post' = [post EXCEPT ![p] = to]
  /\ UNCHANGED <<mainVars, delVars, getVars, list, termed>>
  /\ NoteRace

PostArrives(p) ==
  /\ Accepting
  /\ PostStep(p, "idle", "launching")
  /\ UNCHANGED <<proc, workerMap, cause>>

(* A body that cannot be decoded. *)
PostRejected(p) ==
  /\ Accepting
  /\ PostStep(p, "idle", "refused")
  /\ UNCHANGED <<proc, workerMap, cause>>

(* SpawnWorker, up to cmd.Start, which refuses to once the context is done. *)
ChildStarts(p) ==
  /\ Up /\ post[p] = "launching" /\ proc[p] = "none" /\ ~stopping
  /\ proc' = [proc EXCEPT ![p] = "running"]
  /\ UNCHANGED <<mainVars, post, workerMap, delVars, getVars, list, termed,
                 cause, raced>>

LaunchRefused(p) ==
  /\ proc[p] = "none"
  /\ PostStep(p, "launching", "refused")
  /\ UNCHANGED <<proc, workerMap, cause>>

ChildReady(p) ==
  /\ proc[p] \in {"running", "zombie"}
  /\ PostStep(p, "launching", "testing")
  /\ UNCHANGED <<proc, workerMap, cause>>

(* The deadline: Kill, and Wait once the child is gone. *)
LaunchTimesOut(p) ==
  /\ Up /\ post[p] = "launching" /\ proc[p] = "running"
  /\ \E ok \in SignalOutcomes(p) : Kill(p, ok)
  /\ UNCHANGED <<mainVars, post, workerMap, delVars, getVars, list, termed,
                 raced>>

(* Mutant: SpawnWorker gives up without waiting for the child. *)
LaunchCollects_noWait(p) ==
  /\ proc[p] = "zombie"
  /\ PostStep(p, "launching", "refused")
  /\ UNCHANGED <<proc, workerMap, cause>>
LaunchCollects(p) ==
  /\ proc[p] = "zombie"
  /\ PostStep(p, "launching", "refused")
  /\ proc' = [proc EXCEPT ![p] = "reaped"]
  /\ UNCHANGED <<workerMap, cause>>

(* TestWorker gets its PONG. *)
TestPasses(p) ==
  /\ proc[p] = "running"
  /\ PostStep(p, "testing", "inserting")
  /\ UNCHANGED <<proc, workerMap, cause>>

(* TestWorker fails: the dial timed out or was refused, or the answer was  *)
(* not a PONG.                                                             *)
TestFails(p) ==
  /\ PostStep(p, "testing", "killing")
  /\ UNCHANGED <<proc, workerMap, cause>>

(* TestWorker's dial or read fails because the worker has gone. *)
TestBreaks(p) == proc[p] # "running" /\ TestFails(p)

(* Mutant: a worker that does not answer is left alone. *)
KillUntested_forgotten(p) ==
  /\ PostStep(p, "killing", "failed")
  /\ UNCHANGED <<proc, workerMap, cause>>
(* cmd.Process.Kill(), whose error is only logged; nobody waits. *)
KillUntested(p) ==
  /\ PostStep(p, "killing", "failed")
  /\ \E ok \in SignalOutcomes(p) : Kill(p, ok)
  /\ UNCHANGED workerMap

(* Mutant: the entry is made before there is an id. *)
Insert_blankId(p) ==
  /\ PostStep(p, "inserting", "created")
  /\ workerMap' = workerMap \cup {Nobody}
  /\ UNCHANGED <<proc, cause>>
(* workerMap[workerId.String()] = ..., then the reply with the id. *)
Insert(p) ==
  /\ PostStep(p, "inserting", "created")
  /\ workerMap' \in Written(workerMap \cup {p})
  /\ UNCHANGED <<proc, cause>>

PostServed(p) ==
  \/ ChildStarts(p) \/ LaunchRefused(p)
  \/ LaunchTimesOut(p) \/ LaunchCollects(p)
  \/ TestBreaks(p) \/ KillUntested(p) \/ Insert(p)

Post(p) == \/ PostArrives(p) \/ PostRejected(p) \/ ChildReady(p)
           \/ TestPasses(p) \/ TestFails(p) \/ PostServed(p)

-----------------------------------------------------------------------------
(* DELETE /worker/{id}                                                     *)

DelStep(d, from, to) ==
  /\ Up /\ del[d] = from
  /\ del' = [del EXCEPT ![d] = to]
  /\ UNCHANGED <<mainVars, post, getVars, list, termed>>
  /\ NoteRace

DeleteArrives(d) ==
  /\ Accepting
  /\ DelStep(d, "idle", "lookup")
  /\ \E p \in Posts : target' = [target EXCEPT ![d] = p]
  /\ UNCHANGED <<proc, workerMap, cause>>

DeleteFinds(d) ==
  /\ \E found \in Found :
       DelStep(d, "lookup", IF target[d] \in found THEN "killing" ELSE "notFound")
  /\ UNCHANGED <<proc, workerMap, target, cause>>

(* Mutant: the error of Kill is not looked at. *)
DeleteKills_anyway(d) ==
  /\ DelStep(d, "killing", "unmapping")
  /\ \E ok \in SignalOutcomes(target[d]) : Kill(target[d], ok)
  /\ UNCHANGED <<workerMap, target>>
(* Process.Kill(); an error ends the request and keeps the entry. *)
DeleteKills(d) ==
  /\ del[d] = "killing"
  /\ \E ok \in SignalOutcomes(target[d]) :
    /\ DelStep(d, "killing", IF ok THEN "unmapping" ELSE "failed")
    /\ Kill(target[d], ok)
    /\ UNCHANGED <<workerMap, target>>

DeleteUnmaps(d) ==
  /\ DelStep(d, "unmapping", "stopped")
  /\ workerMap' \in Written(workerMap \ {target[d]})
  /\ UNCHANGED <<proc, target, cause>>

DeleteServed(d) == DeleteFinds(d) \/ DeleteKills(d) \/ DeleteUnmaps(d)

-----------------------------------------------------------------------------
(* GET /worker/{id} and GET /workers                                       *)

GetStep(g, from, to) ==
  /\ Up /\ get[g] = from
  /\ get' = [get EXCEPT ![g] = to]
  /\ UNCHANGED <<mainVars, post, proc, workerMap, delVars, list, termed, cause>>
  /\ NoteRace

GetArrives(g) ==
  /\ Accepting
  /\ GetStep(g, "idle", "lookup")
  /\ \E p \in Posts : about' = [about EXCEPT ![g] = p]

(* Not in the map, or alive := ProcessState == nil, which Wait sets. *)
GetFinds(g) ==
  /\ \E found \in Found :
       GetStep(g, "lookup", CASE about[g] \notin found         -> "notFound"
                              [] proc[about[g]] = "reaped"   -> "dead"
                              [] OTHER                       -> "testing")
  /\ UNCHANGED about

GetTested(g) ==
  /\ \/ GetStep(g, "testing", "reachable") /\ proc[about[g]] = "running"
     \/ GetStep(g, "testing", "unreachable")
  /\ UNCHANGED about

GetBreaks(g) ==
  /\ GetStep(g, "testing", "unreachable")
  /\ proc[about[g]] # "running"
  /\ UNCHANGED about

ListStep(l, from, to) ==
  /\ Up /\ list[l] = from
  /\ list' = [list EXCEPT ![l] = to]
  /\ UNCHANGED <<mainVars, post, proc, workerMap, delVars, getVars, termed,
                 cause>>
  /\ NoteRace

ListArrives(l) == Accepting /\ ListStep(l, "idle", "reading")
(* The reply holds the keys of the map. *)
ListAnswers(l) == ListStep(l, "reading", "listed")

-----------------------------------------------------------------------------
(* The main goroutine.                                                     *)

MainStep(from, to) ==
  /\ mpc = from
  /\ mpc' = to
  /\ UNCHANGED <<stopping, post, delVars, getVars, list>>
  /\ NoteRace

ShutdownBegins ==
  /\ stopping
  /\ MainStep("serving", "loop")
  /\ present' = workerMap
  /\ UNCHANGED <<proc, workerMap, visited, cur, termed, cause>>

(* for id, w := range workerMap: an entry added meanwhile may be produced  *)
(* or not.                                                                 *)
LoopVisits ==
  \E p \in workerMap \ visited :
    /\ MainStep("loop", "term")
    /\ cur' = p /\ visited' = visited \cup {p}
    /\ UNCHANGED <<proc, workerMap, present, termed, cause>>

LoopEnds ==
  /\ \E found \in Found : present \cap found \subseteq visited
  /\ MainStep("loop", "drain")
  /\ UNCHANGED <<proc, workerMap, present, visited, cur, termed, cause>>

(* Signal(SIGTERM); on an error the loop goes on with the next entry. *)
Terminate ==
  /\ mpc = "term"
  /\ \E ok \in SignalOutcomes(cur) :
    /\ MainStep("term", IF ok THEN "wait" ELSE "loop")
    /\ termed' = IF ok THEN termed \cup {cur} ELSE termed
    /\ UNCHANGED <<proc, workerMap, present, visited, cur, cause>>

(* Mutant: both branches of the select receive from done, once too often.  *)
ChildWaitedFor_twice ==
  /\ MainStep("wait", "reap")
  /\ proc[cur] = "zombie"
  /\ proc' = [proc EXCEPT ![cur] = "reaped"]
  /\ UNCHANGED <<workerMap, present, visited, cur, termed, cause>>
(* The goroutine's Wait returns: case err := <-done. *)
ChildWaitedFor ==
  /\ MainStep("wait", "unmap")
  /\ proc[cur] = "zombie"
  /\ proc' = [proc EXCEPT ![cur] = "reaped"]
  /\ UNCHANGED <<workerMap, present, visited, cur, termed, cause>>

(* Mutant: a worker that ignores SIGTERM for five seconds is given up. *)
WaitTimesOut_givenUp ==
  /\ MainStep("wait", "loop")
  /\ UNCHANGED <<proc, workerMap, present, visited, cur, termed, cause>>
(* Mutant: after the second signal the entry is dropped without waiting. *)
WaitTimesOut_noReap ==
  /\ MainStep("wait", "unmap")
  /\ \E ok \in SignalOutcomes(cur) : Kill(cur, ok)
  /\ UNCHANGED <<workerMap, present, visited, cur, termed>>
(* case <-time.After(5 * time.Second): Kill, whose error is only logged. *)
WaitTimesOut ==
  /\ MainStep("wait", "reap")
  /\ \E ok \in SignalOutcomes(cur) : Kill(cur, ok)
  /\ UNCHANGED <<workerMap, present, visited, cur, termed>>

(* <-done, again: the goroutine's Wait returns at last. *)
ChildReaped ==
  /\ MainStep("reap", "unmap")
  /\ proc[cur] = "zombie"
  /\ proc' = [proc EXCEPT ![cur] = "reaped"]
  /\ UNCHANGED <<workerMap, present, visited, cur, termed, cause>>

Unmap ==
  /\ MainStep("unmap", "loop")
  /\ workerMap' \in Written(workerMap \ {cur})
  /\ UNCHANGED <<proc, present, visited, cur, termed, cause>>

(* server.Shutdown(shutdownCtx): the handlers are done, or five seconds    *)
(* have passed.                                                            *)
Drain ==
  /\ MainStep("drain", "sleep")
  /\ UNCHANGED <<proc, workerMap, present, visited, cur, termed, cause>>

(* A second later main returns, whatever the other goroutines are at. *)
Exit ==
  /\ MainStep("sleep", "exited")
  /\ UNCHANGED <<proc, workerMap, present, visited, cur, termed, cause>>

Main == \/ ShutdownBegins \/ LoopVisits \/ LoopEnds \/ Terminate
        \/ ChildWaitedFor \/ WaitTimesOut \/ ChildReaped \/ Unmap
        \/ Drain \/ Exit

-----------------------------------------------------------------------------
Next ==
  \/ \E p \in Posts : Post(p) \/ WorkerExits(p) \/ ContextKills(p)
  \/ \E d \in Deletes : DeleteArrives(d) \/ DeleteServed(d)
  \/ \E g \in Gets : \/ GetArrives(g) \/ GetFinds(g)
                     \/ GetTested(g) \/ GetBreaks(g)
  \/ \E l \in Lists : ListArrives(l) \/ ListAnswers(l)
  \/ Main \/ SignalArrives \/ MapFault \/ ServeFails

Spec == Init /\ [][Next]_vars

(* The program's goroutines are scheduled and its timers fire.  Nothing    *)
(* makes a request or the signal arrive, a worker announce itself, answer  *)
(* or exit.                                                                *)
Fairness ==
  /\ WF_vars(Main)
  /\ \A p \in Posts : /\ WF_vars(PostServed(p))
                      /\ WF_vars(ContextKills(p))
  /\ \A d \in Deletes : WF_vars(DeleteServed(d))
  /\ \A g \in Gets : WF_vars(GetFinds(g) \/ GetBreaks(g))
  /\ \A l \in Lists : WF_vars(ListAnswers(l))

FairSpec == Spec /\ Fairness

-----------------------------------------------------------------------------
(* Properties.                                                             *)

InFlight(p) == post[p] \in {"launching", "testing", "killing", "inserting"}

(* The spawner never loses sight of a running worker: its id is in the map *)
(* or its POST handler is still at work on it.  The exceptions are the     *)
(* ones the code lets happen, an overlap of map accesses and a kill that   *)
(* was refused and only logged.                                            *)
Tracked ==
  Up /\ ~raced => \A p \in Posts : proc[p] = "running" =>
    \/ p \in workerMap
    \/ InFlight(p)
    \/ post[p] = "failed" /\ "kill" \in Faults

(* "Worker stopped" is only ever said of a worker that has stopped. *)
StoppedMeansDead ==
  \A d \in Deletes :
    del[d] = "stopped" => proc[target[d]] \in {"zombie", "reaped"}

(* An id leaves the map only once its process has ended, whoever removes   *)
(* it: a DELETE whose Kill was accepted, or the shutdown, which gives a    *)
(* worker up only when Wait has returned.  Only overlapping accesses may   *)
(* lose the id of a running worker.                                        *)
DroppedOnlyDead ==
  [][\A p \in workerMap \ workerMap' :
       raced \/ proc[p] \in {"zombie", "reaped"}]_vars

(* When main's loop over the map is through, every worker that was in the  *)
(* map when it began has ended, whoever saw to it: the loop, which waits   *)
(* for it or kills it, or a DELETE that took the id away in the meantime.  *)
SweepComplete ==
  mpc \in {"drain", "sleep", "exited"} /\ ~raced /\ "kill" \notin Faults =>
    \A p \in present : proc[p] \in {"zombie", "reaped"}

(* The handlers and the shutdown use a launch as Launch allows: a child    *)
(* that failed to launch is gone without a trace, and only one that was    *)
(* handed over is waited for by somebody else.                             *)
PhaseOf(step) == CASE step \in {"idle", "launching"} -> "launching"
                   [] step = "refused"               -> "failed"
                   [] OTHER                          -> "ready"
Launched(p) == INSTANCE Launch WITH phase <- PhaseOf(post[p]), proc <- proc[p]
UsesLaunch ==
  /\ \A p \in Posts : Launched(p)!Init
  /\ [][\A p \in Posts : Launched(p)!Next \/ UNCHANGED Launched(p)!vars]_vars

(* A signal ends the program, whatever the handlers and children are at. *)
ShutdownEnds == stopping ~> ~Up

(* "First try a graceful shutdown": a worker in the map gets SIGTERM before *)
(* the shutdown kills it.                                                  *)
GracefulFirst ==
  \A p \in workerMap : cause[p] = "context" => p \in termed
=============================================================================
