------------------------------- MODULE Leases -------------------------------
(***************************************************************************)
(* The life of workers across carta-ctl and carta-spawn.  A session of the *)
(* controller asks the spawner for a worker with every REGISTER_VIEWER and *)
(* every OPEN_FILE it handles, and asks for the end of one worker when its *)
(* client has left.  Both ask over HTTP, once, without a timeout and       *)
(* without a retry, and either program may end in between.                 *)
(*                                                                         *)
(* What travels between the programs is in Session.tla, what happens       *)
(* within the spawner in Spawner.tla: here an access to the spawner's map  *)
(* is atomic, and so are the handlers of DELETE.                           *)
(***************************************************************************)
CONSTANTS
  Sessions,
  Requests,   \* messages that ask for a worker; each gets at most one, so a
              \* request, its worker and the worker's id are one value here
  None,       \* no worker
  Faults      \* what may go wrong: "lost" (a connection between the two),
              \* "kill" (a signal is refused), "ctl" (the controller ends),
              \* "spawner" (the spawner ends)

ASSUME NoneAssumption == None \notin Requests
ASSUME FaultsAssumption == Faults \subseteq {"lost", "kill", "ctl", "spawner"}

VARIABLES
  ctlUp, spawnerUp,
  phase,      \* phase[s]: what the controller is at with session s, see Phases
  info,       \* info[s]: Session.Info, the worker of a registration, or None
  target,     \* target[s]: the worker that s has shut down, or None
  outcome,    \* outcome[s]: what became of that request
  inTime,     \* history: inTime[s], the registrations answered before s asked
              \* whether there is a worker to shut down
  owner,      \* owner[q]: the session whose client may send q
  kind,       \* kind[q]: what it is, "register", "open" or "none" yet
  call,       \* call[q]: what the handler of message q is at
  post,       \* post[q]: what the spawner is at with q's POST
  worker,     \* worker[q]: the worker, as in Lease
  workerMap   \* the spawner's workerMap

msgVars == <<owner, kind>>
ctlVars == <<phase, info, target, outcome, inTime>>
vars == <<ctlUp, spawnerUp, ctlVars, msgVars, call, post, worker, workerMap>>

Phases == {"open", "left", "checked", "deleting", "over"}

(* The messages of session s. *)
Of(s) == {q \in Requests : owner[q] = s}

TypeOK ==
  /\ ctlUp \in BOOLEAN /\ spawnerUp \in BOOLEAN
  /\ phase \in [Sessions -> Phases]
  /\ info \in [Sessions -> Requests \cup {None}]
  /\ target \in [Sessions -> Requests \cup {None}]
  /\ \A s \in Sessions : {info[s], target[s]} \subseteq Of(s) \cup {None}
  /\ outcome \in [Sessions -> {"none", "stopped", "refused", "notFound", "lost"}]
  /\ inTime \in [Sessions -> SUBSET Requests]
  /\ owner \in [Requests -> Sessions]
  /\ kind \in [Requests -> {"none", "register", "open"}]
  /\ call \in [Requests -> {"none", "read", "posting", "dialing", "held", "failed"}]
  /\ post \in [Requests -> {"none", "spawning", "reaping", "testing",
                           "created", "refused"}]
  /\ worker \in [Requests -> {"none", "running", "exited", "stopped"}]
  /\ workerMap \subseteq Requests

Init ==
  /\ ctlUp = TRUE /\ spawnerUp = TRUE
  /\ phase = [s \in Sessions |-> "open"]
  /\ info = [s \in Sessions |-> None] /\ target = [s \in Sessions |-> None]
  /\ outcome = [s \in Sessions |-> "none"] /\ inTime = [s \in Sessions |-> {}]
  /\ owner \in [Requests -> Sessions] /\ kind = [q \in Requests |-> "none"]
  /\ call = [q \in Requests |-> "none"] /\ post = [q \in Requests |-> "none"]
  /\ worker = [q \in Requests |-> "none"] /\ workerMap = {}

-----------------------------------------------------------------------------
(* Handlers of the controller, each on a goroutine of its own, which goes  *)
(* on when the client has left.                                            *)

CallStep(q, from, to) ==
  /\ ctlUp /\ call[q] = from
  /\ call' = [call EXCEPT ![q] = to]
  /\ UNCHANGED <<ctlUp, spawnerUp, post, worker, workerMap>>

(* The read loop of the session hands a message to a new goroutine. *)
Read(q) ==
  /\ phase[owner[q]] = "open"
  /\ CallStep(q, "none", "read")
  /\ \E k \in {"register", "open"} : kind' = [kind EXCEPT ![q] = k]
  /\ UNCHANGED <<ctlVars, owner>>

(* A registration has a connection to its worker: sharedWorker is not nil. *)
HasShared(s) == \E q \in Of(s) : kind[q] = "register" /\ call[q] = "held"

(* checkAndParse, and the request: a file needs the shared worker first. *)
Handle(q) ==
  /\ CallStep(q, "read", IF kind[q] = "register" \/ HasShared(owner[q])
                         THEN "posting" ELSE "failed")
  /\ UNCHANGED <<ctlVars, msgVars>>

(* Mutant: the controller keeps the registrations of all sessions in one   *)
(* place.                                                                  *)
Registered_anywhere(q) ==
  [s \in Sessions |-> IF kind[q] = "register" THEN q ELSE info[s]]
(* Mutant: the id is kept once the worker is connected to, and not before. *)
Registered_later(q) == info
(* s.Info = info *)
Registered(q) ==
  [info EXCEPT ![owner[q]] = IF kind[q] = "register" THEN q ELSE @]

(* Mutant: an answer without a worker is waited for again. *)
Answerable_worker(q) == post[q] = "created"
(* What the spawner has answered. *)
Answerable(q) == post[q] \in {"created", "refused"}

(* The POST is answered. *)
Answered(q) ==
  LET s == owner[q] IN
  /\ Answerable(q)
  /\ CallStep(q, "posting", IF post[q] = "created" THEN "dialing" ELSE "failed")
  /\ info' = IF post[q] = "created" THEN Registered(q) ELSE info
  /\ inTime' = IF kind[q] = "register" /\ post[q] = "created"
                    /\ phase[s] \in {"open", "left"}
               THEN [inTime EXCEPT ![s] = @ \cup {q}] ELSE inTime
  /\ UNCHANGED <<phase, target, outcome, msgVars>>

(* The POST ends without an answer: a connection is lost, or there is no   *)
(* spawner.                                                                *)
CallBreaks(q) ==
  /\ "lost" \in Faults \/ ~spawnerUp
  /\ CallStep(q, "posting", "failed")
  /\ UNCHANGED <<ctlVars, msgVars>>

Connects(q) ==
  /\ worker[q] = "running"
  /\ CallStep(q, "dialing", "held")
  /\ UNCHANGED <<ctlVars, msgVars>>

(* The dial is refused, or the handshake takes the dialer's 45 seconds. *)
DialFails(q) ==
  /\ CallStep(q, "dialing", "failed")
  /\ UNCHANGED <<ctlVars, msgVars>>

HandlerStep(q) ==
  \/ Handle(q) \/ Answered(q) \/ Connects(q) \/ DialFails(q)
  \/ ~spawnerUp /\ CallBreaks(q)

-----------------------------------------------------------------------------
(* HandleDisconnect.                                                       *)

PhaseStep(s, from, to) ==
  /\ ctlUp /\ phase[s] = from
  /\ phase' = [phase EXCEPT ![s] = to]
  /\ UNCHANGED <<ctlUp, spawnerUp, info, inTime, msgVars, call, post>>

Leave(s) ==
  /\ PhaseStep(s, "open", "left")
  /\ UNCHANGED <<target, outcome, worker, workerMap>>

(* Mutant: without a connection to a shared worker there is nothing to do. *)
NothingToStop_unconnected(s) ==
  /\ info[s] = None \/ ~HasShared(s)
  /\ PhaseStep(s, "left", "over")
  /\ UNCHANGED <<target, outcome, worker, workerMap>>
(* Info.WorkerId is empty: there is nothing to shut down. *)
NothingToStop(s) ==
  /\ info[s] = None
  /\ PhaseStep(s, "left", "over")
  /\ UNCHANGED <<target, outcome, worker, workerMap>>

(* The shared worker is disconnected; the worker itself stays. *)
Disconnect(s) ==
  /\ info[s] # None
  /\ PhaseStep(s, "left", "checked")
  /\ UNCHANGED <<target, outcome, worker, workerMap>>

RequestShutdown(s) ==
  /\ PhaseStep(s, "checked", "deleting")
  /\ target' = [target EXCEPT ![s] = info[s]]
  /\ UNCHANGED <<outcome, worker, workerMap>>

(* Mutant: the shutdown is asked for until it succeeds. *)
ShutdownAnswered_stopped(s) ==
  /\ outcome[s] = "stopped"
  /\ PhaseStep(s, "deleting", "over")
  /\ UNCHANGED <<target, outcome, worker, workerMap>>
(* Whatever the answer was, it is only logged. *)
ShutdownAnswered(s) ==
  /\ outcome[s] # "none"
  /\ PhaseStep(s, "deleting", "over")
  /\ UNCHANGED <<target, outcome, worker, workerMap>>

(* The request is lost on its way, or meets no spawner. *)
ShutdownLost(s) ==
  /\ "lost" \in Faults \/ ~spawnerUp
  /\ outcome[s] = "none"
  /\ PhaseStep(s, "deleting", "over")
  /\ outcome' = [outcome EXCEPT ![s] = "lost"]
  /\ UNCHANGED <<target, worker, workerMap>>

CleanupStep(s) ==
  \/ NothingToStop(s) \/ Disconnect(s) \/ RequestShutdown(s)
  \/ ShutdownAnswered(s)
  \/ ~spawnerUp /\ ShutdownLost(s)

-----------------------------------------------------------------------------
(* The spawner.                                                            *)

SpawnerStep ==
  spawnerUp /\ UNCHANGED <<ctlUp, spawnerUp, phase, info, target, inTime, msgVars, call>>

PostStep(q, from, to) ==
  /\ SpawnerStep /\ post[q] = from
  /\ post' = [post EXCEPT ![q] = to]
  /\ UNCHANGED outcome

PostArrives(q) ==
  /\ call[q] = "posting"
  /\ PostStep(q, "none", "spawning")
  /\ UNCHANGED <<worker, workerMap>>

(* SpawnWorker, as Launch has it. *)
ChildStarts(q) ==
  /\ SpawnerStep /\ post[q] = "spawning" /\ worker[q] = "none"
  /\ worker' = [worker EXCEPT ![q] = "running"]
  /\ UNCHANGED <<post, outcome, workerMap>>

(* Whether a Kill succeeds. *)
KillOutcomes == IF "kill" \in Faults THEN BOOLEAN ELSE {TRUE}

(* Mutant: a worker is stopped by its user's name, with all the user has. *)
KilledWorker_ofUser(q, ok) ==
  [r \in Requests |-> IF ok /\ worker[r] = "running" THEN "stopped" ELSE worker[r]]
KilledWorker(q, ok) ==
  [worker EXCEPT ![q] = IF ok /\ @ = "running" THEN "stopped" ELSE @]

(* There is no child: a pipe or the start of the program failed. *)
LaunchRefused(q) ==
  /\ worker[q] = "none"
  /\ PostStep(q, "spawning", "refused")
  /\ UNCHANGED <<worker, workerMap>>

(* The deadline kills the child, whether or not the signal is taken... *)
LaunchTimesOut(q) ==
  /\ worker[q] # "none"
  /\ PostStep(q, "spawning", "reaping")
  /\ \E ok \in KillOutcomes : worker' = KilledWorker(q, ok)
  /\ UNCHANGED workerMap

(* ...and Wait returns when it has ended. *)
LaunchCollects(q) ==
  /\ worker[q] # "running"
  /\ PostStep(q, "reaping", "refused")
  /\ UNCHANGED <<worker, workerMap>>

ChildReady(q) ==
  /\ worker[q] # "none"
  /\ PostStep(q, "spawning", "testing")
  /\ UNCHANGED <<worker, workerMap>>

(* TestWorker, which a worker that stays silent holds for ever. *)
TestPasses(q) ==
  /\ worker[q] = "running"
  /\ PostStep(q, "testing", "created")
  /\ workerMap' = workerMap \cup {q}
  /\ UNCHANGED worker

TestFails(q) ==
  /\ PostStep(q, "testing", "refused")
  /\ \E ok \in KillOutcomes : worker' = KilledWorker(q, ok)
  /\ UNCHANGED workerMap

TestBreaks(q) == worker[q] # "running" /\ TestFails(q)

(* What the spawner does on its own with a request that it has taken. *)
PostServed(q) ==
  \/ ChildStarts(q) \/ LaunchRefused(q) \/ LaunchTimesOut(q) \/ LaunchCollects(q)
  \/ TestBreaks(q)

(* DELETE /worker/{id} *)
DeleteServed(s) ==
  /\ SpawnerStep /\ phase[s] = "deleting" /\ outcome[s] = "none"
  /\ \E ok \in KillOutcomes :
       IF target[s] \notin workerMap
       THEN /\ outcome' = [outcome EXCEPT ![s] = "notFound"]
            /\ UNCHANGED <<worker, workerMap>>
       ELSE /\ outcome' = [outcome EXCEPT ![s] = IF ok THEN "stopped" ELSE "refused"]
            /\ worker' = KilledWorker(target[s], ok)
            /\ workerMap' = IF ok THEN workerMap \ {target[s]} ELSE workerMap
  /\ UNCHANGED post

-----------------------------------------------------------------------------
(* What ends on its own.                                                   *)

WorkerExits(q) ==
  /\ worker[q] = "running"
  /\ worker' = [worker EXCEPT ![q] = "exited"]
  /\ UNCHANGED <<ctlUp, spawnerUp, ctlVars, msgVars, call, post, workerMap>>

(* carta-ctl handles no signal, and a send on a closed channel ends it,    *)
(* too (see Session): it leaves its sessions as they are.                  *)
ControllerEnds ==
  /\ "ctl" \in Faults /\ ctlUp
  /\ ctlUp' = FALSE
  /\ UNCHANGED <<spawnerUp, ctlVars, msgVars, call, post, worker, workerMap>>

(* The orderly shutdown takes every child along (see Spawner); os.Exit and *)
(* a fault of the map leave them running.                                  *)
SpawnerEnds ==
  /\ "spawner" \in Faults /\ spawnerUp
  /\ spawnerUp' = FALSE
  /\ worker' \in {worker, [q \in Requests |->
                    IF worker[q] = "running" THEN "exited" ELSE worker[q]]}
  /\ UNCHANGED <<ctlUp, ctlVars, msgVars, call, post, workerMap>>

-----------------------------------------------------------------------------
Next ==
  \/ \E q \in Requests :
       \/ Read(q) \/ HandlerStep(q) \/ CallBreaks(q) \/ WorkerExits(q)
       \/ PostArrives(q) \/ ChildReady(q) \/ TestPasses(q) \/ TestFails(q) \/ PostServed(q)
  \/ \E s \in Sessions :
       Leave(s) \/ CleanupStep(s) \/ ShutdownLost(s) \/ DeleteServed(s)
  \/ ControllerEnds \/ SpawnerEnds

(* Goroutines are scheduled, timers fire, and a call to a program that has *)
(* ended fails.  Nothing makes a client send or leave, a worker announce   *)
(* itself, answer or exit, a program end, or a spawner take up a request:  *)
(* no call of the controller has a timeout.                                *)
Fairness ==
  /\ \A q \in Requests : WF_vars(HandlerStep(q) \/ PostServed(q))
  /\ \A s \in Sessions : WF_vars(CleanupStep(s))

Spec == Init /\ [][Next]_vars /\ Fairness

-----------------------------------------------------------------------------
(* Properties.                                                             *)

(* session.go:103-123, registerViewer.go:36: a worker that was registered  *)
(* before HandleDisconnect asked for it, and not replaced by another       *)
(* registration, does not run on after its session, unless the spawner     *)
(* never got the request or could not kill it.                             *)
RegisteredFreed ==
  \A s \in Sessions : \A q \in inTime[s] :
    /\ phase[s] = "over" /\ outcome[s] \notin {"lost", "refused"}
    /\ \A r \in Of(s) : kind[r] = "register" /\ post[r] = "created" => r = q
    => worker[q] # "running"

(* Who answers for the worker of q. *)
SessionHolds(q) ==
  /\ ctlUp /\ phase[owner[q]] = "open"
  /\ \/ kind[q] = "register" /\ info[owner[q]] = q
     \/ kind[q] = "open" /\ call[q] \in {"dialing", "held"}

CleanupHolds(q) ==
  LET s == owner[q] IN
  \/ ctlUp /\ phase[s] \in {"left", "checked"} /\ info[s] = q
  \/ phase[s] = "deleting" /\ target[s] = q /\ outcome[s] = "none"

SpawnerHolds(q) ==
  \/ spawnerUp /\ post[q] \in {"spawning", "reaping", "testing"}
  \/ ctlUp /\ post[q] = "created" /\ call[q] = "posting"

HolderOf(q) ==
  IF worker[q] # "running" THEN "nobody"
  ELSE IF SpawnerHolds(q) THEN "spawner"
  ELSE IF SessionHolds(q) THEN "session"
  ELSE IF CleanupHolds(q) THEN "cleanup" ELSE "lost"

(* Every worker lives as Lease allows, whatever the sessions do and        *)
(* whatever ends or is lost: no request stops a worker under an open       *)
(* session, and nobody stops one that nobody answers for.                  *)
Leased(q) == INSTANCE Lease WITH worker <- worker[q], holder <- HolderOf(q)
UsesLease ==
  /\ \A q \in Requests : Leased(q)!Init
  /\ [][\A q \in Requests : UNCHANGED Leased(q)!vars \/ Leased(q)!Next]_vars

(* openFile.go:20-45, registerViewer.go:22-38, session.go:109-118: ways to *)
(* lose worker q, which then runs on with nobody who will ever end it.     *)
Orphaned(q) ==   \* the worker of a file: nobody keeps its id
  kind[q] = "open" /\ (phase[owner[q]] # "open" \/ call[q] = "failed")
Replaced(q) ==   \* another registration of the session took its place
  /\ kind[q] = "register" /\ info[owner[q]] \notin {q, None}
  /\ call[q] \in {"dialing", "held", "failed"}
Late(q) ==       \* registered when the cleanup had looked
  /\ kind[q] = "register" /\ info[owner[q]] = q
  /\ q \notin inTime[owner[q]] /\ phase[owner[q]] \in {"deleting", "over"}
Unanswered(q) == \* the spawner's answer never came
  kind[q] = "register" /\ call[q] = "failed" /\ info[owner[q]] # q
NotFreed(q) ==   \* the spawner never heard of its end, or could not kill it
  /\ target[owner[q]] = q /\ outcome[owner[q]] \in {"lost", "refused"}
Abandoned(q) ==  \* a program ended before it could see to it
  \/ ~ctlUp /\ (phase[owner[q]] # "over" \/ call[q] = "posting")
  \/ ~spawnerUp /\ post[q] \in {"spawning", "reaping", "testing"}

(* A worker that runs on and that nobody answers for was lost in one of    *)
(* these ways, and by a fault only where that fault may happen.            *)
LostOnlySo ==
  \A q \in Requests :
    HolderOf(q) = "lost" =>
      \/ Orphaned(q) \/ Replaced(q) \/ Late(q)
      \/ ("lost" \in Faults \/ ~spawnerUp) /\ (Unanswered(q) \/ NotFreed(q))
      \/ "kill" \in Faults /\ (post[q] = "refused" \/ NotFreed(q))
      \/ Abandoned(q)

(* session.go:118, spawnerHelpers.go:117: while the controller is up, the  *)
(* cleanup of a session comes to its end whatever the answer is and        *)
(* however many requests for workers hang, or it waits for ever for a      *)
(* spawner that stays up and never answers.                                *)
CleanupEnds ==
  \A s \in Sessions :
    phase[s] = "left" ~>
      \/ phase[s] = "over" \/ ~ctlUp
      \/ [](spawnerUp /\ phase[s] = "deleting" /\ outcome[s] = "none")

(* spawnerHelpers.go:117, processSpawning.go:156-157, 179: neither side    *)
(* has a deadline for the whole, and yet a request for a worker is held    *)
(* for ever only by a spawner that never takes it up, by a worker that     *)
(* runs and stays silent when it is tested, or by one that was too late    *)
(* and could not be killed.                                                *)
OnlySilenceHolds ==
  \A q \in Requests :
    call[q] = "posting" ~>
      \/ call[q] # "posting" \/ ~ctlUp
      \/ []( /\ spawnerUp
             /\ post[q] = "none" \/ (post[q] \in {"reaping", "testing"} /\ worker[q] = "running"))
=============================================================================
