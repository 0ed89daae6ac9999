--------------------------- MODULE Leases_proofs ---------------------------
(* Theorems about Leases and their proofs.                                 *)
EXTENDS Leases, TLAPS

(* The messages that ask for a worker, up to the spawner's answer. *)
RequestInv(q) ==
  /\ post[q] = "none" => worker[q] = "none"
  /\ call[q] \in {"none", "read"} => post[q] = "none"
  /\ call[q] \in {"dialing", "held"} => post[q] = "created"
  /\ q \in workerMap => post[q] = "created"
  /\ post[q] = "created" /\ q \notin workerMap => worker[q] # "running"

(* q is a registration of s that was answered with a worker. *)
Known(s, q) ==
  /\ q \in Requests /\ owner[q] = s /\ kind[q] = "register"
  /\ post[q] = "created" /\ call[q] \notin {"none", "read", "posting"}

(* What a session knows, and what its cleanup has done. *)
SessionInv(s) ==
  /\ info[s] # None => Known(s, info[s])
  /\ target[s] # None => Known(s, target[s])
  /\ \A q \in inTime[s] : Known(s, q)
  /\ inTime[s] # {} => info[s] # None
  /\ phase[s] = "checked" => info[s] # None
  /\ phase[s] \in {"open", "left", "checked"} => target[s] = None /\ outcome[s] = "none"
  /\ phase[s] = "deleting" => target[s] # None
  /\ phase[s] = "over" /\ target[s] = None => inTime[s] = {}
  /\ phase[s] = "over" /\ target[s] # None => outcome[s] # "none"
  /\ outcome[s] \in {"stopped", "notFound"} =>
       target[s] # None /\ worker[target[s]] # "running"

RequestsInv == \A q \in Requests : RequestInv(q)
SessionsInv == \A s \in Sessions : SessionInv(s)
IInv == TypeOK /\ RequestsInv /\ SessionsInv

(* The kinds of step, by what they leave alone. *)
Handling(q) ==
  \/ Read(q) \/ Handle(q) \/ Answered(q) \/ CallBreaks(q)
  \/ Connects(q) \/ DialFails(q)
Serving(q) ==
  \/ PostArrives(q) \/ ChildStarts(q) \/ LaunchRefused(q) \/ LaunchTimesOut(q)
  \/ LaunchCollects(q) \/ ChildReady(q) \/ TestPasses(q) \/ TestFails(q)
Cleaning(s) ==
  \/ Leave(s) \/ NothingToStop(s) \/ Disconnect(s) \/ RequestShutdown(s)
  \/ ShutdownAnswered(s) \/ ShutdownLost(s)

LEMMA Steps ==
  ASSUME Next
  PROVE  \/ \E q \in Requests : Handling(q) \/ Serving(q) \/ WorkerExits(q)
         \/ \E s \in Sessions : Cleaning(s) \/ DeleteServed(s)
         \/ ControllerEnds \/ SpawnerEnds
BY DEF Next, HandlerStep, CleanupStep, PostServed, TestBreaks, Handling, Serving,
       Cleaning

-----------------------------------------------------------------------------
LEMMA HandlingTyped ==
  ASSUME TypeOK, NEW q \in Requests, Handling(q)
  PROVE  TypeOK'
BY DEF TypeOK, Of, Handling, Read, Handle, Answered, CallBreaks, Connects, DialFails,
       CallStep, Registered, ctlVars, msgVars

LEMMA ServingTyped ==
  ASSUME TypeOK, NEW q \in Requests, Serving(q)
  PROVE  TypeOK'
BY DEF TypeOK, Of, Serving, PostArrives, ChildStarts, LaunchRefused, LaunchTimesOut,
       LaunchCollects, ChildReady, TestPasses, TestFails, PostStep, SpawnerStep, KilledWorker, ctlVars, msgVars

LEMMA CleaningTyped ==
  ASSUME TypeOK, NEW s \in Sessions, Cleaning(s)
  PROVE  TypeOK'
<1> USE DEF TypeOK, Of, Phases, PhaseStep, ctlVars, msgVars
<1>1. CASE Leave(s) \/ NothingToStop(s) \/ Disconnect(s)
  BY <1>1 DEF Leave, NothingToStop, Disconnect
<1>2. CASE RequestShutdown(s)
  BY <1>2 DEF RequestShutdown
<1>3. CASE ShutdownAnswered(s) \/ ShutdownLost(s)
  BY <1>3 DEF ShutdownAnswered, ShutdownLost
<1> QED BY <1>1, <1>2, <1>3 DEF Cleaning

LEMMA DeleteTyped ==
  ASSUME TypeOK, NEW s \in Sessions, DeleteServed(s)
  PROVE  TypeOK'
BY DEF TypeOK, Of, DeleteServed, SpawnerStep, KilledWorker, ctlVars, msgVars

LEMMA EndingTyped ==
  ASSUME TypeOK,
         (\E q \in Requests : WorkerExits(q)) \/ ControllerEnds \/ SpawnerEnds
  PROVE  TypeOK'
<1>1. CASE \E q \in Requests : WorkerExits(q)
  BY <1>1 DEF TypeOK, Of, WorkerExits, ctlVars, msgVars
<1>2. CASE ControllerEnds
  <2>1. ctlUp' \in BOOLEAN
        /\ UNCHANGED <<spawnerUp, ctlVars, msgVars, call, post, worker, workerMap>>
    BY <1>2 DEF ControllerEnds
  <2> QED BY <2>1 DEF TypeOK, Of, ctlVars, msgVars
<1>3. CASE SpawnerEnds
  <2>1. worker' \in [Requests -> {"none", "running", "exited", "stopped"}]
    <3>1. CASE worker' = worker
      BY <3>1 DEF TypeOK
    <3>2. CASE worker' = [q \in Requests |->
                            IF worker[q] = "running" THEN "exited" ELSE worker[q]]
      BY <3>2 DEF TypeOK
    <3> QED BY <1>3, <3>1, <3>2 DEF SpawnerEnds
  <2>2. spawnerUp' \in BOOLEAN
        /\ UNCHANGED <<ctlUp, ctlVars, msgVars, call, post, workerMap>>
    BY <1>3 DEF SpawnerEnds
  <2> QED BY <2>1, <2>2 DEF TypeOK, Of, ctlVars, msgVars
<1> QED BY <1>1, <1>2, <1>3

LEMMA InitTyped == Init => TypeOK
BY DEF Init, TypeOK, Of, Phases

LEMMA NextTyped == TypeOK /\ [Next]_vars => TypeOK'
<1> SUFFICES ASSUME TypeOK, [Next]_vars PROVE TypeOK'
  OBVIOUS
<1>1. CASE UNCHANGED vars
  BY <1>1 DEF TypeOK, Of, vars, ctlVars, msgVars
<1>2. CASE Next
  BY <1>2, Steps, HandlingTyped, ServingTyped, CleaningTyped, DeleteTyped, EndingTyped
<1> QED BY <1>1, <1>2

(* The variables keep their types, and a session only ever knows workers   *)
(* of its own.                                                             *)
THEOREM TypeCorrect == Spec => []TypeOK
BY InitTyped, NextTyped, PTL DEF Spec

-----------------------------------------------------------------------------
(* What a request goes through.                                            *)

LEMMA HandlingRequests ==
  ASSUME TypeOK, RequestsInv, NEW q \in Requests, Handling(q)
  PROVE  RequestsInv'
<1> SUFFICES ASSUME NEW r \in Requests PROVE RequestInv(r)'
  BY DEF RequestsInv
<1> QED
  BY DEF TypeOK, RequestsInv, RequestInv, Handling, Read, Handle, Answered, CallBreaks,
         Connects, DialFails, CallStep, Answerable

LEMMA ServingRequests ==
  ASSUME TypeOK, RequestsInv, NEW q \in Requests, Serving(q)
  PROVE  RequestsInv'
<1> SUFFICES ASSUME NEW r \in Requests PROVE RequestInv(r)'
  BY DEF RequestsInv
<1> QED
  BY DEF TypeOK, RequestsInv, RequestInv, Serving, PostArrives, ChildStarts,
         LaunchRefused, LaunchTimesOut, LaunchCollects, ChildReady, TestPasses, TestFails,
         PostStep, SpawnerStep, KilledWorker

LEMMA CleaningRequests ==
  ASSUME RequestsInv, NEW s \in Sessions, Cleaning(s)
  PROVE  RequestsInv'
BY DEF RequestsInv, RequestInv, Cleaning, Leave, NothingToStop, Disconnect,
       RequestShutdown, ShutdownAnswered, ShutdownLost, PhaseStep

LEMMA DeleteRequests ==
  ASSUME TypeOK, RequestsInv, NEW s \in Sessions, DeleteServed(s)
  PROVE  RequestsInv'
<1> SUFFICES ASSUME NEW r \in Requests PROVE RequestInv(r)'
  BY DEF RequestsInv
<1> QED
  BY DEF TypeOK, RequestsInv, RequestInv, DeleteServed, SpawnerStep, KilledWorker

(* A worker that ends does so alone or with all others. *)
LEMMA Ended ==
  ASSUME TypeOK,
         (\E q \in Requests : WorkerExits(q)) \/ ControllerEnds \/ SpawnerEnds
  PROVE  /\ \A r \in Requests :
              \/ worker'[r] = worker[r]
              \/ worker[r] = "running" /\ worker'[r] = "exited"
         /\ UNCHANGED <<ctlVars, msgVars, call, post, workerMap>>
<1>1. CASE \E q \in Requests : WorkerExits(q)
  BY <1>1 DEF TypeOK, WorkerExits
<1>2. CASE ControllerEnds
  BY <1>2 DEF ControllerEnds
<1>3. CASE SpawnerEnds
  BY <1>3 DEF TypeOK, SpawnerEnds
<1> QED BY <1>1, <1>2, <1>3

LEMMA EndingRequests ==
  ASSUME TypeOK, RequestsInv,
         (\E q \in Requests : WorkerExits(q)) \/ ControllerEnds \/ SpawnerEnds
  PROVE  RequestsInv'
<1> SUFFICES ASSUME NEW r \in Requests PROVE RequestInv(r)'
  BY DEF RequestsInv
<1> QED BY Ended DEF RequestsInv, RequestInv

-----------------------------------------------------------------------------
(* What a session knows.                                                   *)

LEMMA HandlingSessions ==
  ASSUME TypeOK, RequestsInv, SessionsInv, NEW q \in Requests, Handling(q)
  PROVE  SessionsInv'
<1> SUFFICES ASSUME NEW s \in Sessions PROVE SessionInv(s)'
  BY DEF SessionsInv
<1>1. \A r : Known(s, r) => Known(s, r)'
  BY DEF TypeOK, RequestsInv, RequestInv, Known, Handling, Read, Handle, Answered,
         CallBreaks, Connects, DialFails, CallStep, msgVars, ctlVars
<1>2. CASE Answered(q)
  <2>1. CASE post[q] = "created" /\ kind[q] = "register" /\ owner[q] = s
    <3>1. Known(s, q)' /\ info'[s] = q
      BY <1>2, <2>1 DEF TypeOK, Known, Answered, CallStep, Registered, msgVars
    <3>2. inTime'[s] \subseteq inTime[s] \cup {q} /\ q # None
      BY <1>2, <2>1, NoneAssumption DEF TypeOK, Answered
    <3>3. phase[s] \notin {"open", "left"} => inTime'[s] = inTime[s]
      BY <1>2, <2>1 DEF TypeOK, Answered
    <3> QED
      BY <1>1, <1>2, <3>1, <3>2, <3>3, <2>1 DEF SessionsInv, SessionInv, Answered, CallStep
  <2>2. CASE ~(post[q] = "created" /\ kind[q] = "register" /\ owner[q] = s)
    <3>1. info'[s] = info[s] /\ inTime'[s] = inTime[s]
      BY <1>2, <2>2 DEF TypeOK, Answered, Registered
    <3> QED
      BY <1>1, <1>2, <3>1 DEF SessionsInv, SessionInv, Answered, CallStep
  <2> QED BY <2>1, <2>2
<1>3. CASE ~Answered(q)
  BY <1>1, <1>3 DEF SessionsInv, SessionInv, Handling, Read, Handle, CallBreaks,
     Connects, DialFails, CallStep, ctlVars
<1> QED BY <1>2, <1>3

LEMMA ServingSessions ==
  ASSUME TypeOK, RequestsInv, SessionsInv, NEW q \in Requests, Serving(q)
  PROVE  SessionsInv'
<1> SUFFICES ASSUME NEW s \in Sessions PROVE SessionInv(s)'
  BY DEF SessionsInv
<1>1. \A r : Known(s, r) => Known(s, r)' /\ worker'[r] = worker[r]
  BY DEF TypeOK, Known, Serving, PostArrives, ChildStarts, LaunchRefused, LaunchTimesOut,
         LaunchCollects, ChildReady, TestPasses, TestFails, PostStep, SpawnerStep, KilledWorker, msgVars
<1>2. UNCHANGED ctlVars
  BY DEF Serving, PostArrives, ChildStarts, LaunchRefused, LaunchTimesOut, LaunchCollects,
         ChildReady, TestPasses, TestFails, PostStep, SpawnerStep, ctlVars
<1> QED BY <1>1, <1>2 DEF SessionsInv, SessionInv, ctlVars

LEMMA CleaningSessions ==
  ASSUME TypeOK, SessionsInv, NEW c \in Sessions, Cleaning(c)
  PROVE  SessionsInv'
<1> SUFFICES ASSUME NEW s \in Sessions PROVE SessionInv(s)'
  BY DEF SessionsInv
<1>1. \A r : Known(s, r)' = Known(s, r)
  BY DEF Known, Cleaning, Leave, NothingToStop, Disconnect, RequestShutdown,
         ShutdownAnswered, ShutdownLost, PhaseStep, msgVars
<1>2. UNCHANGED <<worker, info, inTime>>
  BY DEF Cleaning, Leave, NothingToStop, Disconnect, RequestShutdown,
         ShutdownAnswered, ShutdownLost, PhaseStep
<1>3. CASE s = c
  BY <1>1, <1>2, <1>3 DEF TypeOK, SessionsInv, SessionInv, Cleaning, Leave,
     NothingToStop, Disconnect, RequestShutdown, ShutdownAnswered, ShutdownLost, PhaseStep
<1>4. CASE s # c
  BY <1>1, <1>2, <1>4 DEF TypeOK, SessionsInv, SessionInv, Cleaning, Leave,
     NothingToStop, Disconnect, RequestShutdown, ShutdownAnswered, ShutdownLost, PhaseStep
<1> QED BY <1>3, <1>4

LEMMA DeleteSessions ==
  ASSUME TypeOK, RequestsInv, SessionsInv, NEW c \in Sessions, DeleteServed(c)
  PROVE  SessionsInv'
<1> SUFFICES ASSUME NEW s \in Sessions PROVE SessionInv(s)'
  BY DEF SessionsInv
<1>1. UNCHANGED <<phase, info, target, inTime>> /\ \A r : Known(s, r)' = Known(s, r)
  BY DEF Known, DeleteServed, SpawnerStep, msgVars
<1>2. \A r \in Requests : worker[r] # "running" => worker'[r] # "running"
  BY DEF TypeOK, DeleteServed, KilledWorker
<1>3. CASE s = c
  <2>1. target[c] \in Requests /\ post[target[c]] = "created"
    BY DEF TypeOK, SessionsInv, SessionInv, Known, DeleteServed
  <2>2. outcome'[c] \in {"stopped", "notFound"} => worker'[target[c]] # "running"
    BY <2>1 DEF TypeOK, RequestsInv, RequestInv, DeleteServed, KilledWorker
  <2> QED BY <1>1, <1>3, <2>1, <2>2 DEF TypeOK, SessionsInv, SessionInv, DeleteServed
<1>4. CASE s # c
  <2>1. outcome'[s] = outcome[s]
    BY <1>4 DEF TypeOK, DeleteServed
  <2> QED BY <1>1, <1>2, <2>1 DEF TypeOK, SessionsInv, SessionInv, Known
<1> QED BY <1>3, <1>4

LEMMA EndingSessions ==
  ASSUME TypeOK, SessionsInv,
         (\E q \in Requests : WorkerExits(q)) \/ ControllerEnds \/ SpawnerEnds
  PROVE  SessionsInv'
<1> SUFFICES ASSUME NEW s \in Sessions PROVE SessionInv(s)'
  BY DEF SessionsInv
<1>1. \A r : Known(s, r)' = Known(s, r)
  BY Ended DEF Known, msgVars
<1> QED BY <1>1, Ended DEF TypeOK, SessionsInv, SessionInv, Known, ctlVars

-----------------------------------------------------------------------------
LEMMA InitInv == Init => IInv
<1> SUFFICES ASSUME Init PROVE RequestsInv /\ SessionsInv
  BY InitTyped DEF IInv
<1>1. RequestsInv
  BY DEF Init, RequestsInv, RequestInv
<1>2. SessionsInv
  BY DEF Init, SessionsInv, SessionInv
<1> QED BY <1>1, <1>2

LEMMA NextInv == IInv /\ [Next]_vars => IInv'
<1> SUFFICES ASSUME IInv, [Next]_vars PROVE RequestsInv' /\ SessionsInv'
  BY NextTyped DEF IInv
<1> USE DEF IInv
<1>1. CASE UNCHANGED vars
  BY <1>1 DEF RequestsInv, RequestInv, SessionsInv, SessionInv, Known, vars, ctlVars,
     msgVars
<1>2. ASSUME NEW q \in Requests, Handling(q) PROVE RequestsInv' /\ SessionsInv'
  BY <1>2, HandlingRequests, HandlingSessions
<1>3. ASSUME NEW q \in Requests, Serving(q) PROVE RequestsInv' /\ SessionsInv'
  BY <1>3, ServingRequests, ServingSessions
<1>4. ASSUME NEW s \in Sessions, Cleaning(s) PROVE RequestsInv' /\ SessionsInv'
  BY <1>4, CleaningRequests, CleaningSessions
<1>5. ASSUME NEW s \in Sessions, DeleteServed(s) PROVE RequestsInv' /\ SessionsInv'
  BY <1>5, DeleteRequests, DeleteSessions
<1>6. CASE (\E q \in Requests : WorkerExits(q)) \/ ControllerEnds \/ SpawnerEnds
  BY <1>6, EndingRequests, EndingSessions
<1> QED BY <1>1, <1>2, <1>3, <1>4, <1>5, <1>6, Steps

LEMMA Invariant == Spec => []IInv
BY InitInv, NextInv, PTL DEF Spec

(* For any sessions and messages and under every fault: a worker that was  *)
(* registered in time and not replaced has stopped when its session is     *)
(* over, unless the spawner never got the request or could not kill it.    *)
THEOREM RegisteredAreFreed == Spec => []RegisteredFreed
<1>1. IInv => RegisteredFreed
  <2> SUFFICES ASSUME IInv, NEW s \in Sessions, NEW q \in inTime[s], phase[s] = "over",
                      outcome[s] \notin {"lost", "refused"},
                      \A r \in Of(s) : kind[r] = "register" /\ post[r] = "created" => r = q
               PROVE  worker[q] # "running"
    BY DEF RegisteredFreed
  <2>1. target[s] # None /\ outcome[s] \in {"stopped", "notFound"}
    BY DEF IInv, TypeOK, SessionsInv, SessionInv
  <2>2. target[s] = q
    BY <2>1 DEF IInv, SessionsInv, SessionInv, Known, Of
  <2> QED BY <2>1, <2>2 DEF IInv, SessionsInv, SessionInv
<1> QED BY <1>1, Invariant, PTL

-----------------------------------------------------------------------------
(* Who answers for a worker.                                               *)

Lives(q) == UNCHANGED Leased(q)!vars \/ Leased(q)!Next

(* Only an answered worker is held by a session, and only by one at a time. *)
LEMMA HeldIsCreated ==
  ASSUME IInv, NEW q \in Requests, SessionHolds(q) \/ CleanupHolds(q)
  PROVE  post[q] = "created" /\ call[q] # "posting"
<1>1. owner[q] \in Sessions /\ q # None
  BY NoneAssumption DEF IInv, TypeOK
<1>2. CASE kind[q] = "open" /\ call[q] \in {"dialing", "held"}
  BY <1>2 DEF IInv, RequestsInv, RequestInv
<1>3. CASE info[owner[q]] = q \/ target[owner[q]] = q
  BY <1>1, <1>3 DEF IInv, SessionsInv, SessionInv, Known
<1> QED BY <1>2, <1>3 DEF SessionHolds, CleanupHolds

LEMMA OneHolder ==
  ASSUME IInv, NEW q \in Requests
  PROVE  /\ SpawnerHolds(q) => ~SessionHolds(q) /\ ~CleanupHolds(q)
         /\ SessionHolds(q) => ~CleanupHolds(q)
<1>1. SessionHolds(q) => ~CleanupHolds(q)
  BY DEF SessionHolds, CleanupHolds
<1> QED BY <1>1, HeldIsCreated DEF SpawnerHolds

LEMMA HandlingLives ==
  ASSUME IInv, NEW q \in Requests, Handling(q), NEW r \in Requests
  PROVE  Lives(r)
<1> USE DEF Lives, Leased!vars, Leased!Next, Leased!Deliver, Leased!Lose, HolderOf,
        SpawnerHolds, SessionHolds, CleanupHolds, CallStep
<1>1. CASE Read(q)
  BY <1>1 DEF IInv, TypeOK, RequestsInv, RequestInv, Read, ctlVars
<1>2. CASE Handle(q)
  BY <1>2 DEF IInv, TypeOK, RequestsInv, RequestInv, Handle, ctlVars, msgVars
<1>3. CASE Answered(q)
  <2>1. CASE r = q
    BY <1>3, <2>1 DEF IInv, TypeOK, SessionsInv, SessionInv, Known, Answered,
       Answerable, Registered, msgVars
  <2>2. CASE r # q
    BY <1>3, <2>2 DEF IInv, TypeOK, Answered, Registered, msgVars
  <2> QED BY <2>1, <2>2
<1>4. CASE CallBreaks(q)
  BY <1>4 DEF IInv, TypeOK, SessionsInv, SessionInv, Known, CallBreaks, ctlVars, msgVars
<1>5. CASE Connects(q) \/ DialFails(q)
  BY <1>5 DEF IInv, TypeOK, SessionsInv, SessionInv, Known, Connects, DialFails,
     ctlVars, msgVars
<1> QED BY <1>1, <1>2, <1>3, <1>4, <1>5 DEF Handling

LEMMA ServingLives ==
  ASSUME IInv, NEW q \in Requests, Serving(q), NEW r \in Requests
  PROVE  Lives(r)
<1> USE DEF Lives, Leased!vars, Leased!Next, Leased!Start, Leased!Stop, Leased!Lose,
        HolderOf, SpawnerHolds, SessionHolds, CleanupHolds, PostStep, SpawnerStep, msgVars
<1>1. CASE PostArrives(q) \/ ChildReady(q)
  BY <1>1 DEF IInv, TypeOK, RequestsInv, RequestInv, PostArrives, ChildReady
<1>2. CASE ChildStarts(q)
  BY <1>2 DEF IInv, TypeOK, ChildStarts
<1>3. CASE LaunchRefused(q) \/ LaunchCollects(q)
  BY <1>3 DEF IInv, TypeOK, LaunchRefused, LaunchCollects
<1>6. CASE LaunchTimesOut(q)
  <2>1. UNCHANGED <<SpawnerHolds(r), SessionHolds(r), CleanupHolds(r)>>
    BY <1>6 DEF IInv, TypeOK, LaunchTimesOut
  <2>2. \/ worker'[r] = worker[r]
        \/ SpawnerHolds(r) /\ worker[r] = "running" /\ worker'[r] = "stopped"
    BY <1>6 DEF IInv, TypeOK, LaunchTimesOut, KilledWorker
  <2> HIDE DEF SessionHolds, CleanupHolds, SpawnerHolds
  <2> QED BY <2>1, <2>2
<1>4. CASE TestPasses(q)
  <2>1. UNCHANGED <<SessionHolds(r), CleanupHolds(r), worker>>
    BY <1>4 DEF TestPasses
  <2>2. CASE r = q
    <3>1. ~SessionHolds(q) /\ ~CleanupHolds(q)
      BY <1>4, HeldIsCreated DEF TestPasses
    <3>2. SpawnerHolds(q)
      BY <1>4 DEF TestPasses
    <3> HIDE DEF SessionHolds, CleanupHolds, SpawnerHolds
    <3> QED BY <2>1, <2>2, <3>1, <3>2
  <2>3. CASE r # q
    <3>1. SpawnerHolds(r)' = SpawnerHolds(r)
      BY <1>4, <2>3 DEF IInv, TypeOK, TestPasses
    <3> HIDE DEF SessionHolds, CleanupHolds, SpawnerHolds
    <3> QED BY <2>1, <3>1
  <2> QED BY <2>2, <2>3
<1>5. CASE TestFails(q)
  <2>1. UNCHANGED <<SessionHolds(r), CleanupHolds(r)>>
    BY <1>5 DEF TestFails
  <2>2. CASE r = q
    <3>1. ~SessionHolds(q) /\ ~CleanupHolds(q)
      BY <1>5, HeldIsCreated DEF TestFails
    <3>2. SpawnerHolds(q) /\ ~SpawnerHolds(q)'
      BY <1>5 DEF IInv, TypeOK, TestFails
    <3>3. worker'[q] = worker[q] \/ (worker[q] = "running" /\ worker'[q] = "stopped")
      BY <1>5 DEF IInv, TypeOK, TestFails, KilledWorker
    <3> HIDE DEF SessionHolds, CleanupHolds, SpawnerHolds
    <3> QED BY <2>1, <2>2, <3>1, <3>2, <3>3
  <2>3. CASE r # q
    <3>1. SpawnerHolds(r)' = SpawnerHolds(r) /\ worker'[r] = worker[r]
      BY <1>5, <2>3 DEF IInv, TypeOK, TestFails, KilledWorker
    <3> HIDE DEF SessionHolds, CleanupHolds, SpawnerHolds
    <3> QED BY <2>1, <3>1
  <2> QED BY <2>2, <2>3
<1> QED BY <1>1, <1>2, <1>3, <1>4, <1>5, <1>6 DEF Serving

LEMMA CleaningLives ==
  ASSUME IInv, NEW s \in Sessions, Cleaning(s), NEW r \in Requests
  PROVE  Lives(r)
<1> USE DEF Lives, Leased!vars, Leased!Next, Leased!EndSession, Leased!Lose, HolderOf,
        SpawnerHolds, SessionHolds, CleanupHolds, PhaseStep, msgVars
<1>1. CASE Leave(s)
  <2>1. UNCHANGED <<SpawnerHolds(r), worker>>
    BY <1>1 DEF Leave
  <2>2. CASE owner[r] = s
    <3>1. ~SessionHolds(r)' /\ ~CleanupHolds(r)
      BY <1>1, <2>2 DEF IInv, TypeOK, Leave
    <3>2. CleanupHolds(r)' => SpawnerHolds(r) \/ SessionHolds(r)
      BY <1>1, <2>2, NoneAssumption DEF IInv, TypeOK, SessionsInv, SessionInv, Known, Leave
    <3> HIDE DEF SessionHolds, CleanupHolds, SpawnerHolds
    <3> QED BY <2>1, <3>1, <3>2
  <2>3. CASE owner[r] # s
    <3>1. UNCHANGED <<SessionHolds(r), CleanupHolds(r)>>
      BY <1>1, <2>3 DEF IInv, TypeOK, Leave
    <3> HIDE DEF SessionHolds, CleanupHolds, SpawnerHolds
    <3> QED BY <2>1, <3>1
  <2> QED BY <2>2, <2>3
<1>2. CASE NothingToStop(s) \/ Disconnect(s)
  BY <1>2, NoneAssumption DEF IInv, TypeOK, SessionsInv, SessionInv, NothingToStop,
     Disconnect
<1>3. CASE RequestShutdown(s)
  BY <1>3 DEF IInv, TypeOK, SessionsInv, SessionInv, Known, RequestShutdown
<1>4. CASE ShutdownAnswered(s) \/ ShutdownLost(s)
  BY <1>4 DEF IInv, TypeOK, SessionsInv, SessionInv, Known, ShutdownAnswered, ShutdownLost
<1> QED BY <1>1, <1>2, <1>3, <1>4 DEF Cleaning

LEMMA DeleteLives ==
  ASSUME IInv, NEW s \in Sessions, DeleteServed(s), NEW r \in Requests
  PROVE  Lives(r)
<1> USE DEF Lives, Leased!vars, Leased!Next, Leased!Stop, Leased!Lose, HolderOf,
        SpawnerHolds, SessionHolds, CleanupHolds, SpawnerStep, msgVars
<1>1. Known(s, target[s])
  BY DEF IInv, SessionsInv, SessionInv, DeleteServed
<1>2. CASE r = target[s]
  BY <1>1, <1>2 DEF IInv, TypeOK, RequestsInv, RequestInv, Known, DeleteServed, KilledWorker
<1>3. CASE r # target[s]
  BY <1>1, <1>3 DEF IInv, TypeOK, Known, DeleteServed, KilledWorker
<1> QED BY <1>2, <1>3

LEMMA EndingLives ==
  ASSUME IInv, NEW r \in Requests,
         (\E q \in Requests : WorkerExits(q)) \/ ControllerEnds \/ SpawnerEnds
  PROVE  Lives(r)
<1> USE DEF Lives, Leased!vars, Leased!Next, Leased!Exit, Leased!Lose, HolderOf,
        SpawnerHolds, SessionHolds, CleanupHolds, msgVars, ctlVars
<1>1. CASE \E q \in Requests : WorkerExits(q)
  BY <1>1 DEF IInv, TypeOK, WorkerExits
<1>2. CASE ControllerEnds
  <2>1. /\ SpawnerHolds(r)' => SpawnerHolds(r)
        /\ ~SessionHolds(r)'
        /\ CleanupHolds(r)' => CleanupHolds(r)
    BY <1>2 DEF ControllerEnds
  <2>2. SpawnerHolds(r) /\ ~SpawnerHolds(r)' => ~CleanupHolds(r)'
    BY <2>1, OneHolder
  <2>3. worker' = worker
    BY <1>2 DEF ControllerEnds
  <2> HIDE DEF SessionHolds, CleanupHolds, SpawnerHolds
  <2> QED BY <2>1, <2>2, <2>3, OneHolder
<1>3. CASE SpawnerEnds
  <2>1. /\ SpawnerHolds(r)' => SpawnerHolds(r)
        /\ UNCHANGED <<SessionHolds(r), CleanupHolds(r)>>
    BY <1>3 DEF SpawnerEnds
  <2>2. \/ worker'[r] = worker[r]
        \/ worker[r] = "running" /\ worker'[r] = "exited"
    BY <1>3, Ended DEF IInv
  <2> HIDE DEF SessionHolds, CleanupHolds, SpawnerHolds
  <2> QED BY <2>1, <2>2, OneHolder
<1> QED BY <1>1, <1>2, <1>3

(* Every worker lives as Lease allows, for any sessions and messages and   *)
(* under every fault.                                                      *)
THEOREM LeasesImplementLease == Spec => UsesLease
<1>1. Init => \A q \in Requests : Leased(q)!Init
  BY DEF Init, Leased!Init, HolderOf
<1>2. IInv /\ [Next]_vars => [\A q \in Requests : UNCHANGED Leased(q)!vars \/ Leased(q)!Next]_vars
  <2> SUFFICES ASSUME IInv, Next, NEW r \in Requests PROVE Lives(r)
    BY DEF Lives
  <2> QED
    BY Steps, HandlingLives, ServingLives, CleaningLives, DeleteLives, EndingLives
<1> QED BY <1>1, <1>2, Invariant, PTL DEF Spec, UsesLease

-----------------------------------------------------------------------------
(* What the ways to lose a worker rest on: who stopped what, and which     *)
(* faults are behind an outcome.                                           *)
LossInv ==
  /\ \A q \in Requests : kind[q] = "none" => call[q] = "none"
  /\ \A q \in Requests : post[q] = "refused" /\ worker[q] = "running" => "kill" \in Faults
  /\ \A q \in Requests : kind[q] = "register" /\ call[q] \in {"dialing", "held"} =>
       info[owner[q]] # None
  /\ \A q \in Requests : Unanswered(q) /\ info[owner[q]] = None /\ post[q] # "refused" =>
       "lost" \in Faults \/ ~spawnerUp
  /\ \A s \in Sessions :
       /\ phase[s] \in {"deleting", "over"} /\ info[s] \in inTime[s] => target[s] = info[s]
       /\ outcome[s] = "lost" => "lost" \in Faults \/ ~spawnerUp
       /\ outcome[s] = "refused" => "kill" \in Faults

LEMMA HandlingLoss ==
  ASSUME IInv, LossInv, NEW q \in Requests, Handling(q)
  PROVE  LossInv'
<1> USE DEF CallStep, msgVars, ctlVars, Unanswered
<1>1. CASE Answered(q)
  <2>1. UNCHANGED <<kind, post, worker, owner, phase, target, outcome, spawnerUp>>
        /\ call' = [call EXCEPT ![q] = IF post[q] = "created" THEN "dialing" ELSE "failed"]
        /\ call[q] = "posting" /\ post[q] \in {"created", "refused"}
    BY <1>1 DEF Answered, Answerable
  <2>2. \A r \in Requests : info'[owner[r]] = info[owner[r]]
                              \/ (info'[owner[r]] = q /\ post[q] = "created")
    BY <1>1 DEF IInv, TypeOK, Answered, Registered
  <2>3. \A s \in Sessions : phase[s] \in {"deleting", "over"} /\ info'[s] \in inTime'[s] =>
          target[s] = info'[s]
    <3> SUFFICES ASSUME NEW s \in Sessions, phase[s] \in {"deleting", "over"},
                        info'[s] \in inTime'[s]
                 PROVE  target[s] = info'[s]
      OBVIOUS
    <3>1. inTime'[s] = inTime[s]
      BY <1>1 DEF IInv, TypeOK, Answered
    <3>2. q \notin inTime[s]
      BY <2>1 DEF IInv, SessionsInv, SessionInv, Known
    <3>3. info'[s] = info[s]
      BY <1>1, <3>1, <3>2 DEF IInv, TypeOK, Answered, Registered
    <3> QED BY <3>1, <3>3 DEF LossInv
  <2>4. \A r \in Requests : Unanswered(r)' /\ info'[owner[r]] = None /\ post[r] # "refused" =>
          Unanswered(r) /\ info[owner[r]] = None
    <3> SUFFICES ASSUME NEW r \in Requests, Unanswered(r)', info'[owner[r]] = None,
                        post[r] # "refused"
                 PROVE  Unanswered(r) /\ info[owner[r]] = None
      OBVIOUS
    <3>1. info[owner[r]] = None
      BY <2>2, NoneAssumption
    <3>2. r # q
      BY <2>1 DEF IInv, TypeOK
    <3>3. call'[r] = call[r]
      BY <2>1, <3>2 DEF IInv, TypeOK
    <3> QED BY <2>1, <3>1, <3>3, NoneAssumption
  <2>5. \A r \in Requests : kind[r] = "none" => call'[r] = "none"
    BY <2>1 DEF IInv, TypeOK, LossInv
  <2>6. \A r \in Requests : kind[r] = "register" /\ call'[r] \in {"dialing", "held"} =>
          info'[owner[r]] # None
    <3>1. CASE post[q] = "created" /\ kind[q] = "register"
      <4>1. info'[owner[q]] = q /\ q # None
        BY <1>1, <3>1, NoneAssumption DEF IInv, TypeOK, Answered, Registered
      <4> QED BY <2>1, <2>2, <4>1 DEF IInv, TypeOK, LossInv
    <3>2. CASE ~(post[q] = "created" /\ kind[q] = "register")
      BY <2>1, <2>2, <3>2, NoneAssumption DEF IInv, TypeOK, LossInv
    <3> QED BY <3>1, <3>2
  <2> QED BY <2>1, <2>3, <2>4, <2>5, <2>6 DEF LossInv
<1>2. CASE CallBreaks(q)
  BY <1>2 DEF CallBreaks, IInv, TypeOK, LossInv
<1>3. CASE Read(q)
  BY <1>3 DEF Read, IInv, TypeOK, LossInv
<1>4. CASE Handle(q)
  BY <1>4 DEF Handle, IInv, TypeOK, RequestsInv, RequestInv, LossInv
<1>5. CASE Connects(q)
  BY <1>5 DEF Connects, IInv, TypeOK, LossInv
<1>6. CASE DialFails(q)
  BY <1>6 DEF DialFails, IInv, TypeOK, LossInv
<1> QED BY <1>1, <1>2, <1>3, <1>4, <1>5, <1>6 DEF Handling

LEMMA ServingLoss ==
  ASSUME IInv, LossInv, NEW q \in Requests, Serving(q)
  PROVE  LossInv'
<1> USE DEF PostStep, SpawnerStep, msgVars, Unanswered
<1>1. CASE PostArrives(q) \/ ChildStarts(q) \/ ChildReady(q)
  BY <1>1 DEF PostArrives, ChildStarts, ChildReady, IInv, TypeOK, LossInv
<1>2. CASE LaunchRefused(q) \/ LaunchTimesOut(q) \/ LaunchCollects(q)
  BY <1>2 DEF LaunchRefused, LaunchTimesOut, LaunchCollects, KilledWorker, IInv, TypeOK,
     RequestsInv, RequestInv, LossInv
<1>3. CASE TestFails(q)
  <2>1. \A r \in Requests \ {q} : worker'[r] = worker[r] /\ post'[r] = post[r]
    BY <1>3 DEF TestFails, KilledWorker, IInv, TypeOK
  <2>2. post'[q] = "refused" /\ (worker'[q] = "running" => "kill" \in Faults)
    BY <1>3 DEF TestFails, KilledWorker, KillOutcomes, IInv, TypeOK
  <2>3. UNCHANGED <<kind, call, owner, info, inTime, phase, target, outcome, spawnerUp>>
    BY <1>3 DEF TestFails
  <2> QED BY <2>1, <2>2, <2>3 DEF LossInv
<1>4. CASE TestPasses(q)
  <2>1. /\ post[q] = "testing"
        /\ \A r \in Requests : post'[r] = post[r] \/ (r = q /\ post'[r] = "created")
    BY <1>4 DEF TestPasses, IInv, TypeOK
  <2>2. UNCHANGED <<kind, call, owner, info, inTime, phase, target, outcome, spawnerUp, worker>>
    BY <1>4 DEF TestPasses
  <2> QED BY <1>4, <2>1, <2>2 DEF LossInv
<1> QED BY <1>1, <1>2, <1>3, <1>4 DEF Serving

LEMMA CleaningLoss ==
  ASSUME IInv, LossInv, NEW c \in Sessions, Cleaning(c)
  PROVE  LossInv'
<1> USE DEF PhaseStep, msgVars, Unanswered
<1>1. UNCHANGED <<kind, call, post, owner, info, inTime, worker, spawnerUp>>
  BY DEF Cleaning, Leave, NothingToStop, Disconnect, RequestShutdown, ShutdownAnswered,
     ShutdownLost
<1>2. ASSUME NEW s \in Sessions
      PROVE  /\ phase'[s] \in {"deleting", "over"} /\ info[s] \in inTime[s] =>
                  target'[s] = info[s]
             /\ outcome'[s] = "lost" => "lost" \in Faults \/ ~spawnerUp
             /\ outcome'[s] = "refused" => "kill" \in Faults
  <2>1. CASE Leave(c) \/ Disconnect(c)
    BY <2>1 DEF Leave, Disconnect, IInv, TypeOK, LossInv
  <2>2. CASE NothingToStop(c)
    <3>1. inTime[c] = {}
      BY <2>2 DEF NothingToStop, IInv, SessionsInv, SessionInv
    <3> QED BY <2>2, <3>1 DEF NothingToStop, IInv, TypeOK, LossInv
  <2>3. CASE RequestShutdown(c)
    BY <2>3 DEF RequestShutdown, IInv, TypeOK, LossInv
  <2>4. CASE ShutdownAnswered(c)
    BY <2>4 DEF ShutdownAnswered, IInv, TypeOK, LossInv
  <2>5. CASE ShutdownLost(c)
    BY <2>5 DEF ShutdownLost, IInv, TypeOK, LossInv
  <2> QED BY <2>1, <2>2, <2>3, <2>4, <2>5 DEF Cleaning
<1> QED BY <1>1, <1>2 DEF LossInv

LEMMA DeleteLoss ==
  ASSUME IInv, LossInv, NEW c \in Sessions, DeleteServed(c)
  PROVE  LossInv'
<1> USE DEF SpawnerStep, msgVars, Unanswered
<1>1. UNCHANGED <<kind, call, post, owner, info, inTime, phase, target, spawnerUp>>
  BY DEF DeleteServed
<1>2. \A q \in Requests : worker'[q] = "running" => worker[q] = "running"
  BY DEF DeleteServed, KilledWorker, IInv, TypeOK
<1>3. \A s \in Sessions : /\ outcome'[s] = "lost" => outcome[s] = "lost"
                          /\ outcome'[s] = "refused" => outcome[s] = "refused" \/ "kill" \in Faults
  <2>1. \/ outcome' = [outcome EXCEPT ![c] = "notFound"]
        \/ outcome' = [outcome EXCEPT ![c] = "stopped"]
        \/ outcome' = [outcome EXCEPT ![c] = "refused"] /\ "kill" \in Faults
    BY DEF DeleteServed, KillOutcomes
  <2> QED BY <2>1 DEF IInv, TypeOK
<1> QED BY <1>1, <1>2, <1>3 DEF LossInv

LEMMA EndingLoss ==
  ASSUME IInv, LossInv,
         (\E q \in Requests : WorkerExits(q)) \/ ControllerEnds \/ SpawnerEnds
  PROVE  LossInv'
<1>1. /\ \A r \in Requests : worker'[r] = "running" => worker[r] = "running"
      /\ UNCHANGED <<ctlVars, msgVars, call, post>>
  BY Ended DEF IInv
<1>2. ~spawnerUp => ~spawnerUp'
  BY DEF WorkerExits, ControllerEnds, SpawnerEnds
<1> QED BY <1>1, <1>2 DEF LossInv, Unanswered, ctlVars, msgVars

LEMMA NextLoss == IInv /\ LossInv /\ [Next]_vars => LossInv'
<1> SUFFICES ASSUME IInv, LossInv, [Next]_vars PROVE LossInv'
  OBVIOUS
<1>1. CASE UNCHANGED vars
  BY <1>1 DEF LossInv, Unanswered, vars, ctlVars, msgVars
<1>2. CASE Next
  BY <1>2, Steps, HandlingLoss, ServingLoss, CleaningLoss, DeleteLoss, EndingLoss
<1> QED BY <1>1, <1>2

(* A worker that runs on and that nobody answers for was lost in one of    *)
(* these ways, for any sessions and messages and under every fault.        *)
THEOREM WaysToLose == Spec => []LostOnlySo
<1>1. Init => LossInv
  BY NoneAssumption DEF Init, LossInv, Unanswered
<1>2. ASSUME IInv, LossInv, NEW q \in Requests, HolderOf(q) = "lost"
      PROVE  \/ Orphaned(q) \/ Replaced(q) \/ Late(q)
             \/ ("lost" \in Faults \/ ~spawnerUp) /\ (Unanswered(q) \/ NotFreed(q))
             \/ "kill" \in Faults /\ (post[q] = "refused" \/ NotFreed(q))
             \/ Abandoned(q)
  <2> DEFINE s == owner[q]
  <2>1. /\ worker[q] = "running" /\ ~SpawnerHolds(q) /\ ~SessionHolds(q) /\ ~CleanupHolds(q)
        /\ s \in Sessions
    BY <1>2 DEF HolderOf, IInv, TypeOK
  <2>2. CASE post[q] # "created"
    BY <1>2, <2>1, <2>2 DEF SpawnerHolds, Abandoned, IInv, TypeOK, RequestsInv, RequestInv,
       LossInv
  <2>3. CASE post[q] = "created" /\ kind[q] = "open"
    <3>1. call[q] \in {"posting", "dialing", "held", "failed"}
      BY <1>2, <2>3 DEF IInv, TypeOK, RequestsInv, RequestInv
    <3> QED BY <2>1, <2>3, <3>1 DEF SpawnerHolds, SessionHolds, Orphaned, Abandoned
  <2>4. CASE post[q] = "created" /\ kind[q] = "register"
    <3>1. call[q] \in {"posting", "dialing", "held", "failed"} /\ phase[s] \in Phases
      BY <1>2, <2>4 DEF IInv, TypeOK, RequestsInv, RequestInv
    <3>2. CASE call[q] = "posting"
      BY <2>1, <2>4, <3>2 DEF SpawnerHolds, Abandoned
    <3>3. CASE call[q] # "posting" /\ info[s] # q
      BY <1>2, <2>4, <3>1, <3>3 DEF LossInv, Replaced, Unanswered
    <3>4. CASE call[q] # "posting" /\ info[s] = q
      <4>1. CASE phase[s] \in {"open", "left", "checked"}
        BY <2>1, <2>4, <3>4, <4>1 DEF SessionHolds, CleanupHolds, Abandoned
      <4>2. CASE phase[s] \in {"deleting", "over"} /\ q \notin inTime[s]
        BY <2>4, <3>4, <4>2 DEF Late
      <4>3. CASE phase[s] \in {"deleting", "over"} /\ q \in inTime[s]
        <5>1. target[s] = q
          BY <1>2, <2>1, <3>4, <4>3 DEF LossInv
        <5>2. outcome[s] # "none" /\ outcome[s] \notin {"stopped", "notFound"}
          BY <1>2, <2>1, <4>3, <5>1, NoneAssumption
             DEF CleanupHolds, IInv, SessionsInv, SessionInv
        <5>3. outcome[s] \in {"lost", "refused"}
          BY <1>2, <2>1, <5>2 DEF IInv, TypeOK
        <5> QED BY <1>2, <2>1, <5>1, <5>3 DEF LossInv, NotFreed
      <4> QED BY <3>1, <4>1, <4>2, <4>3 DEF Phases
    <3> QED BY <3>2, <3>3, <3>4
  <2> QED BY <1>2, <2>2, <2>3, <2>4 DEF IInv, TypeOK, RequestsInv, RequestInv, LossInv
<1>3. IInv /\ LossInv => LostOnlySo
  BY <1>2 DEF LostOnlySo
<1> QED BY <1>1, <1>3, NextLoss, Invariant, PTL DEF Spec

(* Even when neither program ends, no connection is lost and no signal     *)
(* refused, three ways remain to lose a worker, and only these: it is of a *)
(* file, or replaced by another registration, or registered too late.      *)
THEOREM WaysWithoutFaults ==
  ASSUME Faults = {}
  PROVE  Spec => [](\A q \in Requests :
                      HolderOf(q) = "lost" => Orphaned(q) \/ Replaced(q) \/ Late(q))
<1>1. Init => ctlUp /\ spawnerUp
  BY DEF Init
<1>2. ctlUp /\ spawnerUp /\ [Next]_vars => (ctlUp /\ spawnerUp)'
  <2> SUFFICES ASSUME ctlUp, spawnerUp, [Next]_vars PROVE ctlUp' /\ spawnerUp'
    OBVIOUS
  <2>1. CASE UNCHANGED vars
    BY <2>1 DEF vars
  <2>2. ASSUME NEW q \in Requests, Handling(q) \/ Serving(q) \/ WorkerExits(q)
        PROVE  ctlUp' /\ spawnerUp'
    BY <2>2 DEF Handling, Read, Handle, Answered, CallBreaks, Connects, DialFails, CallStep,
       Serving, PostArrives, ChildStarts, LaunchRefused, LaunchTimesOut, LaunchCollects,
       ChildReady, TestPasses, TestFails, PostStep, SpawnerStep, WorkerExits
  <2>3. ASSUME NEW s \in Sessions, Cleaning(s) \/ DeleteServed(s)
        PROVE  ctlUp' /\ spawnerUp'
    BY <2>3 DEF Cleaning, Leave, NothingToStop, Disconnect, RequestShutdown,
       ShutdownAnswered, ShutdownLost, PhaseStep, DeleteServed, SpawnerStep
  <2>4. ~ControllerEnds /\ ~SpawnerEnds
    BY Faults = {} DEF ControllerEnds, SpawnerEnds
  <2> QED BY <2>1, <2>2, <2>3, <2>4, Steps
<1>3. ctlUp /\ spawnerUp /\ LostOnlySo =>
        \A q \in Requests : HolderOf(q) = "lost" => Orphaned(q) \/ Replaced(q) \/ Late(q)
  BY Faults = {} DEF LostOnlySo, Abandoned
<1> QED BY <1>1, <1>2, <1>3, WaysToLose, PTL DEF Spec
=============================================================================
