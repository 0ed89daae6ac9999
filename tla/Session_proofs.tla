---------------------------- MODULE Session_proofs ----------------------------
(* Theorems about Session and their proofs.                                *)
EXTENDS Session, SequenceTheorems, TLAPS

(* Which messages a handler's steps are for. *)
Stages ==
  \A m \in Msgs :
    /\ h[m] \in {"startup", "dial", "init", "proxy"} => m \in Workers
    /\ h[m] = "publish" => m \in Workers /\ Kind(m) = "register"
    /\ h[m] \in {"look", "make", "store"} => m \in Workers /\ Kind(m) = "open"
    /\ h[m] = "send" => Kind(m) = "proxied" /\ target[m] \in Workers

TypeInv == TypeOK /\ Stages

(* What worker w may be told: of message m. *)
Concerns(m, w) ==
  IsFileWorker(w) => m = w \/ (Kind(m) = "proxied" /\ File(m) = File(w))

(* What the session knows of its workers, and where handlers send. *)
Routes ==
  /\ \A f \in Files : fileMap[f] # None =>
       IsFileWorker(fileMap[f]) /\ File(fileMap[f]) = f
  /\ shared # None => Kind(shared) = "register"
  /\ \A m \in Msgs : h[m] = "send" => Concerns(m, target[m])

Asked(w) == \E j \in DOMAIN got[w] : got[w][j].event = "REGISTER_VIEWER"

(* What worker w may be sent by now. *)
Fits(f, w) == Concerns(f.about, w) /\ (f.event = "OPEN_FILE" => Asked(w))

(* Frames on their way fit, and an acknowledgement says what it says. *)
Traffic ==
  \A w \in Workers :
    /\ \A i \in DOMAIN queue[w] : Fits(queue[w][i], w)
    /\ \A i \in DOMAIN wireTo[w] : Fits(wireTo[w][i], w)
    /\ \A i \in DOMAIN wireFrom[w] : wireFrom[w][i].event = "ACK" => Asked(w)
    /\ \A r \in relays : r.from = w /\ r.msg.event = "ACK" => Asked(w)

(* Only the cleanup closes channels. *)
ClosedLate ==
  crashed = "panic" \/ ~clientOpen \/ (\E w \in Workers : chan[w] = "closed")
    => loop # "reading"

LEMMA ScriptFacts ==
  /\ Len(Script) \in Nat /\ Msgs \subseteq Nat /\ None \notin Msgs
  /\ \A m \in Msgs :
       /\ Kind(m) \in {"register", "open", "proxied", "status", "malformed"}
       /\ File(m) \in Files \cup {NoFile}
       /\ Kind(m) = "open" => File(m) \in Files
  /\ Workers \subseteq Msgs
  /\ \A m \in Msgs : m \in Workers <=> Kind(m) \in {"register", "open"}
<1>1. Len(Script) \in Nat /\ Msgs \subseteq Nat /\ None \notin Msgs
  BY ScriptAssumption DEF Msgs, None
<1>2. ASSUME NEW m \in Msgs
      PROVE  /\ Kind(m) \in {"register", "open", "proxied", "status", "malformed"}
             /\ File(m) \in Files \cup {NoFile}
  <2>1. Script[m] \in [kind : {"register", "open", "proxied", "status", "malformed"},
                       file : Files \cup {NoFile}, after : Nat]
    <3> DEFINE Records == [kind : {"register", "open", "proxied", "status", "malformed"},
                           file : Files \cup {NoFile}, after : Nat]
    <3>1. Script \in Seq(Records)
      BY ScriptAssumption
    <3> HIDE DEF Records
    <3>2. Script[m] \in Records
      BY <3>1, ElementOfSeq DEF Msgs
    <3> QED BY <3>2 DEF Records
  <2> QED BY <2>1 DEF Kind, File
<1> QED BY <1>1, <1>2, FilesAssumption DEF Workers

(* What is appended to a channel or a connection keeps its type. *)
LEMMA AppendTyped ==
  ASSUME NEW I, NEW S, NEW q \in [I -> Seq(S)], NEW i \in I, NEW e \in S
  PROVE  /\ [q EXCEPT ![i] = Append(@, e)] \in [I -> Seq(S)]
         /\ Len(Append(q[i], e)) = Len(q[i]) + 1
  OBVIOUS

LEMMA TailTyped ==
  ASSUME NEW I, NEW S, NEW q \in [I -> Seq(S)], NEW i \in I, q[i] # <<>>
  PROVE  /\ [q EXCEPT ![i] = Tail(@)] \in [I -> Seq(S)]
         /\ Head(q[i]) \in S
         /\ Len(Tail(q[i])) = Len(q[i]) - 1
  OBVIOUS

-----------------------------------------------------------------------------
LEMMA LoopKeepsTypes ==
  ASSUME TypeInv, ReadMessage \/ ClientLeaves \/ Disconnect
  PROVE  TypeInv'
<1> USE DEF loopVars, sessionVars, workerVars, clientVars
<1>1. CASE ReadMessage
  <2>1. pos' \in 0..Len(Script) /\ pos + 1 \in Msgs
    BY <1>1, ScriptFacts DEF ReadMessage, TypeInv, TypeOK, Msgs
  <2>2. TypeOK'
    BY <1>1, <2>1 DEF ReadMessage, TypeInv, TypeOK
  <2>3. Stages'
    BY <1>1, <2>1 DEF ReadMessage, TypeInv, TypeOK, Stages
  <2> QED BY <2>2, <2>3 DEF TypeInv
<1>2. CASE ClientLeaves
  BY <1>2 DEF ClientLeaves, TypeInv, TypeOK, Stages
<1>3. CASE CloseClient
  BY <1>3 DEF CloseClient, TypeInv, TypeOK, Stages
<1>4. CASE CheckInfo
  BY <1>4 DEF CheckInfo, TypeInv, TypeOK, Stages
<1>5. CASE CloseConn
  BY <1>5 DEF CloseConn, TypeInv, TypeOK, Stages
<1>6. CASE CloseSend
  BY <1>6 DEF CloseSend, TypeInv, TypeOK, Stages
<1>7. CASE Shutdown
  BY <1>7 DEF Shutdown, TypeInv, TypeOK, Stages
<1> QED BY <1>1, <1>2, <1>3, <1>4, <1>5, <1>6, <1>7 DEF Disconnect

(* A handler that sends changes its channel and where it stands. *)
LEMMA SendsKeepsTypes ==
  ASSUME TypeInv, NEW m \in Msgs, NEW w \in Workers, NEW from, NEW event,
         event \in {"REGISTER_VIEWER", "OPEN_FILE", "OTHER"},
         Sends(m, from, w, event)
  PROVE  TypeInv'
<1> USE DEF loopVars, sessionVars, workerVars, clientVars
<1>1. [event |-> event, about |-> m] \in Frame
  BY DEF Frame
<1>2. /\ queue' \in [Workers -> Seq(Frame)]
      /\ \A v \in Workers : Len(queue'[v]) <= Cap
  <2>1. CASE HasRoom(w) /\ Put(w, event, m)
    <3>1. queue \in [Workers -> Seq(Frame)] /\ Len(queue[w]) \in Nat
      BY DEF TypeInv, TypeOK
    <3>2. queue' \in [Workers -> Seq(Frame)]
      BY <1>1, <2>1, <3>1, AppendTyped DEF Put
    <3>3. Len(queue'[w]) = Len(queue[w]) + 1
      BY <1>1, <2>1, <3>1, AppendTyped DEF Put
    <3>4. \A v \in Workers \ {w} : queue'[v] = queue[v]
      BY <2>1, <3>1 DEF Put
    <3>5. Len(queue'[w]) <= Cap
      BY <2>1, <3>1, <3>3, BoundsAssumption DEF HasRoom
    <3>6. \A v \in Workers \ {w} : Len(queue'[v]) <= Cap
      BY <3>4 DEF TypeInv, TypeOK
    <3> QED BY <3>2, <3>5, <3>6
  <2>2. CASE UNCHANGED queue
    BY <2>2 DEF TypeInv, TypeOK
  <2> QED BY <2>1, <2>2 DEF Sends
<1>3. /\ h' \in [Msgs -> {"idle", "start", "startup", "dial", "publish", "init",
                          "look", "make", "store", "proxy", "send", "stuck", "done"}]
      /\ \A n \in Msgs : h'[n] = h[n] \/ h'[n] \in {"done", "stuck"}
      /\ crashed' \in {"no", "panic", "fatal"}
  BY ZenonT(30) DEF Sends, Goes, TypeInv, TypeOK
<1>4. UNCHANGED <<loopVars, target, sessionVars, workerVars, chan, relays, clientVars>>
  BY DEF Sends
<1>5. TypeOK'
  BY <1>2, <1>3, <1>4 DEF TypeInv, TypeOK
<1>6. Stages'
  BY <1>3, <1>4 DEF TypeInv, Stages
<1> QED BY <1>5, <1>6 DEF TypeInv

LEMMA HandleKeepsTypes ==
  ASSUME TypeInv, NEW m \in Msgs, Handle(m)
  PROVE  TypeInv'
<1> USE ScriptFacts DEF loopVars, sessionVars, workerVars, clientVars, Goes
<1>1. CASE Check(m)
  <2>1. PICK to \in {"startup", "done"} :
          h' = [h EXCEPT ![m] = to] /\ (to = "startup" => m \in Workers)
    BY <1>1 DEF Check
  <2>2. UNCHANGED <<loopVars, target, sessionVars, workerVars, chan, queue, relays,
                    clientVars, crashed>>
    BY <1>1 DEF Check
  <2>3. TypeOK'
    BY ZenonT(30), <2>1, <2>2 DEF TypeInv, TypeOK
  <2>4. Stages'
    BY <2>1, <2>2 DEF TypeInv, TypeOK, Stages
  <2> QED BY <2>3, <2>4 DEF TypeInv
<1>2. CASE StartWorker(m)
  BY ZenonT(30), <1>2 DEF StartWorker, TypeInv, TypeOK, Stages
<1>3. CASE Refused(m)
  <2>1. h' = [h EXCEPT ![m] = "done"]
    BY <1>3 DEF Refused
  <2>2. UNCHANGED <<loopVars, target, sessionVars, workerVars, chan, queue, relays,
                    clientVars, crashed>>
    BY <1>3 DEF Refused
  <2> QED BY ZenonT(30), <2>1, <2>2 DEF TypeInv, TypeOK, Stages
<1>4. CASE Dial(m)
  BY ZenonT(30), <1>4 DEF Dial, TypeInv, TypeOK, Stages
<1>5. CASE Publish(m)
  BY ZenonT(30), <1>5 DEF Publish, TypeInv, TypeOK, Stages
<1>6. CASE m \in Workers /\ InitWorker(m)
  BY ZenonT(30), <1>6 DEF InitWorker, TypeInv, TypeOK, Stages
<1>7. CASE LookAtMap(m)
  BY ZenonT(30), <1>7 DEF LookAtMap, TypeInv, TypeOK, Stages
<1>8. CASE MakeMap(m)
  BY ZenonT(30), <1>8 DEF MakeMap, TypeInv, TypeOK, Stages
<1>9. CASE StoreWorker(m)
  BY ZenonT(30), <1>9 DEF StoreWorker, TypeInv, TypeOK, Stages
<1>10. CASE ProxyRegister(m)
  <2>1. m \in Workers
    BY <1>10 DEF ProxyRegister, Sends, TypeInv, Stages
  <2> QED BY <1>10, <2>1, SendsKeepsTypes DEF ProxyRegister, FirstFrame
<1>11. CASE RouteMessage(m)
  <2>1. Destination(m) \in Workers \cup {None}
    BY DEF Destination, TypeInv, TypeOK
  <2> QED BY ZenonT(30), <1>11, <2>1 DEF RouteMessage, TypeInv, TypeOK, Stages
<1>12. CASE ProxyMessage(m)
  <2>1. target[m] \in Workers
    BY <1>12 DEF ProxyMessage, Sends, TypeInv, Stages
  <2> QED BY <1>12, <2>1, SendsKeepsTypes DEF ProxyMessage
<1>13. CASE AskStatus(m)
  BY ZenonT(30), <1>13 DEF AskStatus, TypeInv, TypeOK, Stages
<1> QED BY <1>1, <1>2, <1>3, <1>4, <1>5, <1>6, <1>7, <1>8, <1>9, <1>10, <1>11,
           <1>12, <1>13 DEF Handle

(* What the goroutines of worker w, its relays and the worker itself do. *)
Carry(w) ==
  WriteToWorker(w) \/ ReadFromWorker(w) \/ ServeFrame(w) \/ WorkerExits(w)

LEMMA CarryKeepsTypes ==
  ASSUME TypeInv, NEW w \in Workers, Carry(w)
  PROVE  TypeInv'
<1> USE DEF loopVars, sessionVars, workerVars, clientVars
<1>1. /\ queue \in [Workers -> Seq(Frame)] /\ wireTo \in [Workers -> Seq(Frame)]
      /\ wireFrom \in [Workers -> Seq(Answer)] /\ got \in [Workers -> Seq(Frame)]
      /\ \A v \in Workers : Len(queue[v]) \in Nat /\ Len(queue[v]) <= Cap
      /\ Cap \in Nat
  <2>1. /\ queue \in [Workers -> Seq(Frame)] /\ wireTo \in [Workers -> Seq(Frame)]
        /\ wireFrom \in [Workers -> Seq(Answer)] /\ got \in [Workers -> Seq(Frame)]
    BY DEF TypeInv, TypeOK
  <2>2. \A v \in Workers : Len(queue[v]) <= Cap
    BY DEF TypeInv, TypeOK
  <2>3. \A v \in Workers : queue[v] \in Seq(Frame)
    BY <2>1
  <2>4. \A v \in Workers : Len(queue[v]) \in Nat
    BY <2>3
  <2> QED BY <2>1, <2>2, <2>4, BoundsAssumption
<1>2. CASE WriteToWorker(w)
  <2>1. queue' = [queue EXCEPT ![w] = Tail(@)] /\ queue[w] # <<>>
    BY <1>2 DEF WriteToWorker
  <2>2. /\ queue' \in [Workers -> Seq(Frame)] /\ Head(queue[w]) \in Frame
        /\ Len(queue'[w]) = Len(queue[w]) - 1
    BY <1>1, <2>1, TailTyped
  <2>3. \A v \in Workers : Len(queue'[v]) <= Cap
    BY <1>1, <2>1, <2>2
  <2>4. wireTo' \in [Workers -> Seq(Frame)]
    <3>1. CASE wireTo' = [wireTo EXCEPT ![w] = Append(@, Head(queue[w]))]
      BY <1>1, <2>2, <3>1, AppendTyped
    <3> QED BY <1>1, <1>2, <3>1 DEF WriteToWorker
  <2>5. UNCHANGED <<loopVars, h, target, sessionVars, spawned, conn, wireFrom, got,
                    chan, relays, clientVars, crashed>>
    BY <1>2 DEF WriteToWorker
  <2>6. TypeOK'
    BY <2>2, <2>3, <2>4, <2>5 DEF TypeInv, TypeOK
  <2> QED BY <2>5, <2>6 DEF TypeInv, Stages
<1>3. CASE ReadFromWorker(w)
  <2>1. /\ relays' = relays \cup {[from |-> w, msg |-> Head(wireFrom[w])]}
        /\ wireFrom' = [wireFrom EXCEPT ![w] = Tail(@)] /\ wireFrom[w] # <<>>
    BY <1>3 DEF ReadFromWorker
  <2>2. wireFrom' \in [Workers -> Seq(Answer)] /\ Head(wireFrom[w]) \in Answer
    BY <1>1, <2>1, TailTyped
  <2>3. relays' \subseteq Relay
    BY SMTT(30), <2>1, <2>2 DEF Relay, TypeInv, TypeOK
  <2>4. UNCHANGED <<loopVars, h, target, sessionVars, spawned, conn, wireTo, got,
                    chan, queue, clientVars, crashed>>
    BY <1>3 DEF ReadFromWorker
  <2>5. TypeOK'
    BY <2>2, <2>3, <2>4 DEF TypeInv, TypeOK
  <2> QED BY <2>4, <2>5 DEF TypeInv, Stages
<1>4. CASE ServeFrame(w)
  <2> DEFINE frame == Head(wireTo[w])
             answer == [event |-> IF frame.event = "REGISTER_VIEWER" THEN "ACK"
                                  ELSE "OTHER", about |-> frame.about]
  <2>1. /\ wireTo' = [wireTo EXCEPT ![w] = Tail(@)] /\ wireTo[w] # <<>>
        /\ got' = [got EXCEPT ![w] = Append(@, frame)]
        /\ wireFrom' = [wireFrom EXCEPT ![w] = Append(@, answer)]
    BY <1>4 DEF ServeFrame
  <2>2. wireTo' \in [Workers -> Seq(Frame)] /\ frame \in Frame
    BY <1>1, <2>1, TailTyped
  <2>3. answer \in Answer
    BY <2>2 DEF Frame, Answer
  <2>4. got' \in [Workers -> Seq(Frame)]
    BY <1>1, <2>1, <2>2, AppendTyped
  <2>5. wireFrom' \in [Workers -> Seq(Answer)]
    <3> HIDE DEF answer
    <3> QED BY <1>1, <2>1, <2>3, AppendTyped
  <2>6. UNCHANGED <<loopVars, h, target, sessionVars, spawned, conn, chan, queue,
                    relays, clientVars, crashed>>
    BY <1>4 DEF ServeFrame
  <2>7. TypeOK'
    BY <2>2, <2>4, <2>5, <2>6 DEF TypeInv, TypeOK
  <2> QED BY <2>6, <2>7 DEF TypeInv, Stages
<1>5. CASE WorkerExits(w)
  <2>1. TypeOK'
    BY <1>5 DEF WorkerExits, ChanAfterExit, TypeInv, TypeOK
  <2> QED BY <1>5, <2>1 DEF WorkerExits, TypeInv, Stages
<1> QED BY <1>2, <1>3, <1>4, <1>5 DEF Carry

LEMMA RelayingKeepsTypes ==
  ASSUME TypeInv, Relaying \/ WriteToClient \/ MapFault
  PROVE  TypeInv'
<1> USE DEF loopVars, sessionVars, workerVars, clientVars
<1>1. clientQ \in Seq(Answer) /\ Len(clientQ) <= Cap /\ Cap \in Nat
  BY BoundsAssumption DEF TypeInv, TypeOK
<1>2. ASSUME NEW r \in relays, RelayToWorker(r)
      PROVE  TypeInv'
  <2>1. r.from \in Workers /\ r.from \in Msgs
    BY DEF TypeInv, TypeOK, Relay, Workers
  <2>2. [event |-> "OPEN_FILE", about |-> r.from] \in Frame
    BY <2>1 DEF Frame
  <2>3. queue \in [Workers -> Seq(Frame)] /\ Len(queue[r.from]) \in Nat
    BY <2>1 DEF TypeInv, TypeOK
  <2>4. /\ queue' \in [Workers -> Seq(Frame)]
        /\ \A v \in Workers : Len(queue'[v]) <= Cap
    <3>1. CASE HasRoom(r.from) /\ Put(r.from, "OPEN_FILE", r.from)
      <4>1. /\ queue' \in [Workers -> Seq(Frame)]
            /\ Len(queue'[r.from]) = Len(queue[r.from]) + 1
        BY <2>1, <2>2, <2>3, <3>1, AppendTyped DEF Put
      <4>2. Len(queue'[r.from]) <= Cap
        BY <1>1, <2>3, <3>1, <4>1 DEF HasRoom
      <4>3. \A v \in Workers \ {r.from} : queue'[v] = queue[v]
        BY <2>3, <3>1 DEF Put
      <4>4. \A v \in Workers \ {r.from} : Len(queue'[v]) <= Cap
        BY <4>3 DEF TypeInv, TypeOK
      <4> QED BY <4>1, <4>2, <4>4
    <3>2. CASE UNCHANGED queue
      BY <3>2 DEF TypeInv, TypeOK
    <3> QED BY <1>2, <3>1, <3>2 DEF RelayToWorker
  <2>5. UNCHANGED <<loopVars, h, target, sessionVars, workerVars, chan, clientVars>>
        /\ relays' \subseteq relays /\ crashed' \in {crashed, "panic"}
    BY <1>2 DEF RelayToWorker
  <2>6. TypeOK'
    BY <2>4, <2>5 DEF TypeInv, TypeOK
  <2> QED BY <2>5, <2>6 DEF TypeInv, Stages
<1>3. ASSUME NEW r \in relays, RelayToClient(r)
      PROVE  TypeInv'
  <2>1. r.msg \in Answer
    BY DEF TypeInv, TypeOK, Relay
  <2>2. clientQ' \in Seq(Answer) /\ Len(clientQ') <= Cap
    <3>1. CASE Len(clientQ) < Cap /\ clientQ' = Append(clientQ, r.msg)
      <4>1. clientQ' \in Seq(Answer) /\ Len(clientQ') = Len(clientQ) + 1
        BY <1>1, <2>1, <3>1
      <4> QED BY <1>1, <3>1, <4>1
    <3>2. CASE UNCHANGED clientQ
      BY <1>1, <3>2
    <3> QED BY <1>3, <3>1, <3>2 DEF RelayToClient, ClientHasRoom
  <2>3. UNCHANGED <<loopVars, h, target, sessionVars, workerVars, chan, queue,
                    clientOpen, answered>>
        /\ relays' \subseteq relays /\ crashed' \in {crashed, "panic"}
    BY <1>3 DEF RelayToClient, ClientHasRoom
  <2>4. TypeOK'
    BY <2>2, <2>3 DEF TypeInv, TypeOK
  <2> QED BY <2>3, <2>4 DEF TypeInv, Stages
<1>4. CASE WriteToClient
  <2>1. clientQ # <<>> /\ clientQ' = Tail(clientQ)
        /\ answered' \in {answered \cup {Head(clientQ).about}, answered}
    BY <1>4 DEF WriteToClient
  <2>2. clientQ' \in Seq(Answer) /\ Head(clientQ) \in Answer /\ Len(clientQ') <= Cap
    BY <1>1, <2>1
  <2>3. answered' \subseteq Msgs
    BY <2>1, <2>2 DEF Answer, TypeInv, TypeOK
  <2>4. UNCHANGED <<loopVars, h, target, sessionVars, workerVars, chan, queue, relays,
                    clientOpen, crashed>>
    BY <1>4 DEF WriteToClient
  <2>5. TypeOK'
    BY <2>2, <2>3, <2>4 DEF TypeInv, TypeOK
  <2> QED BY <2>4, <2>5 DEF TypeInv, Stages
<1>5. CASE MapFault
  BY <1>5 DEF MapFault, TypeInv, TypeOK, Stages
<1> QED BY <1>2, <1>3, <1>4, <1>5 DEF Relaying

LEMMA StepKeepsTypes ==
  ASSUME TypeInv, [Next]_vars
  PROVE  TypeInv'
<1>1. CASE UNCHANGED vars
  BY <1>1 DEF vars, TypeInv, TypeOK, Stages
<1> QED BY <1>1, LoopKeepsTypes, HandleKeepsTypes, CarryKeepsTypes,
           RelayingKeepsTypes DEF Next, Carry

LEMMA TypesAtStart == Init => TypeInv
<1> SUFFICES ASSUME Init PROVE TypeInv
  OBVIOUS
<1>1. Cap \in Nat /\ Len(<< >>) = 0 /\ << >> \in Seq(Answer) /\ << >> \in Seq(Frame)
  BY EmptySeq, BoundsAssumption
<1>2. /\ queue \in [Workers -> Seq(Frame)] /\ wireTo \in [Workers -> Seq(Frame)]
      /\ wireFrom \in [Workers -> Seq(Answer)] /\ got \in [Workers -> Seq(Frame)]
      /\ clientQ \in Seq(Answer) /\ Len(clientQ) <= Cap
      /\ \A w \in Workers : Len(queue[w]) <= Cap
  <2> DEFINE nothing == << >>
  <2>1. Cap \in Nat /\ Len(nothing) = 0 /\ nothing \in Seq(Answer)
        /\ nothing \in Seq(Frame)
    BY <1>1
  <2>2. /\ queue = [w \in Workers |-> nothing] /\ wireTo = [w \in Workers |-> nothing]
        /\ wireFrom = [w \in Workers |-> nothing] /\ got = [w \in Workers |-> nothing]
        /\ clientQ = nothing
    BY DEF Init
  <2> HIDE DEF nothing
  <2> QED BY <2>1, <2>2
<1>3. TypeOK
  <2>1. pos \in 0..Len(Script)
    BY ScriptFacts DEF Init
  <2>2. /\ h \in [Msgs -> {"idle", "start", "startup", "dial", "publish", "init",
                          "look", "make", "store", "proxy", "send", "stuck", "done"}]
        /\ target \in [Msgs -> Workers \cup {None}]
        /\ fileMap \in [Files -> Workers \cup {None}]
        /\ spawned \in [Workers -> {"none", "running", "exited", "stopped"}]
        /\ conn \in [Workers -> {"none", "open", "closed", "broken"}]
        /\ chan \in [Workers -> {"nil", "open", "closed"}]
    BY DEF Init
  <2> QED BY <1>2, <2>1, <2>2 DEF Init, TypeOK
<1>4. Stages
  BY DEF Init, Stages
<1> QED BY <1>3, <1>4 DEF TypeInv

(* Every variable keeps its type; in particular no channel ever holds more *)
(* than its capacity.                                                      *)
THEOREM TypeCorrect == Spec => []TypeOK
<1>1. TypeInv => TypeOK
  BY DEF TypeInv
<1> QED BY <1>1, TypesAtStart, StepKeepsTypes, PTL DEF Spec

-----------------------------------------------------------------------------
(* The steps that leave everything Routes speaks of as it is. *)
LEMMA RoutesUntouched ==
  ASSUME TypeInv, Routes, UNCHANGED <<fileMap, shared, target>>,
         \A n \in Msgs : h'[n] = "send" => h[n] = "send"
  PROVE  Routes'
  BY DEF Routes, Concerns

LEMMA HandleKeepsRoutes ==
  ASSUME TypeInv, Routes, NEW m \in Msgs, Handle(m)
  PROVE  Routes'
<1> USE DEF sessionVars
<1> h \in [Msgs -> {"idle", "start", "startup", "dial", "publish", "init", "look",
                    "make", "store", "proxy", "send", "stuck", "done"}]
  BY DEF TypeInv, TypeOK
<1>1. CASE Publish(m)
  <2>1. shared' = m /\ Kind(m) = "register"
    BY <1>1 DEF Publish, Goes, TypeInv, Stages
  <2>2. UNCHANGED <<fileMap, target>> /\ \A n \in Msgs : h'[n] = "send" => h[n] = "send"
    BY <1>1 DEF Publish, Goes
  <2> QED BY <2>1, <2>2 DEF Routes, Concerns
<1>2. CASE MakeMap(m)
  <2>1. /\ fileMap' = [f \in Files |-> None] /\ UNCHANGED <<shared, target>>
        /\ \A n \in Msgs : h'[n] = "send" => h[n] = "send"
    BY <1>2 DEF MakeMap, Goes
  <2> QED BY <2>1 DEF Routes, Concerns
<1>3. CASE StoreWorker(m)
  <2>1. Kind(m) = "open"
    BY <1>3 DEF StoreWorker, Goes, TypeInv, Stages
  <2>2. /\ fileMap' = [fileMap EXCEPT ![File(m)] = m] /\ UNCHANGED <<shared, target>>
        /\ \A n \in Msgs : h'[n] = "send" => h[n] = "send"
    BY <1>3 DEF StoreWorker, Goes
  <2>3. fileMap \in [Files -> Workers \cup {None}]
    BY DEF TypeInv, TypeOK
  <2> QED BY <2>1, <2>2, <2>3 DEF Routes, Concerns, IsFileWorker
<1>4. CASE RouteMessage(m)
  <2>1. /\ Kind(m) = "proxied" /\ h' = [h EXCEPT ![m] = IF Destination(m) = None
                                                    THEN "done" ELSE "send"]
        /\ target' = [target EXCEPT ![m] = Destination(m)]
        /\ UNCHANGED <<fileMap, shared>>
    BY <1>4 DEF RouteMessage, Goes
  <2>2. target \in [Msgs -> Workers \cup {None}]
    BY DEF TypeInv, TypeOK
  <2>3. Destination(m) # None => Concerns(m, Destination(m))
    <3>1. CASE File(m) # NoFile /\ made /\ fileMap[File(m)] # None
      <4>1. File(m) \in Files
        BY <3>1, ScriptFacts
      <4> QED BY <2>1, <3>1, <4>1 DEF Destination, Concerns, Routes
    <3>2. CASE ~(File(m) # NoFile /\ made /\ fileMap[File(m)] # None)
      BY <3>2 DEF Destination, Concerns, Routes, IsFileWorker
    <3> QED BY <3>1, <3>2
  <2> QED BY <2>1, <2>2, <2>3 DEF Routes, Concerns
<1>5. CASE ~(Publish(m) \/ MakeMap(m) \/ StoreWorker(m) \/ RouteMessage(m))
  <2>1. UNCHANGED <<fileMap, shared, target>>
    BY <1>5 DEF Handle, Check, StartWorker, Refused, Dial, InitWorker, LookAtMap,
                ProxyRegister, ProxyMessage, AskStatus, Sends
  <2>2. \A n \in Msgs : h'[n] = "send" => h[n] = "send"
    BY <1>5 DEF Handle, Check, StartWorker, Refused, Dial, InitWorker, LookAtMap,
                ProxyRegister, ProxyMessage, AskStatus, Sends, Goes
  <2> QED BY <2>1, <2>2, RoutesUntouched
<1> QED BY <1>1, <1>2, <1>3, <1>4, <1>5

LEMMA StepKeepsRoutes ==
  ASSUME TypeInv, Routes, [Next]_vars
  PROVE  Routes'
<1>1. CASE \E m \in Msgs : Handle(m)
  BY <1>1, HandleKeepsRoutes
<1>2. CASE ReadMessage
  <2>1. UNCHANGED <<fileMap, shared, target>> /\ h' = [h EXCEPT ![pos + 1] = "start"]
    BY <1>2 DEF ReadMessage, sessionVars
  <2> QED BY <2>1, RoutesUntouched DEF TypeInv, TypeOK
<1>3. CASE ~((\E m \in Msgs : Handle(m)) \/ ReadMessage)
  <2>1. UNCHANGED <<fileMap, shared, target, h>>
    BY <1>3 DEF Next, ClientLeaves, Disconnect, CloseClient, CheckInfo, CloseConn,
         CloseSend, Shutdown, MapFault, WriteToWorker, ReadFromWorker, Relaying,
         RelayToWorker, RelayToClient, ClientHasRoom, WriteToClient, ServeFrame, WorkerExits,
         sessionVars, vars
  <2> QED BY <2>1, RoutesUntouched
<1> QED BY <1>1, <1>2, <1>3

-----------------------------------------------------------------------------
(* What is in a sequence that was appended to, and in its tail. *)
LEMMA AppendElements ==
  ASSUME NEW S, NEW q \in Seq(S), NEW e \in S
  PROVE  /\ DOMAIN Append(q, e) = 1..(Len(q) + 1) /\ DOMAIN q = 1..Len(q)
         /\ Append(q, e)[Len(q) + 1] = e
         /\ \A i \in 1..Len(q) : Append(q, e)[i] = q[i]
         /\ Len(q) \in Nat
  OBVIOUS

LEMMA TailElements ==
  ASSUME NEW S, NEW q \in Seq(S), q # <<>>
  PROVE  /\ \A i \in DOMAIN Tail(q) : i + 1 \in DOMAIN q /\ Tail(q)[i] = q[i + 1]
         /\ 1 \in DOMAIN q /\ Head(q) = q[1] /\ Head(q) \in S
  OBVIOUS

Told == OpenAfterRegister /\ Confined

LEMMA QuietKeepsTraffic ==
  ASSUME Traffic, Told, UNCHANGED <<queue, wireTo, wireFrom, got>>, relays' \subseteq relays
  PROVE  Traffic' /\ Told'
  BY DEF Traffic, Told, Fits, Asked, Concerns, OpenAfterRegister, Confined

(* A frame that fits is put into a channel. *)
LEMMA PutKeepsTraffic ==
  ASSUME TypeInv, Traffic, Told, NEW w \in Workers, NEW m \in Msgs, NEW event,
         event \in {"REGISTER_VIEWER", "OPEN_FILE", "OTHER"}, Put(w, event, m),
         Concerns(m, w), event = "OPEN_FILE" => Asked(w),
         UNCHANGED <<wireTo, wireFrom, got>>, relays' \subseteq relays
  PROVE  Traffic' /\ Told'
<1> DEFINE frame == [event |-> event, about |-> m]
<1>1. queue \in [Workers -> Seq(Frame)] /\ frame \in Frame
  BY DEF TypeInv, TypeOK, Frame
<1>2. Fits(frame, w)
  BY DEF Fits
<1> HIDE DEF frame
<1>3. queue' = [queue EXCEPT ![w] = Append(@, frame)]
  BY DEF Put, frame
<1>4. \A v \in Workers : Asked(v)' = Asked(v)
  BY DEF Asked
<1>5. ASSUME NEW v \in Workers
      PROVE  \A i \in DOMAIN queue'[v] : Fits(queue'[v][i], v)
  <2>1. CASE v = w
    <3>1. queue'[w] = Append(queue[w], frame) /\ queue[w] \in Seq(Frame)
      BY <1>1, <1>3
    <3>2. \A i \in DOMAIN queue[w] : Fits(queue[w][i], w)
      BY DEF Traffic
    <3> QED BY <1>1, <1>2, <2>1, <3>1, <3>2, AppendElements
  <2>2. CASE v # w
    BY <1>1, <1>3, <2>2 DEF Traffic
  <2> QED BY <2>1, <2>2
<1>6. \A v \in Workers : \A i \in DOMAIN queue'[v] : Fits(queue[v][i], v)' =
        Fits(queue'[v][i], v)
  BY <1>4 DEF Fits, Concerns
<1>7. Traffic'
  BY <1>4, <1>5, <1>6 DEF Traffic, Fits, Concerns
<1> QED BY <1>7 DEF Told, OpenAfterRegister, Confined

LEMMA HandleKeepsTraffic ==
  ASSUME TypeInv, Routes, Traffic, Told, NEW m \in Msgs, Handle(m)
  PROVE  Traffic' /\ Told'
<1> USE DEF workerVars
<1>1. CASE ProxyRegister(m)
  <2>1. m \in Workers /\ UNCHANGED <<wireTo, wireFrom, got, relays>>
    BY <1>1 DEF ProxyRegister, Sends, Goes, TypeInv, Stages
  <2>2. Put(m, "REGISTER_VIEWER", m) \/ UNCHANGED queue
    BY <1>1 DEF ProxyRegister, FirstFrame, Sends
  <2> QED BY <2>1, <2>2, PutKeepsTraffic, QuietKeepsTraffic DEF Concerns
<1>2. CASE ProxyMessage(m)
  <2>1. /\ target[m] \in Workers /\ Concerns(m, target[m])
        /\ UNCHANGED <<wireTo, wireFrom, got, relays>>
    BY <1>2 DEF ProxyMessage, Sends, Goes, TypeInv, Stages, Routes
  <2>2. Put(target[m], "OTHER", m) \/ UNCHANGED queue
    BY <1>2 DEF ProxyMessage, Sends
  <2> QED BY <2>1, <2>2, PutKeepsTraffic, QuietKeepsTraffic
<1>3. CASE ~(ProxyRegister(m) \/ ProxyMessage(m))
  <2>1. UNCHANGED <<queue, wireTo, wireFrom, got, relays>>
    BY <1>3 DEF Handle, Check, StartWorker, Refused, Dial, Publish, InitWorker,
                LookAtMap, MakeMap, StoreWorker, RouteMessage, AskStatus
  <2> QED BY <2>1, QuietKeepsTraffic
<1> QED BY <1>1, <1>2, <1>3

LEMMA RelayingKeepsTraffic ==
  ASSUME TypeInv, Traffic, Told, Relaying
  PROVE  Traffic' /\ Told'
<1> USE DEF workerVars
<1>1. ASSUME NEW r \in relays, RelayToWorker(r)
      PROVE  Traffic' /\ Told'
  <2>1. r.from \in Workers /\ r.from \in Msgs
    BY DEF TypeInv, TypeOK, Relay, Workers
  <2>2. Asked(r.from)
    BY <1>1, <2>1 DEF RelayToWorker, OpensFile, Traffic
  <2>3. UNCHANGED <<wireTo, wireFrom, got>> /\ relays' \subseteq relays
        /\ (Put(r.from, "OPEN_FILE", r.from) \/ UNCHANGED queue)
    BY <1>1 DEF RelayToWorker
  <2> QED BY <2>1, <2>2, <2>3, PutKeepsTraffic, QuietKeepsTraffic DEF Concerns
<1>2. ASSUME NEW r \in relays, RelayToClient(r)
      PROVE  Traffic' /\ Told'
  BY <1>2, QuietKeepsTraffic DEF RelayToClient, ClientHasRoom
<1> QED BY <1>1, <1>2 DEF Relaying

LEMMA WriteKeepsTraffic ==
  ASSUME TypeInv, Traffic, Told, NEW w \in Workers, WriteToWorker(w)
  PROVE  Traffic' /\ Told'
<1>1. /\ queue \in [Workers -> Seq(Frame)] /\ wireTo \in [Workers -> Seq(Frame)]
  BY DEF TypeInv, TypeOK
<1>2. /\ queue[w] # <<>> /\ queue' = [queue EXCEPT ![w] = Tail(@)]
      /\ \/ wireTo' = [wireTo EXCEPT ![w] = Append(@, Head(queue[w]))]
         \/ UNCHANGED wireTo
      /\ UNCHANGED <<wireFrom, got, relays>>
  BY DEF WriteToWorker
<1>3. \A v \in Workers : Asked(v)' = Asked(v)
  BY <1>2 DEF Asked
<1>4. Head(queue[w]) \in Frame /\ Fits(Head(queue[w]), w)
  BY <1>1, <1>2, TailElements DEF Traffic
<1>5. ASSUME NEW v \in Workers
      PROVE  \A i \in DOMAIN queue'[v] : Fits(queue'[v][i], v)
  <2>1. CASE v = w
    <3>1. queue'[w] = Tail(queue[w]) /\ queue[w] \in Seq(Frame)
      BY <1>1, <1>2
    <3>2. \A i \in DOMAIN queue[w] : Fits(queue[w][i], w)
      BY DEF Traffic
    <3> QED BY <1>2, <2>1, <3>1, <3>2, TailElements
  <2>2. CASE v # w
    BY <1>1, <1>2, <2>2 DEF Traffic
  <2> QED BY <2>1, <2>2
<1>6. ASSUME NEW v \in Workers
      PROVE  \A i \in DOMAIN wireTo'[v] : Fits(wireTo'[v][i], v)
  <2>1. CASE v = w /\ wireTo' = [wireTo EXCEPT ![w] = Append(@, Head(queue[w]))]
    <3> DEFINE frame == Head(queue[w])
    <3>1. wireTo'[w] = Append(wireTo[w], frame) /\ wireTo[w] \in Seq(Frame)
      BY <1>1, <2>1
    <3>2. \A i \in DOMAIN wireTo[w] : Fits(wireTo[w][i], w)
      BY DEF Traffic
    <3>3. frame \in Frame /\ Fits(frame, w)
      BY <1>4
    <3> HIDE DEF frame
    <3> QED BY <2>1, <3>1, <3>2, <3>3, AppendElements
  <2>2. CASE wireTo'[v] = wireTo[v]
    BY <2>2 DEF Traffic
  <2> QED BY <1>1, <1>2, <2>1, <2>2
<1>7. Traffic'
  BY <1>2, <1>3, <1>5, <1>6 DEF Traffic, Fits, Concerns
<1> QED BY <1>2, <1>7 DEF Told, OpenAfterRegister, Confined

LEMMA ReadKeepsTraffic ==
  ASSUME TypeInv, Traffic, Told, NEW w \in Workers, ReadFromWorker(w)
  PROVE  Traffic' /\ Told'
<1>1. wireFrom \in [Workers -> Seq(Answer)]
  BY DEF TypeInv, TypeOK
<1> DEFINE relay == [from |-> w, msg |-> Head(wireFrom[w])]
<1>2. /\ wireFrom[w] # <<>> /\ wireFrom' = [wireFrom EXCEPT ![w] = Tail(@)]
      /\ relays' = relays \cup {relay}
      /\ UNCHANGED <<queue, wireTo, got>>
  BY DEF ReadFromWorker
<1>3. \A v \in Workers : Asked(v)' = Asked(v)
  BY <1>2 DEF Asked
<1>4. Head(wireFrom[w]).event = "ACK" => Asked(w)
  BY <1>1, <1>2, TailElements DEF Traffic
<1>5. ASSUME NEW v \in Workers
      PROVE  \A i \in DOMAIN wireFrom'[v] : wireFrom'[v][i].event = "ACK" => Asked(v)
  <2>1. CASE v = w
    <3>1. wireFrom'[w] = Tail(wireFrom[w]) /\ wireFrom[w] \in Seq(Answer)
      BY <1>1, <1>2
    <3>2. \A i \in DOMAIN wireFrom[w] : wireFrom[w][i].event = "ACK" => Asked(w)
      BY DEF Traffic
    <3> QED BY <1>2, <2>1, <3>1, <3>2, TailElements
  <2>2. CASE v # w
    BY <1>1, <1>2, <2>2 DEF Traffic
  <2> QED BY <2>1, <2>2
<1>6. \A v \in Workers : \A r \in relays' : r.from = v /\ r.msg.event = "ACK" => Asked(v)
  <2>1. relay.from = w /\ relay.msg = Head(wireFrom[w])
    OBVIOUS
  <2> HIDE DEF relay
  <2> QED BY <1>2, <1>4, <2>1 DEF Traffic
<1>7. Traffic'
  <2> HIDE DEF relay
  <2> QED BY <1>2, <1>3, <1>5, <1>6 DEF Traffic, Fits, Concerns
<1> QED BY <1>2, <1>7 DEF Told, OpenAfterRegister, Confined

LEMMA ServeKeepsTraffic ==
  ASSUME TypeInv, Traffic, Told, NEW w \in Workers, ServeFrame(w)
  PROVE  Traffic' /\ Told'
<1>1. /\ wireTo \in [Workers -> Seq(Frame)] /\ wireFrom \in [Workers -> Seq(Answer)]
      /\ got \in [Workers -> Seq(Frame)]
  BY DEF TypeInv, TypeOK
<1> DEFINE frame == Head(wireTo[w])
           answer == [event |-> IF frame.event = "REGISTER_VIEWER" THEN "ACK"
                                ELSE "OTHER", about |-> frame.about]
<1>2. /\ wireTo[w] # <<>> /\ wireTo' = [wireTo EXCEPT ![w] = Tail(@)]
      /\ got' = [got EXCEPT ![w] = Append(@, frame)]
      /\ wireFrom' = [wireFrom EXCEPT ![w] = Append(@, answer)]
      /\ UNCHANGED <<queue, relays>>
  BY DEF ServeFrame
<1>3. frame \in Frame /\ Fits(frame, w)
  BY <1>1, <1>2, TailElements DEF Traffic
<1>4. answer \in Answer /\ (answer.event = "ACK" => frame.event = "REGISTER_VIEWER")
  BY <1>3 DEF Answer, Frame
<1> HIDE DEF frame, answer
<1>5. /\ got[w] \in Seq(Frame) /\ got'[w] = Append(got[w], frame)
      /\ \A v \in Workers \ {w} : got'[v] = got[v]
  BY <1>1, <1>2
<1>6. /\ DOMAIN got'[w] = 1..(Len(got[w]) + 1) /\ DOMAIN got[w] = 1..Len(got[w])
      /\ got'[w][Len(got[w]) + 1] = frame /\ Len(got[w]) \in Nat
      /\ \A i \in 1..Len(got[w]) : got'[w][i] = got[w][i]
  BY <1>3, <1>5, AppendElements
<1>7. /\ \A v \in Workers : Asked(v) => Asked(v)'
      /\ frame.event = "REGISTER_VIEWER" => Asked(w)'
  BY <1>5, <1>6 DEF Asked
<1>8. ASSUME NEW v \in Workers
      PROVE  \A i \in DOMAIN wireTo'[v] : Fits(wireTo'[v][i], v)
  <2>1. CASE v = w
    <3>1. wireTo'[w] = Tail(wireTo[w]) /\ wireTo[w] \in Seq(Frame)
      BY <1>1, <1>2
    <3>2. \A i \in DOMAIN wireTo[w] : Fits(wireTo[w][i], w)
      BY DEF Traffic
    <3> QED BY <1>2, <2>1, <3>1, <3>2, TailElements
  <2>2. CASE v # w
    BY <1>1, <1>2, <2>2 DEF Traffic
  <2> QED BY <2>1, <2>2
<1>9. ASSUME NEW v \in Workers
      PROVE  \A i \in DOMAIN wireFrom'[v] : wireFrom'[v][i].event = "ACK" => Asked(v)'
  <2>1. CASE v = w
    <3>1. wireFrom'[w] = Append(wireFrom[w], answer) /\ wireFrom[w] \in Seq(Answer)
      BY <1>1, <1>2
    <3>2. \A i \in DOMAIN wireFrom[w] : wireFrom[w][i].event = "ACK" => Asked(w)
      BY DEF Traffic
    <3> QED BY <1>4, <1>7, <2>1, <3>1, <3>2, AppendElements
  <2>2. CASE v # w
    BY <1>1, <1>2, <1>7, <2>2 DEF Traffic
  <2> QED BY <2>1, <2>2
<1>10. Traffic'
  BY <1>2, <1>7, <1>8, <1>9 DEF Traffic, Fits, Concerns
<1>11. Confined'
  <2>1. Concerns(frame.about, w)
    BY <1>3 DEF Fits
  <2>2. \A i \in DOMAIN got'[w] : Concerns(got'[w][i].about, w)
    <3>1. \A i \in 1..Len(got[w]) : Concerns(got[w][i].about, w)
      BY <1>6 DEF Told, Confined, Concerns
    <3>2. \A i \in 1..(Len(got[w]) + 1) : i = Len(got[w]) + 1 \/ i \in 1..Len(got[w])
      BY <1>6
    <3> QED BY <1>6, <2>1, <3>1, <3>2
  <2>3. \A v \in Workers \ {w} : \A i \in DOMAIN got'[v] : Concerns(got'[v][i].about, v)
    BY <1>5 DEF Told, Confined, Concerns
  <2>4. \A v \in Workers : \A i \in DOMAIN got'[v] : Concerns(got'[v][i].about, v)
    BY <2>2, <2>3
  <2> QED BY <2>4 DEF Confined, Concerns
<1>12. OpenAfterRegister'
  <2>1. frame.event = "OPEN_FILE" => Asked(w)
    BY <1>3 DEF Fits
  <2>2. ASSUME NEW i \in DOMAIN got'[w], got'[w][i].event = "OPEN_FILE"
        PROVE  \E j \in 1..(i - 1) : got'[w][j].event = "REGISTER_VIEWER"
    <3>1. CASE i = Len(got[w]) + 1
      <4>1. PICK j \in 1..Len(got[w]) : got[w][j].event = "REGISTER_VIEWER"
        BY <1>6, <2>1, <2>2, <3>1 DEF Asked
      <4> QED BY <1>6, <3>1, <4>1
    <3>2. CASE i \in 1..Len(got[w])
      <4>1. PICK j \in 1..(i - 1) : got[w][j].event = "REGISTER_VIEWER"
        BY <1>6, <2>2, <3>2 DEF Told, OpenAfterRegister
      <4>2. j \in 1..Len(got[w])
        <5>1. \A n \in Nat : \A a \in 1..n : \A b \in 1..(a - 1) : b \in 1..n
          OBVIOUS
        <5>2. Len(got[w]) \in Nat
          BY <1>6
        <5> QED BY <3>2, <4>1, <5>1, <5>2
      <4>3. got'[w][j] = got[w][j]
        BY <1>6, <4>2
      <4> QED BY <4>1, <4>3
    <3>3. \A n \in Nat : \A a \in 1..(n + 1) : a = n + 1 \/ a \in 1..n
      OBVIOUS
    <3>4. Len(got[w]) \in Nat /\ i \in 1..(Len(got[w]) + 1)
      BY <1>6
    <3> QED BY <3>1, <3>2, <3>3, <3>4
  <2>3. \A v \in Workers \ {w} : \A i \in DOMAIN got'[v] :
          got'[v][i].event = "OPEN_FILE" =>
            \E j \in 1..(i - 1) : got'[v][j].event = "REGISTER_VIEWER"
    BY <1>5 DEF Told, OpenAfterRegister
  <2> QED BY <2>2, <2>3 DEF OpenAfterRegister
<1> QED BY <1>10, <1>11, <1>12 DEF Told

LEMMA StepKeepsTraffic ==
  ASSUME TypeInv, Routes, Traffic, Told, [Next]_vars
  PROVE  Traffic' /\ Told'
<1>1. CASE (\E m \in Msgs : Handle(m)) \/ Relaying
  BY <1>1, HandleKeepsTraffic, RelayingKeepsTraffic
<1>2. CASE \E w \in Workers : WriteToWorker(w) \/ ReadFromWorker(w) \/ ServeFrame(w)
  BY <1>2, WriteKeepsTraffic, ReadKeepsTraffic, ServeKeepsTraffic
<1>3. CASE \/ ReadMessage \/ ClientLeaves \/ Disconnect \/ MapFault \/ WriteToClient
           \/ (\E w \in Workers : WorkerExits(w)) \/ UNCHANGED vars
  <2>1. UNCHANGED <<queue, wireTo, wireFrom, got, relays>>
    BY <1>3 DEF ReadMessage, ClientLeaves, Disconnect, CloseClient, CheckInfo,
         CloseConn, CloseSend, Shutdown, MapFault, WriteToClient, WorkerExits,
         workerVars, vars
  <2> QED BY <2>1, QuietKeepsTraffic
<1> QED BY <1>1, <1>2, <1>3 DEF Next

-----------------------------------------------------------------------------
(* What the cleanup closes stays open as long as the loop reads. *)
LEMMA StepKeepsOpen ==
  ASSUME TypeInv, ClosedLate, [Next]_vars
  PROVE  ClosedLate'
<1> USE DEF loopVars, clientVars
<1>1. loop # "reading" => loop' # "reading"
  BY DEF Next, ReadMessage, ClientLeaves, Disconnect, CloseClient, CheckInfo,
     CloseConn, CloseSend, Shutdown, Handle, Check, StartWorker, Refused, Dial,
     Publish, InitWorker, LookAtMap, MakeMap, StoreWorker, ProxyRegister,
     RouteMessage, ProxyMessage, AskStatus, Sends, MapFault, WriteToWorker,
     ReadFromWorker, Relaying, RelayToWorker, RelayToClient, ClientHasRoom, WriteToClient,
     ServeFrame, WorkerExits, vars
<1>2. ASSUME crashed' = "panic", crashed # "panic"
      PROVE  loop # "reading"
  <2>1. (\E m \in Msgs : Handle(m)) \/ Relaying
    BY <1>2 DEF Next, ReadMessage, ClientLeaves, Disconnect, CloseClient, CheckInfo,
       CloseConn, CloseSend, Shutdown, MapFault, WriteToWorker, ReadFromWorker,
       WriteToClient, ServeFrame, WorkerExits, vars
  <2>2. ASSUME NEW m \in Msgs, Handle(m)
        PROVE  \E w \in Workers : chan[w] = "closed"
    <3>1. ProxyRegister(m) \/ ProxyMessage(m)
      BY <1>2, <2>2 DEF Handle, Check, StartWorker, Refused, Dial, Publish, InitWorker,
         LookAtMap, MakeMap, StoreWorker, RouteMessage, AskStatus
    <3>2. CASE ProxyRegister(m)
      BY <1>2, <3>2 DEF ProxyRegister, Sends, Goes, TypeInv, Stages
    <3>3. CASE ProxyMessage(m)
      BY <1>2, <3>3 DEF ProxyMessage, Sends, Goes, TypeInv, Stages
    <3> QED BY <3>1, <3>2, <3>3
  <2>3. ASSUME NEW r \in relays, RelayToWorker(r)
        PROVE  \E w \in Workers : chan[w] = "closed"
    <3>1. r.from \in Workers
      BY DEF TypeInv, TypeOK, Relay
    <3> QED BY <1>2, <2>3, <3>1 DEF RelayToWorker
  <2>4. ASSUME NEW r \in relays, RelayToClient(r)
        PROVE  ~clientOpen
    BY <1>2, <2>4 DEF RelayToClient, ClientHasRoom
  <2> QED BY <2>1, <2>2, <2>3, <2>4 DEF Relaying, ClosedLate
<1>3. ASSUME ~clientOpen', clientOpen
      PROVE  loop # "reading"
  <2>1. CloseClient
    BY <1>3 DEF Next, ReadMessage, ClientLeaves, Disconnect, CheckInfo, CloseConn,
       CloseSend, Shutdown, Handle, Check, StartWorker, Refused, Dial, Publish,
       InitWorker, LookAtMap, MakeMap, StoreWorker, ProxyRegister, RouteMessage,
       ProxyMessage, AskStatus, Sends, MapFault, WriteToWorker, ReadFromWorker,
       Relaying, RelayToWorker, RelayToClient, ClientHasRoom, WriteToClient, ServeFrame,
       WorkerExits, vars
  <2> QED BY <2>1 DEF CloseClient
<1>4. ASSUME NEW w \in Workers, chan'[w] = "closed", chan[w] # "closed"
      PROVE  loop # "reading"
  <2>1. \/ CloseSend \/ (\E m \in Workers : InitWorker(m))
        \/ (\E v \in Workers : WorkerExits(v))
    BY <1>4 DEF Next, ReadMessage, ClientLeaves, Disconnect, CloseClient, CheckInfo,
       CloseConn, Shutdown, Handle, Check, StartWorker, Refused, Dial, Publish,
       LookAtMap, MakeMap, StoreWorker, ProxyRegister, RouteMessage, ProxyMessage,
       AskStatus, Sends, MapFault, WriteToWorker, ReadFromWorker, Relaying,
       RelayToWorker, RelayToClient, ClientHasRoom, WriteToClient, ServeFrame, vars
  <2>2. CASE CloseSend
    BY <2>2 DEF CloseSend
  <2>3. CASE \E m \in Workers : InitWorker(m)
    BY <1>4, <2>3 DEF InitWorker, TypeInv, TypeOK
  <2>4. CASE \E v \in Workers : WorkerExits(v)
    BY <1>4, <2>4 DEF WorkerExits, ChanAfterExit, TypeInv, TypeOK
  <2> QED BY <2>1, <2>2, <2>3, <2>4
<1> QED BY <1>1, <1>2, <1>3, <1>4 DEF ClosedLate

-----------------------------------------------------------------------------
(* The inductive invariant: types and stages, what the session knows of    *)
(* its workers, what is under way, what workers were told, what is closed. *)
IInv == TypeInv /\ Routes /\ Traffic /\ Told /\ ClosedLate

LEMMA InvariantAtStart == Init => IInv
<1> SUFFICES ASSUME Init PROVE IInv
  OBVIOUS
<1>1. TypeInv
  BY TypesAtStart
<1>2. Routes /\ ClosedLate
  BY DEF Init, Routes, ClosedLate
<1>3. Traffic /\ Told
  <2> DEFINE nothing == << >>
  <2>1. DOMAIN nothing = {} /\ relays = {}
    BY DEF Init
  <2>2. \A w \in Workers : /\ queue[w] = nothing /\ wireTo[w] = nothing
                           /\ wireFrom[w] = nothing /\ got[w] = nothing
    BY DEF Init
  <2> HIDE DEF nothing
  <2> QED BY <2>1, <2>2 DEF Traffic, Told, OpenAfterRegister, Confined
<1> QED BY <1>1, <1>2, <1>3 DEF IInv

LEMMA InvariantKept == IInv /\ [Next]_vars => IInv'
  BY StepKeepsTypes, StepKeepsRoutes, StepKeepsTraffic, StepKeepsOpen DEF IInv

(* The invariant holds of every session: only what a session did, and in   *)
(* which order, is behind what its workers are told.                       *)
THEOREM Invariant == Spec => []IInv
  BY InvariantAtStart, InvariantKept, PTL DEF Spec

(* A file worker is asked to open its file only after it was asked to      *)
(* register, for every script, every number of files and every capacity of *)
(* the channels.                                                           *)
THEOREM OpensInOrder == Spec => []OpenAfterRegister
<1>1. IInv => OpenAfterRegister
  BY DEF IInv, Told
<1> QED BY <1>1, Invariant, PTL

(* No worker is ever told of another worker's file, whatever handlers and  *)
(* relays run at the same time.                                            *)
THEOREM FilesKeptApart == Spec => []Confined
<1>1. IInv => Confined
  BY DEF IInv, Told
<1> QED BY <1>1, Invariant, PTL

(* While the client stays no send finds its channel closed, so the         *)
(* controller does not panic.                                              *)
THEOREM StaysUp == Spec => []PanicOnlyAfterLeave
<1>1. IInv => PanicOnlyAfterLeave
  BY DEF IInv, ClosedLate, PanicOnlyAfterLeave
<1> QED BY <1>1, Invariant, PTL

-----------------------------------------------------------------------------
(* What the session knows of the worker of its registration: Info names it *)
(* from the moment it runs until another one runs, the handlers that were  *)
(* done when the client left are done for good, and a cleanup that ended   *)
(* has stopped it.                                                         *)
Registration ==
  /\ \A w \in Registers : spawned[w] # "none" /\ ~Replaced(w) => info = w
  /\ loop = "reading" => left = {}
  /\ \A m \in left : h[m] = "done"
  /\ RegisteredStopped

(* A handler that starts a worker is not one the client left behind, and    *)
(* only a registration's is the worker of Info.                             *)
LEMMA HandleKeepsRegistration ==
  ASSUME TypeInv, Registration, NEW m \in Msgs, Handle(m)
  PROVE  Registration'
<1> USE DEF loopVars, sessionVars, workerVars
<1>1. \A n \in left : h'[n] = "done"
  <2>1. \E from, to : from # "done" /\ Goes(m, from, to)
    BY DEF Handle, Check, StartWorker, Refused, Dial, Publish, InitWorker,
       LookAtMap, MakeMap, StoreWorker, ProxyRegister, RouteMessage, ProxyMessage,
       AskStatus, Sends
  <2> QED BY <2>1 DEF Goes, Registration, TypeInv, TypeOK
<1>2. UNCHANGED loopVars
  BY DEF Handle, Check, StartWorker, Refused, Dial, Publish, InitWorker, LookAtMap,
     MakeMap, StoreWorker, ProxyRegister, RouteMessage, ProxyMessage, AskStatus, Sends
<1>3. CASE StartWorker(m)
  <2>1. m \in Workers /\ m \notin left
    BY <1>3 DEF StartWorker, Goes, TypeInv, Stages, Registration
  <2>2. /\ spawned'[m] = "running"
        /\ \A w \in Workers \ {m} : spawned'[w] = spawned[w]
        /\ info' = IF Kind(m) = "register" THEN m ELSE info
    BY <1>3, <2>1 DEF StartWorker, TypeInv, TypeOK
  <2>3. \A w \in Registers : Replaced(w) => Replaced(w)'
    BY <2>2 DEF Replaced, Registers
  <2>4. ASSUME NEW w \in Registers, spawned'[w] # "none", ~Replaced(w)'
        PROVE  info' = w
    <3>1. CASE w = m
      BY <2>2, <3>1 DEF Registers
    <3>2. CASE w # m
      <4>1. Kind(m) # "register"
        BY <2>1, <2>2, <2>4, <3>2 DEF Replaced, Registers
      <4> QED BY <2>2, <2>3, <2>4, <3>2, <4>1 DEF Registration, Registers
    <3> QED BY <3>1, <3>2
  <2>5. RegisteredStopped'
    BY <1>2, <2>1, <2>2, <2>3 DEF RegisteredStopped, Registration, Registers
  <2> QED BY <1>1, <1>2, <2>4, <2>5 DEF Registration
<1>4. CASE ~StartWorker(m)
  <2>1. UNCHANGED <<spawned, info>>
    BY <1>4 DEF Handle, Check, Refused, Dial, Publish, InitWorker, LookAtMap, MakeMap,
       StoreWorker, ProxyRegister, RouteMessage, ProxyMessage, AskStatus, Sends
  <2> QED BY <1>1, <1>2, <2>1 DEF Registration, RegisteredStopped, Replaced
<1> QED BY <1>3, <1>4

LEMMA StepKeepsRegistration ==
  ASSUME TypeInv, Registration, [Next]_vars
  PROVE  Registration'
<1> USE DEF loopVars, sessionVars, workerVars
<1>1. CASE \E m \in Msgs : Handle(m)
  BY <1>1, HandleKeepsRegistration
<1>2. CASE ReadMessage
  <2>1. \A w : Replaced(w)' <=> Replaced(w)
    BY <1>2 DEF ReadMessage, Replaced
  <2> QED BY <1>2, <2>1 DEF ReadMessage, Registration, RegisteredStopped
<1>3. CASE ClientLeaves
  <2>1. \A w : Replaced(w)' <=> Replaced(w)
    BY <1>3 DEF ClientLeaves, Replaced
  <2> QED BY <1>3, <2>1 DEF ClientLeaves, Registration, RegisteredStopped
<1>4. CASE CloseClient \/ CloseConn \/ CloseSend
  <2>1. UNCHANGED <<left, h, info, spawned>> /\ loop' \notin {"reading", "ended"}
    BY <1>4 DEF CloseClient, CloseConn, CloseSend
  <2>2. \A w : Replaced(w)' <=> Replaced(w)
    BY <2>1 DEF Replaced
  <2> QED BY <2>1, <2>2 DEF Registration, RegisteredStopped
<1>5. CASE CheckInfo
  <2>1. ASSUME info = None, NEW w \in Registers, ~Replaced(w)
        PROVE  spawned[w] = "none"
    BY <2>1, ScriptFacts DEF Registration, Registers
  <2> QED BY <1>5, <2>1 DEF CheckInfo, Registration, RegisteredStopped, Replaced
<1>6. CASE Shutdown
  <2>0. \A w \in Registers : Replaced(w) => Replaced(w)'
    BY <1>6 DEF Shutdown, Replaced, Registers, TypeInv, TypeOK
  <2>1. ASSUME loop' = "ended", NEW w \in Registers, ~Replaced(w)'
        PROVE  spawned'[w] # "running"
    <3>1. spawned' = [spawned EXCEPT ![info] = "stopped"]
      BY <1>6, <2>1 DEF Shutdown
    <3>2. spawned[w] = "none" \/ info = w
      BY <2>0, <2>1 DEF Registration
    <3> QED BY <3>1, <3>2 DEF TypeInv, TypeOK, Registers
  <2>2. \A w \in Workers : spawned'[w] # "none" => spawned[w] # "none" \/ info = w
    BY <1>6 DEF Shutdown, TypeInv, TypeOK
  <2>3. UNCHANGED <<left, h, info>> /\ loop' # "reading"
    BY <1>6 DEF Shutdown
  <2> QED BY <2>0, <2>1, <2>2, <2>3 DEF Registration, RegisteredStopped, Registers
<1>7. CASE \E w \in Workers : WorkerExits(w)
  <2>1. \A v \in Workers : spawned'[v] = spawned[v]
          \/ (spawned[v] = "running" /\ spawned'[v] = "exited")
    BY <1>7 DEF WorkerExits, TypeInv, TypeOK
  <2>2. UNCHANGED <<loop, left, h, info>>
    BY <1>7 DEF WorkerExits
  <2>3. \A w \in Registers : Replaced(w)' <=> Replaced(w)
    BY <2>1 DEF Replaced, Registers
  <2> QED BY <2>1, <2>2, <2>3 DEF Registration, RegisteredStopped, Registers
<1>8. CASE \/ MapFault \/ Relaying \/ WriteToClient \/ UNCHANGED vars
           \/ (\E w \in Workers : WriteToWorker(w) \/ ReadFromWorker(w) \/ ServeFrame(w))
  <2>1. UNCHANGED <<loop, left, h, info, spawned>>
    BY <1>8 DEF MapFault, Relaying, RelayToWorker, RelayToClient, WriteToClient,
       WriteToWorker, ReadFromWorker, ServeFrame, vars
  <2>2. \A w : Replaced(w)' <=> Replaced(w)
    BY <2>1 DEF Replaced
  <2> QED BY <2>1, <2>2 DEF Registration, RegisteredStopped
<1> QED BY <1>1, <1>2, <1>3, <1>4, <1>5, <1>6, <1>7, <1>8 DEF Next, Disconnect

(* A worker whose registration was handled before the client left, and     *)
(* that no other registration replaced, is not running when a cleanup that *)
(* the spawner did not refuse has ended: however often the client          *)
(* registered and whatever handlers are still under way.                   *)
THEOREM RegistrationStopped == Spec => []RegisteredStopped
<1>1. Init => Registration
  <2> SUFFICES ASSUME Init PROVE Registration
    OBVIOUS
  <2>1. \A w \in Workers : spawned[w] = "none"
    BY DEF Init
  <2>2. loop = "reading" /\ left = {}
    BY DEF Init
  <2> QED BY <2>1, <2>2 DEF Registration, RegisteredStopped, Registers
<1>2. IInv /\ Registration /\ [Next]_vars => Registration'
  BY StepKeepsRegistration DEF IInv
<1>3. Registration => RegisteredStopped
  BY DEF Registration
<1> QED BY <1>1, <1>2, <1>3, Invariant, PTL DEF Spec
=============================================================================
