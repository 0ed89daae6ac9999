------------------------ MODULE SessionTraffic_proofs ------------------------
(***************************************************************************)
(* What becomes of the messages of a session: no worker gets one twice,    *)
(* and clients that wait for the right answers are served as shared.go and *)
(* registerViewer.go mean it.                                              *)
(***************************************************************************)
EXTENDS Session_proofs

(* What a sequence holds once it was appended to, and without its head. *)
LEMMA RangeAppend ==
  ASSUME NEW S, NEW q \in Seq(S), NEW e \in S
  PROVE  /\ Range(q) \subseteq S
         /\ Range(Append(q, e)) = Range(q) \cup {e}
         /\ IsInjective(q) /\ e \notin Range(q) => IsInjective(Append(q, e))
<1>1. /\ DOMAIN Append(q, e) = 1..(Len(q) + 1) /\ DOMAIN q = 1..Len(q)
      /\ Append(q, e)[Len(q) + 1] = e
      /\ \A i \in 1..Len(q) : Append(q, e)[i] = q[i]
      /\ Len(q) \in Nat
  BY AppendElements
<1>2. \A i \in 1..(Len(q) + 1) : i = Len(q) + 1 \/ i \in 1..Len(q)
  BY <1>1
<1>3. Len(q) + 1 \in 1..(Len(q) + 1) /\ 1..Len(q) \subseteq 1..(Len(q) + 1)
  BY <1>1
<1> DEFINE n == Len(q) + 1
           a == Append(q, e)
<1>4. /\ DOMAIN a = 1..n /\ DOMAIN q = 1..Len(q) /\ a[n] = e /\ n \in 1..n
      /\ \A i \in 1..Len(q) : a[i] = q[i] /\ i \in 1..n
      /\ \A i \in 1..n : i = n \/ i \in 1..Len(q)
  BY <1>1, <1>2, <1>3
<1>5. Range(q) \subseteq S
  BY DEF Range
<1> HIDE DEF n, a
<1>6. Range(a) = Range(q) \cup {e}
  BY <1>4 DEF Range
<1>7. IsInjective(q) /\ e \notin Range(q) => IsInjective(a)
  BY <1>4 DEF Range, IsInjective
<1> QED BY <1>5, <1>6, <1>7 DEF a

LEMMA RangeTail ==
  ASSUME NEW S, NEW q \in Seq(S), q # <<>>
  PROVE  /\ Head(q) \in S /\ Head(q) \in Range(q)
         /\ Range(q) = Range(Tail(q)) \cup {Head(q)}
         /\ IsInjective(q) => IsInjective(Tail(q)) /\ Head(q) \notin Range(Tail(q))
<1> DEFINE t == Tail(q)
<1>1. /\ \A i \in DOMAIN t : i + 1 \in DOMAIN q /\ t[i] = q[i + 1]
      /\ 1 \in DOMAIN q /\ Head(q) = q[1] /\ Head(q) \in S
  BY TailElements
<1>2. DOMAIN t \subseteq Nat \ {0}
  OBVIOUS
<1>3. \A j \in DOMAIN q : j = 1 \/ (j - 1 \in DOMAIN t /\ t[j - 1] = q[j])
  OBVIOUS
<1> HIDE DEF t
<1>4. Range(t) \subseteq Range(q) /\ Head(q) \in Range(q)
  BY <1>1 DEF Range
<1>5. Range(q) \subseteq Range(t) \cup {Head(q)}
  BY <1>1, <1>3 DEF Range
<1>6. IsInjective(q) => IsInjective(t)
  BY <1>1, <1>2 DEF IsInjective
<1>7. IsInjective(q) => Head(q) \notin Range(t)
  BY <1>1, <1>2 DEF Range, IsInjective
<1> QED BY <1>1, <1>4, <1>5, <1>6, <1>7 DEF t
-----------------------------------------------------------------------------
(* What each step moves from where to where, in terms of what the channels *)
(* and connections hold.                                                   *)
channels == <<queue, wireTo, wireFrom, got, relays, clientQ, answered>>

(* A frame is put into the channel of worker w. *)
PutFrame(w, x) ==
  /\ x \in Frame
  /\ queue' \in [Workers -> Seq(Frame)]
  /\ Range(queue'[w]) = Range(queue[w]) \cup {x}
  /\ \A v \in Workers \ {w} : queue'[v] = queue[v]
  /\ IsInjective(queue[w]) /\ x \notin Range(queue[w]) => IsInjective(queue'[w])
  /\ UNCHANGED <<wireTo, wireFrom, got, clientQ, answered>>

LEMMA PutIsPutFrame ==
  ASSUME TypeInv, NEW w \in Workers, NEW m \in Msgs, NEW event,
         event \in {"REGISTER_VIEWER", "OPEN_FILE", "OTHER"}, Put(w, event, m),
         UNCHANGED <<wireTo, wireFrom, got, clientQ, answered>>
  PROVE  PutFrame(w, [event |-> event, about |-> m])
<1> DEFINE x == [event |-> event, about |-> m]
<1>1. x \in Frame /\ queue \in [Workers -> Seq(Frame)]
  BY DEF Frame, TypeInv, TypeOK
<1> HIDE DEF x
<1>2. queue' = [queue EXCEPT ![w] = Append(@, x)]
  BY DEF Put, x
<1>3. queue'[w] = Append(queue[w], x) /\ \A v \in Workers \ {w} : queue'[v] = queue[v]
  BY <1>1, <1>2
<1>4. queue' \in [Workers -> Seq(Frame)]
  BY <1>1, <1>2, AppendTyped
<1>5. PutFrame(w, x)
  BY <1>1, <1>3, <1>4, RangeAppend DEF PutFrame
<1> QED BY <1>5 DEF x

(* A handler that is not sending leaves all this alone; one that sends     *)
(* puts its message into a channel and is done.                            *)
SendsFrame(m) ==
  \E w \in Workers, event \in {"REGISTER_VIEWER", "OTHER"} :
    /\ PutFrame(w, [event |-> event, about |-> m])
    /\ \/ event = "REGISTER_VIEWER" /\ h[m] = "proxy" /\ w = m
       \/ event = "OTHER" /\ h[m] = "send" /\ Kind(m) = "proxied" /\ w = target[m]
    /\ h' = [h EXCEPT ![m] = "done"]
    /\ UNCHANGED <<relays, target, sessionVars, chan>>

LEMMA HandleMoves ==
  ASSUME TypeInv, NEW m \in Msgs, Handle(m)
  PROVE  SendsFrame(m) \/ UNCHANGED channels
<1> USE DEF clientVars, workerVars, channels
<1>1. CASE ProxyRegister(m)
  <2>1. m \in Workers /\ UNCHANGED <<wireTo, wireFrom, got, clientQ, answered, relays>>
    BY <1>1 DEF ProxyRegister, Sends, Goes, TypeInv, Stages
  <2>2. \/ /\ Put(m, "REGISTER_VIEWER", m) /\ h[m] = "proxy" /\ h' = [h EXCEPT ![m] = "done"]
           /\ UNCHANGED <<target, sessionVars, chan>>
        \/ UNCHANGED queue
    BY <1>1 DEF ProxyRegister, FirstFrame, Sends, Goes
  <2> QED BY <2>1, <2>2, PutIsPutFrame DEF SendsFrame
<1>2. CASE ProxyMessage(m)
  <2>1. /\ target[m] \in Workers /\ Kind(m) = "proxied"
        /\ UNCHANGED <<wireTo, wireFrom, got, clientQ, answered, relays>>
    BY <1>2 DEF ProxyMessage, Sends, Goes, TypeInv, Stages
  <2>2. \/ /\ Put(target[m], "OTHER", m) /\ h[m] = "send" /\ h' = [h EXCEPT ![m] = "done"]
           /\ UNCHANGED <<target, sessionVars, chan>>
        \/ UNCHANGED queue
    BY <1>2 DEF ProxyMessage, Sends, Goes
  <2> QED BY <2>1, <2>2, PutIsPutFrame DEF SendsFrame
<1>3. CASE ~(ProxyRegister(m) \/ ProxyMessage(m))
  BY <1>3 DEF Handle, Check, StartWorker, Refused, Dial, Publish, InitWorker,
     LookAtMap, MakeMap, StoreWorker, RouteMessage, AskStatus
<1> QED BY <1>1, <1>2, <1>3

(* A relay is handed on, to its worker or to the client. *)
RelayMoves(r) ==
  /\ r \in relays /\ r.from \in Workers /\ r.msg \in Answer
  /\ \/ /\ IsFileWorker(r.from) /\ r.msg.event = "ACK"
        /\ PutFrame(r.from, [event |-> "OPEN_FILE", about |-> r.from])
     \/ /\ ~(IsFileWorker(r.from) /\ r.msg.event = "ACK")
        /\ Range(clientQ') = Range(clientQ) \cup {r.msg}
        /\ IsInjective(clientQ) /\ r.msg \notin Range(clientQ) => IsInjective(clientQ')
        /\ UNCHANGED <<queue, wireTo, wireFrom, got, answered>>
  /\ relays' = relays \ {r}
  /\ UNCHANGED h

LEMMA RelayingMoves ==
  ASSUME TypeInv, Relaying
  PROVE  UNCHANGED <<channels, h>> \/ \E r \in relays : RelayMoves(r)
<1> USE DEF clientVars, workerVars, channels
<1>1. PICK r \in relays : RelayToWorker(r) \/ RelayToClient(r)
  BY DEF Relaying
<1>2. r.from \in Workers /\ r.from \in Msgs /\ r.msg \in Answer /\ clientQ \in Seq(Answer)
  BY DEF TypeInv, TypeOK, Relay, Workers
<1>3. CASE RelayToWorker(r)
  <2>1. CASE Put(r.from, "OPEN_FILE", r.from) /\ relays' = relays \ {r}
    BY <1>2, <1>3, <2>1, PutIsPutFrame DEF RelayToWorker, OpensFile, RelayMoves
  <2> QED BY <1>3, <2>1 DEF RelayToWorker
<1>4. CASE RelayToClient(r)
  <2>1. CASE clientQ' = Append(clientQ, r.msg) /\ relays' = relays \ {r}
    <3>1. /\ Range(clientQ') = Range(clientQ) \cup {r.msg}
          /\ IsInjective(clientQ) /\ r.msg \notin Range(clientQ) => IsInjective(clientQ')
      BY <1>2, <2>1, RangeAppend
    <3> QED BY <1>2, <1>4, <2>1, <3>1 DEF RelayToClient, OpensFile, RelayMoves
  <2> QED BY <1>4, <2>1 DEF RelayToClient
<1> QED BY <1>1, <1>3, <1>4

(* The head of a channel goes to the connection, or is lost. *)
WriteMoves(w, x) ==
  /\ x \in Frame /\ Range(queue[w]) = Range(queue'[w]) \cup {x}
  /\ IsInjective(queue[w]) => IsInjective(queue'[w]) /\ x \notin Range(queue'[w])
  /\ Range(wireTo'[w]) \subseteq Range(wireTo[w]) \cup {x}
  /\ IsInjective(wireTo[w]) /\ x \notin Range(wireTo[w]) => IsInjective(wireTo'[w])
  /\ \A v \in Workers \ {w} : queue'[v] = queue[v] /\ wireTo'[v] = wireTo[v]
  /\ UNCHANGED <<h, wireFrom, got, relays, clientQ, answered>>

LEMMA WritingMoves ==
  ASSUME TypeInv, NEW w \in Workers, WriteToWorker(w)
  PROVE  \E x : WriteMoves(w, x)
<1> USE DEF clientVars
<1> DEFINE x == Head(queue[w])
<1>1. /\ queue \in [Workers -> Seq(Frame)] /\ wireTo \in [Workers -> Seq(Frame)]
  BY DEF TypeInv, TypeOK
<1>2. /\ queue[w] # <<>> /\ queue' = [queue EXCEPT ![w] = Tail(@)]
      /\ wireTo' = [wireTo EXCEPT ![w] = Append(@, x)] \/ UNCHANGED wireTo
      /\ UNCHANGED <<h, wireFrom, got, relays, clientQ, answered>>
  BY DEF WriteToWorker
<1>3. /\ x \in Frame /\ Range(queue[w]) = Range(queue'[w]) \cup {x}
      /\ IsInjective(queue[w]) => IsInjective(queue'[w]) /\ x \notin Range(queue'[w])
      /\ \A v \in Workers \ {w} : queue'[v] = queue[v]
  BY <1>1, <1>2, RangeTail
<1> HIDE DEF x
<1>4. /\ Range(wireTo'[w]) \subseteq Range(wireTo[w]) \cup {x}
      /\ IsInjective(wireTo[w]) /\ x \notin Range(wireTo[w]) => IsInjective(wireTo'[w])
      /\ \A v \in Workers \ {w} : wireTo'[v] = wireTo[v]
  <2>1. CASE wireTo' = [wireTo EXCEPT ![w] = Append(@, x)]
    <3>1. wireTo'[w] = Append(wireTo[w], x) /\ wireTo[w] \in Seq(Frame)
      BY <1>1, <2>1
    <3> QED BY <1>1, <1>3, <2>1, <3>1, RangeAppend
  <2>2. CASE UNCHANGED wireTo
    BY <2>2
  <2> QED BY <1>2, <2>1, <2>2
<1> QED BY <1>2, <1>3, <1>4 DEF WriteMoves

(* The next message of a worker is given to a relay. *)
ReadMoves(w, y) ==
  /\ y \in Answer /\ Range(wireFrom[w]) = Range(wireFrom'[w]) \cup {y}
  /\ IsInjective(wireFrom[w]) => IsInjective(wireFrom'[w]) /\ y \notin Range(wireFrom'[w])
  /\ \A v \in Workers \ {w} : wireFrom'[v] = wireFrom[v]
  /\ relays' = relays \cup {[from |-> w, msg |-> y]}
  /\ UNCHANGED <<h, queue, wireTo, got, clientQ, answered>>

LEMMA ReadingMoves ==
  ASSUME TypeInv, NEW w \in Workers, ReadFromWorker(w)
  PROVE  \E y : ReadMoves(w, y)
<1> USE DEF clientVars
<1> DEFINE y == Head(wireFrom[w])
<1>1. wireFrom \in [Workers -> Seq(Answer)]
  BY DEF TypeInv, TypeOK
<1>2. /\ wireFrom[w] # <<>> /\ wireFrom' = [wireFrom EXCEPT ![w] = Tail(@)]
      /\ relays' = relays \cup {[from |-> w, msg |-> y]}
      /\ UNCHANGED <<h, queue, wireTo, got, clientQ, answered>>
  BY DEF ReadFromWorker
<1>3. /\ y \in Answer /\ Range(wireFrom[w]) = Range(wireFrom'[w]) \cup {y}
      /\ IsInjective(wireFrom[w]) => IsInjective(wireFrom'[w]) /\ y \notin Range(wireFrom'[w])
      /\ \A v \in Workers \ {w} : wireFrom'[v] = wireFrom[v]
  BY <1>1, <1>2, RangeTail
<1> QED BY <1>2, <1>3 DEF ReadMoves

(* A worker receives a frame and answers it. *)
ReplyTo(x) ==
  [event |-> IF x.event = "REGISTER_VIEWER" THEN "ACK" ELSE "OTHER", about |-> x.about]

ServeMoves(w, x) ==
  /\ x \in Frame /\ Range(wireTo[w]) = Range(wireTo'[w]) \cup {x}
  /\ IsInjective(wireTo[w]) => IsInjective(wireTo'[w]) /\ x \notin Range(wireTo'[w])
  /\ Range(got'[w]) = Range(got[w]) \cup {x}
  /\ IsInjective(got[w]) /\ x \notin Range(got[w]) => IsInjective(got'[w])
  /\ Range(wireFrom'[w]) = Range(wireFrom[w]) \cup {ReplyTo(x)}
  /\ IsInjective(wireFrom[w]) /\ ReplyTo(x) \notin Range(wireFrom[w])
       => IsInjective(wireFrom'[w])
  /\ \A v \in Workers \ {w} : /\ wireTo'[v] = wireTo[v] /\ got'[v] = got[v]
                              /\ wireFrom'[v] = wireFrom[v]
  /\ UNCHANGED <<h, queue, relays, clientQ, answered>>

LEMMA ServingMoves ==
  ASSUME TypeInv, NEW w \in Workers, ServeFrame(w)
  PROVE  \E x : ServeMoves(w, x)
<1> USE DEF clientVars
<1> DEFINE x == Head(wireTo[w])
<1>1. /\ wireTo \in [Workers -> Seq(Frame)] /\ wireFrom \in [Workers -> Seq(Answer)]
      /\ got \in [Workers -> Seq(Frame)]
  BY DEF TypeInv, TypeOK
<1>2. /\ wireTo[w] # <<>> /\ wireTo' = [wireTo EXCEPT ![w] = Tail(@)]
      /\ got' = [got EXCEPT ![w] = Append(@, x)]
      /\ wireFrom' = [wireFrom EXCEPT ![w] = Append(@, ReplyTo(x))]
      /\ UNCHANGED <<h, queue, relays, clientQ, answered>>
  BY DEF ServeFrame, ReplyTo
<1>3. /\ x \in Frame /\ Range(wireTo[w]) = Range(wireTo'[w]) \cup {x}
      /\ IsInjective(wireTo[w]) => IsInjective(wireTo'[w]) /\ x \notin Range(wireTo'[w])
      /\ \A v \in Workers \ {w} : wireTo'[v] = wireTo[v]
  BY <1>1, <1>2, RangeTail
<1> HIDE DEF x
<1>4. ReplyTo(x) \in Answer
  BY <1>3 DEF ReplyTo, Frame, Answer
<1>5. /\ got'[w] = Append(got[w], x) /\ \A v \in Workers \ {w} : got'[v] = got[v]
      /\ wireFrom'[w] = Append(wireFrom[w], ReplyTo(x))
      /\ \A v \in Workers \ {w} : wireFrom'[v] = wireFrom[v]
      /\ got[w] \in Seq(Frame) /\ wireFrom[w] \in Seq(Answer)
  BY <1>1, <1>2
<1>6. /\ Range(got'[w]) = Range(got[w]) \cup {x}
      /\ IsInjective(got[w]) /\ x \notin Range(got[w]) => IsInjective(got'[w])
  BY <1>3, <1>5, RangeAppend
<1>7. /\ Range(wireFrom'[w]) = Range(wireFrom[w]) \cup {ReplyTo(x)}
      /\ IsInjective(wireFrom[w]) /\ ReplyTo(x) \notin Range(wireFrom[w])
           => IsInjective(wireFrom'[w])
  BY <1>4, <1>5, RangeAppend
<1> QED BY <1>2, <1>3, <1>5, <1>6, <1>7 DEF ServeMoves

(* The client gets the next of the messages for it, or is gone. *)
ReplyMoves(y) ==
  /\ y \in Answer /\ Range(clientQ) = Range(clientQ') \cup {y}
  /\ IsInjective(clientQ) => IsInjective(clientQ') /\ y \notin Range(clientQ')
  /\ answered' \in {answered, answered \cup {y.about}}
  /\ UNCHANGED <<h, queue, wireTo, wireFrom, got, relays>>

LEMMA ReplyingMoves ==
  ASSUME TypeInv, WriteToClient
  PROVE  \E y : ReplyMoves(y)
<1>1. clientQ \in Seq(Answer) /\ clientQ # <<>> /\ clientQ' = Tail(clientQ)
  BY DEF TypeInv, TypeOK, WriteToClient
<1>2. /\ Head(clientQ) \in Answer /\ Range(clientQ) = Range(clientQ') \cup {Head(clientQ)}
      /\ IsInjective(clientQ) => IsInjective(clientQ') /\ Head(clientQ) \notin Range(clientQ')
  BY <1>1, RangeTail
<1>3. /\ answered' \in {answered, answered \cup {Head(clientQ).about}}
      /\ UNCHANGED <<h, queue, wireTo, wireFrom, got, relays>>
  BY DEF WriteToClient, workerVars
<1> QED BY <1>2, <1>3 DEF ReplyMoves

LEMMA StepMoves ==
  ASSUME TypeInv, [Next]_vars
  PROVE  \/ UNCHANGED channels
         \/ \E m \in Msgs : SendsFrame(m)
         \/ \E r \in relays : RelayMoves(r)
         \/ \E w \in Workers : \/ \E x : WriteMoves(w, x)
                               \/ \E y : ReadMoves(w, y)
                               \/ \E x : ServeMoves(w, x)
         \/ \E y : ReplyMoves(y)
<1>1. CASE \E m \in Msgs : Handle(m)
  BY <1>1, HandleMoves
<1>2. CASE Relaying
  BY <1>2, RelayingMoves
<1>3. CASE \E w \in Workers : WriteToWorker(w) \/ ReadFromWorker(w) \/ ServeFrame(w)
  BY <1>3, WritingMoves, ReadingMoves, ServingMoves
<1>4. CASE WriteToClient
  BY <1>4, ReplyingMoves
<1>5. CASE \/ ReadMessage \/ ClientLeaves \/ Disconnect \/ MapFault
           \/ (\E w \in Workers : WorkerExits(w)) \/ UNCHANGED vars
  BY <1>5 DEF ReadMessage, ClientLeaves, Disconnect, CloseClient, CheckInfo,
     CloseConn, CloseSend, Shutdown, MapFault, WorkerExits, workerVars, clientVars,
     channels, vars
<1> QED BY <1>1, <1>2, <1>3, <1>4, <1>5 DEF Next
-----------------------------------------------------------------------------
(* What is said to a worker of itself, and by it of itself.                *)
Own(x, w) == x.event \in {"REGISTER_VIEWER", "OPEN_FILE", "ACK"} => x.about = w

Acks ==
  /\ \A w \in Workers :
       \A x \in Range(queue[w]) \cup Range(wireTo[w]) \cup Range(wireFrom[w])
                \cup Range(got[w]) : Own(x, w)
  /\ \A r \in relays : Own(r.msg, r.from)

LEMMA StepKeepsAcks ==
  ASSUME TypeInv, Acks, [Next]_vars
  PROVE  Acks'
<1>1. CASE UNCHANGED channels
  BY <1>1 DEF channels, Acks
<1>2. ASSUME NEW m \in Msgs, SendsFrame(m)
      PROVE  Acks'
  <2>1. PICK w \in Workers, event \in {"REGISTER_VIEWER", "OTHER"} :
          /\ PutFrame(w, [event |-> event, about |-> m]) /\ UNCHANGED relays
          /\ event = "REGISTER_VIEWER" => w = m
    BY <1>2 DEF SendsFrame
  <2>2. Own([event |-> event, about |-> m], w)
    BY <2>1 DEF Own
  <2> QED BY <2>1, <2>2 DEF PutFrame, Acks
<1>3. ASSUME NEW r \in relays, RelayMoves(r)
      PROVE  Acks'
  <2>1. Own([event |-> "OPEN_FILE", about |-> r.from], r.from)
    BY DEF Own
  <2> QED BY <1>3, <2>1 DEF RelayMoves, PutFrame, Acks
<1>4. ASSUME NEW w \in Workers, NEW x, WriteMoves(w, x)
      PROVE  Acks'
  BY <1>4 DEF WriteMoves, Acks
<1>5. ASSUME NEW w \in Workers, NEW y, ReadMoves(w, y)
      PROVE  Acks'
  <2>1. \A r \in relays' : r \in relays \/ (r.from = w /\ r.msg = y)
    BY <1>5 DEF ReadMoves
  <2> QED BY <1>5, <2>1 DEF ReadMoves, Acks
<1>6. ASSUME NEW w \in Workers, NEW x, ServeMoves(w, x)
      PROVE  Acks'
  <2>1. Own(x, w) /\ Own(ReplyTo(x), w)
    BY <1>6 DEF ServeMoves, Acks, Own, ReplyTo
  <2> QED BY <1>6, <2>1 DEF ServeMoves, Acks
<1>7. ASSUME NEW y, ReplyMoves(y)
      PROVE  Acks'
  BY <1>7 DEF ReplyMoves, Acks
<1> QED BY <1>1, <1>2, <1>3, <1>4, <1>5, <1>6, <1>7, StepMoves

(* A message is under way, or was, once something of it is.                *)
About(S, m) == \E x \in S : x.about = m

Mentioned(m) ==
  \/ \E w \in Workers : About(Range(queue[w]) \cup Range(wireTo[w]) \cup Range(wireFrom[w]), m)
  \/ \E r \in relays : r.msg.about = m
  \/ About(Range(clientQ), m)
  \/ m \in answered

(* It is so by its handler, which is done by then. *)
LEMMA MentionedOnceSent ==
  ASSUME TypeInv, Acks, [Next]_vars, NEW m \in Msgs, Mentioned(m)', ~Mentioned(m)
  PROVE  SendsFrame(m)
<1>1. CASE UNCHANGED channels
  BY <1>1 DEF channels, Mentioned, About
<1>2. ASSUME NEW n \in Msgs, SendsFrame(n)
      PROVE  SendsFrame(m)
  <2>1. PICK w \in Workers, event \in {"REGISTER_VIEWER", "OTHER"} :
          PutFrame(w, [event |-> event, about |-> n]) /\ UNCHANGED relays
    BY <1>2 DEF SendsFrame
  <2>2. CASE n # m
    BY <2>1, <2>2 DEF PutFrame, Mentioned, About
  <2> QED BY <1>2, <2>2
<1>3. ASSUME NEW r \in relays, RelayMoves(r)
      PROVE  FALSE
  <2>1. CASE r.msg.event = "ACK" /\ PutFrame(r.from, [event |-> "OPEN_FILE", about |-> r.from])
    <3>1. r.msg.about = r.from /\ relays' \subseteq relays
      BY <1>3, <2>1 DEF Acks, Own, RelayMoves
    <3>2. m # r.from
      BY <3>1 DEF Mentioned
    <3>3. r.from \in Workers
      BY <1>3 DEF RelayMoves
    <3> QED BY <2>1, <3>1, <3>2, <3>3 DEF PutFrame, Mentioned, About
  <2>2. CASE /\ Range(clientQ') = Range(clientQ) \cup {r.msg}
             /\ UNCHANGED <<queue, wireTo, wireFrom, got, answered>>
    BY <1>3, <2>2 DEF RelayMoves, Mentioned, About
  <2> QED BY <1>3, <2>1, <2>2 DEF RelayMoves
<1>4. ASSUME NEW w \in Workers, NEW x, WriteMoves(w, x)
      PROVE  FALSE
  BY <1>4 DEF WriteMoves, Mentioned, About
<1>5. ASSUME NEW w \in Workers, NEW y, ReadMoves(w, y)
      PROVE  FALSE
  <2>1. \A r \in relays' : r \in relays \/ (r.from = w /\ r.msg = y)
    BY <1>5 DEF ReadMoves
  <2> QED BY <1>5, <2>1 DEF ReadMoves, Mentioned, About
<1>6. ASSUME NEW w \in Workers, NEW x, ServeMoves(w, x)
      PROVE  FALSE
  <2>1. ReplyTo(x).about = x.about
    BY DEF ReplyTo
  <2> QED BY <1>6, <2>1 DEF ServeMoves, Mentioned, About
<1>7. ASSUME NEW y, ReplyMoves(y)
      PROVE  FALSE
  BY <1>7 DEF ReplyMoves, Mentioned, About
<1> QED BY <1>1, <1>2, <1>3, <1>4, <1>5, <1>6, <1>7, StepMoves

-----------------------------------------------------------------------------
(* The loop starts every handler once, and one that is done stays so. *)
Unread == \A m \in Msgs : m > pos => h[m] = "idle"

LEMMA HandlersAdvance ==
  ASSUME TypeInv, Unread, [Next]_vars
  PROVE  /\ Unread'
         /\ \A m \in Msgs : h[m] = "done" => h'[m] = "done" /\ target'[m] = target[m]
<1>1. ASSUME NEW m \in Msgs, Handle(m)
      PROVE  /\ Unread'
             /\ \A n \in Msgs : h[n] = "done" => h'[n] = "done" /\ target'[n] = target[n]
  <2>1. \E from, to : from \notin {"idle", "done"} /\ Goes(m, from, to)
    BY <1>1 DEF Handle, Check, StartWorker, Refused, Dial, Publish, InitWorker,
       LookAtMap, MakeMap, StoreWorker, ProxyRegister, RouteMessage, ProxyMessage,
       AskStatus, Sends
  <2>2. UNCHANGED pos /\ \A n \in Msgs \ {m} : target'[n] = target[n]
    BY <1>1 DEF Handle, Check, StartWorker, Refused, Dial, Publish, InitWorker,
       LookAtMap, MakeMap, StoreWorker, ProxyRegister, RouteMessage, ProxyMessage,
       AskStatus, Sends, loopVars, TypeInv, TypeOK
  <2> QED BY <2>1, <2>2 DEF Goes, Unread, TypeInv, TypeOK
<1>2. CASE ReadMessage
  <2>1. /\ pos' = pos + 1 /\ h' = [h EXCEPT ![pos + 1] = "start"]
        /\ pos \in Nat /\ pos + 1 \in Msgs /\ UNCHANGED target
    BY <1>2, ScriptFacts DEF ReadMessage, TypeInv, TypeOK, Msgs
  <2>2. h[pos + 1] = "idle" /\ \A m \in Msgs : m > pos + 1 => m > pos /\ m # pos + 1
    BY <2>1, ScriptFacts DEF Unread
  <2> QED BY <2>1, <2>2 DEF Unread, TypeInv, TypeOK
<1>3. CASE UNCHANGED <<pos, h, target>>
  BY <1>3 DEF Unread
<1> QED
  BY <1>1, <1>2, <1>3 DEF Next, ClientLeaves, Disconnect, CloseClient, CheckInfo,
     CloseConn, CloseSend, Shutdown, MapFault, WriteToWorker, ReadFromWorker,
     Relaying, RelayToWorker, RelayToClient, WriteToClient, ServeFrame, WorkerExits,
     loopVars, vars
-----------------------------------------------------------------------------
(* Clients that wait.                                                      *)

LEMMA AfterFacts == \A m \in Msgs : After(m) \in Nat
<1> SUFFICES ASSUME NEW m \in Msgs PROVE After(m) \in Nat
  OBVIOUS
<1> DEFINE Records == [kind : {"register", "open", "proxied", "status", "malformed"},
                       file : Files \cup {NoFile}, after : Nat]
<1>1. Script \in Seq(Records)
  BY ScriptAssumption
<1> HIDE DEF Records
<1>2. Script[m] \in Records
  BY <1>1, ElementOfSeq DEF Msgs
<1> QED BY <1>2 DEF Records, After

(* A step is one of a handler, starts one, or leaves them all alone.       *)
LEMMA HandlerSteps ==
  ASSUME TypeInv, [Next]_vars
  PROVE  /\ \/ UNCHANGED <<h, target, shared, made, fileMap>> \/ ReadMessage
            \/ \E m \in Msgs : Handle(m)
         /\ \A w \in Workers : chan[w] # "nil" => chan'[w] # "nil"
         /\ answered \subseteq answered'
<1> USE DEF loopVars, sessionVars, workerVars, clientVars
<1>1. ASSUME NEW m \in Msgs, Handle(m)
      PROVE  /\ \A w \in Workers : chan[w] # "nil" => chan'[w] # "nil"
             /\ answered \subseteq answered'
  <2>1. CASE m \in Workers /\ InitWorker(m)
    BY <2>1 DEF InitWorker, TypeInv, TypeOK
  <2>2. CASE ~(m \in Workers /\ InitWorker(m))
    BY <1>1, <2>2 DEF Handle, Check, StartWorker, Refused, Dial, Publish, LookAtMap,
       MakeMap, StoreWorker, ProxyRegister, RouteMessage, ProxyMessage, AskStatus, Sends
  <2> QED BY <2>1, <2>2
<1>2. CASE CloseSend \/ \E w \in Workers : WorkerExits(w)
  BY <1>2 DEF CloseSend, WorkerExits, ChanAfterExit, TypeInv, TypeOK
<1>3. CASE ~((\E m \in Msgs : Handle(m)) \/ CloseSend \/ \E w \in Workers : WorkerExits(w))
  BY <1>3 DEF Next, ReadMessage, ClientLeaves, Disconnect, CloseClient, CheckInfo,
     CloseConn, Shutdown, MapFault, WriteToWorker, ReadFromWorker, Relaying,
     RelayToWorker, RelayToClient, WriteToClient, ServeFrame, vars
<1> QED BY <1>1, <1>2, <1>3

(* What holds of every client: a message is read when its turn has come,   *)
(* files are stored in the map that was made, and workers that are stored  *)
(* or told something have their channel.                                   *)
Waits == \A m \in Msgs : h[m] # "idle" => After(m) \in answered \cup {None}

Maps ==
  /\ ~made => \A f \in Files : fileMap[f] = None
  /\ \A m \in Msgs : h[m] = "store" => made

Chans ==
  /\ \A m \in Workers : h[m] \in {"look", "make", "store", "proxy"} => chan[m] # "nil"
  /\ \A f \in Files : fileMap[f] # None => chan[fileMap[f]] # "nil"

Sound == Waits /\ Maps /\ Chans

LEMMA StepKeepsSound ==
  ASSUME TypeInv, Sound, [Next]_vars
  PROVE  Sound'
<1> USE ScriptFacts DEF loopVars, sessionVars, workerVars, clientVars, Goes
<1>1. CASE UNCHANGED <<h, target, shared, made, fileMap>>
  <2>1. Waits'
    BY <1>1, HandlerSteps DEF Sound, Waits
  <2>2. Maps'
    BY <1>1 DEF Sound, Maps
  <2>3. \A f \in Files : fileMap[f] \in Workers \cup {None}
    BY DEF TypeInv, TypeOK
  <2>4. Chans'
    BY <1>1, <2>3, HandlerSteps DEF Sound, Chans
  <2> QED BY <2>1, <2>2, <2>4 DEF Sound
<1>2. CASE ReadMessage
  <2>1. /\ pos + 1 \in Msgs /\ After(pos + 1) \in answered \cup {None}
        /\ h' = [h EXCEPT ![pos + 1] = "start"]
        /\ UNCHANGED <<answered, made, fileMap, chan>>
    BY <1>2 DEF ReadMessage, TypeInv, TypeOK, Msgs, None
  <2> QED BY <2>1 DEF Sound, Waits, Maps, Chans, TypeInv, TypeOK
<1>3. ASSUME NEW m \in Msgs, Handle(m)
      PROVE  Sound'
  <2>1. Waits'
    <3>1. \E from, to : from # "idle" /\ Goes(m, from, to)
      BY <1>3 DEF Handle, Check, StartWorker, Refused, Dial, Publish, InitWorker,
         LookAtMap, MakeMap, StoreWorker, ProxyRegister, RouteMessage, ProxyMessage,
         AskStatus, Sends
    <3>2. \A n \in Msgs : h'[n] # "idle" => h[n] # "idle"
      BY <3>1 DEF TypeInv, TypeOK
    <3> QED BY <3>2, HandlerSteps DEF Sound, Waits
  <2>2. CASE LookAtMap(m)
    <3>1. Maps' /\ Chans'
      BY <2>2 DEF LookAtMap, Sound, Maps, Chans, TypeInv, TypeOK
    <3> QED BY <2>1, <3>1 DEF Sound
  <2>3. CASE MakeMap(m)
    <3>1. Maps' /\ Chans'
      BY <2>3 DEF MakeMap, Sound, Maps, Chans, TypeInv, TypeOK
    <3> QED BY <2>1, <3>1 DEF Sound
  <2>4. CASE StoreWorker(m)
    <3>1. m \in Workers /\ File(m) \in Files /\ chan[m] # "nil" /\ made
      BY <2>4 DEF StoreWorker, Sound, Maps, Chans, TypeInv, Stages
    <3>2. Maps' /\ Chans'
      BY <2>4, <3>1 DEF StoreWorker, Sound, Maps, Chans, TypeInv, TypeOK
    <3> QED BY <2>1, <3>2 DEF Sound
  <2>5. CASE m \in Workers /\ InitWorker(m)
    <3>1. chan'[m] = "open" /\ \A w \in Workers : chan[w] # "nil" => chan'[w] # "nil"
      BY <2>5 DEF InitWorker, TypeInv, TypeOK
    <3>2. /\ \A n \in Msgs \ {m} : h'[n] = h[n]
          /\ h'[m] \in {"proxy", "look"} /\ UNCHANGED <<made, fileMap>>
      BY <2>5 DEF InitWorker, TypeInv, TypeOK
    <3>3. Maps'
      BY <3>2 DEF Sound, Maps
    <3>4. Chans'
      <4>1. Workers \subseteq Msgs /\ \A f \in Files : fileMap[f] \in Workers \cup {None}
        BY DEF TypeInv, TypeOK, Workers
      <4>2. ASSUME NEW n \in Workers, h'[n] \in {"look", "make", "store", "proxy"}
            PROVE  chan'[n] # "nil"
        BY <3>1, <3>2, <4>1, <4>2 DEF Sound, Chans
      <4>3. ASSUME NEW f \in Files, fileMap'[f] # None
            PROVE  chan'[fileMap'[f]] # "nil"
        BY <3>1, <3>2, <4>1, <4>3 DEF Sound, Chans
      <4> QED BY <4>2, <4>3 DEF Chans
    <3> QED BY <2>1, <3>3, <3>4 DEF Sound
  <2>6. CASE ~(LookAtMap(m) \/ MakeMap(m) \/ StoreWorker(m) \/ (m \in Workers /\ InitWorker(m)))
    <3>1. /\ UNCHANGED <<made, fileMap, chan>>
          /\ \A n \in Msgs : h'[n] \in {"look", "make", "store", "proxy"} => h'[n] = h[n]
      BY <1>3, <2>6 DEF Handle, Check, StartWorker, Refused, Dial, Publish, ProxyRegister,
         RouteMessage, ProxyMessage, AskStatus, Sends, TypeInv, TypeOK
    <3>2. Maps' /\ Chans'
      BY <3>1 DEF Sound, Maps, Chans, TypeInv, TypeOK
    <3> QED BY <2>1, <3>2 DEF Sound
  <2> QED BY <2>2, <2>3, <2>4, <2>5, <2>6
<1> QED BY <1>1, <1>2, <1>3, HandlerSteps

(* What a client that opens its first file alone can rely on: the map is   *)
(* made once, and a file it may know to be open stays in it.               *)
OneMaker == \A m \in Msgs : h[m] = "make" => ~made

Filed ==
  \A m \in Workers : IsFileWorker(m) /\ (Mentioned(m) \/ h[m] = "proxy") =>
    fileMap[File(m)] # None

Filing == OneMaker /\ Filed /\ RoutedToFile

(* A client knows a file to be open only when its handler was to proxy.    *)
LEMMA FiledBefore ==
  ASSUME TypeInv, Acks, Filed, [Next]_vars,
         NEW n \in Workers, IsFileWorker(n), Mentioned(n)' \/ h[n] = "proxy"
  PROVE  File(n) \in Files /\ fileMap[File(n)] # None
<1>1. Mentioned(n) \/ h[n] = "proxy"
  <2>1. CASE Mentioned(n)' /\ ~Mentioned(n)
    <3>1. SendsFrame(n)
      BY <2>1, ScriptFacts, MentionedOnceSent
    <3> QED BY <3>1, ScriptFacts DEF SendsFrame, IsFileWorker
  <2> QED BY <2>1
<1> QED BY <1>1, ScriptFacts DEF Filed, IsFileWorker

(* What it waited for is in the map when the next message is handled.      *)
LEMMA KnownFiled ==
  ASSUME TypeInv, Sound, Filed,
         NEW m \in Msgs, h[m] # "idle", After(m) \in Workers, IsFileWorker(After(m))
  PROVE  File(After(m)) \in Files /\ fileMap[File(After(m))] # None /\ made
<1>1. After(m) \in answered
  BY ScriptFacts DEF Sound, Waits
<1>2. Mentioned(After(m))
  BY <1>1 DEF Mentioned
<1> QED BY <1>2, ScriptFacts DEF Filed, IsFileWorker, Sound, Maps

LEMMA MakeKeepsFiling ==
  ASSUME OpensOneFirst, TypeInv, Sound, Acks, Filing, [Next]_vars,
         NEW m \in Msgs, MakeMap(m)
  PROVE  Filing'
<1>1. ~made /\ m \in Workers /\ IsFileWorker(m)
  BY DEF MakeMap, Goes, Filing, OneMaker, TypeInv, Stages, IsFileWorker
<1>2. h' = [h EXCEPT ![m] = "store"] /\ UNCHANGED target /\ made' = TRUE
  BY DEF MakeMap, Goes
<1>3. Filed'
  <2>1. \A n \in Workers : h'[n] = "proxy" => h[n] = "proxy"
    BY <1>2, ScriptFacts DEF TypeInv, TypeOK
  <2> QED BY <1>1, <2>1, FiledBefore DEF Filing, Filed, Sound, Maps
<1>4. OneMaker'
  <2> SUFFICES ASSUME NEW n \in Msgs, h'[n] = "make" PROVE FALSE
    BY DEF OneMaker
  <2>1. n # m /\ h[n] = "make" /\ h[m] = "make"
    BY <1>2 DEF MakeMap, Goes, TypeInv, TypeOK
  <2>2. Kind(n) = "open" /\ Kind(m) = "open"
    BY <2>1 DEF TypeInv, Stages
  <2>3. PICK k \in {m, n} : After(k) \in Msgs /\ Kind(After(k)) = "open"
    BY <2>1, <2>2 DEF OpensOneFirst
  <2>4. made
    BY <2>1, <2>3, KnownFiled, ScriptFacts DEF Filing, IsFileWorker
  <2> QED BY <1>1, <2>4
<1>5. RoutedToFile'
  BY <1>2 DEF Filing, RoutedToFile, TypeInv, TypeOK
<1> QED BY <1>3, <1>4, <1>5 DEF Filing

LEMMA StepKeepsFiling ==
  ASSUME OpensOneFirst, TypeInv, Routes, Sound, Acks, Filing, [Next]_vars
  PROVE  Filing'
<1> USE ScriptFacts DEF Goes
<1>1. CASE UNCHANGED <<h, target, shared, made, fileMap>>
  <2>1. Filed'
    BY <1>1, FiledBefore DEF Filing, Filed
  <2> QED BY <1>1, <2>1 DEF Filing, OneMaker, RoutedToFile
<1>2. CASE ReadMessage
  <2>1. h' = [h EXCEPT ![pos + 1] = "start"] /\ UNCHANGED <<target, made, fileMap>>
    BY <1>2 DEF ReadMessage, sessionVars
  <2>2. Filed'
    BY <2>1, FiledBefore DEF Filing, Filed, TypeInv, TypeOK
  <2> QED BY <2>1, <2>2 DEF Filing, OneMaker, RoutedToFile, TypeInv, TypeOK
<1>3. ASSUME NEW m \in Msgs, MakeMap(m)
      PROVE  Filing'
  BY <1>3, MakeKeepsFiling
<1>4. ASSUME NEW m \in Msgs, StoreWorker(m)
      PROVE  Filing'
  <2>1. /\ m \in Workers /\ File(m) \in Files
        /\ h' = [h EXCEPT ![m] = "proxy"] /\ UNCHANGED <<target, made>>
        /\ fileMap' = [fileMap EXCEPT ![File(m)] = m]
    BY <1>4 DEF StoreWorker, TypeInv, Stages
  <2>2. \A n \in Workers : fileMap'[File(m)] # None /\ (h'[n] = "proxy" => n = m \/ h[n] = "proxy")
    BY <2>1 DEF TypeInv, TypeOK
  <2>3. \A f \in Files : fileMap'[f] = fileMap[f] \/ f = File(m)
    BY <2>1 DEF TypeInv, TypeOK
  <2>4. Filed'
    BY <2>1, <2>2, <2>3, FiledBefore DEF Filing, Filed
  <2> QED BY <2>1, <2>4 DEF Filing, OneMaker, RoutedToFile, TypeInv, TypeOK
<1>5. ASSUME NEW m \in Msgs, RouteMessage(m)
      PROVE  Filing'
  <2>1. /\ h[m] = "start"
        /\ target' = [target EXCEPT ![m] = Destination(m)] /\ UNCHANGED <<made, fileMap>>
        /\ \A n \in Msgs \ {m} : h'[n] = h[n]
        /\ h'[m] \in {"done", "send"}
    BY <1>5 DEF RouteMessage, sessionVars, TypeInv, TypeOK
  <2>2. Filed'
    BY <2>1, FiledBefore DEF Filing, Filed
  <2>3. OneMaker'
    BY <2>1 DEF Filing, OneMaker
  <2>4. After(m) \in Workers /\ IsFileWorker(After(m)) /\ File(After(m)) = File(m) =>
          IsFileWorker(Destination(m)) /\ File(Destination(m)) = File(m)
    <3> SUFFICES ASSUME After(m) \in Workers, IsFileWorker(After(m)), File(After(m)) = File(m)
                 PROVE  IsFileWorker(Destination(m)) /\ File(Destination(m)) = File(m)
      OBVIOUS
    <3>1. File(m) \in Files /\ fileMap[File(m)] # None /\ made
      BY <2>1, KnownFiled DEF Filing
    <3> QED BY <3>1, FilesAssumption DEF Destination, Routes
  <2>5. RoutedToFile'
    BY <2>1, <2>4 DEF Filing, RoutedToFile, TypeInv, TypeOK
  <2> QED BY <2>2, <2>3, <2>5 DEF Filing
<1>6. ASSUME NEW m \in Msgs, Handle(m),
             ~(MakeMap(m) \/ StoreWorker(m) \/ RouteMessage(m))
      PROVE  Filing'
  <2>1. UNCHANGED <<target, made, fileMap>>
    BY <1>6 DEF Handle, Check, StartWorker, Refused, Dial, Publish, InitWorker, LookAtMap,
       ProxyRegister, ProxyMessage, AskStatus, Sends, sessionVars
  <2>2. \A n \in Msgs : /\ h'[n] = "send" => h[n] = "send"
                        /\ h'[n] = "make" => h[n] = "make" \/ ~made
                        /\ h'[n] = "proxy" /\ IsFileWorker(n) => h[n] = "proxy"
    <3>1. CASE Check(m) \/ StartWorker(m) \/ Refused(m) \/ Dial(m) \/ Publish(m)
               \/ AskStatus(m)
      <4>1. PICK to \in {"startup", "done", "dial", "publish", "init"} :
              h' = [h EXCEPT ![m] = to]
        BY <3>1 DEF Check, StartWorker, Refused, Dial, Publish, AskStatus
      <4> QED BY <4>1 DEF TypeInv, TypeOK
    <3>2. CASE m \in Workers /\ InitWorker(m)
      BY <3>2 DEF InitWorker, IsFileWorker, TypeInv, TypeOK
    <3>3. CASE LookAtMap(m)
      BY <3>3 DEF LookAtMap, TypeInv, TypeOK
    <3>4. CASE ProxyRegister(m) \/ ProxyMessage(m)
      <4>1. PICK to \in {"done", "stuck", h[m]} : h' = [h EXCEPT ![m] = to]
        BY <3>4 DEF ProxyRegister, ProxyMessage, Sends
      <4> QED BY <4>1 DEF TypeInv, TypeOK
    <3> QED BY <1>6, <3>1, <3>2, <3>3, <3>4 DEF Handle
  <2>3. Filed'
    BY <2>1, <2>2, FiledBefore DEF Filing, Filed
  <2> QED BY <2>1, <2>2, <2>3 DEF Filing, OneMaker, RoutedToFile
<1> QED BY <1>1, <1>2, <1>3, <1>4, <1>5, <1>6, HandlerSteps

(* What a client that registers first can rely on: once it has an answer   *)
(* to a registration, that one and those before it have a channel, and     *)
(* once anything else is under way to a worker, all of them have.          *)
Ready == \A r \in Registers : chan[r] # "nil"
ReadyUpTo(m) == \A r \in Registers : r <= m => chan[r] # "nil"

Meeting ==
  /\ \A m \in Msgs : Mentioned(m) =>
       IF m \in Registers THEN ReadyUpTo(m) ELSE Ready
  /\ \A m \in Msgs : h[m] = "send" => chan[target[m]] # "nil"
  /\ NeverStuck

LEMMA HandledWhenReady ==
  ASSUME AnswersFirst, TypeInv, Sound, Meeting,
         NEW m \in Msgs, Kind(m) \in {"open", "proxied"}, h[m] # "idle"
  PROVE  Ready
<1>1. After(m) \in answered
  BY DEF AnswersFirst, Sound, Waits, None
<1>2. After(m) \in Msgs /\ Mentioned(After(m))
  BY <1>1 DEF Mentioned, TypeInv, TypeOK
<1>3. CASE After(m) \in Registers
  <2>1. \A r \in Registers : r <= After(m)
    BY DEF AnswersFirst
  <2> QED BY <1>2, <1>3, <2>1 DEF Meeting, Ready, ReadyUpTo
<1>4. CASE After(m) \notin Registers
  BY <1>2, <1>4 DEF Meeting
<1> QED BY <1>3, <1>4

(* So does the next registration that is sent to its worker. *)
LEMMA RegisteredInTurn ==
  ASSUME AnswersFirst, TypeInv, Sound, Meeting,
         NEW m \in Registers, h[m] = "proxy"
  PROVE  ReadyUpTo(m)
<1> SUFFICES ASSUME NEW r \in Registers, r <= m PROVE chan[r] # "nil"
  BY DEF ReadyUpTo
<1>1. m \in Workers /\ r \in Workers /\ m \in Msgs /\ r \in Msgs
  BY DEF Registers, Workers
<1>2. CASE r = m
  BY <1>1, <1>2 DEF Sound, Chans
<1>3. CASE r # m
  <2>1. r < m
    BY <1>1, <1>3, ScriptFacts
  <2>2. After(m) \in Registers /\ r <= After(m)
    BY <2>1 DEF AnswersFirst
  <2>3. After(m) \in Msgs
    BY <2>2 DEF Registers, Workers
  <2>4. After(m) \in answered
    BY <1>1, <2>3, ScriptFacts DEF Sound, Waits, None
  <2>5. Mentioned(After(m))
    BY <2>4 DEF Mentioned
  <2> QED BY <2>2, <2>3, <2>5 DEF Meeting, ReadyUpTo
<1> QED BY <1>2, <1>3

LEMMA StepKeepsMeeting ==
  ASSUME AnswersFirst, TypeInv, Routes, Sound, Acks, Meeting, [Next]_vars
  PROVE  Meeting'
<1> USE ScriptFacts DEF Goes
<1>1. ASSUME NEW m \in Msgs, Mentioned(m)'
      PROVE  IF m \in Registers THEN ReadyUpTo(m)' ELSE Ready'
  <2>1. \A r \in Registers : chan[r] # "nil" => chan'[r] # "nil"
    BY HandlerSteps DEF Registers
  <2>2. CASE Mentioned(m)
    BY <2>1, <2>2 DEF Meeting, Ready, ReadyUpTo
  <2>3. CASE ~Mentioned(m)
    <3>1. h[m] = "send" \/ h[m] = "proxy"
      BY <1>1, <2>3, MentionedOnceSent DEF SendsFrame
    <3>2. CASE m \in Registers
      <4>1. h[m] = "proxy"
        BY <3>1, <3>2 DEF TypeInv, Stages, Registers
      <4> QED BY <2>1, <3>2, <4>1, RegisteredInTurn DEF ReadyUpTo
    <3>3. CASE m \notin Registers
      <4>1. Kind(m) \in {"open", "proxied"}
        BY <3>1, <3>3 DEF TypeInv, Stages, Registers, Workers
      <4> QED BY <2>1, <3>1, <3>3, <4>1, HandledWhenReady DEF Ready
    <3> QED BY <3>2, <3>3
  <2> QED BY <2>2, <2>3
<1>2. \A m \in Msgs : h'[m] = "send" => (h[m] = "send" /\ target'[m] = target[m])
                                          \/ RouteMessage(m)
  <2>1. CASE ReadMessage
    BY <2>1 DEF ReadMessage, TypeInv, TypeOK
  <2>2. ASSUME NEW n \in Msgs, Handle(n)
        PROVE  \A m \in Msgs : h'[m] = "send" => (h[m] = "send" /\ target'[m] = target[m])
                                                  \/ RouteMessage(m)
    BY <2>2 DEF Handle, Check, StartWorker, Refused, Dial, Publish, InitWorker, LookAtMap,
       MakeMap, StoreWorker, ProxyRegister, RouteMessage, ProxyMessage, AskStatus, Sends,
       TypeInv, TypeOK
  <2> QED BY <2>1, <2>2, HandlerSteps
<1>3. ASSUME NEW m \in Msgs, h'[m] = "send"
      PROVE  chan'[target'[m]] # "nil"
  <2>1. CASE h[m] = "send" /\ target'[m] = target[m]
    BY <2>1, HandlerSteps DEF Meeting, TypeInv, Stages
  <2>2. CASE RouteMessage(m)
    <3>1. target'[m] = Destination(m) /\ Destination(m) # None /\ Kind(m) = "proxied"
          /\ h[m] = "start"
      BY <1>3, <2>2 DEF RouteMessage, TypeInv, TypeOK
    <3>2. Destination(m) \in Workers
      BY <3>1 DEF Destination, TypeInv, TypeOK
    <3>3. Ready
      BY <3>1, HandledWhenReady
    <3>4. chan[Destination(m)] # "nil"
      BY <3>1, <3>2, <3>3 DEF Destination, Routes, Ready, Registers, Sound, Chans
    <3> QED BY <3>1, <3>2, <3>4, HandlerSteps
  <2> QED BY <1>2, <1>3, <2>1, <2>2
<1>4. NeverStuck'
  <2> SUFFICES ASSUME NEW m \in Msgs, h'[m] = "stuck", h[m] # "stuck" PROVE FALSE
    BY DEF Meeting, NeverStuck
  <2>1. (ProxyRegister(m) /\ chan[m] = "nil") \/ (ProxyMessage(m) /\ chan[target[m]] = "nil")
    <3>1. CASE ReadMessage
      BY <3>1 DEF ReadMessage, TypeInv, TypeOK
    <3>2. ASSUME NEW n \in Msgs, Handle(n)
          PROVE  (ProxyRegister(m) /\ chan[m] = "nil") \/ (ProxyMessage(m) /\ chan[target[m]] = "nil")
      <4>1. CASE ProxyRegister(n)
        <5>1. n = m
          BY <4>1 DEF ProxyRegister, Sends, TypeInv, TypeOK
        <5>2. chan[n] = "nil"
          BY <4>1, <5>1 DEF ProxyRegister, Sends, TypeInv, TypeOK
        <5> QED BY <4>1, <5>1, <5>2
      <4>2. CASE ProxyMessage(n)
        <5>1. n = m
          BY <4>2 DEF ProxyMessage, Sends, TypeInv, TypeOK
        <5>2. chan[target[n]] = "nil"
          BY <4>2, <5>1 DEF ProxyMessage, Sends, TypeInv, TypeOK
        <5> QED BY <4>2, <5>1, <5>2
      <4>3. CASE ~(ProxyRegister(n) \/ ProxyMessage(n))
        BY <3>2, <4>3 DEF Handle, Check, StartWorker, Refused, Dial, Publish, InitWorker,
           LookAtMap, MakeMap, StoreWorker, RouteMessage, AskStatus, TypeInv, TypeOK
      <4> QED BY <4>1, <4>2, <4>3
    <3> QED BY <3>1, <3>2, HandlerSteps
  <2>2. CASE ProxyRegister(m) /\ chan[m] = "nil"
    BY <2>2 DEF ProxyRegister, Sends, Sound, Chans, TypeInv, Stages
  <2>3. CASE ProxyMessage(m) /\ chan[target[m]] = "nil"
    BY <2>3 DEF ProxyMessage, Sends, Meeting
  <2> QED BY <2>1, <2>2, <2>3
<1> QED BY <1>1, <1>3, <1>4 DEF Meeting

-----------------------------------------------------------------------------
(* At first nothing is said. *)
LEMMA SilentAtStart == Init => Acks /\ \A m \in Msgs : ~Mentioned(m)
<1> SUFFICES ASSUME Init PROVE Acks /\ \A m \in Msgs : ~Mentioned(m)
  OBVIOUS
<1> DEFINE nothing == << >>
<1>1. Range(nothing) = {} /\ relays = {} /\ clientQ = nothing /\ answered = {}
  BY DEF Init, Range
<1>2. \A w \in Workers : /\ queue[w] = nothing /\ wireTo[w] = nothing
                         /\ wireFrom[w] = nothing /\ got[w] = nothing
  BY DEF Init
<1> HIDE DEF nothing
<1> QED BY <1>1, <1>2 DEF Acks, Mentioned, About

LEMMA TrafficSound == Spec => [](Acks /\ Unread /\ Sound)
<1>1. Init => Acks /\ Unread /\ Sound
  BY SilentAtStart, ScriptFacts DEF Init, Unread, Sound, Waits, Maps, Chans
<1>2. IInv /\ Acks /\ Unread /\ Sound /\ [Next]_vars => (Acks /\ Unread /\ Sound)'
  BY StepKeepsAcks, HandlersAdvance, StepKeepsSound DEF IInv
<1> QED BY <1>1, <1>2, Invariant, PTL DEF Spec

(* A message about a file that its client knows to be open goes to a       *)
(* worker of that file, for every client that opens its first file before  *)
(* it opens others: the map of files is then made only once.  A client     *)
(* that opens its first two files at the same time may lose one of them.   *)
THEOREM RoutedWhenKnown ==
  ASSUME OpensOneFirst
  PROVE  Spec => []RoutedToFile
<1>1. Init => Filing
  BY SilentAtStart, ScriptFacts DEF Init, Filing, OneMaker, Filed, RoutedToFile
<1>2. IInv /\ Acks /\ Unread /\ Sound /\ Filing /\ [Next]_vars => Filing'
  BY OpensOneFirst, StepKeepsFiling DEF IInv
<1>3. Filing => RoutedToFile
  BY DEF Filing
<1> QED BY <1>1, <1>2, <1>3, Invariant, TrafficSound, PTL DEF Spec

(* No handler waits for ever on a channel that did not exist yet, for      *)
(* every client that registers first, however often, each time after the   *)
(* answer to the time before, and opens files and sends to a worker after  *)
(* the last of these answers.  A client that does not wait, or registers   *)
(* again later, may meet the worker of its registration without a channel. *)
THEOREM NoneStuck ==
  ASSUME AnswersFirst
  PROVE  Spec => []NeverStuck
<1>1. Init => Meeting
  BY SilentAtStart, ScriptFacts DEF Init, Meeting, NeverStuck
<1>2. IInv /\ Acks /\ Unread /\ Sound /\ Meeting /\ [Next]_vars => Meeting'
  BY AnswersFirst, StepKeepsMeeting DEF IInv
<1>3. Meeting => NeverStuck
  BY DEF Meeting
<1> QED BY <1>1, <1>2, <1>3, Invariant, TrafficSound, PTL DEF Spec

-----------------------------------------------------------------------------
(* Nothing twice.  A frame for a worker is in one place, an answer of it   *)
(* in one of the connection, a relay and what the client was given.        *)
Frames(w) == Range(queue[w]) \cup Range(wireTo[w]) \cup Range(got[w])

Apart(w) ==
  /\ IsInjective(queue[w]) /\ IsInjective(wireTo[w]) /\ IsInjective(got[w])
  /\ Range(queue[w]) \cap Range(wireTo[w]) = {}
  /\ Range(queue[w]) \cap Range(got[w]) = {}
  /\ Range(wireTo[w]) \cap Range(got[w]) = {}

Ask(w) == [event |-> "REGISTER_VIEWER", about |-> w]
Ack(w) == [event |-> "ACK", about |-> w]
By(w, y) == [from |-> w, msg |-> y]

(* Answer y of worker w is still to be passed on. *)
Due(y, w) == y \in Range(wireFrom[w]) \/ By(w, y) \in relays

(* Why worker w may be sent frame x, and why not a second time: its        *)
(* handler is done, or the acknowledgement has been passed on.             *)
Fitting(x, w) ==
  \/ x = Ask(w) /\ h[w] = "done"
  \/ /\ x = [event |-> "OPEN_FILE", about |-> w] /\ IsFileWorker(w)
     /\ Ask(w) \in Range(got[w]) /\ ~Due(Ack(w), w)
  \/ /\ x.event = "OTHER" /\ Kind(x.about) = "proxied"
     /\ h[x.about] = "done" /\ target[x.about] = w

Serving(w) ==
  /\ \A x \in Frames(w) : x \in Frame /\ Fitting(x, w)
  /\ \A y : Due(y, w) => \E x \in Range(got[w]) : y = ReplyTo(x)
  /\ IsInjective(wireFrom[w])
  /\ \A y \in Range(wireFrom[w]) : By(w, y) \notin relays

(* Answer y was given to the client. *)
Given(y) ==
  \E w \in Workers : \E x \in Range(got[w]) :
    y = ReplyTo(x) /\ ~Due(y, w) /\ ~(IsFileWorker(w) /\ y.event = "ACK")

Receipts ==
  /\ \A y \in Range(clientQ) : Given(y)
  /\ IsInjective(clientQ)
  /\ \A m \in answered : \E y : y.about = m /\ Given(y) /\ y \notin Range(clientQ)

Once == (\A w \in Workers : Apart(w) /\ Serving(w)) /\ Receipts

(* A reply tells the frame it is for, and the worker. *)
LEMMA ReplyTells ==
  ASSUME NEW w \in Workers, NEW v \in Workers, NEW x \in Frame, NEW z \in Frame,
         Fitting(x, w), Fitting(z, v), ReplyTo(x) = ReplyTo(z)
  PROVE  x = z /\ w = v
<1>1. /\ x.about = z.about
      /\ x.event = "REGISTER_VIEWER" <=> z.event = "REGISTER_VIEWER"
      /\ Kind(w) # "proxied" /\ Kind(v) # "proxied"
      /\ x = [event |-> x.event, about |-> x.about]
      /\ z = [event |-> z.event, about |-> z.about]
  BY DEF ReplyTo, Workers, Frame
<1> QED BY <1>1 DEF Fitting, Ask

(* What was given of one message was given once. *)
LEMMA GivenTells ==
  ASSUME Once, NEW y, NEW z, Given(y), Given(z), y.about = z.about
  PROVE  y = z
<1>1. PICK w \in Workers : \E x \in Range(got[w]) :
        y = ReplyTo(x) /\ ~(IsFileWorker(w) /\ y.event = "ACK")
  BY DEF Given
<1>2. PICK x \in Range(got[w]) : y = ReplyTo(x)
  BY <1>1
<1>3. PICK v \in Workers : \E u \in Range(got[v]) :
        z = ReplyTo(u) /\ ~(IsFileWorker(v) /\ z.event = "ACK")
  BY DEF Given
<1>4. PICK u \in Range(got[v]) : z = ReplyTo(u)
  BY <1>3
<1>5. Fitting(x, w) /\ Fitting(u, v)
  BY <1>2, <1>4 DEF Once, Serving, Frames
<1>6. /\ y.about = x.about /\ z.about = u.about
      /\ y.event = IF x.event = "REGISTER_VIEWER" THEN "ACK" ELSE "OTHER"
      /\ z.event = IF u.event = "REGISTER_VIEWER" THEN "ACK" ELSE "OTHER"
  BY <1>2, <1>4 DEF ReplyTo
<1>7. x.event = "REGISTER_VIEWER" <=> u.event = "REGISTER_VIEWER"
  <2>1. Kind(w) # "proxied" /\ Kind(v) # "proxied"
    BY DEF Workers
  <2> QED BY <1>1, <1>3, <1>5, <1>6, <2>1 DEF Fitting, Ask, IsFileWorker
<1> QED BY <1>2, <1>4, <1>6, <1>7 DEF ReplyTo

(* What is due was not given. *)
LEMMA DueNotGiven ==
  ASSUME Once, NEW w \in Workers, NEW y, Due(y, w)
  PROVE  ~Given(y)
<1> SUFFICES ASSUME Given(y) PROVE FALSE
  OBVIOUS
<1>1. PICK x \in Range(got[w]) : y = ReplyTo(x)
  BY DEF Once, Serving
<1>2. PICK v \in Workers : \E z \in Range(got[v]) : y = ReplyTo(z) /\ ~Due(y, v)
  BY DEF Given
<1>3. PICK z \in Range(got[v]) : y = ReplyTo(z) /\ ~Due(y, v)
  BY <1>2
<1>4. x \in Frame /\ z \in Frame /\ Fitting(x, w) /\ Fitting(z, v)
  BY <1>1, <1>3 DEF Once, Serving, Frames
<1>5. w = v
  BY <1>1, <1>3, <1>4, ReplyTells
<1> QED BY <1>3, <1>5
(* A frame that is not there yet and fits can be put into a channel.       *)
LEMMA PutKeepsOnce ==
  ASSUME Once, NEW w \in Workers, NEW x, x \notin Frames(w), PutFrame(w, x),
         relays' \subseteq relays,
         Fitting(x, w)',
         \A v \in Workers : \A z : z \in Frames(v) /\ Fitting(z, v) => Fitting(z, v)',
         \A v \in Workers : \A y : Given(y) => Given(y)'
  PROVE  Once'
<1>1. ASSUME NEW v \in Workers
      PROVE  Apart(v)'
  BY DEF PutFrame, Once, Apart, Frames
<1>2. ASSUME NEW v \in Workers
      PROVE  Serving(v)'
  <2>1. \A z \in Frames(v)' : z \in Frames(v) \/ (z = x /\ v = w)
    BY DEF PutFrame, Frames
  <2>2. \A z \in Frames(v)' : z \in Frame /\ Fitting(z, v)'
    BY <2>1 DEF Once, Serving, PutFrame
  <2>3. \A y : Due(y, v)' => Due(y, v)
    BY DEF PutFrame, Due
  <2> QED BY <2>2, <2>3 DEF PutFrame, Once, Serving
<1>3. Receipts'
  BY DEF PutFrame, Once, Receipts
<1> QED BY <1>1, <1>2, <1>3 DEF Once

LEMMA SendKeepsOnce ==
  ASSUME TypeInv, Once, NEW m \in Msgs, SendsFrame(m)
  PROVE  Once'
<1>1. PICK w \in Workers, event \in {"REGISTER_VIEWER", "OTHER"} :
        /\ PutFrame(w, [event |-> event, about |-> m])
        /\ \/ event = "REGISTER_VIEWER" /\ h[m] = "proxy" /\ w = m
           \/ event = "OTHER" /\ h[m] = "send" /\ Kind(m) = "proxied" /\ w = target[m]
        /\ h' = [h EXCEPT ![m] = "done"]
        /\ UNCHANGED <<relays, target, sessionVars, chan>>
  BY DEF SendsFrame
<1> DEFINE x == [event |-> event, about |-> m]
<1>2. h'[m] = "done" /\ \A n \in Msgs : h[n] = "done" => h'[n] = "done"
  BY <1>1 DEF TypeInv, TypeOK
<1>3. x \notin Frames(w)
  <2> SUFFICES ASSUME x \in Frames(w) PROVE FALSE
    OBVIOUS
  <2>1. Fitting(x, w)
    BY DEF Once, Serving
  <2> QED BY <1>1, <2>1 DEF Fitting, Ask
<1>4. Fitting(x, w)'
  BY <1>1, <1>2 DEF Fitting, Ask
<1> HIDE DEF x
<1>5. UNCHANGED <<wireFrom, got, relays, target>>
  BY <1>1 DEF PutFrame
<1>6. \A v \in Workers : \A z : z \in Frames(v) /\ Fitting(z, v) => Fitting(z, v)'
  <2> SUFFICES ASSUME NEW v \in Workers, NEW z \in Frames(v), Fitting(z, v)
               PROVE  Fitting(z, v)'
    OBVIOUS
  <2>1. z \in Frame /\ v \in Msgs
    BY DEF Once, Serving, Workers
  <2>2. z.about \in Msgs
    BY <2>1 DEF Frame
  <2> QED BY <1>2, <1>5, <2>1, <2>2 DEF Fitting, Due
<1>7. \A v \in Workers : \A y : Given(y) => Given(y)'
  BY <1>5 DEF Given, Due
<1> QED BY <1>1, <1>3, <1>4, <1>5, <1>6, <1>7, PutKeepsOnce DEF x

LEMMA RelayKeepsOnce ==
  ASSUME Once, Acks, NEW r \in relays, RelayMoves(r), UNCHANGED target,
         r = [from |-> r.from, msg |-> r.msg]
  PROVE  Once'
<1> DEFINE w == r.from
           y == r.msg
<1>1. w \in Workers /\ r = By(w, y) /\ Due(y, w) /\ y \in Answer
      /\ relays' = relays \ {By(w, y)} /\ UNCHANGED <<h, wireFrom, got>>
      /\ y \notin Range(wireFrom[w])
  BY DEF RelayMoves, PutFrame, Due, By, Once, Serving
<1>2. /\ ~Due(y, w)'
      /\ \A z, v : Due(z, v)' => Due(z, v)
  BY <1>1 DEF Due
<1>3. \A v \in Workers : \A z : Fitting(z, v) => Fitting(z, v)'
  BY <1>1, <1>2 DEF Fitting
<1>4. \A z : Given(z) => Given(z)'
  BY <1>1, <1>2 DEF Given
<1>5. PICK x \in Range(got[w]) : y = ReplyTo(x)
  BY <1>1 DEF Once, Serving
<1>6. CASE /\ IsFileWorker(w) /\ y.event = "ACK"
           /\ PutFrame(w, [event |-> "OPEN_FILE", about |-> w])
  <2> DEFINE o == [event |-> "OPEN_FILE", about |-> w]
  <2>1. y = Ack(w)
    BY <1>1, <1>6 DEF Acks, Own, Ack, Answer
  <2>2. x = Ask(w)
    <3>1. x \in Frame /\ Fitting(x, w)
      BY <1>1, <1>5 DEF Once, Serving, Frames
    <3> QED BY <1>5, <2>1, <3>1 DEF Fitting, ReplyTo, Ack
  <2>3. o \notin Frames(w)
    <3> SUFFICES ASSUME o \in Frames(w) PROVE FALSE
      OBVIOUS
    <3>1. Fitting(o, w)
      BY <1>1 DEF Once, Serving
    <3> QED BY <1>1, <2>1, <3>1 DEF Fitting, Ask
  <2>4. Fitting(o, w)'
    BY <1>1, <1>2, <1>5, <1>6, <2>1, <2>2 DEF Fitting
  <2> HIDE DEF o
  <2>5. PutFrame(w, o)
    BY <1>6 DEF o
  <2> QED BY <1>1, <1>3, <1>4, <2>3, <2>4, <2>5, PutKeepsOnce
<1>7. CASE /\ ~(IsFileWorker(w) /\ y.event = "ACK")
           /\ Range(clientQ') = Range(clientQ) \cup {y}
           /\ IsInjective(clientQ) /\ y \notin Range(clientQ) => IsInjective(clientQ')
           /\ UNCHANGED <<queue, wireTo, wireFrom, got, answered>>
  <2>1. ~Given(y)
    BY <1>1, DueNotGiven
  <2>2. Given(y)'
    BY <1>1, <1>2, <1>5, <1>7 DEF Given
  <2> HIDE DEF w, y
  <2>3. Receipts'
    BY <1>4, <1>7, <2>1, <2>2 DEF Once, Receipts
  <2>4. ASSUME NEW v \in Workers
        PROVE  Apart(v)' /\ Serving(v)'
    BY <1>1, <1>2, <1>3, <1>7 DEF Once, Apart, Serving, Frames
  <2> QED BY <2>3, <2>4 DEF Once
<1> QED BY <1>6, <1>7 DEF RelayMoves

LEMMA WriteKeepsOnce ==
  ASSUME Once, NEW w \in Workers, NEW x, WriteMoves(w, x), UNCHANGED target
  PROVE  Once'
<1>1. UNCHANGED <<h, wireFrom, got, relays, clientQ, answered>>
      /\ \A v \in Workers : Frames(v)' \subseteq Frames(v)
  BY DEF WriteMoves, Frames
<1>2. \A v \in Workers : \A z : Fitting(z, v) => Fitting(z, v)'
  BY <1>1 DEF Fitting, Due
<1>3. \A v \in Workers : Serving(v)'
  BY <1>1, <1>2 DEF Once, Serving, Due
<1>4. Receipts'
  BY <1>1 DEF Once, Receipts, Given, Due
<1>5. \A v \in Workers : Apart(v)'
  <2>1. Apart(w)'
    BY DEF WriteMoves, Once, Apart
  <2>2. \A v \in Workers \ {w} : Apart(v)'
    BY DEF WriteMoves, Once, Apart
  <2> QED BY <2>1, <2>2
<1> QED BY <1>3, <1>4, <1>5 DEF Once

LEMMA ReadKeepsOnce ==
  ASSUME Once, NEW w \in Workers, NEW y, ReadMoves(w, y), UNCHANGED target
  PROVE  Once'
<1>1. UNCHANGED <<h, queue, wireTo, got, clientQ, answered>>
      /\ \A v \in Workers : Frames(v)' = Frames(v) /\ (Apart(v) => Apart(v)')
      /\ relays' = relays \cup {By(w, y)}
  BY DEF ReadMoves, Frames, Apart, By
<1>2. \A v, z : By(v, z) = By(w, y) => v = w /\ z = y
  BY DEF By
<1>3. \A v \in Workers : \A z : Due(z, v)' <=> Due(z, v)
  <2> SUFFICES ASSUME NEW v \in Workers, NEW z PROVE Due(z, v)' <=> Due(z, v)
    OBVIOUS
  <2>1. CASE v = w
    <3>1. Range(wireFrom[w]) = Range(wireFrom'[w]) \cup {y}
      BY DEF ReadMoves
    <3>2. By(w, z) \in relays' <=> By(w, z) \in relays \/ z = y
      BY <1>1, <1>2
    <3> QED BY <2>1, <3>1, <3>2 DEF Due
  <2>2. CASE v # w
    <3>1. wireFrom'[v] = wireFrom[v]
      BY <2>2 DEF ReadMoves
    <3>2. By(v, z) \in relays' <=> By(v, z) \in relays
      BY <1>1, <1>2, <2>2
    <3> QED BY <3>1, <3>2 DEF Due
  <2> QED BY <2>1, <2>2
<1>4. \A v \in Workers : \A z : Fitting(z, v) => Fitting(z, v)'
  BY <1>1, <1>3 DEF Fitting
<1>5. \A v \in Workers : Serving(v)'
  <2>1. Serving(w)'
    BY <1>1, <1>2, <1>3, <1>4 DEF Once, Serving, ReadMoves
  <2>2. \A v \in Workers \ {w} : Serving(v)'
    BY <1>1, <1>2, <1>3, <1>4 DEF Once, Serving, ReadMoves
  <2> QED BY <2>1, <2>2
<1>6. Receipts'
  BY <1>1, <1>3 DEF Once, Receipts, Given
<1> QED BY <1>1, <1>5, <1>6 DEF Once
LEMMA ServeKeepsOnce ==
  ASSUME Once, NEW w \in Workers, NEW x, ServeMoves(w, x), UNCHANGED target
  PROVE  Once'
<1>1. /\ x \in Range(wireTo[w]) /\ x \in Frame /\ Fitting(x, w)
      /\ x \notin Range(got[w]) /\ x \notin Range(queue[w])
  BY DEF ServeMoves, Once, Apart, Serving, Frames
<1>2. ~Due(ReplyTo(x), w)
  <2> SUFFICES ASSUME Due(ReplyTo(x), w) PROVE FALSE
    OBVIOUS
  <2>1. PICK z \in Range(got[w]) : ReplyTo(x) = ReplyTo(z)
    BY DEF Once, Serving
  <2>2. z \in Frame /\ Fitting(z, w)
    BY DEF Once, Serving, Frames
  <2> QED BY <1>1, <2>1, <2>2, ReplyTells
<1>3. UNCHANGED <<h, queue, relays, clientQ, answered, target>>
      /\ \A v \in Workers : Frames(v)' = Frames(v) /\ Range(got[v]) \subseteq Range(got'[v])
  BY DEF ServeMoves, Frames
<1>4. \A v \in Workers : \A y : Due(y, v)' <=> Due(y, v) \/ (v = w /\ y = ReplyTo(x))
  BY DEF ServeMoves, Due
<1>5. ASSUME NEW v \in Workers, NEW z \in Frames(v)
      PROVE  Fitting(z, v)'
  <2>1. Fitting(z, v)
    BY DEF Once, Serving
  <2>2. CASE /\ z = [event |-> "OPEN_FILE", about |-> v] /\ IsFileWorker(v)
             /\ Ask(v) \in Range(got[v]) /\ ~Due(Ack(v), v)
    <3>1. ~(v = w /\ Ack(v) = ReplyTo(x))
      <4> SUFFICES ASSUME v = w, Ack(v) = ReplyTo(x) PROVE FALSE
        OBVIOUS
      <4>1. x = Ask(w)
        BY <1>1 DEF Fitting, ReplyTo, Ack, Ask
      <4> QED BY <1>1, <2>2, <4>1
    <3> QED BY <1>3, <1>4, <2>2, <3>1 DEF Fitting
  <2> QED BY <1>3, <2>1, <2>2 DEF Fitting
<1>6. ASSUME NEW v \in Workers
      PROVE  Serving(v)'
  <2>1. \A z \in Frames(v)' : z \in Frame /\ Fitting(z, v)'
    BY <1>3, <1>5 DEF Once, Serving
  <2>2. \A y : Due(y, v)' => \E z \in Range(got'[v]) : y = ReplyTo(z)
    <3>1. x \in Range(got'[w])
      BY DEF ServeMoves
    <3> QED BY <1>3, <1>4, <3>1 DEF Once, Serving
  <2>3. IsInjective(wireFrom'[v]) /\ \A y \in Range(wireFrom'[v]) : By(v, y) \notin relays'
    <3>1. CASE v = w
      BY <1>2, <1>3, <3>1 DEF ServeMoves, Once, Serving, Due
    <3>2. CASE v # w
      BY <1>3, <3>2 DEF ServeMoves, Once, Serving
    <3> QED BY <3>1, <3>2
  <2> QED BY <2>1, <2>2, <2>3 DEF Serving
<1>7. ASSUME NEW y, Given(y)
      PROVE  Given(y)'
  <2>1. PICK v \in Workers : \E z \in Range(got[v]) :
          y = ReplyTo(z) /\ ~Due(y, v) /\ ~(IsFileWorker(v) /\ y.event = "ACK")
    BY <1>7 DEF Given
  <2>2. PICK z \in Range(got[v]) :
          y = ReplyTo(z) /\ ~Due(y, v) /\ ~(IsFileWorker(v) /\ y.event = "ACK")
    BY <2>1
  <2>3. ~(v = w /\ y = ReplyTo(x))
    <3> SUFFICES ASSUME v = w, y = ReplyTo(x) PROVE FALSE
      OBVIOUS
    <3>1. z \in Frame /\ Fitting(z, w)
      BY DEF Once, Serving, Frames
    <3>2. z = x
      BY <1>1, <2>2, <3>1, ReplyTells
    <3> QED BY <1>1, <3>2
  <2>4. ~Due(y, v)' /\ z \in Range(got'[v])
    BY <1>3, <1>4, <2>2, <2>3
  <2> QED BY <2>2, <2>4 DEF Given
<1>8. Receipts'
  BY <1>3, <1>7 DEF Once, Receipts
<1>9. ASSUME NEW v \in Workers
      PROVE  Apart(v)'
  <2>1. CASE v = w
    BY <1>1, <1>3, <2>1 DEF ServeMoves, Once, Apart
  <2>2. CASE v # w
    BY <1>3, <2>2 DEF ServeMoves, Once, Apart
  <2> QED BY <2>1, <2>2
<1> QED BY <1>6, <1>8, <1>9 DEF Once

LEMMA ReplyKeepsOnce ==
  ASSUME Once, NEW y, ReplyMoves(y), UNCHANGED target
  PROVE  Once'
<1>1. UNCHANGED <<h, queue, wireTo, wireFrom, got, relays, target>>
  BY DEF ReplyMoves
<1>2. \A v \in Workers : Apart(v)' /\ Serving(v)'
  BY <1>1 DEF Once, Apart, Serving, Frames, Fitting, Due
<1>3. \A z : Given(z)' <=> Given(z)
  BY <1>1 DEF Given, Due
<1>4. Given(y)
  BY DEF ReplyMoves, Once, Receipts
<1>5. Receipts'
  BY <1>3, <1>4 DEF ReplyMoves, Once, Receipts
<1> QED BY <1>2, <1>5 DEF Once

LEMMA StepKeepsOnce ==
  ASSUME TypeInv, Unread, Acks, Once, [Next]_vars
  PROVE  Once'
<1>1. CASE UNCHANGED channels
  <2>1. ASSUME NEW v \in Workers, NEW z \in Frame, Fitting(z, v)
        PROVE  Fitting(z, v)'
    <3>1. z.about \in Msgs /\ v \in Msgs
      BY DEF Frame, Workers
    <3> QED BY <1>1, <2>1, <3>1, HandlersAdvance DEF channels, Fitting, Due
  <2>2. \A v \in Workers : Apart(v)' /\ Serving(v)'
    BY <1>1, <2>1 DEF channels, Once, Apart, Serving, Frames, Due
  <2>3. Receipts'
    BY <1>1 DEF channels, Once, Receipts, Given, Due
  <2> QED BY <2>2, <2>3 DEF Once
<1>2. ASSUME NEW m \in Msgs, SendsFrame(m)
      PROVE  Once'
  BY <1>2, SendKeepsOnce
<1>3. CASE ~((\E m \in Msgs : SendsFrame(m)) \/ UNCHANGED channels)
  <2>1. UNCHANGED target
    <3>1. CASE ReadMessage
      BY <3>1 DEF ReadMessage
    <3>2. CASE \E m \in Msgs : Handle(m)
      BY <1>3, <3>2, HandleMoves
    <3>3. CASE ~(ReadMessage \/ \E m \in Msgs : Handle(m))
      BY <3>3, HandlerSteps
    <3> QED BY <3>1, <3>2, <3>3
  <2>2. \A r \in relays : r = [from |-> r.from, msg |-> r.msg]
    BY DEF TypeInv, TypeOK, Relay
  <2> QED BY <1>3, <2>1, <2>2, StepMoves, RelayKeepsOnce, WriteKeepsOnce, ReadKeepsOnce,
             ServeKeepsOnce, ReplyKeepsOnce
<1> QED BY <1>1, <1>2, <1>3

(* Whatever goroutines pass messages on, a worker receives no frame twice   *)
(* and the client no answer: two relays are never one element of relays.   *)
THEOREM NothingTwice == Spec => [](AtMostOnce /\ AnsweredOnce)
<1>1. Init => Once
  <2> SUFFICES ASSUME Init PROVE Once
    OBVIOUS
  <2> DEFINE nothing == << >>
  <2>1. /\ Range(nothing) = {} /\ IsInjective(nothing)
        /\ relays = {} /\ clientQ = nothing /\ answered = {}
    BY DEF Init, Range, IsInjective
  <2>2. \A w \in Workers : /\ queue[w] = nothing /\ wireTo[w] = nothing
                           /\ wireFrom[w] = nothing /\ got[w] = nothing
    BY DEF Init
  <2> HIDE DEF nothing
  <2>3. \A w \in Workers : Apart(w) /\ Serving(w)
    BY <2>1, <2>2 DEF Apart, Serving, Frames, Due
  <2>4. Receipts
    BY <2>1 DEF Receipts
  <2> QED BY <2>3, <2>4 DEF Once
<1>2. IInv /\ Acks /\ Unread /\ Sound /\ Once /\ [Next]_vars => Once'
  BY StepKeepsOnce DEF IInv
<1>3. Once => AtMostOnce
  BY DEF Once, Apart, AtMostOnce, IsInjective
<1>4. Once => AnsweredOnce
  <2> SUFFICES ASSUME Once, NEW i \in DOMAIN clientQ
               PROVE  /\ clientQ[i].about \notin answered
                      /\ \A j \in DOMAIN clientQ : clientQ[i].about = clientQ[j].about => i = j
    BY DEF AnsweredOnce
  <2>1. \A j \in DOMAIN clientQ : clientQ[j] \in Range(clientQ) /\ Given(clientQ[j])
    BY DEF Range, Once, Receipts
  <2>2. ASSUME clientQ[i].about \in answered
        PROVE  FALSE
    <3>1. PICK y : y.about = clientQ[i].about /\ Given(y) /\ y \notin Range(clientQ)
      BY <2>2 DEF Once, Receipts
    <3> QED BY <2>1, <3>1, GivenTells
  <2>3. ASSUME NEW j \in DOMAIN clientQ, clientQ[i].about = clientQ[j].about
        PROVE  i = j
    <3>1. clientQ[i] = clientQ[j]
      BY <2>1, <2>3, GivenTells
    <3> QED BY <3>1 DEF Once, Receipts, IsInjective
  <2> QED BY <2>2, <2>3
<1> QED BY <1>1, <1>2, <1>3, <1>4, Invariant, TrafficSound, PTL DEF Spec

(* What a worker is sent comes in turn and once, and so do its answers,    *)
(* for every script, every capacity and whatever workers do.               *)
THEOREM InTurn == Spec => []DeliveredInTurn
<1>1. OpenAfterRegister /\ AtMostOnce /\ AnsweredOnce => DeliveredInTurn
  BY DEF DeliveredInTurn
<1> QED BY <1>1, OpensInOrder, NothingTwice, PTL

-----------------------------------------------------------------------------
(* No two goroutines are at the map of files at once when the client takes *)
(* turns.                                                                  *)
Turns ==
  /\ \A m \in Msgs : Mentioned(m) => h[m] = "done"
  /\ \A m, n \in Msgs : AboutFile(m) /\ AboutFile(n) /\ m < n /\ h[n] # "idle" =>
       h[m] = "done"
  /\ crashed # "fatal"

LEMMA StepKeepsTurns ==
  ASSUME TakesTurns, TypeInv, Acks, Unread, Turns, [Next]_vars
  PROVE  Turns'
<1>1. \A m \in Msgs : Mentioned(m)' => h'[m] = "done"
  <2> SUFFICES ASSUME NEW m \in Msgs, Mentioned(m)' PROVE h'[m] = "done"
    OBVIOUS
  <2>1. CASE Mentioned(m)
    BY <2>1, HandlersAdvance DEF Turns
  <2>2. CASE ~Mentioned(m)
    <3>1. SendsFrame(m)
      BY <2>2, MentionedOnceSent
    <3> QED BY <3>1 DEF SendsFrame, TypeInv, TypeOK
  <2> QED BY <2>1, <2>2
<1>2. \A m, n \in Msgs : AboutFile(m) /\ AboutFile(n) /\ m < n /\ h'[n] # "idle" =>
        h'[m] = "done"
  <2> SUFFICES ASSUME NEW m \in Msgs, NEW n \in Msgs, AboutFile(m), AboutFile(n),
                      m < n, h'[n] # "idle"
               PROVE  h'[m] = "done"
    OBVIOUS
  <2>1. CASE h[n] # "idle"
    BY <2>1, HandlersAdvance DEF Turns
  <2>2. CASE h[n] = "idle"
    <3>1. ReadMessage /\ n = pos + 1
      <4>1. ASSUME NEW k \in Msgs, Handle(k)
            PROVE  FALSE
        <5>1. \E from, to : from # "idle" /\ Goes(k, from, to)
          BY <4>1 DEF Handle, Check, StartWorker, Refused, Dial, Publish, InitWorker,
             LookAtMap, MakeMap, StoreWorker, ProxyRegister, RouteMessage, ProxyMessage,
             AskStatus, Sends
        <5> QED BY <2>2, <5>1 DEF Goes, TypeInv, TypeOK
      <4>2. ReadMessage
        BY <2>2, <4>1, HandlerSteps
      <4> QED BY <2>2, <4>2 DEF ReadMessage, TypeInv, TypeOK
    <3>2. After(n) \in answered /\ After(n) \in Msgs /\ AboutFile(After(n)) /\ m <= After(n)
      BY <3>1, ScriptFacts DEF ReadMessage, TakesTurns, None
    <3>3. h[After(n)] = "done"
      BY <3>2 DEF Turns, Mentioned
    <3>4. h[m] = "done"
      <4>1. m \in Nat /\ After(n) \in Nat
        BY <3>2, ScriptFacts
      <4>2. m = After(n) \/ m < After(n)
        BY <3>2, <4>1
      <4> QED BY <3>2, <3>3, <4>2 DEF Turns
    <3> QED BY <3>4, HandlersAdvance
  <2> QED BY <2>1, <2>2
<1>3. crashed' # "fatal"
  <2>1. CASE MapFault
    <3>1. PICK m, n \in Msgs : m # n /\ h[m] = "store" /\ InMap(n)
      BY <2>1 DEF MapFault
    <3>2. AboutFile(m) /\ AboutFile(n) /\ h[n] \notin {"idle", "done"}
      BY <3>1 DEF InMap, AboutFile, TypeInv, Stages
    <3>3. m < n \/ n < m
      BY <3>1, ScriptFacts
    <3> QED BY <3>1, <3>2, <3>3 DEF Turns
  <2>2. ASSUME NEW m \in Msgs, Handle(m)
        PROVE  crashed' \in {crashed, "panic"}
    BY <2>2 DEF Handle, Check, StartWorker, Refused, Dial, Publish, InitWorker, LookAtMap,
       MakeMap, StoreWorker, ProxyRegister, RouteMessage, ProxyMessage, AskStatus, Sends
  <2>3. CASE ~(MapFault \/ \E m \in Msgs : Handle(m))
    BY <2>3 DEF Turns, Next, ReadMessage, ClientLeaves, Disconnect, CloseClient, CheckInfo,
       CloseConn, CloseSend, Shutdown, WriteToWorker, ReadFromWorker, Relaying,
       RelayToWorker, RelayToClient, WriteToClient, ServeFrame, WorkerExits, vars
  <2> QED BY <2>1, <2>2, <2>3 DEF Turns
<1> QED BY <1>1, <1>2, <1>3 DEF Turns

(* The map of files is never accessed by two goroutines at once, for every *)
(* client that takes turns with what it says about files.                  *)
THEOREM NoFault ==
  ASSUME TakesTurns
  PROVE  Spec => [](crashed # "fatal")
<1>1. Init => Turns
  BY SilentAtStart DEF Init, Turns
<1>2. IInv /\ Acks /\ Unread /\ Sound /\ Turns /\ [Next]_vars => Turns'
  BY TakesTurns, StepKeepsTurns DEF IInv
<1>3. Turns => crashed # "fatal"
  BY DEF Turns
<1> QED BY <1>1, <1>2, <1>3, Invariant, TrafficSound, PTL DEF Spec

-----------------------------------------------------------------------------
(* What can go on, by the guards of the goroutines of worker w and of the  *)
(* worker itself.                                                          *)
CanWrite(w) ==
  chan[w] # "nil" /\ queue[w] # <<>> /\ (conn[w] = "open" => Len(wireTo[w]) < Wire)
CanServe(w) == spawned[w] = "running" /\ wireTo[w] # <<>> /\ Len(wireFrom[w]) < Wire
CanRead(w) ==
  chan[w] # "nil" /\ conn[w] # "closed" /\ wireFrom[w] # <<>> /\ ReaderFree(w)
Flows(w) == CanWrite(w) \/ CanServe(w) \/ CanRead(w)

(* Whoever waits for room, a handler m or a relay r, waits for somebody    *)
(* who can go on.                                                          *)
NobodyHeldUp ==
  loop = "reading" =>
    /\ \A m \in Msgs : h[m] \in {"proxy", "send"} =>
         LET w == IF h[m] = "proxy" THEN m ELSE target[m] IN
         chan[w] = "nil" \/ HasRoom(w) \/ Flows(w)
    /\ \A r \in relays :
         IF OpensFile(r) THEN HasRoom(r.from) \/ Flows(r.from)
                         ELSE ClientHasRoom \/ clientQ # <<>>

(* Nothing is under way to or from a worker without a channel, and while   *)
(* the client stays connections are closed by workers that exit, alone.    *)
Linked ==
  /\ \A w \in Workers : chan[w] = "nil" =>
       queue[w] = <<>> /\ wireTo[w] = <<>> /\ wireFrom[w] = <<>>
  /\ \A r \in relays : chan[r.from] # "nil"
  /\ loop = "reading" =>
       \A w \in Workers : conn[w] # "closed" /\ (conn[w] = "open" => spawned[w] = "running")

LEMMA StepKeepsLinked ==
  ASSUME TypeInv, Linked, ClosedLate, [Next]_vars
  PROVE  Linked'
<1> USE DEF loopVars, workerVars
<1>1. ASSUME NEW w \in Workers, chan[w] = "nil"
      PROVE  queue'[w] = <<>> /\ wireTo'[w] = <<>> /\ wireFrom'[w] = <<>>
  <2>1. queue[w] = <<>> /\ wireTo[w] = <<>> /\ wireFrom[w] = <<>> /\ chan[w] # "open"
        /\ \A r \in relays : r.from # w
    BY <1>1 DEF Linked
  <2>2. ASSUME NEW m \in Msgs, Handle(m)
        PROVE  queue'[w] = queue[w] /\ UNCHANGED <<wireTo, wireFrom>>
    BY <2>1, <2>2 DEF Handle, Check, StartWorker, Refused, Dial, Publish, InitWorker,
       LookAtMap, MakeMap, StoreWorker, ProxyRegister, RouteMessage, ProxyMessage,
       AskStatus, Sends, Put, HasRoom, TypeInv, TypeOK
  <2>3. CASE Relaying
    <3>1. queue'[w] = queue[w] /\ UNCHANGED <<wireTo, wireFrom>>
      BY <2>1, <2>3 DEF Relaying, RelayToWorker, RelayToClient, Put, HasRoom, TypeInv, TypeOK
    <3> QED BY <2>1, <3>1
  <2>4. ASSUME NEW v \in Workers, WriteToWorker(v) \/ ReadFromWorker(v) \/ ServeFrame(v)
        PROVE  queue'[w] = queue[w] /\ wireTo'[w] = wireTo[w] /\ wireFrom'[w] = wireFrom[w]
    <3>1. v # w
      BY <2>1, <2>4 DEF WriteToWorker, ReadFromWorker, ServeFrame
    <3>2. /\ queue \in [Workers -> Seq(Frame)] /\ wireTo \in [Workers -> Seq(Frame)]
          /\ wireFrom \in [Workers -> Seq(Answer)]
      BY DEF TypeInv, TypeOK
    <3> QED BY <2>4, <3>1, <3>2 DEF WriteToWorker, ReadFromWorker, ServeFrame
  <2>5. CASE ~(\/ (\E m \in Msgs : Handle(m)) \/ Relaying
               \/ \E v \in Workers : WriteToWorker(v) \/ ReadFromWorker(v) \/ ServeFrame(v))
    <3>1. UNCHANGED <<queue, wireTo, wireFrom>>
      BY <2>5 DEF Next, ReadMessage, ClientLeaves, Disconnect, CloseClient, CheckInfo,
         CloseConn, CloseSend, Shutdown, MapFault, WriteToClient, WorkerExits, vars
    <3> QED BY <2>1, <3>1
  <2> QED BY <2>1, <2>2, <2>3, <2>4, <2>5
<1>2. ASSUME NEW r \in relays'
      PROVE  chan[r.from] # "nil" /\ r.from \in Workers
  <2>1. CASE r \in relays
    BY <2>1 DEF Linked, TypeInv, TypeOK, Relay
  <2>2. CASE r \notin relays
    <3>1. \E w \in Workers : ReadFromWorker(w)
      <4>1. CASE \E m \in Msgs : Handle(m)
        BY <1>2, <2>2, <4>1 DEF Handle, Check, StartWorker, Refused, Dial, Publish,
           InitWorker, LookAtMap, MakeMap, StoreWorker, ProxyRegister, RouteMessage,
           ProxyMessage, AskStatus, Sends
      <4>2. CASE ~\E m \in Msgs : Handle(m)
        BY <1>2, <2>2, <4>2 DEF Next, ReadMessage, ClientLeaves, Disconnect, CloseClient,
           CheckInfo, CloseConn, CloseSend, Shutdown, MapFault, WriteToWorker, Relaying,
           RelayToWorker, RelayToClient, WriteToClient, ServeFrame, WorkerExits, vars
      <4> QED BY <4>1, <4>2
    <3> QED BY <2>2, <3>1 DEF ReadFromWorker
  <2> QED BY <2>1, <2>2
<1>3. loop' = "reading" => loop = "reading"
  BY DEF Next, ReadMessage, ClientLeaves, Disconnect, CloseClient, CheckInfo,
     CloseConn, CloseSend, Shutdown, Handle, Check, StartWorker, Refused, Dial,
     Publish, InitWorker, LookAtMap, MakeMap, StoreWorker, ProxyRegister,
     RouteMessage, ProxyMessage, AskStatus, Sends, MapFault, WriteToWorker,
     ReadFromWorker, Relaying, RelayToWorker, RelayToClient, WriteToClient,
     ServeFrame, WorkerExits, vars
<1>4. ASSUME loop' = "reading", NEW w \in Workers
      PROVE  conn'[w] # "closed" /\ (conn'[w] = "open" => spawned'[w] = "running")
  <2>1. conn[w] # "closed" /\ (conn[w] = "open" => spawned[w] = "running")
    BY <1>3, <1>4 DEF Linked
  <2>2. CASE \E m \in Msgs : Handle(m)
    BY <2>1, <2>2 DEF Handle, Check, StartWorker, Refused, Dial, Publish, InitWorker,
       LookAtMap, MakeMap, StoreWorker, ProxyRegister, RouteMessage, ProxyMessage,
       AskStatus, Sends, TypeInv, TypeOK
  <2>3. CASE \E v \in Workers : WorkerExits(v)
    BY <2>1, <2>3 DEF WorkerExits, TypeInv, TypeOK
  <2>4. CASE ~((\E m \in Msgs : Handle(m)) \/ \E v \in Workers : WorkerExits(v))
    <3>1. UNCHANGED <<conn, spawned>>
      BY <1>3, <1>4, <2>4 DEF Next, ReadMessage, ClientLeaves, Disconnect, CloseClient,
         CheckInfo, CloseConn, CloseSend, Shutdown, MapFault, WriteToWorker, ReadFromWorker,
         Relaying, RelayToWorker, RelayToClient, WriteToClient, ServeFrame, vars
    <3> QED BY <2>1, <3>1
  <2> QED BY <2>2, <2>3, <2>4
<1> QED BY <1>1, <1>2, <1>4, HandlerSteps DEF Linked

(* What waits for a worker that can still be reached goes on. *)
LEMMA FullFlows ==
  ASSUME TypeInv, Linked, loop = "reading",
         NEW w \in Workers, chan[w] = "open", ~HasRoom(w)
  PROVE  Flows(w)
<1>1. /\ queue[w] \in Seq(Frame) /\ wireTo[w] \in Seq(Frame) /\ wireFrom[w] \in Seq(Answer)
      /\ Cap \in Nat \ {0} /\ Wire \in Nat \ {0}
  BY BoundsAssumption DEF TypeInv, TypeOK
<1>2. queue[w] # <<>>
  BY <1>1 DEF HasRoom
<1>3. Len(wireTo[w]) < Wire \/ wireTo[w] # <<>>
  BY <1>1
<1>4. Len(wireFrom[w]) < Wire \/ wireFrom[w] # <<>>
  BY <1>1
<1>5. conn[w] # "closed" /\ (conn[w] = "open" => spawned[w] = "running")
  BY DEF Linked
<1> QED BY <1>2, <1>3, <1>4, <1>5 DEF Flows, CanWrite, CanServe, CanRead, ReaderFree

(* As long as the client stays, nobody waits for room in vain: full        *)
(* channels and connections never hold each other up, for every capacity   *)
(* of the channels and whatever workers exit.                              *)
THEOREM NoneHeldUp == Spec => []NobodyHeldUp
<1>1. Init => Linked
  BY DEF Init, Linked
<1>2. IInv /\ Linked /\ [Next]_vars => Linked'
  BY StepKeepsLinked DEF IInv
<1>3. IInv /\ Linked => NobodyHeldUp
  <2> SUFFICES ASSUME IInv, Linked, loop = "reading"
               PROVE  NobodyHeldUp
    BY DEF NobodyHeldUp
  <2>1. \A w \in Workers : chan[w] = "nil" \/ HasRoom(w) \/ Flows(w)
    BY FullFlows DEF IInv, ClosedLate, TypeInv, TypeOK
  <2>2. \A m \in Msgs : /\ h[m] = "proxy" => m \in Workers
                        /\ h[m] = "send" => target[m] \in Workers
    BY DEF IInv, TypeInv, Stages
  <2>3. \A r \in relays : r.from \in Workers /\ chan[r.from] # "nil"
    BY DEF IInv, Linked, TypeInv, TypeOK, Relay
  <2>4. ClientHasRoom \/ clientQ # <<>>
    <3>1. clientOpen /\ clientQ \in Seq(Answer) /\ Cap \in Nat \ {0}
      BY BoundsAssumption DEF IInv, ClosedLate, TypeInv, TypeOK
    <3>2. Len(clientQ) < Cap \/ clientQ # <<>>
      BY <3>1
    <3> QED BY <3>1, <3>2 DEF ClientHasRoom
  <2> QED BY <2>1, <2>2, <2>3, <2>4 DEF NobodyHeldUp
<1> QED BY <1>1, <1>2, <1>3, Invariant, PTL DEF Spec
=============================================================================
