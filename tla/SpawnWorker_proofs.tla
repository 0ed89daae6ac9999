------------------------- MODULE SpawnWorker_proofs -------------------------
(***************************************************************************)
(* Theorems about SpawnWorker, for every set of pipes, ports and lines and *)
(* every bound: its types, its promise to the caller (refinement of        *)
(* Launch), and the order in which lines and announcements travel.         *)
(***************************************************************************)
EXTENDS SpawnWorker, SequenceTheorems, TLAPS

USE DEF vars, callVars, watchVars

-----------------------------------------------------------------------------
(* A watcher that forwards holds a line of the child, one that offers      *)
(* holds a port, and none runs before there is a child.  Typing the        *)
(* channel and our own output needs it.                                    *)
LineInHand ==
  \A p \in Pipes : /\ watcher[p] = "forward" => line[p] \in Lines
                   /\ watcher[p] = "offer" => line[p] \in Ports
                   /\ main = "prepare" => watcher[p] = "off"

TypeInv == TypeOK /\ LineInHand

LEMMA TypeInvInit == Init => TypeInv
  BY ZenonT(30), EmptySeq DEF Init, TypeInv, TypeOK, LineInHand

LEMMA TypeInvStep == TypeInv /\ [Next]_vars => TypeInv'
<1> SUFFICES ASSUME TypeInv, [Next]_vars PROVE TypeInv'
  OBVIOUS
<1> USE LinesAssumption, EmptySeq DEF TypeInv, TypeOK, LineInHand
<1>1. CASE Caller
  <2>1. CASE PrepareFails \/ StartWorker
    BY <2>1 DEF PrepareFails, StartWorker
  <2>2. CASE ReturnReady
    BY <2>2, HeadTailProperties DEF ReturnReady
  <2>3. CASE GiveUp \/ KillWorker \/ ReapWorker
    BY <2>3 DEF GiveUp, KillWorker, Killed, ReapWorker
  <2> QED
    BY <1>1, <2>1, <2>2, <2>3 DEF Caller
<1>2. ASSUME NEW p \in Pipes, Watch(p) PROVE TypeInv'
  <2>1. CASE ScanLine(p)
    BY <2>1, HeadTailProperties DEF ScanLine
  <2>2. CASE ScanTooLong(p)
    BY <2>2, HeadTailProperties DEF ScanTooLong
  <2>3. CASE ScanEnds(p) \/ ForwardFails(p)
    BY ZenonT(30), <2>3 DEF ScanEnds, ForwardFails
  <2>4. CASE ForwardLine(p)
    <3>1. line[p] \in Lines
      BY <2>4 DEF ForwardLine
    <3>2. <<line[p]>> \in Seq(Lines)
      BY <3>1
    <3>3. forwarded[p] \o <<line[p]>> \in Seq(Lines)
      BY <3>2, ConcatProperties
    <3> QED
      BY <2>4, <3>1, <3>3 DEF ForwardLine, Passed, AnnouncesPort
  <2>5. CASE OfferPort(p)
    <3>1. <<line[p]>> \in Seq(Ports)
      BY <2>5 DEF OfferPort
    <3> QED
      BY <2>5, <3>1 DEF OfferPort, Offered
  <2> QED
    BY <1>2, <2>1, <2>2, <2>3, <2>4, <2>5 DEF Watch
<1>3. ASSUME NEW p \in Pipes, NEW l \in Lines, WorkerWrites(p, l)
      PROVE  TypeInv'
  BY <1>3, AppendProperties DEF WorkerWrites
<1>4. CASE WorkerExits \/ ContextKills \/ DeadlinePasses \/ SignalArrives
  BY <1>4 DEF WorkerExits, ContextKills, DeadlinePasses, SignalArrives
<1>5. CASE UNCHANGED vars
  BY <1>5
<1> QED
  BY <1>1, <1>2, <1>3, <1>4, <1>5 DEF Next, Environment

(* Every variable keeps its type: the channel, for one, only ever carries  *)
(* ports that a line announced.                                            *)
THEOREM TypeCorrect == Spec => []TypeOK
<1>1. TypeInv => TypeOK
  BY DEF TypeInv
<1> QED
  BY <1>1, TypeInvInit, TypeInvStep, PTL DEF Spec

LEMMA TypeInvariant == Spec => []TypeInv
  BY TypeInvInit, TypeInvStep, PTL DEF Spec

-----------------------------------------------------------------------------
(* There is a child as long as the call may still return it or wait for    *)
(* it, and only ReapWorker, on the way out, takes it away.                 *)
ChildInv ==
  /\ main \in {"prepare", "waiting", "killing", "reaping", "ok", "failed"}
  /\ main = "prepare" => proc = "none"
  /\ main \in {"waiting", "killing", "reaping"} => proc \in {"running", "zombie"}

LEMMA ChildInvStep == ChildInv /\ [Next]_vars => ChildInv'
  BY DEF ChildInv, Next, Caller, PrepareFails, StartWorker, ReturnReady, GiveUp,
         KillWorker, Killed, ReapWorker, Watch, ScanLine, ScanTooLong, ScanEnds,
         ForwardLine, ForwardFails, OfferPort, Environment, WorkerWrites,
         WorkerExits, ContextKills, DeadlinePasses, SignalArrives

(* SpawnWorker implements Launch: on success it returns a child that was   *)
(* started, on failure it leaves neither a process nor a zombie behind.    *)
(* The pipes, the watchers and the clock are stuttering of that promise.   *)
THEOREM KeepsPromise == Spec => Implements
<1>1. Init => Promise!Init /\ ChildInv
  BY DEF Init, Promise!Init, ChildInv
<1>2. ChildInv /\ [Next]_vars => [Promise!Next]_(Promise!vars)
  <2> SUFFICES ASSUME ChildInv, [Next]_vars
               PROVE  Promise!Next \/ UNCHANGED Promise!vars
    OBVIOUS
  <2> USE DEF ChildInv, Promise!vars, Promise!Next, Promise!Begin, Promise!Refuse,
              Promise!Die, Promise!Succeed, Promise!Collect, Promise!OwnerCollects
  <2>1. CASE PrepareFails
    BY <2>1 DEF PrepareFails
  <2>2. CASE StartWorker
    BY <2>2 DEF StartWorker
  <2>3. CASE ReturnReady
    BY <2>3 DEF ReturnReady
  <2>4. CASE GiveUp
    BY <2>4 DEF GiveUp
  <2>8. CASE KillWorker
    BY <2>8 DEF KillWorker, Killed
  <2>5. CASE ReapWorker
    BY <2>5 DEF ReapWorker
  <2>6. CASE \E p \in Pipes : Watch(p)
    BY <2>6 DEF Watch, ScanLine, ScanTooLong, ScanEnds, ForwardLine,
                ForwardFails, OfferPort
  <2>7. CASE Environment
    BY <2>7 DEF Environment, WorkerWrites, WorkerExits, ContextKills,
                DeadlinePasses, SignalArrives
  <2> QED
    BY <2>1, <2>2, <2>3, <2>4, <2>5, <2>6, <2>7, <2>8 DEF Next, Caller
<1> QED
  BY <1>1, <1>2, ChildInvStep, PTL DEF Spec, Implements, Promise!Spec

-----------------------------------------------------------------------------
(* What moves across the border between two adjacent queues leaves their   *)
(* concatenation alone.                                                    *)
LEMMA TakenFromFront ==
  ASSUME NEW S, NEW s \in Seq(S), NEW t \in Seq(S), t # <<>>
  PROVE  (s \o <<Head(t)>>) \o Tail(t) = s \o t
<1>0. <<Head(t)>> \in Seq(S)
  OBVIOUS
<1>1. PICK h \in Seq(S) : h = <<Head(t)>>
  BY <1>0
<1>2. PICK r \in Seq(S) : r = Tail(t)
  BY HeadTailProperties
<1>3. (s \o h) \o r = s \o (h \o r)
  BY ConcatAssociative
<1>4. <<Head(t)>> \o Tail(t) = t
  OBVIOUS
<1> QED
  BY <1>1, <1>2, <1>3, <1>4

-----------------------------------------------------------------------------
(* NothingLost is inductive once types are known: each step moves at most  *)
(* one line across one border of Accounted.                                *)
LEMMA NothingLostStep ==
  TypeInv /\ NothingLost /\ [Next]_vars => NothingLost'
<1> SUFFICES ASSUME TypeInv, NothingLost, [Next]_vars,
                    NEW q \in Pipes, watcher'[q] # "stopped"
             PROVE  Accounted(q)' = wrote'[q]
  BY DEF NothingLost
<1>1. /\ forwarded[q] \in Seq(Lines) /\ pipe[q] \in Seq(Lines)
      /\ wrote[q] \in Seq(Lines)
      /\ watcher[q] = "forward" => line[q] \in Lines
      /\ main = "prepare" => watcher[q] = "off"
  BY DEF TypeInv, TypeOK, LineInHand
<1>6. DOMAIN watcher = Pipes /\ DOMAIN line = Pipes /\ DOMAIN forwarded = Pipes
      /\ DOMAIN pipe = Pipes /\ DOMAIN wrote = Pipes
  BY DEF TypeInv, TypeOK
<1>2. CASE UNCHANGED <<watcher, line, forwarded, pipe, wrote>>
  <2>1. Accounted(q) = wrote[q]
    BY <1>2 DEF NothingLost
  <2>2. Accounted(q)' = Accounted(q) /\ wrote'[q] = wrote[q]
    BY <1>2 DEF Accounted
  <2> QED
    BY <2>1, <2>2
<1>3. CASE StartWorker
  BY <1>1, <1>3 DEF StartWorker, NothingLost, Accounted
<1>4. ASSUME NEW p \in Pipes, Watch(p) PROVE Accounted(q)' = wrote'[q]
  <2>1. CASE p # q
    <3>1. UNCHANGED <<watcher[q], line[q], forwarded[q], pipe[q], wrote[q]>>
      BY <1>4, <1>6, <2>1 DEF Watch, ScanLine, ScanTooLong, ScanEnds, ForwardLine,
                        ForwardFails, OfferPort
    <3> QED
      BY <3>1 DEF NothingLost, Accounted
  <2>2. CASE p = q /\ ScanLine(q)
    <3>1. (forwarded[q] \o <<Head(pipe[q])>>) \o Tail(pipe[q])
            = forwarded[q] \o pipe[q]
      BY <2>2, <1>1, TakenFromFront DEF ScanLine
    <3>2. forwarded[q] \o <<>> = forwarded[q]
      BY <1>1, ConcatEmptySeq
    <3>3. /\ watcher[q] = "scan" /\ watcher'[q] = "forward"
          /\ line'[q] = Head(pipe[q]) /\ pipe'[q] = Tail(pipe[q])
          /\ forwarded'[q] = forwarded[q] /\ wrote' = wrote
      BY <2>2, <1>6 DEF ScanLine
    <3> QED
      BY <3>1, <3>2, <3>3 DEF NothingLost, Accounted
  <2>3. CASE p = q /\ ForwardLine(q)
    <3>1. /\ watcher[q] = "forward" /\ watcher'[q] \in {"scan", "offer"}
          /\ forwarded'[q] = forwarded[q] \o <<line[q]>>
          /\ pipe' = pipe /\ wrote' = wrote
      BY <2>3, <1>6 DEF ForwardLine, Passed
    <3>2. forwarded'[q] \in Seq(Lines)
      BY <3>1, <1>1, ConcatProperties
    <3>3. forwarded'[q] \o <<>> = forwarded'[q]
      BY <3>2, ConcatEmptySeq
    <3> QED
      BY <3>1, <3>3 DEF NothingLost, Accounted
  <2>4. CASE p = q /\ OfferPort(q)
    BY <2>4, <1>6 DEF OfferPort, NothingLost, Accounted
  <2>5. CASE p = q /\ (ScanTooLong(q) \/ ScanEnds(q) \/ ForwardFails(q))
    BY <2>5, <1>6 DEF ScanTooLong, ScanEnds, ForwardFails
  <2> QED
    BY <1>4, <2>1, <2>2, <2>3, <2>4, <2>5 DEF Watch
<1>5. ASSUME NEW p \in Pipes, NEW l \in Lines, WorkerWrites(p, l)
      PROVE  Accounted(q)' = wrote'[q]
  <2>1. CASE p # q
    BY <1>5, <1>6, <2>1 DEF WorkerWrites, NothingLost, Accounted
  <2>2. CASE p = q
    <3> DEFINE front == forwarded[q] \o
                          (IF watcher[q] = "forward" THEN <<line[q]>> ELSE <<>>)
    <3>1. front \in Seq(Lines)
      BY <1>1, ConcatProperties, EmptySeq
    <3>2. Append(front \o pipe[q], l) = front \o Append(pipe[q], l)
      <4>0. <<l>> \in Seq(Lines)
        OBVIOUS
      <4>1. PICK f \in Seq(Lines), r \in Seq(Lines), d \in Seq(Lines) :
              f = front /\ r = pipe[q] /\ d = <<l>>
        BY <3>1, <1>1, <4>0
      <4> HIDE DEF front
      <4>2. (f \o r) \o d = f \o (r \o d)
        BY ConcatAssociative
      <4>3. Append(f \o r, l) = (f \o r) \o d /\ Append(r, l) = r \o d
        BY ZenonT(30), <4>1, AppendIsConcat, ConcatProperties
      <4> QED
        BY <4>1, <4>2, <4>3
    <3>4. /\ pipe'[q] = Append(pipe[q], l) /\ wrote'[q] = Append(wrote[q], l)
          /\ UNCHANGED <<watcher, line, forwarded>>
      BY <1>5, <1>6, <2>2 DEF WorkerWrites
    <3>5. Accounted(q) = front \o pipe[q] /\ Accounted(q)' = front \o pipe'[q]
      BY <3>4 DEF Accounted
    <3>6. wrote[q] = front \o pipe[q]
      BY <3>4, <3>5 DEF NothingLost
    <3> QED
      BY <3>2, <3>4, <3>5, <3>6
  <2> QED
    BY <2>1, <2>2
<1> QED
  BY <1>2, <1>3, <1>4, <1>5
  DEF Next, Caller, PrepareFails, ReturnReady, GiveUp, KillWorker, ReapWorker,
      Environment, WorkerExits, ContextKills, DeadlinePasses, SignalArrives

(* While a watcher is at work, what it passed on, what it holds and what   *)
(* waits in the pipe are exactly the lines the child wrote, in order.      *)
THEOREM LinesConserved == Spec => []NothingLost
<1>1. Init => NothingLost
  BY EmptySeq, ConcatEmptySeq DEF Init, NothingLost, Accounted
<1> QED
  BY <1>1, TypeInvariant, NothingLostStep, PTL DEF Spec

-----------------------------------------------------------------------------
(* x is the first port that stream p announced. *)
First(p, x) ==
  \E i \in 1..Len(forwarded[p]) :
    /\ forwarded[p][i] = x
    /\ \A j \in 1..(i - 1) : ~AnnouncesPort(forwarded[p][j])

(* Until the call returns, an empty channel means that no announcement was *)
(* reported: the only one, if any, is in the hands of its watcher.         *)
Unreported(p) ==
  \A i \in 1..Len(forwarded[p]) :
    AnnouncesPort(forwarded[p][i]) => watcher[p] = "offer" /\ i = Len(forwarded[p])

AnnounceInv ==
  /\ main = "ok" => \E p \in Pipes : First(p, port)
  /\ main # "ok" /\ readyCh # <<>> => \E p \in Pipes : First(p, Head(readyCh))
  /\ main # "ok" /\ readyCh = <<>> => \A p \in Pipes : Unreported(p)
  /\ \A p \in Pipes : watcher[p] = "offer" =>
       /\ Len(forwarded[p]) > 0
       /\ forwarded[p][Len(forwarded[p])] = line[p]

LEMMA AnnounceInvStep ==
  TypeInv /\ AnnounceInv /\ [Next]_vars => AnnounceInv'
<1> SUFFICES ASSUME TypeInv, AnnounceInv, [Next]_vars PROVE AnnounceInv'
  OBVIOUS
<1>1. \A p \in Pipes : /\ forwarded[p] \in Seq(Lines)
                       /\ Len(forwarded[p]) \in Nat
                       /\ watcher[p] = "forward" => line[p] \in Lines
                       /\ watcher[p] = "offer" => line[p] \in Ports
  BY LenProperties DEF TypeInv, TypeOK, LineInHand
<1>2. DOMAIN watcher = Pipes /\ DOMAIN line = Pipes /\ DOMAIN forwarded = Pipes
  BY DEF TypeInv, TypeOK
<1>3. CASE UNCHANGED <<main, port, readyCh, watcher, line, forwarded>>
  BY <1>3 DEF AnnounceInv, First, Unreported
<1>4. CASE /\ main' # "ok" /\ main # "ok"
           /\ UNCHANGED <<readyCh, watcher, line, forwarded>>
  BY <1>4 DEF AnnounceInv, First, Unreported
<1>5. CASE StartWorker
  BY <1>1, <1>2, <1>5 DEF StartWorker, AnnounceInv, First, Unreported, TypeInv,
                          LineInHand
<1>6. CASE ReturnReady
  BY <1>6 DEF ReturnReady, AnnounceInv, First, Unreported
<1>7. ASSUME NEW p \in Pipes, Watch(p) PROVE AnnounceInv'
  <2>1. CASE ScanLine(p) \/ ScanTooLong(p) \/ ScanEnds(p) \/ ForwardFails(p)
    BY <1>2, <2>1 DEF ScanLine, ScanTooLong, ScanEnds, ForwardFails,
                      AnnounceInv, First, Unreported
  <2>2. CASE ForwardLine(p)
    <3>1. /\ forwarded'[p] \in Seq(Lines)
          /\ Len(forwarded'[p]) = Len(forwarded[p]) + 1
          /\ forwarded'[p][Len(forwarded[p]) + 1] = line[p]
          /\ \A i \in 1..Len(forwarded[p]) : forwarded'[p][i] = forwarded[p][i]
          /\ \A q \in Pipes \ {p} : /\ forwarded'[q] = forwarded[q]
                                   /\ watcher'[q] = watcher[q]
      BY <1>1, <1>2, <2>2 DEF ForwardLine, Passed
    <3>2. /\ watcher[p] = "forward"
          /\ watcher'[p] = "offer" <=> AnnouncesPort(line[p])
          /\ UNCHANGED <<main, port, readyCh, line>>
      BY <1>2, <2>2 DEF ForwardLine
    <3>3. ASSUME NEW q \in Pipes, NEW x, First(q, x) PROVE First(q, x)'
      <4>1. PICK i \in 1..Len(forwarded[q]) :
              /\ forwarded[q][i] = x
              /\ \A j \in 1..(i - 1) : ~AnnouncesPort(forwarded[q][j])
        BY <3>3 DEF First
      <4>2. /\ Len(forwarded[q]) \in Nat /\ Len(forwarded'[q]) \in Nat
            /\ Len(forwarded[q]) <= Len(forwarded'[q])
            /\ \A j \in 1..Len(forwarded[q]) : forwarded'[q][j] = forwarded[q][j]
        BY <1>1, <3>1
      <4>3. /\ i \in 1..Len(forwarded'[q]) /\ forwarded'[q][i] = x
            /\ \A j \in 1..(i - 1) : ~AnnouncesPort(forwarded'[q][j])
        <5>1. \A n \in Nat : \A k \in 1..n : \A j \in 1..(k - 1) : j \in 1..n
          OBVIOUS
        <5>2. \A j \in 1..(i - 1) : forwarded'[q][j] = forwarded[q][j]
          BY <4>1, <4>2, <5>1
        <5>3. i \in 1..Len(forwarded'[q])
          BY <4>1, <4>2
        <5> QED BY <4>1, <4>2, <5>2, <5>3
      <4> QED
        BY <4>3 DEF First, AnnouncesPort
    <3>4. \A q \in Pipes : Unreported(q) => Unreported(q)'
      BY SMTT(30), <1>1, <3>1, <3>2 DEF Unreported, AnnouncesPort
    <3>5. \A q \in Pipes : watcher'[q] = "offer" =>
            /\ Len(forwarded'[q]) > 0
            /\ forwarded'[q][Len(forwarded'[q])] = line'[q]
      BY <1>1, <3>1, <3>2 DEF AnnounceInv
    <3> QED
      BY <3>2, <3>3, <3>4, <3>5 DEF AnnounceInv
  <2>3. CASE OfferPort(p)
    <3>1. /\ watcher[p] = "offer" /\ watcher' = [watcher EXCEPT ![p] = "scan"]
          /\ readyCh' = IF readyCh = <<>> THEN <<line[p]>> ELSE readyCh
          /\ UNCHANGED <<main, port, line, forwarded>>
      BY <2>3 DEF OfferPort, Offered
    <3>2. \A q \in Pipes : \A x : First(q, x) <=> First(q, x)'
      BY <3>1 DEF First
    <3>3. readyCh' # <<>>
      BY <3>1
    <3>4. CASE readyCh = <<>> /\ main # "ok"
      <4>1. Head(readyCh') = line[p]
        BY <3>1, <3>4
      <4>2. First(p, line[p])
        BY <1>1, <3>1, <3>4 DEF AnnounceInv, Unreported, First
      <4> QED
        BY <1>2, <3>1, <3>2, <3>3, <3>4, <4>1, <4>2 DEF AnnounceInv
    <3>5. CASE readyCh # <<>> \/ main = "ok"
      BY <1>2, <3>1, <3>2, <3>3, <3>5 DEF AnnounceInv
    <3> QED
      BY <3>4, <3>5
  <2> QED
    BY <1>7, <2>1, <2>2, <2>3 DEF Watch
<1>8. CASE PrepareFails \/ GiveUp \/ KillWorker \/ ReapWorker
  BY <1>4, <1>8 DEF PrepareFails, GiveUp, KillWorker, ReapWorker
<1>9. CASE Environment
  BY <1>3, <1>9 DEF Environment, WorkerWrites, WorkerExits, ContextKills,
                    DeadlinePasses, SignalArrives
<1> QED
  BY <1>3, <1>5, <1>6, <1>7, <1>8, <1>9 DEF Next, Caller

(* The port a successful call returns is the first one announced on its    *)
(* stream, however the two watchers, the caller and the clock interleave.  *)
THEOREM ReturnsFirst == Spec => []FirstAnnouncement
<1>1. Init => AnnounceInv
  BY EmptySeq DEF Init, AnnounceInv, Unreported
<1>2. AnnounceInv => FirstAnnouncement
  BY DEF AnnounceInv, First, FirstAnnouncement
<1> QED
  BY <1>1, <1>2, TypeInvariant, AnnounceInvStep, PTL DEF Spec

-----------------------------------------------------------------------------
(* Watcher p can take its next step. *)
CanWatch(p) ==
  \/ watcher[p] = "scan" /\ ~closed /\ pipe[p] # <<>>
  \/ watcher[p] \in {"forward", "offer"}

(* Wait, on the way out, is called on a child that is dead, unless the kill *)
(* was refused; and a running child that finds its pipe full has a watcher *)
(* that can go on, unless that one stopped.                                *)
NobodyWaitsInVain ==
  /\ main = "reaping" => proc = "zombie" \/ (proc = "running" /\ "kill" \in Faults)
  /\ \A p \in Pipes : Len(pipe[p]) = PipeCap /\ proc = "running" =>
       CanWatch(p) \/ watcher[p] = "stopped"

(* Read ends are closed only when the child is reaped, and a child has     *)
(* watchers from its start.                                                *)
WatchedInv ==
  /\ closed => main = "failed" /\ proc = "reaped"
  /\ \A p \in Pipes : proc = "running" => watcher[p] # "off"
  /\ main = "reaping" => proc = "zombie" \/ (proc = "running" /\ "kill" \in Faults)

LEMMA WatchedStep == TypeInv /\ ChildInv /\ WatchedInv /\ [Next]_vars => WatchedInv'
<1> SUFFICES ASSUME TypeInv, ChildInv, WatchedInv, [Next]_vars PROVE WatchedInv'
  OBVIOUS
<1> USE DEF TypeInv, TypeOK, ChildInv, WatchedInv
<1>1. CASE Caller
  BY <1>1 DEF Caller, PrepareFails, StartWorker, ReturnReady, GiveUp, KillWorker, Killed,
     ReapWorker
<1>2. CASE \E p \in Pipes : Watch(p)
  BY <1>2 DEF Watch, ScanLine, ScanTooLong, ScanEnds, ForwardLine, ForwardFails, OfferPort
<1>3. CASE Environment
  BY <1>3 DEF Environment, WorkerWrites, WorkerExits, ContextKills, DeadlinePasses,
     SignalArrives
<1> QED BY <1>1, <1>2, <1>3 DEF Next

(* No wait of SpawnWorker is in vain, for every size of the pipes: neither *)
(* the caller's for a child it killed, nor a child's for its output to be  *)
(* read.                                                                   *)
THEOREM WaitsEnd == Spec => []NobodyWaitsInVain
<1>1. Init => ChildInv /\ WatchedInv
  BY DEF Init, ChildInv, WatchedInv
<1>2. TypeInv /\ WatchedInv => NobodyWaitsInVain
  <2> SUFFICES ASSUME TypeInv, WatchedInv, NEW p \in Pipes, Len(pipe[p]) = PipeCap,
                      proc = "running"
               PROVE  CanWatch(p) \/ watcher[p] = "stopped"
    BY DEF NobodyWaitsInVain, WatchedInv
  <2>1. pipe[p] # <<>>
    BY BoundsAssumption
  <2>2. ~closed /\ watcher[p] \in {"scan", "forward", "offer", "stopped"}
    BY DEF WatchedInv, TypeInv, TypeOK
  <2> QED BY <2>1, <2>2 DEF CanWatch
<1> QED BY <1>1, <1>2, WatchedStep, ChildInvStep, TypeInvariant, PTL DEF Spec
=============================================================================
