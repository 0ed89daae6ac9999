------------------------------- MODULE Session -------------------------------
(***************************************************************************)
(* One client session of carta-ctl: the read loop of the client's          *)
(* WebSocket, the goroutine that handles each message it reads, the        *)
(* workers these start, the goroutines that write to and read from each    *)
(* worker, the goroutine that relays each message a worker sends, and the  *)
(* cleanup when the client leaves.                                         *)
(*                                                                         *)
(* A message is its position in what the client sends; the worker that a   *)
(* REGISTER_VIEWER or OPEN_FILE message starts is named after the message. *)
(* A frame on its way to a worker is the message it stems from and its     *)
(* event type, and a worker answers each frame with one message.           *)
(***************************************************************************)
EXTENDS Naturals, Sequences, FiniteSets

CONSTANTS
  Script,   \* what the client sends: records of kind, file and after, the
            \* message whose answer the client waits for first, or 0
  Files,    \* file ids
  NoFile,   \* a message without a file id
  Cap,      \* capacity of the send channels (100 in the code)
  Wire,     \* bound: frames under way on one direction of a connection
  Allowed   \* what may happen: "leave" (the client), "exit" (a worker),
            \* "noStart" (a worker is refused, or the dial to it), "noStop"

Msgs == 1..Len(Script)
Kind(m) == Script[m].kind
File(m) == Script[m].file
After(m) == Script[m].after

None == 0   \* no worker, no message

ASSUME ScriptAssumption ==
  Script \in Seq([kind : {"register", "open", "proxied", "status", "malformed"},
                  file : Files \cup {NoFile}, after : Nat])
ASSUME FilesAssumption ==
  /\ NoFile \notin Files
  /\ \A m \in Msgs : Kind(m) = "open" => File(m) \in Files
ASSUME BoundsAssumption == Cap \in Nat \ {0} /\ Wire \in Nat \ {0}
ASSUME AllowedAssumption == Allowed \subseteq {"leave", "exit", "noStart", "noStop"}

VARIABLES
  loop,       \* the read loop, then HandleDisconnect step by step
  pos,        \* messages read so far
  h,          \* h[m]: where the handler of message m stands
  target,     \* target[m]: the worker a proxied message goes to
  info,       \* Session.Info: the worker of the last registration
  shared,     \* Session.sharedWorker
  made,       \* Session.fileMap is not nil
  fileMap,    \* fileMap[f]: the worker of file f, or None
  spawned,    \* spawned[w]: worker w, as the spawner has it
  conn,       \* conn[w]: our connection to it
  chan,       \* chan[w]: its sendChan, "nil", "open" or "closed"
  queue,      \* queue[w]: what waits in that channel
  wireTo,     \* wireTo[w]: frames written and not yet received
  wireFrom,   \* wireFrom[w]: its messages, not yet read
  got,        \* history: got[w], the frames it received
  relays,     \* the goroutines of workerMessageHandler, one per message
  clientOpen, \* clientSendChan is not closed
  clientQ,    \* what waits in it
  answered,   \* the messages whose answer the client has
  left,       \* history: the messages handled when the client left
  crashed     \* "no", or how the controller ended: "panic" or "fatal"

loopVars == <<loop, pos, left>>
sessionVars == <<info, shared, made, fileMap>>
workerVars == <<spawned, conn, wireTo, wireFrom, got>>
clientVars == <<clientOpen, clientQ, answered>>
vars == <<loop, pos, h, target, info, shared, made, fileMap, spawned, conn, chan,
          queue, wireTo, wireFrom, got, relays, clientOpen, clientQ, answered,
          left, crashed>>

Workers == {m \in Msgs : Kind(m) \in {"register", "open"}}
IsFileWorker(w) == Kind(w) = "open"

Frame == [event : {"REGISTER_VIEWER", "OPEN_FILE", "OTHER"}, about : Msgs]
Answer == [event : {"ACK", "OTHER"}, about : Msgs]
Relay == [from : Workers, msg : Answer]

TypeOK ==
  /\ loop \in {"reading", "closeClient", "checkInfo", "closeConn", "closeSend",
               "shutdown", "refused", "ended"}
  /\ pos \in 0..Len(Script)
  /\ h \in [Msgs -> {"idle", "start", "startup", "dial", "publish", "init", "look",
                     "make", "store", "proxy", "send", "stuck", "done"}]
  /\ target \in [Msgs -> Workers \cup {None}]
  /\ info \in Workers \cup {None} /\ shared \in Workers \cup {None}
  /\ made \in BOOLEAN /\ fileMap \in [Files -> Workers \cup {None}]
  /\ spawned \in [Workers -> {"none", "running", "exited", "stopped"}]
  /\ conn \in [Workers -> {"none", "open", "closed", "broken"}]
  /\ chan \in [Workers -> {"nil", "open", "closed"}]
  /\ queue \in [Workers -> Seq(Frame)]
  /\ \A w \in Workers : Len(queue[w]) <= Cap
  /\ wireTo \in [Workers -> Seq(Frame)] /\ wireFrom \in [Workers -> Seq(Answer)]
  /\ got \in [Workers -> Seq(Frame)]
  /\ relays \subseteq Relay
  /\ clientOpen \in BOOLEAN
  /\ clientQ \in Seq(Answer) /\ Len(clientQ) <= Cap
  /\ answered \subseteq Msgs /\ left \subseteq Msgs
  /\ crashed \in {"no", "panic", "fatal"}

(* NewSession and HandleConnection. *)
Init ==
  /\ loop = "reading" /\ pos = 0 /\ left = {}
  /\ h = [m \in Msgs |-> "idle"] /\ target = [m \in Msgs |-> None]
  /\ info = None /\ shared = None
  /\ made = FALSE /\ fileMap = [f \in Files |-> None]
  /\ spawned = [w \in Workers |-> "none"] /\ conn = [w \in Workers |-> "none"]
  /\ chan = [w \in Workers |-> "nil"] /\ queue = [w \in Workers |-> <<>>]
  /\ wireTo = [w \in Workers |-> <<>>] /\ wireFrom = [w \in Workers |-> <<>>]
  /\ got = [w \in Workers |-> <<>>]
  /\ relays = {}
  /\ clientOpen = TRUE /\ clientQ = <<>> /\ answered = {}
  /\ crashed = "no"

Running == crashed = "no"

-----------------------------------------------------------------------------
(* The client and the read loop.                                           *)

(* The client sends its next message, and the loop starts a handler for it. *)
ReadMessage ==
  /\ Running /\ loop = "reading" /\ pos < Len(Script)
  /\ After(pos + 1) \in answered \cup {0}
  /\ pos' = pos + 1
  /\ h' = [h EXCEPT ![pos + 1] = "start"]
  /\ UNCHANGED <<loop, left, target, sessionVars, workerVars, chan, queue, relays,
                 clientVars, crashed>>

(* ReadMessage fails: the loop ends and HandleDisconnect begins. *)
ClientLeaves ==
  /\ Running /\ loop = "reading" /\ "leave" \in Allowed
  /\ loop' = "closeClient"
  /\ left' = {m \in Msgs : h[m] = "done"}
  /\ UNCHANGED <<pos, h, target, sessionVars, workerVars, chan, queue, relays,
                 clientVars, crashed>>

CloseClient ==
  /\ Running /\ loop = "closeClient"
  /\ loop' = "checkInfo"
  /\ clientOpen' = FALSE
  /\ UNCHANGED <<pos, left, h, target, sessionVars, workerVars, chan, queue,
                 relays, clientQ, answered, crashed>>

(* Mutant: without a shared worker there is nothing to shut down. *)
CheckInfo_shared ==
  /\ Running /\ loop = "checkInfo"
  /\ loop' = IF shared = None THEN "ended" ELSE "closeConn"
  /\ UNCHANGED <<pos, left, h, target, sessionVars, workerVars, chan, queue,
                 relays, clientVars, crashed>>
(* if s.Info.WorkerId == "" { return } *)
CheckInfo ==
  /\ Running /\ loop = "checkInfo"
  /\ loop' = IF info = None THEN "ended" ELSE "closeConn"
  /\ UNCHANGED <<pos, left, h, target, sessionVars, workerVars, chan, queue,
                 relays, clientVars, crashed>>

(* disconnect of the shared worker, if there is one: its connection, then  *)
(* its channel, unless that is still nil.                                  *)
CloseConn ==
  /\ Running /\ loop = "closeConn"
  /\ loop' = IF shared = None THEN "shutdown" ELSE "closeSend"
  /\ conn' = [w \in Workers |-> IF w = shared THEN "closed" ELSE conn[w]]
  /\ UNCHANGED <<pos, left, h, target, sessionVars, spawned, wireTo, wireFrom,
                 got, chan, queue, relays, clientVars, crashed>>

CloseSend ==
  /\ Running /\ loop = "closeSend"
  /\ loop' = "shutdown"
  /\ chan' = [chan EXCEPT ![shared] = IF @ = "open" THEN "closed" ELSE @]
  /\ UNCHANGED <<pos, left, h, target, sessionVars, workerVars, queue, relays,
                 clientVars, crashed>>

(* RequestWorkerShutdown(s.Info.WorkerId), whose error is only logged. *)
Shutdown ==
  /\ Running /\ loop = "shutdown"
  /\ \/ loop' = "ended" /\ spawned' = [spawned EXCEPT ![info] = "stopped"]
     \/ loop' = "refused" /\ "noStop" \in Allowed /\ UNCHANGED spawned
  /\ UNCHANGED <<pos, left, h, target, sessionVars, conn, wireTo, wireFrom, got,
                 chan, queue, relays, clientVars, crashed>>

-----------------------------------------------------------------------------
(* The channel to a worker.                                                *)

HasRoom(w) == chan[w] = "open" /\ Len(queue[w]) < Cap

Put(w, event, m) ==
  queue' = [queue EXCEPT ![w] = Append(@, [event |-> event, about |-> m])]

(* Handler m goes from one step to another. *)
Goes(m, from, to) == Running /\ h[m] = from /\ h' = [h EXCEPT ![m] = to]

(* sendChan <- bytes by the handler at step from: the send happens, or the *)
(* channel is closed and the controller panics, or it is nil and the       *)
(* goroutine waits for ever.  On a full channel none of these is enabled.  *)
Sends(m, from, w, event) ==
  /\ \/ Goes(m, from, "done") /\ HasRoom(w) /\ Put(w, event, m) /\ UNCHANGED crashed
     \/ Goes(m, from, from) /\ chan[w] = "closed" /\ crashed' = "panic"
        /\ UNCHANGED queue
     \/ Goes(m, from, "stuck") /\ chan[w] = "nil" /\ UNCHANGED <<queue, crashed>>
  /\ UNCHANGED <<loopVars, target, sessionVars, workerVars, chan, relays, clientVars>>

-----------------------------------------------------------------------------
(* REGISTER_VIEWER and OPEN_FILE: a worker of their own.                   *)

(* checkAndParse: only REGISTER_VIEWER does without a shared worker. *)
Check(m) ==
  /\ Kind(m) \in {"register", "open", "malformed"}
  /\ Goes(m, "start",
          IF Kind(m) = "register" \/ (Kind(m) = "open" /\ shared # None)
          THEN "startup" ELSE "done")
  /\ UNCHANGED <<loopVars, target, sessionVars, workerVars, chan, queue, relays,
                 clientVars, crashed>>

(* RequestWorkerStartup; a registration stores the id at once. *)
StartWorker(m) ==
  /\ Goes(m, "startup", "dial")
  /\ spawned' = [spawned EXCEPT ![m] = "running"]
  /\ info' = IF Kind(m) = "register" THEN m ELSE info
  /\ UNCHANGED <<loopVars, target, shared, made, fileMap, conn, wireTo, wireFrom,
                 got, chan, queue, relays, clientVars, crashed>>

(* The spawner or the dial fails, and the handler returns. *)
Refused(m) ==
  /\ "noStart" \in Allowed \/ (h[m] = "dial" /\ spawned[m] # "running")
  /\ Goes(m, "startup", "done") \/ Goes(m, "dial", "done")
  /\ UNCHANGED <<loopVars, target, sessionVars, workerVars, chan, queue, relays,
                 clientVars, crashed>>

Dial(m) ==
  /\ Goes(m, "dial", IF Kind(m) = "register" THEN "publish" ELSE "init")
  /\ spawned[m] = "running"
  /\ conn' = [conn EXCEPT ![m] = "open"]
  /\ UNCHANGED <<loopVars, target, sessionVars, spawned, wireTo, wireFrom, got,
                 chan, queue, relays, clientVars, crashed>>

(* s.sharedWorker = &SessionWorker{...}, with a nil sendChan. *)
Publish(m) ==
  /\ Goes(m, "publish", "init")
  /\ shared' = m
  /\ UNCHANGED <<loopVars, target, info, made, fileMap, workerVars, chan, queue,
                 relays, clientVars, crashed>>

(* Mutant: a file worker gets no channel. *)
InitWorker_shared(m) ==
  /\ Goes(m, "init", IF Kind(m) = "register" THEN "proxy" ELSE "look")
  /\ chan' = [chan EXCEPT ![m] = IF Kind(m) = "register" THEN "open" ELSE @]
  /\ UNCHANGED <<loopVars, target, sessionVars, workerVars, queue, relays,
                 clientVars, crashed>>
(* handleInit makes the channel and starts the sender and the reader. *)
InitWorker(m) ==
  /\ Goes(m, "init", IF Kind(m) = "register" THEN "proxy" ELSE "look")
  /\ chan' = [chan EXCEPT ![m] = "open"]
  /\ UNCHANGED <<loopVars, target, sessionVars, workerVars, queue, relays,
                 clientVars, crashed>>

(* Mutant: every file starts a new map. *)
LookAtMap_always(m) ==
  /\ Goes(m, "look", "make")
  /\ UNCHANGED <<loopVars, target, sessionVars, workerVars, chan, queue, relays,
                 clientVars, crashed>>
(* if s.fileMap == nil *)
LookAtMap(m) ==
  /\ Goes(m, "look", IF made THEN "store" ELSE "make")
  /\ UNCHANGED <<loopVars, target, sessionVars, workerVars, chan, queue, relays,
                 clientVars, crashed>>

(* s.fileMap = make(...), whatever it is by now. *)
MakeMap(m) ==
  /\ Goes(m, "make", "store")
  /\ made' = TRUE /\ fileMap' = [f \in Files |-> None]
  /\ UNCHANGED <<loopVars, target, info, shared, workerVars, chan, queue, relays,
                 clientVars, crashed>>

StoreWorker(m) ==
  /\ Goes(m, "store", "proxy")
  /\ fileMap' = [fileMap EXCEPT ![File(m)] = m]
  /\ UNCHANGED <<loopVars, target, info, shared, made, workerVars, chan, queue,
                 relays, clientVars, crashed>>

(* Mutant: the file is opened at once, and the worker registers later. *)
FirstFrame_open(m) == IF Kind(m) = "open" THEN "OPEN_FILE" ELSE "REGISTER_VIEWER"
(* The first thing a worker is told. *)
FirstFrame(m) == "REGISTER_VIEWER"

ProxyRegister(m) == Sends(m, "proxy", m, FirstFrame(m))

-----------------------------------------------------------------------------
(* Everything else.                                                        *)

(* Mutant: any file worker will do. *)
Destination_any(m) ==
  IF File(m) # NoFile /\ made /\ \E f \in Files : fileMap[f] # None
  THEN fileMap[CHOOSE f \in Files : fileMap[f] # None] ELSE shared
(* The worker a proxied message goes to: the one of its file, if there is  *)
(* one by now, or the shared worker.                                       *)
Destination(m) ==
  IF File(m) # NoFile /\ made /\ fileMap[File(m)] # None
  THEN fileMap[File(m)] ELSE shared

RouteMessage(m) ==
  /\ Kind(m) = "proxied"
  /\ Goes(m, "start", IF Destination(m) = None THEN "done" ELSE "send")
  /\ target' = [target EXCEPT ![m] = Destination(m)]
  /\ UNCHANGED <<loopVars, sessionVars, workerVars, chan, queue, relays,
                 clientVars, crashed>>

ProxyMessage(m) == Sends(m, "send", target[m], "OTHER")

(* handleStatusMessage asks the spawner and logs what it says. *)
AskStatus(m) ==
  /\ Kind(m) = "status"
  /\ Goes(m, "start", "done")
  /\ UNCHANGED <<loopVars, target, sessionVars, workerVars, chan, queue, relays,
                 clientVars, crashed>>

(* Two handlers are in fileMap at once, one of them to store: Go's runtime *)
(* may stop the controller.                                                *)
InMap(m) == h[m] = "store" \/ (h[m] = "start" /\ Kind(m) = "proxied"
                                /\ File(m) # NoFile /\ made)
MapFault ==
  /\ Running
  /\ \E m, n \in Msgs : m # n /\ h[m] = "store" /\ InMap(n)
  /\ crashed' = "fatal"
  /\ UNCHANGED <<loopVars, h, target, sessionVars, workerVars, chan, queue, relays,
                 clientVars>>

Handle(m) ==
  \/ Check(m) \/ StartWorker(m) \/ Refused(m) \/ Dial(m) \/ Publish(m)
  \/ (m \in Workers /\ InitWorker(m)) \/ LookAtMap(m) \/ MakeMap(m)
  \/ StoreWorker(m) \/ ProxyRegister(m) \/ RouteMessage(m) \/ ProxyMessage(m)
  \/ AskStatus(m)

-----------------------------------------------------------------------------
(* The goroutines of worker w.                                             *)

(* sendHandler writes the next message, or logs an error and goes on. *)
WriteToWorker(w) ==
  /\ Running /\ chan[w] # "nil" /\ queue[w] # <<>>
  /\ IF conn[w] = "open"
     THEN /\ Len(wireTo[w]) < Wire
          /\ wireTo' = [wireTo EXCEPT ![w] = Append(@, Head(queue[w]))]
     ELSE UNCHANGED wireTo
  /\ queue' = [queue EXCEPT ![w] = Tail(@)]
  /\ UNCHANGED <<loopVars, h, target, sessionVars, spawned, conn, wireFrom, got,
                 chan, relays, clientVars, crashed>>

(* Mutant: the reader handles a message itself before it reads the next. *)
ReaderFree_inline(w) == \A r \in relays : r.from # w
(* The reader starts a goroutine per message, so it is always free. *)
ReaderFree(w) == TRUE

ReadFromWorker(w) ==
  /\ Running /\ chan[w] # "nil" /\ conn[w] # "closed"
  /\ wireFrom[w] # <<>> /\ ReaderFree(w)
  /\ relays' = relays \cup {[from |-> w, msg |-> Head(wireFrom[w])]}
  /\ wireFrom' = [wireFrom EXCEPT ![w] = Tail(@)]
  /\ UNCHANGED <<loopVars, h, target, sessionVars, spawned, conn, wireTo, got,
                 chan, queue, clientVars, crashed>>

(* The register acknowledgement of a file worker is answered with the      *)
(* OPEN_FILE message; everything else goes to the client.                  *)
OpensFile(r) == IsFileWorker(r.from) /\ r.msg.event = "ACK"

RelayToWorker(r) ==
  /\ Running /\ OpensFile(r)
  /\ \/ HasRoom(r.from) /\ Put(r.from, "OPEN_FILE", r.from)
        /\ relays' = relays \ {r} /\ UNCHANGED crashed
     \/ chan[r.from] = "closed" /\ crashed' = "panic" /\ UNCHANGED <<queue, relays>>
  /\ UNCHANGED <<loopVars, h, target, sessionVars, workerVars, chan, clientVars>>

(* Mutant: one more than the client's channel holds. *)
ClientHasRoom_one == clientOpen /\ Len(clientQ) <= Cap
ClientHasRoom == clientOpen /\ Len(clientQ) < Cap

RelayToClient(r) ==
  /\ Running /\ ~OpensFile(r)
  /\ \/ ClientHasRoom
        /\ clientQ' = Append(clientQ, r.msg)
        /\ relays' = relays \ {r} /\ UNCHANGED crashed
     \/ ~clientOpen /\ crashed' = "panic" /\ UNCHANGED <<clientQ, relays>>
  /\ UNCHANGED <<loopVars, h, target, sessionVars, workerVars, chan, queue,
                 clientOpen, answered>>

(* sendHandler of the client: a write after the client left is lost. *)
WriteToClient ==
  /\ Running /\ clientQ # <<>>
  /\ clientQ' = Tail(clientQ)
  /\ answered' = IF loop = "reading" THEN answered \cup {Head(clientQ).about}
                                     ELSE answered
  /\ UNCHANGED <<loopVars, h, target, sessionVars, workerVars, chan, queue, relays,
                 clientOpen, crashed>>

-----------------------------------------------------------------------------
(* The workers.  A worker takes a frame when it has room for its answer.   *)

ServeFrame(w) ==
  /\ spawned[w] = "running"
  /\ wireTo[w] # <<>> /\ Len(wireFrom[w]) < Wire
  /\ LET frame == Head(wireTo[w])
         event == IF frame.event = "REGISTER_VIEWER" THEN "ACK" ELSE "OTHER" IN
     /\ got' = [got EXCEPT ![w] = Append(@, frame)]
     /\ wireFrom' = [wireFrom EXCEPT
          ![w] = Append(@, [event |-> event, about |-> frame.about])]
  /\ wireTo' = [wireTo EXCEPT ![w] = Tail(@)]
  /\ UNCHANGED <<loopVars, h, target, sessionVars, spawned, conn, chan, queue,
                 relays, clientVars, crashed>>

(* Mutant: the reader closes the channel when the connection breaks. *)
ChanAfterExit_closed(w) == IF chan[w] = "open" THEN "closed" ELSE chan[w]
(* The reader ends and leaves the channel as it is. *)
ChanAfterExit(w) == chan[w]

(* The worker exits; its connection breaks and its reader ends. *)
WorkerExits(w) ==
  /\ "exit" \in Allowed /\ spawned[w] = "running"
  /\ spawned' = [spawned EXCEPT ![w] = "exited"]
  /\ conn' = [conn EXCEPT ![w] = IF @ = "open" THEN "broken" ELSE @]
  /\ chan' = [chan EXCEPT ![w] = ChanAfterExit(w)]
  /\ UNCHANGED <<loopVars, h, target, sessionVars, wireTo, wireFrom, got, queue,
                 relays, clientVars, crashed>>

-----------------------------------------------------------------------------
Disconnect == CloseClient \/ CheckInfo \/ CloseConn \/ CloseSend \/ Shutdown

Relaying == \E r \in relays : RelayToWorker(r) \/ RelayToClient(r)

Next ==
  \/ ReadMessage \/ ClientLeaves \/ Disconnect
  \/ \E m \in Msgs : Handle(m)
  \/ MapFault
  \/ \E w \in Workers : WriteToWorker(w) \/ ReadFromWorker(w)
  \/ Relaying \/ WriteToClient
  \/ \E w \in Workers : ServeFrame(w) \/ WorkerExits(w)

(* Goroutines that can go on are run; a worker that lives goes on serving; *)
(* the client need not send anything and may stay for ever.                *)
Fairness ==
  /\ WF_vars(\E m \in Msgs : Handle(m))
  /\ WF_vars(\E w \in Workers : WriteToWorker(w))
  /\ WF_vars(\E w \in Workers : ReadFromWorker(w))
  /\ WF_vars(\E w \in Workers : ServeFrame(w))
  /\ WF_vars(Relaying)
  /\ WF_vars(WriteToClient)
  /\ WF_vars(Disconnect)

Spec == Init /\ [][Next]_vars /\ Fairness

-----------------------------------------------------------------------------
(* Properties.                                                             *)

(* openFile.go:47-49 and sessionWorker.go:81-86: whatever else reaches a   *)
(* file worker and in whatever order, it is asked to open its file only    *)
(* after it was asked to register.                                         *)
OpenAfterRegister ==
  \A w \in Workers : \A i \in DOMAIN got[w] :
    got[w][i].event = "OPEN_FILE" =>
      \E j \in 1..(i - 1) : got[w][j].event = "REGISTER_VIEWER"

(* openFile.go:49 and sessionWorker.go:58-95: whatever goroutines pass a    *)
(* message on, a worker receives no frame twice and the client no answer.  *)
AtMostOnce ==
  \A w \in Workers : \A i, j \in DOMAIN got[w] : got[w][i] = got[w][j] => i = j
AnsweredOnce ==
  \A i \in DOMAIN clientQ :
    /\ clientQ[i].about \notin answered
    /\ \A j \in DOMAIN clientQ : clientQ[i].about = clientQ[j].about => i = j

(* sessionWorker.go:81-86: the frame that opens a file follows the one that *)
(* registers, and neither they nor their answers come a second time.       *)
DeliveredInTurn == OpenAfterRegister /\ AtMostOnce /\ AnsweredOnce

(* openFile.go:41-45 and shared.go:38-52: no worker is ever told of        *)
(* another worker's file: not when files are opened, opened again or       *)
(* looked up at the same time.                                             *)
Confined ==
  \A w \in Workers : \A i \in DOMAIN got[w] :
    LET m == got[w][i].about IN
    IsFileWorker(w) => m = w \/ (Kind(m) = "proxied" /\ File(m) = File(w))

(* How a client may use a session.  It opens its first file alone. *)
OpensOneFirst ==
  \A m, n \in Msgs : Kind(m) = "open" /\ Kind(n) = "open" /\ m # n =>
    \E k \in {m, n} : After(k) \in Msgs /\ Kind(After(k)) = "open"
(* It registers first, as often as it likes but each time after the answer *)
(* to the registration before, and has an answer to the last one, or to    *)
(* something later, before it sends anything for a worker.                 *)
Registers == {m \in Workers : Kind(m) = "register"}
AnswersFirst ==
  /\ \A m \in Msgs : Kind(m) \in {"open", "proxied"} =>
       After(m) # 0 /\ \A r \in Registers : r <= After(m)
  /\ \A r, m \in Registers : r < m => After(m) \in Registers /\ r <= After(m)
(* Or it waits for the answer to its last message about a file before it   *)
(* sends the next one.                                                     *)
AboutFile(m) == Kind(m) = "open" \/ (Kind(m) = "proxied" /\ File(m) # NoFile)
TakesTurns ==
  \A m, n \in Msgs : AboutFile(m) /\ AboutFile(n) /\ m < n =>
    After(n) \in Msgs /\ AboutFile(After(n)) /\ m <= After(n)

(* shared.go:38-48: a message the client sends once it knows its file to   *)
(* be open goes to a worker of that file, not to the shared worker and not *)
(* to another file's.                                                      *)
RoutedToFile ==
  \A m \in Msgs :
    h[m] = "send" /\ After(m) \in Workers /\ IsFileWorker(After(m))
      /\ File(After(m)) = File(m)
    => IsFileWorker(target[m]) /\ File(target[m]) = File(m)

(* sessionWorker.go:90, 115 and shared.go:60: workers that exit and        *)
(* handlers in any order never bring the controller down while the client  *)
(* stays: only the cleanup closes channels.                                *)
PanicOnlyAfterLeave == crashed = "panic" => loop # "reading"

(* session.go:104-106: nothing brings the controller down. *)
NoPanic == crashed # "panic"

(* session.go:90-92, registerViewer.go:40-45: no handler waits for ever on *)
(* a worker whose channel did not exist yet.                               *)
NeverStuck == \A m \in Msgs : h[m] # "stuck"

(* session.go:109-118: a worker whose registration was handled before the  *)
(* client left, even if the dial to it failed, does not outlive a cleanup  *)
(* that the spawner did not refuse.  Session.Info holds one worker: if the *)
(* client registered again, the one that was replaced may be left running. *)
Replaced(w) == \E n \in Registers \ {w} : spawned[n] # "none"
RegisteredStopped ==
  loop = "ended" =>
    \A w \in Registers \cap left : ~Replaced(w) => spawned[w] # "running"

(* sessionWorker.go:34-93: full channels never hold each other up: what    *)
(* the loop has read from a client that stays is answered in the end.      *)
EveryAnswer ==
  \A m \in Msgs :
    h[m] = "start" /\ Kind(m) # "malformed" ~>
      m \in answered \/ loop # "reading" \/ crashed # "no"
=============================================================================
