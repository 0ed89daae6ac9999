----------------------------- MODULE SpawnWorker -----------------------------
(***************************************************************************)
(* One call of processHelpers.SpawnWorker in carta-spawn: the child        *)
(* process, the two pipes it logs to, the goroutine that reads each of     *)
(* them, the channel on which they report the announced port, and the      *)
(* caller that waits for the port, the deadline or the end of the global   *)
(* context.                                                                *)
(*                                                                         *)
(* A log line is abstracted to what the code tells apart: the port it      *)
(* announces, any other line, and one bufio.Scanner does not accept.       *)
(***************************************************************************)
EXTENDS Naturals, Sequences

CONSTANTS
  Pipes,      \* the child's output streams, stdout and stderr
  Ports,      \* ports that a line can announce
  Chatter,    \* any other line the scanner accepts
  Oversized,  \* a line above bufio.MaxScanTokenSize (64 KiB)
  Lines,      \* the lines the child of this run may write
  NoPort,     \* no port received
  PipeCap,    \* lines a pipe holds before its writer blocks
  MaxLines,   \* bound: lines the child writes to one pipe
  Faults      \* what may fail: "kill" (signals refused), "output" (stdio)

ASSUME LinesAssumption ==
  /\ Lines \subseteq Ports \cup {Chatter, Oversized}
  /\ {NoPort, Chatter, Oversized} \cap Ports = {}
ASSUME BoundsAssumption == PipeCap \in Nat \ {0} /\ MaxLines \in Nat
ASSUME FaultsAssumption == Faults \subseteq {"kill", "output"}

VARIABLES
  main,      \* the call: "prepare", "waiting", "killing", "reaping" and how
             \* it returned, "ok" or "failed"
  port,      \* the port it returned
  proc,      \* the child: "none", "running", "zombie" or "reaped"
  pipe,      \* pipe[p]: lines written and not yet read
  closed,    \* Wait has closed the read ends
  watcher,   \* watcher[p]: "off", "scan", "forward", "offer" or "stopped"
  line,      \* line[p]: the line watcher p holds
  readyCh,   \* the channel of capacity 1
  expired,   \* ctxReady's deadline has passed
  ctxDone,   \* the global context is cancelled
  wrote,     \* history: wrote[p], the lines the child wrote to p
  forwarded  \* history: forwarded[p], the lines passed on to our own stdio

callVars == <<main, port, expired>>
watchVars == <<watcher, line, forwarded>>
vars == <<main, port, proc, pipe, closed, watcher, line, readyCh, expired,
          ctxDone, wrote, forwarded>>

TypeOK ==
  /\ main \in {"prepare", "waiting", "killing", "reaping", "ok", "failed"}
  /\ port \in Ports \cup {NoPort}
  /\ proc \in {"none", "running", "zombie", "reaped"}
  /\ pipe \in [Pipes -> Seq(Lines)]
  /\ closed \in BOOLEAN
  /\ watcher \in [Pipes -> {"off", "scan", "forward", "offer", "stopped"}]
  /\ line \in [Pipes -> Lines \cup {NoPort}]
  /\ readyCh \in Seq(Ports)
  /\ expired \in BOOLEAN
  /\ ctxDone \in BOOLEAN
  /\ wrote \in [Pipes -> Seq(Lines)]
  /\ forwarded \in [Pipes -> Seq(Lines)]

Init ==
  /\ main = "prepare" /\ port = NoPort
  /\ proc = "none"
  /\ pipe = [p \in Pipes |-> <<>>] /\ closed = FALSE
  /\ watcher = [p \in Pipes |-> "off"] /\ line = [p \in Pipes |-> NoPort]
  /\ readyCh = <<>>
  /\ expired = FALSE /\ ctxDone = FALSE
  /\ wrote = [p \in Pipes |-> <<>>] /\ forwarded = [p \in Pipes |-> <<>>]

(* Whether parsePortFromLine finds a port in a line. *)
AnnouncesPort_anyLine(l) == TRUE  \* mutant: the submatch is not checked
AnnouncesPort(l) == l \in Ports

(* The channel after the select that offers it a port: it keeps the first. *)
Offered_latest(l) == <<l>>        \* mutant: the last announcement wins
Offered(l) == IF readyCh = <<>> THEN <<l>> ELSE readyCh

(* The child after Process.Kill. *)
Killed_forgotten(s) == s          \* mutant: no kill on the error path
Killed(s) == IF s = "running" /\ "kill" \notin Faults THEN "zombie" ELSE s

-----------------------------------------------------------------------------
(* The caller.                                                             *)

(* Unknown user, bad template, no pipe, or Start itself fails (it does when *)
(* the context is already done).                                           *)
PrepareFails ==
  /\ main = "prepare"
  /\ main' = "failed"
  /\ UNCHANGED <<port, proc, pipe, closed, watchVars, readyCh, expired,
                 ctxDone, wrote>>

StartWorker ==
  /\ main = "prepare" /\ ~ctxDone
  /\ main' = "waiting"
  /\ proc' = "running"
  /\ watcher' = [p \in Pipes |-> "scan"]
  /\ UNCHANGED <<port, pipe, closed, line, readyCh, expired, ctxDone, wrote,
                 forwarded>>

(* case p := <-readyCh *)
ReturnReady ==
  /\ main = "waiting" /\ readyCh # <<>>
  /\ main' = "ok"
  /\ port' = Head(readyCh)
  /\ readyCh' = Tail(readyCh)
  /\ UNCHANGED <<proc, pipe, closed, watchVars, expired, ctxDone, wrote>>

(* case <-ctxReady.Done(): the deadline, or the context it derives from.   *)
GiveUp ==
  /\ main = "waiting" /\ (expired \/ ctxDone)
  /\ main' = "killing"
  /\ UNCHANGED <<port, proc, pipe, closed, watchVars, readyCh, expired,
                 ctxDone, wrote>>

(* _ = cmd.Process.Kill() *)
KillWorker ==
  /\ main = "killing"
  /\ main' = "reaping"
  /\ proc' = Killed(proc)
  /\ UNCHANGED <<port, pipe, closed, watchVars, readyCh, expired, ctxDone,
                 wrote>>

(* Mutant: the error path kills the child and never waits for it. *)
ReapWorker_noWait ==
  /\ main = "reaping"
  /\ main' = "failed"
  /\ UNCHANGED <<proc, closed, port, pipe, watchVars, readyCh, expired, ctxDone,
                 wrote>>

(* _ = cmd.Wait(), which returns once the child has exited, and closes the *)
(* read ends of the pipes.                                                 *)
ReapWorker ==
  /\ main = "reaping" /\ proc = "zombie"
  /\ main' = "failed"
  /\ proc' = "reaped"
  /\ closed' = TRUE
  /\ UNCHANGED <<port, pipe, watchVars, readyCh, expired, ctxDone, wrote>>

-----------------------------------------------------------------------------
(* The goroutine that watches pipe p.                                      *)

(* s.Scan() returns a line. *)
ScanLine(p) ==
  /\ watcher[p] = "scan" /\ ~closed
  /\ pipe[p] # <<>> /\ Head(pipe[p]) # Oversized
  /\ line' = [line EXCEPT ![p] = Head(pipe[p])]
  /\ pipe' = [pipe EXCEPT ![p] = Tail(@)]
  /\ watcher' = [watcher EXCEPT ![p] = "forward"]
  /\ UNCHANGED <<callVars, proc, closed, readyCh, ctxDone, wrote, forwarded>>

(* s.Scan() returns false: the token is too long.  What was read of it is  *)
(* lost.                                                                   *)
ScanTooLong(p) ==
  /\ watcher[p] = "scan" /\ ~closed
  /\ pipe[p] # <<>> /\ Head(pipe[p]) = Oversized
  /\ pipe' = [pipe EXCEPT ![p] = Tail(@)]
  /\ watcher' = [watcher EXCEPT ![p] = "stopped"]
  /\ UNCHANGED <<callVars, proc, closed, line, readyCh, ctxDone, wrote,
                 forwarded>>

(* s.Scan() returns false: the pipe is at its end, or closed on our side.  *)
ScanEnds(p) ==
  /\ watcher[p] = "scan"
  /\ closed \/ (pipe[p] = <<>> /\ proc # "running")
  /\ watcher' = [watcher EXCEPT ![p] = "stopped"]
  /\ UNCHANGED <<callVars, proc, pipe, closed, line, readyCh, ctxDone, wrote,
                 forwarded>>

(* Mutant: the line that announces the port is kept back. *)
Passed_keepPort(p) == IF AnnouncesPort(line[p]) THEN <<>> ELSE <<line[p]>>
(* What one Fprintln adds to our own output. *)
Passed(p) == <<line[p]>>

(* Fprintln(w, line), then parsePortFromLine(line). *)
ForwardLine(p) ==
  /\ watcher[p] = "forward"
  /\ forwarded' = [forwarded EXCEPT ![p] = @ \o Passed(p)]
  /\ watcher' = [watcher EXCEPT ![p] = IF AnnouncesPort(line[p])
                                       THEN "offer" ELSE "scan"]
  /\ UNCHANGED <<callVars, proc, pipe, closed, line, readyCh, ctxDone, wrote>>

(* Fprintln fails: the goroutine returns. *)
ForwardFails(p) ==
  /\ watcher[p] = "forward" /\ "output" \in Faults
  /\ watcher' = [watcher EXCEPT ![p] = "stopped"]
  /\ UNCHANGED <<callVars, proc, pipe, closed, line, readyCh, ctxDone, wrote,
                 forwarded>>

(* Mutant: readyCh <- p without a default. *)
OfferPort_blocking(p) ==
  /\ watcher[p] = "offer" /\ readyCh = <<>>
  /\ readyCh' = <<line[p]>>
  /\ watcher' = [watcher EXCEPT ![p] = "scan"]
  /\ UNCHANGED <<callVars, proc, pipe, closed, line, ctxDone, wrote, forwarded>>

(* select { case readyCh <- p: default: } *)
OfferPort(p) ==
  /\ watcher[p] = "offer"
  /\ readyCh' = Offered(line[p])
  /\ watcher' = [watcher EXCEPT ![p] = "scan"]
  /\ UNCHANGED <<callVars, proc, pipe, closed, line, ctxDone, wrote, forwarded>>

Watch(p) == \/ ScanLine(p) \/ ScanTooLong(p) \/ ScanEnds(p)
            \/ ForwardLine(p) \/ ForwardFails(p) \/ OfferPort(p)

-----------------------------------------------------------------------------
(* The child, the clock and the signal handler.                            *)

WorkerWrites(p, l) ==
  /\ proc = "running"
  /\ Len(pipe[p]) < PipeCap /\ Len(wrote[p]) < MaxLines
  /\ pipe' = [pipe EXCEPT ![p] = Append(@, l)]
  /\ wrote' = [wrote EXCEPT ![p] = Append(@, l)]
  /\ UNCHANGED <<callVars, proc, closed, watchVars, readyCh, ctxDone>>

WorkerExits ==
  /\ proc = "running"
  /\ proc' = "zombie"
  /\ UNCHANGED <<callVars, pipe, closed, watchVars, readyCh, ctxDone, wrote>>

(* exec.CommandContext kills the child once the context is done. *)
ContextKills ==
  /\ proc = "running" /\ ctxDone /\ "kill" \notin Faults
  /\ proc' = "zombie"
  /\ UNCHANGED <<callVars, pipe, closed, watchVars, readyCh, ctxDone, wrote>>

DeadlinePasses ==
  /\ main = "waiting" /\ ~expired
  /\ expired' = TRUE
  /\ UNCHANGED <<main, port, proc, pipe, closed, watchVars, readyCh, ctxDone,
                 wrote>>

SignalArrives ==
  /\ ~ctxDone
  /\ ctxDone' = TRUE
  /\ UNCHANGED <<callVars, proc, pipe, closed, watchVars, readyCh, wrote>>

-----------------------------------------------------------------------------
Caller == \/ PrepareFails \/ StartWorker \/ ReturnReady \/ GiveUp
          \/ KillWorker \/ ReapWorker

Environment ==
  \/ \E p \in Pipes, l \in Lines : WorkerWrites(p, l)
  \/ WorkerExits \/ ContextKills \/ DeadlinePasses \/ SignalArrives

Next == Caller \/ (\E p \in Pipes : Watch(p)) \/ Environment

Spec == Init /\ [][Next]_vars

(* Goroutines are scheduled and the timer fires; nothing makes the child   *)
(* write or exit, and nobody has to send the signal.                       *)
Fairness ==
  /\ WF_vars(Caller)
  /\ \A p \in Pipes : WF_vars(Watch(p))
  /\ WF_vars(DeadlinePasses) /\ WF_vars(ContextKills)

FairSpec == Spec /\ Fairness

-----------------------------------------------------------------------------
(* Properties.                                                             *)

(* The port returned is the first one that some stream announced: later    *)
(* announcements, on either stream, never replace one already reported.    *)
FirstAnnouncement ==
  main = "ok" =>
    \E p \in Pipes : \E i \in 1..Len(forwarded[p]) :
      /\ forwarded[p][i] = port
      /\ \A j \in 1..(i - 1) : ~AnnouncesPort(forwarded[p][j])

(* The lines of a watcher that is still at work, in order: passed on, in   *)
(* hand, and waiting in the pipe.                                          *)
Accounted(p) ==
  forwarded[p] \o (IF watcher[p] = "forward" THEN <<line[p]>> ELSE <<>>)
               \o pipe[p]

(* While a watcher is at work no line the child wrote is lost, doubled or  *)
(* moved on its way to our own output.                                     *)
NothingLost == \A p \in Pipes : watcher[p] # "stopped" => Accounted(p) = wrote[p]

(* A call that started a child returns. *)
CallReturns == (main = "waiting") ~> (main \in {"ok", "failed"})

(* The child can get rid of its output, long after the port was reported:  *)
(* a full pipe is read again, unless the child is gone or its watcher gave *)
(* up.  This is what the default of the select in watch is for.            *)
PipesDrained ==
  \A p \in Pipes : (Len(pipe[p]) = PipeCap) ~>
    (Len(pipe[p]) < PipeCap \/ proc # "running" \/ watcher[p] = "stopped")

(* "while still forwarding output to the parent process' stdio": whatever  *)
(* lines it writes, the child can get rid of its output.                   *)
OutputForwarded ==
  \A p \in Pipes :
    (Len(pipe[p]) = PipeCap) ~> (Len(pipe[p]) < PipeCap \/ proc # "running")

(* The call keeps the promise of Launch. *)
Promise == INSTANCE Launch WITH
  phase <- CASE main = "ok" -> "ready" [] main = "failed" -> "failed"
             [] OTHER -> "launching"

Implements == Promise!Spec
=============================================================================
