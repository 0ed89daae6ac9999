------------------------------- MODULE Launch -------------------------------
(***************************************************************************)
(* What one call of SpawnWorker promises the handler that made it: it      *)
(* either hands over a process that was started and that announced itself, *)
(* or it reports an error and leaves nothing behind, no process and no     *)
(* zombie.  How it gets there (two pipes, two goroutines, a channel, a     *)
(* timer and a context) is SpawnWorker's business, see SpawnWorker.tla.    *)
(***************************************************************************)

VARIABLES
  phase,   \* "launching" while the call runs, then "ready" or "failed"
  proc     \* the child: "none", "running", "zombie" (exited, not waited for)
           \* or "reaped"

vars == <<phase, proc>>

TypeOK ==
  /\ phase \in {"launching", "ready", "failed"}
  /\ proc \in {"none", "running", "zombie", "reaped"}

Init ==
  /\ phase = "launching"
  /\ proc = "none"

(* The child is started. *)
Begin ==
  /\ phase = "launching" /\ proc = "none"
  /\ proc' = "running"
  /\ UNCHANGED phase

(* The call gives up before there is a child. *)
Refuse ==
  /\ phase = "launching" /\ proc = "none"
  /\ phase' = "failed"
  /\ UNCHANGED proc

(* The child exits or is killed; this may happen at any time. *)
Die ==
  /\ proc = "running"
  /\ proc' = "zombie"
  /\ UNCHANGED phase

(* The call returns the child to its caller, who cannot know whether it is *)
(* still running.                                                          *)
Succeed ==
  /\ phase = "launching" /\ proc \in {"running", "zombie"}
  /\ phase' = "ready"
  /\ UNCHANGED proc

(* The call gives up on a child that ended: it waits for it and reports.   *)
Collect ==
  /\ phase = "launching" /\ proc = "zombie"
  /\ proc' = "reaped"
  /\ phase' = "failed"

(* Once it has the child the caller may wait for it as well. *)
OwnerCollects ==
  /\ phase = "ready" /\ proc = "zombie"
  /\ proc' = "reaped"
  /\ UNCHANGED phase

Next == Begin \/ Refuse \/ Die \/ Succeed \/ Collect \/ OwnerCollects

Spec == Init /\ [][Next]_vars
=============================================================================
