------------------------------ MODULE MCSession ------------------------------
(* Session on small instances: what a client may send.                     *)
EXTENDS Session

CONSTANTS f1, f2

Sent(kind, file, after) == [kind |-> kind, file |-> file, after |-> after]

OneFile == {f1}
TwoFiles == {f1, f2}

(* The client registers a second time when the first registration is       *)
(* answered.  It waits until a file is open before it opens another, and   *)
(* for the answer that says a worker is there before it sends to it; one   *)
(* message about the first file is under way while the second is opened.   *)
Patient == <<Sent("register", NoFile, 0), Sent("register", NoFile, 1),
             Sent("open", f1, 2), Sent("proxied", f1, 3), Sent("open", f2, 3),
             Sent("malformed", NoFile, 5), Sent("proxied", f2, 5),
             Sent("status", NoFile, 5)>>

(* Two files at the same time. *)
TwoOpens == <<Sent("register", NoFile, 0), Sent("open", f1, 1),
              Sent("open", f2, 1), Sent("proxied", f1, 2), Sent("proxied", f2, 3)>>

(* More for one worker than its channels hold. *)
Flood == <<Sent("register", NoFile, 0), Sent("open", f1, 1), Sent("proxied", f1, 1),
           Sent("proxied", f1, 1), Sent("proxied", f1, 1)>>

(* A registration and one file. *)
Short == <<Sent("register", NoFile, 0), Sent("open", f1, 1)>>

(* The clients here are among those the theorems of SessionTraffic_proofs  *)
(* are about.                                                              *)
ASSUME Disciplines ==
  /\ Script = Patient => OpensOneFirst /\ AnswersFirst
  /\ Script = Short => OpensOneFirst /\ AnswersFirst /\ TakesTurns
  /\ Script = TwoOpens => ~OpensOneFirst /\ AnswersFirst
  /\ Script = Flood => AnswersFirst

Nothing == {}
Leaves == {"leave"}
Everything == {"leave", "exit", "noStart", "noStop"}
=============================================================================
