------------------------------ MODULE PcmStream ------------------------------
(***************************************************************************)
(* What a streaming request promises its caller: the callback hears the    *)
(* utterance's samples from the first on, in order and each once; after it *)
(* asked to stop it hears nothing more; and the request succeeds only if   *)
(* nobody asked to stop and the whole utterance was heard.                 *)
(*                                                                         *)
(* The utterance is the sequence of positions 0, 1, ... ; "generated" is   *)
(* how many of them the frames generated so far amount to.                 *)
(***************************************************************************)
EXTENDS Integers, Sequences

VARIABLES generated, heard, stopped, outcome

vars == <<generated, heard, stopped, outcome>>

\* The first n samples.
Utterance(n) == [i \in 1 .. n |-> i - 1]

TypeOK ==
  /\ generated \in Nat
  /\ heard \in Seq(Nat)
  /\ stopped \in BOOLEAN
  /\ outcome \in {"running", "ok", "error"}

Init ==
  /\ generated = 0
  /\ heard = <<>>
  /\ stopped = FALSE
  /\ outcome = "running"

\* Frames are generated; samples never shrink.
Generate ==
  /\ outcome = "running"
  /\ generated' \in {n \in Nat : n > generated}
  /\ UNCHANGED <<heard, stopped, outcome>>

\* The callback is given more of the utterance and may ask to stop.
Deliver ==
  /\ outcome = "running"
  /\ ~stopped
  /\ \E n \in Len(heard) + 1 .. generated : heard' = Utterance(n)
  /\ stopped' \in BOOLEAN
  /\ UNCHANGED <<generated, outcome>>

Succeed ==
  /\ outcome = "running"
  /\ ~stopped
  /\ generated > 0
  /\ Len(heard) = generated
  /\ outcome' = "ok"
  /\ UNCHANGED <<generated, heard, stopped>>

Fail ==
  /\ outcome = "running"
  /\ outcome' = "error"
  /\ UNCHANGED <<generated, heard, stopped>>

Next == Generate \/ Deliver \/ Succeed \/ Fail

Safety == Init /\ [][Next]_vars

\* The request always returns.
Spec == Safety /\ WF_vars(Succeed \/ Fail)
=============================================================================
