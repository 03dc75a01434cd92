----------------------------- MODULE FrameSource -----------------------------
(***************************************************************************)
(* What a generation promises whoever gave it an on_frame callback: the    *)
(* callback is called with one frame more each time, never beyond the      *)
(* token limit; a last call says that no more will come; a call that       *)
(* answers false ends the generation at once; and the generation ends.     *)
(* The streaming pipeline is built on this and on nothing else.            *)
(***************************************************************************)
EXTENDS Integers

VARIABLES generating, limit, given, finals, result

vars == <<generating, limit, given, finals, result>>

TypeOK ==
  /\ generating \in BOOLEAN
  /\ limit \in Int
  /\ given \in Nat
  /\ finals \in {0, 1}
  /\ result \in {"none", "ok", "failed", "crashed"}

Init ==
  /\ generating = FALSE
  /\ limit = 0
  /\ given = 0
  /\ finals = 0
  /\ result = "none"

Ends(answer) ==
  /\ generating' = FALSE
  /\ result' = answer

\* A limit that allows no token is an empty success without any callback.
Begin ==
  /\ ~generating
  /\ result # "crashed"
  /\ limit' \in Int
  /\ given' = 0
  /\ finals' = 0
  /\ \/ generating' = TRUE /\ result' = "none"
     \/ limit' <= 0 /\ Ends("ok")

\* One more frame, to which the callback may answer that it wants no more.
Give ==
  /\ generating
  /\ given < limit
  /\ given' = given + 1
  /\ UNCHANGED <<limit, finals>>
  /\ \/ UNCHANGED <<generating, result>>
     \/ Ends("failed")

\* The final callback may refuse as well.
Finish ==
  /\ generating
  /\ finals' = 1
  /\ UNCHANGED <<limit, given>>
  /\ \E answer \in {"ok", "failed"} : Ends(answer)

Break ==
  /\ generating
  /\ UNCHANGED <<limit, given, finals>>
  /\ \E answer \in {"failed", "crashed"} : Ends(answer)

Next == Begin \/ Give \/ Finish \/ Break

Safety == Init /\ [][Next]_vars

\* A generation always ends.
Spec == Safety /\ WF_vars(Finish \/ Break)
==============================================================================
