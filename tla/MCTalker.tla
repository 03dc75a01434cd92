------------------------------- MODULE MCTalker -------------------------------
(***************************************************************************)
(* Requests for TLC: a text shorter than its token limit, so that its end  *)
(* and padding are read; one with a language and a speaker that the limit  *)
(* cuts off, whose prompt is longer but which needs no more context; one   *)
(* with an instruction, after which the short one replaces the cache; and  *)
(* one without tokens.                                                     *)
(***************************************************************************)
EXTENDS Talker

Short ==
  [text |-> 1, instruct |-> 0, language |-> FALSE, speaker |-> FALSE, max_len |-> 4]

Voiced ==
  [text |-> 3, instruct |-> 0, language |-> TRUE, speaker |-> TRUE, max_len |-> 2]

Instructed == [Short EXCEPT !.text = 2, !.instruct = 15, !.max_len = 3]

Nothing == [Short EXCEPT !.max_len = 0]

SmallRequests == {Short, Voiced, Instructed, Nothing}
===============================================================================
