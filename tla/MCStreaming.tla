---- MODULE MCStreaming ----
(***************************************************************************)
(* Small requests for TLC: 2 samples per frame, of which the decoder loses *)
(* one per call, and at most 7 tokens.                                     *)
(***************************************************************************)
EXTENDS StreamingInvariant

\* A contexted request with a ramp window, early context and adaptive steady
\* windows of one or two frames.
Basic ==
  [first |-> 1, ramp |-> 2, rampCount |-> 1, steady |-> 2,
   adaptive |-> TRUE, adaptMin |-> 1,
   context |-> 2, early |-> 1, earlyCount |-> 2, finalContext |-> 3,
   split |-> 0, async |-> TRUE, paced |-> FALSE,
   chunk |-> 2, start |-> 3, lead |-> 3, limit |-> 7]

\* A long steady window that is split into single frames.
Split ==
  [Basic EXCEPT !.first = 2, !.rampCount = 0, !.steady = 3, !.adaptive = FALSE,
                !.early = 2, !.earlyCount = 1, !.split = 1]

\* No left context at all, and sizes below their bounds that the engine clamps.
Bare ==
  [Basic EXCEPT !.first = 2, !.rampCount = -1, !.context = 0, !.early = -1,
                !.finalContext = -1, !.split = -2, !.chunk = 0, !.start = -3,
                !.lead = 0]

Modes(p) ==
  {[p EXCEPT !.async = a, !.paced = d] : a, d \in BOOLEAN}

AllRequests == Modes(Basic) \cup Modes(Split) \cup Modes(Bare)

ContextedRequests == Modes(Basic) \cup Modes(Split)

EarlyOffRequests == Modes([Basic EXCEPT !.early = 0])

UnpacedRequests == {p \in Modes(Basic) : ~p.paced}

PacedRequests == {p \in Modes(Basic) : p.paced}
====
