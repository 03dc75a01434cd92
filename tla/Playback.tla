------------------------------- MODULE Playback -------------------------------
(***************************************************************************)
(* What live playback promises a request: the device plays what the        *)
(* request wrote, in order, each sample once and nothing else; a drain     *)
(* returns only when all was heard, unless the device refused a buffer;    *)
(* and it does return.                                                     *)
(***************************************************************************)
EXTENDS Naturals, Sequences

VARIABLES
  phase,    \* "idle", "streaming" or "draining"
  written,  \* the samples the request wrote
  heard,    \* the samples the device played
  refused   \* the device refused a buffer of this request

vars == <<phase, written, heard, refused>>

Init ==
  /\ phase = "idle"
  /\ written = <<>>
  /\ heard = <<>>
  /\ refused = FALSE

Start ==
  /\ phase = "idle"
  /\ phase' = "streaming"
  /\ written' = <<>>
  /\ heard' = <<>>
  /\ refused' = FALSE

Write ==
  /\ phase = "streaming"
  /\ Len(written) < Len(written')
  /\ written = SubSeq(written', 1, Len(written))
  /\ UNCHANGED <<phase, heard, refused>>

\* What was accepted before a refusal is still played.
Hear ==
  /\ phase # "idle"
  /\ \E n \in Len(heard) + 1 .. Len(written) : heard' = SubSeq(written, 1, n)
  /\ UNCHANGED <<phase, written, refused>>

Refuse ==
  /\ phase # "idle"
  /\ ~refused
  /\ refused' = TRUE
  /\ UNCHANGED <<phase, written, heard>>

Drain ==
  /\ phase = "streaming"
  /\ phase' = "draining"
  /\ UNCHANGED <<written, heard, refused>>

Return ==
  /\ phase = "draining"
  /\ refused \/ heard = written
  /\ phase' = "idle"
  /\ UNCHANGED <<written, heard, refused>>

Next == Start \/ Write \/ Hear \/ Refuse \/ Drain \/ Return

Settle == phase = "draining" /\ (Hear \/ Refuse \/ Return)

Safety == Init /\ [][Next]_vars

\* A drain returns.
Spec == Safety /\ WF_vars(Settle)
===============================================================================
