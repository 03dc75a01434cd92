----------------------------- MODULE TailWindows -----------------------------
(***************************************************************************)
(* Tail-context windows: how a streaming request is cut into vocoder jobs  *)
(* and which PCM each job contributes                                      *)
(* (engine/src/pipeline/pipeline_synthesize.cpp).                          *)
(*                                                                         *)
(* A job decodes the frames ctx_start .. end_frame - 1.  The frames before *)
(* new_start are left context: their samples are dropped after the decode. *)
(* A sample is identified by its position in the utterance, so that a      *)
(* repeated, missing or reordered sample is visible in a sequence of them. *)
(***************************************************************************)
EXTENDS Integers, Sequences

CONSTANTS
  SamplesPerFrame,  \* PCM samples of one codec frame (1920 at 24 kHz)
  DecoderTrim,      \* samples the decoder loses per call (555 at 24 kHz)
  DefaultSteady     \* steady window when the request names none: 12 or 7,
                    \* by the talker's hidden size

ASSUME DecoderAssumption ==
  /\ SamplesPerFrame \in Nat
  /\ DecoderTrim \in Nat
  /\ DecoderTrim < SamplesPerFrame

ASSUME SteadyAssumption == DefaultSteady \in Nat \ {0}
-----------------------------------------------------------------------------
Larger(a, b) == IF a >= b THEN a ELSE b

Smaller(a, b) == IF a <= b THEN a ELSE b

\* Mutant: negative parameters are taken as they are.
Unclamped(v) == v

NonNegative(v) == Larger(0, v)

ClampPositive(v, fallback) == IF v > 0 THEN v ELSE fallback

ClampWindow(v, low, high) ==
  IF high < low THEN low ELSE Larger(low, Smaller(v, high))

(***************************************************************************)
(* What a request may ask for: any integers, as the fields of tts_params.  *)
(* The delivery sizes are counted in samples of the model; "limit" is the  *)
(* generation token limit, which the validation keeps positive.            *)
(***************************************************************************)
RawRequest ==
  [first : Int, ramp : Int, rampCount : Int, steady : Int,
   adaptive : BOOLEAN, adaptMin : Int,
   context : Int, early : Int, earlyCount : Int, finalContext : Int,
   split : Int, async : BOOLEAN, paced : BOOLEAN,
   chunk : Int, start : Int, lead : Int, limit : Nat \ {0}]

Steady(p) == ClampPositive(p.steady, DefaultSteady)

\* The request as synthesize_internal uses it, after its clamping.  Delivery is
\* to a callback: start and lead are then the effective start buffer and the
\* startup target of a callback-driven delivery.
Normalised(p) ==
  [first        |-> ClampPositive(p.first, 3),
   ramp         |-> ClampPositive(p.ramp, 6),
   rampCount    |-> NonNegative(p.rampCount),
   steady       |-> Steady(p),
   adaptMin     |-> IF p.adaptive
                      THEN ClampWindow(ClampPositive(p.adaptMin, 4), 1, Steady(p))
                      ELSE Steady(p),
   context      |-> NonNegative(p.context),
   early        |-> NonNegative(p.early),
   earlyCount   |-> NonNegative(p.earlyCount),
   finalContext |-> Larger(NonNegative(p.context), p.finalContext),
   split        |-> NonNegative(p.split),
   async        |-> p.async,
   paced        |-> p.paced,
   chunk        |-> Larger(1, p.chunk),
   start        |-> Smaller(Larger(1, p.start), Larger(1, p.chunk)),
   lead         |-> Larger(Larger(1, p.chunk), Larger(1, p.lead)),
   limit        |-> p.limit]

Request ==
  [first : Nat \ {0}, ramp : Nat \ {0}, rampCount : Nat, steady : Nat \ {0},
   adaptMin : Nat \ {0},
   context : Nat, early : Nat, earlyCount : Nat, finalContext : Nat,
   split : Nat, async : BOOLEAN, paced : BOOLEAN,
   chunk : Nat \ {0}, start : Nat \ {0}, lead : Nat \ {0}, limit : Nat \ {0}]

\* select_steady_window_frames: between the adaptive minimum and the steady
\* window, by an estimate of the audio still queued that depends on the clock.
SteadyWindows(r) == r.adaptMin .. r.steady
-----------------------------------------------------------------------------
\* qwen3_decoder_samples_for_frames, and what the decoder returns for n frames.
SamplesFor(n) == IF n <= 0 THEN 0 ELSE n * SamplesPerFrame - DecoderTrim

Job ==
  [ctx_start : Nat, new_start : Nat, end_frame : Nat, is_final : BOOLEAN]

MakeJob(context, new_start, end_frame, is_final) ==
  [ctx_start |-> Larger(0, new_start - context), new_start |-> new_start,
   end_frame |-> end_frame, is_final |-> is_final]

DecodedSamples(j) == SamplesFor(j.end_frame - j.ctx_start)

\* Mutant: the trim is not taken off the dropped context.
DroppedUntrimmed(j) ==
  Smaller(DecodedSamples(j), (j.new_start - j.ctx_start) * SamplesPerFrame)

DroppedSamples(j) ==
  Smaller(DecodedSamples(j), SamplesFor(j.new_start - j.ctx_start))

\* The positions low .. high - 1 of the utterance, in order.
Positions(low, high) == [i \in 1 .. high - low |-> low + i - 1]

\* Sample i of the sequence is sample i of the utterance.
IsUtterance(samples) == \A i \in 1 .. Len(samples) : samples[i] = i - 1

\* The PCM that process_decode_job appends for job j.
NewPcm(j) ==
  Positions(j.ctx_start * SamplesPerFrame + DroppedSamples(j),
            j.ctx_start * SamplesPerFrame + DecodedSamples(j))
=============================================================================
