---------------------------- MODULE StreamingProofs ----------------------------
(***************************************************************************)
(* Proofs about StreamingSynthesis for every set of requests, every number *)
(* of frames and every decoder that loses less than a frame per call.      *)
(*                                                                         *)
(* IInv is inductive: one lemma per part of it says that a step of Next    *)
(* preserves that part, with one step per action that can disturb it.      *)
(***************************************************************************)
EXTENDS StreamingInvariant, SequenceTheorems, TLAPS

-----------------------------------------------------------------------------
(***************************************************************************)
(* Windows: a job's PCM tiles with its predecessor's.                      *)
(***************************************************************************)
\* The clamping of synthesize_internal turns any request into a usable one.
LEMMA NormalisedRequest ==
  ASSUME NEW p \in RawRequest
  PROVE  /\ Normalised(p) \in Request
         /\ Normalised(p).context <= Normalised(p).finalContext
<1>1. Steady(p) \in Nat \ {0}
  BY SteadyAssumption DEF Steady, ClampPositive, RawRequest
<1>2. ClampPositive(p.adaptMin, 4) \in Nat \ {0}
  BY DEF ClampPositive, RawRequest
<1>3. ClampWindow(ClampPositive(p.adaptMin, 4), 1, Steady(p)) \in Nat \ {0}
  BY <1>1, <1>2 DEF ClampWindow, Larger, Smaller
<1>4. QED
  BY <1>1, <1>3
     DEF Normalised, Request, RawRequest, ClampPositive, NonNegative, Larger, Smaller

\* What the decoder returns for n frames is a number of samples.
LEMMA SamplesForNat ==
  ASSUME NEW n \in Int
  PROVE  SamplesFor(n) \in Nat
<1>1. CASE n <= 0
  BY <1>1 DEF SamplesFor
<1>2. CASE n > 0
  <2>1. PICK m \in Nat : n = m + 1
    <3>1. n - 1 \in Nat
      BY <1>2
    <3>2. QED
      BY <3>1
  <2>2. m * SamplesPerFrame \in Nat
    BY DecoderAssumption
  <2>3. n * SamplesPerFrame = m * SamplesPerFrame + SamplesPerFrame
    BY <2>1, DecoderAssumption
  <2>4. QED
    BY <1>2, <2>2, <2>3, DecoderAssumption DEF SamplesFor
<1>3. QED
  BY <1>1, <1>2

\* More frames decode to more samples.
LEMMA SamplesForMonotone ==
  ASSUME NEW m \in Nat, NEW n \in Nat, m < n
  PROVE  SamplesFor(m) < SamplesFor(n)
<1>1. PICK d \in Nat : n = m + d + 1
  <2>1. n - m - 1 \in Nat
    OBVIOUS
  <2>2. QED
    BY <2>1
<1>2. n * SamplesPerFrame = m * SamplesPerFrame + d * SamplesPerFrame + SamplesPerFrame
  BY <1>1, DecoderAssumption
<1>3. m * SamplesPerFrame \in Nat /\ d * SamplesPerFrame \in Nat
  BY DecoderAssumption
<1>4. QED
  BY <1>1, <1>2, <1>3, DecoderAssumption DEF SamplesFor

\* The samples that a job with enough context appends start exactly where those
\* of the frames before new_start end, and end with those of its last frame.
LEMMA NewPcmTiles ==
  ASSUME NEW j \in Job,
         j.ctx_start <= j.new_start, j.new_start < j.end_frame,
         j.new_start > 0 => j.ctx_start < j.new_start
  PROVE  NewPcm(j) = Positions(SamplesFor(j.new_start), SamplesFor(j.end_frame))
<1> DEFINE c == j.ctx_start
           s == j.new_start
           e == j.end_frame
<1>1. c \in Nat /\ s \in Nat /\ e \in Nat /\ c < e
  BY DEF Job
<1>2. c * SamplesPerFrame + (e - c) * SamplesPerFrame = e * SamplesPerFrame
  BY <1>1, DecoderAssumption
<1>3. (e - c) * SamplesPerFrame \in Int /\ c * SamplesPerFrame \in Int
  BY <1>1, DecoderAssumption
<1>4. c * SamplesPerFrame + DecodedSamples(j) = SamplesFor(e)
  BY <1>1, <1>2, <1>3, DecoderAssumption DEF DecodedSamples, SamplesFor
<1>5. c * SamplesPerFrame + DroppedSamples(j) = SamplesFor(s)
  <2>1. CASE s = 0
    <3>1. c = 0
      BY <2>1, <1>1
    <3>2. SamplesFor(s - c) = 0 /\ SamplesFor(s) = 0
      BY <2>1, <3>1 DEF SamplesFor
    <3>3. DecodedSamples(j) \in Nat
      BY <1>1, SamplesForNat DEF DecodedSamples
    <3>4. DroppedSamples(j) = 0
      BY <3>2, <3>3 DEF DroppedSamples, Smaller
    <3>5. QED
      BY <3>1, <3>2, <3>4, DecoderAssumption
  <2>2. CASE s > 0
    <3>1. c < s
      BY <2>2
    <3>2. SamplesFor(s - c) < SamplesFor(e - c)
      BY <3>1, <1>1, SamplesForMonotone
    <3>3. DroppedSamples(j) = SamplesFor(s - c)
      BY <3>2, <1>1, SamplesForNat DEF DroppedSamples, DecodedSamples, Smaller
    <3>4. c * SamplesPerFrame + (s - c) * SamplesPerFrame = s * SamplesPerFrame
      BY <1>1, DecoderAssumption
    <3>5. (s - c) * SamplesPerFrame \in Int
      BY <1>1, DecoderAssumption
    <3>6. QED
      BY <3>1, <3>3, <3>4, <3>5, <2>2, <1>1, <1>3, DecoderAssumption DEF SamplesFor
  <2>3. QED
    BY <2>1, <2>2, <1>1
<1>6. QED
  BY <1>4, <1>5 DEF NewPcm

\* A job appends a sequence of positions.
LEMMA NewPcmType ==
  ASSUME NEW j \in Job
  PROVE  NewPcm(j) \in Seq(Int)
<1>1. j.end_frame - j.ctx_start \in Int /\ j.new_start - j.ctx_start \in Int
  BY DEF Job
<1>2. DecodedSamples(j) \in Nat
  BY <1>1, SamplesForNat DEF DecodedSamples
<1>3. DroppedSamples(j) \in Nat
  BY <1>1, <1>2, SamplesForNat DEF DroppedSamples, Smaller
<1>4. j.ctx_start * SamplesPerFrame \in Int
  BY DecoderAssumption DEF Job
<1>5. ASSUME NEW low \in Int, NEW high \in Int, low <= high
      PROVE  Positions(low, high) \in Seq(Int)
  <2>1. high - low \in Nat
    BY <1>5
  <2>2. \A i \in 1 .. high - low : low + i - 1 \in Int
    BY <1>5
  <2>3. QED
    BY <2>1, <2>2 DEF Positions
<1>6. DroppedSamples(j) <= DecodedSamples(j)
  BY <1>1, <1>2, SamplesForNat DEF DroppedSamples, Smaller
<1> DEFINE low == j.ctx_start * SamplesPerFrame + DroppedSamples(j)
           high == j.ctx_start * SamplesPerFrame + DecodedSamples(j)
<1>7. low \in Int /\ high \in Int /\ low <= high
  BY <1>2, <1>3, <1>4, <1>6
<1>8. Positions(low, high) \in Seq(Int)
  BY <1>5, <1>7
<1>9. QED
  BY <1>8 DEF NewPcm

\* Appending the next positions to a beginning of the utterance extends it.
LEMMA AppendPositions ==
  ASSUME NEW samples \in Seq(Int), IsUtterance(samples),
         NEW high \in Nat, Len(samples) <= high
  PROVE  LET longer == samples \o Positions(Len(samples), high)
         IN  /\ longer \in Seq(Int)
             /\ Len(longer) = high
             /\ IsUtterance(longer)
<1> DEFINE low == Len(samples)
           more == Positions(low, high)
           longer == samples \o more
<1>1. low \in Nat /\ high - low \in Nat
  OBVIOUS
<1>2. more \in Seq(Int)
  <2>1. \A i \in 1 .. high - low : low + i - 1 \in Int
    BY <1>1
  <2>2. QED
    BY <1>1, <2>1 DEF Positions
<1>3. Len(more) = high - low /\ \A i \in 1 .. high - low : more[i] = low + i - 1
  BY <1>1 DEF Positions
<1>4. longer \in Seq(Int) /\ Len(longer) = high
  BY <1>1, <1>2, <1>3
<1>5. \A i \in 1 .. low : longer[i] = i - 1
  BY <1>1, <1>2 DEF IsUtterance
<1>6. \A i \in 1 .. high : i > low => longer[i] = more[i - low]
  BY <1>1, <1>2, <1>3
<1> HIDE DEF low, more, longer
<1>7. ASSUME NEW i \in 1 .. high, i > low
      PROVE  longer[i] = i - 1
  <2>1. i - low \in 1 .. high - low
    BY <1>7, <1>1
  <2>2. more[i - low] = low + (i - low) - 1
    BY <2>1, <1>3
  <2>3. low + (i - low) - 1 = i - 1
    BY <1>1
  <2>4. QED
    BY <2>2, <2>3, <1>6, <1>7
<1>8. \A i \in 1 .. high : longer[i] = i - 1
  <2>1. low \in Nat
    BY <1>1
  <2>2. \A i \in 1 .. high : i \in 1 .. low \/ i > low
    BY <2>1
  <2>3. QED
    BY <2>2, <1>5, <1>7
<1>9. QED
  BY <1>4, <1>8 DEF IsUtterance, longer, more, low

-----------------------------------------------------------------------------
(***************************************************************************)
(* What the compound actions do.                                           *)
(***************************************************************************)

\* The steps of the two workers, which leave generation and windows alone.
LEMMA WorkersKeepWindows ==
  ASSUME DecodeWorker \/ DeliveryWorker \/ Returned \/ UNCHANGED vars
  PROVE  UNCHANGED <<generation, pc, windowing, split_start>>
BY DEF DecodeWorker, DeliveryWorker, Returned, vars,
       TakeJob, ProcessJob, ProcessJobFails, ProcessJobStopped, RecordStop, AbortWorker, ExitWorker,
       SelectChunk, EmitChunk, EmitChunkStopped, ExitDelivery

\* The job about to be submitted starts at split_start and does not go beyond
\* its window.
LEMMA NextJobFacts ==
  ASSUME TypeOK, RequestInv, WindowInv, pc = "submit"
  PROVE  /\ NextJob \in Job
         /\ JobOK(NextJob)
         /\ NextJob.new_start = split_start
         /\ NextJob.end_frame <= window.end
         /\ NextJob.is_final = window.is_final
<1>1. /\ window.end \in Nat /\ window.context \in Nat /\ window.split \in Nat
      /\ window.is_final \in BOOLEAN /\ split_start \in Nat /\ frames \in Nat
  BY DEF TypeOK, WindowingType, GenerationType, Window
<1>2. /\ split_start < window.end /\ window.end <= frames
      /\ Contexted => window.context > 0
  BY DEF WindowInv
<1> DEFINE end == IF window.split > 0
                    THEN Smaller(window.end, split_start + window.split)
                    ELSE window.end
           start == Larger(0, split_start - window.context)
<1>3. end \in Nat /\ split_start < end /\ end <= window.end
  BY <1>1, <1>2 DEF Smaller
<1>4. /\ start \in Nat /\ start <= split_start
      /\ Contexted /\ split_start > 0 => start < split_start
  BY <1>1, <1>2 DEF Larger
<1>5. NextJob = [ctx_start |-> start, new_start |-> split_start,
                 end_frame |-> end, is_final |-> window.is_final]
  BY DEF NextJob, MakeJob
<1> HIDE DEF end, start
<1>6. QED
  BY <1>1, <1>2, <1>3, <1>4, <1>5 DEF Job, JobOK, JobFits

\* A job held or submitted reads generated codes with the context it needs.
LEMMA DecodesFacts ==
  ASSUME TypeOK, NEW j \in Job, NEW keep \in BOOLEAN, Decodes(j, keep)
  PROVE  /\ audio' = audio \o NewPcm(j)
         /\ audio' \in Seq(Int)
         /\ buffered' \in Seq(Int)
         /\ heard' \in Seq(Int)
         /\ finals' \in Nat
         /\ stop_frame' \in Int
         /\ last_completed_frame' =
              IF keep THEN j.end_frame ELSE last_completed_frame
         /\ last_completed_frame' \in Nat
         /\ stop_frame' = IF keep THEN stop_frame ELSE frames
         /\ req.paced => buffered' = buffered \o NewPcm(j)
                         /\ UNCHANGED application /\ keep
         /\ ~req.paced => UNCHANGED buffered /\ heard' = heard \o NewPcm(j)
                         /\ finals' = IF j.is_final THEN finals + 1 ELSE finals
<1>1. NewPcm(j) \in Seq(Int)
  BY NewPcmType
<1>2. j.end_frame \in Nat
  BY DEF Job
<1>3. audio \in Seq(Int) /\ buffered \in Seq(Int) /\ heard \in Seq(Int)
      /\ finals \in Nat /\ stop_frame \in Int /\ frames \in Nat
      /\ last_completed_frame \in Nat
  BY DEF TypeOK, GenerationType, PcmType, ApplicationType
<1>4. /\ audio' = audio \o NewPcm(j)
      /\ last_completed_frame' = IF keep THEN j.end_frame ELSE last_completed_frame
  BY Zenon DEF Decodes
<1>5. CASE req.paced
  <2>1. keep /\ buffered' = buffered \o NewPcm(j) /\ UNCHANGED application
    BY <1>5, Zenon DEF Decodes
  <2>2. heard' = heard /\ finals' = finals /\ stop_frame' = stop_frame
    BY <2>1 DEF application
  <2>3. QED
    BY <1>1, <1>2, <1>3, <1>4, <1>5, <2>1, <2>2
<1>6. CASE ~req.paced
  <2>1. UNCHANGED buffered /\ CallBack(NewPcm(j), j.is_final, keep)
    BY <1>6, Zenon DEF Decodes
  <2>2. /\ buffered' = buffered
        /\ heard' = heard \o NewPcm(j)
        /\ finals' = IF j.is_final THEN finals + 1 ELSE finals
        /\ stop_frame' = IF keep THEN stop_frame ELSE frames
    BY <2>1, Zenon DEF CallBack
  <2>3. heard' \in Seq(Int) /\ finals' \in Nat /\ stop_frame' \in Int
    BY <1>1, <1>3, <2>2
  <2>4. last_completed_frame' \in Nat /\ audio' \in Seq(Int) /\ buffered' \in Seq(Int)
    BY <1>1, <1>2, <1>3, <1>4, <2>2
  <2>5. QED
    BY <1>4, <1>6, <2>2, <2>3, <2>4, Zenon
<1>7. QED
  BY <1>5, <1>6

\* What SelectChunk may take is there, and is at least one sample.
LEMMA EmitCountsFacts ==
  ASSUME TypeOK, emitted_samples <= Len(buffered), NEW n \in EmitCounts
  PROVE  /\ n \in Nat /\ n > 0
         /\ emitted_samples + n <= Len(buffered)
         /\ ChunkPcm(n) \in Seq(Int)
         /\ Len(ChunkPcm(n)) = n
         /\ \A i \in 1 .. n : ChunkPcm(n)[i] = buffered[emitted_samples + i]
<1>1. /\ available \in Nat
      /\ req.chunk \in Nat \ {0} /\ req.lead \in Nat \ {0} /\ req.start \in Nat \ {0}
  BY DEF TypeOK, GenerationType, PcmType, DeliveryType, Request, available
<1>2. available > 0
  BY <1>1 DEF EmitCounts
<1>3. n \in 1 .. available
  BY <1>1, <1>2 DEF EmitCounts, Smaller
<1>4. n \in Nat /\ n > 0 /\ emitted_samples + n <= Len(buffered)
  BY <1>3 DEF available, TypeOK, PcmType, DeliveryType
<1>5. buffered \in Seq(Int) /\ emitted_samples \in Nat
  BY DEF TypeOK, PcmType, DeliveryType
<1> DEFINE s == ChunkPcm(n)
<1>6. s = SubSeq(buffered, emitted_samples + 1, emitted_samples + n)
  BY DEF ChunkPcm
<1> HIDE DEF s
<1>7. s \in Seq(Int) /\ Len(s) = n
  BY <1>4, <1>5, <1>6
<1>8. \A i \in 1 .. n : s[i] = buffered[emitted_samples + i]
  BY <1>4, <1>5, <1>6
<1>9. QED
  BY <1>4, <1>7, <1>8 DEF s
-----------------------------------------------------------------------------
(***************************************************************************)
(* Type correctness.                                                       *)
(***************************************************************************)
\* A group of variables that a step leaves alone keeps its types.
LEMMA TypeFrame ==
  ASSUME TypeOK
  PROVE  /\ UNCHANGED <<generation, pc>> => GenerationType'
         /\ UNCHANGED <<windowing, split_start>> => WindowingType'
         /\ UNCHANGED queue => QueueType'
         /\ UNCHANGED <<pcm, buffered>> => PcmType'
         /\ UNCHANGED delivery => DeliveryType'
         /\ UNCHANGED application => ApplicationType'
<1> USE DEF TypeOK
<1>1. UNCHANGED <<generation, pc>> => GenerationType'
  BY DEF GenerationType, generation
<1>2. UNCHANGED <<windowing, split_start>> => WindowingType'
  BY DEF WindowingType, windowing
<1>3. UNCHANGED queue => QueueType'
  BY DEF QueueType, queue
<1>4. UNCHANGED <<pcm, buffered>> => PcmType'
  BY DEF PcmType, pcm
<1>5. UNCHANGED delivery => DeliveryType'
  BY DEF DeliveryType, delivery
<1>6. UNCHANGED application => ApplicationType'
  BY DEF ApplicationType, application
<1>7. QED
  BY <1>1, <1>2, <1>3, <1>4, <1>5, <1>6

\* A step keeps the types.
LEMMA TypeStep ==
  ASSUME IInv, [Next]_vars
  PROVE  TypeOK'
<1>0. TypeOK /\ RequestInv /\ WindowInv /\ emitted_samples <= Len(buffered)
  BY DEF IInv, DeliveryInv
<1>e. RecordError => stream_error' \in BOOLEAN /\ error_frame' \in Int
  BY <1>0 DEF RecordError, TypeOK, GenerationType, PcmType
<1> USE TypeFrame DEF TypeOK
<1>1. CASE SampleEos
  <2>1. GenerationType'
    BY <1>0, <1>1 DEF SampleEos, GenerationType, generation
  <2>2. QED
    BY <1>0, <1>1, <2>1 DEF SampleEos
<1>2. CASE SampleThinking
  <2>1. GenerationType'
    BY <1>0, <1>2 DEF SampleThinking, GenerationType
  <2>2. QED
    BY <1>0, <1>2, <2>1 DEF SampleThinking
<1>3. CASE SampleFrame
  <2>1. GenerationType'
    BY <1>0, <1>3 DEF SampleFrame, GenerationType
  <2>2. QED
    BY <1>0, <1>3, <2>1 DEF SampleFrame
<1>4. CASE GenerationFails
  <2>1. GenerationType'
    BY <1>0, <1>4 DEF GenerationFails, GenerationType
  <2>2. QED
    BY <1>0, <1>4, <2>1 DEF GenerationFails
<1>5. CASE OnFrame
  <2>1. GenerationType'
    BY <1>0, <1>5 DEF OnFrame, GenerationType, PcmType
  <2>2. QED
    BY <1>0, <1>5, <2>1 DEF OnFrame
<1>6. ASSUME NEW e \in Nat, NEW f \in BOOLEAN, Enqueue(e, f)
      PROVE  /\ window' \in Window
             /\ early_context_windows_remaining' \in Nat
             /\ split_start' \in Nat /\ last_enqueued_frame' \in Nat
             /\ pc' = "submit"
  <2>1. ContextFor(f) \in Nat /\ req.split \in Nat
    BY <1>0 DEF ContextFor, GenerationType, Request
  <2>2. window' \in Window
    BY <1>6, <2>1 DEF Enqueue, Window
  <2>3. early_context_windows_remaining' \in Nat
    BY <1>0, <1>6 DEF Enqueue, UseEarlyContext, WindowingType
  <2>4. QED
    BY <1>0, <1>6, <2>2, <2>3 DEF Enqueue, WindowingType
<1>7. ASSUME NEW e \in Nat, SelectNextWindow(e)
      PROVE  ramp_windows_remaining' \in Nat /\ next_decode_end' \in Nat
  <2>1. /\ req.ramp \in Nat /\ req.adaptMin \in Nat /\ req.steady \in Nat
        /\ ramp_windows_remaining \in Nat
    BY <1>0 DEF GenerationType, WindowingType, Request
  <2>2. CASE ramp_windows_remaining > 0
    BY <1>7, <2>1, <2>2 DEF SelectNextWindow
  <2>3. CASE ~(ramp_windows_remaining > 0)
    <3>1. PICK w \in SteadyWindows(req) : next_decode_end' = e + w
      BY <1>7, <2>3 DEF SelectNextWindow
    <3>2. w \in Nat
      BY <2>1 DEF SteadyWindows
    <3>3. QED
      BY <1>7, <2>1, <2>3, <3>1, <3>2 DEF SelectNextWindow
  <2>4. QED
    BY <2>2, <2>3
<1>8. req.first \in Nat /\ next_decode_end \in Nat /\ frames \in Nat
  BY <1>0 DEF GenerationType, WindowingType, Request
<1>9. CASE CutFirstWindow
  <2>1. Enqueue(req.first, FALSE) /\ SelectNextWindow(req.first)
    BY <1>9 DEF CutFirstWindow
  <2>2. WindowingType'
    BY <1>6, <1>7, <1>8, <2>1 DEF WindowingType
  <2>3. GenerationType'
    BY <1>0, <1>6, <1>8, <1>9, <2>1 DEF CutFirstWindow, GenerationType, generation
  <2>4. QED
    BY <1>0, <1>9, <2>2, <2>3 DEF CutFirstWindow
<1>10. CASE CutWindow
  <2>1. Enqueue(next_decode_end, FALSE) /\ SelectNextWindow(next_decode_end)
    BY <1>10 DEF CutWindow
  <2>2. WindowingType'
    BY <1>6, <1>7, <1>8, <2>1 DEF WindowingType
  <2>3. GenerationType'
    BY <1>0, <1>6, <1>8, <1>10, <2>1 DEF CutWindow, GenerationType, generation
  <2>4. QED
    BY <1>0, <1>10, <2>2, <2>3 DEF CutWindow
<1>11. CASE WindowsDone
  <2>1. GenerationType'
    BY <1>0, <1>11 DEF WindowsDone, GenerationType, generation
  <2>2. QED
    BY <1>0, <1>11, <2>1 DEF WindowsDone
<1>12. CASE FinalStopped
  <2>1. GenerationType'
    BY <1>0, <1>12 DEF FinalStopped, GenerationType
  <2>2. QED
    BY <1>0, <1>12, <2>1 DEF FinalStopped
<1>13. CASE FinalNothing
  <2>1. GenerationType'
    BY <1>0, <1>13 DEF FinalNothing, GenerationType, generation
  <2>2. QED
    BY <1>0, <1>13, <2>1 DEF FinalNothing
<1>14. CASE FinalWindow
  <2>1. Enqueue(frames, TRUE)
    BY <1>14 DEF FinalWindow
  <2>2. WindowingType'
    BY <1>0, <1>6, <1>8, <1>14, <2>1 DEF FinalWindow, WindowingType
  <2>3. GenerationType'
    BY <1>0, <1>6, <1>8, <1>14, <2>1 DEF FinalWindow, GenerationType, generation
  <2>4. QED
    BY <1>0, <1>14, <2>2, <2>3 DEF FinalWindow
<1>15. CASE SubmitAsync \/ SubmitInline \/ SubmitInlineFails
  <2>1. pc = "submit"
    BY <1>15 DEF SubmitAsync, SubmitInline, SubmitInlineFails
  <2>2. NextJob \in Job /\ NextJob.end_frame \in Nat
    BY <1>0, <2>1, NextJobFacts DEF Job
  <2>3. AfterSubmit \in {"submit", "finish", "windows"}
    BY DEF AfterSubmit
  <2>4. CASE SubmitAsync
    <3>1. GenerationType'
      BY <1>0, <2>3, <2>4 DEF SubmitAsync, GenerationType, generation
    <3>2. WindowingType'
      BY <1>0, <2>2, <2>4 DEF SubmitAsync, WindowingType, windowing
    <3>3. QueueType'
      BY <1>0, <2>2, <2>4 DEF SubmitAsync, QueueType
    <3>4. QED
      BY <1>0, <2>4, <3>1, <3>2, <3>3 DEF SubmitAsync
  <2>5. CASE SubmitInline
    <3>1. GenerationType'
      BY <1>0, <2>3, <2>5 DEF SubmitInline, GenerationType, generation
    <3>2. WindowingType'
      BY <1>0, <2>2, <2>5 DEF SubmitInline, WindowingType, windowing
    <3>3. Decodes(NextJob, TRUE)
      BY <2>5 DEF SubmitInline
    <3>4. PcmType' /\ ApplicationType'
      BY <1>0, <2>2, <2>5, <3>3, DecodesFacts DEF SubmitInline, PcmType, ApplicationType
    <3>5. QED
      BY <1>0, <2>5, <3>1, <3>2, <3>4 DEF SubmitInline
  <2>6. CASE SubmitInlineFails
    <3>1. GenerationType'
      BY <1>0, <2>3, <2>6 DEF SubmitInlineFails, GenerationType
    <3>2. DecodeFails => PcmType' /\ ApplicationType'
      BY <1>0, <1>e DEF DecodeFails, PcmType, ApplicationType, application
    <3>3. Decodes(NextJob, FALSE) /\ RecordError => PcmType' /\ ApplicationType'
      BY <1>0, <1>e, <2>2, DecodesFacts DEF PcmType, ApplicationType
    <3>4. QED
      BY <1>0, <2>6, <3>1, <3>2, <3>3 DEF SubmitInlineFails
  <2>7. QED
    BY <1>15, <2>4, <2>5, <2>6
<1>16. CASE TakeJob
  <2>1. QueueType'
    BY <1>0, <1>16 DEF TakeJob, QueueType
  <2>2. QED
    BY <1>0, <1>16, <2>1 DEF TakeJob
<1>17. CASE ProcessJob \/ ProcessJobFails \/ ProcessJobStopped
  <2>1. job \in Job
    BY <1>0 DEF QueueType
  <2>2. QueueType'
    BY <1>0, <1>17 DEF ProcessJob, ProcessJobFails, ProcessJobStopped, QueueType
  <2>3. DecodeFails => PcmType' /\ ApplicationType'
    BY <1>0, <1>e DEF DecodeFails, PcmType, ApplicationType, application
  <2>4. ASSUME NEW keep \in BOOLEAN, Decodes(job, keep),
               UNCHANGED <<stream_error, error_frame>>
        PROVE  PcmType' /\ ApplicationType'
    BY <1>0, <2>1, <2>4, DecodesFacts DEF PcmType, ApplicationType
  <2>5. QED
    BY <1>0, <1>17, <2>2, <2>3, <2>4 DEF ProcessJob, ProcessJobFails, ProcessJobStopped
<1>18. CASE RecordStop \/ AbortWorker \/ ExitWorker
  <2>0. CASE RecordStop
    <3>1. QueueType' /\ PcmType'
      BY <1>0, <1>e, <2>0 DEF RecordStop, QueueType, PcmType
    <3>2. QED
      BY <1>0, <2>0, <3>1 DEF RecordStop
  <2>1. CASE AbortWorker
    <3>1. <<>> \in Seq(Job)
      OBVIOUS
    <3>2. QueueType'
      BY <1>0, <2>1, <3>1 DEF AbortWorker, QueueType
    <3>3. QED
      BY <1>0, <2>1, <3>2 DEF AbortWorker
  <2>2. CASE ExitWorker
    <3>1. QueueType'
      BY <1>0, <2>2 DEF ExitWorker, QueueType
    <3>2. QED
      BY <1>0, <2>2, <3>1 DEF ExitWorker
  <2>3. QED
    BY <1>18, <2>0, <2>1, <2>2
<1>19. CASE SelectChunk
  <2>1. PICK n \in EmitCounts :
          /\ chunk' = [pcm |-> ChunkPcm(n), is_final |-> ChunkIsFinal(n)]
          /\ emitted_samples' = emitted_samples + n
    BY <1>19 DEF SelectChunk
  <2>2. n \in Nat /\ ChunkPcm(n) \in Seq(Int)
    BY <1>0, EmitCountsFacts
  <2>3. ChunkIsFinal(n) \in BOOLEAN
    BY Zenon DEF ChunkIsFinal
  <2>4. DeliveryType'
    BY <1>0, <1>19, <2>1, <2>2, <2>3 DEF SelectChunk, DeliveryType
  <2>5. QED
    BY <1>0, <1>19, <2>4 DEF SelectChunk
<1>20. CASE EmitChunk \/ EmitChunkStopped
  <2>1. NoChunk \in [pcm : Seq(Int), is_final : BOOLEAN]
    BY DEF NoChunk
  <2>2. DeliveryType'
    BY <1>0, <1>20, <2>1 DEF EmitChunk, EmitChunkStopped, DeliveryType
  <2>3. ASSUME NEW keep \in BOOLEAN, CallBack(chunk.pcm, chunk.is_final, keep)
        PROVE  ApplicationType'
    <3>1. chunk.pcm \in Seq(Int) /\ frames \in Nat
      BY <1>0 DEF DeliveryType, GenerationType
    <3>2. heard' \in Seq(Int) /\ finals' \in Nat /\ stop_frame' \in Int
      BY <1>0, <2>3, <3>1 DEF CallBack, ApplicationType
    <3>3. QED
      BY <3>2 DEF ApplicationType
  <2>4. QED
    BY <1>0, <1>20, <2>2, <2>3 DEF EmitChunk, EmitChunkStopped
<1>21. CASE ExitDelivery
  <2>1. DeliveryType'
    BY <1>0, <1>21 DEF ExitDelivery, DeliveryType
  <2>2. QED
    BY <1>0, <1>21, <2>1 DEF ExitDelivery
<1>22. CASE FinishProducer
  <2>1. req.async \in BOOLEAN
    BY <1>0 DEF GenerationType, Request
  <2>2. QueueType'
    BY <1>0, <1>22, <2>1 DEF FinishProducer, QueueType
  <2>3. GenerationType'
    BY <1>0, <1>22 DEF FinishProducer, GenerationType, generation
  <2>4. QED
    BY <1>0, <1>22, <2>2, <2>3 DEF FinishProducer
<1>23. CASE JoinDecode
  <2>1. req.paced \in BOOLEAN
    BY <1>0 DEF GenerationType, Request
  <2>2. DeliveryType'
    BY <1>0, <1>23, <2>1 DEF JoinDecode, DeliveryType
  <2>3. GenerationType'
    BY <1>0, <1>23 DEF JoinDecode, GenerationType, generation
  <2>4. QED
    BY <1>0, <1>23, <2>2, <2>3 DEF JoinDecode
<1>24. CASE JoinDelivery
  <2>1. PcmType'
    BY <1>0, <1>e, <1>24 DEF JoinDelivery, PcmType, DeliveryType
  <2>2. GenerationType'
    BY <1>0, <1>24 DEF JoinDelivery, GenerationType, generation
  <2>3. QED
    BY <1>0, <1>24, <2>1, <2>2 DEF JoinDelivery
<1>25. CASE Return
  <2>1. GenerationType'
    BY <1>0, <1>25 DEF Return, GenerationType
  <2>2. QED
    BY <1>0, <1>25, <2>1 DEF Return
<1>26. CASE Returned \/ UNCHANGED vars
  BY <1>0, <1>26 DEF Returned, vars
<1>27. QED
  BY <1>1, <1>2, <1>3, <1>4, <1>5, <1>9, <1>10, <1>11, <1>12, <1>13, <1>14,
     <1>15, <1>16, <1>17, <1>18, <1>19, <1>20, <1>21, <1>22, <1>23, <1>24,
     <1>25, <1>26
     DEF Next, Caller, DecodeWorker, DeliveryWorker
-----------------------------------------------------------------------------
(***************************************************************************)
(* Requests, windows and jobs.                                             *)
(***************************************************************************)
\* Nothing changes the request.
LEMMA RequestStep ==
  ASSUME IInv, [Next]_vars
  PROVE  req' = req /\ RequestInv'
<1>1. req' = req
  BY DEF Next, Caller, DecodeWorker, DeliveryWorker, Returned, vars, generation,
         SampleEos, SampleThinking, SampleFrame, GenerationFails, OnFrame,
         CutFirstWindow, CutWindow, WindowsDone, FinalStopped, FinalNothing,
         FinalWindow, SubmitAsync, SubmitInline, SubmitInlineFails,
         TakeJob, ProcessJob, ProcessJobFails, ProcessJobStopped, RecordStop,
         AbortWorker, ExitWorker,
         SelectChunk, EmitChunk, EmitChunkStopped, ExitDelivery,
         FinishProducer, JoinDecode, JoinDelivery, Return
<1>2. QED
  BY <1>1 DEF IInv, RequestInv

\* A step keeps the frontier of the windows.
LEMMA WindowStep ==
  ASSUME IInv, [Next]_vars
  PROVE  WindowInv'
<1>0. /\ WindowInv /\ req' = req
      /\ frames \in Nat /\ last_enqueued_frame \in Nat /\ next_decode_end \in Nat
      /\ early_context_windows_remaining \in Nat
      /\ req \in Request /\ req.context <= req.finalContext
  BY RequestStep
     DEF IInv, TypeOK, GenerationType, WindowingType, RequestInv
<1> USE DEF generation, windowing, Contexted
<1>1. CASE SampleEos \/ SampleThinking \/ GenerationFails \/ OnFrame
  BY <1>0, <1>1 DEF SampleEos, SampleThinking, GenerationFails, OnFrame, WindowInv
<1>2. CASE SampleFrame
  BY <1>0, <1>2 DEF SampleFrame, WindowInv
<1>3. CASE WindowsDone \/ FinalStopped \/ FinalNothing
  BY <1>0, <1>3 DEF WindowsDone, FinalStopped, FinalNothing, WindowInv
<1>4. ASSUME NEW e \in Nat, NEW f \in BOOLEAN, Enqueue(e, f), e <= frames,
             last_enqueued_frame < e, frames' = frames,
             f => e = frames,
             ~f => next_decode_end' > e
      PROVE  WindowInv'
  <2>1. /\ window'.end = e /\ window'.is_final = f
        /\ window'.context = ContextFor(f)
    BY <1>4 DEF Enqueue
  <2>2. Contexted => ContextFor(f) > 0
    BY <1>0 DEF ContextFor, UseEarlyContext, WindowInv, Request
  <2>3. early_context_windows_remaining' <= req.earlyCount
    BY <1>0, <1>4 DEF Enqueue, UseEarlyContext, WindowInv, Request
  <2>4. /\ split_start' = last_enqueued_frame /\ last_enqueued_frame' = e
        /\ pc' = "submit"
    BY <1>4 DEF Enqueue
  <2>5. /\ last_enqueued_frame' <= frames' /\ split_start' < window'.end
        /\ window'.end = last_enqueued_frame'
        /\ window'.is_final => window'.end = frames'
        /\ ~window'.is_final => next_decode_end' > last_enqueued_frame'
    BY <1>4, <2>1, <2>4
  <2>6. Contexted' => window'.context > 0
    BY <1>0, <2>1, <2>2
  <2>7. QED
    BY <1>0, <2>3, <2>4, <2>5, <2>6 DEF WindowInv
<1>5. ASSUME NEW e \in Nat, SelectNextWindow(e)
      PROVE  next_decode_end' > e
  <2>1. CASE ramp_windows_remaining > 0
    BY <1>0, <1>5, <2>1 DEF SelectNextWindow, Request
  <2>2. CASE ~(ramp_windows_remaining > 0)
    <3>1. PICK w \in SteadyWindows(req) : next_decode_end' = e + w
      BY <1>5, <2>2 DEF SelectNextWindow
    <3>2. w \in Nat /\ w > 0
      BY <1>0 DEF SteadyWindows, Request
    <3>3. QED
      BY <3>1, <3>2
  <2>3. QED
    BY <2>1, <2>2
<1>6. CASE CutFirstWindow
  <2>1. /\ Enqueue(req.first, FALSE) /\ SelectNextWindow(req.first)
        /\ FirstWindowDue /\ frames' = frames
    BY <1>6 DEF CutFirstWindow
  <2>2. req.first \in Nat /\ req.first > 0
    BY <1>0 DEF Request
  <2>3. QED
    BY <1>4, <1>5, <2>1, <2>2 DEF FirstWindowDue
<1>7. CASE CutWindow
  <2>1. /\ Enqueue(next_decode_end, FALSE) /\ SelectNextWindow(next_decode_end)
        /\ WindowDue /\ frames' = frames /\ pc = "windows"
    BY <1>7 DEF CutWindow
  <2>2. QED
    BY <1>0, <1>4, <1>5, <2>1 DEF WindowDue, WindowInv
<1>8. CASE FinalWindow
  <2>1. /\ Enqueue(frames, TRUE) /\ frames' = frames
        /\ frames > last_enqueued_frame
    BY <1>8 DEF FinalWindow
  <2>2. frames \in Nat /\ frames <= frames /\ last_enqueued_frame < frames
    BY <1>0, <2>1
  <2>3. QED
    BY <1>4, <2>1, <2>2, Zenon
<1>9. CASE SubmitAsync \/ SubmitInline \/ SubmitInlineFails
  <2>1. pc = "submit" /\ TypeOK /\ RequestInv
    BY <1>9 DEF SubmitAsync, SubmitInline, SubmitInlineFails, IInv
  <2>2. NextJob.end_frame <= window.end /\ NextJob.end_frame \in Nat
        /\ window.end \in Nat
    BY <1>0, <2>1, NextJobFacts DEF Job, TypeOK, WindowingType, Window
  <2>3. CASE SubmitInlineFails
    BY <1>0, <2>3 DEF SubmitInlineFails, WindowInv
  <2>4. CASE SubmitAsync \/ SubmitInline
    <3>1. /\ pc' = AfterSubmit /\ split_start' = NextJob.end_frame
          /\ UNCHANGED <<generation, windowing>>
      BY <2>4 DEF SubmitAsync, SubmitInline
    <3>2. CASE NextJob.end_frame < window.end
      BY <1>0, <2>1, <2>2, <3>1, <3>2 DEF AfterSubmit, WindowInv
    <3>3. CASE ~(NextJob.end_frame < window.end)
      BY <1>0, <2>1, <2>2, <3>1, <3>3 DEF AfterSubmit, WindowInv
    <3>4. QED
      BY <3>2, <3>3
  <2>5. QED
    BY <1>9, <2>3, <2>4
<1>10. CASE FinishProducer \/ JoinDecode \/ JoinDelivery \/ Return
  BY <1>0, <1>10 DEF FinishProducer, JoinDecode, JoinDelivery, Return, WindowInv
<1>11. CASE DecodeWorker \/ DeliveryWorker \/ Returned \/ UNCHANGED vars
  <2>1. UNCHANGED <<generation, pc, windowing, split_start>>
    BY <1>11, WorkersKeepWindows
  <2>2. QED
    BY <1>0, <2>1 DEF WindowInv
<1>12. QED
  BY <1>1, <1>2, <1>3, <1>6, <1>7, <1>8, <1>9, <1>10, <1>11 DEF Next, Caller

\* Frames are only added.
LEMMA FramesGrow ==
  ASSUME IInv, [Next]_vars
  PROVE  frames \in Nat /\ frames' \in Nat /\ frames <= frames'
<1>1. frames \in Nat
  BY DEF IInv, TypeOK, GenerationType
<1>2. CASE SampleFrame
  BY <1>1, <1>2 DEF SampleFrame
<1>3. CASE ~SampleFrame
  <2>1. frames' = frames
    BY <1>3 DEF Next, Caller, DecodeWorker, DeliveryWorker, Returned, vars, generation,
         SampleEos, SampleThinking, GenerationFails, OnFrame,
         CutFirstWindow, CutWindow, WindowsDone, FinalStopped, FinalNothing,
         FinalWindow, SubmitAsync, SubmitInline, SubmitInlineFails,
         TakeJob, ProcessJob, ProcessJobFails, ProcessJobStopped, RecordStop,
         AbortWorker, ExitWorker,
         SelectChunk, EmitChunk, EmitChunkStopped, ExitDelivery,
         FinishProducer, JoinDecode, JoinDelivery, Return
  <2>2. QED
    BY <1>1, <2>1
<1>4. QED
  BY <1>2, <1>3

\* The steps that leave the decode worker and its queue alone.
LEMMA OthersKeepQueue ==
  ASSUME [Next]_vars, ~SubmitAsync, ~DecodeWorker, ~FinishProducer
  PROVE  UNCHANGED queue
BY DEF Next, Caller, DeliveryWorker, Returned, vars, queue,
       SampleEos, SampleThinking, SampleFrame, GenerationFails, OnFrame,
       CutFirstWindow, CutWindow, WindowsDone, FinalStopped, FinalNothing,
       FinalWindow, SubmitInline, SubmitInlineFails,
       SelectChunk, EmitChunk, EmitChunkStopped, ExitDelivery,
       JoinDecode, JoinDelivery, Return

\* A step keeps the jobs inside the frames at hand.
LEMMA JobsStep ==
  ASSUME IInv, [Next]_vars
  PROVE  JobsInv'
<1>0. /\ JobsInv /\ TypeOK /\ RequestInv /\ WindowInv
      /\ decode_queue \in Seq(Job) /\ job \in Job
  BY DEF IInv, TypeOK, QueueType
<1>1. ASSUME NEW j \in Job, JobFits(j, frames, Contexted)
      PROVE  JobFits(j, frames', Contexted')
  <2>1. j.end_frame \in Nat /\ req' = req
    BY RequestStep DEF Job
  <2>2. QED
    BY <1>1, <2>1, FramesGrow DEF JobFits, Contexted
<1>2. /\ \A i \in 1 .. Len(decode_queue) :
           JobFits(decode_queue[i], frames', Contexted')
      /\ decode_pc = "process" => JobFits(job, frames', Contexted')
  BY <1>0, <1>1 DEF JobsInv, JobOK
<1>3. CASE SubmitAsync
  <2> DEFINE next == NextJob
  <2>1. /\ decode_queue' = Append(decode_queue, next)
        /\ job' = job /\ decode_pc' = decode_pc
    BY <1>3 DEF SubmitAsync
  <2>2. next \in Job /\ JobFits(next, frames', Contexted')
    BY <1>0, <1>1, <1>3, NextJobFacts DEF SubmitAsync, JobOK
  <2> HIDE DEF next
  <2>3. \A i \in 1 .. Len(decode_queue') :
          JobFits(decode_queue'[i], frames', Contexted')
    BY <1>0, <1>2, <2>1, <2>2
  <2>4. QED
    BY <1>2, <2>1, <2>3 DEF JobsInv, JobOK
<1>4. CASE TakeJob
  <2>1. /\ job' = decode_queue[1] /\ decode_queue' = Tail(decode_queue)
        /\ decode_queue # <<>>
    BY <1>0, <1>4 DEF TakeJob
  <2>2. JobFits(job', frames', Contexted')
    BY <1>0, <1>2, <2>1
  <2>3. \A i \in 1 .. Len(decode_queue') :
          JobFits(decode_queue'[i], frames', Contexted')
    BY <1>0, <1>2, <2>1
  <2>4. QED
    BY <2>2, <2>3 DEF JobsInv, JobOK
<1>5. CASE ProcessJob \/ ProcessJobFails \/ ProcessJobStopped \/ RecordStop \/ ExitWorker
  <2>1. decode_queue' = decode_queue /\ decode_pc' # "process"
    BY <1>5 DEF ProcessJob, ProcessJobFails, ProcessJobStopped, RecordStop, ExitWorker
  <2>2. QED
    BY <1>2, <2>1 DEF JobsInv, JobOK
<1>6. CASE AbortWorker
  <2>1. decode_queue' = <<>> /\ decode_pc' # "process"
    BY <1>6 DEF AbortWorker
  <2>2. QED
    BY <2>1 DEF JobsInv
<1>7. CASE UNCHANGED <<decode_queue, job, decode_pc>>
  BY <1>2, <1>7 DEF JobsInv, JobOK
<1>8. CASE FinishProducer
  BY <1>7, <1>8 DEF FinishProducer
<1>9. QED
  BY <1>3, <1>4, <1>5, <1>6, <1>7, <1>8, OthersKeepQueue DEF DecodeWorker, queue
-----------------------------------------------------------------------------
(***************************************************************************)
(* The order of the jobs, errors, and the audio.                           *)
(***************************************************************************)
\* A step keeps what an error stops.
LEMMA ErrorStep ==
  ASSUME IInv, [Next]_vars
  PROVE  ErrorInv'
<1>0. /\ ErrorInv /\ req' = req /\ req.async \in BOOLEAN
      /\ stream_error \in BOOLEAN /\ producer_done \in BOOLEAN
  BY RequestStep
     DEF IInv, TypeOK, GenerationType, QueueType, PcmType, Request
<1> USE DEF ErrorInv, Generating, queue, pcm
<1>1. CASE SampleEos \/ SampleThinking \/ SampleFrame \/ GenerationFails
  BY <1>0, <1>1 DEF SampleEos, SampleThinking, SampleFrame, GenerationFails
<1>2. CASE OnFrame \/ WindowsDone \/ FinalStopped \/ FinalNothing
  BY <1>0, <1>2 DEF OnFrame, WindowsDone, FinalStopped, FinalNothing
<1>3. CASE CutFirstWindow \/ CutWindow \/ FinalWindow
  <2>1. /\ pc \in {"windows", "on_final"} /\ pc' = "submit"
        /\ UNCHANGED <<queue, pcm>>
    BY <1>3 DEF CutFirstWindow, CutWindow, FinalWindow, Enqueue
  <2>2. QED
    BY <1>0, <2>1
<1>4. CASE SubmitAsync
  BY <1>0, <1>4 DEF SubmitAsync, AfterSubmit
<1>5. CASE SubmitInline
  <2>1. stream_error' = stream_error /\ UNCHANGED queue /\ ~req.async
        /\ pc' = AfterSubmit /\ pc = "submit"
    BY <1>0, <1>5 DEF SubmitInline
  <2>2. QED
    BY <1>0, <2>1 DEF AfterSubmit
<1>6. CASE SubmitInlineFails
  <2>1. stream_error' = TRUE
    BY <1>6, Zenon DEF SubmitInlineFails, DecodeFails, RecordError
  <2>2. QED
    BY <1>0, <1>6, <2>1 DEF SubmitInlineFails
<1>7. CASE TakeJob \/ ExitWorker
  BY <1>0, <1>7 DEF TakeJob, ExitWorker
<1>8. CASE AbortWorker
  BY <1>0, <1>8 DEF AbortWorker
<1>9. CASE ProcessJob
  <2>1. stream_error' = stream_error
    BY <1>0, <1>9 DEF ProcessJob
  <2>2. QED
    BY <1>0, <1>9, <2>1 DEF ProcessJob
<1>10. CASE ProcessJobFails \/ RecordStop
  <2>1. stream_error' = TRUE
    BY <1>10, Zenon DEF ProcessJobFails, RecordStop, DecodeFails, RecordError
  <2>2. QED
    BY <1>0, <1>10, <2>1 DEF ProcessJobFails, RecordStop
<1>15. CASE ProcessJobStopped
  <2>1. stream_error' = stream_error /\ ~req.paced
    BY <1>15, Zenon DEF ProcessJobStopped, Decodes
  <2>2. QED
    BY <1>0, <1>15, <2>1 DEF ProcessJobStopped
<1>11. CASE FinishProducer
  BY <1>0, <1>11 DEF FinishProducer
<1>12. CASE JoinDecode \/ JoinDelivery \/ Return
  BY <1>0, <1>12 DEF JoinDecode, JoinDelivery, Return
<1>13. CASE DeliveryWorker \/ Returned \/ UNCHANGED vars
  <2>1. UNCHANGED <<pc, queue, pcm>>
    BY <1>13 DEF DeliveryWorker, Returned, vars,
                 SelectChunk, EmitChunk, EmitChunkStopped, ExitDelivery
  <2>2. QED
    BY <1>0, <2>1
<1>14. QED
  BY <1>1, <1>2, <1>3, <1>4, <1>5, <1>6, <1>7, <1>8, <1>9, <1>10, <1>11, <1>12,
     <1>13, <1>15 DEF Next, Caller, DecodeWorker

\* A step keeps the jobs in the order of their frames.
LEMMA ChainStep ==
  ASSUME IInv, [Next]_vars
  PROVE  ChainInv'
<1>0. /\ ChainInv /\ ErrorInv /\ WindowInv /\ TypeOK /\ RequestInv
      /\ decode_queue \in Seq(Job) /\ stream_error \in BOOLEAN
      /\ split_start \in Nat /\ last_completed_frame \in Nat
      /\ req.async \in BOOLEAN
  BY DEF IInv, TypeOK, GenerationType, QueueType, PcmType, WindowingType, Request
<1>1. SUFFICES ASSUME ~Broken'
               PROVE  ChainInv'
  BY DEF ChainInv
<1> USE DEF ChainInv, QueueStart, Broken
<1>2. CASE SubmitAsync
  <2> DEFINE next == NextJob
  <2>1. /\ decode_queue' = Append(decode_queue, next)
        /\ split_start' = next.end_frame
        /\ UNCHANGED <<stream_error, job, decode_pc, last_completed_frame>>
    BY <1>2 DEF SubmitAsync, pcm
  <2>2. next \in Job /\ next.new_start = split_start
    BY <1>0, <1>2, NextJobFacts DEF SubmitAsync
  <2> HIDE DEF next
  <2>3. \A i \in 1 .. Len(decode_queue') :
          decode_queue'[i].new_start =
            IF i = 1 THEN QueueStart' ELSE decode_queue'[i - 1].end_frame
    BY <1>0, <1>1, <2>1, <2>2
  <2>4. QED
    BY <1>0, <1>1, <2>1, <2>2, <2>3
<1>3. CASE SubmitInline
  <2>1. /\ decode_queue' = <<>> /\ decode_pc' = "exited"
        /\ NextJob \in Job /\ Decodes(NextJob, TRUE)
        /\ split_start' = NextJob.end_frame
    BY <1>0, <1>3, NextJobFacts DEF SubmitInline, ErrorInv, queue
  <2>2. last_completed_frame' = NextJob.end_frame
    BY <1>0, <2>1, DecodesFacts
  <2>3. QED
    BY <2>1, <2>2
<1>4. CASE SubmitInlineFails \/ ProcessJobFails \/ ProcessJobStopped \/ RecordStop
  <2>1. Broken'
    BY <1>4, Zenon DEF SubmitInlineFails, ProcessJobFails, ProcessJobStopped, RecordStop,
                       DecodeFails, RecordError
  <2>2. QED
    BY <1>1, <2>1
<1>5. CASE CutFirstWindow \/ CutWindow \/ FinalWindow
  <2>1. split_start' = split_start
    BY <1>0, <1>5 DEF CutFirstWindow, CutWindow, FinalWindow, Enqueue, WindowInv
  <2>2. UNCHANGED <<stream_error, decode_queue, decode_pc, job, last_completed_frame>>
    BY <1>5 DEF CutFirstWindow, CutWindow, FinalWindow, queue, pcm
  <2>3. QED
    BY <1>0, <1>1, <2>1, <2>2
<1>6. CASE TakeJob
  <2>1. /\ job' = decode_queue[1] /\ decode_queue' = Tail(decode_queue)
        /\ decode_queue # <<>> /\ decode_pc = "wait" /\ decode_pc' = "process"
        /\ UNCHANGED <<stream_error, split_start, last_completed_frame>>
    BY <1>0, <1>6 DEF TakeJob, pcm
  <2>2. ~Broken
    BY <1>1, <2>1
  <2>3. job'.new_start = last_completed_frame'
    BY <1>0, <2>1, <2>2
  <2>4. /\ Len(decode_queue') = Len(decode_queue) - 1
        /\ \A i \in 1 .. Len(decode_queue') : decode_queue'[i] = decode_queue[i + 1]
    BY <1>0, <2>1
  <2>5. QueueStart' = decode_queue[1].end_frame
    BY <2>1
  <2>6. ASSUME NEW i \in 1 .. Len(decode_queue')
        PROVE  decode_queue'[i].new_start =
                 IF i = 1 THEN QueueStart' ELSE decode_queue'[i - 1].end_frame
    <3>1. /\ i \in Nat /\ i >= 1 /\ i + 1 \in 1 .. Len(decode_queue) /\ i + 1 # 1
          /\ (i + 1) - 1 = i
      BY <1>0, <2>1, <2>4
    <3>2. decode_queue[i + 1].new_start = decode_queue[i].end_frame
      BY <1>0, <2>2, <3>1
    <3>3. i # 1 => decode_queue'[i - 1] = decode_queue[i]
      BY <1>0, <2>1, <2>4, <3>1
    <3>4. QED
      BY <2>4, <2>5, <3>2, <3>3
  <2>7. split_start' = IF decode_queue' = <<>> THEN QueueStart'
                       ELSE decode_queue'[Len(decode_queue')].end_frame
    <3>1. split_start = decode_queue[Len(decode_queue)].end_frame
      BY <1>0, <2>1, <2>2
    <3>2. CASE Len(decode_queue) = 1
      BY <1>0, <2>1, <2>4, <2>5, <3>1, <3>2
    <3>3. CASE Len(decode_queue) # 1
      <4>1. /\ Len(decode_queue') \in 1 .. Len(decode_queue')
            /\ Len(decode_queue') + 1 = Len(decode_queue)
        BY <1>0, <2>1, <2>4, <3>3
      <4>2. decode_queue'[Len(decode_queue')] = decode_queue[Len(decode_queue)]
        BY <2>4, <4>1
      <4>3. decode_queue' # <<>>
        BY <4>1
      <4>4. QED
        BY <2>1, <3>1, <4>2, <4>3
    <3>4. QED
      BY <3>2, <3>3
  <2>8. QED
    BY <1>1, <2>3, <2>6, <2>7
<1>7. CASE ProcessJob
  <2>1. Decodes(job, TRUE) /\ job \in Job
    BY <1>0, <1>7 DEF ProcessJob, TypeOK, QueueType
  <2>2. last_completed_frame' = job.end_frame /\ stream_error' = stream_error
    BY <1>0, <1>7, <2>1, DecodesFacts DEF ProcessJob
  <2>3. decode_pc = "process" /\ decode_pc' = "wait"
        /\ UNCHANGED <<decode_queue, split_start>>
    BY <1>7 DEF ProcessJob
  <2>4. QED
    BY <1>0, <1>1, <2>2, <2>3
<1>8. CASE AbortWorker
  BY <1>0, <1>1, <1>8 DEF AbortWorker, ErrorInv, pcm
<1>9. CASE ExitWorker
  BY <1>0, <1>1, <1>9 DEF ExitWorker, pcm
<1>10. CASE FinishProducer \/ JoinDecode \/ Return
  BY <1>0, <1>1, <1>10 DEF FinishProducer, JoinDecode, Return, queue, pcm
<1>11. CASE JoinDelivery
  <2>1. ~stream_error
    BY <1>1, <1>11, Zenon DEF JoinDelivery, RecordError
  <2>2. UNCHANGED <<decode_queue, decode_pc, job, split_start, last_completed_frame>>
    BY <1>11 DEF JoinDelivery, queue
  <2>3. QED
    BY <1>0, <2>1, <2>2
<1>12. CASE SampleEos \/ SampleThinking \/ SampleFrame \/ GenerationFails
            \/ OnFrame \/ WindowsDone \/ FinalStopped \/ FinalNothing
  <2>1. UNCHANGED <<queue, pcm, split_start>>
    BY <1>12 DEF SampleEos, SampleThinking, SampleFrame, GenerationFails,
                 OnFrame, WindowsDone, FinalStopped, FinalNothing
  <2>2. QED
    BY <1>0, <1>1, <2>1 DEF queue, pcm
<1>13. CASE DeliveryWorker \/ Returned \/ UNCHANGED vars
  <2>1. UNCHANGED <<queue, pcm, split_start>>
    BY <1>13 DEF DeliveryWorker, Returned, vars,
                 SelectChunk, EmitChunk, EmitChunkStopped, ExitDelivery
  <2>2. QED
    BY <1>0, <1>1, <2>1 DEF queue, pcm
<1>14. QED
  BY <1>2, <1>3, <1>4, <1>5, <1>6, <1>7, <1>8, <1>9, <1>10, <1>11, <1>12, <1>13
     DEF Next, Caller, DecodeWorker

\* The steps that decode nothing leave the audio alone.
LEMMA OthersKeepAudio ==
  ASSUME [Next]_vars,
         ~SubmitInline, ~SubmitInlineFails, ~ProcessJob, ~ProcessJobFails, ~ProcessJobStopped
  PROVE  UNCHANGED <<audio, last_completed_frame, buffered>>
BY DEF Next, Caller, DecodeWorker, DeliveryWorker, Returned, vars, pcm,
       SampleEos, SampleThinking, SampleFrame, GenerationFails, OnFrame,
       CutFirstWindow, CutWindow, WindowsDone, FinalStopped, FinalNothing,
       FinalWindow, SubmitAsync, TakeJob, RecordStop, AbortWorker, ExitWorker,
       SelectChunk, EmitChunk, EmitChunkStopped, ExitDelivery,
       FinishProducer, JoinDecode, JoinDelivery, Return

\* An error is recorded with the frames at hand, by a step that generates none.
LEMMA ErrorRecorded ==
  ASSUME [Next]_vars
  PROVE  \/ UNCHANGED <<stream_error, error_frame>>
         \/ /\ RecordError
            /\ UNCHANGED <<frames, last_enqueued_frame>>
            /\ pc' = pc \/ pc' \notin {"sample", "windows", "submit"}
<1>1. CASE SubmitInline \/ SubmitInlineFails \/ ProcessJob \/ ProcessJobFails
           \/ ProcessJobStopped \/ RecordStop \/ JoinDelivery
  <2>1. CASE SubmitInline \/ ProcessJob \/ ProcessJobStopped
    BY <2>1 DEF SubmitInline, ProcessJob, ProcessJobStopped
  <2>2. CASE SubmitInlineFails
    BY <2>2 DEF SubmitInlineFails, DecodeFails, windowing
  <2>3. CASE ProcessJobFails \/ RecordStop
    BY <2>3 DEF ProcessJobFails, RecordStop, DecodeFails, generation, windowing
  <2>4. CASE JoinDelivery
    BY <2>4 DEF JoinDelivery, generation, windowing
  <2>5. QED
    BY <1>1, <2>1, <2>2, <2>3, <2>4
<1>2. CASE ~( \/ SubmitInline \/ SubmitInlineFails \/ ProcessJob \/ ProcessJobFails
              \/ ProcessJobStopped \/ RecordStop \/ JoinDelivery)
  BY <1>2 DEF Next, Caller, DecodeWorker, DeliveryWorker, Returned, vars, pcm,
     SampleEos, SampleThinking, SampleFrame, GenerationFails, OnFrame,
     CutFirstWindow, CutWindow, WindowsDone, FinalStopped, FinalNothing,
     FinalWindow, SubmitAsync, TakeJob, AbortWorker, ExitWorker,
     SelectChunk, EmitChunk, EmitChunkStopped, ExitDelivery,
     FinishProducer, JoinDecode, Return
<1>3. QED
  BY <1>1, <1>2

\* What is broken stays so.
LEMMA BrokenStays ==
  ASSUME [Next]_vars
  PROVE  Broken => Broken'
<1>1. stream_error => stream_error'
  BY ErrorRecorded, Zenon DEF RecordError
<1>2. CASE RecordStop
  BY <1>2, Zenon DEF RecordStop, RecordError, Broken
<1>3. CASE DecodeWorker /\ ~RecordStop
  <2>1. decode_pc # "stopping"
    BY <1>3 DEF DecodeWorker, TakeJob, ProcessJob, ProcessJobFails, ProcessJobStopped,
                AbortWorker, ExitWorker
  <2>2. QED
    BY <1>1, <2>1 DEF Broken
<1>4. CASE SubmitAsync \/ FinishProducer
  BY <1>1, <1>4 DEF SubmitAsync, FinishProducer, Broken
<1>5. CASE ~SubmitAsync /\ ~DecodeWorker /\ ~FinishProducer
  BY <1>1, <1>5, OthersKeepQueue DEF queue, Broken
<1>6. QED
  BY <1>2, <1>3, <1>4, <1>5

\* A decoded job continues the utterance.
LEMMA DecodesContinue ==
  ASSUME IInv, Contexted, ~Broken, NEW keep \in BOOLEAN,
         NEW j \in Job, JobOK(j), j.new_start = last_completed_frame,
         Decodes(j, keep)
  PROVE  /\ IsUtterance(audio')
         /\ Len(audio') = SamplesFor(j.end_frame)
         /\ Len(audio) < Len(audio')
         /\ Len(audio') <= SamplesFor(frames)
<1> DEFINE low == SamplesFor(j.new_start)
           high == SamplesFor(j.end_frame)
<1>1. TypeOK /\ audio \in Seq(Int) /\ IsUtterance(audio) /\ Len(audio) = low
  BY DEF IInv, AudioInv, TypeOK, PcmType
<1>2. /\ j.new_start \in Nat /\ j.end_frame \in Nat
      /\ j.ctx_start <= j.new_start /\ j.new_start < j.end_frame
      /\ j.new_start > 0 => j.ctx_start < j.new_start
  BY DEF Job, JobOK, JobFits
<1>3. NewPcm(j) = Positions(low, high)
  BY <1>2, NewPcmTiles
<1>4. low < high /\ low \in Nat /\ high \in Nat
  BY <1>2, SamplesForMonotone, SamplesForNat
<1>5. audio' = audio \o Positions(low, high)
  BY <1>1, <1>3, DecodesFacts
<1> HIDE DEF low, high
<1>6. Len(audio) <= high /\ audio' = audio \o Positions(Len(audio), high)
  BY <1>1, <1>4, <1>5
<1>7. Len(audio') = high /\ IsUtterance(audio')
  BY <1>1, <1>4, <1>6, AppendPositions
<1>8. high <= SamplesFor(frames)
  <2>1. frames \in Nat /\ j.end_frame <= frames
    BY <1>1 DEF TypeOK, GenerationType, JobOK, JobFits
  <2>2. QED
    BY <1>2, <2>1, SamplesForMonotone, SamplesForNat DEF high
<1>9. QED
  BY <1>1, <1>4, <1>7, <1>8 DEF high

\* A step keeps the audio the beginning of the utterance.
LEMMA AudioStep ==
  ASSUME IInv, [Next]_vars
  PROVE  AudioInv'
<1>0. /\ AudioInv /\ ErrorInv /\ ChainInv /\ WindowInv /\ JobsInv /\ TypeOK
      /\ RequestInv /\ job \in Job /\ req.async \in BOOLEAN
      /\ stream_error \in BOOLEAN
  BY DEF IInv, TypeOK, QueueType, GenerationType, PcmType, Request
<1>1. SUFFICES ASSUME Contexted
               PROVE  /\ IsUtterance(audio')
                      /\ Len(audio') <= SamplesFor(frames')
                      /\ ~Broken' => Len(audio') = SamplesFor(last_completed_frame')
  BY RequestStep DEF AudioInv, Contexted
<1>2. IsUtterance(audio) /\ Len(audio) <= SamplesFor(frames) /\ Len(audio) \in Nat
      /\ (~Broken => Len(audio) = SamplesFor(last_completed_frame))
  BY <1>0, <1>1 DEF AudioInv, TypeOK, PcmType
<1>3. ASSUME DecodeFails
      PROVE  IsUtterance(audio') /\ stream_error' /\ Len(audio') <= SamplesFor(frames)
  BY <1>2, <1>3 DEF DecodeFails, RecordError
<1>4. CASE SubmitInline \/ SubmitInlineFails
  <2>1. pc = "submit" /\ ~req.async
    BY <1>4 DEF SubmitInline, SubmitInlineFails
  <2>2. ~Broken /\ decode_queue = <<>> /\ decode_pc = "exited"
    BY <1>0, <2>1 DEF ErrorInv, Generating, Broken
  <2>3. NextJob \in Job /\ JobOK(NextJob) /\ NextJob.new_start = last_completed_frame
    BY <1>0, <2>1, <2>2, NextJobFacts DEF ChainInv, QueueStart
  <2>4. Decodes(NextJob, TRUE) =>
          /\ IsUtterance(audio') /\ Len(audio') <= SamplesFor(frames)
          /\ Len(audio') = SamplesFor(last_completed_frame')
    BY <1>0, <1>1, <2>2, <2>3, DecodesContinue, DecodesFacts
  <2>5. Decodes(NextJob, FALSE) =>
          IsUtterance(audio') /\ Len(audio') <= SamplesFor(frames)
    BY <1>0, <1>1, <2>2, <2>3, DecodesContinue, DecodesFacts
  <2>6. QED
    BY <1>3, <1>4, <2>4, <2>5
       DEF SubmitInline, SubmitInlineFails, RecordError, Broken, generation
<1>5. CASE ProcessJob \/ ProcessJobFails \/ ProcessJobStopped
  <2>1. decode_pc = "process"
    BY <1>5 DEF ProcessJob, ProcessJobFails, ProcessJobStopped
  <2>2. ~Broken /\ JobOK(job) /\ job.new_start = last_completed_frame
    BY <1>0, <2>1 DEF ErrorInv, ChainInv, JobsInv, Broken
  <2>3. Decodes(job, TRUE) =>
          /\ IsUtterance(audio') /\ Len(audio') <= SamplesFor(frames)
          /\ Len(audio') = SamplesFor(last_completed_frame')
    BY <1>0, <1>1, <2>2, DecodesContinue, DecodesFacts
  <2>4. Decodes(job, FALSE) =>
          IsUtterance(audio') /\ Len(audio') <= SamplesFor(frames)
    BY <1>0, <1>1, <2>2, DecodesContinue, DecodesFacts
  <2>5. QED
    BY <1>3, <1>5, <2>3, <2>4
       DEF ProcessJob, ProcessJobFails, ProcessJobStopped, Broken, generation
<1>6. CASE ~( \/ SubmitInline \/ SubmitInlineFails
              \/ ProcessJob \/ ProcessJobFails \/ ProcessJobStopped)
  <2>1. UNCHANGED <<audio, last_completed_frame>>
    BY <1>6, OthersKeepAudio
  <2>2. Broken => Broken'
    BY BrokenStays
  <2>3. SamplesFor(frames) <= SamplesFor(frames')
    <3>1. CASE frames = frames'
      BY <3>1, FramesGrow, SamplesForNat
    <3>2. CASE frames < frames'
      BY <3>2, FramesGrow, SamplesForMonotone, SamplesForNat
    <3>3. QED
      BY <3>1, <3>2, FramesGrow
  <2>4. Len(audio') <= SamplesFor(frames')
    BY <1>2, <2>1, <2>3, FramesGrow, SamplesForNat
  <2>5. QED
    BY <1>2, <2>1, <2>2, <2>4
<1>7. QED
  BY <1>4, <1>5, <1>6
-----------------------------------------------------------------------------
(***************************************************************************)
(* Delivery, stopping and completeness.                                    *)
(***************************************************************************)
\* The steps that neither decode nor deliver leave the application and the
\* delivery worker alone, but for JoinDecode, which finalizes its buffer.
LEMMA OthersKeepDelivery ==
  ASSUME [Next]_vars, ~DeliveryWorker,
         ~SubmitInline, ~SubmitInlineFails, ~ProcessJob, ~ProcessJobFails, ~ProcessJobStopped
  PROVE  UNCHANGED <<application, emitted_samples, playback_started, failed,
                     delivery_pc, chunk>>
BY DEF Next, Caller, DecodeWorker, Returned, vars, delivery,
       SampleEos, SampleThinking, SampleFrame, GenerationFails, OnFrame,
       CutFirstWindow, CutWindow, WindowsDone, FinalStopped, FinalNothing,
       FinalWindow, SubmitAsync, TakeJob, RecordStop, AbortWorker, ExitWorker,
       FinishProducer, JoinDecode, JoinDelivery, Return

\* The steps that decode leave the delivery worker alone.
LEMMA DecodingKeepsDelivery ==
  ASSUME SubmitInline \/ SubmitInlineFails \/ ProcessJob \/ ProcessJobFails \/ ProcessJobStopped
  PROVE  UNCHANGED delivery
BY DEF SubmitInline, SubmitInlineFails, ProcessJob, ProcessJobFails, ProcessJobStopped

\* A decoding step decodes some job, or fails to; a callback that asks to stop
\* leaves something broken.
LEMMA DecodingSteps ==
  ASSUME IInv,
         \/ SubmitInline \/ SubmitInlineFails
         \/ ProcessJob \/ ProcessJobFails \/ ProcessJobStopped
  PROVE  /\ Broken => Broken'
         /\ \/ DecodeFails
            \/ \E j \in Job, keep \in BOOLEAN : Decodes(j, keep) /\ (keep \/ Broken')
<1>0. TypeOK /\ RequestInv /\ WindowInv /\ job \in Job
  BY DEF IInv, TypeOK, QueueType
<1>1. CASE SubmitInline \/ SubmitInlineFails
  <2>1. NextJob \in Job
    BY <1>0, <1>1, NextJobFacts DEF SubmitInline, SubmitInlineFails
  <2>2. CASE SubmitInline
    BY <2>1, <2>2 DEF SubmitInline, Broken, queue
  <2>3. CASE SubmitInlineFails
    <3>1. Broken'
      BY <2>3, Zenon DEF SubmitInlineFails, DecodeFails, RecordError, Broken
    <3>2. QED
      BY <2>1, <2>3, <3>1 DEF SubmitInlineFails
  <2>4. QED
    BY <1>1, <2>2, <2>3
<1>2. CASE ProcessJob \/ ProcessJobFails \/ ProcessJobStopped
  <2>1. CASE ProcessJob
    BY <1>0, <2>1 DEF ProcessJob, Broken
  <2>2. CASE ProcessJobFails \/ ProcessJobStopped
    <3>1. Broken'
      BY <2>2, Zenon DEF ProcessJobFails, ProcessJobStopped, DecodeFails, RecordError, Broken
    <3>2. QED
      BY <1>0, <2>2, <3>1 DEF ProcessJobFails, ProcessJobStopped
  <2>3. QED
    BY <1>2, <2>1, <2>2
<1>3. QED
  BY <1>1, <1>2

\* A step keeps what is heard and held the beginning of the audio.
LEMMA DeliveryStep ==
  ASSUME IInv, [Next]_vars
  PROVE  DeliveryInv'
<1>0. /\ DeliveryInv /\ TypeOK /\ req' = req /\ req.paced \in BOOLEAN
      /\ audio \in Seq(Int) /\ buffered \in Seq(Int) /\ heard \in Seq(Int)
      /\ chunk.pcm \in Seq(Int) /\ emitted_samples \in Nat
  BY RequestStep
     DEF IInv, TypeOK, PcmType, DeliveryType, ApplicationType, GenerationType, Request
<1>1. CASE SubmitInline \/ SubmitInlineFails \/ ProcessJob \/ ProcessJobFails \/ ProcessJobStopped
  <2>1. UNCHANGED <<emitted_samples, delivery_pc, chunk>>
    BY <1>1, DecodingKeepsDelivery DEF delivery
  <2>2. CASE DecodeFails
    BY <1>0, <2>1, <2>2 DEF DecodeFails, DeliveryInv, application
  <2>3. ASSUME NEW j \in Job, NEW keep \in BOOLEAN, Decodes(j, keep)
        PROVE  DeliveryInv'
    <3> DEFINE new == NewPcm(j)
    <3>1. /\ audio' = audio \o new
          /\ new \in Seq(Int)
          /\ req.paced => buffered' = buffered \o new /\ heard' = heard
          /\ ~req.paced => buffered' = buffered /\ heard' = heard \o new
      BY <1>0, <2>3, DecodesFacts, NewPcmType DEF application
    <3> HIDE DEF new
    <3>2. CASE req.paced
      <4>1. buffered' = audio'
        BY <1>0, <3>1, <3>2 DEF DeliveryInv
      <4>2. /\ Len(audio) <= Len(audio')
            /\ \A i \in 1 .. Len(audio) : audio'[i] = audio[i]
        BY <1>0, <3>1
      <4>3. emitted_samples <= Len(audio)
            /\ Len(heard) + Len(chunk.pcm) = emitted_samples
            /\ Len(heard) \in Nat /\ Len(chunk.pcm) \in Nat /\ Len(audio) \in Nat
        BY <1>0, <3>2 DEF DeliveryInv
      <4>4. \A i \in 1 .. Len(heard) : heard[i] = audio'[i]
        BY <1>0, <3>2, <4>2, <4>3 DEF DeliveryInv
      <4>5. \A i \in 1 .. Len(chunk.pcm) : chunk.pcm[i] = audio'[Len(heard) + i]
        BY <1>0, <3>2, <4>2, <4>3 DEF DeliveryInv
      <4>6. emitted_samples <= Len(buffered')
        BY <1>0, <3>1, <4>1, <4>2, <4>3
      <4>7. QED
        BY <1>0, <2>1, <3>1, <3>2, <4>1, <4>3, <4>4, <4>5, <4>6 DEF DeliveryInv
    <3>3. CASE ~req.paced
      BY <1>0, <2>1, <3>1, <3>3 DEF DeliveryInv
    <3>4. QED
      BY <3>2, <3>3
  <2>4. QED
    BY <1>1, <2>2, <2>3, DecodingSteps
<1>2. CASE SelectChunk
  <2>1. PICK n \in EmitCounts :
          /\ chunk' = [pcm |-> ChunkPcm(n), is_final |-> ChunkIsFinal(n)]
          /\ emitted_samples' = emitted_samples + n
    BY <1>2 DEF SelectChunk
  <2>2. /\ n \in Nat /\ n > 0 /\ emitted_samples + n <= Len(buffered)
        /\ Len(ChunkPcm(n)) = n
        /\ \A i \in 1 .. n : ChunkPcm(n)[i] = buffered[emitted_samples + i]
    BY <1>0, EmitCountsFacts DEF DeliveryInv
  <2>3. /\ delivery_pc = "wait" /\ delivery_pc' = "emit"
        /\ UNCHANGED <<audio, buffered, heard>>
    BY <1>2 DEF SelectChunk, pcm, application
  <2>4. chunk'.pcm = ChunkPcm(n)
    BY <2>1
  <2>5. req.paced /\ chunk = NoChunk
    BY <1>0, <2>3 DEF DeliveryInv
  <2>6. Len(chunk.pcm) = 0
    BY <2>5 DEF NoChunk
  <2>7. Len(heard) = emitted_samples /\ buffered = audio
    BY <1>0, <2>5, <2>6 DEF DeliveryInv
  <2>8. /\ emitted_samples' <= Len(buffered')
        /\ Len(heard') + Len(chunk'.pcm) = emitted_samples'
        /\ Len(chunk'.pcm) > 0
    BY <1>0, <2>1, <2>2, <2>3, <2>4, <2>7
  <2>9. \A i \in 1 .. Len(chunk'.pcm) : chunk'.pcm[i] = audio'[Len(heard') + i]
    BY <2>2, <2>3, <2>4, <2>7
  <2>10. \A i \in 1 .. Len(heard') : heard'[i] = audio'[i]
    BY <1>0, <2>3, <2>5 DEF DeliveryInv
  <2>11. QED
    BY <1>0, <2>3, <2>5, <2>7, <2>8, <2>9, <2>10 DEF DeliveryInv
<1>3. CASE EmitChunk \/ EmitChunkStopped
  <2>1. /\ delivery_pc = "emit" /\ delivery_pc' # "emit" /\ chunk' = NoChunk
        /\ heard' = heard \o chunk.pcm
        /\ UNCHANGED <<audio, buffered, emitted_samples>>
    BY <1>3 DEF EmitChunk, EmitChunkStopped, CallBack, pcm
  <2>2. req.paced
    BY <1>0, <2>1 DEF DeliveryInv
  <2>3. Len(chunk'.pcm) = 0
    BY <2>1 DEF NoChunk
  <2>4. Len(heard') = emitted_samples
    BY <1>0, <2>1, <2>2 DEF DeliveryInv
  <2>5. \A i \in 1 .. Len(heard') : heard'[i] = audio[i]
    <3>1. \A i \in 1 .. Len(heard) : heard'[i] = heard[i]
      BY <1>0, <2>1
    <3>2. ASSUME NEW i \in 1 .. Len(heard'), i > Len(heard)
          PROVE  heard'[i] = audio[i]
      <4>1. heard'[i] = chunk.pcm[i - Len(heard)]
        BY <1>0, <2>1, <3>2
      <4>2. /\ i - Len(heard) \in 1 .. Len(chunk.pcm)
            /\ Len(heard) + (i - Len(heard)) = i
        BY <1>0, <2>1, <3>2
      <4>3. chunk.pcm[i - Len(heard)] = audio[Len(heard) + (i - Len(heard))]
        BY <1>0, <2>2, <4>2 DEF DeliveryInv
      <4>4. QED
        BY <4>1, <4>2, <4>3
    <3>3. \A i \in 1 .. Len(heard') : i \in 1 .. Len(heard) \/ i > Len(heard)
      BY <1>0
    <3>4. \A i \in 1 .. Len(heard) : heard[i] = audio[i]
      BY <1>0, <2>2 DEF DeliveryInv
    <3>5. QED
      BY <3>1, <3>2, <3>3, <3>4
  <2>6. Len(heard') + Len(chunk'.pcm) = emitted_samples'
    BY <1>0, <2>1, <2>3, <2>4
  <2>7. QED
    BY <1>0, <2>1, <2>2, <2>3, <2>5, <2>6 DEF DeliveryInv
<1>4. CASE ExitDelivery
  <2>1. delivery_pc' # "emit" /\ delivery_pc # "emit"
        /\ UNCHANGED <<emitted_samples, chunk, audio, buffered, heard>>
    BY <1>4 DEF ExitDelivery, pcm, application
  <2>2. delivery_pc' = "exited"
    BY <1>4 DEF ExitDelivery
  <2>3. QED
    BY <1>0, <2>1, <2>2 DEF DeliveryInv
<1>5. CASE ~( \/ DeliveryWorker
              \/ SubmitInline \/ SubmitInlineFails
              \/ ProcessJob \/ ProcessJobFails \/ ProcessJobStopped)
  <2>1. UNCHANGED <<audio, buffered, heard, emitted_samples, delivery_pc, chunk>>
    BY <1>5, OthersKeepAudio, OthersKeepDelivery DEF application
  <2>2. QED
    BY <1>0, <2>1 DEF DeliveryInv
<1>6. QED
  BY <1>1, <1>2, <1>3, <1>4, <1>5 DEF DeliveryWorker

\* A step keeps the mark of a callback that asked to stop.
LEMMA StopStep ==
  ASSUME IInv, [Next]_vars
  PROVE  StopInv'
<1>0. /\ StopInv /\ ErrorInv /\ DeliveryInv /\ TypeOK /\ req' = req
      /\ req.paced \in BOOLEAN /\ stream_error \in BOOLEAN /\ failed \in BOOLEAN
      /\ frames \in Nat
  BY RequestStep
     DEF IInv, TypeOK, PcmType, DeliveryType, GenerationType, Request
<1> USE DEF StopInv, stopped
<1>1. CASE SubmitInline \/ SubmitInlineFails \/ ProcessJob \/ ProcessJobFails \/ ProcessJobStopped
  <2>1. UNCHANGED <<delivery_pc, failed>>
    BY <1>1, DecodingKeepsDelivery DEF delivery
  <2>2. pc \notin {"result", "done"}
    BY <1>0, <1>1 DEF SubmitInline, SubmitInlineFails, ProcessJob, ProcessJobFails,
                      ProcessJobStopped, ErrorInv
  <2>3. pc' \notin {"result", "done"} /\ outcome' = outcome
    BY <1>1, <2>2 DEF SubmitInline, SubmitInlineFails, ProcessJob, ProcessJobFails,
                      ProcessJobStopped, AfterSubmit, generation
  <2>4. outcome = "running"
    BY <1>0, <2>2
  <2>8. Broken => Broken'
    BY <1>1, DecodingSteps
  <2>5. CASE DecodeFails
    BY <1>0, <2>1, <2>2, <2>3, <2>4, <2>5, <2>8 DEF DecodeFails, application
  <2>6. ASSUME NEW j \in Job, NEW keep \in BOOLEAN, Decodes(j, keep), keep \/ Broken'
        PROVE  StopInv'
    <3>1. /\ stop_frame' = IF keep THEN stop_frame ELSE frames
          /\ req.paced => keep
      BY <1>0, <2>6, DecodesFacts
    <3>2. stop_frame' >= 0 => IF req.paced THEN failed ELSE Broken'
      BY <1>0, <2>6, <2>8, <3>1
    <3>3. QED
      BY <1>0, <2>1, <2>3, <2>4, <3>2
  <2>7. QED
    BY <1>1, <2>5, <2>6, DecodingSteps
<1>2. CASE DeliveryWorker
  <2>1. /\ delivery_pc \in {"wait", "emit"}
        /\ UNCHANGED <<generation, pc, stream_error>>
    BY <1>2 DEF DeliveryWorker, SelectChunk, EmitChunk, EmitChunkStopped,
                ExitDelivery, pcm
  <2>2. req.paced /\ ~failed /\ ~stopped /\ pc \notin {"result", "done"}
    BY <1>0, <2>1 DEF DeliveryInv
  <2>3. outcome = "running" /\ outcome' = outcome
    BY <1>0, <2>1, <2>2 DEF generation
  <2>4. \/ failed' = failed /\ stop_frame' = stop_frame
        \/ failed' = TRUE /\ delivery_pc' = "exited"
    BY <1>2 DEF DeliveryWorker, SelectChunk, EmitChunk, EmitChunkStopped,
                ExitDelivery, CallBack, application
  <2>5. QED
    BY <1>0, <2>1, <2>2, <2>3, <2>4
<1>3. CASE JoinDelivery
  BY <1>0, <1>3 DEF JoinDelivery, RecordError, Broken, generation, queue, delivery,
                    application
<1>4. CASE Return
  BY <1>0, <1>4 DEF Return, Broken, queue, delivery, application, pcm
<1>7. CASE RecordStop
  <2>1. /\ stream_error' = TRUE
        /\ UNCHANGED <<generation, pc, delivery, application>>
    BY <1>7, Zenon DEF RecordStop, RecordError
  <2>2. pc \notin {"result", "done"}
    BY <1>0, <1>7 DEF RecordStop, ErrorInv
  <2>3. QED
    BY <1>0, <2>1, <2>2 DEF Broken, generation, delivery, application
<1>5. CASE ~( \/ DeliveryWorker \/ JoinDelivery \/ Return \/ RecordStop
              \/ SubmitInline \/ SubmitInlineFails
              \/ ProcessJob \/ ProcessJobFails \/ ProcessJobStopped)
  <2>1. UNCHANGED <<application, failed, delivery_pc>>
    BY <1>5, OthersKeepDelivery
  <2>2. /\ stream_error' = stream_error
        /\ outcome' = outcome
        /\ generate_ok' = generate_ok \/ pc # "done"
        /\ pc' = pc \/ (pc' \notin {"result", "done"} /\ pc # "done")
    <3>1. CASE \/ SampleEos \/ SampleThinking \/ SampleFrame \/ GenerationFails
               \/ OnFrame \/ WindowsDone \/ FinalStopped \/ FinalNothing
      BY <3>1 DEF SampleEos, SampleThinking, SampleFrame, GenerationFails,
         OnFrame, WindowsDone, FinalStopped, FinalNothing, generation, pcm
    <3>2. CASE CutFirstWindow \/ CutWindow \/ FinalWindow
      BY <3>2 DEF CutFirstWindow, CutWindow, FinalWindow, Enqueue, generation, pcm
    <3>3. CASE SubmitAsync \/ FinishProducer \/ JoinDecode
      BY <3>3 DEF SubmitAsync, AfterSubmit, FinishProducer, JoinDecode,
         generation, pcm
    <3>4. CASE TakeJob \/ AbortWorker \/ ExitWorker \/ Returned \/ UNCHANGED vars
      <4>1. UNCHANGED <<generation, pc, pcm>>
        BY <3>4 DEF TakeJob, AbortWorker, ExitWorker, Returned, vars
      <4>2. /\ generate_ok' = generate_ok /\ outcome' = outcome
            /\ stream_error' = stream_error /\ pc' = pc
        BY <4>1 DEF generation, pcm
      <4>3. QED
        BY <4>2, Zenon
    <3>5. QED
      BY <1>5, <3>1, <3>2, <3>3, <3>4 DEF Next, Caller, DecodeWorker
  <2>3. QED
    <3>1. Broken => Broken'
      BY BrokenStays
    <3>2. QED
      BY <1>0, <2>1, <2>2, <3>1 DEF application
<1>6. QED
  BY <1>1, <1>2, <1>3, <1>4, <1>5, <1>7

\* A step leaves nothing behind unless something failed.
LEMMA CompleteStep ==
  ASSUME IInv, [Next]_vars
  PROVE  CompleteInv'
<1>0. /\ CompleteInv /\ StopInv /\ ErrorInv /\ DeliveryInv /\ WindowInv /\ TypeOK
      /\ RequestInv /\ req' = req /\ req.paced \in BOOLEAN /\ req.async \in BOOLEAN
      /\ frames \in Nat /\ last_enqueued_frame \in Nat
  BY RequestStep DEF IInv, TypeOK, GenerationType, WindowingType, Request
<1> USE DEF CompleteInv, Generating
<1>1. CASE SampleEos \/ SampleThinking \/ SampleFrame \/ GenerationFails
           \/ OnFrame \/ WindowsDone \/ FinalStopped \/ FinalNothing
  <2>1. /\ pc \in {"sample", "on_frame", "windows", "on_final"}
        /\ pc' \notin {"join_delivery", "result", "done"}
        /\ UNCHANGED <<queue, pcm, buffered, delivery, outcome>>
    BY <1>1 DEF SampleEos, SampleThinking, SampleFrame, GenerationFails,
                OnFrame, WindowsDone, FinalStopped, FinalNothing, generation
  <2>2. pc' \notin {"sample", "on_frame", "windows", "submit", "on_final"}
          /\ generate_ok' /\ ~stream_error' => split_start' = frames'
    <3>1. CASE SampleEos \/ SampleThinking \/ SampleFrame \/ WindowsDone
      BY <3>1 DEF SampleEos, SampleThinking, SampleFrame, WindowsDone
    <3>2. CASE GenerationFails \/ OnFrame \/ FinalStopped
      BY <3>2 DEF GenerationFails, OnFrame, FinalStopped
    <3>3. CASE FinalNothing
      <4>1. /\ pc = "on_final" /\ frames <= last_enqueued_frame
            /\ UNCHANGED <<frames, split_start>>
        BY <3>3 DEF FinalNothing, generation
      <4>2. split_start = last_enqueued_frame /\ last_enqueued_frame <= frames
        BY <1>0, <4>1 DEF WindowInv
      <4>3. QED
        BY <1>0, <4>1, <4>2
    <3>4. QED
      BY <1>1, <3>1, <3>2, <3>3
  <2>3. outcome = "running"
    BY <1>0, <2>1 DEF StopInv
  <2>4. QED
    BY <1>0, <2>1, <2>2, <2>3 DEF queue, pcm, delivery
<1>2. CASE CutFirstWindow \/ CutWindow \/ FinalWindow
  <2>1. /\ pc \in {"windows", "on_final"} /\ pc' = "submit"
        /\ UNCHANGED <<queue, pcm, buffered, delivery, outcome>>
    BY <1>2 DEF CutFirstWindow, CutWindow, FinalWindow, Enqueue, generation
  <2>2. outcome = "running"
    BY <1>0, <2>1 DEF StopInv
  <2>3. QED
    BY <1>0, <2>1, <2>2 DEF queue, pcm, delivery
<1>3. CASE SubmitAsync \/ SubmitInline \/ SubmitInlineFails
  <2>1. pc = "submit" /\ outcome = "running"
    BY <1>0, <1>3 DEF SubmitAsync, SubmitInline, SubmitInlineFails, StopInv
  <2>2. /\ window.end = last_enqueued_frame /\ last_enqueued_frame <= frames
        /\ window.is_final => window.end = frames
        /\ NextJob.end_frame <= window.end /\ NextJob.end_frame \in Nat
    BY <1>0, <2>1, NextJobFacts DEF WindowInv, Job
  <2>3. /\ UNCHANGED <<delivery, outcome, decode_pc, producer_done, frames>>
        /\ pc' \in {"submit", "windows", "finish"}
    BY <1>3 DEF SubmitAsync, SubmitInline, SubmitInlineFails, AfterSubmit,
                generation, queue
  <2>4. stream_error => stream_error'
    BY <1>3, Zenon DEF SubmitAsync, SubmitInline, SubmitInlineFails, pcm,
                       DecodeFails, RecordError
  <2>5. decode_queue' = decode_queue \/ req.async
    BY <1>3 DEF SubmitAsync, SubmitInline, SubmitInlineFails, queue
  <2>6. decode_pc = "exited" /\ ~stream_error' => decode_queue' = <<>>
    BY <1>0, <2>1, <2>4, <2>5 DEF ErrorInv
  <2>7. pc' = "finish" /\ generate_ok' => split_start' = frames'
    <3>1. CASE SubmitInlineFails
      BY <3>1 DEF SubmitInlineFails
    <3>2. CASE SubmitAsync \/ SubmitInline
      <4>1. /\ pc' = AfterSubmit /\ split_start' = NextJob.end_frame
            /\ window.end \in Nat
        BY <1>0, <2>2, <3>2 DEF SubmitAsync, SubmitInline
      <4>2. pc' = "finish" => ~(NextJob.end_frame < window.end) /\ window.is_final
        BY <4>1 DEF AfterSubmit
      <4>3. QED
        BY <2>2, <2>3, <4>1, <4>2
    <3>3. QED
      BY <1>3, <3>1, <3>2
  <2>8. delivery_pc' = "exited" /\ req.paced /\ ~failed' =>
          finalized' /\ emitted_samples' = Len(buffered')
    BY <1>0, <2>1, <2>3 DEF delivery
  <2>9. QED
    BY <1>0, <2>1, <2>3, <2>4, <2>6, <2>7, <2>8 DEF delivery
<1>4. CASE TakeJob \/ AbortWorker \/ ExitWorker
  <2>1. /\ UNCHANGED <<generation, pc, split_start, pcm, buffered, delivery>>
        /\ decode_pc # "exited"
    BY <1>4 DEF TakeJob, AbortWorker, ExitWorker
  <2>2. decode_pc' = "exited" /\ ~stream_error =>
          decode_queue' = <<>> /\ producer_done'
    BY <1>0, <1>4 DEF TakeJob, AbortWorker, ExitWorker
  <2>3. QED
    BY <1>0, <2>1, <2>2 DEF generation, pcm, delivery
<1>5. CASE ProcessJob \/ ProcessJobFails \/ ProcessJobStopped \/ RecordStop
  <2>1. /\ UNCHANGED <<generation, pc, split_start, delivery>>
        /\ decode_pc \in {"process", "stopping"} /\ decode_pc' # "exited"
    BY <1>5 DEF ProcessJob, ProcessJobFails, ProcessJobStopped, RecordStop
  <2>2. stream_error => stream_error'
    BY <1>5, Zenon DEF ProcessJob, ProcessJobFails, ProcessJobStopped, RecordStop,
                       DecodeFails, RecordError
  <2>3. pc \notin {"join_delivery", "result", "done"}
    BY <1>0, <2>1 DEF ErrorInv
  <2>4. ~finalized
    BY <1>0, <2>3
  <2>5. QED
    BY <1>0, <2>1, <2>2, <2>3, <2>4 DEF generation, delivery
<1>6. CASE DeliveryWorker
  <2>1. UNCHANGED <<generation, pc, split_start, queue, pcm, buffered, finalized>>
    BY <1>6 DEF DeliveryWorker, SelectChunk, EmitChunk, EmitChunkStopped, ExitDelivery
  <2>2. delivery_pc' = "exited" /\ ~failed' =>
          finalized' /\ emitted_samples' = Len(buffered')
    <3>1. CASE SelectChunk \/ EmitChunk \/ EmitChunkStopped
      BY <3>1 DEF SelectChunk, EmitChunk, EmitChunkStopped
    <3>2. CASE ExitDelivery
      <4>1. /\ finalized /\ available = 0
            /\ UNCHANGED <<emitted_samples, buffered, finalized>>
        BY <3>2 DEF ExitDelivery
      <4>2. emitted_samples \in Nat /\ Len(buffered) \in Nat
        BY <1>0 DEF TypeOK, PcmType, DeliveryType
      <4>3. QED
        BY <4>1, <4>2 DEF available
    <3>3. QED
      BY <1>6, <3>1, <3>2 DEF DeliveryWorker
  <2>3. QED
    BY <1>0, <2>1, <2>2 DEF generation, queue, pcm
<1>7. CASE FinishProducer
  BY <1>0, <1>7 DEF FinishProducer, generation, pcm, delivery, ErrorInv
<1>8. CASE JoinDecode
  <2>1. /\ pc = "join_decode" /\ pc' = "join_delivery" /\ finalized' = req.paced
        /\ decode_pc = "exited"
        /\ UNCHANGED <<generation, split_start, queue, pcm, buffered,
                       emitted_samples, failed, delivery_pc>>
    BY <1>8 DEF JoinDecode
  <2>2. QED
    BY <1>0, <2>1 DEF generation, queue, pcm
<1>9. CASE JoinDelivery
  <2>1. /\ pc = "join_delivery" /\ pc' = "result"
        /\ stream_error => stream_error'
        /\ UNCHANGED <<generation, split_start, queue, buffered, delivery>>
    BY <1>9, Zenon DEF JoinDelivery, RecordError
  <2>2. QED
    BY <1>0, <2>1 DEF generation, queue, delivery
<1>10. CASE Return
  <2>1. /\ pc = "result" /\ pc' = "done"
        /\ outcome' = "ok" => frames > 0
        /\ UNCHANGED <<frames, generate_ok, split_start, queue, pcm, buffered, delivery>>
    BY <1>10 DEF Return
  <2>2. QED
    BY <1>0, <2>1 DEF queue, pcm, delivery
<1>11. CASE Returned \/ UNCHANGED vars
  <2>1. UNCHANGED <<generation, pc, split_start, queue, pcm, buffered, delivery>>
    BY <1>11 DEF Returned, vars
  <2>2. QED
    BY <1>0, <2>1 DEF generation, queue, pcm, delivery
<1>12. QED
  BY <1>1, <1>2, <1>3, <1>4, <1>5, <1>6, <1>7, <1>8, <1>9, <1>10, <1>11
     DEF Next, Caller, DecodeWorker
-----------------------------------------------------------------------------
(***************************************************************************)
(* The invariant and what follows from it.                                 *)
(***************************************************************************)
\* A step keeps the final job and the final chunk last.
LEMMA FinalStep ==
  ASSUME IInv, [Next]_vars
  PROVE  FinalInv'
<1>0. /\ FinalInv /\ TypeOK /\ req' = req /\ RequestInv /\ WindowInv
      /\ ErrorInv /\ DeliveryInv /\ CompleteInv
      /\ req.paced \in BOOLEAN /\ decode_queue \in Seq(Job) /\ job \in Job
      /\ finals \in Nat /\ finalized \in BOOLEAN /\ chunk.is_final \in BOOLEAN
  BY RequestStep
     DEF IInv, TypeOK, GenerationType, QueueType, DeliveryType, ApplicationType, Request
<1> DEFINE FinalWindowWhole == pc = "submit" /\ window.is_final => window.split = 0
           FinalJobQueued == \A i \in 1 .. Len(decode_queue) :
             decode_queue[i].is_final => i = Len(decode_queue) /\ ~Generating
           FinalJobTaken ==
             decode_pc = "process" /\ job.is_final => decode_queue = <<>> /\ ~Generating
           FinalJobDone == ~req.paced /\ finals > 0 =>
             decode_queue = <<>> /\ decode_pc # "process" /\ ~Generating
           FinalChunk == chunk.is_final \/ (req.paced /\ finals > 0) =>
             finalized /\ emitted_samples = Len(buffered)
           FinalEmitted == req.paced /\ finals > 0 => delivery_pc # "emit"
<1>a. /\ FinalWindowWhole /\ FinalJobQueued /\ FinalJobTaken /\ FinalJobDone
      /\ FinalChunk /\ FinalEmitted
  BY <1>0 DEF FinalInv
<1>b. /\ FinalWindowWhole' /\ FinalJobQueued' /\ FinalJobTaken' /\ FinalJobDone'
      /\ FinalChunk' /\ FinalEmitted'
      => FinalInv'
  BY DEF FinalInv
<1>c. ASSUME UNCHANGED <<delivery, finals, buffered>>
      PROVE  FinalChunk' /\ FinalEmitted'
  BY <1>0, <1>a, <1>c DEF delivery
<1>d. ASSUME ~Generating => ~Generating', UNCHANGED <<queue, finals>>
      PROVE  FinalJobQueued' /\ FinalJobTaken' /\ FinalJobDone'
  BY <1>0, <1>a, <1>d DEF queue
<1> HIDE DEF FinalWindowWhole, FinalJobQueued, FinalJobTaken, FinalJobDone, FinalChunk,
             FinalEmitted
<1> USE DEF generation, application
<1>1. CASE \/ SampleEos \/ SampleThinking \/ SampleFrame \/ GenerationFails \/ OnFrame
           \/ WindowsDone \/ FinalStopped \/ FinalNothing
  <2>1. /\ UNCHANGED <<delivery, queue, finals, buffered>>
        /\ Generating /\ pc' # "submit"
    BY <1>1 DEF SampleEos, SampleThinking, SampleFrame, GenerationFails, OnFrame,
                WindowsDone, FinalStopped, FinalNothing, Generating
  <2>2. FinalWindowWhole'
    BY <2>1 DEF FinalWindowWhole
  <2>3. QED
    BY <1>b, <1>c, <1>d, <2>1, <2>2
<1>2. CASE CutFirstWindow \/ CutWindow \/ FinalWindow
  <2>1. /\ UNCHANGED <<delivery, queue, finals, buffered>> /\ Generating
        /\ \E e, f : Enqueue(e, f)
    BY <1>2 DEF CutFirstWindow, CutWindow, FinalWindow, Generating
  <2>2. FinalWindowWhole'
    BY <2>1 DEF FinalWindowWhole, Enqueue, SplitsWindow
  <2>3. QED
    BY <1>b, <1>c, <1>d, <2>1, <2>2
<1>3. ASSUME pc = "submit"
      PROVE  /\ Generating /\ NextJob \in Job /\ NextJob.is_final = window.is_final
             /\ window.is_final => AfterSubmit = "finish"
  <2>1. NextJob \in Job /\ NextJob.is_final = window.is_final
    BY <1>0, <1>3, NextJobFacts
  <2>2. window.is_final => NextJob.end_frame = window.end
    BY <1>a, <1>3 DEF FinalWindowWhole, NextJob, MakeJob
  <2>3. window.end \in Nat
    BY <1>0 DEF TypeOK, WindowingType, Window
  <2>4. QED
    BY <1>3, <2>1, <2>2, <2>3 DEF AfterSubmit, Generating
<1>4. CASE SubmitAsync
  <2> DEFINE next == NextJob
  <2>1. /\ decode_queue' = Append(decode_queue, next) /\ pc' = AfterSubmit
        /\ UNCHANGED <<job, decode_pc, delivery, finals, buffered, window>> /\ pc = "submit"
    BY <1>4 DEF SubmitAsync, windowing
  <2>2. next \in Job /\ Generating /\ (next.is_final => ~Generating')
    BY <1>3, <2>1 DEF Generating
  <2> HIDE DEF next
  <2>3. FinalJobQueued'
    BY <1>0, <1>a, <2>1, <2>2 DEF FinalJobQueued
  <2>4. FinalJobTaken' /\ FinalJobDone'
    BY <1>0, <1>a, <2>1, <2>2 DEF FinalJobTaken, FinalJobDone
  <2>5. FinalWindowWhole'
    BY <1>a, <2>1 DEF FinalWindowWhole
  <2>6. QED
    BY <1>b, <1>c, <2>1, <2>3, <2>4, <2>5
<1>5. ASSUME NEW j \in Job, NEW keep \in BOOLEAN, Decodes(j, keep), UNCHANGED delivery,
             pc = "submit" \/ decode_pc = "process"
      PROVE  /\ FinalChunk' /\ FinalEmitted'
             /\ ~req.paced => finals' = IF j.is_final THEN finals + 1 ELSE finals
  <2>1. ~finalized
    BY <1>0, <1>5 DEF CompleteInv, ErrorInv
  <2>2. /\ req.paced => finals' = finals
        /\ ~req.paced => finals' = IF j.is_final THEN finals + 1 ELSE finals
    BY <1>0, <1>5, DecodesFacts
  <2>3. QED
    BY <1>0, <1>a, <1>5, <2>1, <2>2 DEF FinalChunk, FinalEmitted, delivery
<1>6. CASE SubmitInline \/ SubmitInlineFails
  <2>1. /\ UNCHANGED <<queue, delivery, window>> /\ pc = "submit" /\ ~req.async
        /\ pc' \in {AfterSubmit, "finish"}
    BY <1>6 DEF SubmitInline, SubmitInlineFails, windowing
  <2>2. decode_queue = <<>> /\ decode_pc = "exited"
    BY <1>0, <2>1 DEF ErrorInv
  <2>3. FinalJobQueued' /\ FinalJobTaken' /\ FinalWindowWhole'
    <3>1. decode_queue' = <<>> /\ decode_pc' = "exited"
      BY <2>1, <2>2 DEF queue
    <3>2. QED
      BY <1>a, <2>1, <3>1 DEF FinalJobQueued, FinalJobTaken, FinalWindowWhole
  <2>4. CASE DecodeFails
    <3>1. UNCHANGED <<finals, buffered>>
      BY <2>4 DEF DecodeFails
    <3>2. FinalJobDone'
      BY <1>0, <1>a, <1>3, <2>1, <3>1 DEF FinalJobDone
    <3>3. QED
      BY <1>b, <1>c, <2>1, <2>3, <3>1, <3>2
  <2>5. ASSUME NEW keep \in BOOLEAN, Decodes(NextJob, keep)
        PROVE  FinalInv'
    <3>1. /\ FinalChunk' /\ FinalEmitted'
          /\ ~req.paced => finals' = IF NextJob.is_final THEN finals + 1 ELSE finals
      BY <1>3, <1>5, <2>1, <2>5
    <3>2. FinalJobDone'
      <4>1. ~req.paced => finals = 0
        BY <1>0, <1>a, <1>3, <2>1 DEF FinalJobDone
      <4>2. NextJob.is_final => ~Generating'
        BY <1>3, <2>1 DEF Generating
      <4>3. QED
        BY <1>0, <2>1, <2>2, <3>1, <4>1, <4>2 DEF FinalJobDone, queue
    <3>3. QED
      BY <1>b, <2>3, <3>1, <3>2
  <2>6. QED
    BY <1>6, <2>4, <2>5 DEF SubmitInline, SubmitInlineFails
<1>7. CASE ProcessJob \/ ProcessJobFails \/ ProcessJobStopped
  <2>1. /\ UNCHANGED <<decode_queue, job, delivery, pc, window>>
        /\ decode_pc = "process" /\ decode_pc' \in {"wait", "stopping", "abort"}
    BY <1>7 DEF ProcessJob, ProcessJobFails, ProcessJobStopped, windowing
  <2>2. FinalJobQueued' /\ FinalJobTaken' /\ FinalWindowWhole'
    BY <1>a, <2>1 DEF FinalJobQueued, FinalJobTaken, FinalWindowWhole, Generating
  <2>3. CASE DecodeFails
    <3>1. UNCHANGED <<finals, buffered>>
      BY <2>3 DEF DecodeFails
    <3>2. FinalJobDone'
      BY <1>0, <1>a, <2>1, <3>1 DEF FinalJobDone
    <3>3. QED
      BY <1>b, <1>c, <2>1, <2>2, <3>1, <3>2
  <2>4. ASSUME NEW keep \in BOOLEAN, Decodes(job, keep)
        PROVE  FinalInv'
    <3>1. /\ FinalChunk' /\ FinalEmitted'
          /\ ~req.paced => finals' = IF job.is_final THEN finals + 1 ELSE finals
      BY <1>0, <1>5, <2>1, <2>4
    <3>2. FinalJobDone'
      <4>1. ~req.paced => finals = 0
        BY <1>0, <1>a, <2>1 DEF FinalJobDone
      <4>2. job.is_final => decode_queue = <<>> /\ ~Generating
        BY <1>a, <2>1 DEF FinalJobTaken
      <4>3. QED
        BY <1>0, <2>1, <3>1, <4>1, <4>2 DEF FinalJobDone, Generating
    <3>3. QED
      BY <1>b, <2>2, <3>1, <3>2
  <2>5. QED
    BY <1>7, <2>3, <2>4 DEF ProcessJob, ProcessJobFails, ProcessJobStopped
<1>8. CASE TakeJob
  <2>1. /\ job' = decode_queue[1] /\ decode_queue' = Tail(decode_queue)
        /\ decode_queue # <<>>
        /\ UNCHANGED <<pc, window, delivery, finals, buffered>>
    BY <1>0, <1>8 DEF TakeJob, windowing
  <2>2. FinalJobQueued'
    BY <1>0, <1>a, <2>1 DEF FinalJobQueued, Generating
  <2>3. FinalJobTaken'
    <3>1. 1 \in 1 .. Len(decode_queue)
      BY <1>0, <2>1
    <3>2. decode_queue[1].is_final => 1 = Len(decode_queue) /\ ~Generating
      BY <1>a, <3>1 DEF FinalJobQueued
    <3>3. 1 = Len(decode_queue) => decode_queue' = <<>>
      BY <1>0, <2>1
    <3>4. QED
      BY <2>1, <3>2, <3>3 DEF FinalJobTaken, Generating
  <2>4. FinalJobDone' /\ FinalWindowWhole'
    BY <1>0, <1>a, <2>1 DEF FinalJobDone, FinalWindowWhole
  <2>5. QED
    BY <1>b, <1>c, <2>1, <2>2, <2>3, <2>4
<1>9. CASE RecordStop \/ AbortWorker \/ ExitWorker
  <2>1. /\ decode_queue' \in {<<>>, decode_queue} /\ decode_pc' \in {"abort", "exited"}
        /\ UNCHANGED <<pc, window, delivery, finals, buffered>>
    BY <1>9 DEF RecordStop, AbortWorker, ExitWorker, windowing
  <2>2. FinalJobQueued' /\ FinalJobTaken' /\ FinalJobDone' /\ FinalWindowWhole'
    BY <1>0, <1>a, <2>1 DEF FinalJobQueued, FinalJobTaken, FinalJobDone,
      FinalWindowWhole, Generating
  <2>3. QED
    BY <1>b, <1>c, <2>1, <2>2
<1>10. CASE DeliveryWorker
  <2>1. /\ UNCHANGED <<pc, window, queue, buffered, finalized>>
        /\ delivery_pc \in {"wait", "emit"}
    BY <1>10 DEF DeliveryWorker, SelectChunk, EmitChunk, EmitChunkStopped, ExitDelivery,
                 windowing
  <2>2. req.paced /\ Len(buffered) \in Nat /\ emitted_samples \in Nat
    BY <1>0, <2>1 DEF DeliveryInv, TypeOK, PcmType, DeliveryType
  <2>3. FinalJobQueued' /\ FinalJobTaken' /\ FinalJobDone' /\ FinalWindowWhole'
    BY <1>0, <1>a, <2>1, <2>2 DEF FinalJobQueued, FinalJobTaken, FinalJobDone,
      FinalWindowWhole, Generating, queue
  <2>4. CASE SelectChunk
    <3>1. PICK n \in EmitCounts :
            /\ chunk' = [pcm |-> ChunkPcm(n), is_final |-> ChunkIsFinal(n)]
            /\ emitted_samples' = emitted_samples + n
      BY <2>4 DEF SelectChunk
    <3>2. n \in Nat /\ n > 0 /\ emitted_samples + n <= Len(buffered)
      BY <1>0, EmitCountsFacts DEF DeliveryInv
    <3>3. finals' = finals /\ finals = 0
      BY <1>0, <1>a, <2>2, <2>4, <3>2 DEF SelectChunk, FinalChunk
    <3>4. chunk'.is_final => finalized /\ emitted_samples' = Len(buffered)
      <4>1. chunk'.is_final = ChunkIsFinal(n)
        BY <3>1
      <4>2. ChunkIsFinal(n) => finalized /\ emitted_samples + n = Len(buffered)
        BY <2>2, <3>2 DEF ChunkIsFinal
      <4>3. QED
        BY <3>1, <4>1, <4>2
    <3>5. FinalChunk' /\ FinalEmitted'
      BY <2>1, <3>3, <3>4 DEF FinalChunk, FinalEmitted
    <3>6. QED
      BY <1>b, <2>3, <3>5
  <2>5. CASE EmitChunk \/ EmitChunkStopped
    <3>1. /\ delivery_pc = "emit" /\ delivery_pc' # "emit" /\ chunk' = NoChunk
          /\ finals' = IF chunk.is_final THEN finals + 1 ELSE finals
          /\ UNCHANGED emitted_samples
      BY <2>5 DEF EmitChunk, EmitChunkStopped, CallBack
    <3>2. finals = 0 /\ ~chunk'.is_final
      BY <1>0, <1>a, <2>2, <3>1 DEF FinalEmitted, NoChunk
    <3>3. FinalChunk' /\ FinalEmitted'
      BY <1>0, <1>a, <2>1, <3>1, <3>2 DEF FinalChunk, FinalEmitted
    <3>4. QED
      BY <1>b, <2>3, <3>3
  <2>6. CASE ExitDelivery
    <3>1. UNCHANGED <<emitted_samples, chunk, finals>> /\ delivery_pc' = "exited"
      BY <2>6 DEF ExitDelivery
    <3>2. FinalChunk' /\ FinalEmitted'
      BY <1>0, <1>a, <2>1, <3>1 DEF FinalChunk, FinalEmitted
    <3>3. QED
      BY <1>b, <2>3, <3>2
  <2>7. QED
    BY <1>10, <2>4, <2>5, <2>6 DEF DeliveryWorker
<1>11. CASE FinishProducer \/ JoinDecode \/ JoinDelivery \/ Return
  <2>1. /\ UNCHANGED <<decode_queue, decode_pc, job, finals, buffered, emitted_samples,
                        chunk, delivery_pc>>
        /\ pc' \in {"join_decode", "join_delivery", "result", "done"}
        /\ finalized => finalized'
    BY <1>0, <1>11 DEF FinishProducer, JoinDecode, JoinDelivery, Return, queue, delivery,
      CompleteInv
  <2>2. ~Generating' /\ pc' # "submit"
    BY <2>1 DEF Generating
  <2>3. /\ FinalJobQueued' /\ FinalJobTaken' /\ FinalJobDone' /\ FinalWindowWhole'
        /\ FinalChunk' /\ FinalEmitted'
    BY <1>0, <1>a, <2>1, <2>2 DEF FinalJobQueued, FinalJobTaken, FinalJobDone,
      FinalWindowWhole, FinalChunk, FinalEmitted
  <2>4. QED
    BY <1>b, <2>3
<1>12. CASE Returned \/ UNCHANGED vars
  <2>1. UNCHANGED <<pc, window, queue, delivery, finals, buffered>>
    BY <1>12 DEF Returned, vars, windowing
  <2>2. FinalWindowWhole' /\ (~Generating => ~Generating')
    BY <1>a, <2>1 DEF FinalWindowWhole, Generating
  <2>3. QED
    BY <1>b, <1>c, <1>d, <2>1, <2>2
<1>13. QED
  BY <1>1, <1>2, <1>4, <1>6, <1>7, <1>8, <1>9, <1>10, <1>11, <1>12
     DEF Next, Caller, DecodeWorker

-----------------------------------------------------------------------------
(***************************************************************************)
(* Backlog, errors and the final chunk.                                    *)
(***************************************************************************)
\* The largest window is as large as each kind of window.
LEMMA LargestWindowBounds ==
  ASSUME req \in Request
  PROVE  /\ LargestWindow \in Nat
         /\ req.first <= LargestWindow /\ req.ramp <= LargestWindow
         /\ req.steady <= LargestWindow
BY DEF Request, LargestWindow, Larger

\* A step keeps the next window within reach of the frontier.
LEMMA BacklogStep ==
  ASSUME IInv, [Next]_vars
  PROVE  BacklogInv'
<1>0. /\ BacklogInv /\ req' = req /\ req \in Request
      /\ frames \in Nat /\ last_enqueued_frame \in Nat /\ next_decode_end \in Nat
  BY RequestStep DEF IInv, TypeOK, GenerationType, WindowingType
<1>1. /\ LargestWindow \in Nat /\ LargestWindow' = LargestWindow
      /\ req.ramp \in Nat /\ req.ramp <= LargestWindow
      /\ \A w \in SteadyWindows(req) : w \in Nat /\ w <= LargestWindow
  BY <1>0, LargestWindowBounds DEF LargestWindow, SteadyWindows, Request
<1> USE DEF BacklogInv, generation, windowing
<1>2. CASE SampleEos \/ SampleThinking \/ SampleFrame \/ GenerationFails \/ OnFrame
  BY <1>0, <1>1, <1>2 DEF SampleEos, SampleThinking, SampleFrame, GenerationFails, OnFrame
<1>3. CASE WindowsDone
  BY <1>0, <1>1, <1>3 DEF WindowsDone, WindowDue
<1>4. CASE FinalStopped \/ FinalNothing
  BY <1>0, <1>1, <1>4 DEF FinalStopped, FinalNothing
<1>5. ASSUME NEW e \in Nat, Enqueue(e, FALSE), SelectNextWindow(e)
      PROVE  BacklogInv'
  <2>1. last_enqueued_frame' = e /\ pc' = "submit"
    BY <1>5 DEF Enqueue
  <2>2. next_decode_end' <= e + LargestWindow
    BY <1>1, <1>5 DEF SelectNextWindow
  <2>3. QED
    BY <1>1, <2>1, <2>2
<1>6. CASE CutFirstWindow
  BY <1>0, <1>5, <1>6 DEF CutFirstWindow, Request
<1>7. CASE CutWindow
  BY <1>0, <1>5, <1>7 DEF CutWindow
<1>8. CASE FinalWindow
  BY <1>0, <1>1, <1>8 DEF FinalWindow, Enqueue
<1>9. CASE SubmitAsync \/ SubmitInline \/ SubmitInlineFails
  <2>1. UNCHANGED windowing /\ pc' # "sample"
    BY <1>9 DEF SubmitAsync, SubmitInline, SubmitInlineFails, AfterSubmit
  <2>2. QED
    BY <1>0, <1>1, <2>1
<1>10. CASE FinishProducer \/ JoinDecode \/ JoinDelivery \/ Return
  BY <1>0, <1>1, <1>10 DEF FinishProducer, JoinDecode, JoinDelivery, Return
<1>11. CASE DecodeWorker \/ DeliveryWorker \/ Returned \/ UNCHANGED vars
  <2>1. UNCHANGED <<generation, pc, windowing>>
    BY <1>11, WorkersKeepWindows
  <2>2. QED
    BY <1>0, <1>1, <2>1
<1>12. QED
  BY <1>2, <1>3, <1>4, <1>6, <1>7, <1>8, <1>9, <1>10, <1>11 DEF Next, Caller

\* A step keeps the bound on what is generated after an error, and after a stop that
\* the calling thread saw itself.
LEMMA PromptStep ==
  ASSUME IInv, [Next]_vars
  PROVE  PromptInv'
<1>0. /\ PromptInv /\ StopInv /\ ErrorInv /\ DeliveryInv /\ WindowInv /\ TypeOK
      /\ req' = req /\ req.paced \in BOOLEAN /\ req.async \in BOOLEAN
      /\ frames \in Nat /\ last_enqueued_frame \in Nat /\ next_decode_end \in Nat
      /\ stop_frame \in Int /\ error_frame \in Int
  BY RequestStep DEF IInv, TypeOK, GenerationType, WindowingType, PcmType,
     ApplicationType, Request
<1> DEFINE Late == IF pc \in {"sample", "windows", "submit"} THEN 0 ELSE 1
           ErrorPart == stream_error =>
             frames <= error_frame + Late /\ last_enqueued_frame <= error_frame
           StopPart == stopped /\ ~req.paced /\ ~req.async => frames = stop_frame
<1>a. ErrorPart /\ StopPart
  BY <1>0 DEF PromptInv
<1>1. ErrorPart'
  <2>1. CASE /\ RecordError
             /\ UNCHANGED <<frames, last_enqueued_frame>>
             /\ pc' = pc \/ pc' \notin {"sample", "windows", "submit"}
    <3>1. CASE ~stream_error
      BY <1>0, <2>1, <3>1 DEF RecordError, WindowInv
    <3>2. CASE stream_error
      BY <1>0, <1>a, <2>1, <3>2 DEF RecordError
    <3>3. QED
      BY <3>1, <3>2
  <2>2. CASE UNCHANGED <<stream_error, error_frame>>
    <3> SUFFICES ASSUME stream_error
                 PROVE  ErrorPart'
      BY <2>2
    <3>1. frames <= error_frame + Late /\ last_enqueued_frame <= error_frame
      BY <1>a
    <3> USE DEF generation, windowing
    <3>2. CASE SampleEos \/ SampleThinking \/ SampleFrame \/ GenerationFails
      BY <1>0, <2>2, <3>1, <3>2 DEF SampleEos, SampleThinking, SampleFrame, GenerationFails
    <3>3. CASE OnFrame \/ FinalStopped \/ FinalNothing \/ FinalWindow
      BY <1>0, <2>2, <3>1, <3>3 DEF OnFrame, FinalStopped, FinalNothing, FinalWindow
    <3>4. CASE CutFirstWindow \/ CutWindow \/ WindowsDone
      <4>1. /\ frames' = frames /\ pc = "windows"
            /\ last_enqueued_frame' <= frames
        BY <1>0, <3>4 DEF CutFirstWindow, CutWindow, WindowsDone, Enqueue, FirstWindowDue,
                          WindowDue, WindowInv
      <4>2. frames <= error_frame
        BY <1>0, <3>1, <4>1
      <4>3. Late' \in {0, 1}
        OBVIOUS
      <4>4. last_enqueued_frame' \in Nat
        BY TypeStep DEF TypeOK, WindowingType
      <4>5. last_enqueued_frame' <= error_frame
        BY <1>0, <4>1, <4>2, <4>4
      <4>6. QED
        BY <1>0, <2>2, <4>1, <4>2, <4>3, <4>5
    <3>5. CASE SubmitAsync \/ SubmitInline \/ SubmitInlineFails
      <4>1. /\ UNCHANGED <<frames, last_enqueued_frame>> /\ pc = "submit"
        BY <3>5 DEF SubmitAsync, SubmitInline, SubmitInlineFails
      <4>2. frames <= error_frame /\ last_enqueued_frame <= error_frame
        BY <1>0, <3>1, <4>1
      <4>3. Late' \in {0, 1}
        OBVIOUS
      <4>4. QED
        BY <1>0, <2>2, <4>1, <4>2, <4>3
    <3>6. CASE FinishProducer \/ JoinDecode \/ JoinDelivery \/ Return
      BY <1>0, <2>2, <3>1, <3>6 DEF FinishProducer, JoinDecode, JoinDelivery, Return
    <3>7. CASE DecodeWorker \/ DeliveryWorker \/ Returned \/ UNCHANGED vars
      BY <1>0, <2>2, <3>1, <3>7, WorkersKeepWindows
    <3>8. QED
      BY <3>2, <3>3, <3>4, <3>5, <3>6, <3>7 DEF Next, Caller
  <2>3. QED
    BY <2>1, <2>2, ErrorRecorded
<1>2. StopPart'
  <2> SUFFICES ASSUME ~req.paced, ~req.async
               PROVE  stopped' => frames' = stop_frame'
    BY <1>0 DEF stopped
  <2>1. delivery_pc = "exited" /\ decode_pc = "exited" /\ decode_queue = <<>>
    BY <1>0 DEF DeliveryInv, ErrorInv
  <2>2. stopped => stream_error
    BY <1>0, <2>1 DEF StopInv, Broken
  <2>3. Generating => ~stopped
    BY <1>0, <2>2 DEF ErrorInv
  <2>4. ~DeliveryWorker /\ ~DecodeWorker
    BY <2>1 DEF DeliveryWorker, DecodeWorker, SelectChunk, EmitChunk, EmitChunkStopped,
       ExitDelivery, TakeJob, ProcessJob, ProcessJobFails, ProcessJobStopped, RecordStop,
       AbortWorker, ExitWorker
  <2>5. CASE SubmitInline \/ SubmitInlineFails
    <3>1. ~stopped /\ frames' = frames
      BY <2>3, <2>5 DEF SubmitInline, SubmitInlineFails, Generating, generation
    <3>2. CASE DecodeFails
      BY <3>1, <3>2 DEF DecodeFails, application, stopped
    <3>3. ASSUME NEW j \in Job, NEW keep \in BOOLEAN, Decodes(j, keep)
          PROVE  stopped' => frames' = stop_frame'
      <4>1. stop_frame' = IF keep THEN stop_frame ELSE frames
        BY <1>0, <3>3, DecodesFacts
      <4>2. QED
        BY <3>1, <4>1 DEF stopped
    <3>4. QED
      BY <2>5, <3>2, <3>3, DecodingSteps
  <2>6. CASE ~(SubmitInline \/ SubmitInlineFails)
    <3>1. stop_frame' = stop_frame
      BY <2>4, <2>6, OthersKeepDelivery DEF DecodeWorker, application
    <3>2. CASE SampleFrame
      BY <2>3, <3>1, <3>2 DEF SampleFrame, Generating, stopped
    <3>3. CASE ~SampleFrame
      <4>1. frames' = frames
        BY <3>3 DEF Next, Caller, DecodeWorker, DeliveryWorker, Returned, vars, generation,
           SampleEos, SampleThinking, GenerationFails, OnFrame,
           CutFirstWindow, CutWindow, WindowsDone, FinalStopped, FinalNothing,
           FinalWindow, SubmitAsync, SubmitInline, SubmitInlineFails,
           TakeJob, ProcessJob, ProcessJobFails, ProcessJobStopped, RecordStop,
           AbortWorker, ExitWorker,
           SelectChunk, EmitChunk, EmitChunkStopped, ExitDelivery,
           FinishProducer, JoinDecode, JoinDelivery, Return
      <4>2. QED
        BY <1>0, <1>a, <3>1, <4>1 DEF stopped
    <3>4. QED
      BY <3>2, <3>3
  <2>7. QED
    BY <2>5, <2>6
<1>3. QED
  BY <1>1, <1>2 DEF PromptInv

\* A request starts in IInv.
LEMMA InitInv ==
  ASSUME Init
  PROVE  IInv
<1>1. PICK p \in RawRequests : req = Normalised(p)
  BY DEF Init
<1>2. p \in RawRequest
  BY RequestAssumption
<1>3. req \in Request /\ req.context <= req.finalContext
  BY <1>1, <1>2, NormalisedRequest
<1>4. /\ req.first \in Nat /\ req.first > 0 /\ req.rampCount \in Nat
      /\ req.earlyCount \in Nat /\ req.async \in BOOLEAN /\ req.paced \in BOOLEAN
  BY <1>3 DEF Request
<1>5. NoWindow \in Window /\ NoJob \in Job /\ <<>> \in Seq(Job) /\ <<>> \in Seq(Int)
      /\ NoChunk \in [pcm : Seq(Int), is_final : BOOLEAN]
  BY DEF NoWindow, Window, NoJob, Job, NoChunk
<1>6. TypeOK
  <2>1. GenerationType /\ WindowingType
    BY <1>3, <1>4, <1>5 DEF Init, GenerationType, WindowingType
  <2>2. QueueType
    BY <1>4, <1>5 DEF Init, QueueType
  <2>6. PcmType
    <3>0. error_frame = -1 /\ stream_error = FALSE
      BY Zenon DEF Init
    <3>1. error_frame \in Int /\ stream_error \in BOOLEAN
      <4>1. error_frame \in Int
        BY <3>0
      <4>2. QED
        BY <3>0, <4>1
    <3>2. audio \in Seq(Int) /\ buffered \in Seq(Int) /\ last_completed_frame \in Nat
      BY <1>5 DEF Init
    <3>3. QED
      BY <3>1, <3>2 DEF PcmType
  <2>3. DeliveryType
    BY <1>4, <1>5 DEF Init, DeliveryType
  <2>4. ApplicationType
    BY <1>5 DEF Init, ApplicationType
  <2>5. QED
    BY <2>1, <2>2, <2>3, <2>4, <2>6 DEF TypeOK
<1>7. RequestInv /\ WindowInv
  BY <1>3, <1>4 DEF Init, RequestInv, WindowInv
<1>8. JobsInv /\ ChainInv /\ ErrorInv
  BY <1>4 DEF Init, JobsInv, ChainInv, Broken, QueueStart, ErrorInv, Generating
<1>9. AudioInv
  BY DEF Init, AudioInv, IsUtterance, SamplesFor
<1>10. DeliveryInv
  <2>1. Len(chunk.pcm) = 0
    BY DEF Init, NoChunk
  <2>2. QED
    BY <1>4, <2>1 DEF Init, DeliveryInv
<1>11. StopInv /\ CompleteInv
  BY <1>4 DEF Init, StopInv, Broken, stopped, CompleteInv, Generating
<1>12. BacklogInv /\ PromptInv /\ FinalInv
  <2>1. BacklogInv
    <3>1. /\ frames = 0 /\ last_enqueued_frame = 0 /\ next_decode_end = req.first
      BY DEF Init
    <3>2. req.first <= LargestWindow /\ LargestWindow \in Nat
      BY <1>3, LargestWindowBounds
    <3>3. QED
      BY <1>4, <3>1, <3>2 DEF BacklogInv
  <2>2. PromptInv /\ FinalInv
    BY DEF Init, PromptInv, stopped, FinalInv, NoChunk
  <2>3. QED
    BY <2>1, <2>2
<1>13. QED
  BY <1>3, <1>6, <1>7, <1>8, <1>9, <1>10, <1>11, <1>12 DEF IInv

\* A step from IInv ends in IInv.
LEMMA StepInv ==
  ASSUME IInv, [Next]_vars
  PROVE  IInv'
BY TypeStep, RequestStep, WindowStep, JobsStep, ChainStep, ErrorStep,
   AudioStep, DeliveryStep, StopStep, CompleteStep, BacklogStep, PromptStep,
   FinalStep DEF IInv

\* IInv holds in every state of every request: it is inductive.
THEOREM Invariance == Spec => []IInv
<1>1. Init => IInv
  BY InitInv
<1>2. IInv /\ [Next]_vars => IInv'
  BY StepInv
<1>3. QED
  BY <1>1, <1>2, PTL DEF Spec

\* Every variable of a request keeps its type.
THEOREM Typing == Spec => []TypeOK
<1>1. IInv => TypeOK
  BY DEF IInv
<1>2. QED
  BY <1>1, Invariance, PTL

\* A request's PCM is the utterance from its first sample on: no join of two
\* windows loses, repeats or reorders a sample, whatever the windows, the
\* contexts, the split and the interleaving of the threads.
THEOREM AudioIsInOrder == Spec => []AudioInOrder
<1>1. IInv => AudioInOrder
  BY DEF IInv, AudioInv, AudioInOrder
<1>2. QED
  BY <1>1, Invariance, PTL

\* In IInv, what is heard is the beginning of the audio.
LEMMA InvHeard == IInv => HeardIsPrefix
<1>1. SUFFICES ASSUME IInv PROVE HeardIsPrefix
  OBVIOUS
<1>2. /\ DeliveryInv /\ Len(heard) \in Nat /\ Len(chunk.pcm) \in Nat
      /\ Len(buffered) \in Nat
  <2>1. TypeOK /\ DeliveryInv
    BY <1>1 DEF IInv
  <2>2. heard \in Seq(Int) /\ buffered \in Seq(Int) /\ chunk.pcm \in Seq(Int)
    BY <2>1 DEF TypeOK, ApplicationType, DeliveryType, PcmType
  <2>3. QED
    BY <2>1, <2>2
<1>3. \A i \in 1 .. Len(heard) : heard[i] = audio[i]
  <2>1. CASE req.paced
    BY <1>2, <2>1 DEF DeliveryInv
  <2>2. CASE ~req.paced
    BY <1>2, <2>2 DEF DeliveryInv
  <2>3. QED
    BY <2>1, <2>2
<1>4. Len(heard) <= Len(audio)
  <2>1. CASE req.paced
    BY <1>2, <2>1 DEF DeliveryInv
  <2>2. CASE ~req.paced
    BY <1>2, <2>2 DEF DeliveryInv
  <2>3. QED
    BY <2>1, <2>2
<1>5. QED
  BY <1>3, <1>4 DEF HeardIsPrefix

\* The callback hears the beginning of the request's PCM, paced or not.
THEOREM HearingIsPrefix == Spec => []HeardIsPrefix
BY InvHeard, Invariance, PTL

\* No job copies codes beyond the frames generated or before the first one.
THEOREM JobsStayInCodes == Spec => []JobsReadGeneratedCodes
<1>1. IInv => JobsReadGeneratedCodes
  <2>1. SUFFICES ASSUME IInv,
                        NEW j \in {decode_queue[i] : i \in 1 .. Len(decode_queue)}
                          \cup (IF decode_pc = "process" THEN {job} ELSE {})
                          \cup (IF pc = "submit" THEN {NextJob} ELSE {})
                 PROVE  /\ 0 <= j.ctx_start
                        /\ j.ctx_start <= j.new_start
                        /\ j.new_start < j.end_frame
                        /\ j.end_frame <= frames
    BY DEF JobsReadGeneratedCodes
  <2>2. j \in Job /\ JobOK(j)
    BY <2>1, NextJobFacts DEF IInv, JobsInv, TypeOK, QueueType
  <2>3. QED
    BY <2>2 DEF Job, JobOK, JobFits
<1>2. QED
  BY <1>1, Invariance, PTL

\* In IInv, success means that everything was heard.
LEMMA InvComplete == IInv => SuccessIsComplete
<1>1. SUFFICES ASSUME IInv, outcome = "ok"
               PROVE  heard = audio /\ (Contexted => Len(audio) = SamplesFor(frames))
  BY DEF SuccessIsComplete
<1>2. pc = "done" /\ generate_ok /\ ~stream_error /\ decode_pc = "exited"
  BY <1>1 DEF IInv, StopInv, ErrorInv
<1>3. decode_queue = <<>> /\ split_start = frames
  BY <1>1, <1>2 DEF IInv, CompleteInv, Generating
<1>4. last_completed_frame = frames
  BY <1>1, <1>2, <1>3 DEF IInv, ChainInv, Broken, QueueStart
<1>5. Contexted => Len(audio) = SamplesFor(frames)
  BY <1>1, <1>2, <1>4 DEF IInv, AudioInv, Broken
<1>6. heard = audio
  <2>1. CASE ~req.paced
    BY <1>1, <2>1 DEF IInv, DeliveryInv
  <2>2. CASE req.paced
    <3>1. delivery_pc = "exited" /\ ~failed
      BY <1>1, <1>2 DEF IInv, StopInv
    <3>2. emitted_samples = Len(audio) /\ Len(chunk.pcm) = 0
      BY <1>1, <2>2, <3>1 DEF IInv, CompleteInv, DeliveryInv, NoChunk
    <3>3. /\ heard \in Seq(Int) /\ audio \in Seq(Int)
          /\ Len(heard) \in Nat
      BY <1>1 DEF IInv, TypeOK, ApplicationType, PcmType
    <3>4. Len(heard) = Len(audio) /\ \A i \in 1 .. Len(heard) : heard[i] = audio[i]
      BY <1>1, <2>2, <3>2, <3>3, SMTT(30) DEF IInv, DeliveryInv
    <3>5. QED
      BY <3>3, <3>4, SeqEqual
  <2>3. QED
    BY <2>1, <2>2
<1>7. QED
  BY <1>5, <1>6

\* A request that succeeds gave its callback the PCM of every frame.
THEOREM SuccessHasEverything == Spec => []SuccessIsComplete
BY InvComplete, Invariance, PTL

\* A request whose callback asked to stop does not report success.
THEOREM StopsAreReported == Spec => []StopIsReported
<1>1. IInv => StopIsReported
  BY DEF IInv, TypeOK, GenerationType, StopInv, ErrorInv, Broken, StopIsReported
<1>2. QED
  BY <1>1, Invariance, PTL

\* Once a callback asked to stop, no callback is made, on whichever thread.
THEOREM SilenceAfterStop == Spec => NothingHeardAfterStop
<1>1. IInv /\ [Next]_vars => [stopped => UNCHANGED application]_vars
  <2>1. SUFFICES ASSUME IInv, Next, stopped
                 PROVE  UNCHANGED application
    BY DEF vars
  <2>2. /\ StopInv /\ ErrorInv /\ DeliveryInv /\ req.paced \in BOOLEAN
    BY <2>1 DEF IInv, TypeOK, GenerationType, Request
  <2>3. CASE DeliveryWorker
    <3>1. delivery_pc # "exited"
      BY <2>3 DEF DeliveryWorker, SelectChunk, EmitChunk, EmitChunkStopped, ExitDelivery
    <3>2. QED
      BY <2>1, <2>2, <3>1 DEF StopInv, DeliveryInv
  <2>4. CASE \/ SubmitInline \/ SubmitInlineFails
             \/ ProcessJob \/ ProcessJobFails \/ ProcessJobStopped
    <3>1. ~Broken
      BY <2>2, <2>4 DEF SubmitInline, SubmitInlineFails, ProcessJob,
                        ProcessJobFails, ProcessJobStopped, ErrorInv, Generating, Broken
    <3>2. req.paced
      BY <2>1, <2>2, <3>1 DEF StopInv
    <3>3. ASSUME NEW j \in Job, NEW keep \in BOOLEAN, Decodes(j, keep)
          PROVE  UNCHANGED application
      BY <2>1, <3>2, <3>3, DecodesFacts DEF IInv
    <3>4. DecodeFails => UNCHANGED application
      BY DEF DecodeFails
    <3>5. QED
      BY <2>1, <2>4, <3>3, <3>4, DecodingSteps
  <2>5. CASE ~( \/ DeliveryWorker
                \/ SubmitInline \/ SubmitInlineFails
                \/ ProcessJob \/ ProcessJobFails \/ ProcessJobStopped)
    BY <2>1, <2>5, OthersKeepDelivery
  <2>6. QED
    BY <2>3, <2>4, <2>5
<1>2. QED
  BY <1>1, Invariance, PTL DEF Spec, NothingHeardAfterStop

\* Fewer frames than the largest window holds wait whenever one is sampled.
THEOREM BacklogIsBelowOneWindow == Spec => []BacklogBelowOneWindow
<1>1. IInv => BacklogBelowOneWindow
  <2>1. SUFFICES ASSUME IInv, pc = "sample"
                 PROVE  frames - last_enqueued_frame < LargestWindow
    BY DEF BacklogBelowOneWindow
  <2>2. /\ frames \in Nat /\ last_enqueued_frame \in Nat /\ next_decode_end \in Nat
        /\ LargestWindow \in Nat
    BY <2>1, LargestWindowBounds DEF IInv, TypeOK, GenerationType, WindowingType
  <2>3. frames < next_decode_end /\ next_decode_end <= last_enqueued_frame + LargestWindow
    BY <2>1 DEF IInv, BacklogInv
  <2>4. QED
    BY <2>2, <2>3
<1>2. QED
  BY <1>1, Invariance, PTL

\* At most the frame in flight is generated after an error is recorded, and none of
\* it is decoded; none at all after a stop that the calling thread saw itself.
THEOREM ErrorsEndGeneration == Spec => []ErrorEndsGeneration
<1>1. IInv => ErrorEndsGeneration
  BY DEF IInv, PromptInv, ErrorEndsGeneration, TypeOK, GenerationType, PcmType,
         ApplicationType
<1>2. QED
  BY <1>1, Invariance, PTL

\* Nothing is heard after the callback that was marked final.
THEOREM FinalChunkStaysLast == Spec => FinalChunkIsLast
<1>1. IInv /\ [Next]_vars => [finals > 0 => UNCHANGED application]_vars
  <2>1. SUFFICES ASSUME IInv, Next, finals > 0
                 PROVE  UNCHANGED application
    BY DEF vars
  <2>2. /\ FinalInv /\ DeliveryInv /\ TypeOK /\ req.paced \in BOOLEAN
    BY <2>1 DEF IInv, TypeOK, GenerationType, Request
  <2>3. CASE DeliveryWorker
    <3>1. req.paced
      BY <2>2, <2>3 DEF DeliveryWorker, SelectChunk, EmitChunk, EmitChunkStopped,
                        ExitDelivery, DeliveryInv
    <3>2. ~EmitChunk /\ ~EmitChunkStopped
      BY <2>1, <2>2, <3>1 DEF FinalInv, EmitChunk, EmitChunkStopped
    <3>3. QED
      BY <2>3, <3>2 DEF DeliveryWorker, SelectChunk, ExitDelivery
  <2>4. CASE \/ SubmitInline \/ SubmitInlineFails
             \/ ProcessJob \/ ProcessJobFails \/ ProcessJobStopped
    <3>1. req.paced
      BY <2>1, <2>2, <2>4 DEF FinalInv, Generating, SubmitInline, SubmitInlineFails,
                              ProcessJob, ProcessJobFails, ProcessJobStopped
    <3>2. ASSUME NEW j \in Job, NEW keep \in BOOLEAN, Decodes(j, keep)
          PROVE  UNCHANGED application
      BY <2>2, <3>1, <3>2, DecodesFacts
    <3>3. DecodeFails => UNCHANGED application
      BY DEF DecodeFails
    <3>4. QED
      BY <2>1, <2>4, <3>2, <3>3, DecodingSteps
  <2>5. CASE ~( \/ DeliveryWorker
                \/ SubmitInline \/ SubmitInlineFails
                \/ ProcessJob \/ ProcessJobFails \/ ProcessJobStopped)
    BY <2>1, <2>5, OthersKeepDelivery
  <2>6. QED
    BY <2>3, <2>4, <2>5
<1>2. QED
  BY <1>1, Invariance, PTL DEF Spec, FinalChunkIsLast
=============================================================================
