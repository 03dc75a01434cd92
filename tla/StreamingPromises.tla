--------------------------- MODULE StreamingPromises ---------------------------
(***************************************************************************)
(* What a streaming request promises: it implements PcmStream, for every   *)
(* set of requests that give each later window some left context, and it   *)
(* comes to an end, for every set of requests.                             *)
(***************************************************************************)
EXTENDS StreamingProofs, Descent

AllContexted ==
  \A p \in RawRequests : p.context > 0 /\ (p.early > 0 \/ p.earlyCount <= 0)

\* The clamping keeps the context that a request asks for.
LEMMA InitContexted ==
  ASSUME AllContexted, Init
  PROVE  Contexted
<1>1. PICK p \in RawRequests : req = Normalised(p)
  BY DEF Init
<1>2. p \in RawRequest /\ p.context > 0 /\ (p.early > 0 \/ p.earlyCount <= 0)
  BY <1>1, RequestAssumption DEF AllContexted
<1>3. /\ req.context = NonNegative(p.context)
      /\ req.early = NonNegative(p.early)
      /\ req.earlyCount = NonNegative(p.earlyCount)
  BY <1>1 DEF Normalised
<1>4. p.context \in Int /\ p.early \in Int /\ p.earlyCount \in Int
  BY <1>2 DEF RawRequest
<1>5. QED
  BY <1>2, <1>3, <1>4 DEF Contexted, NonNegative, Larger

\* What IInv implies holds after a step too.
LEMMA InvNext == IInv' => HeardIsPrefix' /\ SuccessIsComplete'
BY InvHeard, InvComplete, PTL

\* More of the utterance is heard: an abstract delivery.
LEMMA HearsMore ==
  ASSUME IInv, IInv', Contexted, req' = req, frames' = frames,
         outcome = "running", outcome' = "running", ~stopped,
         Len(heard) < Len(heard')
  PROVE  Stream!Deliver
<1>1. /\ heard \in Seq(Int) /\ heard' \in Seq(Int) /\ audio' \in Seq(Int)
      /\ frames \in Nat
  BY DEF IInv, TypeOK, ApplicationType, PcmType, GenerationType
<1>2. IsUtterance(audio') /\ Len(audio') <= SamplesFor(frames)
  BY DEF IInv, AudioInv, Contexted
<1>3. /\ Len(heard') <= Len(audio')
      /\ \A i \in 1 .. Len(heard') : heard'[i] = audio'[i]
  <2>1. HeardIsPrefix'
    BY InvNext
  <2>2. QED
    BY <2>1 DEF HeardIsPrefix
<1>4. \A i \in 1 .. Len(heard') : heard'[i] = i - 1
  BY <1>1, <1>2, <1>3 DEF IsUtterance
<1> DEFINE n == Len(heard')
<1>5. heard' = [i \in 1 .. n |-> i - 1]
  BY <1>1, <1>4
<1>6. heard' = Stream!Utterance(n)
  BY <1>5 DEF Stream!Utterance
<1>7. n \in Len(heard) + 1 .. SamplesFor(frames)
  <2>1. Len(heard) \in Nat /\ n \in Nat /\ Len(audio') \in Nat
    BY <1>1
  <2>2. SamplesFor(frames) \in Nat
    <3>1. frames \in Int
      BY <1>1
    <3>2. QED
      BY <3>1, SamplesForNat, Zenon
  <2>3. Len(heard) + 1 <= n /\ n <= SamplesFor(frames)
    BY <1>2, <1>3, <2>1, <2>2
  <2>4. QED
    BY <2>1, <2>2, <2>3
<1>8. stopped' \in BOOLEAN
  BY DEF stopped
<1>9. SamplesFor(frames)' = SamplesFor(frames)
  OBVIOUS
<1>10. QED
  BY <1>6, <1>7, <1>8, <1>9 DEF Stream!Deliver

\* Frames stand for samples: none, or more with every frame.
LEMMA GeneratedFacts ==
  ASSUME IInv
  PROVE  /\ SamplesFor(frames) \in Nat
         /\ frames > 0 => SamplesFor(frames) > 0
<1>1. frames \in Nat /\ frames \in Int
  BY DEF IInv, TypeOK, GenerationType
<1>2. SamplesFor(frames) \in Nat
  BY <1>1, SamplesForNat, Zenon
<1>3. SamplesFor(0) = 0
  BY DEF SamplesFor
<1>4. frames > 0 => SamplesFor(0) < SamplesFor(frames)
  BY <1>1, SamplesForMonotone
<1>5. QED
  BY <1>2, <1>3, <1>4

\* A decoding step is an abstract delivery, or changes nothing that is promised.
LEMMA DecodingImplements ==
  ASSUME IInv, IInv', Contexted, req' = req,
         SubmitInline \/ SubmitInlineFails \/ ProcessJob \/ ProcessJobFails \/ ProcessJobStopped
  PROVE  Stream!Deliver \/ UNCHANGED Stream!vars
<1>0. /\ TypeOK /\ RequestInv /\ WindowInv /\ ErrorInv /\ ChainInv /\ JobsInv
      /\ StopInv /\ DeliveryInv
      /\ job \in Job /\ req.paced \in BOOLEAN /\ req.async \in BOOLEAN
  BY DEF IInv, TypeOK, QueueType, GenerationType, Request
<1>1. frames' = frames /\ outcome' = outcome
  BY DEF SubmitInline, SubmitInlineFails, ProcessJob, ProcessJobFails, ProcessJobStopped, generation
<1>2. pc # "done" /\ ~Broken
  BY <1>0 DEF SubmitInline, SubmitInlineFails, ProcessJob, ProcessJobFails, ProcessJobStopped,
              ErrorInv, Generating, Broken
<1>3. outcome = "running"
  BY <1>0, <1>2 DEF StopInv
<1>4. CASE DecodeFails
  BY <1>1, <1>4 DEF DecodeFails, application, Stream!vars, stopped
<1>5. ASSUME NEW j \in Job, NEW keep \in BOOLEAN, Decodes(j, keep), JobOK(j),
             j.new_start = last_completed_frame
      PROVE  Stream!Deliver \/ UNCHANGED Stream!vars
  <2>1. CASE req.paced
    <3>1. UNCHANGED application
      BY <1>0, <1>5, <2>1, DecodesFacts
    <3>2. QED
      BY <1>1, <3>1 DEF application, Stream!vars, stopped
  <2>2. CASE ~req.paced
    <3>1. Len(audio) < Len(audio')
      BY <1>2, <1>5, DecodesContinue
    <3>2. heard = audio /\ heard' = audio'
      BY <2>2 DEF IInv, DeliveryInv
    <3>3. ~stopped
      BY <1>0, <1>2, <2>2 DEF StopInv
    <3>4. QED
      BY <1>1, <1>3, <3>1, <3>2, <3>3, HearsMore
  <2>3. QED
    BY <2>1, <2>2
<1>6. CASE SubmitInline \/ SubmitInlineFails
  <2>1. pc = "submit" /\ ~req.async
    BY <1>6 DEF SubmitInline, SubmitInlineFails
  <2>2. decode_queue = <<>> /\ decode_pc = "exited"
    BY <1>0, <2>1 DEF ErrorInv
  <2>3. NextJob \in Job /\ JobOK(NextJob) /\ NextJob.new_start = last_completed_frame
    BY <1>0, <1>2, <2>1, <2>2, NextJobFacts DEF ChainInv, QueueStart
  <2>4. QED
    BY <1>4, <1>5, <1>6, <2>3 DEF SubmitInline, SubmitInlineFails
<1>7. CASE ProcessJob \/ ProcessJobFails \/ ProcessJobStopped
  <2>1. JobOK(job) /\ job.new_start = last_completed_frame
    BY <1>0, <1>2, <1>7 DEF ProcessJob, ProcessJobFails, ProcessJobStopped, JobsInv, ChainInv
  <2>2. QED
    BY <1>0, <1>4, <1>5, <1>7, <2>1 DEF ProcessJob, ProcessJobFails, ProcessJobStopped
<1>8. QED
  BY <1>6, <1>7

\* A step of the delivery worker is an abstract delivery, or a stutter.
LEMMA DeliveryImplements ==
  ASSUME IInv, IInv', Contexted, req' = req, DeliveryWorker
  PROVE  Stream!Deliver \/ UNCHANGED Stream!vars
<1>1. /\ delivery_pc # "exited"
      /\ UNCHANGED generation
  BY DEF DeliveryWorker, SelectChunk, EmitChunk, EmitChunkStopped, ExitDelivery
<1>2. frames' = frames /\ outcome' = outcome
  BY <1>1 DEF generation
<1>3. req.paced /\ ~failed /\ ~stopped /\ pc \notin {"result", "done"}
  BY <1>1 DEF IInv, TypeOK, GenerationType, Request, StopInv, DeliveryInv
<1>4. outcome = "running"
  BY <1>3 DEF IInv, StopInv
<1>5. CASE SelectChunk \/ ExitDelivery
  <2>1. UNCHANGED application
    BY <1>5 DEF SelectChunk, ExitDelivery
  <2>2. QED
    BY <1>2, <2>1 DEF application, Stream!vars, stopped
<1>6. CASE EmitChunk \/ EmitChunkStopped
  <2>1. heard' = heard \o chunk.pcm /\ delivery_pc = "emit"
    BY <1>6 DEF EmitChunk, EmitChunkStopped, CallBack
  <2>2. /\ heard \in Seq(Int) /\ chunk.pcm \in Seq(Int) /\ Len(chunk.pcm) > 0
    BY <2>1 DEF IInv, TypeOK, ApplicationType, DeliveryType, DeliveryInv
  <2>3. Len(heard) < Len(heard')
    BY <2>1, <2>2
  <2>4. QED
    BY <1>2, <1>3, <1>4, <2>3, HearsMore
<1>7. QED
  BY <1>5, <1>6 DEF DeliveryWorker

\* Every step is a step of PcmStream or changes nothing that is promised.
LEMMA StepImplements ==
  ASSUME IInv, Contexted, [Next]_vars
  PROVE  [Stream!Next]_(Stream!vars)
<1>0. IInv' /\ req' = req
  BY StepInv, RequestStep
<1>1. CASE SubmitInline \/ SubmitInlineFails \/ ProcessJob \/ ProcessJobFails \/ ProcessJobStopped
  BY <1>0, <1>1, DecodingImplements DEF Stream!Next
<1>2. CASE DeliveryWorker
  BY <1>0, <1>2, DeliveryImplements DEF Stream!Next
<1>3. CASE SampleFrame
  <2>1. /\ pc = "sample" /\ frames' = frames + 1 /\ outcome' = outcome
        /\ UNCHANGED application
    BY <1>3 DEF SampleFrame
  <2>2. outcome = "running"
    BY <2>1 DEF IInv, StopInv
  <2>3. frames \in Nat /\ frames' \in Nat /\ frames < frames'
    BY <2>1 DEF IInv, TypeOK, GenerationType
  <2>4. /\ SamplesFor(frames') \in Nat
        /\ SamplesFor(frames) < SamplesFor(frames')
    BY <2>3, SamplesForMonotone, SamplesForNat
  <2>5. Stream!Generate
    BY <2>1, <2>2, <2>4 DEF Stream!Generate, application, stopped
  <2>6. QED
    BY <2>5 DEF Stream!Next
<1>4. CASE Return
  <2>1. /\ pc = "result" /\ frames' = frames /\ audio' = audio
        /\ outcome' = IF generate_ok /\ ~stream_error /\ frames > 0 /\ audio # <<>>
                        THEN "ok" ELSE "error"
        /\ UNCHANGED application
    BY <1>4 DEF Return, pcm
  <2>2. outcome = "running"
    BY <2>1 DEF IInv, StopInv
  <2>3. UNCHANGED <<heard, stop_frame>>
    BY <2>1 DEF application
  <2>4. CASE outcome' = "ok"
    <3>1. generate_ok /\ ~stream_error /\ frames > 0
      BY <2>1, <2>4
    <3>2. ~stopped
      BY <2>1, <3>1 DEF IInv, StopInv, ErrorInv, Broken, TypeOK, GenerationType, Request
    <3>3. heard' = audio' /\ (Contexted' => Len(audio') = SamplesFor(frames'))
      BY <1>0, <2>4, InvNext DEF SuccessIsComplete
    <3>4. Len(heard) = SamplesFor(frames)
      BY <1>0, <2>1, <2>3, <3>3 DEF Contexted
    <3>5. SamplesFor(frames) > 0
      BY <3>1, GeneratedFacts
    <3>6. Stream!Succeed
      BY <2>1, <2>2, <2>3, <2>4, <3>2, <3>4, <3>5 DEF Stream!Succeed, stopped
    <3>7. QED
      BY <3>6 DEF Stream!Next
  <2>5. CASE outcome' # "ok"
    <3>1. outcome' = "error"
      BY <2>1, <2>5
    <3>2. Stream!Fail
      BY <2>1, <2>2, <2>3, <3>1 DEF Stream!Fail, stopped
    <3>3. QED
      BY <3>2 DEF Stream!Next
  <2>6. QED
    BY <2>4, <2>5
<1>5. CASE ~( \/ SampleFrame \/ Return \/ DeliveryWorker
              \/ SubmitInline \/ SubmitInlineFails
              \/ ProcessJob \/ ProcessJobFails \/ ProcessJobStopped)
  <2>1. UNCHANGED application
    BY <1>5, OthersKeepDelivery
  <2>2. frames' = frames /\ outcome' = outcome
    BY <1>5 DEF Next, Caller, DecodeWorker, Returned, vars, generation,
       SampleEos, SampleThinking, GenerationFails, OnFrame,
       CutFirstWindow, CutWindow, WindowsDone, FinalStopped, FinalNothing,
       FinalWindow, SubmitAsync, TakeJob, RecordStop, AbortWorker, ExitWorker,
       FinishProducer, JoinDecode, JoinDelivery
  <2>3. QED
    BY <2>1, <2>2 DEF application, Stream!vars, stopped
<1>6. QED
  BY <1>1, <1>2, <1>3, <1>4, <1>5

\* A streaming request whose windows have left context implements the safety
\* part of PcmStream: its callback hears the utterance in order and each sample
\* once, nothing after it asked to stop, and success means all was heard.
THEOREM Implements ==
  ASSUME AllContexted
  PROVE  Spec => Stream!Safety
<1>1. Init => Contexted
  BY InitContexted
<1>2. IInv /\ Contexted /\ [Next]_vars => Contexted'
  BY RequestStep DEF Contexted
<1>3. Init => Stream!Init
  BY DEF Init, Stream!Init, SamplesFor, stopped
<1>4. IInv /\ Contexted /\ [Next]_vars => [Stream!Next]_(Stream!vars)
  BY StepImplements
<1>5. QED
  BY <1>1, <1>2, <1>3, <1>4, Invariance, PTL DEF Spec, Stream!Safety
-----------------------------------------------------------------------------
(***************************************************************************)
(* A request comes to an end: each step leaves less to do, and before the  *)
(* end some thread has a step to take.                                     *)
(***************************************************************************)
LEMMA InitEnd == Init => EndInv
<1> SUFFICES ASSUME Init PROVE EndInv
  OBVIOUS
<1>1. PICK p \in RawRequests : req = Normalised(p)
  BY DEF Init
<1>2. p \in RawRequest
  BY <1>1, RequestAssumption
<1>3. Steady(p) \in Nat \ {0}
  BY <1>2, SteadyAssumption DEF Steady, ClampPositive, RawRequest
<1>4. ClampPositive(p.adaptMin, 4) \in Nat \ {0}
  BY <1>2 DEF ClampPositive, RawRequest
<1>5. ClampWindow(ClampPositive(p.adaptMin, 4), 1, Steady(p)) <= Steady(p)
  BY <1>3, <1>4 DEF ClampWindow, Larger, Smaller
<1>6. req.adaptMin <= req.steady
  BY <1>1, <1>3, <1>5 DEF Normalised
<1>7. req.chunk <= req.lead /\ req.limit \in Nat \ {0}
  BY <1>1, <1>2 DEF Normalised, RawRequest, Larger
<1>8. pc = "sample" /\ steps = 0
  BY DEF Init
<1>9. QED
  BY <1>6, <1>7, <1>8 DEF EndInv

LEMMA EndStep ==
  ASSUME IInv, EndInv, [Next]_vars
  PROVE  EndInv'
<1>1. req' = req /\ steps \in Nat /\ req.limit \in Nat
  BY RequestStep DEF IInv, TypeOK, GenerationType, Request
<1>2. /\ steps' <= req.limit
      /\ pc' = "sample" => steps' < req.limit
  <2>1. CASE SampleThinking \/ SampleFrame
    BY <1>1, <2>1 DEF EndInv, SampleThinking, SampleFrame
  <2>2. CASE WindowsDone
    BY <1>1, <2>2 DEF EndInv, WindowsDone, generation
  <2>3. CASE SampleEos \/ GenerationFails \/ OnFrame \/ FinalStopped \/ FinalNothing
             \/ FinishProducer \/ JoinDecode \/ JoinDelivery \/ Return
    BY <2>3 DEF EndInv, SampleEos, GenerationFails, OnFrame, FinalStopped,
       FinalNothing, FinishProducer, JoinDecode, JoinDelivery, Return, generation
  <2>4. CASE CutFirstWindow \/ CutWindow \/ FinalWindow
    BY <2>4 DEF EndInv, CutFirstWindow, CutWindow, FinalWindow, Enqueue, generation
  <2>5. CASE SubmitAsync \/ SubmitInline \/ SubmitInlineFails
    BY <2>5 DEF EndInv, SubmitAsync, SubmitInline, SubmitInlineFails, AfterSubmit,
       generation
  <2>6. CASE DecodeWorker \/ DeliveryWorker \/ Returned \/ UNCHANGED vars
    BY <2>6, WorkersKeepWindows DEF EndInv, generation
  <2>7. QED
    BY <2>1, <2>2, <2>3, <2>4, <2>5, <2>6 DEF Next, Caller
<1>3. pc' \in {"join_decode", "join_delivery", "result", "done"} /\ req.async =>
        producer_done'
  <2>1. CASE FinishProducer
    BY <2>1 DEF FinishProducer
  <2>2. CASE DecodeWorker \/ DeliveryWorker \/ Returned \/ UNCHANGED vars
    <3>1. pc' = pc
      BY <2>2, WorkersKeepWindows
    <3>2. producer_done => producer_done'
      BY <2>2 DEF DecodeWorker, DeliveryWorker, Returned, vars, queue,
         TakeJob, ProcessJob, ProcessJobFails, ProcessJobStopped, RecordStop,
         AbortWorker, ExitWorker,
         SelectChunk, EmitChunk, EmitChunkStopped, ExitDelivery
    <3>3. QED
      BY <3>1, <3>2 DEF EndInv
  <2>3. CASE JoinDecode \/ JoinDelivery \/ Return
    BY <2>3 DEF EndInv, JoinDecode, JoinDelivery, Return, queue
  <2>4. CASE SampleEos \/ SampleThinking \/ SampleFrame \/ GenerationFails \/ OnFrame
             \/ CutFirstWindow \/ CutWindow \/ WindowsDone \/ FinalStopped
             \/ FinalNothing \/ FinalWindow
             \/ SubmitAsync \/ SubmitInline \/ SubmitInlineFails
    BY <2>4 DEF SampleEos, SampleThinking, SampleFrame, GenerationFails, OnFrame,
       CutFirstWindow, CutWindow, WindowsDone, FinalStopped, FinalNothing,
       FinalWindow, SubmitAsync, SubmitInline, SubmitInlineFails, AfterSubmit, Enqueue
  <2>5. QED
    BY <2>1, <2>2, <2>3, <2>4 DEF Next, Caller
<1>4. QED
  BY <1>1, <1>2, <1>3 DEF EndInv

\* What remains is counted by natural numbers.
LEMMA RemainingCounts == IInv /\ EndInv => Remaining \in [1 .. 8 -> Nat]
<1> SUFFICES ASSUME IInv, EndInv PROVE Remaining \in [1 .. 8 -> Nat]
  OBVIOUS
<1>1. /\ req.limit - steps \in Nat
      /\ CallerRank \in Nat
      /\ frames - last_enqueued_frame \in Nat
      /\ (IF pc = "submit" THEN window.end - split_start ELSE 0) \in Nat
  BY DEF IInv, TypeOK, GenerationType, WindowingType, Window, Request, EndInv, WindowInv,
     CallerRank
<1>2. /\ Len(decode_queue) \in Nat
      /\ DecodeRank \in Nat
      /\ available \in Nat
      /\ DeliveryRank \in Nat
  BY DEF IInv, TypeOK, QueueType, PcmType, DeliveryType, DeliveryInv, DecodeRank,
     available, DeliveryRank
<1>3. QED
  BY <1>1, <1>2 DEF Remaining

LEMMA RemainingCountsNext ==
  IInv' /\ EndInv' => (Remaining \in [1 .. 8 -> Nat])'
BY RemainingCounts, PTL

\* The ways in which less may remain.
TokenTaken == req' = req /\ steps' = steps + 1

CallerMoves == UNCHANGED <<req, steps>> /\ CallerRank' < CallerRank

WindowCut ==
  /\ UNCHANGED <<req, steps, frames>> /\ CallerRank' = CallerRank
  /\ last_enqueued_frame < last_enqueued_frame'

JobSubmitted ==
  /\ UNCHANGED <<req, steps, frames, last_enqueued_frame, window>>
  /\ CallerRank' = CallerRank
  /\ pc = "submit" /\ (pc' = "submit" => split_start < split_start')

CallerKept == UNCHANGED <<generation, pc, windowing, split_start>>

JobTaken == CallerKept /\ Len(decode_queue') < Len(decode_queue)

DecoderMoves ==
  CallerKept /\ Len(decode_queue') <= Len(decode_queue) /\ DecodeRank' < DecodeRank

ChunkTaken == CallerKept /\ UNCHANGED queue /\ available' < available

DeliveryMoves ==
  /\ CallerKept /\ UNCHANGED <<queue, buffered, emitted_samples>>
  /\ DeliveryRank' < DeliveryRank

LessRemains ==
  \/ TokenTaken \/ CallerMoves \/ WindowCut \/ JobSubmitted
  \/ JobTaken \/ DecoderMoves \/ ChunkTaken \/ DeliveryMoves

LEMMA LargerLeavesLess ==
  ASSUME NEW n \in Nat, NEW a \in Nat, NEW b \in Nat, a < b
  PROVE  n - b < n - a
OBVIOUS

LEMMA LessIsBelow ==
  ASSUME IInv, EndInv, IInv', EndInv', LessRemains
  PROVE  IsBelow(8, Remaining', Remaining)
<1>1. Remaining \in [1 .. 8 -> Nat]
  BY RemainingCounts
<1>2. Remaining' \in [1 .. 8 -> Nat]
  BY RemainingCountsNext
<1>3. SUFFICES \E k \in 1 .. 8 : /\ Remaining'[k] < Remaining[k]
                                 /\ \A i \in 1 .. k - 1 : Remaining'[i] = Remaining[i]
  BY <1>1, <1>2, FirstDifference
<1>4. CASE TokenTaken
  <2>1. Remaining'[1] < Remaining[1]
    BY <1>4 DEF TokenTaken, Remaining, IInv, TypeOK, GenerationType, Request
  <2>2. QED
    BY <2>1
<1>5. CASE CallerMoves
  <2>1. Remaining'[2] < Remaining[2] /\ Remaining'[1] = Remaining[1]
    BY <1>5 DEF CallerMoves, Remaining
  <2>2. \A i \in 1 .. 2 - 1 : i = 1
    OBVIOUS
  <2>3. QED
    BY <2>1, <2>2
<1>6. CASE WindowCut
  <2>1. frames - last_enqueued_frame' < frames - last_enqueued_frame
    <3>1. frames \in Nat /\ last_enqueued_frame \in Nat
      BY DEF IInv, TypeOK, GenerationType, WindowingType
    <3>2. last_enqueued_frame' \in Nat
      BY DEF IInv, TypeOK, WindowingType
    <3>3. last_enqueued_frame < last_enqueued_frame'
      BY <1>6 DEF WindowCut
    <3>4. QED
      BY <3>1, <3>2, <3>3, LargerLeavesLess
  <2>2. /\ Remaining'[3] < Remaining[3]
        /\ Remaining'[1] = Remaining[1] /\ Remaining'[2] = Remaining[2]
    BY <1>6, <2>1 DEF WindowCut, Remaining
  <2>3. \A i \in 1 .. 3 - 1 : i \in {1, 2}
    OBVIOUS
  <2>4. QED
    BY <2>2, <2>3
<1>7. CASE JobSubmitted
  <2>1. Remaining'[4] < Remaining[4]
    BY <1>7 DEF JobSubmitted, Remaining, IInv, TypeOK, WindowingType, WindowInv, Window
  <2>2. /\ Remaining'[1] = Remaining[1] /\ Remaining'[2] = Remaining[2]
        /\ Remaining'[3] = Remaining[3]
    BY <1>7 DEF JobSubmitted, Remaining
  <2>3. \A i \in 1 .. 4 - 1 : i \in {1, 2, 3}
    OBVIOUS
  <2>4. QED
    BY <2>1, <2>2, <2>3
<1>8. CallerKept => /\ Remaining'[1] = Remaining[1] /\ Remaining'[2] = Remaining[2]
                    /\ Remaining'[3] = Remaining[3] /\ Remaining'[4] = Remaining[4]
  BY DEF CallerKept, Remaining, CallerRank, generation, windowing
<1>9. /\ Remaining[5] = Len(decode_queue) /\ Remaining'[5] = Len(decode_queue')
      /\ Remaining[6] = DecodeRank /\ Remaining'[6] = DecodeRank'
      /\ Remaining[7] = available /\ Remaining'[7] = available'
      /\ Remaining[8] = DeliveryRank /\ Remaining'[8] = DeliveryRank'
  BY DEF Remaining
<1>10. CASE JobTaken
  <2>1. \A i \in 1 .. 5 - 1 : i \in {1, 2, 3, 4}
    OBVIOUS
  <2>2. CallerKept /\ Remaining'[5] < Remaining[5]
    BY <1>9, <1>10 DEF JobTaken
  <2>3. QED
    BY <1>8, <2>1, <2>2
<1>11. CASE DecoderMoves
  <2>1. CallerKept /\ Remaining'[5] <= Remaining[5] /\ Remaining'[6] < Remaining[6]
    BY <1>9, <1>11 DEF DecoderMoves
  <2>2. CASE Remaining'[5] < Remaining[5]
    <3>1. \A i \in 1 .. 5 - 1 : i \in {1, 2, 3, 4}
      OBVIOUS
    <3>2. QED
      BY <1>8, <2>1, <2>2, <3>1
  <2>3. CASE Remaining'[5] = Remaining[5]
    <3>1. \A i \in 1 .. 6 - 1 : i \in {1, 2, 3, 4, 5}
      OBVIOUS
    <3>2. QED
      BY <1>8, <2>1, <2>3, <3>1
  <2>4. Remaining'[5] \in Nat /\ Remaining[5] \in Nat
    BY <1>1, <1>2
  <2>5. QED
    BY <2>1, <2>2, <2>3, <2>4
<1>12. UNCHANGED queue => Remaining'[5] = Remaining[5] /\ Remaining'[6] = Remaining[6]
  BY <1>9 DEF queue, DecodeRank
<1>13. CASE ChunkTaken
  <2>1. \A i \in 1 .. 7 - 1 : i \in {1, 2, 3, 4, 5, 6}
    OBVIOUS
  <2>2. CallerKept /\ UNCHANGED queue /\ Remaining'[7] < Remaining[7]
    BY <1>9, <1>13 DEF ChunkTaken
  <2>3. QED
    BY <1>8, <1>12, <2>1, <2>2
<1>14. CASE DeliveryMoves
  <2>1. \A i \in 1 .. 8 - 1 : i \in {1, 2, 3, 4, 5, 6, 7}
    OBVIOUS
  <2>2. /\ CallerKept /\ UNCHANGED queue /\ Remaining'[8] < Remaining[8]
        /\ Remaining'[7] = Remaining[7]
    BY <1>9, <1>14 DEF DeliveryMoves, available
  <2>3. QED
    BY <1>8, <1>12, <2>1, <2>2
<1>15. QED
  BY <1>4, <1>5, <1>6, <1>7, <1>10, <1>11, <1>13, <1>14 DEF LessRemains

\* Each step of the calling thread takes a token, moves it on, cuts a window or
\* submits a part of one.
LEMMA CallerLessens ==
  ASSUME IInv, EndInv, IInv', Caller
  PROVE  LessRemains
<1>1. /\ req \in Request /\ frames \in Nat /\ last_enqueued_frame \in Nat
      /\ next_decode_end \in Nat
  BY DEF IInv, TypeOK, GenerationType, WindowingType
<1>2. CASE SampleThinking \/ SampleFrame
  BY <1>2 DEF LessRemains, TokenTaken, SampleThinking, SampleFrame
<1>3. CASE SampleEos \/ GenerationFails \/ OnFrame \/ WindowsDone \/ FinalStopped
           \/ FinalNothing \/ FinishProducer \/ JoinDecode \/ JoinDelivery \/ Return
  BY <1>3 DEF LessRemains, CallerMoves, CallerRank, SampleEos, GenerationFails, OnFrame,
     WindowsDone, FinalStopped, FinalNothing, FinishProducer, JoinDecode, JoinDelivery,
     Return, generation
<1>4. CASE CutFirstWindow
  <2>1. /\ pc = "windows" /\ pc' = "submit" /\ ~window'.is_final
        /\ last_enqueued_frame = 0 /\ last_enqueued_frame' = req.first
        /\ UNCHANGED <<req, steps, frames>>
    BY <1>4 DEF CutFirstWindow, FirstWindowDue, Enqueue, generation
  <2>2. last_enqueued_frame < last_enqueued_frame'
    BY <1>1, <2>1 DEF Request
  <2>3. CallerRank = 8 /\ CallerRank' = 8
    BY <2>1 DEF CallerRank
  <2>4. QED
    BY <2>1, <2>2, <2>3 DEF LessRemains, WindowCut
<1>5. CASE CutWindow
  <2>1. /\ pc = "windows" /\ pc' = "submit" /\ ~window'.is_final
        /\ last_enqueued_frame' = next_decode_end
        /\ UNCHANGED <<req, steps, frames>>
    BY <1>5 DEF CutWindow, Enqueue, generation
  <2>2. last_enqueued_frame < last_enqueued_frame'
    BY <1>1, <2>1 DEF IInv, WindowInv
  <2>3. CallerRank = 8 /\ CallerRank' = 8
    BY <2>1 DEF CallerRank
  <2>4. QED
    BY <2>1, <2>2, <2>3 DEF LessRemains, WindowCut
<1>6. CASE FinalWindow
  <2>1. /\ pc = "on_final" /\ pc' = "submit" /\ window'.is_final
        /\ UNCHANGED <<req, steps>>
    BY <1>6 DEF FinalWindow, Enqueue, generation
  <2>2. CallerRank = 6 /\ CallerRank' = 5
    BY <2>1 DEF CallerRank
  <2>3. QED
    BY <2>1, <2>2 DEF LessRemains, CallerMoves
<1>7. CASE SubmitInlineFails
  <2>1. pc = "submit" /\ pc' = "finish" /\ UNCHANGED <<req, steps>>
    BY <1>7 DEF SubmitInlineFails
  <2>2. CallerRank \in {5, 8} /\ CallerRank' = 4
    BY <2>1 DEF CallerRank
  <2>3. QED
    BY <2>1, <2>2 DEF LessRemains, CallerMoves
<1>8. CASE SubmitAsync \/ SubmitInline
  <2>1. /\ pc = "submit" /\ split_start' = NextJob.end_frame /\ pc' = AfterSubmit
        /\ UNCHANGED <<req, steps, frames, last_enqueued_frame, window>>
    BY <1>8 DEF SubmitAsync, SubmitInline, generation, windowing
  <2>2. NextJob.new_start = split_start /\ NextJob.new_start < NextJob.end_frame
    BY <2>1, NextJobFacts DEF IInv, JobOK, JobFits
  <2>3. CASE pc' = "finish"
    <3>1. CallerRank \in {5, 8} /\ CallerRank' = 4
      BY <2>1, <2>3 DEF CallerRank
    <3>2. QED
      BY <2>1, <3>1 DEF LessRemains, CallerMoves
  <2>4. CASE pc' # "finish"
    <3>1. pc' = "submit" \/ (pc' = "windows" /\ ~window.is_final)
      BY <2>1, <2>4 DEF AfterSubmit
    <3>2. CallerRank' = CallerRank
      BY <2>1, <3>1 DEF CallerRank
    <3>3. QED
      BY <2>1, <2>2, <3>2 DEF LessRemains, JobSubmitted
  <2>5. QED
    BY <2>3, <2>4
<1>9. QED
  BY <1>2, <1>3, <1>4, <1>5, <1>6, <1>7, <1>8 DEF Caller

\* Each step of a worker takes a job or a chunk or moves it on.
LEMMA WorkersLessen ==
  ASSUME IInv, IInv', DecodeWorker \/ DeliveryWorker
  PROVE  LessRemains
<1>1. CallerKept
  BY WorkersKeepWindows DEF CallerKept
<1>2. /\ decode_queue \in Seq(Job)
      /\ Len(buffered) \in Nat /\ emitted_samples \in Nat
  BY DEF IInv, TypeOK, QueueType, PcmType, DeliveryType
<1>3. CASE TakeJob
  <2>1. decode_queue # <<>> /\ decode_queue' = Tail(decode_queue)
    BY <1>3 DEF TakeJob
  <2>2. Len(decode_queue') < Len(decode_queue)
    BY <1>2, <2>1
  <2>3. QED
    BY <1>1, <2>2 DEF LessRemains, JobTaken
<1>4. CASE \/ ProcessJob \/ ProcessJobFails \/ ProcessJobStopped
           \/ RecordStop \/ AbortWorker \/ ExitWorker
  <2>1. decode_queue' = decode_queue \/ decode_queue' = <<>>
    BY <1>4 DEF ProcessJob, ProcessJobFails, ProcessJobStopped, RecordStop, AbortWorker,
                ExitWorker
  <2>2. Len(decode_queue') <= Len(decode_queue)
    BY <1>2, <2>1
  <2>3. \/ decode_pc = "process" /\ decode_pc' \in {"wait", "stopping", "abort"}
        \/ decode_pc = "stopping" /\ decode_pc' = "abort"
        \/ decode_pc \in {"abort", "wait"} /\ decode_pc' = "exited"
    BY <1>4 DEF ProcessJob, ProcessJobFails, ProcessJobStopped, RecordStop, AbortWorker,
                ExitWorker
  <2>4. DecodeRank' < DecodeRank
    BY <2>3 DEF DecodeRank
  <2>5. QED
    BY <1>1, <2>2, <2>4 DEF LessRemains, DecoderMoves
<1>5. CASE SelectChunk
  <2>1. PICK n \in EmitCounts : emitted_samples' = emitted_samples + n
    BY <1>5 DEF SelectChunk
  <2>2. n \in Nat /\ n > 0
    BY <2>1, EmitCountsFacts DEF IInv, DeliveryInv
  <2>3. buffered' = buffered /\ UNCHANGED queue
    BY <1>5 DEF SelectChunk
  <2>4. available' < available
    BY <1>2, <2>1, <2>2, <2>3 DEF available
  <2>5. QED
    BY <1>1, <2>3, <2>4 DEF LessRemains, ChunkTaken
<1>6. CASE EmitChunk \/ EmitChunkStopped \/ ExitDelivery
  <2>1. DeliveryRank' < DeliveryRank
    <3>1. \/ delivery_pc = "emit" /\ delivery_pc' \in {"wait", "exited"}
          \/ delivery_pc = "wait" /\ delivery_pc' = "exited"
      BY <1>6 DEF EmitChunk, EmitChunkStopped, ExitDelivery
    <3>2. QED
      BY <3>1 DEF DeliveryRank
  <2>2. UNCHANGED <<queue, buffered, emitted_samples>>
    BY <1>6 DEF EmitChunk, EmitChunkStopped, ExitDelivery
  <2>3. QED
    BY <1>1, <2>1, <2>2 DEF LessRemains, DeliveryMoves
<1>7. QED
  BY <1>3, <1>4, <1>5, <1>6 DEF DecodeWorker, DeliveryWorker

\* Each step that changes anything leaves less to do, by DescentEnds only finitely
\* often: no interleaving of the three threads, no split, no failed decode and no
\* callback that stops lets a request go on forever.
THEOREM EveryStepDescends ==
  Spec => /\ [](Remaining \in [1 .. 8 -> Nat])
          /\ [][IsBelow(8, Remaining', Remaining)]_vars
<1>1. Init => EndInv
  BY InitEnd
<1>2. IInv /\ EndInv /\ [Next]_vars => EndInv'
  BY EndStep
<1>3. IInv /\ EndInv => Remaining \in [1 .. 8 -> Nat]
  BY RemainingCounts
<1>4. IInv /\ EndInv /\ IInv' /\ EndInv' /\ [Next]_vars
        => [IsBelow(8, Remaining', Remaining)]_vars
  <2> SUFFICES ASSUME IInv, EndInv, IInv', EndInv', Next, vars' # vars
               PROVE  IsBelow(8, Remaining', Remaining)
    OBVIOUS
  <2>1. Caller \/ DecodeWorker \/ DeliveryWorker
    BY DEF Next, Returned
  <2>2. LessRemains
    BY <2>1, CallerLessens, WorkersLessen
  <2>3. QED
    BY <2>2, LessIsBelow
<1>5. QED
  BY <1>1, <1>2, <1>3, <1>4, Invariance, PTL DEF Spec

\* Until a request has returned, one of its threads has a step to take: no wait and
\* no join waits for something that no thread will do.
THEOREM NeverStuck ==
  Spec => [](pc # "done" => \/ CallerCanStep \/ DecodeWorkerCanStep
                            \/ DeliveryWorkerCanStep)
<1>1. ASSUME IInv, EndInv, pc # "done"
      PROVE  CallerCanStep \/ DecodeWorkerCanStep \/ DeliveryWorkerCanStep
  <2>1. /\ req \in Request
        /\ pc \in {"sample", "on_frame", "windows", "submit", "on_final", "finish",
                   "join_decode", "join_delivery", "result", "done"}
        /\ decode_pc \in {"wait", "process", "stopping", "abort", "exited"}
        /\ delivery_pc \in {"wait", "emit", "exited"}
    BY <1>1 DEF IInv, TypeOK, GenerationType, QueueType, DeliveryType
  <2>2. CASE pc \in {"sample", "on_frame", "submit", "on_final", "finish", "result"}
    BY <2>2 DEF CallerCanStep
  <2>3. CASE pc = "windows"
    <3>1. req.steady \in SteadyWindows(req)
      BY <1>1, <2>1 DEF EndInv, SteadyWindows, Request
    <3>2. QED
      BY <2>3, <3>1 DEF CallerCanStep
  <2>4. CASE pc = "join_decode"
    <3>1. CASE decode_pc = "wait"
      <4>1. req.async
        BY <1>1, <3>1 DEF IInv, ErrorInv
      <4>2. producer_done
        BY <1>1, <2>4, <4>1 DEF EndInv
      <4>3. QED
        BY <3>1, <4>2 DEF DecodeWorkerCanStep
    <3>2. CASE decode_pc # "wait"
      BY <2>1, <2>4, <3>2 DEF CallerCanStep, DecodeWorkerCanStep
    <3>3. QED
      BY <3>1, <3>2
  <2>5. CASE pc = "join_delivery"
    <3>1. CASE delivery_pc = "wait"
      <4>1. req.paced
        BY <1>1, <3>1 DEF IInv, DeliveryInv
      <4>2. finalized
        BY <1>1, <2>5, <4>1 DEF IInv, CompleteInv
      <4>3. available \in Nat
        BY <1>1 DEF IInv, TypeOK, PcmType, DeliveryType, DeliveryInv, available
      <4>4. ASSUME available # 0 PROVE EmitCounts # {}
        <5>1. CASE playback_started /\ available > req.chunk /\ ~(available < req.start)
          <6>1. req.chunk \in req.chunk .. req.lead
            BY <1>1, <2>1 DEF EndInv, Request
          <6>2. EmitCounts = {Smaller(available, n) : n \in req.chunk .. req.lead}
            BY <2>1, <4>3, <4>4, <5>1 DEF EmitCounts, Request
          <6>3. QED
            BY <6>1, <6>2
        <5>2. CASE ~(playback_started /\ available > req.chunk
                       /\ ~(available < req.start))
          BY <2>1, <4>2, <4>3, <4>4, <5>2 DEF EmitCounts, Request
        <5>3. QED
          BY <5>1, <5>2
      <4>5. QED
        BY <3>1, <4>2, <4>4 DEF DeliveryWorkerCanStep
    <3>2. CASE delivery_pc # "wait"
      BY <2>1, <2>5, <3>2 DEF CallerCanStep, DeliveryWorkerCanStep
    <3>3. QED
      BY <3>1, <3>2
  <2>6. QED
    BY <1>1, <2>1, <2>2, <2>3, <2>4, <2>5
<1>2. Init => EndInv
  BY InitEnd
<1>3. IInv /\ EndInv /\ [Next]_vars => EndInv'
  BY EndStep
<1>4. QED
  BY <1>1, <1>2, <1>3, Invariance, PTL DEF Spec
-----------------------------------------------------------------------------
(***************************************************************************)
(* The request's frames come from a generation as FrameSource promises it, *)
(* the promise that the talker keeps.                                      *)
(***************************************************************************)
Generates == pc \in {"sample", "on_frame", "windows", "submit", "on_final"}

\* A generation whose last callback did not accept counts as broken off.
Source == INSTANCE FrameSource WITH
  generating <- Generates,
  limit <- req.limit,
  given <- frames,
  finals <- IF Generates \/ ~generate_ok THEN 0 ELSE 1,
  result <- IF Generates THEN "none" ELSE IF generate_ok THEN "ok" ELSE "failed"

\* What Source!Begin leaves: the request's generation has begun.
Begun == Source!TypeOK /\ Generates /\ frames = 0

\* Each frame took a step of the loop.
FramesInv == frames <= steps

LEMMA GenerationGoesOn ==
  ASSUME UNCHANGED <<req, frames>>, Generates, Generates'
  PROVE  UNCHANGED Source!vars
BY DEF Source!vars

\* However it ends, it ends with its last callback or breaks off.
LEMMA GenerationEnds ==
  ASSUME UNCHANGED <<req, frames>>, Generates, ~Generates', generate_ok' \in BOOLEAN
  PROVE  Source!Next
<1>1. CASE generate_ok'
  <2>1. Source!Ends("ok") /\ Source!Finish
    BY <1>1 DEF Source!Ends, Source!Finish
  <2>2. QED
    BY <2>1 DEF Source!Next
<1>2. CASE ~generate_ok'
  <2>1. Source!Ends("failed") /\ Source!Break
    BY <1>2 DEF Source!Ends, Source!Break
  <2>2. QED
    BY <2>1 DEF Source!Next
<1>3. QED
  BY <1>1, <1>2

LEMMA SourceStep ==
  IInv /\ EndInv /\ FramesInv /\ [Next]_vars => [Source!Next]_(Source!vars)
<1> SUFFICES ASSUME IInv, EndInv, FramesInv, [Next]_vars
             PROVE  Source!Next \/ UNCHANGED Source!vars
  OBVIOUS
<1>1. /\ frames \in Nat /\ steps \in Nat /\ req.limit \in Nat /\ req' = req
      /\ generate_ok \in BOOLEAN
  BY RequestStep DEF IInv, TypeOK, GenerationType, Request
<1>2. CASE SampleFrame
  <2>1. pc = "sample" /\ pc' = "on_frame" /\ frames' = frames + 1 /\ frames < req.limit
    BY <1>1, <1>2 DEF SampleFrame, EndInv, FramesInv
  <2>2. generate_ok' = generate_ok /\ Generates /\ Generates'
    BY <1>2, <2>1 DEF SampleFrame, Generates
  <2>3. Source!Give
    BY <1>1, <2>1, <2>2 DEF Source!Give
  <2>4. QED
    BY <2>3 DEF Source!Next
<1>3. CASE SampleEos \/ SampleThinking \/ GenerationFails \/ OnFrame \/ WindowsDone
           \/ FinalStopped \/ FinalNothing
  <2>1. UNCHANGED <<req, frames>> /\ Generates
    BY <1>3 DEF SampleEos, SampleThinking, GenerationFails, OnFrame, WindowsDone,
       FinalStopped, FinalNothing, generation, Generates
  <2>2. generate_ok' \in {generate_ok, FALSE, ~stream_error}
    BY <1>3 DEF SampleEos, SampleThinking, GenerationFails, OnFrame, WindowsDone,
       FinalStopped, FinalNothing, generation
  <2>3. generate_ok' \in BOOLEAN
    BY <1>1, <2>2
  <2>4. QED
    BY <2>1, <2>3, GenerationGoesOn, GenerationEnds
<1>4. CASE CutFirstWindow \/ CutWindow \/ FinalWindow \/ SubmitAsync \/ SubmitInline
           \/ SubmitInlineFails
  <2>1. /\ UNCHANGED <<req, frames>> /\ Generates
        /\ generate_ok' \in BOOLEAN
    BY <1>1, <1>4 DEF CutFirstWindow, CutWindow, FinalWindow, Enqueue, SubmitAsync,
       SubmitInline, SubmitInlineFails, generation, Generates
  <2>2. QED
    BY <2>1, GenerationGoesOn, GenerationEnds
<1>5. CASE FinishProducer \/ JoinDecode \/ JoinDelivery \/ Return
  <2>1. UNCHANGED <<req, frames, generate_ok>> /\ ~Generates /\ ~Generates'
    BY <1>5 DEF FinishProducer, JoinDecode, JoinDelivery, Return, generation, Generates
  <2>2. Generates' = Generates
    BY <2>1 DEF Generates
  <2>3. QED
    BY <2>1, <2>2 DEF Source!vars
<1>6. CASE DecodeWorker \/ DeliveryWorker \/ Returned \/ UNCHANGED vars
  <2>1. UNCHANGED <<req, frames, generate_ok, pc>>
    BY <1>6, WorkersKeepWindows DEF generation
  <2>2. QED
    BY <2>1 DEF Source!vars, Generates
<1>7. QED
  BY <1>2, <1>3, <1>4, <1>5, <1>6 DEF Next, Caller

LEMMA FramesAreSteps == IInv /\ FramesInv /\ [Next]_vars => FramesInv'
<1> SUFFICES ASSUME IInv, FramesInv, [Next]_vars PROVE frames' <= steps'
  BY DEF FramesInv
<1>1. frames \in Nat /\ steps \in Nat /\ frames <= steps
  BY DEF IInv, TypeOK, GenerationType, FramesInv
<1>2. CASE SampleThinking \/ SampleFrame
  BY <1>1, <1>2 DEF SampleThinking, SampleFrame
<1>3. CASE SampleEos \/ GenerationFails \/ OnFrame \/ WindowsDone \/ FinalStopped
           \/ FinalNothing \/ FinishProducer \/ JoinDecode \/ JoinDelivery \/ Return
  BY <1>1, <1>3 DEF SampleEos, GenerationFails, OnFrame, WindowsDone, FinalStopped,
     FinalNothing, FinishProducer, JoinDecode, JoinDelivery, Return, generation
<1>4. CASE CutFirstWindow \/ CutWindow \/ FinalWindow \/ SubmitAsync \/ SubmitInline
           \/ SubmitInlineFails
  BY <1>1, <1>4 DEF CutFirstWindow, CutWindow, FinalWindow, Enqueue, SubmitAsync, SubmitInline,
     SubmitInlineFails, generation
<1>5. CASE DecodeWorker \/ DeliveryWorker \/ Returned \/ UNCHANGED vars
  BY <1>1, <1>5, WorkersKeepWindows DEF generation
<1>6. QED
  BY <1>2, <1>3, <1>4, <1>5 DEF Next, Caller

\* From where FrameSource begins, the pipeline sees only what FrameSource promises: it
\* asks for no frame beyond the token limit, none after it refused one or after the
\* last callback, and makes at most one last callback.  TalkerProofs!Implements is the
\* other half: the talker keeps the same promise.
THEOREM FramesComeFromSource ==
  Spec => Begun /\ [][Source!Next]_(Source!vars)
<1>1. Init => Begun /\ EndInv /\ FramesInv
  <2> SUFFICES ASSUME Init PROVE Begun /\ EndInv /\ FramesInv
    OBVIOUS
  <2>1. IInv /\ EndInv
    BY InitInv, InitEnd
  <2>2. req.limit \in Int
    BY <2>1 DEF IInv, TypeOK, GenerationType, Request
  <2>3. pc = "sample" /\ frames = 0 /\ steps = 0
    BY DEF Init
  <2>4. QED
    BY <2>1, <2>2, <2>3 DEF Begun, Generates, Source!TypeOK, FramesInv
<1>2. IInv /\ EndInv /\ [Next]_vars => EndInv'
  BY EndStep
<1>3. QED
  BY <1>1, <1>2, SourceStep, FramesAreSteps, Invariance, PTL DEF Spec

-----------------------------------------------------------------------------
(***************************************************************************)
(* When the final callback is made: a run shows that a request may succeed *)
(* without one.  Unpaced, it is made if the generation ended inside a      *)
(* window, and only then.                                                  *)
(***************************************************************************)
\* The final job is submitted, queued or decoded.
FinalOnItsWay ==
  \/ pc = "submit"
  \/ decode_queue # <<>> /\ decode_queue[Len(decode_queue)].is_final
  \/ decode_pc = "process" /\ job.is_final

\* No other window makes a final job, and the final one makes one.
MarkInv ==
  /\ window.is_final => pc = "submit" \/ ~Generating
  /\ ~window.is_final =>
       /\ ~req.paced => finals = 0
       /\ \A i \in 1 .. Len(decode_queue) : ~decode_queue[i].is_final
       /\ ~job.is_final
  /\ ~req.paced => finals <= 1
  /\ window.is_final /\ ~stream_error /\ ~req.paced => finals = 1 \/ FinalOnItsWay

\* The final callback is made once if a final window was cut, and never otherwise.
FinalOfFinalWindow ==
  outcome = "ok" /\ ~req.paced => finals = IF window.is_final THEN 1 ELSE 0

\* The final window goes to the decode in one job, unless an error comes first.
LEMMA MarkStep ==
  ASSUME IInv, MarkInv, [Next]_vars
  PROVE  MarkInv'
<1>0. /\ TypeOK /\ RequestInv /\ WindowInv /\ FinalInv /\ ErrorInv /\ DeliveryInv
      /\ finals \in Nat /\ decode_queue \in Seq(Job) /\ job \in Job
      /\ window.is_final \in BOOLEAN /\ stream_error \in BOOLEAN /\ req.paced \in BOOLEAN
  BY DEF IInv, TypeOK, ApplicationType, QueueType, WindowingType, Window, PcmType,
         GenerationType, RequestInv, Request
<1>e. /\ RecordError => stream_error'
      /\ stream_error => stream_error'
  <2>1. RecordError => stream_error'
    BY Zenon DEF RecordError
  <2>2. QED
    BY <2>1, ErrorRecorded
<1>d. ASSUME NEW j \in Job, NEW keep \in BOOLEAN, Decodes(j, keep)
      PROVE  ~req.paced => finals' = IF j.is_final THEN finals + 1 ELSE finals
  BY <1>0, <1>d, DecodesFacts
<1> USE DEF generation, windowing, queue, pcm, delivery, application
<1>1. CASE \/ SampleEos \/ SampleThinking \/ SampleFrame \/ GenerationFails \/ OnFrame
           \/ WindowsDone \/ FinalStopped \/ FinalNothing
  <2>1. /\ UNCHANGED <<window, queue, pcm, finals>> /\ req' = req
        /\ Generating /\ pc # "submit"
    BY <1>1 DEF SampleEos, SampleThinking, SampleFrame, GenerationFails, OnFrame,
                WindowsDone, FinalStopped, FinalNothing, Generating
  <2>2. QED
    BY <2>1 DEF MarkInv
<1>2. CASE CutFirstWindow \/ CutWindow \/ FinalWindow
  <2>1. /\ UNCHANGED <<queue, pcm, finals>> /\ req' = req /\ pc' = "submit"
        /\ Generating /\ pc # "submit"
    BY <1>2 DEF CutFirstWindow, CutWindow, FinalWindow, Enqueue, Generating
  <2>2. QED
    BY <2>1 DEF MarkInv, FinalOnItsWay
<1>3. ASSUME pc = "submit"
      PROVE  /\ NextJob \in Job /\ NextJob.is_final = window.is_final
             /\ window.is_final => AfterSubmit = "finish"
             /\ ~window.is_final => AfterSubmit \in {"submit", "windows"}
             /\ ~req.paced => finals = 0
  <2>1. NextJob \in Job /\ NextJob.is_final = window.is_final
    BY <1>0, <1>3, NextJobFacts
  <2>2. window.is_final => NextJob.end_frame = window.end
    BY <1>0, <1>3 DEF FinalInv, NextJob, MakeJob
  <2>3. window.end \in Nat
    BY <1>0 DEF TypeOK, WindowingType, Window
  <2>4. ~req.paced => finals = 0
    BY <1>0, <1>3 DEF FinalInv, Generating
  <2>5. QED
    BY <2>1, <2>2, <2>3, <2>4 DEF AfterSubmit
<1>4. CASE SubmitAsync
  <2> DEFINE next == NextJob
  <2>1. /\ decode_queue' = Append(decode_queue, next) /\ pc' = AfterSubmit
        /\ UNCHANGED <<job, decode_pc, finals, stream_error, window, req>> /\ pc = "submit"
    BY <1>4 DEF SubmitAsync
  <2>2. next \in Job /\ next.is_final = window.is_final
    BY <1>3, <2>1
  <2>3. window.is_final => ~Generating'
    BY <1>3, <2>1 DEF Generating
  <2> HIDE DEF next
  <2>4. decode_queue' # <<>> /\ decode_queue'[Len(decode_queue')] = next
    BY <1>0, <2>1, <2>2
  <2>5. ~window.is_final => \A i \in 1 .. Len(decode_queue') : ~decode_queue'[i].is_final
    BY <1>0, <2>1, <2>2 DEF MarkInv
  <2>6. QED
    BY <2>1, <2>2, <2>3, <2>4, <2>5 DEF MarkInv, FinalOnItsWay
<1>5. CASE SubmitInline \/ SubmitInlineFails
  <2>1. /\ UNCHANGED <<queue, window, req>> /\ pc = "submit"
    BY <1>5 DEF SubmitInline, SubmitInlineFails
  <2>2. window.is_final => ~Generating'
    BY <1>3, <1>5, <2>1 DEF SubmitInline, SubmitInlineFails, Generating
  <2>3. CASE DecodeFails
    BY <2>1, <2>2, <2>3, <1>e DEF DecodeFails, MarkInv
  <2>4. ASSUME NEW keep \in BOOLEAN, Decodes(NextJob, keep)
        PROVE  MarkInv'
    <3>1. ~req.paced => finals' = IF window.is_final THEN 1 ELSE 0
      BY <1>3, <1>d, <2>1, <2>4
    <3>2. QED
      BY <1>0, <2>1, <2>2, <3>1 DEF MarkInv
  <2>5. QED
    BY <1>5, <2>3, <2>4 DEF SubmitInline, SubmitInlineFails
<1>6. CASE ProcessJob \/ ProcessJobFails \/ ProcessJobStopped
  <2>1. /\ UNCHANGED <<decode_queue, job, pc, window, req>>
        /\ decode_pc = "process"
    BY <1>6 DEF ProcessJob, ProcessJobFails, ProcessJobStopped
  <2>2. ~req.paced => finals = 0
    BY <1>0, <2>1 DEF FinalInv
  <2>3. CASE DecodeFails
    BY <2>1, <2>3, <1>e DEF DecodeFails, MarkInv, Generating
  <2>4. ASSUME NEW keep \in BOOLEAN, Decodes(job, keep)
        PROVE  MarkInv'
    <3>1. /\ ~req.paced => finals' = IF job.is_final THEN 1 ELSE 0
          /\ stream_error => stream_error'
      BY <1>0, <1>e, <1>d, <2>2, <2>4
    <3>2. QED
      BY <1>0, <2>1, <2>2, <3>1 DEF MarkInv, FinalOnItsWay, Generating
  <2>5. QED
    BY <1>6, <2>3, <2>4 DEF ProcessJob, ProcessJobFails, ProcessJobStopped
<1>7. CASE TakeJob
  <2>1. /\ job' = decode_queue[1] /\ decode_queue' = Tail(decode_queue)
        /\ decode_queue # <<>> /\ decode_pc = "wait" /\ decode_pc' = "process"
        /\ UNCHANGED <<pc, window, finals, stream_error, req>>
    BY <1>0, <1>7 DEF TakeJob
  <2>2. ~window.is_final =>
          ~job'.is_final /\ \A i \in 1 .. Len(decode_queue') : ~decode_queue'[i].is_final
    BY <1>0, <2>1 DEF MarkInv
  <2>3. CASE Len(decode_queue) = 1
    BY <2>1, <2>2, <2>3 DEF MarkInv, FinalOnItsWay, Generating
  <2>4. CASE Len(decode_queue) # 1
    <3>1. /\ decode_queue' # <<>>
          /\ decode_queue'[Len(decode_queue')] = decode_queue[Len(decode_queue)]
      <4>0. Len(decode_queue) \in Nat \ {0, 1}
        BY <1>0, <2>1, <2>4
      <4>1. Len(decode_queue') = Len(decode_queue) - 1 /\ Len(decode_queue) > 1
        <5>1. Len(Tail(decode_queue)) = Len(decode_queue) - 1
          BY <1>0, <4>0
        <5>2. QED
          BY <2>1, <4>0, <5>1
      <4>2. \A i \in 1 .. Len(decode_queue) - 1 : decode_queue'[i] = decode_queue[i + 1]
        BY <1>0, <2>1
      <4>3. QED
        BY <1>0, <4>1, <4>2
    <3>2. QED
      BY <2>1, <2>2, <3>1 DEF MarkInv, FinalOnItsWay, Generating
  <2>5. QED
    BY <2>3, <2>4
<1>13. CASE RecordStop
  BY <1>13, <1>e DEF RecordStop, MarkInv, Generating
<1>8. CASE AbortWorker \/ ExitWorker
  <2>1. /\ UNCHANGED <<pc, window, finals, stream_error, req, job>>
        /\ decode_queue' = <<>>
        /\ stream_error \/ (decode_queue = <<>> /\ decode_pc # "process")
    BY <1>0, <1>8 DEF AbortWorker, ExitWorker, ErrorInv
  <2>2. QED
    BY <2>1 DEF MarkInv, FinalOnItsWay, Generating
<1>9. CASE DeliveryWorker
  <2>1. UNCHANGED <<pc, window, queue, stream_error, req>> /\ req.paced
    BY <1>0, <1>9 DEF DeliveryWorker, SelectChunk, EmitChunk, EmitChunkStopped, ExitDelivery,
      DeliveryInv
  <2>2. QED
    BY <2>1 DEF MarkInv, Generating
<1>10. CASE FinishProducer \/ JoinDecode \/ JoinDelivery \/ Return
  <2>1. /\ UNCHANGED <<decode_queue, decode_pc, job, finals, window, req>>
        /\ pc # "submit" /\ pc' \in {"join_decode", "join_delivery", "result", "done"}
        /\ (stream_error => stream_error')
    <3>1. CASE FinishProducer \/ JoinDecode
      BY <3>1 DEF FinishProducer, JoinDecode
    <3>2. CASE JoinDelivery
      BY <1>e, <3>2 DEF JoinDelivery
    <3>3. CASE Return
      BY <3>3 DEF Return
    <3>4. QED
      BY <1>10, <3>1, <3>2, <3>3
  <2>2. QED
    BY <2>1 DEF MarkInv, FinalOnItsWay, Generating
<1>11. CASE Returned \/ UNCHANGED vars
  <2>1. UNCHANGED <<pc, queue, finals, window, req, stream_error>>
    BY <1>11 DEF Returned, vars
  <2>2. QED
    BY <2>1 DEF MarkInv, FinalOnItsWay, Generating
<1>12. QED
  BY <1>1, <1>2, <1>4, <1>5, <1>6, <1>7, <1>8, <1>9, <1>10, <1>11, <1>13
     DEF Next, Caller, DecodeWorker

\* An unpaced request that succeeds makes its final callback exactly when frames
\* were left for a final window: otherwise its last window's callback was not final.
THEOREM FinalIsMarkedIfLeft == Spec => []FinalOfFinalWindow
<1>1. Init => MarkInv
  BY DEF Init, MarkInv, NoWindow, NoJob
<1>2. IInv /\ MarkInv => FinalOfFinalWindow
  <2> SUFFICES ASSUME IInv, MarkInv, outcome = "ok", ~req.paced
               PROVE  finals = IF window.is_final THEN 1 ELSE 0
    BY DEF FinalOfFinalWindow
  <2>1. pc = "done" /\ ~stream_error
    BY DEF IInv, StopInv
  <2>2. decode_pc = "exited" /\ decode_queue = <<>>
    BY <2>1 DEF IInv, ErrorInv, CompleteInv
  <2>3. QED
    BY <2>1, <2>2 DEF MarkInv, FinalOnItsWay
<1>3. QED
  BY <1>1, <1>2, MarkStep, Invariance, PTL DEF Spec
=============================================================================
