-------------------------- MODULE StreamingSynthesis --------------------------
(***************************************************************************)
(* One streaming request of the engine: the streaming branch of            *)
(* synthesize_internal (pipeline_synthesize.cpp) with the generation loop  *)
(* that drives it (transformer_generate.cpp).                              *)
(*                                                                         *)
(* Three threads share the request's local state:                          *)
(*   - the calling thread generates frames, cuts them into windows and     *)
(*     submits one vocoder job per window (pc);                            *)
(*   - the decode worker takes jobs in order and appends PCM (decode_pc);  *)
(*   - the paced delivery worker cuts the PCM into chunks and hands them   *)
(*     to the callback (delivery_pc).                                      *)
(* Without async_streaming_decode the calling thread decodes inline, and   *)
(* without pacing the thread that decodes calls the callback.              *)
(*                                                                         *)
(* The clock is abstracted: wherever the code compares times to choose how *)
(* much to emit or how large a window to cut, every choice some clock      *)
(* reading allows is allowed.                                              *)
(***************************************************************************)
EXTENDS TailWindows

CONSTANT RawRequests   \* the requests considered

ASSUME RequestAssumption == RawRequests \subseteq RawRequest

VARIABLES
  req,            \* the request, normalised
  pc,             \* where the calling thread is
  steps,          \* tokens sampled so far, filtered ones included
  frames,         \* frames_available: frames in speech_codes
  generate_ok,    \* what generate_streaming returns
  last_enqueued_frame, next_decode_end,
  ramp_windows_remaining, early_context_windows_remaining,
  split_start,    \* end of the last job submitted
  window,         \* the window being submitted
  decode_queue, producer_done,
  decode_pc,      \* where the decode worker is
  job,            \* the job it holds
  audio,          \* result.audio
  last_completed_frame,
  stream_error,
  error_frame,    \* frames generated when stream_error was set, or -1
  buffered, emitted_samples, playback_started, finalized, failed,
  delivery_pc,    \* where the delivery worker is
  chunk,          \* the chunk it holds
  outcome,        \* what the request returned
  \* what the application observes:
  heard,          \* the PCM its callback was given
  finals,         \* callbacks marked final
  stop_frame      \* frames generated when its callback returned false, or -1

generation == <<req, steps, frames, generate_ok, outcome>>
windowing == <<last_enqueued_frame, next_decode_end, ramp_windows_remaining,
               early_context_windows_remaining, window>>
queue == <<decode_queue, producer_done, decode_pc, job>>
pcm == <<audio, last_completed_frame, stream_error, error_frame>>
delivery == <<emitted_samples, playback_started, finalized, failed,
              delivery_pc, chunk>>
application == <<heard, finals, stop_frame>>
vars == <<generation, pc, windowing, split_start, queue, pcm, buffered,
          delivery, application>>

NoWindow == [end |-> 0, context |-> 0, split |-> 0, is_final |-> FALSE]
NoJob == [ctx_start |-> 0, new_start |-> 0, end_frame |-> 0, is_final |-> FALSE]
NoChunk == [pcm |-> <<>>, is_final |-> FALSE]

stopped == stop_frame >= 0

Init ==
  /\ req \in {Normalised(p) : p \in RawRequests}
  /\ pc = "sample"
  /\ steps = 0
  /\ frames = 0
  /\ generate_ok = TRUE
  /\ last_enqueued_frame = 0
  /\ next_decode_end = req.first
  /\ ramp_windows_remaining = req.rampCount
  /\ early_context_windows_remaining = req.earlyCount
  /\ split_start = 0
  /\ window = NoWindow
  /\ decode_queue = <<>>
  /\ producer_done = FALSE
  /\ decode_pc = IF req.async THEN "wait" ELSE "exited"
  /\ job = NoJob
  /\ audio = <<>>
  /\ last_completed_frame = 0
  /\ stream_error = FALSE
  /\ error_frame = -1
  /\ buffered = <<>>
  /\ emitted_samples = 0
  /\ playback_started = FALSE
  /\ finalized = FALSE
  /\ failed = FALSE
  /\ delivery_pc = IF req.paced THEN "wait" ELSE "exited"
  /\ chunk = NoChunk
  /\ outcome = "running"
  /\ heard = <<>>
  /\ finals = 0
  /\ stop_frame = -1
-----------------------------------------------------------------------------
(***************************************************************************)
(* Generation: one pass of the frame loop samples EOS, a thinking token    *)
(* (which is fed back but gives no frame), or a codec frame; or one of the *)
(* forward passes fails.                                                   *)
(***************************************************************************)
SampleEos ==
  /\ pc = "sample"
  /\ pc' = "on_final"
  /\ UNCHANGED <<generation, windowing, split_start, queue, pcm, buffered,
                 delivery, application>>

SampleThinking ==
  /\ pc = "sample"
  /\ steps' = steps + 1
  /\ pc' = IF steps + 1 >= req.limit THEN "on_final" ELSE "sample"
  /\ UNCHANGED <<req, frames, generate_ok, outcome, windowing, split_start,
                 queue, pcm, buffered, delivery, application>>

SampleFrame ==
  /\ pc = "sample"
  /\ steps' = steps + 1
  /\ frames' = frames + 1
  /\ pc' = "on_frame"
  /\ UNCHANGED <<req, generate_ok, outcome, windowing, split_start, queue, pcm,
                 buffered, delivery, application>>

GenerationFails ==
  /\ pc = "sample"
  /\ generate_ok' = FALSE
  /\ pc' = "finish"
  /\ UNCHANGED <<req, steps, frames, outcome, windowing, split_start, queue,
                 pcm, buffered, delivery, application>>

\* Mutant: the frame callback does not look at stream_error.
OnFrameIgnoringError ==
  /\ pc = "on_frame"
  /\ pc' = "windows"
  /\ UNCHANGED <<generation, windowing, split_start, queue, pcm, buffered,
                 delivery, application>>

\* on_frame(codes, frames, false): returning false ends the generation.
OnFrame ==
  /\ pc = "on_frame"
  /\ generate_ok' = ~stream_error
  /\ pc' = IF stream_error THEN "finish" ELSE "windows"
  /\ UNCHANGED <<req, steps, frames, outcome, windowing, split_start, queue,
                 pcm, buffered, delivery, application>>
-----------------------------------------------------------------------------
(***************************************************************************)
(* Windows.  enqueue_tail_window picks the context, moves                  *)
(* last_enqueued_frame and leaves the window to be submitted, in one job   *)
(* or, for a long later window, in several.                                *)
(***************************************************************************)
FirstWindowDue == last_enqueued_frame = 0 /\ frames >= req.first

\* Mutant: a window is cut one frame before it is complete.
WindowDueEarly == frames + 1 >= next_decode_end

\* Mutant: a window is cut one frame after it is complete.
WindowDueLate == frames > next_decode_end

WindowDue == frames >= next_decode_end

UseEarlyContext(is_final) == ~is_final /\ early_context_windows_remaining > 0

ContextFor(is_final) ==
  IF is_final THEN req.finalContext
  ELSE IF UseEarlyContext(is_final) THEN req.early ELSE req.context

SplitsWindow(end_frame, is_final) ==
  /\ ~is_final
  /\ last_enqueued_frame > 0
  /\ req.split > 0
  /\ end_frame - last_enqueued_frame > req.split

Enqueue(end_frame, is_final) ==
  /\ window' =
       [end |-> end_frame, context |-> ContextFor(is_final),
        split |-> IF SplitsWindow(end_frame, is_final) THEN req.split ELSE 0,
        is_final |-> is_final]
  /\ early_context_windows_remaining' =
       IF UseEarlyContext(is_final) THEN early_context_windows_remaining - 1
       ELSE early_context_windows_remaining
  /\ split_start' = last_enqueued_frame
  /\ last_enqueued_frame' = end_frame
  /\ pc' = "submit"

\* next_decode_end moves past the window just enqueued: ramp windows first,
\* then steady ones.
SelectNextWindow(end_frame) ==
  IF ramp_windows_remaining > 0
    THEN /\ ramp_windows_remaining' = ramp_windows_remaining - 1
         /\ next_decode_end' = end_frame + req.ramp
    ELSE /\ UNCHANGED ramp_windows_remaining
         /\ \E w \in SteadyWindows(req) : next_decode_end' = end_frame + w

\* The window is chosen here together with its successor: both are private to
\* the calling thread, and a job that fails ends the generation.
CutFirstWindow ==
  /\ pc = "windows"
  /\ FirstWindowDue
  /\ Enqueue(req.first, FALSE)
  /\ SelectNextWindow(req.first)
  /\ UNCHANGED <<generation, queue, pcm, buffered, delivery, application>>

CutWindow ==
  /\ pc = "windows"
  /\ ~FirstWindowDue
  /\ WindowDue
  /\ Enqueue(next_decode_end, FALSE)
  /\ SelectNextWindow(next_decode_end)
  /\ UNCHANGED <<generation, queue, pcm, buffered, delivery, application>>

WindowsDone ==
  /\ pc = "windows"
  /\ ~FirstWindowDue
  /\ ~WindowDue
  /\ pc' = IF steps >= req.limit THEN "on_final" ELSE "sample"
  /\ UNCHANGED <<generation, windowing, split_start, queue, pcm, buffered,
                 delivery, application>>

\* on_frame(codes, frames, true), after the loop.  Frames already enqueued
\* leave nothing to submit.
FinalStopped ==
  /\ pc = "on_final"
  /\ stream_error
  /\ generate_ok' = FALSE
  /\ pc' = "finish"
  /\ UNCHANGED <<req, steps, frames, outcome, windowing, split_start, queue,
                 pcm, buffered, delivery, application>>

FinalNothing ==
  /\ pc = "on_final"
  /\ ~stream_error
  /\ frames <= last_enqueued_frame
  /\ pc' = "finish"
  /\ UNCHANGED <<generation, windowing, split_start, queue, pcm, buffered,
                 delivery, application>>

FinalWindow ==
  /\ pc = "on_final"
  /\ ~stream_error
  /\ frames > last_enqueued_frame
  /\ Enqueue(frames, TRUE)
  /\ UNCHANGED <<next_decode_end, ramp_windows_remaining, generation, queue,
                 pcm, buffered, delivery, application>>
-----------------------------------------------------------------------------
(***************************************************************************)
(* process_decode_job(j), run by the decode worker or inline.  With        *)
(* keep = FALSE the unpaced callback asks to stop; stream_error is stored  *)
(* after it has returned, and on_frame reads it without a lock.            *)
(***************************************************************************)
\* stream_error.store(true), by whichever thread meets the error.
RecordError ==
  /\ stream_error' = TRUE
  /\ error_frame' = IF stream_error THEN error_frame ELSE frames

\* A callback invocation with this PCM; it returns keep.
CallBack(samples, is_final, keep) ==
  /\ heard' = heard \o samples
  /\ finals' = IF is_final THEN finals + 1 ELSE finals
  /\ stop_frame' = IF keep THEN stop_frame ELSE frames

Decodes(j, keep) ==
  /\ audio' = audio \o NewPcm(j)
  /\ IF req.paced
       THEN /\ keep
            /\ buffered' = buffered \o NewPcm(j)
            /\ UNCHANGED application
       ELSE /\ UNCHANGED buffered
            /\ CallBack(NewPcm(j), j.is_final, keep)
  /\ last_completed_frame' = IF keep THEN j.end_frame ELSE last_completed_frame

DecodeFails ==
  /\ RecordError
  /\ UNCHANGED <<audio, last_completed_frame, buffered, application>>

NextJob ==
  MakeJob(window.context, split_start,
          IF window.split > 0
            THEN Smaller(window.end, split_start + window.split)
            ELSE window.end,
          window.is_final)

\* Where the calling thread goes once NextJob is submitted.
AfterSubmit ==
  IF NextJob.end_frame < window.end THEN "submit"
  ELSE IF window.is_final THEN "finish" ELSE "windows"

SubmitAsync ==
  /\ pc = "submit"
  /\ req.async
  /\ decode_queue' = Append(decode_queue, NextJob)
  /\ split_start' = NextJob.end_frame
  /\ pc' = AfterSubmit
  /\ UNCHANGED <<generation, windowing, producer_done, decode_pc, job, pcm,
                 buffered, delivery, application>>

SubmitInline ==
  /\ pc = "submit"
  /\ ~req.async
  /\ Decodes(NextJob, TRUE)
  /\ split_start' = NextJob.end_frame
  /\ pc' = AfterSubmit
  /\ UNCHANGED <<generation, windowing, queue, stream_error, error_frame, delivery>>

\* Inline, the thread that stores stream_error is the one that reads it: nothing
\* happens between the callback's return and the store.
SubmitInlineFails ==
  /\ pc = "submit"
  /\ ~req.async
  /\ DecodeFails \/ (Decodes(NextJob, FALSE) /\ RecordError)
  /\ generate_ok' = FALSE
  /\ pc' = "finish"
  /\ UNCHANGED <<req, steps, frames, outcome, windowing, split_start, queue,
                 delivery>>
-----------------------------------------------------------------------------
(***************************************************************************)
(* The decode worker.                                                      *)
(***************************************************************************)
\* Mutant: the newest job is taken instead of the oldest.
TakeNewestJob ==
  /\ decode_pc = "wait"
  /\ decode_queue # <<>>
  /\ job' = decode_queue[Len(decode_queue)]
  /\ decode_queue' = SubSeq(decode_queue, 1, Len(decode_queue) - 1)
  /\ decode_pc' = "process"
  /\ UNCHANGED <<generation, pc, windowing, split_start, producer_done, pcm,
                 buffered, delivery, application>>

TakeJob ==
  /\ decode_pc = "wait"
  /\ decode_queue # <<>>
  /\ job' = Head(decode_queue)
  /\ decode_queue' = Tail(decode_queue)
  /\ decode_pc' = "process"
  /\ UNCHANGED <<generation, pc, windowing, split_start, producer_done, pcm,
                 buffered, delivery, application>>

ProcessJob ==
  /\ decode_pc = "process"
  /\ Decodes(job, TRUE)
  /\ decode_pc' = "wait"
  /\ UNCHANGED <<generation, pc, windowing, split_start, decode_queue,
                 producer_done, job, stream_error, error_frame, delivery>>

\* process_decode_job has returned false; the worker is about to take the lock.
ProcessJobFails ==
  /\ decode_pc = "process"
  /\ DecodeFails
  /\ decode_pc' = "abort"
  /\ UNCHANGED <<generation, pc, windowing, split_start, decode_queue,
                 producer_done, job, delivery>>

\* The unpaced callback has returned false, and the calling thread, which sees
\* only stream_error, goes on until the worker has stored it.
ProcessJobStopped ==
  /\ decode_pc = "process"
  /\ Decodes(job, FALSE)
  /\ decode_pc' = "stopping"
  /\ UNCHANGED <<generation, pc, windowing, split_start, decode_queue,
                 producer_done, job, stream_error, error_frame, delivery>>

RecordStop ==
  /\ decode_pc = "stopping"
  /\ RecordError
  /\ decode_pc' = "abort"
  /\ UNCHANGED <<generation, pc, windowing, split_start, decode_queue,
                 producer_done, job, audio, last_completed_frame, buffered,
                 delivery, application>>

AbortWorker ==
  /\ decode_pc = "abort"
  /\ decode_queue' = <<>>
  /\ producer_done' = TRUE
  /\ decode_pc' = "exited"
  /\ UNCHANGED <<generation, pc, windowing, split_start, job, pcm, buffered,
                 delivery, application>>

\* Mutant: the worker leaves as soon as the producer is done.
ExitWorkerEarly ==
  /\ decode_pc = "wait"
  /\ producer_done
  /\ decode_pc' = "exited"
  /\ UNCHANGED <<generation, pc, windowing, split_start, decode_queue,
                 producer_done, job, pcm, buffered, delivery, application>>

ExitWorker ==
  /\ decode_pc = "wait"
  /\ decode_queue = <<>>
  /\ producer_done
  /\ decode_pc' = "exited"
  /\ UNCHANGED <<generation, pc, windowing, split_start, decode_queue,
                 producer_done, job, pcm, buffered, delivery, application>>
-----------------------------------------------------------------------------
(***************************************************************************)
(* The paced delivery worker.  It decides under the lock how much to emit  *)
(* and calls the callback outside it.                                      *)
(***************************************************************************)
available == Len(buffered) - emitted_samples

\* The sizes the loop may settle on: nothing while it waits.  Once delivery
\* has started the refill depends on the clock, between one delivery chunk and
\* the startup target.
EmitCounts ==
  IF available = 0 THEN {}
  ELSE IF ~playback_started
    THEN IF ~finalized /\ available < req.start THEN {}
         ELSE {Smaller(available, req.lead)}
  ELSE IF finalized /\ available <= req.chunk THEN {available}
  ELSE IF available < req.start
    THEN IF finalized THEN {available} ELSE {}
  ELSE {Smaller(available, n) : n \in req.chunk .. req.lead}

\* Mutant: the chunk is cut from the start of the buffer.
ChunkFromStart(n) == SubSeq(buffered, 1, n)

ChunkPcm(n) == SubSeq(buffered, emitted_samples + 1, emitted_samples + n)

\* Mutant: the last chunk so far is taken for the last of the stream.
ChunkIsLastSoFar(n) == emitted_samples + n >= Len(buffered)

ChunkIsFinal(n) == finalized /\ emitted_samples + n >= Len(buffered)

SelectChunk ==
  /\ delivery_pc = "wait"
  /\ \E n \in EmitCounts :
       /\ chunk' = [pcm |-> ChunkPcm(n), is_final |-> ChunkIsFinal(n)]
       /\ emitted_samples' = emitted_samples + n
  /\ playback_started' = TRUE
  /\ delivery_pc' = "emit"
  /\ UNCHANGED <<generation, pc, windowing, split_start, queue, pcm, buffered,
                 finalized, failed, application>>

EmitChunk ==
  /\ delivery_pc = "emit"
  /\ CallBack(chunk.pcm, chunk.is_final, TRUE)
  /\ delivery_pc' = "wait"
  /\ chunk' = NoChunk
  /\ UNCHANGED <<generation, pc, windowing, split_start, queue, pcm, buffered,
                 emitted_samples, playback_started, finalized, failed>>

\* Mutant: the worker keeps going after its callback asked to stop.
EmitChunkStopIgnored ==
  /\ delivery_pc = "emit"
  /\ CallBack(chunk.pcm, chunk.is_final, FALSE)
  /\ failed' = TRUE
  /\ delivery_pc' = "wait"
  /\ chunk' = NoChunk
  /\ UNCHANGED <<generation, pc, windowing, split_start, queue, pcm, buffered,
                 emitted_samples, playback_started, finalized>>

EmitChunkStopped ==
  /\ delivery_pc = "emit"
  /\ CallBack(chunk.pcm, chunk.is_final, FALSE)
  /\ failed' = TRUE
  /\ delivery_pc' = "exited"
  /\ chunk' = NoChunk
  /\ UNCHANGED <<generation, pc, windowing, split_start, queue, pcm, buffered,
                 emitted_samples, playback_started, finalized>>

ExitDelivery ==
  /\ delivery_pc = "wait"
  /\ available = 0
  /\ finalized
  /\ delivery_pc' = "exited"
  /\ UNCHANGED <<generation, pc, windowing, split_start, queue, pcm, buffered,
                 emitted_samples, playback_started, finalized, failed, chunk,
                 application>>
-----------------------------------------------------------------------------
(***************************************************************************)
(* finish_decode_worker and the result.                                    *)
(***************************************************************************)
FinishProducer ==
  /\ pc = "finish"
  /\ producer_done' = (producer_done \/ req.async)
  /\ pc' = "join_decode"
  /\ UNCHANGED <<generation, windowing, split_start, decode_queue, decode_pc,
                 job, pcm, buffered, delivery, application>>

JoinDecode ==
  /\ pc = "join_decode"
  /\ decode_pc = "exited"
  /\ finalized' = req.paced
  /\ pc' = "join_delivery"
  /\ UNCHANGED <<generation, windowing, split_start, queue, pcm, buffered,
                 emitted_samples, playback_started, failed, delivery_pc, chunk,
                 application>>

\* Mutant: the delivery worker's failure is not taken over.
JoinDeliveryForgets ==
  /\ pc = "join_delivery"
  /\ delivery_pc = "exited"
  /\ pc' = "result"
  /\ UNCHANGED <<generation, windowing, split_start, queue, pcm, buffered,
                 delivery, application>>

JoinDelivery ==
  /\ pc = "join_delivery"
  /\ delivery_pc = "exited"
  /\ IF failed THEN RecordError ELSE UNCHANGED <<stream_error, error_frame>>
  /\ pc' = "result"
  /\ UNCHANGED <<generation, windowing, split_start, queue, audio,
                 last_completed_frame, buffered, delivery, application>>

Return ==
  /\ pc = "result"
  /\ outcome' = IF generate_ok /\ ~stream_error /\ frames > 0 /\ audio # <<>>
                  THEN "ok" ELSE "error"
  /\ pc' = "done"
  /\ UNCHANGED <<req, steps, frames, generate_ok, windowing, split_start, queue,
                 pcm, buffered, delivery, application>>

\* The request is over; the threads are joined.
Returned == pc = "done" /\ UNCHANGED vars
-----------------------------------------------------------------------------
Caller ==
  \/ SampleEos \/ SampleThinking \/ SampleFrame \/ GenerationFails
  \/ OnFrame \/ CutFirstWindow \/ CutWindow \/ WindowsDone
  \/ FinalStopped \/ FinalNothing \/ FinalWindow
  \/ SubmitAsync \/ SubmitInline \/ SubmitInlineFails
  \/ FinishProducer \/ JoinDecode \/ JoinDelivery \/ Return

DecodeWorker ==
  \/ TakeJob \/ ProcessJob \/ ProcessJobFails
  \/ ProcessJobStopped \/ RecordStop
  \/ AbortWorker \/ ExitWorker

DeliveryWorker ==
  SelectChunk \/ EmitChunk \/ EmitChunkStopped \/ ExitDelivery

Next == Caller \/ DecodeWorker \/ DeliveryWorker \/ Returned

Spec == Init /\ [][Next]_vars

(***************************************************************************)
(* Every thread the scheduler runs makes progress: its forward passes,     *)
(* decodes and callbacks return.  The delivery worker polls every few      *)
(* milliseconds, so it sees each change of the buffer.                     *)
(***************************************************************************)
Fairness ==
  WF_vars(Caller) /\ WF_vars(DecodeWorker) /\ WF_vars(DeliveryWorker)

FairSpec == Spec /\ Fairness
-----------------------------------------------------------------------------
(***************************************************************************)
(* Properties.                                                             *)
(***************************************************************************)
Window ==
  [end : Nat, context : Nat, split : Nat, is_final : BOOLEAN]

GenerationType ==
  /\ req \in Request
  /\ pc \in {"sample", "on_frame", "windows", "submit", "on_final", "finish",
             "join_decode", "join_delivery", "result", "done"}
  /\ steps \in Nat
  /\ frames \in Nat
  /\ generate_ok \in BOOLEAN
  /\ outcome \in {"running", "ok", "error"}

WindowingType ==
  /\ last_enqueued_frame \in Nat
  /\ next_decode_end \in Nat
  /\ ramp_windows_remaining \in Nat
  /\ early_context_windows_remaining \in Nat
  /\ split_start \in Nat
  /\ window \in Window

QueueType ==
  /\ decode_queue \in Seq(Job)
  /\ producer_done \in BOOLEAN
  /\ decode_pc \in {"wait", "process", "stopping", "abort", "exited"}
  /\ job \in Job

PcmType ==
  /\ audio \in Seq(Int)
  /\ last_completed_frame \in Nat
  /\ stream_error \in BOOLEAN
  /\ error_frame \in Int
  /\ buffered \in Seq(Int)

DeliveryType ==
  /\ emitted_samples \in Nat
  /\ playback_started \in BOOLEAN
  /\ finalized \in BOOLEAN
  /\ failed \in BOOLEAN
  /\ delivery_pc \in {"wait", "emit", "exited"}
  /\ chunk \in [pcm : Seq(Int), is_final : BOOLEAN]

ApplicationType ==
  /\ heard \in Seq(Int)
  /\ finals \in Nat
  /\ stop_frame \in Int

\* Every variable holds a value of its C++ type's range in the model.
TypeOK ==
  /\ GenerationType
  /\ WindowingType
  /\ QueueType
  /\ PcmType
  /\ DeliveryType
  /\ ApplicationType

\* Every later window decodes at least one frame of left context, which the
\* default request does (4, 2 and 8 frames).  Without context each window
\* loses the decoder's trim at its join.
Contexted ==
  /\ req.context > 0
  /\ req.early > 0 \/ req.earlyCount = 0

\* The result's PCM is the utterance from its first sample on, with no sample
\* lost, repeated or out of order at any join of windows, whatever the windows,
\* their contexts, the split and the interleaving of the threads.
AudioInOrder == Contexted => IsUtterance(audio)

\* What the callback has heard is always the beginning of the result's PCM: the
\* delivery worker cuts its chunks from a buffer that grows while it works, and
\* never skips or repeats a sample, in any mode.
HeardIsPrefix ==
  /\ Len(heard) <= Len(audio)
  /\ \A i \in 1 .. Len(heard) : heard[i] = audio[i]

\* A job only copies codes of frames that are generated, and its context never
\* reaches before the first frame (make_job copies from all_codes by pointer).
JobsReadGeneratedCodes ==
  \A j \in {decode_queue[i] : i \in 1 .. Len(decode_queue)}
             \cup (IF decode_pc = "process" THEN {job} ELSE {})
             \cup (IF pc = "submit" THEN {NextJob} ELSE {}) :
    /\ 0 <= j.ctx_start
    /\ j.ctx_start <= j.new_start
    /\ j.new_start < j.end_frame
    /\ j.end_frame <= frames

LargestWindow == Larger(req.first, Larger(req.ramp, req.steady))

\* When a frame is about to be sampled, fewer frames wait for a window than the
\* largest window holds: no split, ramp or first-window case holds frames back.
BacklogBelowOneWindow ==
  pc = "sample" => frames - last_enqueued_frame < LargestWindow

\* A request that succeeds gave the callback all of the PCM, and the PCM is
\* that of every frame generated.
SuccessIsComplete ==
  outcome = "ok" =>
    /\ heard = audio
    /\ Contexted => Len(audio) = SamplesFor(frames)

\* A request whose callback asked to stop never reports success: the worker's
\* failure reaches the result whichever thread called the callback.
StopIsReported == stopped /\ outcome # "running" => outcome = "error"

\* An error that any thread records ends the generation: at most the frame in
\* flight is generated after it, and none generated after it is ever decoded.
\* When the calling thread itself called the callback that asked to stop, no frame
\* is.  (Between a callback's return on the decode worker and the error it records,
\* any number may be.)
ErrorEndsGeneration ==
  /\ stream_error => frames <= error_frame + 1 /\ last_enqueued_frame <= error_frame
  /\ stopped /\ ~req.paced /\ ~req.async => frames = stop_frame

\* After a callback asked to stop, no callback hears anything more: queued
\* jobs and buffered samples are dropped.
NothingHeardAfterStop == [][stopped => UNCHANGED application]_vars

\* The chunk marked final is the last one: neither a late job nor samples
\* buffered after finish can follow it, and there are never two.
FinalChunkIsLast == [][finals > 0 => UNCHANGED application]_vars

\* "The final job ... marks the final PCM callback": a request that succeeds
\* made exactly one callback marked final.
FinalIsMarked == outcome = "ok" => finals = 1

\* early_context_frames: "<=0 means use context_frames for every non-final
\* window", so that a request with left context loses no sample at a join.
EarlyContextIsOptional ==
  req.early = 0 /\ req.context > 0 => IsUtterance(audio)

\* "Return false to cancel generation after the current chunk": at most the
\* frame in flight is generated once the callback has returned false.
StopCancelsGeneration == stopped => frames <= stop_frame + 1
-----------------------------------------------------------------------------
\* The request implements what PcmStream promises: the frames generated stand
\* for their samples, and what the callback hears is the same.
Stream == INSTANCE PcmStream WITH generated <- SamplesFor(frames)

StreamSpec == Stream!Spec
=============================================================================
