-------------------------- MODULE StreamingInvariant --------------------------
(***************************************************************************)
(* The inductive invariant behind the safety properties of                 *)
(* StreamingSynthesis, in named parts.  TLC checks it on the small         *)
(* requests and StreamingProofs proves it for all of them.                 *)
(***************************************************************************)
EXTENDS StreamingSynthesis

\* The calling thread is still inside generate_streaming.
Generating == pc \in {"sample", "on_frame", "windows", "submit", "on_final"}

\* The clamping never leaves the final window with less context than the others.
RequestInv == req \in Request /\ req.context <= req.finalContext

\* The frontier of the windows: nothing beyond the frames at hand is enqueued,
\* the next window is beyond the frontier, and a window being submitted is left
\* of it, with context enough for its join.
WindowInv ==
  /\ last_enqueued_frame <= frames
  /\ early_context_windows_remaining <= req.earlyCount
  /\ pc \in {"sample", "on_frame", "windows"} \/ (pc = "submit" /\ ~window.is_final)
       => next_decode_end > last_enqueued_frame
  /\ pc = "submit" =>
       /\ window.end = last_enqueued_frame
       /\ split_start < window.end
       /\ window.is_final => window.end = frames
       /\ Contexted => window.context > 0
  /\ pc \in {"sample", "on_frame", "windows", "on_final"} =>
       split_start = last_enqueued_frame

\* A job's context is inside the first n frames, and is there when it has to be.
JobFits(j, n, contexted) ==
  /\ j.ctx_start <= j.new_start
  /\ j.new_start < j.end_frame
  /\ j.end_frame <= n
  /\ contexted /\ j.new_start > 0 => j.ctx_start < j.new_start

JobOK(j) == JobFits(j, frames, Contexted)

JobsInv ==
  /\ \A i \in 1 .. Len(decode_queue) : JobOK(decode_queue[i])
  /\ decode_pc = "process" => JobOK(job)

\* Something has gone wrong: an error is recorded, or the decode worker's callback
\* has asked to stop and the worker is about to record it.
Broken == stream_error \/ decode_pc = "stopping"

\* Until something fails, the job being decoded starts where the audio ends, each
\* queued job starts where its predecessor ends, and the last one ends where the
\* calling thread goes on.
QueueStart ==
  IF decode_pc = "process" THEN job.end_frame ELSE last_completed_frame

ChainInv ==
  ~Broken =>
    /\ decode_pc = "process" => job.new_start = last_completed_frame
    /\ \A i \in 1 .. Len(decode_queue) :
         decode_queue[i].new_start =
           IF i = 1 THEN QueueStart ELSE decode_queue[i - 1].end_frame
    /\ split_start =
         IF decode_queue = <<>> THEN QueueStart
         ELSE decode_queue[Len(decode_queue)].end_frame

\* Whoever decodes stops at the first error.
ErrorInv ==
  /\ ~req.async => decode_pc = "exited" /\ decode_queue = <<>>
  /\ stream_error => decode_pc \in {"abort", "exited"}
  /\ stream_error /\ ~req.async => ~Generating
  /\ decode_pc = "abort" => stream_error
  /\ decode_pc = "stopping" => ~req.paced
  /\ decode_pc = "exited" /\ Generating => stream_error \/ ~req.async
  /\ producer_done /\ Generating => stream_error
  /\ pc \in {"join_delivery", "result", "done"} => decode_pc = "exited"

\* The audio is the utterance's beginning, up to the last completed frame; the
\* window whose callback asked to stop is in it too.
AudioInv ==
  /\ Contexted => IsUtterance(audio)
  /\ Contexted => Len(audio) <= SamplesFor(frames)
  /\ Contexted /\ ~Broken => Len(audio) = SamplesFor(last_completed_frame)

\* What left the buffer is either heard already or in the delivery worker's hands.
DeliveryInv ==
  /\ emitted_samples <= Len(buffered)
  /\ delivery_pc # "emit" => chunk = NoChunk
  /\ delivery_pc = "emit" => Len(chunk.pcm) > 0
  /\ req.paced =>
       /\ buffered = audio
       /\ Len(heard) + Len(chunk.pcm) = emitted_samples
       /\ \A i \in 1 .. Len(heard) : heard[i] = audio[i]
       /\ \A i \in 1 .. Len(chunk.pcm) : chunk.pcm[i] = audio[Len(heard) + i]
  /\ ~req.paced => heard = audio /\ delivery_pc = "exited"

\* A callback that asked to stop left its mark, and the result takes it over.
StopInv ==
  /\ stopped => IF req.paced THEN failed ELSE Broken
  /\ failed => delivery_pc = "exited"
  /\ pc \in {"result", "done"} =>
       delivery_pc = "exited" /\ (failed => stream_error)
  /\ outcome # "running" => pc = "done"
  /\ outcome = "ok" => generate_ok /\ ~stream_error

\* Without an error, nothing is left behind: the calling thread leaves no frame
\* without a window, the decode worker no job, the delivery worker no sample.
CompleteInv ==
  /\ ~Generating /\ generate_ok /\ ~stream_error =>
       split_start = frames
  /\ decode_pc = "exited" /\ ~stream_error => decode_queue = <<>>
  /\ decode_pc = "exited" /\ ~stream_error /\ req.async => producer_done
  /\ finalized => pc \in {"join_delivery", "result", "done"}
  /\ pc \in {"join_delivery", "result", "done"} /\ req.paced => finalized
  /\ delivery_pc = "exited" /\ req.paced /\ ~failed =>
       finalized /\ emitted_samples = Len(buffered)
  /\ outcome = "ok" => frames > 0

\* The next window ends at most one window beyond the frontier, and no frame is
\* sampled beyond its end.
BacklogInv ==
  /\ next_decode_end <= last_enqueued_frame + LargestWindow
  /\ pc = "sample" => frames < next_decode_end

\* The frame in flight is the last one once an error is recorded, and no window
\* reaches a frame beyond it.  Inline, an unpaced callback that asked to stop did so
\* on the calling thread, which generates nothing more.
PromptInv ==
  /\ stream_error =>
       /\ frames <= error_frame + (IF pc \in {"sample", "windows", "submit"} THEN 0 ELSE 1)
       /\ last_enqueued_frame <= error_frame
  /\ stopped /\ ~req.paced /\ ~req.async => frames = stop_frame

\* The final job comes after all others, and the final chunk empties a buffer
\* to which nothing is added any more.
FinalInv ==
  /\ pc = "submit" /\ window.is_final => window.split = 0
  /\ \A i \in 1 .. Len(decode_queue) :
       decode_queue[i].is_final => i = Len(decode_queue) /\ ~Generating
  /\ decode_pc = "process" /\ job.is_final => decode_queue = <<>> /\ ~Generating
  /\ ~req.paced /\ finals > 0 =>
       decode_queue = <<>> /\ decode_pc # "process" /\ ~Generating
  /\ chunk.is_final \/ (req.paced /\ finals > 0) =>
       finalized /\ emitted_samples = Len(buffered)
  /\ req.paced /\ finals > 0 => delivery_pc # "emit"

IInv ==
  /\ TypeOK
  /\ RequestInv
  /\ WindowInv
  /\ JobsInv
  /\ ChainInv
  /\ ErrorInv
  /\ AudioInv
  /\ DeliveryInv
  /\ StopInv
  /\ CompleteInv
  /\ BacklogInv
  /\ PromptInv
  /\ FinalInv
-----------------------------------------------------------------------------
(***************************************************************************)
(* Why a request comes to an end.                                          *)
(***************************************************************************)
\* The clamping leaves every choice of a size something to choose from, a step of
\* the loop is below the token limit, and the decode worker knows that no job
\* follows once the calling thread waits for it.
EndInv ==
  /\ req.adaptMin <= req.steady /\ req.chunk <= req.lead
  /\ steps <= req.limit
  /\ pc = "sample" => steps < req.limit
  /\ pc \in {"join_decode", "join_delivery", "result", "done"} /\ req.async =>
       producer_done

\* Each thread's stations, counted from its end.
CallerRank ==
  IF pc = "submit" /\ window.is_final THEN 5
  ELSE [on_frame |-> 9, windows |-> 8, submit |-> 8, sample |-> 7, on_final |-> 6,
        finish |-> 4, join_decode |-> 3, join_delivery |-> 2, result |-> 1,
        done |-> 0][pc]

DecodeRank ==
  [process |-> 4, stopping |-> 3, abort |-> 2, wait |-> 1, exited |-> 0][decode_pc]

DeliveryRank == [emit |-> 2, wait |-> 1, exited |-> 0][delivery_pc]

\* What is left to do: tokens to sample, the calling thread's way, frames to cut
\* into windows, frames to submit, jobs to take, the decode worker's way, samples
\* to deliver, the delivery worker's way.  A step may add to what comes later in
\* the list but takes from what comes first.
Remaining ==
  <<req.limit - steps, CallerRank, frames - last_enqueued_frame,
    IF pc = "submit" THEN window.end - split_start ELSE 0,
    Len(decode_queue), DecodeRank, available, DeliveryRank>>

\* Where each thread has a step to take.
CallerCanStep ==
  \/ pc \in {"sample", "on_frame", "submit", "on_final", "finish", "result"}
  \/ pc = "windows" /\ (FirstWindowDue \/ WindowDue =>
                          ramp_windows_remaining > 0 \/ SteadyWindows(req) # {})
  \/ pc = "join_decode" /\ decode_pc = "exited"
  \/ pc = "join_delivery" /\ delivery_pc = "exited"

DecodeWorkerCanStep ==
  \/ decode_pc \in {"process", "stopping", "abort"}
  \/ decode_pc = "wait" /\ (decode_queue # <<>> \/ producer_done)

DeliveryWorkerCanStep ==
  \/ delivery_pc = "emit"
  \/ delivery_pc = "wait" /\ (EmitCounts # {} \/ (available = 0 /\ finalized))
=============================================================================
