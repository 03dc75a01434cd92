------------------------------ MODULE LivePlayer ------------------------------
(***************************************************************************)
(* StreamingAudioPlayer: live playback of a streaming request through      *)
(* waveOut.  One thread of the request writes PCM, a worker thread hands   *)
(* it to the device, and the player is kept for the next request.          *)
(*                                                                         *)
(* Each region of the code under mutex_ is one step.  The device (waveOut) *)
(* plays the buffers it was given in order and marks them done.  The       *)
(* counters and times behind queued_audio_ms are left out: nothing of what *)
(* is played depends on them.                                              *)
(***************************************************************************)
EXTENDS Naturals, Sequences

CONSTANTS
  Rates,        \* sample rates of vocoders
  Prerolls,     \* prerolls a request may ask for, in samples
  ChunkSizes,   \* samples of one write
  MaxSamples,   \* at most so many samples are written by a request
  MaxRequests   \* at most so many requests

Closed == 0

ASSUME PlayerAssumption ==
  /\ Rates \subseteq Nat \ {Closed}
  /\ Prerolls \subseteq Nat
  /\ ChunkSizes \subseteq Nat \ {0}
  /\ MaxSamples \in Nat
  /\ MaxRequests \in Nat

VARIABLES
  phase,            \* where the request is: "idle", "streaming" or "draining"
  serial,           \* its number; samples carry it
  written,          \* every sample it wrote
  wave_out,         \* the rate of the open device, or Closed
  queue,            \* the chunks that wait for the worker
  preroll_samples,
  preroll_buffer,
  playback_started,
  stopping,
  worker,           \* where the worker thread is, or "none"
  pcm,              \* the chunk it has taken
  pending,          \* the chunks given to the device that it has not played
  done,             \* how many chunks it has played that are not retired
  heard,            \* every sample of this request that was played
  refused           \* the device refused a chunk of this request

request == <<serial, written>>
buffers == <<queue, preroll_samples, preroll_buffer, playback_started>>
device  == <<wave_out, pending, done, heard>>

vars == <<phase, request, buffers, stopping, worker, pcm, device, refused>>

-------------------------------------------------------------------------------
(* The calling threads.                                                      *)

Init ==
  /\ phase = "idle"
  /\ serial = 0
  /\ written = <<>>
  /\ wave_out = Closed
  /\ queue = <<>>
  /\ preroll_samples = 0
  /\ preroll_buffer = <<>>
  /\ playback_started = TRUE
  /\ stopping = FALSE
  /\ worker = "none"
  /\ pcm = <<>>
  /\ pending = <<>>
  /\ done = 0
  /\ heard = <<>>
  /\ refused = FALSE

\* prepare, between requests: the device stays open if its rate is the same, and
\* is closed first if not.  Closing sets stopping, for there is no worker.
Prepare(rate) ==
  /\ wave_out' = rate
  /\ stopping' = (stopping \/ wave_out \notin {Closed, rate})

PrepareDevice ==
  /\ phase = "idle"
  /\ \E rate \in Rates : Prepare(rate)
  /\ UNCHANGED <<phase, request, buffers, worker, pcm, pending, done, heard, refused>>

\* Opening the device fails, or the engine is destroyed: the player goes with it,
\* and the next request makes a new one.
Discard ==
  /\ phase = "idle"
  /\ wave_out' = Closed
  /\ queue' = <<>> /\ preroll_samples' = 0 /\ preroll_buffer' = <<>>
  /\ playback_started' = TRUE
  /\ stopping' = FALSE
  /\ UNCHANGED <<phase, request, worker, pcm, pending, done, heard, refused>>

\* open leaves the queue as it is.
Open ==
  /\ phase = "idle"
  /\ worker = "none"
  /\ serial < MaxRequests
  /\ \E rate \in Rates : wave_out' = rate
  /\ \E preroll \in Prerolls :
       /\ preroll_samples' = preroll
       /\ playback_started' = (preroll = 0)
  /\ preroll_buffer' = <<>>
  /\ stopping' = FALSE
  /\ worker' = "wait"
  /\ phase' = "streaming"
  /\ serial' = serial + 1
  /\ written' = <<>> /\ heard' = <<>> /\ refused' = FALSE
  /\ UNCHANGED <<queue, pcm, pending, done>>

\* The next samples that the request writes.
NextSamples(n) == [i \in 1 .. n |-> <<serial, Len(written) + i>>]

Holds == ~playback_started /\ preroll_samples > 0

\* Mutant: without the samples held before.
ForgetsHeld(samples) == samples

WithHeld(samples) == preroll_buffer \o samples

\* The startup buffer is twice the preroll.
Enough(samples) == Len(samples) >= 2 * preroll_samples

\* write: under the lock, a player that stops ignores the samples.
Write ==
  /\ phase = "streaming"
  /\ \E n \in ChunkSizes :
       LET samples == NextSamples(n) IN
       /\ Len(written) + n <= MaxSamples
       /\ written' = written \o samples
       /\ \/ /\ stopping
             /\ UNCHANGED buffers
          \/ /\ ~stopping /\ Holds /\ ~Enough(WithHeld(samples))
             /\ preroll_buffer' = WithHeld(samples)
             /\ UNCHANGED <<queue, preroll_samples, playback_started>>
          \/ /\ ~stopping /\ Holds /\ Enough(WithHeld(samples))
             /\ queue' = Append(queue, WithHeld(samples))
             /\ preroll_buffer' = <<>>
             /\ playback_started' = TRUE
             /\ UNCHANGED preroll_samples
          \/ /\ ~stopping /\ ~Holds
             /\ queue' = Append(queue, samples)
             /\ UNCHANGED <<preroll_samples, preroll_buffer, playback_started>>
  /\ UNCHANGED <<phase, serial, stopping, worker, pcm, device, refused>>

\* Mutant: also when it holds nothing.
AlwaysHolds == TRUE

HasHeld == preroll_buffer # <<>>

\* drain, up to the join: what the preroll still holds is queued.
Drain ==
  /\ phase = "streaming"
  /\ IF HasHeld
     THEN /\ queue' = Append(queue, preroll_buffer)
          /\ preroll_buffer' = <<>>
          /\ playback_started' = TRUE
          /\ UNCHANGED preroll_samples
     ELSE UNCHANGED buffers
  /\ stopping' = TRUE
  /\ phase' = "draining"
  /\ UNCHANGED <<request, worker, pcm, device, refused>>

Join ==
  /\ phase = "draining"
  /\ worker = "exited"
  /\ worker' = "none"
  /\ phase' = "idle"
  /\ UNCHANGED <<request, buffers, stopping, pcm, device, refused>>

-------------------------------------------------------------------------------
(* The worker thread.                                                        *)

\* Mutant: as soon as it is to stop.
LeavesAtStop == stopping

\* With nothing left in the queue.
MayLeave == stopping /\ queue = <<>>

\* It wakes for a chunk, and is asked to stop.
Take ==
  /\ worker = "wait"
  /\ ~MayLeave
  /\ queue # <<>>
  /\ pcm' = Head(queue)
  /\ queue' = Tail(queue)
  /\ worker' = "retire"
  /\ UNCHANGED <<phase, request, preroll_samples, preroll_buffer, playback_started,
                 stopping, device, refused>>

\* The wait ends after 5 ms without a chunk.
TakeNothing ==
  /\ worker = "wait"
  /\ ~stopping
  /\ queue = <<>>
  /\ worker' = "retire"
  /\ UNCHANGED <<phase, request, buffers, stopping, pcm, device, refused>>

Leave ==
  /\ worker = "wait"
  /\ MayLeave
  /\ worker' = "retire_all"
  /\ UNCHANGED <<phase, request, buffers, stopping, pcm, device, refused>>

\* retire_completed(false).
RetireCompleted ==
  /\ worker = "retire"
  /\ done' = 0
  /\ worker' = IF pcm = <<>> THEN "wait" ELSE "submit"
  /\ UNCHANGED <<phase, request, buffers, stopping, pcm, wave_out, pending, heard,
                 refused>>

\* submit_pcm.
Submit ==
  /\ worker = "submit"
  /\ pending' = Append(pending, pcm)
  /\ pcm' = <<>>
  /\ worker' = "wait"
  /\ UNCHANGED <<phase, request, buffers, stopping, wave_out, done, heard, refused>>

SubmitFails ==
  /\ worker = "submit"
  /\ pcm' = <<>>
  /\ refused' = TRUE
  /\ worker' = "abort"
  /\ UNCHANGED <<phase, request, buffers, stopping, device>>

\* Mutant: a failed submission leaves the queue as it is.
KeepsQueue(q) == q

ClearsQueue(q) == <<>>

\* After a failed submission the worker takes the lock again.
Abort ==
  /\ worker = "abort"
  /\ queue' = ClearsQueue(queue)
  /\ stopping' = TRUE
  /\ worker' = "wait"
  /\ UNCHANGED <<phase, request, preroll_samples, preroll_buffer, playback_started,
                 pcm, device, refused>>

\* Mutant: it does not wait for the device.
AnyPlayed == TRUE

AllPlayed == pending = <<>>

\* retire_completed(true): it sleeps until the device has played everything.
RetireAll ==
  /\ worker = "retire_all"
  /\ AllPlayed
  /\ done' = 0
  /\ worker' = "exited"
  /\ UNCHANGED <<phase, request, buffers, stopping, pcm, wave_out, pending, heard,
                 refused>>

Worker ==
  \/ Take \/ TakeNothing \/ Leave \/ RetireCompleted
  \/ Submit \/ SubmitFails \/ Abort \/ RetireAll

-------------------------------------------------------------------------------
\* waveOut plays the next buffer it was given.
DevicePlays ==
  /\ pending # <<>>
  /\ heard' = heard \o Head(pending)
  /\ pending' = Tail(pending)
  /\ done' = done + 1
  /\ UNCHANGED <<phase, request, buffers, stopping, worker, pcm, wave_out, refused>>

Next ==
  \/ PrepareDevice \/ Discard \/ Open \/ Write \/ Drain \/ Join
  \/ Worker \/ DevicePlays

Spec == Init /\ [][Next]_vars

\* The worker and the device run on, and a finished worker is joined.
FairSpec ==
  Spec /\ WF_vars(Worker) /\ WF_vars(DevicePlays) /\ WF_vars(Join)

-------------------------------------------------------------------------------
(* Properties.                                                               *)

Sample == Nat \X (Nat \ {0})

Chunk == Seq(Sample) \ {<<>>}

\* Types of the variables; a chunk on its way has samples.
TypeOK ==
  /\ phase \in {"idle", "streaming", "draining"}
  /\ serial \in Nat
  /\ written \in Seq(Sample) /\ heard \in Seq(Sample)
  /\ wave_out \in Rates \cup {Closed}
  /\ queue \in Seq(Chunk) /\ pending \in Seq(Chunk)
  /\ preroll_samples \in Nat
  /\ preroll_buffer \in Seq(Sample) /\ pcm \in Seq(Sample)
  /\ playback_started \in BOOLEAN /\ stopping \in BOOLEAN /\ refused \in BOOLEAN
  /\ worker \in {"none", "wait", "retire", "submit", "abort", "retire_all", "exited"}
  /\ done \in Nat

\* The player is kept between requests, and open neither empties its queue nor
\* starts a second worker: when a request is over, whatever failed in it, no
\* sample is left anywhere that the next request would play, and no thread.
IdleIsClean ==
  phase = "idle" =>
    /\ queue = <<>> /\ preroll_buffer = <<>> /\ pcm = <<>> /\ pending = <<>>
    /\ worker = "none"

\* The device is not closed, nor another one opened in its place, while it has a
\* buffer of the player or the worker may give it one.
DeviceOutlivesBuffers ==
  [][wave_out' # wave_out => pending = <<>> /\ done = 0 /\ worker = "none"]_vars

\* The player keeps what live playback promises.
Promise == INSTANCE Playback

PlaybackSpec == Promise!Spec

-------------------------------------------------------------------------------
(* The inductive invariant.                                                  *)

\* The samples of a request after the first a, up to the first b.
Run(request_no, a, b) == [i \in 1 .. b - a |-> <<request_no, a + i>>]

\* The chunks of q are the samples from a to b, cut into pieces.
Chained(request_no, q, a, b) ==
  \E cut \in [0 .. Len(q) -> a .. b] :
    /\ cut[0] = a
    /\ cut[Len(q)] = b
    /\ \A i, j \in 0 .. Len(q) : i < j => cut[i] < cut[j]
    /\ \A i \in 1 .. Len(q) : q[i] = Run(request_no, cut[i - 1], cut[i])

\* The device has been given the samples up to a, and the rest is with the worker,
\* queued or held.
Ahead(a) ==
  LET w == Len(written)
      held == w - Len(preroll_buffer)
  IN
  /\ held \in 0 .. w
  /\ preroll_buffer = Run(serial, held, w)
  /\ a + Len(pcm) <= held
  /\ pcm = Run(serial, a, a + Len(pcm))
  /\ Chained(serial, queue, a + Len(pcm), held)

\* Every sample written is heard, with the device, with the worker, queued or
\* held, in this order, unless the device refused one.
SamplesInv ==
  /\ written = Run(serial, 0, Len(written))
  /\ heard = Run(serial, 0, Len(heard))
  /\ \E a \in Len(heard) .. Len(written) :
       /\ Chained(serial, pending, Len(heard), a)
       /\ ~refused => Ahead(a)

WorkerInv ==
  /\ phase = "idle" <=> worker = "none"
  /\ pcm # <<>> => worker \in {"retire", "submit"}
  /\ worker = "submit" => pcm # <<>>
  /\ worker \in {"retire_all", "exited"} => stopping
  /\ worker \in {"none", "retire_all", "exited"} => queue = <<>>
  /\ worker \in {"none", "exited"} => pending = <<>> /\ done = 0

StopInv ==
  /\ phase = "draining" => stopping
  /\ phase = "streaming" /\ stopping => refused
  /\ phase # "streaming" => preroll_buffer = <<>>

\* Playback that has not started has given nothing to the worker.
HeldInv ==
  /\ ~playback_started => preroll_samples > 0
  /\ preroll_buffer # <<>> => ~playback_started
  /\ phase = "streaming" /\ ~playback_started =>
       queue = <<>> /\ pcm = <<>> /\ ~refused

\* After a refusal nothing more is submitted.
RefusedInv ==
  /\ refused /\ phase # "idle" =>
       /\ pcm = <<>>
       /\ worker = "abort" \/ (stopping /\ queue = <<>>)
  /\ worker = "abort" => refused

IInv == TypeOK /\ SamplesInv /\ WorkerInv /\ StopInv /\ HeldInv /\ RefusedInv
===============================================================================
