# A verification project for qwen3-tts-cpp-streaming

TLA+ modules that model the streaming text-to-speech engine and its integration
library, TLC configurations that check them on small instances, and proofs that
TLAPS checks for every value of the constants. Paths are relative to the
repository; `PS` stands for `engine/src/pipeline/pipeline_synthesize.cpp` and
`PM` for `engine/src/pipeline/pipeline_models.cpp`.

`PROJECT.json` lists, for every definition, the lines of code it stands for, and
for every checked property a mutation of the model that breaks it.

## 1. The system

An application calls `Qwen3StreamingTts` (or the CLI does). The wrapper owns an
engine, `Qwen3TTS`, which owns a text tokenizer, a transformer (the "talker" with
its code predictor), a vocoder and a speaker encoder. The talker turns text into
*frames* of codec tokens, one frame per pass; the vocoder turns frames into PCM.
A streaming request decodes windows of frames while later ones are generated.

| Component | State it keeps | Operations | Talks to |
|---|---|---|---|
| Streaming pipeline (PS 811-1647) | frames, window frontier, job queue, result PCM, delivery buffer, error and stop flags, all local to one request | generate a frame, cut a window, submit, decode, deliver a chunk, finish | talker (callback per frame), vocoder, application callback; three threads, two mutexes |
| Engine lifecycle (PM, PS 423-800, 1648-1720) | loaded flags, model path, low-memory mode, instruction-token cache | `load_models`, five synthesis entry points, `extract_speaker_embedding`, `decode_audio_codes_batch` | its four components |
| Loaders and shared backend (`gguf_loader.cpp`, `*_loader.cpp`) | tensors, configuration, one reference-counted backend | load, unload, acquire, release | ggml |
| Wrapper (`Qwen3StreamingTts.cpp`) | model directory, loaded name, capabilities, stored embedding, error | `load`, `load_speaker_embedding`, `synthesize_streaming`, `generate_audio_codes`, `decode_audio_codes_batch` | engine |
| Talker generation (`transformer_generate.cpp`) | last hidden state, sampler; while a request lasts, frame, step and position | prefill, a pass per frame, code prediction, EOS, limit | pipeline callback, caches |
| KV caches and reservation (`transformer_cache.cpp`) | the talker's and the code predictor's cache, the attention mask, the scheduler's reservation; all outlive a request | allocate, clear, grow, reserve | talker |
| Vocoder runtime (`decoder_runtime.cpp`, `decoder_cache.cpp`) | none: its graph is rebuilt for each decode | decode, decode_batch | ggml |
| Live player (PS 78-421, Windows) | device, queue of buffers, timing base | prepare, open, submit, write, drain, close | pipeline, waveOut |
| Batch runner (`apps/streaming_cli/src/cli/main.cpp`) | jobs, the voice and text last loaded, pending codes by frame count, result index, files | read or expand jobs, generate, group, flush, list | wrapper, file system |
| Text tokenizer, audio and embedding files, engine CLI, quantizer, Python tools | none that later calls depend on, save the tokenizer's vocabulary | pure conversion, I/O | |

### What is hard here, and what makes each component correct

* **Streaming pipeline.** Windows overlap: each decode includes left context whose
  samples are dropped, and the decoder loses a fixed number of samples per call.
  The PCM must be the utterance with nothing lost or repeated at a join, for any
  first/ramp/steady/split/final window and any interleaving. The job queue, the
  delivery buffer and the stop and error flags are shared between three threads.
  The callback may stop the request from any of them; a decode or a forward pass
  may fail at any time; and the request has to return.
* **Engine lifecycle.** Loads, lazy loads and low-memory unloads can fail in the
  middle and leave flags, tensors, configuration and backend references of
  different models. No request may use a component that is not there or mix models.
* **Wrapper.** It remembers what it loaded; a switch of models happens inside a
  request and may fail after the engine has already let go of the old model.
* **Talker.** The caches, the mask, the last hidden state and the reserved graphs
  outlive a request, and nothing clears a cell: a frame must be computed from its own
  utterance although the cells of an earlier, longer one are still there. Caches are
  reused, replaced or may fail to be allocated, and a pass past their end is fatal.
* **Live player.** A worker thread and a device queue that outlive a request: samples
  are held back, queued, with the worker and with the device at the same time, and the
  device may refuse a buffer with more on its way. Nothing may be lost, repeated or
  left for the next request, and a drain has to return.
* **Batch runner.** Codes are grouped by frame count and decoded out of their order,
  a file and its row are two steps, and the process may be killed between them: the
  index must never name a WAV that is not there, nor one of another job unless their ids
  are the same.

The full list of hazards, each at its line, with the properties that would catch it
or the reason there is none, is in `PROJECT.json`.

## 2. The modules

    TailWindows             window arithmetic: requests, jobs, PCM of a job
      StreamingSynthesis    one streaming request, three threads  --implements--> PcmStream
        StreamingInvariant    its inductive invariant
          MCStreaming           small requests for TLC
          StreamingProofs       lemmas about windows; invariance and safety, for all requests
            StreamingPromises     the refinements, the end of a request, its final callback
    Descent                 why a measure that comes down makes a run end (in all end proofs)
    TalkerPrompt            the layout of a prompt and the rows the talker is fed
      Talker                generation over kept caches  --implements--> FrameSource
        MCTalker, TalkerProofs
    EngineModels            the engine's components between and during calls
      MCEngine, EngineProofs
      WrapperModels         the wrapper over the engine
        MCWrapper, WrapperProofs
    LivePlayer              the waveOut player  --implements--> Playback
      MCLivePlayer, LivePlayerProofs
    BatchRunner             the batch mode of the CLI  --implements--> BatchResults
      MCBatchRunner, BatchProofs

How they fit: the batch runner calls the wrapper, the wrapper the engine; a streaming
request is one step of the engine (`Generate`) and is `StreamingSynthesis`, whose first
actions are the frame source that `Talker` implements; what it delivers goes to a
callback or to `LivePlayer`. A definition whose comment begins with "Mutant:" is no part
of a specification: it is the form of the definition after it with a plausible bug in
it, which the checked properties must notice.

### TailWindows

Integers in, a request out: `Normalised` is the clamping of `synthesize_internal`
(PS 811-880), `MakeJob` its `make_job`, `SamplesFor` the function
`qwen3_decoder_samples_for_frames`, `DroppedSamples` and `NewPcm` what
`process_decode_job` drops and appends. A PCM sample is its position in the
utterance, so a lost, repeated or reordered sample shows in the sequence.

### StreamingSynthesis

`pc` is the calling thread: `sample` (one pass of the talker), `on_frame`,
`windows` (the loop that cuts windows), `submit` (one job of a window, several if
it is split), `on_final`, `finish`, `join_decode`, `join_delivery`, `result`,
`done`. `decode_pc` is the decode worker and `delivery_pc` the paced delivery
worker. Each critical section of the code is one step: taking a job, appending PCM
together with its copy for delivery, and choosing a chunk under the lock; the
callback runs outside the lock and is a step of its own, as is what follows it. On the
decode worker a callback that returns false (`ProcessJobStopped`) and the store of
`stream_error` after it (`RecordStop`) are two steps as well: `on_frame` reads the flag
without a lock (PS 1504), so any number of frames may be generated between them.
Without `async_streaming_decode` the calling thread decodes inline, and without
pacing whoever decodes makes the callback.

Abstractions: the clock (wherever the code compares times to choose how much to
emit or how large an adaptive window is, every choice some clock allows is
allowed), token contents (a token is EOS, a thinking token or a frame), and
the PCM's values. History for the properties: `heard`, `finals`, `stop_frame` (how many
frames there were when a callback returned false) and `error_frame` (how many when
`stream_error` was first set).

### PcmStream

What a request promises: the callback hears the utterance from its first sample,
in order and each sample once; after it asked to stop it hears nothing; success
means all of it was heard. `StreamingSynthesis` implements it under
`generated <- SamplesFor(frames)`.

### EngineModels

One call at a time, as a machine of stages (`stage`). The flags are the members of
`Qwen3TTS`; `transformer_`, `config`, `decoder_`, `encoder_`, `tokenizer_` say which
model each component holds; `*_backend` say which component holds the shared
backend, whose count is `ref_count`. Each loader has an operator with an `outcome`
for every place it can fail and what it leaves there: for instance the transformer
that fails to get a backend keeps its tensors, the vocoder takes the backend before
it reads its tensors, and the speaker encoder unloads nothing before it loads.
The whole streaming branch is the one step `Generate` here: `StreamingSynthesis`
is that step's detail.

`EngineModels` models the synthesis calls of every kind (default voice, named
speaker, embedding, cloned voice) in the three modes of a request (streamed,
decoded at once, codes only), and the two calls that only extract a voice or only
decode. `last_load` is history for the properties: how the last `load_models`
ended.

### WrapperModels

Each call of `Qwen3StreamingTts` starts a call of the engine and returns when it
returns; the engine's steps are those of `EngineModels`. A switch of models goes
through the stages of a load, then on with the request's checks.

The engine's own invariant and theorems hold under the wrapper, because each of its
steps makes at most one step of the engine: that is the theorem `UsesTheEngine`.

### TalkerPrompt and Talker

`TalkerPrompt` is the tokens' layout: `PromptText` and `PromptCodec` say which text and
which codec embedding a row of the prompt adds up, and `TrailingText` which text the rows
after it take: the rest of the tokens one by one, then the end and padding. The numbers are
left out.

`Talker` is `TTSTransformer::generate`. `pc` runs through `resize` (the talker's cache),
`predictor` (the code predictor's), `reserve`, `prefill`, and then for each frame
`sample`, `predict` (a step per residual code), `emit` (the callback) and `step` (the row
that is fed back), then `finish`. A cell of a
cache holds the row it was computed from, its `owner` (the request's number) included; a
pass yields the set of rows it attended to, instead of a vector. So `last_hidden` says
what the next frame is sampled from, and `code_rows` what a code was predicted from: if
an old request's cell were read, it would be in that set. A cache that got no memory
keeps its size, as the code does, and yields `Garbage`. `LoadModel` brings the flag
`skip_ggml_code_pred_layers`, under which the reservation builds a graph over tensors
that were not loaded. Left out: `n_used`, which is written and never read; the `n_ctx == 0`
branches of the forward functions, which a preceding resize makes unreachable; a request
without `on_frame`; what a failed pass wrote before it failed, since the next request
writes those rows again or does not attend to them. A text has at least one token
because an empty one is refused (PS 634).

### FrameSource

What a streaming request needs of a generation: one callback per frame, never more than
the limit, then at most one final callback, an end at once when the callback says so,
and an end. `Talker` implements it, liveness included, and the actions `SampleEos`,
`SampleThinking`, `SampleFrame`, `GenerationFails` and `OnFrame` of `StreamingSynthesis`
are a client's view of the same loop.

### Playback and LivePlayer

`Playback` promises that the device plays what the request wrote, in order and once, and
that a drain returns only when all was heard or a buffer was refused. In `LivePlayer` each
region under `mutex_` is one step: `Write` (which holds its samples, queues them, or starts
the playback with all that was held), `Drain` with its flush of the held samples, `Take` and `Leave` of the
worker, and what the worker does outside the lock (`RetireCompleted`, `Submit`,
`SubmitFails`, `Abort`, `RetireAll`). The player is kept: `PrepareDevice` between
requests reopens it for another rate, `Discard` drops it. `waveOut` is external: it plays
what it was given, in order, and marks buffers done. The calling thread waits only
in `Join`, whose guard is the end of the worker.

### BatchResults and BatchRunner

`BatchResults` promises that a WAV is written from its own job's text, voice and seed, that
a row is only written for a WAV that is there, that a WAV is not written again for a job
that has its row, that success means every job has its row, and that a run ends. It does
not ask that ids differ: of jobs with one id the last row names the WAV that is left. In
`BatchRunner` a path stands for the file and what is in it, and a WAV is the
triple of text, voice and seed it was made from, so that a wrong voice, a stale text or
a swapped row is visible. `batch_size = 1` is the sequential loop, anything above it the
loop that generates codes, groups them by frame count (`pending_by_frames`), and flushes
(`Decode`, `Save`, `List`, `Flushed`); `FlushRest` walks the rest in the order of the map.
`index` are the rows written, `on_disk` how many of them were flushed. `Kill` ends the
process anywhere and loses rows that were not flushed, and a file being written may stay
`Incomplete`. History: `fault`, whether a call of this run that does its own work failed,
and `index_jobs`, the jobs of the run that the rows are of. A job is a record with the ids
and paths it came from, as `BatchJob` is, so that two jobs differ even where their ids are
one.

## 3. What is checked

| Run | Shows | Distinct states |
|---|---|---|
| `stream_safety` | order and completeness of the PCM, prefix delivery, stop and failure reporting, the end of generation after an error, in all four modes; the inductive invariant | 621,636 |
| `stream_refines` | a contexted request implements `PcmStream`, and returns | 180,362 |
| `engine_models` | no component is used unloaded, the cache is current, the backend outlives its users, one model speaks, low-memory mode frees the transformer first | 1,527,576 |
| `wrapper_models` | the wrapper knows the loaded model after every successful load; voice-design checks are made against the model that speaks | 290,344 |
| `talker_safety` | up to three requests on one transformer: each frame and code is computed from its own utterance alone, the context suffices, no stale reservation is used, and the talker implements `FrameSource` | 61,434 |
| `player_safety` | up to three requests on one player: nothing is left for the next one, the device is closed only when it has nothing, and the player implements `Playback` | 23,276 |
| `batch_safety` | up to two runs into one directory with failing calls and a kill anywhere: rows are true, also of a product whose ids collide, a kill loses one group at most, and the runner implements `BatchResults` | 288,291 |
| `final_mark`, `cancel_paced`, `early_context`, `low_mem_speaker`, `model_switch` | the findings of section 6 | |

### Properties

Streaming: `AudioInOrder` (with left context the result is the utterance, sample
for sample), `HeardIsPrefix` (in every mode the callback has heard a prefix of it),
`JobsReadGeneratedCodes` (no job copies codes not there), `BacklogBelowOneWindow`
(frames never wait for more than one window), `SuccessIsComplete`, `StopIsReported`,
`ErrorEndsGeneration` (after a recorded error at most the frame in flight is generated and
nothing more is enqueued; a stop of a request decoded inline ends it at its frame),
`NothingHeardAfterStop`, `FinalChunkIsLast` and `StreamSpec` (the abstract specification,
with liveness).

Engine: `NothingUsedUnloaded`, `CacheIsCurrent`, `BackendOutlivesUsers`,
`OneModelSpeaks`, `LowMemoryHoldsOneModel`. The first holds after failed loads too;
`OneModelSpeaks` is about loads that succeeded, since a failed load may leave the
configuration of one model with the path of another.

Wrapper: `WrapperKnowsTheModel`, `DesignIsInstructed`, both again conditional on
the last load having succeeded; what happens after a failed switch is a finding.

Talker: `HiddenIsOfUtterance` (a frame is sampled from the whole prompt, the text in
order and its own frames, and nothing else), `CodesAreOfThisFrame`, `ContextSuffices` (no
pass exceeds either cache, for any limit), `ReservedGraphsFit` (a standing reservation is
for graphs as large as this request's and for the cache in use) and `SourceSpec`.
The first two say nothing of a cache without memory.

Player: `IdleIsClean`, `DeviceOutlivesBuffers` (an action property: no step closes or
replaces a device that has a buffer or may be given one) and `PlaybackSpec`.

Batch: `IndexNamesFiles` (each row is of a job of its run and names a WAV; the last row with
an id names its own job's complete WAV, unless another job of the run has the same id and
is not listed, whose WAV, or part of one, may have taken its place), `LossIsBounded` (rows not yet on disk are at most one physical
batch), `VoiceLoadedOnce` (the product's order loads each voice once), `FailsOnlyOnFaults`
(the batch decode is never given codes of different lengths) and `BatchSpec`.

### Bounds

* `MCStreaming`: 2 samples per frame with a trim of 1, at most 7 tokens, first
  windows of 1 or 2, ramps of 2, steady windows up to 3, adaptive sizes, splits into
  single frames, early and final contexts of 1 to 3, chunks of 2 samples, and one
  request with sizes out of range. Seven tokens give a first, ramp, several steady
  and a final window, hence a job queue longer than one and every join; the proofs
  remove the bound.
* `MCEngine`: two models with different types and embedding sizes, two strings that
  serve as instructions and cache keys (so that a key can collide with another
  text), `MaxRefs` 4: the three components plus one reference lost by a reload of
  the speaker encoder. Histories are not bounded: any number of calls.
  `MCWrapper` has a base model and a voice-design model, and one text.
* `MCTalker`: four kinds of request in any order, `MaxRequests` 3: a short text whose
  end and padding are reached, one with language and speaker that the limit cuts off, one
  with an instruction so long that the cache has to grow and that the next short one
  replaces it, and one without tokens. `KeepCtx` 16 stands for 512, `PredictorCtx` 4 for
  16, `Residuals` 3 for 15 and `Slack` 1 for 8: only their order matters, and the proofs
  take any.
* `MCLivePlayer`: two rates, prerolls of 0 to 2 samples (the code doubles them, so a
  startup buffer of 2 or 4), chunks of 1 or 2, five samples a request, three requests: a
  startup buffer is met exactly, passed, or never reached; the player is reused twice.
* `MCBatchRunner`: batch sizes 1 to 3, utterances of 1 or 2 frames, four jobs, two runs
  into the same directory: full batches in the loop, a second one of the same length, rests
  of both lengths, a list that returns to an earlier voice and text, a product with a
  repeated seed, such a product in which two jobs have one id (`SameIds`), and lists that
  are refused.

Deadlock is checked in every run but `batch_safety`, whose process ends; a returned
request stutters by an explicit action.

### Fairness

`StreamingSynthesis!Fairness` is weak fairness of each thread: the operating system
runs every thread, a forward pass, a decode and a callback return, and the delivery
worker's waits all have a timeout of a few milliseconds (PS 1018-1140), so it needs no
notification. The decode worker waits with a predicate on `producer_done` and the
queue, both written under its mutex and followed by a notification (PS 1386, 1464,
1477), so a wait cannot miss them. Nothing is assumed of
the sampler: that the request ends rests on the token limit. The talker's loop waits for
nobody, so its fairness is that of the thread it runs on. In `LivePlayer` the worker is
fair because its wait times out every 5 ms, the device because it plays what it has
accepted, and a drain because it joins a worker that ends; writers and applications are
not assumed to do anything. In `BatchRunner` a run that is not killed goes on, because each
call of the wrapper returns. The engine and the wrapper are sequential and have no
liveness property of their own.

## 4. What is proved

| Module | Theorem | For every value of the constants |
|---|---|---|
| `StreamingProofs` | `NewPcmTiles` | a job with context contributes exactly the samples between its predecessor's end and its own |
| `StreamingProofs` | `Invariance`, `Typing`, `AudioIsInOrder`, `HearingIsPrefix`, `JobsStayInCodes`, `SuccessHasEverything`, `StopsAreReported`, `SilenceAfterStop`, `BacklogIsBelowOneWindow`, `ErrorsEndGeneration`, `FinalChunkStaysLast` | the invariant and the safety properties of a streaming request |
| `StreamingPromises` | `Implements`, `FramesComeFromSource` | every step of a contexted request is a step or a stutter of `PcmStream`; every step of any request is one of `FrameSource` |
| `StreamingPromises` | `EveryStepDescends`, `NeverStuck` | each step of the three threads leaves less to do, and until the request returned one of them has a step to take |
| `StreamingPromises` | `FinalIsMarkedIfLeft` | an unpaced success made its one final callback if frames were left for a final window, and none otherwise |
| `EngineProofs` | `EngineInvariance`, `EngineTyping`, `UsesOnlyWhatIsLoaded`, `CacheStaysCurrent`, `BackendStaysAlive`, `SpeechIsOfOneModel`, `LowMemoryIsHonoured`, `ModelStaysLoaded` | the invariant and the safety properties of the engine; outside low-memory mode no request is refused for a missing model |
| `WrapperProofs` | `UsesTheEngine`, `WrapperTyping`, `KnowsTheModel`, `DesignStaysInstructed`, `SwitchesAreHonoured` | the wrapper uses the engine as `EngineModels` has it, and knows what it holds; after a successful load a request is spoken by the model it names |
| `TalkerProofs` | `TypeCorrect`, `Invariant`, `HiddenState`, `Codes`, `Context`, `Reservation`, `Implements`, `EveryStepDescends` | the talker's invariant and safety, the safety part of `FrameSource`, and that each step of a generation leaves less to do |
| `LivePlayerProofs` | `TypeCorrect`, `Invariant`, `CleanBetweenRequests`, `DeviceKept`, `Implements`, `EveryStepDescends`, `NeverStuck` | the player's invariant and safety, the safety part of `Playback`, and that a drain neither goes on forever nor gets stuck |
| `BatchProofs` | `TypeCorrect`, `Invariant`, `IndexIsTrue`, `LossStaysBounded`, `FailuresAreFaults`, `VoicesLoadedOnce`, `Implements`, `EveryStepDescends` | the runner's invariant and safety, the safety part of `BatchResults`, and that each step of a run leaves less to do |
| `Descent` | `DescentEnds` | tuples of natural numbers do not come down forever in dictionary order |

Assumptions: `DecoderAssumption` (the trim is less than a frame), `SteadyAssumption`,
`RequestAssumption` (a request is any record of integers with a positive limit),
`ModelAssumption` (models have a type and positive dimensions), `DefaultAssumption` (an
empty model name finds a model), `TalkerAssumption` (the code predictor's cache has more
cells than a frame has residual codes, 16 and 15 in the code), `PlayerAssumption` (rates
and chunks are positive) and `BatchAssumption` (the lists of an input are sequences, batch sizes are
positive). Nothing is assumed of ids: that an accepted input expands to a nonempty list of
jobs that differ, as values if not by id, is proved (`JobsAreApart`). TLC evaluates every assumption. No set is assumed finite where the
code does not make it so, and no size is bounded. `BatchSeeds` states what the loop of
`ParseBatchSeeds` leaves, the first of each seed in their order, without a fold;
`SeedsAsLoop` in `MCBatchRunner` compares it with the loop on every list of up to four.

**The streaming argument.** `AudioInOrder` is not inductive: that the next job
continues the PCM depends on where the job before it ended, which depends on the
queue, on the job in the worker's hands and on the window being cut. `IInv`
(`StreamingInvariant`) says so part by part: `WindowInv` (the frontier of the
windows), `JobsInv` (a job's context lies inside the frames), `ChainInv` (until an
error each job starts where its predecessor ends, from the end of the PCM to the
window in progress), `ErrorInv` (whoever decodes stops at the first error),
`AudioInv` (the PCM is the utterance up to the last completed frame), `DeliveryInv`
(what left the buffer was heard or is in the worker's hands), `StopInv`,
`CompleteInv` (without an error nothing is left behind when a thread leaves),
`BacklogInv` (the next window ends within one window of the frontier), `PromptInv` (after an
error the one frame in flight is counted only where the calling thread is past sampling it,
and is in no window) and `FinalInv`
(the final job is behind all others, and the final chunk empties a buffer that no longer
grows). The proof has one lemma per part; the arithmetic of a join is `NewPcmTiles`.

**The engine argument.** `NothingUsedUnloaded` follows from `FlagsInv` (a raised flag
stands for a complete component of the selected model that holds the backend) and
`StageInv` (what each stage may rely on); `BackendOutlivesUsers` is inductive with the
types; `CacheIsCurrent` needs that the cache is empty while the tokenizer changes
(`CallInv`), and `OneModelSpeaks` needs what a successful load established (`LoadInv`).
`NextCases` sorts the steps into those that start a call, those that end one without
touching a component, and the rest; each part of the invariant then has one lemma
with a step per case.

**The wrapper argument.** `WrapperStepsEngine` shows that a step of the wrapper is a step
of the engine or leaves it alone, which needs that a stored embedding has a possible
dimension and that options are well formed; the engine's invariant is then the wrapper's.
`WrapperInv` adds `WaitsInv` (which stages the engine can be in while the wrapper waits for
a load, a request or a decode), `AskedInv` (a load in progress is of the model asked for,
and its reply is how the load ended) and `PassedInv` (a request in the engine passed the
checks, and from the tokeniser on has tokens if it has an instruction).

**The talker argument.** The invariant says what every cell up to `n_past` holds, that the
mask shows exactly the cells of this frame, that `n_past` and the frames to come fit the
cache (the reserve is `prompt + limit + Slack`, and each pass adds one), and that a
reservation names the cache in use. That cells beyond `n_past` may hold anything is the
point: the mask and the attended range, not a reset, keep old requests out.

**The player argument.** `SamplesInv`: what was written is what was heard, followed by what
the device has, the worker has, the queue has and is held back, in this order, until the
device refuses a buffer. Around it, `WorkerInv`, `StopInv`, `HeldInv` and `RefusedInv` say
which threads exist in which phase and what a refusal leaves.

**The batch argument.** A job whose codes are made waits at exactly one place of one bucket
or is in the index (`BatchedInv`), a bucket holds rows of one length and fewer than a batch
(`BucketInv`), what is being saved is the head of one bucket (`FlushInv`), and the voice and
text held are those of the paths remembered (`VoiceInv`). Places are compared by job, not by
id (`RowsInv`, `JobsInv`). That a row's WAV is the right one is then kept by two kinds of
step: a save, which replaces only the WAV of an unlisted job (`NamesWritten`), and a row,
which is from then on the last with its id (`NamesListed`); a kill cuts the rows and makes
the jobs of the lost ones unlisted again (`NamesLost`). `NothingIsLost` then gives that
the index is complete when the loop ends, and `DiskInv` the bound on lost rows.
`VoicesLoadedOnce` rests on the order of a product's jobs: those of one voice are
neighbours, so a voice that was left does not come back.

**Both sides of a frame source.** `FrameSource` is what passes between the talker and the
pipeline. `TalkerProofs!Implements` shows that the talker keeps to it, and
`StreamingPromises!FramesComeFromSource` that the generation steps of `StreamingSynthesis`
do, so the pipeline was proved against a generation that the talker stands for.

**How far the findings go.** A run that violates a property shows one behaviour; these
theorems show that there are no others of its kind. An unpaced request lacks its final mark
exactly when no frame was left over (`FinalIsMarkedIfLeft`); once an error is recorded at
most the frame in flight is generated, and inline none after a stop (`ErrorsEndGeneration`),
though on the decode worker nothing bounds what is generated between the callback's return
and its record; with early context no sample is lost
(`AudioIsInOrder`); a speaker is refused for a missing model only in low-memory mode
(`ModelStaysLoaded`); and a request is spoken by another model than it names only after a
load that failed (`SwitchesAreHonoured`).

**Coming to an end.** Fairness is out of the prover's reach, but what it is needed for is
not: that a run cannot go on forever and cannot stop half-way. `EveryStepDescends` gives, for
a request, a generation, a drain and a batch run, a tuple of counts (`Remaining`) that each
step makes smaller in dictionary order: what stands first, tokens, chunks or jobs, is only
used up, and a step may add to a later count what it takes from an earlier one. By
`DescentEnds` there are finitely many such steps. `NeverStuck` says that until the end some
thread has a step to take: the caller's joins wait for workers that can still step, and a
worker's wait for a caller that can. For a batch run the measure needs that no row is written
twice and that rows are places of jobs (`RowsDiffer`, `RowsArePlaces`), or flushing could go
on forever. `CanStep` stands for `ENABLED`; TLC was used to compare the two in every
reachable state of the small instances.

**Only model-checked.** The temporal formulas that join the last two with fairness: the
liveness parts of `StreamSpec`, `SourceSpec`, `PlaybackSpec` and `BatchSpec`, since TLAPS
does not handle fairness and `ENABLED` here. The library's induction theorems, which take an
operator, cannot be instantiated by the installed provers: where an argument goes over a
list it is made by an invariant over positions or by a count instead, and no module needs a
recursive operator.

## 5. Plan

Written, in this order: `TailWindows`, `StreamingSynthesis`, `PcmStream` and their
proofs, `EngineModels` and its proofs, `WrapperModels`, `Talker` with `FrameSource`,
`LivePlayer` with `Playback`, `BatchRunner` with `BatchResults`, each with its proofs,
then the proofs about the wrapper and the last three streaming invariants, and the proofs
that requests, generations, drains and batch runs end and of how far the findings go.

What could follow:

1. Paced live delivery: the delivery worker's other mode, which asks the player how much
   it still has (PS 858-872, 1113-1140), composed with `LivePlayer`.
2. `BatchRunner` over `WrapperModels` instead of over calls that succeed or fail, with the
   stored embedding and the loaded model in the place of the remembered paths.
3. Two engines in one process over the shared backend, if a program ever has two.

## 6. Findings

* **No final mark** (`final_mark`). `enqueue_tail_window` returns early when the last
  frame already completed a window (PS 1393), so no callback is marked final, although
  `docs/architecture.md:57` says the final job marks one.
* **A paced stop does not stop the generation** (`cancel_paced`). The flag that
  `on_frame` reads is set only after the generation (PS 954, 1491), although
  `Qwen3StreamingTts.h:71` says returning false cancels it.
* **`early_context_frames = 0` means no context** (`early_context`) where
  `engine/src/qwen3_tts.h:83` says it means `context_frames`; each early join then loses the
  decoder's trim.
* **A failed switch of models** (`model_switch`). The wrapper keeps the old model's name
  while the engine holds parts of the new one and still accepts requests, so a request
  that names the old model is spoken by the new one (`Qwen3StreamingTts.cpp:103`).
* **Named speakers in low-memory mode** (`low_mem_speaker`). They are resolved before the
  transformer is reloaded, so they fail after any unstreamed request (PS 434).

### Divergences without a run

Met while modelling; each is in the model as the code has it, and none is a property:

* The live preroll is doubled (PS 128): `engine/src/qwen3_tts.h:103` gives it
  as the startup buffer.
* A cache whose allocation fails keeps its new size (`transformer_cache.cpp:26`, `:63`), so
  a later request may find it large enough and compute on no memory. `Talker` shows it as
  `Garbage`.
* Ids of a product can collide, since they are the lists' ids joined by `__`
  (`apps/streaming_cli/src/cli/main.cpp:452`); job lists are checked for it (160-166), products
  are not. The later WAV then replaces the earlier one under two rows. `BatchRunner`
  has it so, and `IndexNamesFiles` says what is left: the WAV of the last row with the id.
* A buffer that the device refuses is not reported: `write` answers true in any case, and
  the error paths behind it (PS 974-980, 1281-1286) are never taken.
* `reset_timing_base` reads the player's counters without its mutex (PS 239, 342-351);
  only its starvation counts depend on it.
* With CoreML the layers of the code predictor are not loaded
  (`transformer_loader.cpp:75-79`) but the reservation builds its graphs over them
  (`transformer_cache.cpp:166-175`), so the first request ends in a crash; `readme.md:369`
  describes it as supported. In `Talker` this is `ReserveWithoutLayers`.
* `save_audio_file` ignores write errors (`audio_io.cpp:191`): a full disk leaves a short
  WAV under a row. `BatchRunner` has incomplete files only after a kill.

## 7. Not modelled

* Numerics: attention, sampling, convolution, quantization, the mel frontend. What a pass
  reads and whether it happens is modelled, what it computes is not.
* Tensor and GGUF parsing, the Unicode tables and byte-pair merges: pure functions of a
  file or a text; the loaders' failures are in `EngineModels`.
* Audio files beyond whether they are there and whole; embedding files; traces, timings and
  profiles; the player's diagnostics.
* Command lines: the engine's CLI and the streaming CLI's single-request mode parse
  arguments and call the wrapper once, and keep nothing.
* The CoreML prediction itself, which lies behind a reservation that does not survive it,
  and the CUDA switches.
* Paced live delivery by the device's queue (section 5), and the process-wide backend
  shared by more than one engine: the repository's programs use one engine from one thread.
* Quantizer and Python tools (offline), and vendored ggml, a tensor library of a quarter of
  a million lines that has no state of this program's; it is most of the repository's
  code, which is why the modelled share of all lines stays small however much of the
  engine is modelled.

## 8. Running

    tlc -config StreamingSafety.cfg MCStreaming.tla
    tlc -config StreamingRefines.cfg MCStreaming.tla
    tlc -config EngineSafety.cfg MCEngine.tla
    tlc -config WrapperSafety.cfg MCWrapper.tla
    tlc -config TalkerSafety.cfg MCTalker.tla
    tlc -config LivePlayerSafety.cfg MCLivePlayer.tla
    tlc -config BatchSafety.cfg MCBatchRunner.tla
    tlapm StreamingProofs.tla         # and the seven other modules of section 4
