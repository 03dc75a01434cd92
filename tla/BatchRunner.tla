----------------------------- MODULE BatchRunner ------------------------------
(***************************************************************************)
(* The batch mode of the streaming CLI: it reads its job list or expands   *)
(* lists of transcripts, voices and seeds, then makes one WAV per job and  *)
(* a row of batch_results.tsv for it, either one by one or, with a vocoder *)
(* batch size above one, decoding codes of equal frame count together.     *)
(*                                                                         *)
(* A path stands for the file it names and for its contents.  A WAV is the *)
(* text, voice and seed it was made from.  The calls into the integration  *)
(* wrapper may fail; the process may be killed between any two steps, and  *)
(* then the rows that the index stream still buffers may be lost.          *)
(***************************************************************************)
EXTENDS Naturals, Sequences, FiniteSets, FiniteSetsExt, SequencesExt

CONSTANTS
  Inputs,       \* batch inputs
  BatchSizes,   \* values of --vocoder-batch-size
  FrameCounts,  \* frames an utterance may have
  MaxRuns       \* at most so many runs in one output directory

NoPath == "no path"

\* A WAV that is not completely written.
Incomplete == <<>>

VARIABLES
  pc,
  runs,
  input,
  batch_size,
  jobs,               \* batch_jobs
  at,                 \* the job of the loop
  speaker,            \* the embedding the wrapper holds
  loaded_voice_path,
  batch_text,
  loaded_transcript_path,
  voice_loads,        \* how often an embedding was loaded
  pending_by_frames,  \* codes that wait for the vocoder
  group,              \* the frame count that is flushed
  decoded,            \* audio_batches
  saved,              \* how many of the group are saved
  wav,                \* the WAV files, by job id
  index,              \* the rows written to the index
  on_disk,            \* how many of them are flushed
  index_jobs,         \* history, for the properties: the jobs of the run they are of
  fault,              \* a call of this run failed
  exit

source  == <<runs, input, batch_size, jobs>>
loaded  == <<speaker, loaded_voice_path, batch_text, loaded_transcript_path,
             voice_loads>>
flushes == <<group, decoded, saved>>
results == <<wav, index, on_disk, index_jobs>>
outcome == <<fault, exit>>

vars == <<pc, source, at, loaded, pending_by_frames, flushes, results, outcome>>

-------------------------------------------------------------------------------
(* The inputs.                                                               *)

\* A list is read if its rows are well formed and their ids distinct.
Readable(rows) ==
  /\ rows # <<>>
  /\ \A i \in DOMAIN rows : rows[i].valid
  /\ \A i, k \in DOMAIN rows : rows[i].id = rows[k].id => i = k

\* Where a seed comes for the first time.
FirstAt(seeds) == { i \in DOMAIN seeds : \A k \in 1 .. i - 1 : seeds[k] # seeds[i] }

\* Each seed once: the n-th is the one with n first places up to its own.
BatchSeeds(seeds) ==
  [n \in 1 .. Cardinality(FirstAt(seeds)) |->
     seeds[CHOOSE i \in FirstAt(seeds) : Cardinality(FirstAt(seeds) \cap (1 .. i)) = n]]

Accepted(in) ==
  \/ in.kind = "jobs" /\ Readable(in.rows)
  \/ in.kind = "product" /\ Readable(in.transcripts) /\ Readable(in.voices)
                         /\ in.seeds # <<>>

\* An id is a sequence of words.  Ids of a product may run together ("a" and "b__c",
\* "a__b" and "c"): nothing compares them, and the jobs then write the same file.
JobId(transcript, voice, seed) ==
  transcript.id \o <<"__">> \o voice.id \o <<"__seed_", seed>>

ProductJob(transcript, voice, seed) ==
  [id |-> JobId(transcript, voice, seed),
   transcript_id |-> transcript.id, transcript |-> transcript.path,
   voice_id |-> voice.id, voice |-> voice.path, seed |-> seed]

\* Mutant: with the transcripts outermost.
ProductByText(in) ==
  LET seeds == BatchSeeds(in.seeds)
      n == Len(seeds)
  IN [k \in 1 .. n * Len(in.voices) * Len(in.transcripts) |->
        ProductJob(in.transcripts[((k - 1) \div n) \div Len(in.voices) + 1],
                   in.voices[(((k - 1) \div n) % Len(in.voices)) + 1],
                   seeds[((k - 1) % n) + 1])]

\* The innermost loop is over the seeds, the outermost over the voices.
Product(in) ==
  LET seeds == BatchSeeds(in.seeds)
      n == Len(seeds)
  IN [k \in 1 .. n * Len(in.transcripts) * Len(in.voices) |->
        ProductJob(in.transcripts[(((k - 1) \div n) % Len(in.transcripts)) + 1],
                   in.voices[((k - 1) \div n) \div Len(in.transcripts) + 1],
                   seeds[((k - 1) % n) + 1])]

ListedJob(row) ==
  [id |-> row.id, transcript_id |-> row.id, transcript |-> row.transcript,
   voice_id |-> row.voice_id, voice |-> row.voice, seed |-> row.seed]

Jobs(in) ==
  IF in.kind = "jobs" THEN [k \in DOMAIN in.rows |-> ListedJob(in.rows[k])]
                      ELSE Product(in)

\* Every job that some input asks for.
AnyJob == UNION { Range(Jobs(in)) : in \in { x \in Inputs : Accepted(x) } }

\* The rows of a list, and the names in them.
IsList(rows) == rows \in Seq(Range(rows))

ASSUME BatchAssumption ==
  /\ \A in \in Inputs :
       /\ in.kind = "jobs" => IsList(in.rows)
       /\ in.kind = "product" =>
            IsList(in.transcripts) /\ IsList(in.voices) /\ IsList(in.seeds)
  /\ BatchSizes \subseteq Nat \ {0}
  /\ FrameCounts \subseteq Nat
  /\ MaxRuns \in Nat

-------------------------------------------------------------------------------
\* The files when one of them was created or replaced.
Put(files, id, content) ==
  [x \in DOMAIN files \cup {id} |-> IF x = id THEN content ELSE files[x]]

Init ==
  /\ pc = "start"
  /\ runs = 0 /\ input = [kind |-> "none"] /\ batch_size = 1 /\ jobs = <<>>
  /\ at = 1
  /\ speaker = NoPath /\ loaded_voice_path = NoPath
  /\ batch_text = NoPath /\ loaded_transcript_path = NoPath /\ voice_loads = 0
  /\ pending_by_frames = [n \in FrameCounts |-> <<>>]
  /\ group = 0 /\ decoded = <<>> /\ saved = 0
  /\ wav = <<>> /\ index = <<>> /\ on_disk = 0 /\ index_jobs = <<>>
  /\ fault = FALSE /\ exit = "none"

Batched == batch_size > 1

job == jobs[at]

\* main returns, and the index stream is flushed when it is destroyed.
Return(code) ==
  /\ pc' = "start"
  /\ exit' = code
  /\ on_disk' = Len(index)

\* A call fails, and the batch with it.
Fails ==
  /\ fault' = TRUE
  /\ Return("failed")
  /\ UNCHANGED <<source, at, loaded, pending_by_frames, flushes, wav, index,
                 index_jobs>>

Start ==
  /\ pc = "start"
  /\ runs < MaxRuns
  /\ runs' = runs + 1
  /\ \E in \in Inputs, size \in BatchSizes :
       /\ input' = in
       /\ batch_size' = size
       /\ IF Accepted(in)
          THEN jobs' = Jobs(in) /\ pc' = "load" /\ exit' = "none"
          ELSE jobs' = <<>> /\ pc' = "start" /\ exit' = "refused"
  /\ at' = 1
  /\ speaker' = NoPath /\ loaded_voice_path' = NoPath
  /\ batch_text' = NoPath /\ loaded_transcript_path' = NoPath /\ voice_loads' = 0
  /\ pending_by_frames' = [n \in FrameCounts |-> <<>>]
  /\ group' = 0 /\ decoded' = <<>> /\ saved' = 0
  /\ fault' = FALSE
  /\ UNCHANGED results

\* The model is loaded, the directory made and the index of an earlier run emptied.
SetUp ==
  /\ pc = "load"
  /\ \/ Fails
     \/ /\ index' = <<>> /\ on_disk' = 0 /\ index_jobs' = jobs
        /\ pc' = "next"
        /\ UNCHANGED <<source, at, loaded, pending_by_frames, flushes, wav, outcome>>

-------------------------------------------------------------------------------
(* The loop over the jobs.                                                   *)

\* Mutant: only for the first job.
NeedsFirstVoice == loaded_voice_path = NoPath

NeedsVoice == job.voice # loaded_voice_path

TakeVoice ==
  /\ pc = "next"
  /\ at <= Len(jobs)
  /\ \/ /\ ~NeedsVoice
        /\ pc' = "text"
        /\ UNCHANGED <<source, at, loaded, pending_by_frames, flushes, results, outcome>>
     \/ NeedsVoice /\ Fails
     \/ /\ NeedsVoice
        /\ speaker' = job.voice
        /\ loaded_voice_path' = job.voice
        /\ voice_loads' = voice_loads + 1
        /\ pc' = "text"
        /\ UNCHANGED <<source, at, batch_text, loaded_transcript_path,
                       pending_by_frames, flushes, results, outcome>>

NeedsText == job.transcript # loaded_transcript_path

TakeText ==
  /\ pc = "text"
  /\ \/ /\ ~NeedsText
        /\ pc' = "make"
        /\ UNCHANGED <<source, at, loaded, pending_by_frames, flushes, results, outcome>>
     \/ NeedsText /\ Fails
     \/ /\ NeedsText
        /\ batch_text' = job.transcript
        /\ loaded_transcript_path' = job.transcript
        /\ pc' = "make"
        /\ UNCHANGED <<source, at, speaker, loaded_voice_path, voice_loads,
                       pending_by_frames, flushes, results, outcome>>

\* What the wrapper makes of a job.
Speech == <<batch_text, speaker, job.seed>>

\* One after the other: the wrapper also writes the WAV.
Synthesize ==
  /\ pc = "make" /\ ~Batched
  /\ \/ Fails
     \/ /\ wav' = Put(wav, job.id, Speech)
        /\ pc' = "list"
        /\ UNCHANGED <<source, at, loaded, pending_by_frames, flushes, index, on_disk,
                       index_jobs, outcome>>

\* Mutant: the stream is left to flush itself.
UnflushedRows(rows) == on_disk

\* How many rows are on disk after a flush.
FlushedRows(rows) == Len(rows)

ListOne ==
  /\ pc = "list" /\ ~Batched
  /\ index' = Append(index, job)
  /\ on_disk' = FlushedRows(index')
  /\ at' = at + 1
  /\ pc' = "next"
  /\ UNCHANGED <<source, loaded, pending_by_frames, flushes, wav, index_jobs, outcome>>

FinishOneByOne ==
  /\ pc = "next" /\ ~Batched
  /\ at > Len(jobs)
  /\ Return("ok")
  /\ UNCHANGED <<source, at, loaded, pending_by_frames, flushes, wav, index,
                 index_jobs, fault>>

-------------------------------------------------------------------------------
(* Codes now, vocoder later.                                                 *)

\* Mutant: all utterances together.
OneBucket(frames) == CHOOSE n \in FrameCounts : TRUE

Bucket(frames) == frames

\* Mutant: one too late.
IsOverfull(bucket) == Len(bucket) > batch_size

IsFull(bucket) == Len(bucket) >= batch_size

GenerateCodes ==
  /\ pc = "make" /\ Batched
  /\ \/ Fails
     \/ \E frames \in FrameCounts :
          LET key == Bucket(frames)
              bucket == Append(pending_by_frames[key],
                               [job |-> job, codes |-> Speech, frames |-> frames])
          IN
          /\ pending_by_frames' = [pending_by_frames EXCEPT ![key] = bucket]
          /\ IF IsFull(bucket) THEN group' = key /\ pc' = "decode"
                               ELSE group' = group /\ pc' = "next"
          /\ at' = at + 1
          /\ UNCHANGED <<source, loaded, decoded, saved, results, outcome>>

pending == pending_by_frames[group]

Count == Min({Len(pending), batch_size})

SameLength == \A i \in 1 .. Count : pending[i].frames = pending[1].frames

\* flush, the decode.  The engine refuses codes of different lengths: then it is not
\* the call that is at fault.
Decode ==
  /\ pc = "decode"
  /\ \/ /\ fault' = SameLength
        /\ Return("failed")
        /\ UNCHANGED <<source, at, loaded, pending_by_frames, flushes, wav, index,
                 index_jobs>>
     \/ /\ SameLength
        /\ decoded' = [i \in 1 .. Count |-> pending[i].codes]
        /\ saved' = 0
        /\ pc' = "save"
        /\ UNCHANGED <<source, at, loaded, pending_by_frames, group, results, outcome>>

\* Mutant: the first of the group.
FirstAudio(i) == decoded[1]

SavedAudio(i) == decoded[i]

Save ==
  /\ pc = "save"
  /\ saved < Count
  /\ \/ Fails
     \/ /\ wav' = Put(wav, pending[saved + 1].job.id, SavedAudio(saved + 1))
        /\ saved' = saved + 1
        /\ pc' = "list"
        /\ UNCHANGED <<source, at, loaded, pending_by_frames, group, decoded, index,
                       on_disk, index_jobs, outcome>>

List ==
  /\ pc = "list" /\ Batched
  /\ index' = Append(index, pending[saved].job)
  /\ pc' = "save"
  /\ UNCHANGED <<source, at, loaded, pending_by_frames, flushes, wav, on_disk,
                 index_jobs, outcome>>

\* flush, its end.
Flushed ==
  /\ pc = "save"
  /\ saved = Count
  /\ on_disk' = FlushedRows(index)
  /\ pending_by_frames' = [pending_by_frames EXCEPT ![group] = SubSeq(@, Count + 1, Len(@))]
  /\ decoded' = <<>> /\ saved' = 0
  /\ pc' = "next"
  /\ UNCHANGED <<source, at, loaded, group, wav, index, index_jobs, outcome>>

Waiting == { n \in FrameCounts : pending_by_frames[n] # <<>> }

\* What is left when all codes are made, by frame count.
FlushRest ==
  /\ pc = "next" /\ Batched
  /\ at > Len(jobs)
  /\ Waiting # {}
  /\ group' = Min(Waiting)
  /\ pc' = "decode"
  /\ UNCHANGED <<source, at, loaded, pending_by_frames, decoded, saved, results, outcome>>

FinishBatched ==
  /\ pc = "next" /\ Batched
  /\ at > Len(jobs)
  /\ Waiting = {}
  /\ Return("ok")
  /\ UNCHANGED <<source, at, loaded, pending_by_frames, flushes, wav, index,
                 index_jobs, fault>>

-------------------------------------------------------------------------------
\* The job whose WAV is being written.
Writes == IF Batched THEN pending[saved + 1].job ELSE job

Writing == IF Batched THEN pc = "save" /\ saved < Count ELSE pc = "make"

Kill ==
  /\ pc # "start"
  /\ pc' = "start"
  /\ exit' = "killed"
  /\ \E n \in on_disk .. Len(index) : index' = SubSeq(index, 1, n) /\ on_disk' = n
  /\ \/ UNCHANGED wav
     \/ Writing /\ wav' = Put(wav, Writes.id, Incomplete)
  /\ UNCHANGED <<source, at, loaded, pending_by_frames, flushes, index_jobs, fault>>

Step ==
  \/ SetUp \/ TakeVoice \/ TakeText
  \/ Synthesize \/ ListOne \/ FinishOneByOne
  \/ GenerateCodes \/ Decode \/ Save \/ List \/ Flushed \/ FlushRest \/ FinishBatched

Next == Start \/ Step \/ Kill

Spec == Init /\ [][Next]_vars

\* A run that is not killed goes on.
FairSpec == Spec /\ WF_vars(Step)

-------------------------------------------------------------------------------
(* Properties.                                                               *)

Paths == { NoPath } \cup { jobs[i].voice : i \in DOMAIN jobs }
                    \cup { jobs[i].transcript : i \in DOMAIN jobs }

\* Types, and a bucket never holds more than one physical batch.
TypeOK ==
  /\ pc \in {"start", "load", "next", "text", "make", "decode", "save", "list"}
  /\ runs \in 0 .. MaxRuns
  /\ batch_size \in BatchSizes \cup {1}
  /\ at \in 1 .. Len(jobs) + 1
  /\ {speaker, loaded_voice_path, batch_text, loaded_transcript_path} \subseteq Paths
  /\ \A n \in FrameCounts : Len(pending_by_frames[n]) <= batch_size
  /\ on_disk \in 0 .. Len(index)
  /\ saved \in 0 .. Len(decoded)
  /\ fault \in BOOLEAN
  /\ exit \in {"none", "ok", "refused", "failed", "killed"}

\* Batch results, as an abstract specification.
Working == pc \notin {"start", "load"}

Promise == INSTANCE BatchResults
  WITH running <- Working, jobs <- IF Working THEN jobs ELSE <<>>, ok <- exit = "ok"

\* Every job gets the WAV of its own text, voice and seed, the index lists it only
\* then, a listed job's WAV is replaced only by that of a job with the same id, success
\* means that all are listed, and a run ends; in both modes, and over whatever earlier
\* runs left.
BatchSpec == Promise!Spec

\* A row that no later row has the id of.
IsLast(i) == \A k \in DOMAIN index : index[k].id = index[i].id => k <= i

\* A row of the index, as a killed run leaves it too, is of a job of the run and names
\* a WAV.  The last row with an id names its own job's, complete, unless a job of the
\* run has the same id and is not listed: then the WAV may be that one's, or the part
\* of it that a kill left.  Where ids differ, each row so names its own job's WAV.
IndexNamesFiles ==
  \A i \in DOMAIN index :
    LET id == index[i].id IN
    /\ index[i] \in Range(index_jobs)
    /\ id \in DOMAIN wav
    /\ IsLast(i) =>
         \/ wav[id] = Promise!Audio(index[i])
         \/ \E j \in Range(index_jobs) \ Range(index) :
              j.id = id /\ wav[id] \in {Promise!Audio(j), Incomplete}

\* Killed at any time, a run loses at most the rows of one physical batch: every
\* other WAV it has written is listed on disk.
LossIsBounded ==
  pc # "start" =>
    Len(index) - on_disk + (IF pc = "list" THEN 1 ELSE 0) <= batch_size

\* A product loads each voice once.
VoiceLoadedOnce ==
  input.kind = "product" => voice_loads <= Len(input.voices)

\* A batch fails only when a call that does its own work fails: what it decodes
\* together has equal frame counts, so the vocoder never refuses it.
FailsOnlyOnFaults == exit = "failed" => fault
===============================================================================
