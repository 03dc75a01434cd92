----------------------------- MODULE BatchResults -----------------------------
(***************************************************************************)
(* What a batch leaves in its output directory: one WAV per job, with the  *)
(* job's own text, voice and seed, and an index that lists a job, once,    *)
(* when its WAV is there; all are listed when the batch reports success.   *)
(* A WAV is made before its row and not again after it, so that of jobs    *)
(* with one id the last row names the WAV that is left.  What a run before *)
(* left stays until it is replaced.                                        *)
(***************************************************************************)
EXTENDS Naturals, Sequences, Functions

VARIABLES
  running,  \* the batch works on its jobs
  jobs,     \* its jobs
  wav,      \* what the WAV files hold, by job id
  index,    \* the rows of the index
  ok        \* the last run reported success

vars == <<running, jobs, wav, index, ok>>

\* A WAV that is not completely written.
Incomplete == <<>>

Audio(job) == <<job.transcript, job.voice, job.seed>>

\* The files when one of them was created or replaced.
Put(files, id, content) ==
  [x \in DOMAIN files \cup {id} |-> IF x = id THEN content ELSE files[x]]

\* The work for a job that the index lists is done.
Open(job) == job \notin Range(index)

Init ==
  /\ running = FALSE
  /\ jobs = <<>>
  /\ wav = <<>>
  /\ index = <<>>
  /\ ok = FALSE

\* A run that gets no further than its inputs or its model.
Attempt ==
  /\ ~running
  /\ ok' = FALSE
  /\ UNCHANGED <<running, jobs, wav, index>>

Begin ==
  /\ ~running
  /\ running' = TRUE
  /\ jobs' # <<>>
  /\ index' = <<>>
  /\ UNCHANGED <<wav, ok>>

Save ==
  /\ running
  /\ \E k \in DOMAIN jobs :
       /\ Open(jobs[k])
       /\ wav' = Put(wav, jobs[k].id, Audio(jobs[k]))
  /\ UNCHANGED <<running, jobs, index, ok>>

List ==
  /\ running
  /\ \E k \in DOMAIN jobs :
       /\ Open(jobs[k])
       /\ jobs[k].id \in DOMAIN wav /\ wav[jobs[k].id] = Audio(jobs[k])
       /\ index' = Append(index, jobs[k])
  /\ UNCHANGED <<running, jobs, wav, ok>>

Finish ==
  /\ running
  /\ Range(index) = Range(jobs)
  /\ running' = FALSE
  /\ jobs' = <<>>
  /\ ok' = TRUE
  /\ UNCHANGED <<wav, index>>

\* It fails or is killed: the last rows may be lost, and a file be incomplete.
Break ==
  /\ running
  /\ running' = FALSE
  /\ jobs' = <<>>
  /\ \E n \in 0 .. Len(index) : index' = SubSeq(index, 1, n)
  /\ \/ UNCHANGED wav
     \/ \E k \in DOMAIN jobs :
          /\ Open(jobs[k])
          /\ wav' = Put(wav, jobs[k].id, Incomplete)
  /\ UNCHANGED ok

Next == Attempt \/ Begin \/ Save \/ List \/ Finish \/ Break

Safety == Init /\ [][Next]_vars

\* A run comes to an end.
Spec == Safety /\ WF_vars(Save \/ List \/ Finish \/ Break)
===============================================================================
