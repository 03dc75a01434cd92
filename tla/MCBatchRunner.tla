---------------------------- MODULE MCBatchRunner -----------------------------
(***************************************************************************)
(* Inputs of up to four jobs: a job list that goes back to a voice and a   *)
(* text, a product of two texts, two voices and a repeated seed, such a    *)
(* product whose first and last job have the same id, and lists that are   *)
(* refused.  Two frame counts and batch sizes up to three make full        *)
(* batches in the loop, a second batch of one length, and rests of both    *)
(* lengths at the end.                                                     *)
(***************************************************************************)
EXTENDS BatchRunner

Row(id, transcript, voice, seed) ==
  [id |-> <<id>>, transcript |-> transcript, voice_id |-> <<voice>>, voice |-> voice,
   seed |-> seed, valid |-> TRUE]

Named(id, path) == [id |-> id, path |-> path, valid |-> TRUE]

JobList ==
  [kind |-> "jobs",
   rows |-> <<Row("x", "t1", "v1", 1), Row("y", "t1", "v2", 1), Row("z", "t2", "v1", 2),
              Row("w", "t1", "v1", 2)>>]

TwiceTheSameId ==
  [kind |-> "jobs", rows |-> <<Row("x", "t1", "v1", 1), Row("x", "t2", "v1", 1)>>]

Malformed ==
  [kind |-> "jobs", rows |-> <<[Row("x", "t1", "v1", 1) EXCEPT !.valid = FALSE]>>]

Plain ==
  [kind |-> "product",
   transcripts |-> <<Named(<<"a">>, "t1"), Named(<<"b">>, "t2")>>,
   voices |-> <<Named(<<"c">>, "v1"), Named(<<"d">>, "v2")>>,
   seeds |-> <<1, 1>>]

\* "a" with "b__c" and "a__b" with "c".
SameIds ==
  [Plain EXCEPT
     !.transcripts = <<Named(<<"a">>, "t1"), Named(<<"a", "__", "b">>, "t2")>>,
     !.voices = <<Named(<<"b", "__", "c">>, "v1"), Named(<<"c">>, "v2")>>]

NoSeed == [Plain EXCEPT !.seeds = <<>>]

SomeInputs == {JobList, TwiceTheSameId, Malformed, Plain, SameIds, NoSeed}

\* The loop of ParseBatchSeeds, for comparison: append a seed that is not there yet.
AppendIfNew(out, seed) == IF seed \in Range(out) THEN out ELSE Append(out, seed)

\* BatchSeeds is what that loop makes of every list of up to four of three seeds.
ASSUME SeedsAsLoop ==
  \A n \in 0 .. 4 : \A seeds \in [1 .. n -> 1 .. 3] :
    BatchSeeds(seeds) = FoldLeft(AppendIfNew, <<>>, seeds)

UpToThree == 1 .. 3
OneOrTwo == {1, 2}
===============================================================================
