----------------------------- MODULE BatchProofs ------------------------------
(***************************************************************************)
(* The batch runner's invariants and what it promises, for every set of    *)
(* inputs, batch sizes and frame counts and any number of runs.            *)
(***************************************************************************)
EXTENDS BatchRunner, SequenceTheorems, FunctionTheorems, FiniteSetTheorems, Descent

USE BatchAssumption

-------------------------------------------------------------------------------
(* The inductive invariant.                                                  *)

Audio(j) == Promise!Audio(j)

\* Codes that wait for the vocoder.
Entry == [job : AnyJob, codes : { Audio(j) : j \in AnyJob }, frames : FrameCounts]

\* How many of the group's WAVs are listed, while it is flushed.
Listed ==
  IF Batched /\ pc = "save" THEN saved
  ELSE IF Batched /\ pc = "list" THEN saved - 1
  ELSE 0

\* The positions of a bucket whose jobs are not listed yet.
Waits ==
  [n \in FrameCounts |->
     (IF n = group THEN Listed ELSE 0) + 1 .. Len(pending_by_frames[n])]

Shapes ==
  /\ pc \in {"start", "load", "next", "text", "make", "decode", "save", "list"}
  /\ runs \in 0 .. MaxRuns
  /\ batch_size \in Nat \ {0}
  /\ jobs \in Seq(AnyJob)
  /\ at \in 1 .. Len(jobs) + 1
  /\ pending_by_frames \in [FrameCounts -> Seq(Entry)]
  /\ saved \in Nat
  /\ index \in Seq(AnyJob)
  /\ on_disk \in Nat
  /\ fault \in BOOLEAN

\* A run works on different jobs, also where their ids are the same; where it is, there
\* is a job.
JobsInv ==
  /\ \A i, k \in DOMAIN jobs : jobs[i] = jobs[k] => i = k
  /\ pc # "start" => jobs # <<>>
  /\ pc \in {"text", "make"} => at <= Len(jobs)
  /\ pc = "list" /\ ~Batched => at <= Len(jobs)
  /\ pc \in {"decode", "save"} => Batched
  /\ pc = "load" => at = 1 /\ \A n \in FrameCounts : pending_by_frames[n] = <<>>

\* The wrapper holds the voice and the text that the runner remembers, and a job is
\* made with its own.
VoiceInv ==
  /\ speaker = loaded_voice_path
  /\ batch_text = loaded_transcript_path
  /\ speaker \in Paths /\ batch_text \in Paths
  /\ pc \in {"text", "make"} => speaker = job.voice
  /\ pc = "make" => batch_text = job.transcript

\* What waits in a bucket is the job's own, of the bucket's length, and less than a
\* physical batch unless the bucket is being flushed.
BucketInv ==
  /\ \A n \in FrameCounts :
       /\ Len(pending_by_frames[n]) <= batch_size
       /\ \A i \in DOMAIN pending_by_frames[n] :
            /\ pending_by_frames[n][i].frames = n
            /\ pending_by_frames[n][i].codes = Audio(pending_by_frames[n][i].job)
       /\ Batched /\ pc \in {"load", "next", "text", "make"} =>
            Len(pending_by_frames[n]) < batch_size
       /\ Batched /\ pc \in {"decode", "save", "list"} /\ n # group =>
            Len(pending_by_frames[n]) < batch_size
  /\ Batched /\ pc \in {"decode", "save", "list"} => group \in FrameCounts /\ pending # <<>>

\* A flush saves what it decoded, in order.
FlushInv ==
  /\ decoded = <<>> \/ decoded \in Seq({ Audio(j) : j \in AnyJob })
  /\ saved <= Len(decoded)
  /\ Batched /\ pc \in {"save", "list"} =>
       /\ Len(decoded) = Count
       /\ \A i \in 1 .. Count : decoded[i] = pending[i].codes
  /\ Batched /\ pc = "list" =>
       /\ saved > 0
       /\ pending[saved].job.id \in DOMAIN wav
       /\ wav[pending[saved].job.id] = Audio(pending[saved].job)
  /\ ~Batched /\ pc = "list" => job.id \in DOMAIN wav /\ wav[job.id] = Audio(job)

\* One by one, the index is the list of the jobs done.
SequentialInv ==
  Working /\ ~Batched =>
    /\ Len(index) = at - 1
    /\ \A k \in 1 .. at - 1 : index[k] = jobs[k]

\* Batched, a job whose codes are made waits at one place or is listed, not both.
RowsAreMade == \A k \in DOMAIN index : \E l \in 1 .. at - 1 : index[k] = jobs[l]

WaitingAreMade ==
  \A n \in FrameCounts : \A i \in Waits[n] :
    \E l \in 1 .. at - 1 : pending_by_frames[n][i].job = jobs[l]

PlacesDiffer ==
  \A n, m \in FrameCounts : \A i \in Waits[n], k \in Waits[m] :
    pending_by_frames[n][i].job = pending_by_frames[m][k].job => n = m /\ i = k

RowsDoNotWait ==
  \A n \in FrameCounts : \A i \in Waits[n], k \in DOMAIN index :
    index[k] # pending_by_frames[n][i].job

NothingIsLost ==
  \A l \in 1 .. at - 1 :
    \/ \E k \in DOMAIN index : index[k] = jobs[l]
    \/ \E n \in FrameCounts : \E i \in Waits[n] : pending_by_frames[n][i].job = jobs[l]

BatchedInv ==
  Working /\ Batched =>
    RowsAreMade /\ WaitingAreMade /\ PlacesDiffer /\ RowsDoNotWait /\ NothingIsLost

DiskInv == on_disk + Listed = Len(index)

\* No job is listed twice.
RowsDiffer == \A i, k \in DOMAIN index : index[i] = index[k] => i = k

\* A run at work writes the index of its own jobs.
RowsInv == RowsDiffer /\ (Working => index_jobs = jobs)

IInv ==
  /\ Shapes /\ JobsInv /\ VoiceInv /\ BucketInv /\ FlushInv
  /\ SequentialInv /\ BatchedInv /\ DiskInv /\ RowsInv
  /\ IndexNamesFiles /\ FailsOnlyOnFaults

-------------------------------------------------------------------------------
(* Helpers.                                                                  *)

LEMMA MinOfTwo ==
  ASSUME NEW a \in Nat, NEW b \in Nat, a <= b
  PROVE  Min({a, b}) = a
BY DEF Min

\* A set of numbers has a smallest one.
LEMMA LeastExists ==
  ASSUME NEW S, S \subseteq Nat, S # {}
  PROVE  \E x \in S : \A y \in S : x <= y
<1>1. PICK x \in S : \A y \in S : ~(<<y, x>> \in OpToRel(<, Nat))
  BY NatLessThanWellFounded, WFMin, Zenon
<1>2. \A y \in S : ~(y < x)
  BY <1>1 DEF OpToRel
<1>3. \A y \in S : x <= y
  BY <1>2
<1>4. QED
  BY <1>3

LEMMA MinIsMember ==
  ASSUME NEW S, S \subseteq Nat, S # {}
  PROVE  Min(S) \in S
BY LeastExists DEF Min

LEMMA PromisePut ==
  ASSUME NEW f, NEW x, NEW y
  PROVE  Promise!Put(f, x, y) = Put(f, x, y)
BY DEF Promise!Put, Put

-------------------------------------------------------------------------------
(* The jobs of an input: seeds once, and a product with a job for each of them. *)

LEMMA Division ==
  ASSUME NEW n \in Nat \ {0}, NEW a \in Nat
  PROVE  /\ a \div n \in Nat /\ a % n \in 0 .. n - 1
         /\ a = n * (a \div n) + (a % n)
<1>1. a % n \in 0 .. n - 1
  OBVIOUS
<1>2. a \div n \in Int /\ a \div n >= 0
  OBVIOUS
<1>3. a = n * (a \div n) + (a % n)
  OBVIOUS
<1>4. QED
  BY <1>1, <1>2, <1>3

LEMMA QuotientBelow ==
  ASSUME NEW n \in Nat \ {0}, NEW m \in Nat, NEW a \in Nat, a < n * m
  PROVE  a \div n < m
<1>1. a \div n \in Nat /\ n * (a \div n) <= a
  BY Division
<1>2. ASSUME a \div n >= m PROVE FALSE
  BY <1>1, <1>2
<1>3. QED
  BY <1>1, <1>2

LEMMA NextQuotient ==
  ASSUME NEW n \in Nat \ {0}, NEW a \in Nat
  PROVE  (a + 1) \div n \in {a \div n, a \div n + 1}
<1> DEFINE p == a \div n
           q == (a + 1) \div n
<1>1. p \in Nat /\ a % n \in 0 .. n - 1 /\ a = n * p + (a % n)
  BY Division
<1>2. q \in Nat /\ (a + 1) % n \in 0 .. n - 1 /\ a + 1 = n * q + ((a + 1) % n)
  <2>1. a + 1 \in Nat
    OBVIOUS
  <2>2. QED
    BY <2>1, Division
<1>3. n * p <= a /\ a < n * p + n /\ n * q <= a + 1 /\ a + 1 < n * q + n
  BY <1>1, <1>2
<1> HIDE DEF p, q
<1>4. n * p <= n * q + n - 2 /\ n * q <= n * p + n
  BY <1>1, <1>2, <1>3
<1>5. p <= q
  <2>1. ASSUME q <= p - 1 PROVE FALSE
    <3>1. n * q <= n * (p - 1)
      BY <1>1, <1>2, <2>1
    <3>2. n * (p - 1) = n * p - n
      BY <1>1
    <3>3. QED
      BY <1>1, <1>2, <1>4, <3>1, <3>2
  <2>2. QED
    BY <1>1, <1>2, <2>1
<1>6. q <= p + 1
  <2>1. ASSUME p + 2 <= q PROVE FALSE
    <3>1. n * (p + 2) <= n * q
      BY <1>1, <1>2, <2>1
    <3>2. n * (p + 2) = n * p + n + n
      BY <1>1
    <3>3. QED
      BY <1>1, <1>2, <1>4, <3>1, <3>2
  <2>2. QED
    BY <1>1, <1>2, <2>1
<1>7. QED
  BY <1>1, <1>2, <1>5, <1>6 DEF p, q

LEMMA FirstsExist ==
  ASSUME NEW S, NEW seeds \in Seq(S), seeds # <<>>
  PROVE  /\ FirstAt(seeds) \subseteq 1 .. Len(seeds)
         /\ IsFiniteSet(FirstAt(seeds))
         /\ Cardinality(FirstAt(seeds)) \in Nat \ {0}
<1>1. Len(seeds) \in Nat \ {0} /\ DOMAIN seeds = 1 .. Len(seeds)
  BY EmptySeq, LenProperties
<1>2. FirstAt(seeds) \subseteq 1 .. Len(seeds)
  BY <1>1 DEF FirstAt
<1>3. 1 \in FirstAt(seeds)
  BY <1>1 DEF FirstAt
<1>4. IsFiniteSet(1 .. Len(seeds))
  BY <1>1, FS_Interval
<1>5. IsFiniteSet(FirstAt(seeds))
  BY <1>2, <1>4, FS_Subset
<1>6. Cardinality(FirstAt(seeds)) \in Nat \ {0}
  BY <1>3, <1>5, FS_CardinalityType, FS_EmptySet
<1>7. QED
  BY <1>2, <1>5, <1>6

LEMMA NthFirst ==
  ASSUME NEW S, NEW seeds \in Seq(S), seeds # <<>>,
         NEW n \in 1 .. Cardinality(FirstAt(seeds))
  PROVE  \E i \in FirstAt(seeds) : Cardinality(FirstAt(seeds) \cap (1 .. i)) = n
<1> DEFINE F == FirstAt(seeds)
           upto(i) == F \cap (1 .. i)
           count(i) == Cardinality(upto(i))
<1>1. F \subseteq 1 .. Len(seeds) /\ IsFiniteSet(F) /\ Cardinality(F) \in Nat
      /\ Len(seeds) \in Nat /\ n \in Nat \ {0} /\ n <= Cardinality(F)
  BY FirstsExist, LenProperties
<1>2. \A i \in Nat : IsFiniteSet(upto(i)) /\ count(i) \in Nat
  <2>1. \A i \in Nat : upto(i) \subseteq F
    OBVIOUS
  <2>2. QED
    BY <1>1, <2>1, FS_Subset, FS_CardinalityType
<1>3. count(0) = 0
  <2>1. upto(0) = {}
    OBVIOUS
  <2>2. QED
    BY <2>1, FS_EmptySet
<1>4. count(Len(seeds)) = Cardinality(F)
  <2>1. upto(Len(seeds)) = F
    BY <1>1
  <2>2. QED
    BY <2>1
<1>5. \A i \in Nat : \/ i + 1 \in F /\ count(i + 1) = count(i) + 1
                     \/ count(i + 1) = count(i)
  <2> TAKE i \in Nat
  <2>1. CASE i + 1 \in F
    <3>1. upto(i + 1) = upto(i) \cup {i + 1} /\ i + 1 \notin upto(i)
      BY <2>1
    <3>2. QED
      BY <1>2, <2>1, <3>1, FS_AddElement
  <2>2. CASE i + 1 \notin F
    <3>1. upto(i + 1) = upto(i)
      BY <2>2
    <3>2. QED
      BY <3>1
  <2>3. QED
    BY <2>1, <2>2
<1> HIDE DEF count
<1> DEFINE T == { i \in Nat : count(i) >= n }
<1>6. PICK i \in T : \A k \in T : i <= k
  <2>1. Len(seeds) \in T
    BY <1>1, <1>4
  <2>2. QED
    BY <2>1, LeastExists
<1>7. i - 1 \in Nat /\ i - 1 + 1 = i
  BY <1>1, <1>3, <1>6
<1> DEFINE h == i - 1
<1>8. h \in Nat /\ i = h + 1
  BY <1>7
<1> HIDE DEF h
<1>9. count(i) \in Nat /\ count(h) \in Nat
  BY <1>2, <1>6, <1>8
<1>10. count(i) >= n
  BY <1>6
<1>11. ~(count(h) >= n)
  <2>1. h \notin T
    BY <1>6, <1>8
  <2>2. QED
    BY <1>8, <2>1
<1>12. i \in F /\ count(i) = n
  <2>1. \/ i \in F /\ count(i) = count(h) + 1
        \/ count(i) = count(h)
    BY <1>5, <1>8
  <2>2. QED
    BY <1>1, <1>9, <1>10, <1>11, <2>1
<1>13. QED
  BY <1>12 DEF count

LEMMA SeedsAreDistinct ==
  ASSUME NEW seeds, seeds \in Seq(Range(seeds)), seeds # <<>>
  PROVE  /\ Len(BatchSeeds(seeds)) \in Nat \ {0}
         /\ \A n \in 1 .. Len(BatchSeeds(seeds)) : BatchSeeds(seeds)[n] \in Range(seeds)
         /\ \A n, m \in 1 .. Len(BatchSeeds(seeds)) :
              BatchSeeds(seeds)[n] = BatchSeeds(seeds)[m] => n = m
<1> DEFINE F == FirstAt(seeds)
           at_(n) == CHOOSE i \in F : Cardinality(F \cap (1 .. i)) = n
           N == Cardinality(F)
<1>1. N \in Nat \ {0} /\ F \subseteq 1 .. Len(seeds)
  BY FirstsExist
<1>2. \A n \in 1 .. N : at_(n) \in F /\ Cardinality(F \cap (1 .. at_(n))) = n
  BY NthFirst
<1>3. BatchSeeds(seeds) = [n \in 1 .. N |-> seeds[at_(n)]]
  BY DEF BatchSeeds
<1>4. DOMAIN seeds = 1 .. Len(seeds) /\ Len(seeds) \in Nat
  BY LenProperties
<1> HIDE DEF at_, N
<1>5. Len(BatchSeeds(seeds)) = N
  BY <1>1, <1>3
<1>6. \A i \in F : seeds[i] \in Range(seeds)
  BY <1>1, <1>4 DEF Range
<1>7. \A i, k \in F : seeds[i] = seeds[k] => i = k
  <2>1. \A i, k \in F : i < k => seeds[i] # seeds[k]
    BY <1>1, <1>4 DEF FirstAt
  <2>2. QED
    BY <1>1, <1>4, <2>1
<1>8. \A n \in 1 .. N : BatchSeeds(seeds)[n] = seeds[at_(n)]
  BY <1>3
<1>9. \A n \in 1 .. N : BatchSeeds(seeds)[n] \in Range(seeds)
  BY <1>2, <1>6, <1>8
<1>10. \A n, m \in 1 .. N : BatchSeeds(seeds)[n] = BatchSeeds(seeds)[m] => n = m
  <2> SUFFICES ASSUME NEW n \in 1 .. N, NEW m \in 1 .. N,
                      BatchSeeds(seeds)[n] = BatchSeeds(seeds)[m]
               PROVE  n = m
    OBVIOUS
  <2>1. seeds[at_(n)] = seeds[at_(m)]
    BY <1>8
  <2>2. at_(n) = at_(m)
    BY <1>2, <1>7, <2>1
  <2>3. QED
    BY <1>2, <2>2
<1>11. QED
  BY <1>1, <1>5, <1>9, <1>10

\* Where the three lists stand at the k-th job of a product.
SeedPlace(n, k) == ((k - 1) % n) + 1
TextPlace(n, t, k) == (((k - 1) \div n) % t) + 1
VoicePlace(n, t, k) == ((k - 1) \div n) \div t + 1

\* The job of a seed, a transcript and a voice.
PlaceOf(n, t, seed, text, voice) == n * (t * (voice - 1) + text - 1) + seed

LEMMA PlaceOfPlaces ==
  ASSUME NEW n \in Nat \ {0}, NEW t \in Nat \ {0}, NEW k \in Nat \ {0}
  PROVE  k = PlaceOf(n, t, SeedPlace(n, k), TextPlace(n, t, k), VoicePlace(n, t, k))
<1> DEFINE a == k - 1
           b == a \div n
           c == b \div t
<1>1. a \in Nat /\ k = a + 1
  OBVIOUS
<1> HIDE DEF a
<1>2. b \in Nat /\ a % n \in 0 .. n - 1 /\ a = n * b + (a % n)
  BY <1>1, Division
<1> HIDE DEF b
<1>3. c \in Nat /\ b % t \in 0 .. t - 1 /\ b = t * c + (b % t)
  BY <1>2, Division
<1> HIDE DEF c
<1>4. /\ SeedPlace(n, k) = (a % n) + 1
      /\ TextPlace(n, t, k) = (b % t) + 1
      /\ VoicePlace(n, t, k) = c + 1
  BY DEF SeedPlace, TextPlace, VoicePlace, a, b, c
<1>5. a % n \in Int /\ b % t \in Int
  BY <1>2, <1>3
<1>6. VoicePlace(n, t, k) - 1 = c
  BY <1>3, <1>4
<1>7. t * (VoicePlace(n, t, k) - 1) + TextPlace(n, t, k) - 1 = b
  <2>1. t * (VoicePlace(n, t, k) - 1) = t * c /\ t * c \in Nat
    BY <1>3, <1>6
  <2>2. QED
    BY <1>2, <1>3, <1>4, <1>5, <2>1
<1>8. k = n * b + SeedPlace(n, k)
  BY <1>1, <1>2, <1>4, <1>5
<1>9. QED
  BY <1>7, <1>8 DEF PlaceOf

LEMMA Places ==
  ASSUME NEW n \in Nat \ {0}, NEW t \in Nat \ {0}, NEW v \in Nat \ {0},
         NEW k \in 1 .. n * t * v
  PROVE  /\ SeedPlace(n, k) \in 1 .. n
         /\ TextPlace(n, t, k) \in 1 .. t
         /\ VoicePlace(n, t, k) \in 1 .. v
<1> DEFINE a == k - 1
           b == a \div n
           c == b \div t
<1>1. t * v \in Nat /\ n * t * v \in Nat /\ n * t * v = n * (t * v)
  <2>1. n * t \in Nat /\ t * v \in Nat
    OBVIOUS
  <2>2. n * t * v \in Nat
    BY <2>1
  <2>3. n * t * v = n * (t * v)
    OBVIOUS
  <2>4. QED
    BY <2>1, <2>2, <2>3
<1>2. a \in Nat /\ a < n * (t * v)
  BY <1>1
<1> HIDE DEF a
<1>3. b \in Nat /\ a % n \in 0 .. n - 1
  BY <1>2, Division
<1>4. b < t * v
  BY <1>1, <1>2, QuotientBelow
<1> HIDE DEF b
<1>5. c \in Nat /\ b % t \in 0 .. t - 1
  BY <1>3, Division
<1>6. c < v
  BY <1>3, <1>4, QuotientBelow
<1> HIDE DEF c
<1>7. /\ (a % n) + 1 \in 1 .. n
      /\ (b % t) + 1 \in 1 .. t
      /\ c + 1 \in 1 .. v
  BY <1>3, <1>5, <1>6
<1>8. QED
  BY <1>7 DEF SeedPlace, TextPlace, VoicePlace, a, b, c

LEMMA PlacesDifferAt ==
  ASSUME NEW n \in Nat \ {0}, NEW t \in Nat \ {0},
         NEW k \in Nat \ {0}, NEW l \in Nat \ {0},
         SeedPlace(n, k) = SeedPlace(n, l), TextPlace(n, t, k) = TextPlace(n, t, l),
         VoicePlace(n, t, k) = VoicePlace(n, t, l)
  PROVE  k = l
<1>1. k = PlaceOf(n, t, SeedPlace(n, k), TextPlace(n, t, k), VoicePlace(n, t, k))
  BY PlaceOfPlaces
<1>2. l = PlaceOf(n, t, SeedPlace(n, l), TextPlace(n, t, l), VoicePlace(n, t, l))
  BY PlaceOfPlaces
<1>3. QED
  BY <1>1, <1>2, Zenon

\* A product is a job for each seed, transcript and voice.
LEMMA ProductJobs ==
  ASSUME NEW in \in Inputs, in.kind = "product", Accepted(in)
  PROVE  LET n == Len(BatchSeeds(in.seeds))
             t == Len(in.transcripts)
             v == Len(in.voices)
         IN  /\ n \in Nat \ {0} /\ t \in Nat \ {0} /\ v \in Nat \ {0}
             /\ n * t * v \in Nat \ {0}
             /\ Len(Jobs(in)) = n * t * v
             /\ DOMAIN Jobs(in) = 1 .. n * t * v
             /\ \A k \in 1 .. n * t * v :
                  Jobs(in)[k] = ProductJob(in.transcripts[TextPlace(n, t, k)],
                                           in.voices[VoicePlace(n, t, k)],
                                           BatchSeeds(in.seeds)[SeedPlace(n, k)])
<1> DEFINE n == Len(BatchSeeds(in.seeds))
           t == Len(in.transcripts)
           v == Len(in.voices)
           N == n * t * v
           J(k) == ProductJob(in.transcripts[TextPlace(n, t, k)],
                              in.voices[VoicePlace(n, t, k)],
                              BatchSeeds(in.seeds)[SeedPlace(n, k)])
<1>1. /\ in.transcripts \in Seq(Range(in.transcripts))
      /\ in.voices \in Seq(Range(in.voices))
      /\ in.seeds \in Seq(Range(in.seeds))
  BY BatchAssumption DEF IsList
<1>2. in.transcripts # <<>> /\ in.voices # <<>> /\ in.seeds # <<>>
  BY DEF Accepted, Readable
<1>3. n \in Nat \ {0}
  BY <1>1, <1>2, SeedsAreDistinct
<1>4. t \in Nat \ {0} /\ v \in Nat \ {0}
  BY <1>1, <1>2, EmptySeq, LenProperties
<1>5. Jobs(in) = [k \in 1 .. N |-> J(k)]
  BY DEF Jobs, Product, SeedPlace, TextPlace, VoicePlace
<1> HIDE DEF n, t, v
<1>6. n * t \in Nat /\ n * t > 0
  BY <1>3, <1>4
<1>7. N \in Nat \ {0}
  BY <1>3, <1>4, <1>6
<1> HIDE DEF N, J
<1>8. DOMAIN Jobs(in) = 1 .. N /\ Len(Jobs(in)) = N
  BY <1>5, <1>7
<1>9. \A k \in 1 .. N : Jobs(in)[k] = J(k)
  BY <1>5
<1>10. QED
  BY <1>3, <1>4, <1>7, <1>8, <1>9 DEF n, t, v, N, J

\* An accepted input asks for a list of different jobs: a job list compares the ids, and
\* jobs of a product that have the same id still differ in a list's id or the seed.
LEMMA JobsAreApart ==
  ASSUME NEW in \in Inputs, in.kind \in {"jobs", "product"}, Accepted(in)
  PROVE  /\ Jobs(in) \in Seq(AnyJob) /\ Jobs(in) # <<>>
         /\ \A i, k \in DOMAIN Jobs(in) : Jobs(in)[i] = Jobs(in)[k] => i = k
<1>1. \A i \in DOMAIN Jobs(in) : Jobs(in)[i] \in AnyJob
  BY DEF AnyJob, Range
<1>2. CASE in.kind = "jobs"
  <2>1. in.rows \in Seq(Range(in.rows)) /\ Readable(in.rows)
    BY <1>2, BatchAssumption DEF IsList, Accepted
  <2>2. DOMAIN in.rows = 1 .. Len(in.rows) /\ Len(in.rows) \in Nat \ {0}
    BY <2>1, EmptySeq, LenProperties DEF Readable
  <2>3. Jobs(in) = [k \in 1 .. Len(in.rows) |-> ListedJob(in.rows[k])]
    BY <1>2, <2>2 DEF Jobs
  <2>4. DOMAIN Jobs(in) = 1 .. Len(in.rows) /\ Jobs(in) \in Seq(AnyJob) /\ Jobs(in) # <<>>
    <3>1. DOMAIN Jobs(in) = 1 .. Len(in.rows)
      BY <2>3
    <3>2. \A k \in 1 .. Len(in.rows) : ListedJob(in.rows[k]) \in AnyJob
      BY <1>1, <2>3, <3>1
    <3>3. Jobs(in) \in [1 .. Len(in.rows) -> AnyJob]
      BY <2>3, <3>2
    <3>4. Jobs(in) \in Seq(AnyJob)
      BY <2>2, <3>3, SeqDef
    <3>5. Len(Jobs(in)) = Len(in.rows)
      BY <2>2, <3>1, <3>4
    <3>6. QED
      BY <2>2, <3>1, <3>4, <3>5, EmptySeq
  <2>5. \A k \in DOMAIN Jobs(in) : Jobs(in)[k].id = in.rows[k].id
    BY <2>3 DEF ListedJob
  <2>6. QED
    BY <2>1, <2>2, <2>4, <2>5 DEF Readable
<1>3. CASE in.kind = "product"
  <2> DEFINE n == Len(BatchSeeds(in.seeds))
             t == Len(in.transcripts)
             v == Len(in.voices)
             N == n * t * v
             S == BatchSeeds(in.seeds)
  <2>1. /\ n \in Nat \ {0} /\ t \in Nat \ {0} /\ v \in Nat \ {0} /\ N \in Nat \ {0}
        /\ Len(Jobs(in)) = N /\ DOMAIN Jobs(in) = 1 .. N
        /\ \A k \in 1 .. N :
             Jobs(in)[k] = ProductJob(in.transcripts[TextPlace(n, t, k)],
                                      in.voices[VoicePlace(n, t, k)],
                                      S[SeedPlace(n, k)])
    BY <1>3, ProductJobs
  <2>2. /\ in.transcripts \in Seq(Range(in.transcripts))
        /\ in.voices \in Seq(Range(in.voices))
        /\ in.seeds \in Seq(Range(in.seeds))
        /\ Readable(in.transcripts) /\ Readable(in.voices) /\ in.seeds # <<>>
    BY <1>3, BatchAssumption DEF IsList, Accepted
  <2>3. /\ DOMAIN in.transcripts = 1 .. t /\ DOMAIN in.voices = 1 .. v
    BY <2>2, LenProperties
  <2>4. /\ \A k \in 1 .. n : S[k] \in Range(in.seeds)
        /\ \A k, l \in 1 .. n : S[k] = S[l] => k = l
    BY <2>2, SeedsAreDistinct
  <2>5. Jobs(in) \in Seq(AnyJob) /\ Jobs(in) # <<>>
    <3>1. Jobs(in) = [k \in DOMAIN Jobs(in) |-> Jobs(in)[k]]
      BY <1>3 DEF Jobs, Product
    <3>2. Jobs(in) \in [1 .. N -> AnyJob]
      BY <1>1, <2>1, <3>1
    <3>3. Jobs(in) \in Seq(AnyJob)
      <4>1. N \in Nat
        BY <2>1
      <4> HIDE DEF N
      <4>2. QED
        BY <3>2, <4>1, SeqDef
    <3>4. QED
      BY <2>1, <3>3, EmptySeq
  <2> HIDE DEF n, t, v, S
  <2>6. \A k \in 1 .. N : /\ SeedPlace(n, k) \in 1 .. n
                          /\ TextPlace(n, t, k) \in 1 .. t
                          /\ VoicePlace(n, t, k) \in 1 .. v
    BY <2>1, Places
  <2>7. ASSUME NEW k \in 1 .. N, NEW l \in 1 .. N, Jobs(in)[k] = Jobs(in)[l]
        PROVE  k = l
    <3> DEFINE T(x) == in.transcripts[TextPlace(n, t, x)]
               V(x) == in.voices[VoicePlace(n, t, x)]
               R(x) == S[SeedPlace(n, x)]
    <3>1. ProductJob(T(k), V(k), R(k)) = ProductJob(T(l), V(l), R(l))
      BY <2>1, <2>7
    <3>2. T(k).id = T(l).id /\ V(k).id = V(l).id /\ R(k) = R(l)
      <4> HIDE DEF T, V, R
      <4>1. QED
        BY <3>1 DEF ProductJob
    <3>3. TextPlace(n, t, k) = TextPlace(n, t, l)
      BY <2>2, <2>3, <2>6, <3>2 DEF Readable
    <3>4. VoicePlace(n, t, k) = VoicePlace(n, t, l)
      BY <2>2, <2>3, <2>6, <3>2 DEF Readable
    <3>5. SeedPlace(n, k) = SeedPlace(n, l)
      BY <2>4, <2>6, <3>2
    <3>6. QED
      BY <2>1, <3>3, <3>4, <3>5, PlacesDifferAt
  <2>8. QED
    BY <2>1, <2>5, <2>7
<1>4. QED
  BY <1>2, <1>3

-------------------------------------------------------------------------------
(* The kinds of steps.                                                       *)

Going == pc' # "start"

\* main returns.
Returns ==
  /\ pc # "start" /\ pc' = "start"
  /\ on_disk' = Len(index)
  /\ UNCHANGED <<source, at, loaded, pending_by_frames, flushes, wav, index, index_jobs>>

Advances ==
  /\ Going
  /\ \/ SetUp \/ TakeVoice \/ TakeText \/ Synthesize \/ ListOne
     \/ GenerateCodes \/ Decode \/ Save \/ List \/ Flushed \/ FlushRest

LEMMA StepCases ==
  ASSUME [Next]_vars
  PROVE  Start \/ Returns \/ Advances \/ Kill \/ UNCHANGED vars
<1>1. CASE SetUp
  BY <1>1 DEF SetUp, Fails, Return, Returns, Advances, Going
<1>2. CASE TakeVoice
  BY <1>2 DEF TakeVoice, Fails, Return, Returns, Advances, Going
<1>3. CASE TakeText
  BY <1>3 DEF TakeText, Fails, Return, Returns, Advances, Going
<1>4. CASE Synthesize
  BY <1>4 DEF Synthesize, Fails, Return, Returns, Advances, Going
<1>5. CASE ListOne
  BY <1>5 DEF ListOne, Advances, Going
<1>6. CASE FinishOneByOne
  BY <1>6 DEF FinishOneByOne, Return, Returns
<1>7. CASE GenerateCodes
  <2>1. CASE Fails
    BY <1>7, <2>1 DEF GenerateCodes, Fails, Return, Returns
  <2>2. CASE ~Fails
    BY <1>7, <2>2 DEF GenerateCodes, Advances, Going
  <2>3. QED
    BY <2>1, <2>2
<1>8. CASE Decode
  BY <1>8 DEF Decode, Return, Returns, Advances, Going
<1>9. CASE Save
  BY <1>9 DEF Save, Fails, Return, Returns, Advances, Going
<1>10. CASE List
  BY <1>10 DEF List, Advances, Going
<1>11. CASE Flushed
  BY <1>11 DEF Flushed, Advances, Going
<1>12. CASE FlushRest
  BY <1>12 DEF FlushRest, Advances, Going
<1>13. CASE FinishBatched
  BY <1>13 DEF FinishBatched, Return, Returns
<1>14. QED
  BY <1>1, <1>2, <1>3, <1>4, <1>5, <1>6, <1>7, <1>8, <1>9, <1>10, <1>11, <1>12, <1>13
     DEF Next, Step

\* What a step that makes codes does.
LEMMA Generated ==
  ASSUME Shapes, JobsInv, VoiceInv, GenerateCodes, Going
  PROVE  \E n \in FrameCounts :
           /\ pending_by_frames' \in [FrameCounts -> Seq(Entry)]
           /\ \A m \in FrameCounts \ {n} : pending_by_frames'[m] = pending_by_frames[m]
           /\ Len(pending_by_frames'[n]) = Len(pending_by_frames[n]) + 1
           /\ \A i \in 1 .. Len(pending_by_frames[n]) :
                pending_by_frames'[n][i] = pending_by_frames[n][i]
           /\ pending_by_frames'[n][Len(pending_by_frames[n]) + 1] =
                [job |-> job, codes |-> Audio(job), frames |-> n]
           /\ \/ /\ Len(pending_by_frames[n]) + 1 >= batch_size
                 /\ group' = n /\ pc' = "decode"
              \/ /\ Len(pending_by_frames[n]) + 1 < batch_size
                 /\ group' = group /\ pc' = "next"
<1>1. pc = "make" /\ Batched /\ job \in AnyJob
  BY DEF GenerateCodes, Shapes, JobsInv, job
<1>2. Speech = Audio(job)
  BY <1>1 DEF VoiceInv, Speech, Audio, Promise!Audio
<1> DEFINE e(n) == [job |-> job, codes |-> Audio(job), frames |-> n]
           b(n) == Append(pending_by_frames[n], e(n))
<1>3. PICK n \in FrameCounts :
        /\ pending_by_frames' = [pending_by_frames EXCEPT ![n] = b(n)]
        /\ IF Len(b(n)) >= batch_size THEN group' = n /\ pc' = "decode"
                                      ELSE group' = group /\ pc' = "next"
  <2>1. ~Fails
    BY DEF Fails, Return, Going
  <2>2. QED
    BY <1>2, <2>1 DEF GenerateCodes, Bucket, IsFull
<1>4. e(n) \in Entry
  BY <1>1 DEF Entry
<1> HIDE DEF e
<1>5. pending_by_frames[n] \in Seq(Entry)
  BY DEF Shapes
<1>6. /\ b(n) \in Seq(Entry)
      /\ Len(b(n)) = Len(pending_by_frames[n]) + 1
      /\ \A i \in 1 .. Len(pending_by_frames[n]) : b(n)[i] = pending_by_frames[n][i]
      /\ b(n)[Len(pending_by_frames[n]) + 1] = e(n)
  BY <1>4, <1>5, AppendProperties
<1> HIDE DEF b
<1>7. /\ pending_by_frames' \in [FrameCounts -> Seq(Entry)]
      /\ pending_by_frames'[n] = b(n)
      /\ \A m \in FrameCounts \ {n} : pending_by_frames'[m] = pending_by_frames[m]
  BY <1>3, <1>6 DEF Shapes
<1>8. Len(pending_by_frames[n]) + 1 \in Nat /\ batch_size \in Nat
  BY <1>5 DEF Shapes
<1>9. \/ /\ Len(pending_by_frames[n]) + 1 >= batch_size
         /\ group' = n /\ pc' = "decode"
      \/ /\ Len(pending_by_frames[n]) + 1 < batch_size
         /\ group' = group /\ pc' = "next"
  BY <1>3, <1>6, <1>8
<1>10. QED
  BY <1>6, <1>7, <1>9 DEF e

\* A flush takes the whole bucket.
LEMMA FlushTakesAll ==
  ASSUME Shapes, JobsInv, BucketInv, Batched, pc \in {"decode", "save", "list"}
  PROVE  /\ group \in FrameCounts
         /\ pending \in Seq(Entry) /\ pending # <<>>
         /\ Count = Len(pending) /\ Len(pending) \in 1 .. batch_size
         /\ SameLength
         /\ \A i \in 1 .. Count : pending[i].codes = Audio(pending[i].job)
<1>1. group \in FrameCounts /\ pending # <<>>
  BY DEF BucketInv
<1>2. pending \in Seq(Entry)
  BY <1>1 DEF Shapes, pending
<1>3. /\ Len(pending) <= batch_size
      /\ \A i \in DOMAIN pending :
           pending[i].frames = group /\ pending[i].codes = Audio(pending[i].job)
  BY <1>1 DEF BucketInv, pending
<1>4. Len(pending) \in Nat \ {0} /\ batch_size \in Nat /\ DOMAIN pending = 1 .. Len(pending)
  BY <1>1, <1>2, EmptySeq, LenProperties DEF Shapes
<1>5. Count = Len(pending)
  BY <1>3, <1>4, MinOfTwo DEF Count
<1>6. SameLength
  BY <1>3, <1>4, <1>5 DEF SameLength
<1>7. QED
  BY <1>1, <1>2, <1>3, <1>4, <1>5, <1>6

\* What a kill leaves of the index.
LEMMA KilledIndex ==
  ASSUME IInv, Kill
  PROVE  /\ index' \in Seq(AnyJob)
         /\ Len(index') = on_disk'
         /\ on_disk' \in 0 .. Len(index)
         /\ \A k \in 1 .. Len(index') : index'[k] = index[k]
<1>1. PICK n \in on_disk .. Len(index) : index' = SubSeq(index, 1, n) /\ on_disk' = n
  BY DEF Kill
<1>2. index \in Seq(AnyJob) /\ Len(index) \in Nat /\ n \in 0 .. Len(index)
  BY DEF IInv, Shapes
<1>3. \A k \in 1 .. n : index[k] \in AnyJob
  BY <1>2, ElementOfSeq
<1>4. /\ SubSeq(index, 1, n) \in Seq(AnyJob)
      /\ Len(SubSeq(index, 1, n)) = IF 1 <= n THEN n - 1 + 1 ELSE 0
      /\ \A k \in 1 .. n - 1 + 1 : SubSeq(index, 1, n)[k] = index[1 + k - 1]
  BY <1>2, <1>3, SubSeqProperties
<1>5. Len(SubSeq(index, 1, n)) = n
  BY <1>2, <1>4
<1>6. \A k \in 1 .. n : SubSeq(index, 1, n)[k] = index[k]
  <2>1. \A k \in 1 .. n : k \in 1 .. n - 1 + 1 /\ 1 + k - 1 = k
    BY <1>2
  <2>2. QED
    BY <1>4, <2>1
<1>7. QED
  BY <1>1, <1>2, <1>4, <1>5, <1>6

-------------------------------------------------------------------------------
(* Types.                                                                    *)

LEMMA ShapesInductive ==
  ASSUME IInv, [Next]_vars
  PROVE  Shapes'
<1>1. CASE Start
  <2>1. PICK in \in Inputs, size \in BatchSizes :
          /\ batch_size' = size
          /\ \/ Accepted(in) /\ jobs' = Jobs(in) /\ pc' = "load"
             \/ jobs' = <<>> /\ pc' = "start"
    BY <1>1 DEF Start
  <2>2. jobs' \in Seq(AnyJob)
    <3>1. Accepted(in) => Jobs(in) \in Seq(AnyJob)
      BY JobsAreApart DEF Accepted
    <3>2. QED
      BY <2>1, <3>1, EmptySeq
  <2>3. pending_by_frames' \in [FrameCounts -> Seq(Entry)]
    BY <1>1, EmptySeq DEF Start
  <2>4. 1 \in 1 .. Len(jobs') + 1
    BY <2>2
  <2>5. pc' \in {"start", "load"} /\ batch_size' \in Nat \ {0}
    BY <2>1
  <2>6. runs' \in 0 .. MaxRuns
    BY <1>1 DEF Start, IInv, Shapes
  <2>7. at' \in 1 .. Len(jobs') + 1 /\ saved' \in Nat /\ fault' \in BOOLEAN
    BY <1>1, <2>4 DEF Start
  <2>8. index' \in Seq(AnyJob) /\ on_disk' \in Nat
    BY <1>1 DEF Start, IInv, Shapes, results
  <2>9. QED
    BY <2>2, <2>3, <2>5, <2>6, <2>7, <2>8 DEF Shapes
<1>2. CASE Returns /\ Next
  <2>1. fault' \in BOOLEAN
    <3>1. CASE Start
      BY <1>2, <3>1 DEF Start, Returns
    <3>2. CASE Kill
      BY <3>2 DEF Kill, IInv, Shapes
    <3>3. CASE Step
      BY <3>3 DEF Step, SetUp, TakeVoice, TakeText, Synthesize, ListOne, FinishOneByOne,
           GenerateCodes, Decode, Save, List, Flushed, FlushRest, FinishBatched,
           SameLength, Fails, Return, outcome, IInv, Shapes
    <3>4. QED
      BY <1>2, <3>1, <3>2, <3>3 DEF Next
  <2>2. QED
    BY <1>2, <2>1 DEF Returns, IInv, Shapes, source, flushes
<1>3. CASE Kill
  BY <1>3, KilledIndex DEF Kill, IInv, Shapes, source, flushes
<1>4. CASE UNCHANGED vars
  BY <1>4 DEF vars, IInv, Shapes, source, flushes, results, outcome
<1>5. CASE Going /\ SetUp
  <2>1. <<>> \in Seq(AnyJob)
    BY EmptySeq
  <2>2. /\ index' = <<>> /\ on_disk' = 0 /\ pc' = "next"
        /\ UNCHANGED <<source, at, pending_by_frames, saved, fault>>
    BY <1>5 DEF Going, SetUp, Fails, Return, flushes, outcome
  <2>3. QED
    BY <2>1, <2>2 DEF IInv, Shapes, source
<1>6. CASE Going /\ TakeVoice
  BY <1>6 DEF Going, TakeVoice, Fails, Return, IInv, Shapes, source, flushes, results,
    outcome
<1>7. CASE Going /\ TakeText
  BY <1>7 DEF Going, TakeText, Fails, Return, IInv, Shapes, source, flushes, results,
    outcome
<1>8. CASE Going /\ Synthesize
  BY <1>8 DEF Going, Synthesize, Fails, Return, IInv, Shapes, source, flushes, outcome
<1>9. CASE ListOne
  <2>1. job \in AnyJob /\ at + 1 \in 1 .. Len(jobs) + 1
    BY <1>9 DEF ListOne, IInv, Shapes, JobsInv, job
  <2>2. Append(index, job) \in Seq(AnyJob)
    BY <2>1, AppendProperties DEF IInv, Shapes
  <2>3. Len(Append(index, job)) \in Nat
    BY <2>2
  <2>4. QED
    BY <1>9, <2>1, <2>2, <2>3 DEF ListOne, FlushedRows, IInv, Shapes, source, flushes,
      outcome
<1>10. CASE Going /\ GenerateCodes
  <2>1. pending_by_frames' \in [FrameCounts -> Seq(Entry)]
    BY <1>10, Generated DEF IInv
  <2>2. pc' \in {"decode", "next"}
    BY <1>10, Generated DEF IInv
  <2>3. ~Fails
    BY <1>10 DEF Going, Fails, Return
  <2>4. at' \in 1 .. Len(jobs) + 1
    <3>1. at' = at + 1 /\ pc = "make"
      BY <1>10, <2>3 DEF GenerateCodes
    <3>2. QED
      BY <3>1 DEF IInv, Shapes, JobsInv
  <2>5. UNCHANGED <<source, loaded, decoded, saved, results, outcome>>
    BY <1>10, <2>3 DEF GenerateCodes
  <2>6. QED
    BY <2>1, <2>2, <2>4, <2>5 DEF IInv, Shapes, source, results, outcome
<1>11. CASE Going /\ Decode
  BY <1>11 DEF Going, Decode, Return, IInv, Shapes, source, flushes, results, outcome
<1>12. CASE Going /\ Save
  BY <1>12 DEF Going, Save, Fails, Return, IInv, Shapes, source, outcome
<1>13. CASE List
  <2>1. pending \in Seq(Entry) /\ saved \in 1 .. Len(pending)
    BY <1>13, FlushTakesAll DEF List, IInv, Shapes, FlushInv
  <2>2. pending[saved].job \in AnyJob
    <3>1. pending[saved] \in Entry
      BY <2>1, ElementOfSeq
    <3>2. QED
      BY <3>1 DEF Entry
  <2>3. Append(index, pending[saved].job) \in Seq(AnyJob)
    BY <2>2, AppendProperties DEF IInv, Shapes
  <2>4. QED
    BY <1>13, <2>3 DEF List, IInv, Shapes, source, flushes, outcome
<1>14. CASE Flushed
  <2>1. pending \in Seq(Entry) /\ group \in FrameCounts
    BY <1>14, FlushTakesAll DEF Flushed, IInv, JobsInv
  <2>2. SubSeq(pending, Count + 1, Len(pending)) \in Seq(Entry)
    <3>1. Count = Len(pending)
      BY <1>14, FlushTakesAll DEF Flushed, IInv, JobsInv
    <3>2. QED
      BY <2>1, <3>1, SubSeqProperties
  <2>3. pending_by_frames' \in [FrameCounts -> Seq(Entry)]
    BY <1>14, <2>1, <2>2 DEF Flushed, IInv, Shapes, pending
  <2>4. QED
    BY <1>14, <2>3 DEF Flushed, FlushedRows, IInv, Shapes, source, outcome
<1>15. CASE FlushRest
  BY <1>15 DEF FlushRest, IInv, Shapes, source, results, outcome
<1>16. QED
  BY StepCases, <1>1, <1>2, <1>3, <1>4, <1>5, <1>6, <1>7, <1>8, <1>9, <1>10, <1>11,
    <1>12, <1>13, <1>14, <1>15 DEF Advances, Going, Returns, vars

-------------------------------------------------------------------------------
(* The parts of the invariant that the loop keeps.                           *)

\* What a step that advances leaves alone.
LEMMA RunIsKept ==
  ASSUME Advances
  PROVE  UNCHANGED source
BY DEF Advances, Going, SetUp, TakeVoice, TakeText, Synthesize, ListOne, GenerateCodes,
  Decode, Save, List, Flushed, FlushRest, Fails, Return

LEMMA JobsInductive ==
  ASSUME IInv, [Next]_vars
  PROVE  JobsInv'
<1>1. CASE Start
  <2>1. PICK in \in Inputs :
          \/ Accepted(in) /\ jobs' = Jobs(in) /\ pc' = "load"
          \/ jobs' = <<>> /\ pc' = "start"
    BY <1>1 DEF Start
  <2>2. /\ \A i, k \in DOMAIN jobs' : jobs'[i] = jobs'[k] => i = k
        /\ pc' # "start" => jobs' # <<>>
    <3>1. Accepted(in) => in.kind \in {"jobs", "product"}
      BY DEF Accepted
    <3>2. QED
      BY <2>1, <3>1, JobsAreApart, EmptySeq
  <2>3. at' = 1 /\ \A n \in FrameCounts : pending_by_frames'[n] = <<>>
    BY <1>1 DEF Start
  <2>4. QED
    BY <2>1, <2>2, <2>3 DEF JobsInv
<1>2. CASE Returns
  BY <1>2 DEF Returns, IInv, JobsInv, source
<1>3. CASE Kill
  BY <1>3 DEF Kill, IInv, JobsInv, source
<1>4. CASE UNCHANGED vars
  BY <1>4 DEF vars, IInv, JobsInv, source, Batched
<1>5. CASE Advances
  <2>1. jobs' = jobs /\ (Batched' <=> Batched)
    BY <1>5, RunIsKept DEF source, Batched
  <2>2. pc # "start" /\ pc' \notin {"start", "load"}
    BY <1>5, Generated DEF IInv, Advances, Going, SetUp, TakeVoice, TakeText,
      Synthesize, ListOne,
      GenerateCodes, Decode, Save, List, Flushed, FlushRest, Fails, Return
  <2>3. pc' \in {"text", "make"} => at' <= Len(jobs)
    BY <1>5, Generated DEF IInv, JobsInv, Advances, Going, SetUp, TakeVoice, TakeText,
      Synthesize,
      ListOne, Decode, Save, List, Flushed, FlushRest, Fails, Return
  <2>4. pc' = "list" /\ ~Batched => at' <= Len(jobs)
    BY <1>5, Generated DEF IInv, JobsInv, Advances, Going, SetUp, TakeVoice, TakeText,
      Synthesize,
      ListOne, Decode, Save, List, Flushed, FlushRest, Fails, Return
  <2>5. pc' \in {"decode", "save"} => Batched
    <3>1. CASE GenerateCodes
      BY <3>1 DEF GenerateCodes
    <3>2. CASE ~GenerateCodes
      BY <1>5, <3>2 DEF IInv, JobsInv, Advances, Going, SetUp, TakeVoice, TakeText,
        Synthesize, ListOne, Decode, Save, List, Flushed, FlushRest, Fails, Return
    <3>3. QED
      BY <3>1, <3>2
  <2>6. QED
    BY <2>1, <2>2, <2>3, <2>4, <2>5 DEF IInv, JobsInv
<1>6. QED
  BY StepCases, <1>1, <1>2, <1>3, <1>4, <1>5

LEMMA VoiceInductive ==
  ASSUME IInv, [Next]_vars
  PROVE  VoiceInv'
<1>1. CASE Start
  BY <1>1 DEF Start, VoiceInv, Paths
<1>2. CASE Returns \/ Kill
  BY <1>2 DEF Returns, Kill, IInv, VoiceInv, Paths, source, loaded
<1>3. CASE UNCHANGED vars
  BY <1>3 DEF vars, IInv, VoiceInv, Paths, source, loaded, job
<1>4. CASE Advances
  <2>1. jobs' = jobs /\ Paths' = Paths
    BY <1>4, RunIsKept DEF source, Paths
  <2>2. CASE TakeVoice
    <3>1. job.voice \in Paths /\ at' = at /\ job' = job
      BY <1>4, <2>1, <2>2 DEF IInv, Shapes, Paths, TakeVoice, Fails, Return, Advances,
        Going,
        job
    <3>2. QED
      BY <1>4, <2>1, <2>2, <3>1 DEF IInv, VoiceInv, TakeVoice, NeedsVoice, Fails, Return,
        Advances, Going, loaded
  <2>3. CASE TakeText
    <3>1. job.transcript \in Paths /\ at' = at /\ job' = job
      BY <1>4, <2>1, <2>3 DEF IInv, Shapes, JobsInv, Paths, TakeText, Fails, Return,
        Advances, Going, job
    <3>2. QED
      BY <1>4, <2>1, <2>3, <3>1 DEF IInv, VoiceInv, TakeText, NeedsText, Fails, Return,
        Advances, Going, loaded
  <2>4. CASE ~TakeVoice /\ ~TakeText
    <3>1. UNCHANGED loaded
      BY <1>4, <2>4 DEF Advances, Going, SetUp, Synthesize, ListOne, GenerateCodes,
        Decode,
        Save, List, Flushed, FlushRest, Fails, Return
    <3>2. pc' \notin {"text", "make"}
      BY <1>4, <2>4, Generated DEF IInv, Advances, Going, SetUp, Synthesize, ListOne,
        Decode,
        Save, List, Flushed, FlushRest, Fails, Return
    <3>3. QED
      BY <2>1, <3>1, <3>2 DEF IInv, VoiceInv, loaded
  <2>5. QED
    BY <2>2, <2>3, <2>4
<1>5. QED
  BY StepCases, <1>1, <1>2, <1>3, <1>4

LEMMA DiskInductive ==
  ASSUME IInv, [Next]_vars
  PROVE  DiskInv'
<1> USE DEF DiskInv, Listed
<1>1. CASE Start
  BY <1>1 DEF Start, IInv, results
<1>2. CASE Returns
  BY <1>2 DEF Returns, IInv, Shapes
<1>3. CASE Kill
  BY <1>3, KilledIndex DEF Kill, IInv, Shapes
<1>4. CASE UNCHANGED vars
  BY <1>4 DEF vars, IInv, source, flushes, results, Batched
<1>5. CASE Advances
  <2>1. (Batched' <=> Batched) /\ on_disk \in Nat /\ saved \in Nat /\ Len(index) \in Nat
    BY <1>5, RunIsKept DEF IInv, Shapes, source, Batched
  <2>2. CASE SetUp
    BY <1>5, <2>2, EmptySeq DEF Advances, Going, SetUp, Fails, Return
  <2>3. CASE TakeVoice \/ TakeText
    BY <1>5, <2>1, <2>3 DEF Advances, Going, TakeVoice, TakeText, Fails, Return, IInv,
      results
  <2>4. CASE Synthesize
    BY <1>5, <2>1, <2>4 DEF Advances, Going, Synthesize, Fails, Return, IInv
  <2>5. CASE ListOne
    BY <1>5, <2>1, <2>5, ShapesInductive DEF ListOne, FlushedRows, Shapes
  <2>6. CASE GenerateCodes
    <3>1. pc = "make" /\ pc' \in {"decode", "next"}
      BY <1>5, <2>6, Generated DEF IInv, Advances, GenerateCodes
    <3>2. UNCHANGED results
      BY <1>5, <2>6 DEF Advances, Going, GenerateCodes, Fails, Return
    <3>3. QED
      BY <2>1, <3>1, <3>2 DEF IInv, results
  <2>7. CASE Decode
    BY <1>5, <2>1, <2>7 DEF Advances, Going, Decode, Return, IInv, results
  <2>8. CASE Save
    BY <1>5, <2>1, <2>8 DEF Advances, Going, Save, Fails, Return, IInv, JobsInv
  <2>9. CASE List
    <3>1. Len(index') = Len(index) + 1
      <4>1. pending \in Seq(Entry) /\ saved \in 1 .. Len(pending)
        BY <2>9, FlushTakesAll DEF List, IInv, Shapes, FlushInv
      <4>2. pending[saved] \in Entry
        BY <4>1, ElementOfSeq
      <4>3. pending[saved].job \in AnyJob
        BY <4>2 DEF Entry
      <4>4. QED
        BY <2>9, <4>3, AppendProperties DEF List, IInv, Shapes
    <3>2. QED
      BY <2>1, <2>9, <3>1 DEF List, IInv, FlushInv, flushes
  <2>10. CASE Flushed
    BY <1>5, <2>1, <2>10 DEF Flushed, FlushedRows, IInv
  <2>11. CASE FlushRest
    BY <2>1, <2>11 DEF FlushRest, IInv, results
  <2>12. QED
    BY <1>5, <2>2, <2>3, <2>4, <2>5, <2>6, <2>7, <2>8, <2>9, <2>10, <2>11 DEF Advances
<1>6. QED
  BY StepCases, <1>1, <1>2, <1>3, <1>4, <1>5

-------------------------------------------------------------------------------
(* Buckets and flushes.                                                      *)

LEMMA BucketInductive ==
  ASSUME IInv, [Next]_vars
  PROVE  BucketInv'
<1>1. CASE Start
  <2>1. /\ pending_by_frames' = [n \in FrameCounts |-> <<>>]
        /\ batch_size' \in Nat \ {0} /\ pc' \in {"start", "load"}
    BY <1>1 DEF Start
  <2>2. ASSUME NEW n \in FrameCounts
        PROVE  pending_by_frames'[n] = <<>> /\ Len(pending_by_frames'[n]) = 0
    BY <2>1, EmptySeq
  <2>3. QED
    BY <2>1, <2>2 DEF BucketInv
<1>2. CASE Returns \/ Kill
  BY <1>2 DEF Returns, Kill, IInv, BucketInv, source
<1>3. CASE UNCHANGED vars
  BY <1>3 DEF vars, IInv, BucketInv, source, flushes, Batched, pending
<1>4. CASE Advances
  <2>1. (Batched' <=> Batched) /\ batch_size' = batch_size
    BY <1>4, RunIsKept DEF source, Batched
  <2>2. CASE SetUp \/ TakeVoice \/ TakeText \/ Synthesize \/ ListOne
    <3>1. /\ UNCHANGED <<pending_by_frames, group>>
          /\ pc' \in {"next", "text", "make", "list"}
      BY <1>4, <2>2 DEF Advances, Going, SetUp, TakeVoice, TakeText, Synthesize, ListOne,
        Fails, Return, flushes
    <3>2. ~Batched \/ pc' # "list"
      BY <1>4, <2>2 DEF Advances, Going, SetUp, TakeVoice, TakeText, Synthesize, ListOne,
        Fails, Return
    <3>3. pc \in {"load", "next", "text", "make"} \/ ~Batched
      BY <2>2 DEF SetUp, TakeVoice, TakeText, Synthesize, ListOne
    <3>4. QED
      BY <2>1, <3>1, <3>2, <3>3 DEF IInv, BucketInv
  <2>3. CASE GenerateCodes
    <3>1. PICK n \in FrameCounts :
           /\ \A m \in FrameCounts \ {n} : pending_by_frames'[m] = pending_by_frames[m]
           /\ Len(pending_by_frames'[n]) = Len(pending_by_frames[n]) + 1
           /\ \A i \in 1 .. Len(pending_by_frames[n]) :
                pending_by_frames'[n][i] = pending_by_frames[n][i]
           /\ pending_by_frames'[n][Len(pending_by_frames[n]) + 1] =
                [job |-> job, codes |-> Audio(job), frames |-> n]
           /\ \/ /\ Len(pending_by_frames[n]) + 1 >= batch_size
                 /\ group' = n /\ pc' = "decode"
              \/ /\ Len(pending_by_frames[n]) + 1 < batch_size
                 /\ group' = group /\ pc' = "next"
      BY <1>4, <2>3, Generated DEF IInv, Advances
    <3>2. pending_by_frames[n] \in Seq(Entry) /\ pending_by_frames'[n] \in Seq(Entry)
      BY ShapesInductive DEF IInv, Shapes
    <3>3. /\ Len(pending_by_frames[n]) \in Nat
          /\ DOMAIN pending_by_frames[n] = 1 .. Len(pending_by_frames[n])
          /\ DOMAIN pending_by_frames'[n] = 1 .. Len(pending_by_frames[n]) + 1
      BY <3>1, <3>2, LenProperties
    <3>4. /\ pc = "make" /\ Batched
          /\ Len(pending_by_frames[n]) < batch_size /\ batch_size \in Nat
      BY <2>3 DEF GenerateCodes, IInv, Shapes, BucketInv
    <3>5. Len(pending_by_frames'[n]) <= batch_size
      BY <3>1, <3>3, <3>4
    <3>6. \A i \in DOMAIN pending_by_frames'[n] :
            /\ pending_by_frames'[n][i].frames = n
            /\ pending_by_frames'[n][i].codes = Audio(pending_by_frames'[n][i].job)
      BY <3>1, <3>3 DEF IInv, BucketInv
    <3>7. pending_by_frames'[n] # <<>>
      BY <3>1, <3>2, <3>3, EmptySeq
    <3>8. pc' # "decode" => pc' = "next" /\ Len(pending_by_frames'[n]) < batch_size
      BY <3>1, <3>3, <3>4
    <3>9. pc' = "decode" => group' = n
      BY <3>1
    <3>10. \A m \in FrameCounts \ {n} : Len(pending_by_frames'[m]) < batch_size
      BY <3>1, <3>4 DEF IInv, BucketInv
    <3>11. \A m \in FrameCounts \ {n} : \A i \in DOMAIN pending_by_frames'[m] :
            /\ pending_by_frames'[m][i].frames = m
            /\ pending_by_frames'[m][i].codes = Audio(pending_by_frames'[m][i].job)
      BY <3>1 DEF IInv, BucketInv
    <3>12. \A m \in FrameCounts \ {n} : Len(pending_by_frames'[m]) <= batch_size
      BY <3>1 DEF IInv, BucketInv
    <3>13. QED
      BY <2>1, <3>5, <3>6, <3>7, <3>8, <3>9, <3>10, <3>11, <3>12 DEF BucketInv, pending
  <2>4. CASE Decode \/ Save \/ List
    <3>1. /\ UNCHANGED <<pending_by_frames, group>> /\ pc \in {"decode", "save", "list"}
          /\ pc' \in {"save", "list"} /\ Batched
      BY <1>4, <2>4 DEF Advances, Going, Decode, Save, List, Fails, Return, IInv, JobsInv,
        flushes
    <3>2. QED
      BY <2>1, <3>1 DEF IInv, BucketInv, pending
  <2>5. CASE Flushed
    <3>1. Batched /\ pc = "save" /\ pc' = "next"
      BY <2>5 DEF Flushed, IInv, JobsInv
    <3>2. /\ group \in FrameCounts /\ pending \in Seq(Entry) /\ Count = Len(pending)
      BY <3>1, FlushTakesAll DEF IInv
    <3>3. SubSeq(pending, Count + 1, Len(pending)) = <<>>
      BY <3>2, SubSeqEmpty
    <3>4. /\ pending_by_frames'[group] = <<>>
          /\ \A n \in FrameCounts \ {group} : pending_by_frames'[n] = pending_by_frames[n]
      BY <2>5, <3>2, <3>3 DEF Flushed, IInv, Shapes, pending
    <3>5. Len(pending_by_frames'[group]) = 0 /\ DOMAIN pending_by_frames'[group] = {}
      BY <3>4, EmptySeq
    <3>6. ASSUME NEW n \in FrameCounts
          PROVE  /\ Len(pending_by_frames'[n]) < batch_size
                 /\ \A i \in DOMAIN pending_by_frames'[n] :
                      /\ pending_by_frames'[n][i].frames = n
                      /\ pending_by_frames'[n][i].codes =
                           Audio(pending_by_frames'[n][i].job)
      <4>1. CASE n = group
        BY <3>5, <4>1 DEF IInv, Shapes
      <4>2. CASE n # group
        BY <3>1, <3>4, <4>2 DEF IInv, BucketInv
      <4>3. QED
        BY <4>1, <4>2
    <3>7. \A n \in FrameCounts : Len(pending_by_frames'[n]) <= batch_size
      <4>1. \A n \in FrameCounts \ {group} : Len(pending_by_frames'[n]) <= batch_size
        BY <3>4 DEF IInv, BucketInv
      <4>2. Len(pending_by_frames'[group]) <= batch_size
        BY <3>5 DEF IInv, Shapes
      <4>3. QED
        BY <4>1, <4>2
    <3>8. QED
      BY <2>1, <3>1, <3>6, <3>7 DEF BucketInv
  <2>6. CASE FlushRest
    <3>1. Min(Waiting) \in Waiting
      BY <2>6, MinIsMember DEF FlushRest, Waiting
    <3>2. group' \in FrameCounts /\ pending_by_frames[group'] # <<>>
      BY <2>6, <3>1 DEF FlushRest, Waiting
    <3>3. pc = "next" /\ pc' = "decode" /\ pending_by_frames' = pending_by_frames
      BY <2>6 DEF FlushRest
    <3>4. QED
      BY <2>1, <3>2, <3>3 DEF IInv, BucketInv, pending
  <2>7. QED
    BY <1>4, <2>2, <2>3, <2>4, <2>5, <2>6 DEF Advances
<1>5. QED
  BY StepCases, <1>1, <1>2, <1>3, <1>4

LEMMA FlushInductive ==
  ASSUME IInv, [Next]_vars
  PROVE  FlushInv'
<1>1. CASE Start
  BY <1>1, EmptySeq DEF Start, FlushInv
<1>2. CASE Returns \/ Kill
  BY <1>2 DEF Returns, Kill, IInv, FlushInv, flushes
<1>3. CASE UNCHANGED vars
  BY <1>3 DEF vars, IInv, FlushInv, source, flushes, results, Batched, pending, Count, job
<1>4. CASE Advances
  <2>1. (Batched' <=> Batched) /\ jobs' = jobs /\ batch_size' = batch_size
    BY <1>4, RunIsKept DEF source, Batched
  <2>2. CASE SetUp \/ TakeVoice \/ TakeText \/ ListOne \/ GenerateCodes \/ FlushRest
    <3>1. UNCHANGED <<decoded, saved>>
      BY <1>4, <2>2 DEF Advances, Going, SetUp, TakeVoice, TakeText, ListOne,
        GenerateCodes,
        FlushRest, Fails, Return, flushes
    <3>2. pc' \notin {"save", "list"}
      BY <1>4, <2>2, Generated DEF Advances, Going, SetUp, TakeVoice, TakeText, ListOne,
        FlushRest, Fails, Return, IInv
    <3>3. QED
      BY <3>1, <3>2 DEF IInv, FlushInv
  <2>3. CASE Synthesize
    <3>1. /\ ~Batched /\ pc = "make" /\ pc' = "list" /\ wav' = Put(wav, job.id, Speech)
          /\ UNCHANGED <<decoded, saved>> /\ job' = job
      BY <1>4, <2>1, <2>3 DEF Advances, Going, Synthesize, Fails, Return, flushes, job
    <3>2. Speech = Audio(job)
      BY <3>1 DEF IInv, VoiceInv, Speech, Audio, Promise!Audio
    <3>3. job.id \in DOMAIN wav' /\ wav'[job.id] = Audio(job)
      BY <3>1, <3>2 DEF Put
    <3>4. QED
      BY <2>1, <3>1, <3>3 DEF IInv, FlushInv
  <2>4. CASE Decode
    <3>1. /\ pc = "decode" /\ Batched /\ pc' = "save" /\ saved' = 0
          /\ decoded' = [i \in 1 .. Count |-> pending[i].codes]
          /\ UNCHANGED <<pending_by_frames, group>>
      BY <1>4, <2>4 DEF Advances, Going, Decode, Return, IInv, JobsInv
    <3>2. /\ pending \in Seq(Entry) /\ Count = Len(pending)
          /\ \A i \in 1 .. Count : pending[i].codes = Audio(pending[i].job)
      BY <3>1, FlushTakesAll DEF IInv
    <3>3. Count' = Count /\ pending' = pending
      BY <2>1, <3>1 DEF Count, pending
    <3>4. ASSUME NEW i \in 1 .. Count
          PROVE  pending[i].codes \in { Audio(j) : j \in AnyJob }
      <4>1. pending[i] \in Entry
        BY <3>2, ElementOfSeq
      <4>2. QED
        BY <4>1 DEF Entry
    <3>5. Count \in Nat
      BY <3>2
    <3>6. decoded' \in [1 .. Count -> { Audio(j) : j \in AnyJob }]
      BY <3>1, <3>4
    <3>7. decoded' \in Seq({ Audio(j) : j \in AnyJob }) /\ Len(decoded') = Count
      BY <3>5, <3>6, SeqDef, LenProperties
    <3>8. QED
      BY <2>1, <3>1, <3>3, <3>5, <3>7 DEF FlushInv
  <2>5. CASE Save
    <3>1. /\ pc = "save" /\ Batched /\ saved < Count /\ pc' = "list" /\ saved' = saved + 1
          /\ wav' = Put(wav, pending[saved + 1].job.id, decoded[saved + 1])
          /\ UNCHANGED <<pending_by_frames, group, decoded>>
      BY <1>4, <2>5 DEF Advances, Going, Save, Fails, Return, IInv, JobsInv, SavedAudio
    <3>2. Count' = Count /\ pending' = pending
      BY <2>1, <3>1 DEF Count, pending
    <3>3. /\ Count = Len(pending) /\ pending \in Seq(Entry)
          /\ \A i \in 1 .. Count : pending[i].codes = Audio(pending[i].job)
      BY <3>1, FlushTakesAll DEF IInv
    <3>4. saved \in Nat /\ Count \in Nat /\ saved + 1 \in 1 .. Count
      BY <3>1, <3>3 DEF IInv, Shapes
    <3>5. decoded[saved + 1] = Audio(pending[saved + 1].job)
      BY <3>1, <3>3, <3>4 DEF IInv, FlushInv
    <3>6. /\ pending[saved + 1].job.id \in DOMAIN wav'
          /\ wav'[pending[saved + 1].job.id] = Audio(pending[saved + 1].job)
      BY <3>1, <3>5 DEF Put
    <3>7. Len(decoded) = Count /\ \A i \in 1 .. Count : decoded[i] = pending[i].codes
      BY <3>1 DEF IInv, FlushInv
    <3>8. decoded = <<>> \/ decoded \in Seq({ Audio(j) : j \in AnyJob })
      BY DEF IInv, FlushInv
    <3>9. QED
      BY <2>1, <3>1, <3>2, <3>4, <3>6, <3>7, <3>8 DEF FlushInv
  <2>6. CASE List
    <3>1. /\ pc = "list" /\ Batched /\ pc' = "save" /\ pending' = pending /\ Count' = Count
          /\ UNCHANGED <<decoded, saved>>
      BY <2>1, <2>6 DEF List, flushes, pending, Count
    <3>2. QED
      BY <2>1, <3>1 DEF IInv, FlushInv
  <2>7. CASE Flushed
    BY <2>1, <2>7, EmptySeq DEF Flushed, FlushInv
  <2>8. QED
    BY <1>4, <2>2, <2>3, <2>4, <2>5, <2>6, <2>7 DEF Advances
<1>5. QED
  BY StepCases, <1>1, <1>2, <1>3, <1>4

\* The row that a flush adds.
LEMMA ListedRow ==
  ASSUME IInv, List
  PROVE  /\ Batched /\ pc' = "save" /\ group \in FrameCounts
         /\ saved \in 1 .. Len(pending)
         /\ index' \in Seq(AnyJob) /\ Len(index') = Len(index) + 1
         /\ \A k \in 1 .. Len(index) : index'[k] = index[k]
         /\ index'[Len(index) + 1] = pending[saved].job
         /\ UNCHANGED <<source, at, pending_by_frames, group, saved, wav>>
<1>1. pending \in Seq(Entry) /\ saved \in 1 .. Len(pending) /\ group \in FrameCounts
  BY FlushTakesAll DEF List, IInv, Shapes, FlushInv
<1>2. pending[saved] \in Entry
  BY <1>1, ElementOfSeq
<1>3. pending[saved].job \in AnyJob
  BY <1>2 DEF Entry
<1>4. index \in Seq(AnyJob) /\ index' = Append(index, pending[saved].job)
  BY DEF List, IInv, Shapes
<1>5. /\ index' \in Seq(AnyJob) /\ Len(index') = Len(index) + 1
      /\ \A k \in 1 .. Len(index) : index'[k] = index[k]
      /\ index'[Len(index) + 1] = pending[saved].job
  BY <1>3, <1>4, AppendProperties
<1>6. QED
  BY <1>1, <1>5 DEF List, flushes

LEMMA ListedOneRow ==
  ASSUME IInv, ListOne
  PROVE  /\ ~Batched /\ pc' = "next" /\ at' = at + 1
         /\ index' \in Seq(AnyJob) /\ Len(index') = Len(index) + 1
         /\ \A k \in 1 .. Len(index) : index'[k] = index[k]
         /\ index'[Len(index) + 1] = job
         /\ UNCHANGED <<source, pending_by_frames, wav>>
<1>1. job \in AnyJob /\ index \in Seq(AnyJob) /\ index' = Append(index, job)
  BY DEF ListOne, IInv, Shapes, JobsInv, job
<1>2. /\ index' \in Seq(AnyJob) /\ Len(index') = Len(index) + 1
      /\ \A k \in 1 .. Len(index) : index'[k] = index[k]
      /\ index'[Len(index) + 1] = job
  BY <1>1, AppendProperties
<1>3. QED
  BY <1>2 DEF ListOne

LEMMA SequentialInductive ==
  ASSUME IInv, [Next]_vars
  PROVE  SequentialInv'
<1>1. CASE Start \/ Returns \/ Kill
  BY <1>1 DEF Start, Returns, Kill, SequentialInv, Working
<1>2. CASE UNCHANGED vars
  BY <1>2 DEF vars, IInv, SequentialInv, Working, Batched, source, results
<1>3. CASE Advances
  <2>1. (Batched' <=> Batched) /\ jobs' = jobs
    BY <1>3, RunIsKept DEF source, Batched
  <2>2. CASE SetUp
    <3>1. index' = <<>> /\ at' = at /\ at = 1
      BY <1>3, <2>2 DEF Advances, Going, SetUp, Fails, Return, IInv, JobsInv
    <3>2. QED
      BY <3>1, EmptySeq DEF SequentialInv
  <2>3. CASE ListOne
    <3>1. pc = "list" /\ at \in Nat /\ at <= Len(jobs)
      BY <2>3 DEF ListOne, IInv, Shapes, JobsInv
    <3>2. Len(index) = at - 1 /\ \A k \in 1 .. at - 1 : index[k] = jobs[k]
      BY <2>3, <3>1 DEF ListOne, IInv, SequentialInv, Working
    <3>3. \A k \in 1 .. at + 1 - 1 : index'[k] = jobs[k]
      BY <2>3, <3>1, <3>2, ListedOneRow DEF job
    <3>4. QED
      BY <2>1, <2>3, <3>1, <3>2, <3>3, ListedOneRow DEF SequentialInv
  <2>4. CASE TakeVoice \/ TakeText \/ Synthesize
    <3>1. Working /\ UNCHANGED <<index, at>>
      BY <1>3, <2>4 DEF Advances, Going, TakeVoice, TakeText, Synthesize, Fails, Return,
        results, Working
    <3>2. QED
      BY <2>1, <3>1 DEF IInv, SequentialInv
  <2>5. CASE GenerateCodes \/ Decode \/ Save \/ List \/ Flushed \/ FlushRest
    BY <2>1, <2>5 DEF GenerateCodes, Decode, Save, List, Flushed, FlushRest, IInv,
      JobsInv,
      SequentialInv
  <2>6. QED
    BY <1>3, <2>2, <2>3, <2>4, <2>5 DEF Advances
<1>4. QED
  BY StepCases, <1>1, <1>2, <1>3

-------------------------------------------------------------------------------
(* Batched: a job waits at one place, or is listed.                          *)

\* While nothing is being flushed, every position of a bucket waits.
LEMMA AllWait ==
  ASSUME Listed = 0, NEW n \in FrameCounts
  PROVE  Waits[n] = 1 .. Len(pending_by_frames[n])
BY DEF Waits

\* A step that neither makes codes nor lists a job.
LEMMA WaitingIsKept ==
  ASSUME BatchedInv, Working, Batched,
         UNCHANGED <<jobs, at, index>>,
         \A n \in FrameCounts :
           /\ Waits'[n] = Waits[n]
           /\ \A i \in Waits[n] : pending_by_frames'[n][i].job = pending_by_frames[n][i].job
  PROVE  BatchedInv'
<1>1. RowsAreMade /\ WaitingAreMade /\ PlacesDiffer /\ RowsDoNotWait /\ NothingIsLost
  BY DEF BatchedInv
<1>2. RowsAreMade'
  BY <1>1 DEF RowsAreMade
<1>3. WaitingAreMade'
  <2>1. ASSUME NEW n \in FrameCounts, NEW i \in Waits'[n]
        PROVE  \E l \in 1 .. at - 1 : pending_by_frames'[n][i].job = jobs[l]
    <3>1. i \in Waits[n] /\ pending_by_frames'[n][i].job = pending_by_frames[n][i].job
      OBVIOUS
    <3>2. QED
      BY <1>1, <3>1 DEF WaitingAreMade
  <2>2. QED
    BY <2>1 DEF WaitingAreMade
<1>4. PlacesDiffer'
  <2>1. ASSUME NEW n \in FrameCounts, NEW m \in FrameCounts,
               NEW i \in Waits'[n], NEW k \in Waits'[m],
               pending_by_frames'[n][i].job = pending_by_frames'[m][k].job
        PROVE  n = m /\ i = k
    <3>1. i \in Waits[n] /\ k \in Waits[m]
      OBVIOUS
    <3>2. pending_by_frames[n][i].job = pending_by_frames[m][k].job
      BY <2>1, <3>1
    <3>3. QED
      BY <1>1, <3>1, <3>2 DEF PlacesDiffer
  <2>2. QED
    BY <2>1 DEF PlacesDiffer
<1>5. RowsDoNotWait'
  BY <1>1 DEF RowsDoNotWait
<1>6. NothingIsLost'
  BY <1>1 DEF NothingIsLost
<1>7. QED
  BY <1>2, <1>3, <1>4, <1>5, <1>6 DEF BatchedInv

LEMMA GenerateKeepsPlaces ==
  ASSUME IInv, GenerateCodes, Going
  PROVE  BatchedInv'
<1>1. PICK n \in FrameCounts :
       /\ \A m \in FrameCounts \ {n} : pending_by_frames'[m] = pending_by_frames[m]
       /\ Len(pending_by_frames'[n]) = Len(pending_by_frames[n]) + 1
       /\ \A i \in 1 .. Len(pending_by_frames[n]) :
            pending_by_frames'[n][i] = pending_by_frames[n][i]
       /\ pending_by_frames'[n][Len(pending_by_frames[n]) + 1] =
            [job |-> job, codes |-> Audio(job), frames |-> n]
       /\ pc' \in {"decode", "next"}
  BY Generated DEF IInv
<1>2. /\ pc = "make" /\ Batched /\ at' = at + 1 /\ at \in 1 .. Len(jobs)
      /\ UNCHANGED <<source, index>>
  <2>1. pc = "make" /\ Batched /\ at' = at + 1 /\ UNCHANGED <<source, index>>
    BY DEF GenerateCodes, Going, Fails, Return, results
  <2>2. QED
    BY <2>1 DEF IInv, Shapes, JobsInv
<1> DEFINE len == Len(pending_by_frames[n])
<1>3. \A m \in FrameCounts : Len(pending_by_frames[m]) \in Nat
  BY DEF IInv, Shapes
<1>4. /\ \A m \in FrameCounts : Waits[m] = 1 .. Len(pending_by_frames[m])
      /\ \A m \in FrameCounts \ {n} : Waits'[m] = Waits[m]
      /\ Waits'[n] = Waits[n] \cup {len + 1}
      /\ len + 1 \notin Waits[n]
  <2>1. Listed = 0 /\ Listed' = 0
    BY <1>1, <1>2 DEF Listed
  <2>2. \A m \in FrameCounts : Waits[m] = 1 .. Len(pending_by_frames[m])
    BY <2>1, AllWait
  <2>3. \A m \in FrameCounts : Waits'[m] = 1 .. Len(pending_by_frames'[m])
    BY <2>1 DEF Waits
  <2>4. Waits[n] = 1 .. len /\ Waits'[n] = 1 .. len + 1 /\ len \in Nat
    BY <1>1, <1>3, <2>2, <2>3
  <2>5. \A m \in FrameCounts \ {n} : Waits'[m] = Waits[m]
    BY <1>1, <2>2, <2>3
  <2> HIDE DEF len
  <2>6. 1 .. len + 1 = (1 .. len) \cup {len + 1} /\ len + 1 \notin 1 .. len
    BY <2>4
  <2>7. QED
    BY <2>2, <2>4, <2>5, <2>6
<1>5. /\ \A m \in FrameCounts : \A i \in Waits[m] :
           pending_by_frames'[m][i].job = pending_by_frames[m][i].job
      /\ pending_by_frames'[n][len + 1].job = job
  <2>1. \A m \in FrameCounts \ {n} : \A i \in Waits[m] :
          pending_by_frames'[m][i].job = pending_by_frames[m][i].job
    BY <1>1
  <2>2. \A i \in Waits[n] : pending_by_frames'[n][i].job = pending_by_frames[n][i].job
    BY <1>1, <1>4
  <2>3. pending_by_frames'[n][len + 1].job = job
    BY <1>1
  <2>4. QED
    BY <2>1, <2>2, <2>3
<1> HIDE DEF len
<1>6. job = jobs[at] /\ jobs' = jobs /\ (Batched' <=> Batched)
  BY <1>2 DEF job, source, Batched
<1>7. \A l \in 1 .. at - 1 : jobs[l] # job
  BY <1>2, <1>6 DEF IInv, Shapes, JobsInv
<1>8. RowsAreMade /\ WaitingAreMade /\ PlacesDiffer /\ RowsDoNotWait /\ NothingIsLost
  BY <1>2 DEF IInv, BatchedInv, Working
<1>9. at \in Nat /\ at \in 1 .. at' - 1 /\ \A l \in 1 .. at - 1 : l \in 1 .. at' - 1
  BY <1>2
<1>10. \A k \in DOMAIN index' : \E l \in 1 .. at' - 1 : index'[k] = jobs[l]
  BY <1>2, <1>8, <1>9 DEF RowsAreMade
<1>11. \A m \in FrameCounts : \A i \in Waits'[m] :
         \E l \in 1 .. at' - 1 : pending_by_frames'[m][i].job = jobs[l]
  <2>1. TAKE m \in FrameCounts
  <2>2. TAKE i \in Waits'[m]
  <2>3. CASE i \in Waits[m]
    BY <1>2, <1>5, <1>8, <1>9, <2>3 DEF WaitingAreMade
  <2>4. CASE m = n /\ i = len + 1
    BY <1>5, <1>6, <1>9, <2>4
  <2>5. QED
    BY <1>4, <2>2, <2>3, <2>4
<1>12. \A m \in FrameCounts : \A i \in Waits[m] :
         \E l \in 1 .. at - 1 : pending_by_frames[m][i].job = jobs[l]
  BY <1>2, <1>8 DEF WaitingAreMade
<1>13. \A m \in FrameCounts : \A i \in Waits[m] : pending_by_frames[m][i].job # job
  BY <1>7, <1>12
<1>14. ASSUME NEW m \in FrameCounts, NEW q \in FrameCounts,
              NEW i \in Waits'[m], NEW k \in Waits'[q],
              pending_by_frames'[m][i].job = pending_by_frames'[q][k].job
       PROVE  m = q /\ i = k
  <2>1. CASE i \in Waits[m] /\ k \in Waits[q]
    <3>1. pending_by_frames[m][i].job = pending_by_frames[q][k].job
      BY <1>5, <1>14, <2>1
    <3>2. QED
      BY <1>8, <2>1, <3>1 DEF PlacesDiffer
  <2>2. CASE i \in Waits[m] /\ q = n /\ k = len + 1
    BY <1>5, <1>13, <1>14, <2>2
  <2>3. CASE m = n /\ i = len + 1 /\ k \in Waits[q]
    BY <1>5, <1>13, <1>14, <2>3
  <2>4. CASE m = n /\ i = len + 1 /\ q = n /\ k = len + 1
    BY <2>4
  <2>5. /\ i \in Waits[m] \/ (m = n /\ i = len + 1)
        /\ (k \in Waits[q] \/ (q = n /\ k = len + 1))
    BY <1>4
  <2>6. QED
    BY <2>1, <2>2, <2>3, <2>4, <2>5
<1>15. ASSUME NEW m \in FrameCounts, NEW i \in Waits'[m], NEW k \in DOMAIN index
       PROVE  index[k] # pending_by_frames'[m][i].job
  <2>1. CASE i \in Waits[m]
    BY <1>2, <1>5, <1>8, <2>1 DEF RowsDoNotWait
  <2>2. CASE m = n /\ i = len + 1
    BY <1>2, <1>5, <1>7, <1>8, <2>2 DEF RowsAreMade
  <2>3. QED
    BY <1>4, <2>1, <2>2
<1>16. ASSUME NEW l \in 1 .. at' - 1
       PROVE  \/ \E k \in DOMAIN index : index[k] = jobs[l]
              \/ \E m \in FrameCounts : \E i \in Waits'[m] :
                   pending_by_frames'[m][i].job = jobs[l]
  <2>1. CASE l = at
    BY <1>4, <1>5, <1>6, <2>1
  <2>2. CASE l # at
    <3>1. l \in 1 .. at - 1
      BY <1>2, <2>2
    <3>2. CASE \E k \in DOMAIN index : index[k] = jobs[l]
      BY <3>2
    <3>3. CASE \E m \in FrameCounts : \E i \in Waits[m] :
                 pending_by_frames[m][i].job = jobs[l]
      <4>1. PICK m \in FrameCounts : \E i \in Waits[m] :
              pending_by_frames[m][i].job = jobs[l]
        BY <3>3
      <4>2. PICK i \in Waits[m] : pending_by_frames[m][i].job = jobs[l]
        BY <4>1
      <4>3. i \in Waits'[m] /\ pending_by_frames'[m][i].job = jobs[l]
        BY <1>4, <1>5, <4>2
      <4>4. QED
        BY <4>3
    <3>4. QED
      BY <1>2, <1>8, <3>1, <3>2, <3>3 DEF NothingIsLost
  <2>3. QED
    BY <2>1, <2>2
<1>17. RowsAreMade'
  BY <1>6, <1>10 DEF RowsAreMade
<1>18. WaitingAreMade'
  BY <1>6, <1>11 DEF WaitingAreMade
<1>19. PlacesDiffer'
  BY <1>14 DEF PlacesDiffer
<1>20. RowsDoNotWait'
  BY <1>2, <1>15 DEF RowsDoNotWait
<1>21. NothingIsLost'
  BY <1>2, <1>6, <1>16 DEF NothingIsLost
<1>22. QED
  BY <1>17, <1>18, <1>19, <1>20, <1>21 DEF BatchedInv

LEMMA ListKeepsPlaces ==
  ASSUME IInv, List
  PROVE  BatchedInv'
<1>1. /\ Batched /\ pc = "list" /\ pc' = "save" /\ group \in FrameCounts
      /\ saved \in 1 .. Len(pending)
      /\ index \in Seq(AnyJob) /\ index' \in Seq(AnyJob) /\ Len(index') = Len(index) + 1
      /\ \A k \in 1 .. Len(index) : index'[k] = index[k]
      /\ index'[Len(index) + 1] = pending[saved].job
      /\ UNCHANGED <<source, at, pending_by_frames, group, saved>>
  BY ListedRow DEF List, IInv, Shapes
<1>2. DOMAIN index = 1 .. Len(index) /\ DOMAIN index' = 1 .. Len(index) + 1
      /\ Len(index) \in Nat
  BY <1>1, LenProperties
<1>3. /\ \A n \in FrameCounts \ {group} : Waits'[n] = Waits[n]
      /\ saved \in Waits[group]
      /\ Waits'[group] = Waits[group] \ {saved}
      /\ pending_by_frames[group][saved].job = pending[saved].job
      /\ \A n \in FrameCounts : \A i \in Waits[n] :
           pending_by_frames'[n][i].job = pending_by_frames[n][i].job
  <2>1. /\ Listed = saved - 1 /\ Listed' = saved
        /\ saved \in Nat /\ Len(pending_by_frames[group]) \in Nat
    BY <1>1 DEF Listed, Batched, source, IInv, Shapes
  <2>2. QED
    BY <1>1, <2>1 DEF Waits, pending
<1>4. RowsAreMade /\ WaitingAreMade /\ PlacesDiffer /\ RowsDoNotWait /\ NothingIsLost
  BY <1>1 DEF IInv, BatchedInv, Working
<1> DEFINE row == pending_by_frames[group][saved].job
<1>5. \A k \in DOMAIN index' :
        index'[k] = row \/ (k \in DOMAIN index /\ index'[k] = index[k])
  BY <1>1, <1>2, <1>3
<1>6. Len(index) + 1 \in DOMAIN index' /\ index'[Len(index) + 1] = row
      /\ \A k \in DOMAIN index : k \in DOMAIN index' /\ index'[k] = index[k]
  BY <1>1, <1>2, <1>3
<1>7. \E l \in 1 .. at - 1 : row = jobs[l]
  BY <1>1, <1>3, <1>4 DEF WaitingAreMade
<1> HIDE DEF row
<1>8. \A k \in DOMAIN index' : \E l \in 1 .. at - 1 : index'[k] = jobs[l]
  BY <1>1, <1>4, <1>5, <1>7 DEF RowsAreMade
<1>9. \A n \in FrameCounts : \A i \in Waits'[n] :
        i \in Waits[n] /\ ~(n = group /\ i = saved)
  BY <1>3
<1>10. ASSUME NEW n \in FrameCounts, NEW i \in Waits'[n], NEW k \in DOMAIN index'
       PROVE  index'[k] # pending_by_frames'[n][i].job
  <2>1. /\ i \in Waits[n] /\ ~(n = group /\ i = saved)
        /\ pending_by_frames'[n][i].job = pending_by_frames[n][i].job
    BY <1>3, <1>9
  <2>2. CASE index'[k] = row
    <3>1. group \in FrameCounts /\ saved \in Waits[group]
      BY <1>1, <1>3
    <3>2. pending_by_frames[n][i].job # pending_by_frames[group][saved].job
      <4>1. PlacesDiffer
        BY <1>4
      <4>2. i \in Waits[n] /\ group \in FrameCounts /\ saved \in Waits[group]
        BY <2>1, <3>1
      <4>3. pending_by_frames[n][i].job = pending_by_frames[group][saved].job
              => n = group /\ i = saved
        BY <4>1, <4>2, Zenon DEF PlacesDiffer
      <4>4. QED
        BY <2>1, <4>3
    <3>3. index'[k] = pending_by_frames[group][saved].job
      BY <2>2 DEF row
    <3>4. QED
      BY <2>1, <3>2, <3>3
  <2>3. CASE k \in DOMAIN index /\ index'[k] = index[k]
    BY <1>1, <1>4, <2>1, <2>3 DEF RowsDoNotWait
  <2>4. QED
    BY <1>5, <2>2, <2>3
<1>11. ASSUME NEW l \in 1 .. at - 1
       PROVE  \/ \E k \in DOMAIN index' : index'[k] = jobs[l]
              \/ \E n \in FrameCounts : \E i \in Waits'[n] :
                   pending_by_frames'[n][i].job = jobs[l]
  <2>1. CASE \E k \in DOMAIN index : index[k] = jobs[l]
    BY <1>6, <2>1
  <2>2. CASE \E n \in FrameCounts : \E i \in Waits[n] :
               pending_by_frames[n][i].job = jobs[l]
    <3>1. PICK n \in FrameCounts : \E i \in Waits[n] :
            pending_by_frames[n][i].job = jobs[l]
      BY <2>2
    <3>2. PICK i \in Waits[n] : pending_by_frames[n][i].job = jobs[l]
      BY <3>1
    <3>3. CASE n = group /\ i = saved
      BY <1>6, <3>2, <3>3 DEF row
    <3>4. CASE ~(n = group /\ i = saved)
      BY <1>3, <3>2, <3>4
    <3>5. QED
      BY <3>3, <3>4
  <2>3. QED
    BY <1>1, <1>4, <2>1, <2>2 DEF NothingIsLost
<1>12. \A n \in FrameCounts : \A i \in Waits'[n] :
         \E l \in 1 .. at - 1 : pending_by_frames'[n][i].job = jobs[l]
  BY <1>1, <1>3, <1>4, <1>9 DEF WaitingAreMade
<1>13. \A n, m \in FrameCounts : \A i \in Waits'[n], k \in Waits'[m] :
         pending_by_frames'[n][i].job = pending_by_frames'[m][k].job => n = m /\ i = k
  BY <1>1, <1>3, <1>4, <1>9 DEF PlacesDiffer
<1>14. jobs' = jobs /\ at' = at
  BY <1>1 DEF source
<1>15. RowsAreMade'
  BY <1>8, <1>14 DEF RowsAreMade
<1>16. WaitingAreMade'
  BY <1>12, <1>14 DEF WaitingAreMade
<1>17. PlacesDiffer'
  BY <1>13 DEF PlacesDiffer
<1>18. RowsDoNotWait'
  BY <1>10 DEF RowsDoNotWait
<1>19. NothingIsLost'
  BY <1>11, <1>14 DEF NothingIsLost
<1>20. QED
  BY <1>15, <1>16, <1>17, <1>18, <1>19 DEF BatchedInv

LEMMA FlushedKeepsPlaces ==
  ASSUME IInv, Flushed
  PROVE  BatchedInv'
<1>1. /\ Batched /\ pc = "save" /\ pc' = "next" /\ saved = Count
      /\ UNCHANGED <<source, at, group, index>>
      /\ pending_by_frames' =
           [pending_by_frames EXCEPT ![group] = SubSeq(@, Count + 1, Len(@))]
  BY DEF Flushed, IInv, JobsInv
<1>2. group \in FrameCounts /\ pending \in Seq(Entry) /\ Count = Len(pending)
  BY <1>1, FlushTakesAll DEF IInv
<1>3. SubSeq(pending, Count + 1, Len(pending)) = <<>>
  BY <1>2, SubSeqEmpty
<1>4. /\ pending_by_frames'[group] = <<>>
      /\ \A n \in FrameCounts \ {group} : pending_by_frames'[n] = pending_by_frames[n]
  BY <1>1, <1>2, <1>3 DEF IInv, Shapes, pending
<1>5. Len(pending_by_frames'[group]) = 0
  BY <1>4, EmptySeq
<1>6. Listed = Len(pending) /\ Listed' = 0 /\ Len(pending) \in Nat
  BY <1>1, <1>2 DEF Listed
<1>7. Waits[group] = {} /\ Waits'[group] = {}
  <2>1. Waits[group] = Len(pending) + 1 .. Len(pending)
    BY <1>2, <1>6 DEF Waits, pending
  <2>2. Waits'[group] = 0 + 1 .. 0
    BY <1>1, <1>2, <1>5, <1>6 DEF Waits
  <2>3. Len(pending) + 1 .. Len(pending) = {} /\ 0 + 1 .. 0 = {}
    BY <1>6
  <2>4. QED
    BY <2>1, <2>2, <2>3
<1>8. \A n \in FrameCounts \ {group} :
        /\ Waits'[n] = Waits[n]
        /\ \A i \in Waits[n] : pending_by_frames'[n][i].job = pending_by_frames[n][i].job
  BY <1>1, <1>4, <1>6 DEF Waits
<1>9. \A n \in FrameCounts : /\ Waits'[n] = Waits[n]
                             /\ \A i \in Waits[n] :
                                  pending_by_frames'[n][i].job = pending_by_frames[n][i].job
  BY <1>7, <1>8
<1>10. BatchedInv /\ Working /\ UNCHANGED <<jobs, at, index>>
  BY <1>1 DEF IInv, Working, source
<1>11. QED
  BY <1>1, <1>9, <1>10, WaitingIsKept

LEMMA BatchedInductive ==
  ASSUME IInv, [Next]_vars
  PROVE  BatchedInv'
<1>1. CASE Start \/ Returns \/ Kill
  BY <1>1 DEF Start, Returns, Kill, BatchedInv, Working
<1>2. CASE UNCHANGED vars
  <2>1. /\ UNCHANGED <<pc, jobs, at, index, pending_by_frames, group, saved>>
        /\ (Batched' <=> Batched)
    BY <1>2 DEF vars, Batched, source, flushes, results
  <2>2. Waits' = Waits /\ (Working' <=> Working)
    BY <2>1 DEF Waits, Listed, Working
  <2>3. CASE Working /\ Batched
    BY <2>1, <2>2, <2>3, WaitingIsKept DEF IInv
  <2>4. CASE ~(Working /\ Batched)
    BY <2>1, <2>2, <2>4 DEF BatchedInv
  <2>5. QED
    BY <2>3, <2>4
<1>3. CASE Advances
  <2>1. (Batched' <=> Batched) /\ jobs' = jobs
    BY <1>3, RunIsKept DEF source, Batched
  <2>2. CASE SetUp
    <3>1. /\ pc = "load" /\ pc' = "next" /\ index' = <<>> /\ at' = 1
          /\ UNCHANGED pending_by_frames
      BY <1>3, <2>2 DEF Advances, Going, SetUp, Fails, Return, IInv, JobsInv
    <3>2. \A n \in FrameCounts : pending_by_frames'[n] = <<>>
      BY <2>2, <3>1 DEF IInv, JobsInv
    <3>3. Listed' = 0 /\ Len(<<>>) = 0 /\ DOMAIN <<>> = {}
      BY <3>1, EmptySeq DEF Listed
    <3>4. \A n \in FrameCounts : Waits'[n] = {}
      BY <3>2, <3>3 DEF Waits
    <3>5. DOMAIN index' = {} /\ 1 .. at' - 1 = {}
      BY <3>1, <3>3
    <3>6. RowsAreMade' /\ NothingIsLost'
      BY <3>5 DEF RowsAreMade, NothingIsLost
    <3>7. WaitingAreMade' /\ PlacesDiffer' /\ RowsDoNotWait'
      BY <3>4 DEF WaitingAreMade, PlacesDiffer, RowsDoNotWait
    <3>8. QED
      BY <3>6, <3>7 DEF BatchedInv
  <2>3. CASE ~Batched
    BY <2>1, <2>3 DEF BatchedInv
  <2>4. CASE Batched /\ (TakeVoice \/ TakeText \/ Decode \/ Save)
    <3>1. /\ Working
          /\ UNCHANGED <<at, index, pending_by_frames, group>>
      BY <1>3, <2>4 DEF Advances, Going, TakeVoice, TakeText, Decode, Save, Fails, Return,
        Working, flushes, results
    <3>2. Listed' = Listed
      BY <1>3, <2>1, <2>4 DEF Advances, Going, TakeVoice, TakeText, Decode, Save, Fails,
        Return, Listed, flushes, IInv, Shapes
    <3>3. QED
      BY <2>1, <2>4, <3>1, <3>2, WaitingIsKept DEF Waits, IInv
  <2>5. CASE GenerateCodes
    BY <1>3, <2>5, GenerateKeepsPlaces DEF Advances
  <2>6. CASE List
    BY <2>6, ListKeepsPlaces
  <2>7. CASE Flushed
    BY <2>7, FlushedKeepsPlaces
  <2>8. CASE FlushRest
    <3>1. /\ pc = "next" /\ pc' = "decode" /\ Batched
          /\ UNCHANGED <<at, index, pending_by_frames>>
      BY <2>8 DEF FlushRest, results
    <3>2. Listed = 0 /\ Listed' = 0
      BY <3>1 DEF Listed
    <3>3. \A n \in FrameCounts : Waits'[n] = Waits[n]
      BY <3>1, <3>2 DEF Waits
    <3>4. QED
      BY <2>1, <3>1, <3>3, WaitingIsKept DEF IInv, Working
  <2>9. CASE Synthesize \/ ListOne
    BY <2>1, <2>9 DEF Synthesize, ListOne, BatchedInv
  <2>10. QED
    BY <1>3, <2>2, <2>3, <2>4, <2>5, <2>6, <2>7, <2>8, <2>9 DEF Advances
<1>4. QED
  BY StepCases, <1>1, <1>2, <1>3

-------------------------------------------------------------------------------
(* The WAVs and the index.                                                   *)

\* A WAV that is written is of a job that is not listed.
LEMMA WritesUnlisted ==
  ASSUME IInv, Writing, pc \in {"make", "save"}
  PROVE  /\ \A k \in DOMAIN index : index[k] # Writes
         /\ \E l \in DOMAIN jobs : Writes = jobs[l]
         /\ \A k \in DOMAIN index : \E l \in DOMAIN jobs : index[k] = jobs[l]
<1>1. CASE Batched
  <2>1. pc = "save" /\ saved < Count
    BY <1>1 DEF Writing
  <2>2. group \in FrameCounts /\ Count = Len(pending) /\ saved \in Nat /\ Count \in Nat
    BY <1>1, <2>1, FlushTakesAll DEF IInv, Shapes
  <2>3. Waits[group] = saved + 1 .. Len(pending_by_frames[group])
    BY <1>1, <2>1, <2>2 DEF Waits, Listed
  <2>4. saved + 1 \in Waits[group] /\ Writes = pending_by_frames[group][saved + 1].job
    BY <1>1, <2>1, <2>2, <2>3 DEF Writes, pending
  <2>5. RowsAreMade /\ WaitingAreMade /\ RowsDoNotWait
    BY <1>1, <2>1 DEF IInv, BatchedInv, Working
  <2>6. \A k \in DOMAIN index : index[k] # Writes
    BY <2>2, <2>4, <2>5 DEF RowsDoNotWait
  <2>7. \A l \in 1 .. at - 1 : l \in DOMAIN jobs
    BY DEF IInv, Shapes
  <2>8. \E l \in 1 .. at - 1 : Writes = jobs[l]
    BY <2>2, <2>4, <2>5 DEF WaitingAreMade
  <2>9. QED
    BY <2>5, <2>6, <2>7, <2>8 DEF RowsAreMade
<1>2. CASE ~Batched
  <2>1. pc = "make" /\ Writes = jobs[at]
    BY <1>2 DEF Writing, Writes, job
  <2>2. at \in 1 .. Len(jobs) /\ DOMAIN jobs = 1 .. Len(jobs)
    BY <2>1, LenProperties DEF IInv, Shapes, JobsInv
  <2>3. Len(index) = at - 1 /\ \A k \in 1 .. at - 1 : index[k] = jobs[k]
    BY <1>2, <2>1 DEF IInv, SequentialInv, Working
  <2>4. DOMAIN index = 1 .. at - 1
    BY <2>3, LenProperties DEF IInv, Shapes
  <2>5. \A k \in 1 .. at - 1 : k \in DOMAIN jobs /\ k # at /\ at \in DOMAIN jobs
    BY <2>2
  <2>6. \A k \in DOMAIN index : index[k] # jobs[at]
    BY <2>3, <2>4, <2>5 DEF IInv, JobsInv
  <2>7. QED
    BY <2>1, <2>2, <2>3, <2>4, <2>5, <2>6
<1>3. QED
  BY <1>1, <1>2

\* What a step that writes a WAV or a row does.
LEMMA SavePromised ==
  ASSUME IInv, Going, Synthesize \/ Save
  PROVE  /\ Writing /\ pc \in {"make", "save"}
         /\ wav' = Put(wav, Writes.id, Audio(Writes))
<1>1. CASE Synthesize
  <2>1. pc = "make" /\ ~Batched /\ wav' = Put(wav, job.id, Speech)
    BY <1>1 DEF Synthesize, Going, Fails, Return
  <2>2. Speech = Audio(job)
    BY <2>1 DEF IInv, VoiceInv, Speech, Audio, Promise!Audio
  <2>3. QED
    BY <2>1, <2>2 DEF Writing, Writes
<1>2. CASE Save
  <2>1. /\ pc = "save" /\ Batched /\ saved < Count
        /\ wav' = Put(wav, pending[saved + 1].job.id, decoded[saved + 1])
    BY <1>2 DEF Save, Going, Fails, Return, IInv, JobsInv, SavedAudio
  <2>2. /\ Count \in Nat /\ \A i \in 1 .. Count : pending[i].codes = Audio(pending[i].job)
    BY <2>1, FlushTakesAll DEF IInv
  <2>3. saved + 1 \in 1 .. Count
    BY <2>1, <2>2 DEF IInv, Shapes
  <2>4. decoded[saved + 1] = Audio(pending[saved + 1].job)
    BY <2>1, <2>2, <2>3 DEF IInv, FlushInv
  <2>5. QED
    BY <2>1, <2>4 DEF Writing, Writes
<1>3. QED
  BY <1>1, <1>2

LEMMA RowPromised ==
  ASSUME IInv, List \/ ListOne
  PROVE  \E k \in DOMAIN jobs :
           /\ \A i \in DOMAIN index : index[i] # jobs[k]
           /\ jobs[k].id \in DOMAIN wav /\ wav[jobs[k].id] = Audio(jobs[k])
           /\ index' = Append(index, jobs[k])
<1>1. CASE ListOne
  <2>1. pc = "list" /\ ~Batched /\ index' = Append(index, jobs[at])
    BY <1>1 DEF ListOne, job
  <2>2. at \in 1 .. Len(jobs) /\ DOMAIN jobs = 1 .. Len(jobs)
    BY <2>1, LenProperties DEF IInv, Shapes, JobsInv
  <2>3. Len(index) = at - 1 /\ \A k \in 1 .. at - 1 : index[k] = jobs[k]
    BY <2>1 DEF IInv, SequentialInv, Working
  <2>4. DOMAIN index = 1 .. at - 1
    BY <2>3, LenProperties DEF IInv, Shapes
  <2>5. \A k \in 1 .. at - 1 : k \in DOMAIN jobs /\ k # at /\ at \in DOMAIN jobs
    BY <2>2
  <2>6. \A k \in DOMAIN index : index[k] # jobs[at]
    BY <2>3, <2>4, <2>5 DEF IInv, JobsInv
  <2>7. jobs[at].id \in DOMAIN wav /\ wav[jobs[at].id] = Audio(jobs[at])
    BY <2>1 DEF IInv, FlushInv, job
  <2>8. at \in DOMAIN jobs
    BY <2>2
  <2>9. QED
    BY <2>1, <2>6, <2>7, <2>8
<1>2. CASE List
  <2>1. pc = "list" /\ Batched /\ index' = Append(index, pending[saved].job)
    BY <1>2 DEF List
  <2>2. group \in FrameCounts /\ saved \in 1 .. Len(pending)
    BY <1>2, ListedRow
  <2>3. saved \in Waits[group]
    <3>1. Listed = saved - 1 /\ saved \in Nat
      BY <2>1, <2>2 DEF Listed
    <3>2. Waits[group] = saved - 1 + 1 .. Len(pending)
      BY <2>2, <3>1 DEF Waits, pending
    <3>3. QED
      BY <2>2, <3>1, <3>2
  <2>4. WaitingAreMade /\ RowsDoNotWait
    BY <2>1 DEF IInv, BatchedInv, Working
  <2>5. PICK l \in 1 .. at - 1 : pending[saved].job = jobs[l]
    BY <2>2, <2>3, <2>4 DEF WaitingAreMade, pending
  <2>6. l \in DOMAIN jobs
    BY <2>5 DEF IInv, Shapes
  <2>7. \A k \in DOMAIN index : index[k] # pending[saved].job
    BY <2>2, <2>3, <2>4 DEF RowsDoNotWait, pending
  <2>8. /\ pending[saved].job.id \in DOMAIN wav
        /\ wav[pending[saved].job.id] = Audio(pending[saved].job)
    BY <2>1 DEF IInv, FlushInv
  <2>9. QED
    BY <2>1, <2>5, <2>6, <2>7, <2>8
<1>3. QED
  BY <1>1, <1>2

\* What a step does to the files.
LEMMA FileWrites ==
  ASSUME IInv, [Next]_vars
  PROVE  \/ wav' = wav
         \/ /\ Writing /\ pc \in {"make", "save"}
            /\ \E content \in {Audio(Writes), Incomplete} : wav' = Put(wav, Writes.id, content)
<1>1. CASE Kill
  <2>1. Writing => pc \in {"make", "save"}
    BY DEF Writing
  <2>2. QED
    BY <1>1, <2>1 DEF Kill
<1>2. CASE Going /\ (Synthesize \/ Save)
  BY <1>2, SavePromised
<1>3. CASE Start \/ Returns \/ UNCHANGED vars
  BY <1>3 DEF Start, Returns, vars, results
<1>4. CASE Advances /\ ~Synthesize /\ ~Save
  BY <1>4 DEF Advances, Going, SetUp, TakeVoice, TakeText, ListOne, GenerateCodes, Decode,
    List, Flushed, FlushRest, Fails, Return, results
<1>5. QED
  BY StepCases, <1>1, <1>2, <1>3, <1>4 DEF Advances

\* What a step does to the index and whose index it is.
LEMMA IndexWrites ==
  ASSUME IInv, [Next]_vars
  PROVE  \/ UNCHANGED <<index, index_jobs>>
         \/ /\ Kill /\ index_jobs' = index_jobs
         \/ index' = <<>> /\ index_jobs' = jobs
         \/ Working /\ (List \/ ListOne) /\ index_jobs' = index_jobs
<1>1. CASE Kill
  BY <1>1 DEF Kill
<1>2. CASE Start \/ Returns \/ UNCHANGED vars
  BY <1>2 DEF Start, Returns, vars, results
<1>3. CASE Advances /\ SetUp
  BY <1>3 DEF Advances, Going, SetUp, Fails, Return
<1>4. CASE List \/ ListOne
  BY <1>4 DEF List, ListOne, Working
<1>5. CASE Advances /\ ~SetUp /\ ~List /\ ~ListOne
  BY <1>5 DEF Advances, Going, TakeVoice, TakeText, Synthesize, GenerateCodes, Decode,
    Save, Flushed, FlushRest, Fails, Return, results
<1>6. QED
  BY StepCases, <1>1, <1>2, <1>3, <1>4, <1>5

\* The row that is added is of a job of the run that was not listed.
LEMMA AddedRow ==
  ASSUME IInv, List \/ ListOne
  PROVE  \E l \in DOMAIN jobs :
           /\ \A i \in DOMAIN index : index[i] # jobs[l]
           /\ jobs[l].id \in DOMAIN wav /\ wav[jobs[l].id] = Audio(jobs[l])
           /\ wav' = wav
           /\ DOMAIN index' = 1 .. Len(index) + 1 /\ DOMAIN index = 1 .. Len(index)
           /\ Len(index) \in Nat
           /\ \A k \in 1 .. Len(index) : index'[k] = index[k]
           /\ index'[Len(index) + 1] = jobs[l]
<1>1. PICK l \in DOMAIN jobs :
       /\ \A i \in DOMAIN index : index[i] # jobs[l]
       /\ jobs[l].id \in DOMAIN wav /\ wav[jobs[l].id] = Audio(jobs[l])
       /\ index' = Append(index, jobs[l])
  BY RowPromised
<1>2. index \in Seq(AnyJob) /\ jobs[l] \in AnyJob
  BY <1>1, ElementOfSeq, LenProperties DEF IInv, Shapes
<1>3. /\ Len(index') = Len(index) + 1 /\ index' \in Seq(AnyJob)
      /\ \A k \in 1 .. Len(index) : index'[k] = index[k]
      /\ index'[Len(index) + 1] = jobs[l]
  BY <1>1, <1>2, AppendProperties
<1>4. /\ Len(index) \in Nat /\ DOMAIN index = 1 .. Len(index)
      /\ DOMAIN index' = 1 .. Len(index) + 1
  BY <1>2, <1>3, LenProperties
<1>5. wav' = wav
  BY DEF List, ListOne
<1>6. QED
  BY <1>1, <1>3, <1>4, <1>5

LEMMA RowsInductive ==
  ASSUME IInv, [Next]_vars
  PROVE  RowsInv'
<1>1. RowsDiffer /\ (Working => index_jobs = jobs)
  BY DEF IInv, RowsInv
<1>2. RowsDiffer'
  <2>1. CASE index' = index
    BY <1>1, <2>1 DEF RowsDiffer
  <2>2. CASE Kill
    <3>1. /\ index \in Seq(AnyJob) /\ index' \in Seq(AnyJob)
          /\ Len(index') \in 0 .. Len(index)
          /\ \A k \in 1 .. Len(index') : index'[k] = index[k]
      BY <2>2, KilledIndex DEF IInv, Shapes
    <3>2. DOMAIN index = 1 .. Len(index) /\ DOMAIN index' = 1 .. Len(index')
      BY <3>1, LenProperties
    <3>3. \A k \in DOMAIN index' : k \in DOMAIN index /\ index'[k] = index[k]
      BY <3>1, <3>2
    <3>4. QED
      BY <1>1, <3>3 DEF RowsDiffer
  <2>3. CASE index' = <<>>
    BY <2>3, EmptySeq DEF RowsDiffer
  <2>4. CASE List \/ ListOne
    <3>1. PICK l \in DOMAIN jobs :
           /\ \A i \in DOMAIN index : index[i] # jobs[l]
           /\ DOMAIN index' = 1 .. Len(index) + 1 /\ DOMAIN index = 1 .. Len(index)
           /\ Len(index) \in Nat
           /\ \A k \in 1 .. Len(index) : index'[k] = index[k]
           /\ index'[Len(index) + 1] = jobs[l]
      BY <2>4, AddedRow
    <3>2. \A k \in 1 .. Len(index) + 1 : k \in 1 .. Len(index) \/ k = Len(index) + 1
      BY <3>1
    <3>3. QED
      BY <1>1, <3>1, <3>2 DEF RowsDiffer
  <2>5. QED
    BY <2>1, <2>2, <2>3, <2>4, IndexWrites
<1>3. Working' => index_jobs' = jobs'
  <2>1. CASE Start \/ Returns \/ Kill
    BY <2>1 DEF Start, Returns, Kill, Working
  <2>2. CASE UNCHANGED vars
    BY <1>1, <2>2 DEF vars, results, source, Working
  <2>3. CASE Advances
    <3>1. jobs' = jobs
      BY <2>3, RunIsKept DEF source
    <3>2. CASE SetUp
      BY <2>3, <3>1, <3>2 DEF Advances, Going, SetUp, Fails, Return
    <3>3. CASE ~SetUp
      <4>1. Working /\ index_jobs' = index_jobs
        BY <2>3, <3>3 DEF Advances, Going, TakeVoice, TakeText, Synthesize, ListOne,
          GenerateCodes, Decode, Save, List, Flushed, FlushRest, Fails, Return, results,
          Working
      <4>2. QED
        BY <1>1, <3>1, <4>1
    <3>4. QED
      BY <3>2, <3>3
  <2>4. QED
    BY StepCases, <2>1, <2>2, <2>3
<1>4. QED
  BY <1>2, <1>3 DEF RowsInv

\* What the rows of an index say of the files, given whose index it is.
LastOf(rows, k) == \A l \in DOMAIN rows : rows[l].id = rows[k].id => l <= k

Names(rows, files, of) ==
  \A k \in DOMAIN rows :
    /\ rows[k] \in Range(of)
    /\ rows[k].id \in DOMAIN files
    /\ LastOf(rows, k) =>
         \/ files[rows[k].id] = Audio(rows[k])
         \/ \E j \in Range(of) \ Range(rows) :
              j.id = rows[k].id /\ files[rows[k].id] \in {Audio(j), Incomplete}

LEMMA NamesSaid == IndexNamesFiles <=> Names(index, wav, index_jobs)
BY DEF IndexNamesFiles, IsLast, Names, LastOf, Audio

LEMMA NamesSaidNext == IndexNamesFiles' <=> Names(index', wav', index_jobs')
BY DEF IndexNamesFiles, IsLast, Names, LastOf, Audio

\* The WAV of a job that is not listed may be written or begun.
LEMMA NamesWritten ==
  ASSUME NEW rows, NEW files, NEW of, NEW j \in Range(of) \ Range(rows),
         NEW content \in {Audio(j), Incomplete}, Names(rows, files, of)
  PROVE  Names(rows, Put(files, j.id, content), of)
<1> DEFINE new == Put(files, j.id, content)
<1>1. /\ j.id \in DOMAIN new /\ new[j.id] = content
      /\ \A x \in DOMAIN files : x \in DOMAIN new /\ (x # j.id => new[x] = files[x])
  BY DEF Put
<1> HIDE DEF new
<1>2. ASSUME NEW k \in DOMAIN rows
      PROVE  /\ rows[k] \in Range(of)
             /\ rows[k].id \in DOMAIN new
             /\ LastOf(rows, k) =>
                  \/ new[rows[k].id] = Audio(rows[k])
                  \/ \E i \in Range(of) \ Range(rows) :
                       i.id = rows[k].id /\ new[rows[k].id] \in {Audio(i), Incomplete}
  <2>1. rows[k] \in Range(of) /\ rows[k].id \in DOMAIN new
    BY <1>1 DEF Names
  <2>2. CASE rows[k].id = j.id
    BY <1>1, <2>1, <2>2
  <2>3. CASE rows[k].id # j.id
    <3>1. new[rows[k].id] = files[rows[k].id]
      BY <1>1, <2>3 DEF Names
    <3>2. QED
      BY <2>1, <3>1 DEF Names
  <2>4. QED
    BY <2>2, <2>3
<1>3. QED
  BY <1>2 DEF Names, new

\* A job may be listed when its WAV is there.
LEMMA NamesListed ==
  ASSUME NEW rows, NEW files, NEW of, NEW j \in Range(of) \ Range(rows), NEW more,
         NEW n \in Nat, DOMAIN rows = 1 .. n, DOMAIN more = 1 .. n + 1,
         \A k \in 1 .. n : more[k] = rows[k],
         more[n + 1] = j, j.id \in DOMAIN files, files[j.id] = Audio(j),
         Names(rows, files, of)
  PROVE  Names(more, files, of)
<1>1. ASSUME NEW k \in 1 .. n + 1
      PROVE  /\ more[k] \in Range(of)
             /\ more[k].id \in DOMAIN files
             /\ LastOf(more, k) =>
                  \/ files[more[k].id] = Audio(more[k])
                  \/ \E i \in Range(of) \ Range(more) :
                       i.id = more[k].id /\ files[more[k].id] \in {Audio(i), Incomplete}
  <2>1. CASE k = n + 1
    BY <2>1
  <2>2. CASE k \in 1 .. n
    <3>1. more[k] = rows[k] /\ k \in DOMAIN rows
      BY <2>2
    <3>2. more[k] \in Range(of) /\ more[k].id \in DOMAIN files
      BY <3>1 DEF Names
    <3>3. ASSUME LastOf(more, k)
          PROVE  \/ files[more[k].id] = Audio(more[k])
                 \/ \E i \in Range(of) \ Range(more) :
                      i.id = more[k].id /\ files[more[k].id] \in {Audio(i), Incomplete}
      <4>1. j.id # rows[k].id
        <5>1. n + 1 \in DOMAIN more /\ ~(n + 1 <= k)
          BY <2>2
        <5>2. QED
          BY <3>1, <3>3, <5>1 DEF LastOf
      <4>2. LastOf(rows, k)
        <5>1. \A l \in 1 .. n : l \in DOMAIN more
          OBVIOUS
        <5>2. QED
          BY <3>1, <3>3, <5>1 DEF LastOf
      <4>3. CASE files[rows[k].id] = Audio(rows[k])
        BY <3>1, <4>3
      <4>4. CASE \E i \in Range(of) \ Range(rows) :
                  i.id = rows[k].id /\ files[rows[k].id] \in {Audio(i), Incomplete}
        <5>1. PICK i \in Range(of) \ Range(rows) :
                i.id = rows[k].id /\ files[rows[k].id] \in {Audio(i), Incomplete}
          BY <4>4
        <5>2. i # j
          BY <4>1, <5>1
        <5>3. i \notin Range(more)
          <6>1. \A l \in 1 .. n + 1 : l = n + 1 \/ l \in 1 .. n
            OBVIOUS
          <6>2. \A l \in DOMAIN more : more[l] = j \/ more[l] \in Range(rows)
            BY <6>1 DEF Range
          <6>3. QED
            BY <5>1, <5>2, <6>2 DEF Range
        <5>4. QED
          BY <3>1, <5>1, <5>3
      <4>5. QED
        BY <3>1, <4>2, <4>3, <4>4 DEF Names
    <3>4. QED
      BY <3>2, <3>3
  <2>3. QED
    BY <2>1, <2>2
<1>2. QED
  BY <1>1 DEF Names

\* There is a last row with an id.
LEMMA LastExists ==
  ASSUME NEW rows, NEW n \in Nat, DOMAIN rows = 1 .. n, NEW k \in 1 .. n
  PROVE  \E l \in 1 .. n : rows[l].id = rows[k].id /\ LastOf(rows, l)
<1> DEFINE S == { d \in Nat : d < n /\ rows[n - d].id = rows[k].id }
<1>1. n - k \in S
  <2>1. n - k \in Nat /\ n - k < n /\ n - (n - k) = k
    OBVIOUS
  <2>2. QED
    BY <2>1
<1>2. PICK d \in S : \A e \in S : d <= e
  BY <1>1, LeastExists
<1>3. n - d \in 1 .. n /\ rows[n - d].id = rows[k].id
  BY <1>2
<1>4. ASSUME NEW l \in 1 .. n, rows[l].id = rows[n - d].id PROVE l <= n - d
  <2>1. n - l \in Nat /\ n - l < n /\ n - (n - l) = l
    OBVIOUS
  <2>2. n - l \in S
    BY <1>3, <1>4, <2>1
  <2>3. d <= n - l /\ d \in Nat
    BY <1>2, <2>2
  <2>4. QED
    BY <2>1, <2>3
<1>5. QED
  BY <1>3, <1>4 DEF LastOf

\* The last rows may be lost.
LEMMA NamesLost ==
  ASSUME NEW rows, NEW files, NEW of, NEW less, NEW n \in Nat, NEW m \in 0 .. n,
         DOMAIN rows = 1 .. n, DOMAIN less = 1 .. m,
         \A k \in 1 .. m : less[k] = rows[k],
         \A i, k \in 1 .. n : rows[i] = rows[k] => i = k,
         Names(rows, files, of)
  PROVE  Names(less, files, of)
<1>1. \A k \in 1 .. m : k \in 1 .. n
  OBVIOUS
<1>2. Range(less) \subseteq Range(rows)
  BY <1>1 DEF Range
<1>3. ASSUME NEW k \in 1 .. m
      PROVE  /\ less[k] \in Range(of)
             /\ less[k].id \in DOMAIN files
             /\ LastOf(less, k) =>
                  \/ files[less[k].id] = Audio(less[k])
                  \/ \E i \in Range(of) \ Range(less) :
                       i.id = less[k].id /\ files[less[k].id] \in {Audio(i), Incomplete}
  <2>1. less[k] = rows[k] /\ k \in DOMAIN rows
    BY <1>1
  <2>2. less[k] \in Range(of) /\ less[k].id \in DOMAIN files
    BY <2>1 DEF Names
  <2>3. PICK l \in 1 .. n : rows[l].id = rows[k].id /\ LastOf(rows, l)
    BY <2>1, LastExists
  <2>4. \/ files[rows[k].id] = Audio(rows[l])
        \/ \E i \in Range(of) \ Range(rows) :
             i.id = rows[k].id /\ files[rows[k].id] \in {Audio(i), Incomplete}
    <3>1. l \in DOMAIN rows
      BY <2>3
    <3>2. QED
      BY <2>3, <3>1 DEF Names
  <2>5. CASE \E i \in Range(of) \ Range(rows) :
              i.id = rows[k].id /\ files[rows[k].id] \in {Audio(i), Incomplete}
    BY <1>2, <2>1, <2>2, <2>5
  <2>6. CASE files[rows[k].id] = Audio(rows[l])
    <3>1. CASE LastOf(less, k) /\ l \in 1 .. m
      <4>1. k \in 1 .. n /\ k <= l
        BY <2>1, <2>3 DEF LastOf
      <4>2. l <= k
        <5>1. less[l].id = less[k].id
          BY <2>1, <2>3, <3>1
        <5>2. QED
          BY <3>1, <5>1 DEF LastOf
      <4>3. l = k
        BY <4>1, <4>2
      <4>4. QED
        BY <2>1, <2>2, <2>6, <4>3
    <3>2. CASE l \notin 1 .. m
      <4>1. rows[l] \notin Range(less)
        BY <1>1, <3>2 DEF Range
      <4>2. rows[l] \in Range(of)
        BY <2>3 DEF Names
      <4>3. QED
        BY <2>1, <2>2, <2>3, <2>6, <4>1, <4>2
    <3>3. QED
      BY <2>2, <3>1, <3>2
  <2>7. QED
    BY <2>4, <2>5, <2>6
<1>4. QED
  BY <1>3 DEF Names

LEMMA FilesInductive ==
  ASSUME IInv, [Next]_vars
  PROVE  IndexNamesFiles'
<1>1. Names(index, wav, index_jobs)
  BY NamesSaid DEF IInv
<1>2. Names(index, wav', index_jobs)
  <2>1. CASE wav' = wav
    BY <1>1, <2>1
  <2>2. CASE /\ Writing /\ pc \in {"make", "save"}
             /\ \E content \in {Audio(Writes), Incomplete} :
                  wav' = Put(wav, Writes.id, content)
    <3>1. /\ \A k \in DOMAIN index : index[k] # Writes
          /\ \E l \in DOMAIN jobs : Writes = jobs[l]
      BY <2>2, WritesUnlisted
    <3>2. index_jobs = jobs
      BY <2>2 DEF IInv, RowsInv, Working
    <3>3. Writes \in Range(index_jobs) \ Range(index)
      BY <3>1, <3>2 DEF Range
    <3>4. PICK content \in {Audio(Writes), Incomplete} : wav' = Put(wav, Writes.id, content)
      BY <2>2
    <3>5. Names(index, Put(wav, Writes.id, content), index_jobs)
      BY <1>1, <3>3, NamesWritten
    <3>6. QED
      BY <3>4, <3>5
  <2>3. QED
    BY <2>1, <2>2, FileWrites
<1>3. Names(index', wav', index_jobs')
  <2>1. CASE UNCHANGED <<index, index_jobs>>
    BY <1>2, <2>1
  <2>2. CASE Kill /\ index_jobs' = index_jobs
    <3>1. /\ index \in Seq(AnyJob) /\ index' \in Seq(AnyJob)
          /\ Len(index) \in Nat /\ Len(index') \in 0 .. Len(index)
          /\ \A k \in 1 .. Len(index') : index'[k] = index[k]
      BY <2>2, KilledIndex DEF IInv, Shapes
    <3>2. DOMAIN index = 1 .. Len(index) /\ DOMAIN index' = 1 .. Len(index')
      BY <3>1, LenProperties
    <3>3. \A i, k \in 1 .. Len(index) : index[i] = index[k] => i = k
      BY <3>2 DEF IInv, RowsInv, RowsDiffer
    <3>4. Names(index', wav', index_jobs)
      BY <1>2, <3>1, <3>2, <3>3, NamesLost
    <3>5. QED
      BY <2>2, <3>4
  <2>3. CASE index' = <<>>
    <3>1. DOMAIN index' = {}
      BY <2>3
    <3>2. QED
      BY <3>1 DEF Names
  <2>4. CASE Working /\ (List \/ ListOne) /\ index_jobs' = index_jobs
    <3>1. PICK l \in DOMAIN jobs :
           /\ \A i \in DOMAIN index : index[i] # jobs[l]
           /\ jobs[l].id \in DOMAIN wav /\ wav[jobs[l].id] = Audio(jobs[l])
           /\ wav' = wav
           /\ DOMAIN index' = 1 .. Len(index) + 1 /\ DOMAIN index = 1 .. Len(index)
           /\ Len(index) \in Nat
           /\ \A k \in 1 .. Len(index) : index'[k] = index[k]
           /\ index'[Len(index) + 1] = jobs[l]
      BY <2>4, AddedRow
    <3>2. index_jobs = jobs
      BY <2>4 DEF IInv, RowsInv
    <3>3. jobs[l] \in Range(index_jobs) \ Range(index)
      BY <3>1, <3>2 DEF Range
    <3>4. Names(index', wav, index_jobs)
      BY <1>1, <3>1, <3>3, NamesListed
    <3>5. QED
      BY <2>4, <3>1, <3>4
  <2>5. QED
    BY <2>1, <2>2, <2>3, <2>4, IndexWrites
<1>4. QED
  BY <1>3, NamesSaidNext

\* The vocoder is never asked to decode codes of different lengths.
LEMMA FaultsInductive ==
  ASSUME IInv, [Next]_vars
  PROVE  FailsOnlyOnFaults'
<1> USE DEF FailsOnlyOnFaults
<1>1. CASE Decode
  <2>1. SameLength
    BY <1>1, FlushTakesAll DEF Decode, IInv, JobsInv
  <2>2. CASE Going
    BY <1>1, <2>2 DEF Decode, Return, Going, IInv, outcome
  <2>3. CASE ~Going
    BY <1>1, <2>1, <2>3 DEF Decode, Return, Going
  <2>4. QED
    BY <2>2, <2>3
<1>2. CASE Start
  BY <1>2 DEF Start
<1>3. CASE Kill
  BY <1>3 DEF Kill
<1>4. CASE UNCHANGED vars
  BY <1>4 DEF vars, IInv, outcome
<1>5. CASE SetUp \/ TakeVoice \/ TakeText \/ Synthesize \/ GenerateCodes \/ Save
  <2>1. Fails \/ UNCHANGED outcome
    BY <1>5 DEF SetUp, TakeVoice, TakeText, Synthesize, GenerateCodes, Save
  <2>2. QED
    BY <2>1 DEF Fails, outcome, IInv
<1>6. CASE ListOne \/ List \/ Flushed \/ FlushRest
  BY <1>6 DEF ListOne, List, Flushed, FlushRest, outcome, IInv
<1>7. CASE FinishOneByOne \/ FinishBatched
  BY <1>7 DEF FinishOneByOne, FinishBatched, Return
<1>8. QED
  BY <1>1, <1>2, <1>3, <1>4, <1>5, <1>6, <1>7 DEF Next, Step

-------------------------------------------------------------------------------
(* The theorems.                                                             *)

LEMMA InitInv == Init => IInv
<1> SUFFICES ASSUME Init PROVE IInv
  OBVIOUS
<1>1. <<>> \in Seq(AnyJob) /\ <<>> \in Seq(Entry) /\ Len(<<>>) = 0 /\ DOMAIN <<>> = {}
  BY EmptySeq
<1>2. Shapes
  <2>1. pending_by_frames \in [FrameCounts -> Seq(Entry)]
    BY <1>1 DEF Init
  <2>2. jobs = <<>> /\ index = <<>> /\ at \in 1 .. Len(jobs) + 1
    BY <1>1 DEF Init
  <2>3. /\ runs \in 0 .. MaxRuns /\ batch_size \in Nat \ {0}
        /\ saved \in Nat /\ on_disk \in Nat
    BY DEF Init
  <2>4. QED
    BY <1>1, <2>1, <2>2, <2>3 DEF Init, Shapes
<1>3. JobsInv
  BY <1>1 DEF Init, JobsInv, Batched
<1>4. VoiceInv
  BY DEF Init, VoiceInv, Paths
<1>5. BucketInv
  <2>1. \A n \in FrameCounts : pending_by_frames[n] = <<>>
    BY DEF Init
  <2>2. QED
    BY <1>1, <2>1 DEF Init, BucketInv, Batched
<1>6. FlushInv
  BY <1>1 DEF Init, FlushInv
<1>7. SequentialInv /\ BatchedInv
  BY DEF Init, SequentialInv, BatchedInv, Working
<1>8. DiskInv
  BY <1>1 DEF Init, DiskInv, Listed
<1>9. IndexNamesFiles /\ FailsOnlyOnFaults
  BY <1>1 DEF Init, IndexNamesFiles, FailsOnlyOnFaults
<1>10. RowsInv
  BY <1>1 DEF Init, RowsInv, RowsDiffer, Working
<1>11. QED
  BY <1>2, <1>3, <1>4, <1>5, <1>6, <1>7, <1>8, <1>9, <1>10 DEF IInv

LEMMA NextInv == IInv /\ [Next]_vars => IInv'
<1> SUFFICES ASSUME IInv, [Next]_vars PROVE IInv'
  OBVIOUS
<1>1. Shapes' /\ JobsInv' /\ VoiceInv' /\ BucketInv' /\ FlushInv'
  BY ShapesInductive, JobsInductive, VoiceInductive, BucketInductive, FlushInductive
<1>2. SequentialInv' /\ BatchedInv' /\ DiskInv'
  BY SequentialInductive, BatchedInductive, DiskInductive
<1>3. IndexNamesFiles' /\ FailsOnlyOnFaults'
  BY FilesInductive, FaultsInductive
<1>4. RowsInv'
  BY RowsInductive
<1>5. QED
  BY <1>1, <1>2, <1>3, <1>4 DEF IInv

\* The invariant of the batch runner, for all inputs, batch sizes and frame counts and
\* any number of runs in one directory, with failing calls and kills anywhere.
THEOREM Invariant == Spec => []IInv
BY InitInv, NextInv, PTL DEF Spec

\* A row of the index, also as a killed run leaves it, names a WAV of its run: its own
\* job's, complete, unless another job of the run has the same id, and then that of the
\* last row with the id or of such a job not yet listed (the saves and rows of flush,
\* the loop over the jobs, and a product whose ids nothing compares).
THEOREM IndexIsTrue == Spec => []IndexNamesFiles
<1>1. IInv => IndexNamesFiles
  BY DEF IInv
<1>2. QED
  BY Invariant, <1>1, PTL

\* What a batch decodes together has equal frame counts, so that it fails only when a
\* call that does its own work fails.
THEOREM FailuresAreFaults == Spec => []FailsOnlyOnFaults
<1>1. IInv => FailsOnlyOnFaults
  BY DEF IInv
<1>2. QED
  BY Invariant, <1>1, PTL

\* Killed at any time, a run loses the rows of at most one physical batch.
THEOREM LossStaysBounded == Spec => []LossIsBounded
<1>1. ASSUME IInv PROVE LossIsBounded
  <2>1. /\ on_disk \in Nat /\ batch_size \in Nat \ {0} /\ saved \in Nat
        /\ on_disk + Listed = Len(index)
    BY <1>1 DEF IInv, Shapes, DiskInv
  <2>2. CASE Batched /\ pc \in {"save", "list"}
    <3>1. Count \in 1 .. batch_size
      BY <1>1, <2>2, FlushTakesAll DEF IInv
    <3>2. saved <= Count /\ (pc = "list" => saved > 0)
      BY <1>1, <2>2 DEF IInv, FlushInv
    <3>3. QED
      BY <2>1, <2>2, <3>1, <3>2 DEF LossIsBounded, Listed
  <2>3. CASE ~(Batched /\ pc \in {"save", "list"})
    BY <2>1, <2>3 DEF LossIsBounded, Listed
  <2>4. QED
    BY <2>2, <2>3
<1>2. QED
  BY Invariant, <1>1, PTL

ChoicesInv ==
  /\ batch_size \in BatchSizes \cup {1}
  /\ exit \in {"none", "ok", "refused", "failed", "killed"}
  /\ pc # "start" => exit = "none"

LEMMA ChoicesInductive == ChoicesInv /\ [Next]_vars => ChoicesInv'
<1> SUFFICES ASSUME ChoicesInv, [Next]_vars PROVE ChoicesInv'
  OBVIOUS
<1> USE DEF ChoicesInv
<1>1. CASE Start
  BY <1>1 DEF Start
<1>2. CASE Kill
  BY <1>2 DEF Kill, source
<1>3. CASE UNCHANGED vars
  BY <1>3 DEF vars, source, outcome
<1>4. CASE SetUp \/ TakeVoice \/ TakeText \/ Synthesize \/ GenerateCodes \/ Save
  <2>1. UNCHANGED source /\ (Fails \/ UNCHANGED outcome) /\ pc # "start"
    BY <1>4 DEF SetUp, TakeVoice, TakeText, Synthesize, GenerateCodes, Save, Fails
  <2>2. QED
    BY <2>1 DEF Fails, Return, source, outcome
<1>5. CASE ListOne \/ List \/ Flushed \/ FlushRest
  BY <1>5 DEF ListOne, List, Flushed, FlushRest, source, outcome
<1>6. CASE FinishOneByOne \/ FinishBatched \/ Decode
  BY <1>6 DEF FinishOneByOne, FinishBatched, Decode, Return, source, outcome
<1>7. QED
  BY <1>1, <1>2, <1>3, <1>4, <1>5, <1>6 DEF Next, Step

\* The variables have their types, and a bucket never holds more than one physical
\* batch, whatever the frame counts are.
THEOREM TypeCorrect == Spec => []TypeOK
<1>1. Init => ChoicesInv
  BY DEF Init, ChoicesInv
<1>2. ASSUME ChoicesInv, IInv PROVE TypeOK
  <2>1. on_disk \in 0 .. Len(index)
    <3>1. Listed \in Nat
      BY <1>2 DEF IInv, Shapes, FlushInv, Listed
    <3>2. on_disk \in Nat /\ Len(index) \in Nat /\ on_disk + Listed = Len(index)
      BY <1>2 DEF IInv, Shapes, DiskInv
    <3>3. QED
      BY <3>1, <3>2
  <2>2. saved \in 0 .. Len(decoded)
    <3>1. saved \in Nat /\ saved <= Len(decoded) /\ Len(decoded) \in Nat
      BY <1>2, EmptySeq DEF IInv, Shapes, FlushInv
    <3>2. QED
      BY <3>1
  <2>3. {speaker, loaded_voice_path, batch_text, loaded_transcript_path} \subseteq Paths
    BY <1>2 DEF IInv, VoiceInv
  <2>4. \A n \in FrameCounts : Len(pending_by_frames[n]) <= batch_size
    BY <1>2 DEF IInv, BucketInv
  <2>5. QED
    BY <1>2, <2>1, <2>2, <2>3, <2>4 DEF ChoicesInv, IInv, Shapes, TypeOK
<1>3. QED
  BY <1>1, <1>2, Invariant, ChoicesInductive, PTL DEF Spec

-------------------------------------------------------------------------------
(* Voices.                                                                   *)

\* The last job whose voice the wrapper holds.
Taken ==
  IF pc \in {"text", "make"} \/ (pc = "list" /\ ~Batched) THEN at ELSE at - 1

\* Which voice of a product a job has: the outermost loop is over the voices.
VoiceOf(k) == VoicePlace(Len(BatchSeeds(input.seeds)), Len(input.transcripts), k)

\* A product has not loaded more embeddings than it has come past voices.
LoadsInv ==
  input.kind = "product" =>
    /\ input \in Inputs
    /\ voice_loads \in Nat /\ voice_loads <= Len(input.voices)
    /\ pc # "start" => Accepted(input) /\ jobs = Jobs(input)
    /\ pc # "start" /\ Taken = 0 => voice_loads = 0
    /\ pc # "start" /\ Taken > 0 =>
         voice_loads <= VoiceOf(Taken) /\ loaded_voice_path = jobs[Taken].voice

\* The jobs of a product go through its voices one after the other.
LEMMA VoicesInOrder ==
  ASSUME NEW in \in Inputs, in.kind = "product", Accepted(in)
  PROVE  LET B(k) == VoicePlace(Len(BatchSeeds(in.seeds)), Len(in.transcripts), k)
         IN  /\ \A k \in DOMAIN Jobs(in) :
                  /\ B(k) \in 1 .. Len(in.voices)
                  /\ Jobs(in)[k].voice = in.voices[B(k)].path
             /\ \A k \in Nat \ {0} : B(k) \in Nat \ {0} /\ B(k + 1) \in {B(k), B(k) + 1}
<1> DEFINE n == Len(BatchSeeds(in.seeds))
           t == Len(in.transcripts)
           v == Len(in.voices)
           N == n * t * v
<1>1. /\ n \in Nat \ {0} /\ t \in Nat \ {0} /\ v \in Nat \ {0}
      /\ DOMAIN Jobs(in) = 1 .. N
      /\ \A k \in 1 .. N :
           Jobs(in)[k] = ProductJob(in.transcripts[TextPlace(n, t, k)],
                                    in.voices[VoicePlace(n, t, k)],
                                    BatchSeeds(in.seeds)[SeedPlace(n, k)])
  BY ProductJobs
<1> HIDE DEF n, t, v
<1>2. \A k \in 1 .. N : VoicePlace(n, t, k) \in 1 .. v
  BY <1>1, Places
<1>3. \A k \in 1 .. N : Jobs(in)[k].voice = in.voices[VoicePlace(n, t, k)].path
  BY <1>1 DEF ProductJob
<1>4. ASSUME NEW k \in Nat \ {0}
      PROVE  /\ VoicePlace(n, t, k) \in Nat \ {0}
             /\ VoicePlace(n, t, k + 1) \in {VoicePlace(n, t, k), VoicePlace(n, t, k) + 1}
  <2> DEFINE a == k - 1
             b == a \div n
             d == (a + 1) \div n
  <2>1. a \in Nat /\ k + 1 - 1 = a + 1
    OBVIOUS
  <2> HIDE DEF a
  <2>2. b \in Nat /\ d \in {b, b + 1}
    BY <1>1, <2>1, Division, NextQuotient
  <2> HIDE DEF b, d
  <2>3. b \div t \in Nat /\ d \div t \in {b \div t, b \div t + 1}
    BY <1>1, <2>2, Division, NextQuotient
  <2>4. VoicePlace(n, t, k) = b \div t + 1 /\ VoicePlace(n, t, k + 1) = d \div t + 1
    BY <2>1 DEF VoicePlace, a, b, d
  <2>5. QED
    BY <2>3, <2>4
<1>5. QED
  BY <1>1, <1>2, <1>3, <1>4 DEF n, t, v

LEMMA LoadsInductive ==
  ASSUME IInv, LoadsInv, [Next]_vars
  PROVE  LoadsInv'
<1>1. CASE Start
  <2>1. PICK in \in Inputs :
          /\ input' = in
          /\ \/ Accepted(in) /\ jobs' = Jobs(in) /\ pc' = "load"
             \/ pc' = "start"
    BY <1>1 DEF Start
  <2>2. at' = 1 /\ voice_loads' = 0
    BY <1>1 DEF Start
  <2>3. in.kind = "product" => Len(in.voices) \in Nat
    BY BatchAssumption, LenProperties DEF IsList
  <2>4. pc' = "load" => Taken' = 0
    BY <2>2 DEF Taken
  <2>5. QED
    BY <2>1, <2>2, <2>3, <2>4 DEF LoadsInv
<1>2. CASE Returns \/ Kill
  BY <1>2 DEF Returns, Kill, LoadsInv, source, loaded
<1>3. CASE UNCHANGED vars
  <2>1. /\ UNCHANGED <<input, jobs, pc, at, voice_loads, loaded_voice_path>>
        /\ (Batched' <=> Batched)
    BY <1>3 DEF vars, source, loaded, Batched
  <2>2. Taken' = Taken /\ VoiceOf(Taken)' = VoiceOf(Taken)
    BY <2>1 DEF Taken, VoiceOf
  <2>3. QED
    BY <2>1, <2>2 DEF LoadsInv
<1>4. CASE Advances
  <2>1. /\ input' = input /\ jobs' = jobs /\ (Batched' <=> Batched)
        /\ at \in 1 .. Len(jobs) + 1 /\ jobs \in Seq(AnyJob)
    BY <1>4, RunIsKept DEF source, Batched, IInv, Shapes
  <2>2. pc # "start" /\ pc' # "start"
    BY <1>4 DEF Advances, Going, SetUp, TakeVoice, TakeText, Synthesize, ListOne,
      GenerateCodes, Decode, Save, List, Flushed, FlushRest
  <2>3. CASE TakeVoice
    <3>1. /\ pc = "next" /\ pc' = "text" /\ at' = at /\ at \in 1 .. Len(jobs)
          /\ \/ /\ job.voice = loaded_voice_path
                /\ UNCHANGED <<voice_loads, loaded_voice_path>>
             \/ /\ job.voice # loaded_voice_path
                /\ voice_loads' = voice_loads + 1 /\ loaded_voice_path' = job.voice
      BY <1>4, <2>1, <2>3 DEF TakeVoice, NeedsVoice, Advances, Going, Fails, Return,
        loaded
    <3>2. Taken = at - 1 /\ Taken' = at
      BY <3>1 DEF Taken
    <3>3. loaded_voice_path' = jobs[at].voice
      BY <3>1 DEF job
    <3>4. SUFFICES ASSUME input.kind = "product"
                   PROVE  LoadsInv'
      BY <2>1 DEF LoadsInv
    <3>5. /\ input \in Inputs /\ Accepted(input) /\ jobs = Jobs(input)
          /\ voice_loads \in Nat /\ voice_loads' \in Nat
      BY <2>2, <3>1, <3>4 DEF LoadsInv
    <3>6. /\ \A k \in DOMAIN jobs :
               /\ VoiceOf(k) \in 1 .. Len(input.voices)
               /\ jobs[k].voice = input.voices[VoiceOf(k)].path
          /\ \A k \in Nat \ {0} :
               VoiceOf(k) \in Nat \ {0} /\ VoiceOf(k + 1) \in {VoiceOf(k), VoiceOf(k) + 1}
      BY <3>4, <3>5, VoicesInOrder DEF VoiceOf
    <3>7. Len(input.voices) \in Nat
      BY <3>4, <3>5, BatchAssumption, LenProperties DEF IsList
    <3>8. DOMAIN jobs = 1 .. Len(jobs) /\ Len(jobs) \in Nat
      BY <2>1, LenProperties
    <3>9. voice_loads' <= VoiceOf(at)
      <4>1. VoiceOf(at) \in Nat \ {0}
        BY <3>1, <3>6, <3>8
      <4>2. CASE at = 1
        <5>1. voice_loads = 0
          BY <2>2, <3>2, <3>4, <4>2 DEF LoadsInv
        <5>2. QED
          BY <3>1, <4>1, <5>1
      <4>3. CASE at # 1
        <5> DEFINE h == at - 1
        <5>1. h \in Nat \ {0} /\ at = h + 1 /\ h \in DOMAIN jobs /\ at \in DOMAIN jobs
          BY <3>1, <3>8, <4>3
        <5>2. Taken = h
          BY <3>2
        <5> HIDE DEF h
        <5>3. voice_loads <= VoiceOf(h) /\ loaded_voice_path = jobs[h].voice
          BY <2>2, <3>4, <5>1, <5>2 DEF LoadsInv
        <5>4. VoiceOf(h) \in Nat /\ VoiceOf(at) \in {VoiceOf(h), VoiceOf(h) + 1}
          BY <3>6, <5>1
        <5>5. VoiceOf(at) = VoiceOf(h) => job.voice = loaded_voice_path
          BY <3>6, <5>1, <5>3 DEF job
        <5>6. QED
          BY <3>1, <3>5, <5>3, <5>4, <5>5
      <4>4. QED
        BY <4>2, <4>3
    <3>10. voice_loads' <= Len(input.voices)
      <4>1. VoiceOf(at) \in 1 .. Len(input.voices)
        BY <3>1, <3>6, <3>8
      <4>2. voice_loads' \in Nat
        BY <3>5
      <4>3. QED
        BY <3>7, <3>9, <4>1, <4>2
    <3>11. VoiceOf(Taken)' = VoiceOf(at)
      BY <2>1, <3>2 DEF VoiceOf
    <3>12. Taken' > 0
      BY <3>1, <3>2
    <3>13. QED
      BY <2>1, <2>2, <3>2, <3>3, <3>5, <3>9, <3>10, <3>11, <3>12 DEF LoadsInv
  <2>4. CASE ~TakeVoice
    <3>1. UNCHANGED <<voice_loads, loaded_voice_path>>
      BY <1>4, <2>4 DEF Advances, Going, SetUp, TakeText, Synthesize, ListOne,
        GenerateCodes, Decode, Save, List, Flushed, FlushRest, Fails, Return, loaded
    <3>2. Taken' = Taken
      <4>1. CASE SetUp \/ TakeText \/ Synthesize \/ ListOne
        BY <1>4, <2>1, <4>1 DEF Advances, Going, SetUp, TakeText, Synthesize, ListOne,
          Fails, Return, Taken
      <4>2. CASE GenerateCodes
        <5>1. pc = "make" /\ Batched /\ pc' \in {"decode", "next"} /\ at' = at + 1
          BY <1>4, <4>2, Generated DEF GenerateCodes, IInv, Advances, Going, Fails,
            Return
        <5>2. QED
          BY <2>1, <5>1 DEF Taken
      <4>3. CASE Decode \/ Save \/ List \/ Flushed \/ FlushRest
        BY <1>4, <2>1, <4>3 DEF Advances, Going, Decode, Save, List, Flushed, FlushRest,
          Fails, Return, Taken, IInv, JobsInv
      <4>4. QED
        BY <1>4, <2>4, <4>1, <4>2, <4>3 DEF Advances
    <3>3. VoiceOf(Taken)' = VoiceOf(Taken)
      BY <2>1, <3>2 DEF VoiceOf
    <3>4. QED
      BY <2>1, <2>2, <3>1, <3>2, <3>3 DEF LoadsInv
  <2>5. QED
    BY <2>3, <2>4
<1>5. QED
  BY StepCases, <1>1, <1>2, <1>3, <1>4

\* A product loads each of its voices once at most, however many texts and seeds it
\* has, because a voice is loaded only when the outermost loop goes on to it.
THEOREM VoicesLoadedOnce == Spec => []VoiceLoadedOnce
<1>1. Init => LoadsInv
  BY DEF Init, LoadsInv
<1>2. LoadsInv => VoiceLoadedOnce
  BY DEF LoadsInv, VoiceLoadedOnce
<1>3. QED
  BY <1>1, <1>2, Invariant, LoadsInductive, PTL DEF Spec

-------------------------------------------------------------------------------
(* Batch results.                                                            *)

\* The rows are all of the jobs when there is nothing left to do.
LEMMA AllListed ==
  ASSUME IInv, FinishOneByOne \/ FinishBatched
  PROVE  Range(index) = Range(jobs)
<1>1. /\ Working /\ at > Len(jobs) /\ pc = "next"
      /\ Batched => Waiting = {}
  BY DEF FinishOneByOne, FinishBatched, Working
<1>2. /\ at = Len(jobs) + 1 /\ DOMAIN jobs = 1 .. at - 1
      /\ index \in Seq(AnyJob) /\ DOMAIN index = 1 .. Len(index)
  BY <1>1, LenProperties DEF IInv, Shapes
<1>3. CASE ~Batched
  <2>1. Len(index) = at - 1 /\ \A k \in 1 .. at - 1 : index[k] = jobs[k]
    BY <1>1, <1>3 DEF IInv, SequentialInv
  <2>2. DOMAIN index = DOMAIN jobs /\ \A k \in DOMAIN jobs : index[k] = jobs[k]
    BY <1>2, <2>1
  <2>3. QED
    BY <2>2 DEF Range
<1>4. CASE Batched
  <2>1. RowsAreMade /\ NothingIsLost
    BY <1>1, <1>4 DEF IInv, BatchedInv
  <2>2. \A n \in FrameCounts : pending_by_frames[n] = <<>>
    BY <1>1, <1>4 DEF Waiting
  <2>3. Listed = 0
    BY <1>1 DEF Listed
  <2>4. \A n \in FrameCounts : Waits[n] = {}
    <3>1. \A n \in FrameCounts : Waits[n] = 1 .. Len(pending_by_frames[n])
      BY <2>3, AllWait
    <3>2. \A n \in FrameCounts : Len(pending_by_frames[n]) = 0
      BY <2>2, EmptySeq
    <3>3. QED
      BY <3>1, <3>2
  <2>5. \A k \in DOMAIN index : \E l \in DOMAIN jobs : index[k] = jobs[l]
    BY <1>2, <2>1 DEF RowsAreMade
  <2>6. \A l \in DOMAIN jobs : \E k \in DOMAIN index : index[k] = jobs[l]
    BY <1>2, <2>1, <2>4 DEF NothingIsLost
  <2>7. QED
    BY <2>5, <2>6 DEF Range
<1>5. QED
  BY <1>3, <1>4

LEMMA BreakPromised ==
  ASSUME IInv, ChoicesInv, Kill, Working
  PROVE  Promise!Break
<1>1. /\ ~Working' /\ jobs' = jobs /\ exit = "none" /\ exit' = "killed"
  BY DEF Kill, Working, ChoicesInv, source
<1>2. \E n \in 0 .. Len(index) : index' = SubSeq(index, 1, n)
  BY DEF Kill, IInv, Shapes
<1>3. CASE wav' = wav
  BY <1>1, <1>2, <1>3 DEF Promise!Break
<1>4. CASE wav' # wav
  <2>1. Writing /\ pc \in {"make", "save"} /\ wav' = Put(wav, Writes.id, Incomplete)
    BY <1>4 DEF Kill, Writing
  <2>2. PICK l \in DOMAIN jobs : Writes = jobs[l]
    BY <2>1, WritesUnlisted
  <2>3. \A k \in DOMAIN index : index[k] # jobs[l]
    BY <2>1, <2>2, WritesUnlisted
  <2>4. wav' = Promise!Put(wav, jobs[l].id, <<>>)
    BY <2>1, <2>2, PromisePut DEF Incomplete
  <2>5. QED
    BY <1>1, <1>2, <2>2, <2>3, <2>4 DEF Promise!Break, Promise!Open, Promise!Range, Promise!Incomplete
<1>5. QED
  BY <1>3, <1>4

LEMMA StepPromised ==
  IInv /\ ChoicesInv /\ [Next]_vars => [Promise!Next]_(Promise!vars)
<1> SUFFICES ASSUME IInv, ChoicesInv, [Next]_vars
             PROVE  Promise!Next \/ UNCHANGED Promise!vars
  OBVIOUS
<1>1. CASE Start
  <2>1. ~Working /\ ~Working' /\ exit' # "ok" /\ UNCHANGED <<wav, index>>
    BY <1>1 DEF Start, Working, results
  <2>2. Promise!Attempt
    BY <2>1 DEF Promise!Attempt, Working
  <2>3. QED
    BY <2>2 DEF Promise!Next
<1>2. CASE Kill
  <2>1. CASE Working
    BY <1>2, <2>1, BreakPromised DEF Promise!Next
  <2>2. CASE ~Working
    <3>1. pc = "load" /\ pc' = "start" /\ exit' = "killed" /\ wav' = wav
      BY <1>2, <2>2 DEF Kill, Working, Writing
    <3>2. Len(index') = Len(index) /\ index' = index
      <4>1. PICK n \in on_disk .. Len(index) : index' = SubSeq(index, 1, n) /\ on_disk' = n
        BY <1>2 DEF Kill
      <4>2. on_disk = Len(index) /\ Len(index) \in Nat /\ index \in Seq(AnyJob)
        BY <3>1 DEF IInv, DiskInv, Listed, Shapes
      <4>3. n = Len(index)
        BY <4>2
      <4>4. /\ index' \in Seq(AnyJob) /\ Len(index') = n
            /\ \A k \in 1 .. Len(index') : index'[k] = index[k]
        BY <1>2, <4>1, KilledIndex
      <4>5. QED
        BY <4>2, <4>3, <4>4, SeqEqual
    <3>3. Promise!Attempt
      BY <2>2, <3>1, <3>2 DEF Promise!Attempt, Working
    <3>4. QED
      BY <3>3 DEF Promise!Next
  <2>3. QED
    BY <2>1, <2>2
<1>3. CASE UNCHANGED vars
  <2>1. UNCHANGED <<pc, jobs, wav, index, exit>>
    BY <1>3 DEF vars, source, results, outcome
  <2>2. QED
    BY <2>1 DEF Promise!vars, Working
<1>4. CASE Returns /\ ~Kill
  <2>1. pc # "start" /\ pc' = "start" /\ UNCHANGED <<jobs, wav, index>> /\ exit = "none"
    BY <1>4 DEF Returns, source, ChoicesInv
  <2>2. CASE FinishOneByOne \/ FinishBatched
    <3>1. Working /\ ~Working' /\ exit' = "ok"
      BY <2>2 DEF FinishOneByOne, FinishBatched, Return, Working
    <3>2. Range(index) = Range(jobs)
      BY <2>2, AllListed
    <3>3. Promise!Finish
      BY <2>1, <3>1, <3>2 DEF Promise!Finish, Promise!Range, Range, Working
    <3>4. QED
      BY <3>3 DEF Promise!Next
  <2>3. CASE exit' # "ok"
    <3>1. CASE Working
      <4>1. index \in Seq(AnyJob) /\ Len(index) \in Nat
        BY DEF IInv, Shapes
      <4>2. SubSeq(index, 1, Len(index)) = index
        <5>1. \A k \in 1 .. Len(index) : index[k] \in AnyJob
          BY <4>1, ElementOfSeq
        <5>2. /\ SubSeq(index, 1, Len(index)) \in Seq(AnyJob)
              /\ Len(SubSeq(index, 1, Len(index))) =
                   IF 1 <= Len(index) THEN Len(index) - 1 + 1 ELSE 0
              /\ \A k \in 1 .. Len(index) - 1 + 1 :
                   SubSeq(index, 1, Len(index))[k] = index[1 + k - 1]
          BY <4>1, <5>1, SubSeqProperties
        <5>3. Len(SubSeq(index, 1, Len(index))) = Len(index)
          BY <4>1, <5>2
        <5>4. \A k \in 1 .. Len(index) : k \in 1 .. Len(index) - 1 + 1 /\ 1 + k - 1 = k
          BY <4>1
        <5>5. \A k \in 1 .. Len(index) : SubSeq(index, 1, Len(index))[k] = index[k]
          BY <5>2, <5>4
        <5>6. QED
          BY <4>1, <5>2, <5>3, <5>5, SeqEqual
      <4>3. \E n \in 0 .. Len(index) : index' = SubSeq(index, 1, n)
        <5>1. Len(index) \in 0 .. Len(index) /\ index' = index
          BY <2>1, <4>1
        <5>2. QED
          BY <4>2, <5>1
      <4>4. Promise!Break
        BY <2>1, <2>3, <3>1, <4>3 DEF Promise!Break, Working
      <4>5. QED
        BY <4>4 DEF Promise!Next
    <3>2. CASE ~Working
      <4>1. Promise!Attempt
        BY <2>1, <2>3, <3>2 DEF Promise!Attempt, Working
      <4>2. QED
        BY <4>1 DEF Promise!Next
    <3>3. QED
      BY <3>1, <3>2
  <2>4. exit' # "ok" \/ FinishOneByOne \/ FinishBatched
    <3>1. CASE SetUp \/ TakeVoice \/ TakeText \/ Synthesize \/ GenerateCodes \/ Save
      <4>1. Fails \/ UNCHANGED outcome
        BY <3>1 DEF SetUp, TakeVoice, TakeText, Synthesize, GenerateCodes, Save
      <4>2. QED
        BY <2>1, <4>1 DEF Fails, Return, outcome
    <3>2. CASE ListOne \/ List \/ Flushed \/ FlushRest \/ Decode \/ Start
      BY <2>1, <3>2 DEF ListOne, List, Flushed, FlushRest, Decode, Start, Return, outcome
    <3>3. CASE UNCHANGED vars
      BY <2>1, <3>3 DEF vars
    <3>4. QED
      BY <1>4, <3>1, <3>2, <3>3 DEF Next, Step
  <2>5. QED
    BY <2>2, <2>3, <2>4
<1>5. CASE Advances
  <2>1. /\ jobs' = jobs /\ pc # "start" /\ exit = "none" /\ exit' = "none"
        /\ Working' /\ (Working \/ SetUp)
    BY <1>5, RunIsKept, Generated DEF IInv, ChoicesInv, Advances, Going, SetUp,
      TakeVoice, TakeText,
      Synthesize, ListOne, GenerateCodes, Decode, Save, List, Flushed, FlushRest, Fails,
      Return, source, outcome, Working
  <2>2. CASE SetUp
    <3>1. pc = "load" /\ index' = <<>> /\ wav' = wav /\ jobs # <<>>
      BY <1>5, <2>2 DEF Advances, Going, SetUp, Fails, Return, IInv, JobsInv
    <3>2. Promise!Begin
      BY <2>1, <3>1 DEF Promise!Begin, Working
    <3>3. QED
      BY <3>2 DEF Promise!Next
  <2>3. CASE Synthesize \/ Save
    <3>1. /\ Writing /\ pc \in {"make", "save"}
          /\ wav' = Put(wav, Writes.id, Audio(Writes))
      BY <1>5, <2>3, SavePromised DEF Advances
    <3>2. Working
      BY <3>1 DEF Working
    <3>3. PICK l \in DOMAIN jobs : Writes = jobs[l]
      BY <3>1, WritesUnlisted
    <3>4. \A k \in DOMAIN index : index[k] # jobs[l]
      BY <3>1, <3>3, WritesUnlisted
    <3>5. index' = index
      BY <1>5, <2>3 DEF Advances, Going, Synthesize, Save, Fails, Return
    <3>6. wav' = Promise!Put(wav, jobs[l].id, Promise!Audio(jobs[l]))
      BY <3>1, <3>3, PromisePut DEF Audio
    <3>7. Promise!Save
      BY <2>1, <3>2, <3>3, <3>4, <3>5, <3>6 DEF Promise!Save, Promise!Open, Promise!Range
    <3>8. QED
      BY <3>7 DEF Promise!Next
  <2>4. CASE List \/ ListOne
    <3>1. PICK k \in DOMAIN jobs :
           /\ \A i \in DOMAIN index : index[i] # jobs[k]
           /\ jobs[k].id \in DOMAIN wav /\ wav[jobs[k].id] = Audio(jobs[k])
           /\ index' = Append(index, jobs[k])
      BY <2>4, RowPromised
    <3>2. wav' = wav /\ Working
      BY <2>4 DEF List, ListOne, Working
    <3>3. Promise!List
      BY <2>1, <3>1, <3>2 DEF Promise!List, Promise!Open, Promise!Range, Audio
    <3>4. QED
      BY <3>3 DEF Promise!Next
  <2>5. CASE TakeVoice \/ TakeText \/ GenerateCodes \/ Decode \/ Flushed \/ FlushRest
    <3>1. Working /\ UNCHANGED <<wav, index>>
      BY <1>5, <2>5 DEF Advances, Going, TakeVoice, TakeText, GenerateCodes, Decode,
        Flushed,
        FlushRest, Fails, Return, results, Working
    <3>2. QED
      BY <2>1, <3>1 DEF Promise!vars
  <2>6. QED
    BY <1>5, <2>2, <2>3, <2>4, <2>5 DEF Advances
<1>6. QED
  BY StepCases, <1>1, <1>2, <1>3, <1>4, <1>5

\* Batch results are what BatchResults promises, in both modes and over whatever
\* earlier runs left: each WAV of its job's own text, voice and seed, a row only for a
\* WAV that is there, success only with all of them.
THEOREM Implements == Spec => Promise!Safety
<1>1. Init => Promise!Init
  BY DEF Init, Promise!Init, Working
<1>2. Init => ChoicesInv
  BY DEF Init, ChoicesInv
<1>3. QED
  BY <1>1, <1>2, Invariant, ChoicesInductive, StepPromised, PTL DEF Spec, Promise!Safety

-------------------------------------------------------------------------------
(* A run comes to an end.                                                    *)

\* The way of a job, and of a flush, through the loops.
Rank ==
  [start |-> 0, load |-> 0, next |-> 7, text |-> 6, make |-> 5, decode |-> 4,
   save |-> 3, list |-> 2][pc]

\* What is left of a run: jobs to start, rows to bring to disk, rows to write, and the
\* way of the present one.
Remaining ==
  <<Len(jobs) + 1 - at, Len(jobs) - on_disk, Len(jobs) - Len(index), Rank>>

LEMMA RowsArePlaces ==
  ASSUME IInv, Working
  PROVE  Len(index) <= Len(jobs)
<1>1. /\ Len(index) \in Nat /\ DOMAIN index = 1 .. Len(index)
      /\ Len(jobs) \in Nat /\ DOMAIN jobs = 1 .. Len(jobs) /\ at \in 1 .. Len(jobs) + 1
  BY LenProperties DEF IInv, Shapes
<1>2. \A i \in 1 .. Len(index) : \E l \in 1 .. Len(jobs) : index[i] = jobs[l]
  <2>1. \A l \in 1 .. at - 1 : l \in 1 .. Len(jobs)
    BY <1>1
  <2>2. CASE Batched
    BY <1>1, <2>1, <2>2 DEF IInv, BatchedInv, RowsAreMade
  <2>3. CASE ~Batched
    <3>1. Len(index) = at - 1 /\ \A k \in 1 .. at - 1 : index[k] = jobs[k]
      BY <2>3 DEF IInv, SequentialInv
    <3>2. QED
      BY <2>1, <3>1
  <2>4. QED
    BY <2>2, <2>3
<1> DEFINE place == [i \in 1 .. Len(index) |-> CHOOSE l \in 1 .. Len(jobs) : index[i] = jobs[l]]
<1>3. \A i \in 1 .. Len(index) : place[i] \in 1 .. Len(jobs) /\ index[i] = jobs[place[i]]
  BY <1>2
<1>4. place \in [1 .. Len(index) -> 1 .. Len(jobs)]
  BY <1>3
<1> HIDE DEF place
<1>5. ASSUME NEW i \in 1 .. Len(index), NEW k \in 1 .. Len(index), place[i] = place[k]
      PROVE  i = k
  <2>1. index[i] = jobs[place[i]] /\ index[k] = jobs[place[k]]
    BY <1>3
  <2>2. index[i] = index[k]
    BY <1>5, <2>1
  <2>3. RowsDiffer
    BY DEF IInv, RowsInv
  <2>4. QED
    BY <1>1, <2>2, <2>3 DEF RowsDiffer
<1>6. place \in Injection(1 .. Len(index), 1 .. Len(jobs))
  BY <1>4, <1>5, Fun_IsInj
<1>7. /\ IsFiniteSet(1 .. Len(jobs)) /\ Cardinality(1 .. Len(jobs)) = Len(jobs)
      /\ Cardinality(1 .. Len(index)) = Len(index)
  <2>1. ASSUME NEW n \in Nat PROVE IsFiniteSet(1 .. n) /\ Cardinality(1 .. n) = n
    <3>1. /\ 1 \in Int /\ n \in Int
          /\ (IF 1 > n THEN 0 ELSE n - 1 + 1) = n
      OBVIOUS
    <3>2. QED
      BY <3>1, FS_Interval, Zenon
  <2>2. QED
    BY <1>1, <2>1
<1>8. Cardinality(1 .. Len(index)) <= Cardinality(1 .. Len(jobs))
  BY <1>6, <1>7, FS_Injection
<1>9. QED
  BY <1>7, <1>8

LEMMA RemainingCounts ==
  IInv => (Working => Remaining \in [1 .. 4 -> Nat])
<1> SUFFICES ASSUME IInv, Working PROVE Remaining \in [1 .. 4 -> Nat]
  OBVIOUS
<1>1. /\ Len(index) \in Nat /\ Len(jobs) \in Nat /\ at \in 1 .. Len(jobs) + 1
      /\ on_disk \in Nat
  BY DEF IInv, Shapes
<1>2. Rank \in Nat
  BY DEF IInv, Shapes, Rank
<1>3. on_disk <= Len(index)
  <2>1. Listed \in Nat
    BY DEF IInv, Shapes, FlushInv, Listed
  <2>2. on_disk + Listed = Len(index)
    BY DEF IInv, DiskInv
  <2>3. QED
    BY <1>1, <2>1, <2>2
<1>4. Len(index) <= Len(jobs)
  BY RowsArePlaces
<1>5. /\ Len(jobs) + 1 - at \in Nat /\ Len(jobs) - on_disk \in Nat
      /\ Len(jobs) - Len(index) \in Nat
  BY <1>1, <1>3, <1>4
<1>6. QED
  BY <1>2, <1>5 DEF Remaining

LEMMA RemainingCountsNext ==
  IInv' => (Working' => (Remaining \in [1 .. 4 -> Nat])')
BY RemainingCounts, PTL

\* A job is done with, a batch is brought to disk, a row is written, or the job or the
\* flush goes on.
LEMMA LessRemains ==
  ASSUME IInv, Working, Working', [Next]_vars, vars' # vars
  PROVE  /\ jobs' = jobs
         /\ \/ at' = at + 1
            \/ at' = at /\ on_disk' > on_disk
            \/ at' = at /\ on_disk' = on_disk /\ Len(index') = Len(index) + 1
            \/ UNCHANGED <<at, on_disk, index>> /\ Rank' < Rank
<1>1. Advances /\ ~SetUp
  BY StepCases DEF Start, Returns, Kill, SetUp, Working
<1>2. jobs' = jobs
  BY <1>1, RunIsKept DEF source
<1>3. CASE TakeVoice \/ TakeText \/ Synthesize \/ Save \/ Decode \/ FlushRest
  <2>1. UNCHANGED <<at, on_disk, index>>
    BY <1>1, <1>3 DEF Advances, Going, TakeVoice, TakeText, Synthesize, Save, Decode,
      FlushRest, Fails, Return, results
  <2>2. Rank' < Rank
    BY <1>1, <1>3 DEF Advances, Going, TakeVoice, TakeText, Synthesize, Save, Decode,
      FlushRest, Fails, Return, Rank
  <2>3. QED
    BY <1>2, <2>1, <2>2
<1>4. CASE ListOne
  BY <1>2, <1>4, ListedOneRow
<1>5. CASE GenerateCodes
  BY <1>1, <1>2, <1>5 DEF Advances, Going, GenerateCodes, Fails, Return
<1>6. CASE List
  <2>1. at' = at /\ on_disk' = on_disk
    BY <1>6 DEF List
  <2>2. QED
    BY <1>2, <1>6, <2>1, ListedRow
<1>7. CASE Flushed
  <2>1. pc = "save" /\ saved = Count /\ at' = at /\ on_disk' = Len(index) /\ Batched
    BY <1>7 DEF Flushed, FlushedRows, IInv, JobsInv
  <2>2. Count \in Nat \ {0}
    BY <2>1, FlushTakesAll DEF IInv
  <2>3. on_disk + saved = Len(index) /\ on_disk \in Nat
    BY <2>1 DEF IInv, DiskInv, Listed, Shapes
  <2>4. QED
    BY <1>2, <2>1, <2>2, <2>3
<1>8. QED
  BY <1>1, <1>3, <1>4, <1>5, <1>6, <1>7 DEF Advances

\* Each step of a run, from its first job on, leaves less to do, by DescentEnds only
\* finitely often: whatever the frame counts are, no flush starts that has nothing to
\* save, and no job is listed twice.
THEOREM EveryStepDescends ==
  Spec => /\ []RowsDiffer
          /\ [](Working => Remaining \in [1 .. 4 -> Nat])
          /\ [][Working /\ Working' => IsBelow(4, Remaining', Remaining)]_vars
<1>1. IInv => RowsDiffer
  BY DEF IInv, RowsInv
<1>2. IInv /\ IInv' /\ [Next]_vars
        => [Working /\ Working' => IsBelow(4, Remaining', Remaining)]_vars
  <2> SUFFICES ASSUME IInv, IInv', [Next]_vars, vars' # vars, Working, Working'
               PROVE  IsBelow(4, Remaining', Remaining)
    OBVIOUS
  <2>1. Remaining \in [1 .. 4 -> Nat] /\ Remaining' \in [1 .. 4 -> Nat]
    BY RemainingCounts, RemainingCountsNext
  <2>2. SUFFICES \E k \in 1 .. 4 : /\ Remaining'[k] < Remaining[k]
                                   /\ \A i \in 1 .. k - 1 : Remaining'[i] = Remaining[i]
    BY <2>1, FirstDifference
  <2>3. /\ \A i \in 1 .. 1 - 1 : FALSE
        /\ \A i \in 1 .. 2 - 1 : i = 1
        /\ \A i \in 1 .. 3 - 1 : i \in {1, 2}
        /\ \A i \in 1 .. 4 - 1 : i \in {1, 2, 3}
    OBVIOUS
  <2>4. jobs' = jobs /\ Len(jobs) \in Nat /\ at \in Nat /\ on_disk \in Nat /\ Len(index) \in Nat
    BY LessRemains DEF IInv, Shapes
  <2>5. on_disk' \in Nat
    BY DEF IInv, Shapes
  <2>6. CASE at' = at + 1
    <3>1. Remaining'[1] < Remaining[1]
      BY <2>4, <2>6 DEF Remaining
    <3>2. QED
      BY <2>3, <3>1
  <2>7. CASE at' = at /\ on_disk' > on_disk
    <3>1. Remaining'[1] = Remaining[1] /\ Remaining'[2] < Remaining[2]
      BY <2>4, <2>5, <2>7 DEF Remaining
    <3>2. QED
      BY <2>3, <3>1
  <2>8. CASE at' = at /\ on_disk' = on_disk /\ Len(index') = Len(index) + 1
    <3>1. /\ Remaining'[1] = Remaining[1] /\ Remaining'[2] = Remaining[2]
          /\ Remaining'[3] < Remaining[3]
      BY <2>4, <2>8 DEF Remaining
    <3>2. QED
      BY <2>3, <3>1
  <2>9. CASE UNCHANGED <<at, on_disk, index>> /\ Rank' < Rank
    <3>1. /\ Remaining'[1] = Remaining[1] /\ Remaining'[2] = Remaining[2]
          /\ Remaining'[3] = Remaining[3] /\ Remaining'[4] < Remaining[4]
      BY <2>4, <2>9 DEF Remaining
    <3>2. QED
      BY <2>3, <3>1
  <2>10. QED
    BY <2>6, <2>7, <2>8, <2>9, LessRemains
<1>3. QED
  BY <1>1, <1>2, RemainingCounts, Invariant, PTL DEF Spec
===============================================================================
