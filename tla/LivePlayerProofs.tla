--------------------------- MODULE LivePlayerProofs ---------------------------
(***************************************************************************)
(* The player's invariants and what it promises a request, for every set   *)
(* of rates, prerolls and chunk sizes and any number of samples and        *)
(* requests.                                                               *)
(***************************************************************************)
EXTENDS LivePlayer, SequenceTheorems, Descent

USE PlayerAssumption

-------------------------------------------------------------------------------
(* Runs of samples and the chunks they are cut into.                         *)

LEMMA SeqOfFunction ==
  ASSUME NEW S, NEW n \in Nat, NEW f \in [1 .. n -> S]
  PROVE  f \in Seq(S) /\ Len(f) = n
BY SeqDef, LenProperties

LEMMA RunIsSeq ==
  ASSUME NEW r \in Nat, NEW a \in Nat, NEW b \in Nat, a <= b
  PROVE  /\ Run(r, a, b) \in Seq(Sample)
         /\ Len(Run(r, a, b)) = b - a
         /\ \A i \in 1 .. b - a : Run(r, a, b)[i] = <<r, a + i>>
<1>1. b - a \in Nat
  OBVIOUS
<1>2. \A i \in 1 .. b - a : <<r, a + i>> \in Sample
  BY DEF Sample
<1>3. Run(r, a, b) \in [1 .. b - a -> Sample]
  BY <1>1, <1>2 DEF Run
<1>4. QED
  BY <1>1, <1>3, SeqOfFunction, Zenon DEF Run

LEMMA RunConcat ==
  ASSUME NEW r \in Nat, NEW a \in Nat, NEW b \in Nat, NEW c \in Nat, a <= b, b <= c
  PROVE  Run(r, a, b) \o Run(r, b, c) = Run(r, a, c)
<1>1. /\ Run(r, a, b) \in Seq(Sample) /\ Run(r, b, c) \in Seq(Sample)
      /\ Run(r, a, c) \in Seq(Sample)
      /\ Len(Run(r, a, b)) = b - a /\ Len(Run(r, b, c)) = c - b
      /\ Len(Run(r, a, c)) = c - a
      /\ \A i \in 1 .. b - a : Run(r, a, b)[i] = <<r, a + i>>
      /\ \A i \in 1 .. c - b : Run(r, b, c)[i] = <<r, b + i>>
      /\ \A i \in 1 .. c - a : Run(r, a, c)[i] = <<r, a + i>>
  <2>1. a <= c
    OBVIOUS
  <2>2. /\ Run(r, a, b) \in Seq(Sample) /\ Len(Run(r, a, b)) = b - a
        /\ \A i \in 1 .. b - a : Run(r, a, b)[i] = <<r, a + i>>
    BY RunIsSeq, Zenon
  <2>3. /\ Run(r, b, c) \in Seq(Sample) /\ Len(Run(r, b, c)) = c - b
        /\ \A i \in 1 .. c - b : Run(r, b, c)[i] = <<r, b + i>>
    BY RunIsSeq, Zenon
  <2>4. /\ Run(r, a, c) \in Seq(Sample) /\ Len(Run(r, a, c)) = c - a
        /\ \A i \in 1 .. c - a : Run(r, a, c)[i] = <<r, a + i>>
    BY <2>1, RunIsSeq, Zenon
  <2>5. QED
    BY <2>2, <2>3, <2>4
<1> DEFINE s == Run(r, a, b) \o Run(r, b, c)
<1>2. /\ s \in Seq(Sample)
      /\ Len(s) = Len(Run(r, a, b)) + Len(Run(r, b, c))
      /\ \A i \in 1 .. Len(Run(r, a, b)) + Len(Run(r, b, c)) :
           s[i] = IF i <= Len(Run(r, a, b)) THEN Run(r, a, b)[i]
                                            ELSE Run(r, b, c)[i - Len(Run(r, a, b))]
  BY <1>1, ConcatProperties
<1>3. Len(s) = Len(Run(r, a, c))
  BY <1>1, <1>2
<1>4. ASSUME NEW i \in 1 .. Len(s)
      PROVE  s[i] = Run(r, a, c)[i]
  <2>1. i \in 1 .. c - a /\ Run(r, a, c)[i] = <<r, a + i>>
    BY <1>1, <1>3
  <2>2. CASE i <= b - a
    BY <1>1, <1>2, <2>1, <2>2
  <2>3. CASE ~(i <= b - a)
    <3>1. i - (b - a) \in 1 .. c - b
      BY <2>1, <2>3
    <3>2. Run(r, b, c)[i - (b - a)] = <<r, b + (i - (b - a))>>
      BY <1>1, <3>1
    <3>3. b + (i - (b - a)) = a + i
      BY <2>1
    <3>4. s[i] = Run(r, b, c)[i - (b - a)]
      BY <1>1, <1>2, <2>1, <2>3
    <3>5. QED
      BY <2>1, <3>2, <3>3, <3>4
  <2>4. QED
    BY <2>2, <2>3
<1> HIDE DEF s
<1>5. s = Run(r, a, c)
  BY <1>1, <1>2, <1>3, <1>4, SeqEqual
<1>6. QED
  BY <1>5 DEF s

LEMMA RunEmpty ==
  ASSUME NEW r \in Nat, NEW a \in Nat, NEW b \in Nat, a <= b
  PROVE  Run(r, a, b) = <<>> <=> a = b
<1>1. /\ Run(r, a, b) \in Seq(Sample)
      /\ Len(Run(r, a, b)) = b - a
  BY RunIsSeq
<1>2. Len(<<>>) = 0 /\ (Run(r, a, b) # <<>> => Len(Run(r, a, b)) \in Nat \ {0})
  BY <1>1, EmptySeq
<1>3. QED
  BY <1>1, <1>2

\* A run is the beginning of a longer one.
LEMMA RunPrefix ==
  ASSUME NEW r \in Nat, NEW b \in Nat, NEW c \in Nat, b <= c
  PROVE  SubSeq(Run(r, 0, c), 1, b) = Run(r, 0, b)
<1> DEFINE s == SubSeq(Run(r, 0, c), 1, b)
<1>1. /\ Run(r, 0, c) \in Seq(Sample) /\ Len(Run(r, 0, c)) = c
      /\ Run(r, 0, b) \in Seq(Sample) /\ Len(Run(r, 0, b)) = b
      /\ \A i \in 1 .. c : Run(r, 0, c)[i] = <<r, 0 + i>>
      /\ \A i \in 1 .. b : Run(r, 0, b)[i] = <<r, 0 + i>>
  <2>1. 0 \in Nat /\ 0 <= b /\ 0 <= c /\ b - 0 = b /\ c - 0 = c
    OBVIOUS
  <2>2. /\ Run(r, 0, c) \in Seq(Sample) /\ Len(Run(r, 0, c)) = c - 0
        /\ \A i \in 1 .. c - 0 : Run(r, 0, c)[i] = <<r, 0 + i>>
    BY <2>1, RunIsSeq, Zenon
  <2>3. /\ Run(r, 0, b) \in Seq(Sample) /\ Len(Run(r, 0, b)) = b - 0
        /\ \A i \in 1 .. b - 0 : Run(r, 0, b)[i] = <<r, 0 + i>>
    BY <2>1, RunIsSeq, Zenon
  <2>4. QED
    BY <2>1, <2>2, <2>3
<1>2. \A i \in 1 .. b : Run(r, 0, c)[i] \in Sample
  BY <1>1, ElementOfSeq
<1>3. /\ s \in Seq(Sample)
      /\ Len(s) = IF 1 <= b THEN b - 1 + 1 ELSE 0
      /\ \A i \in 1 .. b - 1 + 1 : s[i] = Run(r, 0, c)[1 + i - 1]
  BY <1>2, SubSeqProperties
<1>4. Len(s) = b
  BY <1>3
<1>5. ASSUME NEW i \in 1 .. Len(s)
      PROVE  s[i] = Run(r, 0, b)[i]
  <2>1. i \in 1 .. b - 1 + 1 /\ 1 + i - 1 = i /\ i \in 1 .. b /\ i \in 1 .. c
    BY <1>4
  <2>2. QED
    BY <1>1, <1>3, <2>1
<1> HIDE DEF s
<1>6. s = Run(r, 0, b)
  BY <1>1, <1>3, <1>4, <1>5, SeqEqual
<1>7. QED
  BY <1>6 DEF s

LEMMA ChainedEmpty ==
  ASSUME NEW r \in Nat, NEW a \in Nat, NEW b \in Nat
  PROVE  Chained(r, <<>>, a, b) <=> a = b
<1>1. Len(<<>>) = 0 /\ 1 .. 0 = {} /\ 0 .. 0 = {0}
  OBVIOUS
<1>2. ASSUME Chained(r, <<>>, a, b) PROVE a = b
  BY <1>1, <1>2 DEF Chained
<1>3. ASSUME a = b PROVE Chained(r, <<>>, a, b)
  <2> DEFINE cut == [i \in 0 .. 0 |-> a]
  <2>1. cut \in [0 .. 0 -> a .. b] /\ cut[0] = a
    BY <1>3
  <2>2. \A i, j \in 0 .. 0 : ~(i < j)
    OBVIOUS
  <2> HIDE DEF cut
  <2>3. QED
    BY <1>1, <1>3, <2>1, <2>2 DEF Chained
<1>4. QED
  BY <1>2, <1>3

\* The first chunk and the others.
LEMMA ChainedHead ==
  ASSUME NEW r \in Nat, NEW a \in Nat, NEW b \in Nat, NEW q \in Seq(Chunk),
         q # <<>>, Chained(r, q, a, b)
  PROVE  \E c \in a + 1 .. b :
           Head(q) = Run(r, a, c) /\ Chained(r, Tail(q), c, b)
<1> DEFINE n == Len(q)
<1>1. n \in Nat \ {0}
  BY EmptySeq
<1>2. PICK cut \in [0 .. n -> a .. b] :
        /\ cut[0] = a
        /\ cut[n] = b
        /\ \A i, j \in 0 .. n : i < j => cut[i] < cut[j]
        /\ \A i \in 1 .. n : q[i] = Run(r, cut[i - 1], cut[i])
  BY DEF Chained
<1>3. Len(Tail(q)) = n - 1 /\ \A i \in 1 .. n - 1 : Tail(q)[i] = q[i + 1]
  BY HeadTailProperties
<1>4. 0 \in 0 .. n /\ 1 \in 0 .. n /\ 1 \in 1 .. n /\ n \in 0 .. n /\ 1 - 1 = 0
  BY <1>1
<1>5. cut[1] \in a + 1 .. b
  <2>1. cut[0] < cut[1] /\ cut[1] \in a .. b
    BY <1>2, <1>4
  <2>2. QED
    BY <1>2, <2>1
<1>6. Head(q) = Run(r, a, cut[1])
  <2>1. Head(q) = q[1]
    OBVIOUS
  <2>2. q[1] = Run(r, cut[1 - 1], cut[1])
    BY <1>2, <1>4
  <2>3. QED
    BY <1>2, <1>4, <2>1, <2>2
<1> DEFINE rest == [i \in 0 .. n - 1 |-> cut[i + 1]]
<1>7. \A i \in 0 .. n - 1 : i + 1 \in 0 .. n /\ cut[i + 1] \in cut[1] .. b
  <2> SUFFICES ASSUME NEW i \in 0 .. n - 1
               PROVE  i + 1 \in 0 .. n /\ cut[i + 1] \in cut[1] .. b
    OBVIOUS
  <2>1. i + 1 \in 0 .. n /\ (i = 0 \/ 1 < i + 1)
    BY <1>1
  <2>2. cut[i + 1] \in a .. b /\ cut[1] \in a .. b
    BY <1>2, <1>4, <2>1
  <2>3. i = 0 \/ cut[1] < cut[i + 1]
    BY <1>2, <1>4, <2>1
  <2>4. QED
    BY <2>1, <2>2, <2>3
<1>8. Chained(r, Tail(q), cut[1], b)
  <2>1. rest \in [0 .. n - 1 -> cut[1] .. b]
    BY <1>7
  <2>2. \A i \in 0 .. n - 1 : rest[i] = cut[i + 1]
    OBVIOUS
  <2>3. rest[0] = cut[1] /\ rest[n - 1] = b
    <3>1. 0 \in 0 .. n - 1 /\ n - 1 \in 0 .. n - 1 /\ n - 1 + 1 = n /\ 0 + 1 = 1
      BY <1>1
    <3>2. QED
      BY <1>2, <2>2, <3>1
  <2>4. \A i, j \in 0 .. n - 1 : i < j => rest[i] < rest[j]
    <3> SUFFICES ASSUME NEW i \in 0 .. n - 1, NEW j \in 0 .. n - 1, i < j
                 PROVE  cut[i + 1] < cut[j + 1]
      BY <2>2
    <3>1. i + 1 \in 0 .. n /\ j + 1 \in 0 .. n /\ i + 1 < j + 1
      BY <1>1
    <3>2. QED
      BY <1>2, <3>1
  <2>5. \A i \in 1 .. n - 1 : Tail(q)[i] = Run(r, rest[i - 1], rest[i])
    <3> SUFFICES ASSUME NEW i \in 1 .. n - 1
                 PROVE  Tail(q)[i] = Run(r, rest[i - 1], rest[i])
      OBVIOUS
    <3>1. /\ i + 1 \in 1 .. n /\ i + 1 - 1 = i /\ i - 1 + 1 = i
          /\ i - 1 \in 0 .. n - 1 /\ i \in 0 .. n - 1
      BY <1>1
    <3>2. q[i + 1] = Run(r, cut[i], cut[i + 1])
      BY <1>2, <3>1
    <3>3. rest[i - 1] = cut[i] /\ rest[i] = cut[i + 1]
      BY <2>2, <3>1
    <3>4. QED
      BY <1>3, <3>2, <3>3
  <2> HIDE DEF rest, n
  <2>6. QED
    BY <1>3, <2>1, <2>3, <2>4, <2>5 DEF Chained
<1>9. QED
  BY <1>5, <1>6, <1>8

\* One more chunk.
LEMMA ChainedAppend ==
  ASSUME NEW r \in Nat, NEW a \in Nat, NEW b \in Nat, NEW c \in Nat, b < c,
         NEW q \in Seq(Chunk), Chained(r, q, a, b)
  PROVE  Chained(r, Append(q, Run(r, b, c)), a, c)
<1> DEFINE n == Len(q)
           longer == Append(q, Run(r, b, c))
<1>1. n \in Nat
  BY LenProperties
<1>2. PICK cut \in [0 .. n -> a .. b] :
        /\ cut[0] = a
        /\ cut[n] = b
        /\ \A i, j \in 0 .. n : i < j => cut[i] < cut[j]
        /\ \A i \in 1 .. n : q[i] = Run(r, cut[i - 1], cut[i])
  BY DEF Chained
<1>3. /\ Len(longer) = n + 1
      /\ \A i \in 1 .. n : longer[i] = q[i]
      /\ longer[n + 1] = Run(r, b, c)
  OBVIOUS
<1>4. a <= b
  BY <1>1, <1>2
<1> DEFINE more == [i \in 0 .. n + 1 |-> IF i = n + 1 THEN c ELSE cut[i]]
<1>5. \A i \in 0 .. n + 1 : i = n + 1 \/ i \in 0 .. n
  BY <1>1
<1>6. more \in [0 .. n + 1 -> a .. c]
  BY <1>2, <1>4, <1>5
<1>7. /\ more[n + 1] = c
      /\ \A i \in 0 .. n : more[i] = cut[i]
  BY <1>1
<1>8. more[0] = a
  BY <1>1, <1>2, <1>7
<1> HIDE DEF more, n, longer
<1>9. \A i, j \in 0 .. n + 1 : i < j => more[i] < more[j]
  <2> SUFFICES ASSUME NEW i \in 0 .. n + 1, NEW j \in 0 .. n + 1, i < j
               PROVE  more[i] < more[j]
    OBVIOUS
  <2>1. i \in 0 .. n
    BY <1>1
  <2>2. CASE j = n + 1
    BY <1>2, <1>7, <2>1, <2>2
  <2>3. CASE j # n + 1
    BY <1>2, <1>5, <1>7, <2>1, <2>3
  <2>4. QED
    BY <2>2, <2>3
<1>10. \A i \in 1 .. n + 1 : longer[i] = Run(r, more[i - 1], more[i])
  <2> SUFFICES ASSUME NEW i \in 1 .. n + 1
               PROVE  longer[i] = Run(r, more[i - 1], more[i])
    OBVIOUS
  <2>1. i - 1 \in 0 .. n
    BY <1>1
  <2>2. CASE i = n + 1
    <3>1. i - 1 = n /\ n \in 0 .. n
      BY <1>1, <2>2
    <3>2. QED
      BY <1>2, <1>3, <1>7, <2>2, <3>1
  <2>3. CASE i # n + 1
    <3>1. i \in 1 .. n /\ i \in 0 .. n
      BY <1>1, <2>3
    <3>2. QED
      BY <1>2, <1>3, <1>7, <2>1, <3>1
  <2>4. QED
    BY <2>2, <2>3
<1>11. Chained(r, longer, a, c)
  BY <1>3, <1>6, <1>7, <1>8, <1>9, <1>10 DEF Chained
<1>12. QED
  BY <1>11 DEF longer

-------------------------------------------------------------------------------
(* Types.                                                                    *)

LEMMA NextSamplesRun ==
  ASSUME TypeOK, NEW n \in ChunkSizes
  PROVE  /\ n \in Nat \ {0}
         /\ Len(written) \in Nat /\ Len(written) + n \in Nat
         /\ NextSamples(n) = Run(serial, Len(written), Len(written) + n)
         /\ NextSamples(n) \in Seq(Sample)
         /\ Len(NextSamples(n)) = n
<1>1. n \in Nat \ {0}
  OBVIOUS
<1>2. serial \in Nat /\ Len(written) \in Nat
  BY LenProperties DEF TypeOK
<1> DEFINE w == Len(written)
<1>3. w \in Nat /\ w + n \in Nat /\ w <= w + n /\ (w + n) - w = n
  BY <1>1, <1>2
<1>4. NextSamples(n) = Run(serial, w, w + n)
  BY <1>3 DEF NextSamples, Run
<1> HIDE DEF w
<1>5. /\ Run(serial, w, w + n) \in Seq(Sample)
      /\ Len(Run(serial, w, w + n)) = (w + n) - w
  BY <1>2, <1>3, RunIsSeq, Zenon
<1>6. QED
  BY <1>1, <1>3, <1>4, <1>5 DEF w

\* What a write adds to the held samples.
LEMMA HeldSamples ==
  ASSUME TypeOK, NEW n \in ChunkSizes
  PROVE  /\ WithHeld(NextSamples(n)) \in Chunk
         /\ NextSamples(n) \in Chunk
<1>1. /\ NextSamples(n) \in Seq(Sample) /\ Len(NextSamples(n)) = n
      /\ n \in Nat \ {0}
  BY NextSamplesRun
<1>2. /\ WithHeld(NextSamples(n)) \in Seq(Sample)
      /\ Len(WithHeld(NextSamples(n))) = Len(preroll_buffer) + Len(NextSamples(n))
  BY <1>1, ConcatProperties DEF TypeOK, WithHeld
<1>3. Len(preroll_buffer) \in Nat
  BY LenProperties DEF TypeOK
<1>4. Len(<<>>) = 0
  OBVIOUS
<1>5. QED
  BY <1>1, <1>2, <1>3, <1>4 DEF Chunk

LEMMA TypeInductive == TypeOK /\ WorkerInv /\ [Next]_vars => TypeOK'
<1> SUFFICES ASSUME TypeOK, WorkerInv, [Next]_vars PROVE TypeOK'
  OBVIOUS
<1>0. <<>> \in Seq(Sample) /\ <<>> \in Seq(Chunk)
  OBVIOUS
<1>1. CASE PrepareDevice
  BY <1>1 DEF TypeOK, PrepareDevice, Prepare, request, buffers
<1>2. CASE Discard
  BY <1>0, <1>2 DEF TypeOK, Discard, request
<1>3. CASE Open
  <2>1. wave_out' \in Rates /\ preroll_samples' \in Nat /\ playback_started' \in BOOLEAN
    BY <1>3 DEF Open
  <2>2. /\ preroll_buffer' = <<>> /\ stopping' = FALSE /\ worker' = "wait"
        /\ phase' = "streaming" /\ serial' \in Nat
        /\ written' = <<>> /\ heard' = <<>> /\ refused' = FALSE
        /\ UNCHANGED <<queue, pcm, pending, done>>
    BY <1>3 DEF TypeOK, Open
  <2>3. QED
    BY <1>0, <2>1, <2>2 DEF TypeOK
<1>4. CASE Write
  <2>1. PICK n \in ChunkSizes :
          LET samples == NextSamples(n) IN
          /\ written' = written \o samples
          /\ \/ UNCHANGED buffers
             \/ /\ preroll_buffer' = WithHeld(samples)
                /\ UNCHANGED <<queue, preroll_samples, playback_started>>
             \/ /\ queue' = Append(queue, WithHeld(samples))
                /\ preroll_buffer' = <<>>
                /\ playback_started' = TRUE
                /\ UNCHANGED preroll_samples
             \/ /\ queue' = Append(queue, samples)
                /\ UNCHANGED <<preroll_samples, preroll_buffer, playback_started>>
    BY <1>4, Zenon DEF Write
  <2>2. NextSamples(n) \in Chunk /\ WithHeld(NextSamples(n)) \in Chunk
    BY HeldSamples
  <2>3. NextSamples(n) \in Seq(Sample) /\ WithHeld(NextSamples(n)) \in Seq(Sample)
    BY <2>2 DEF Chunk
  <2>4. written' \in Seq(Sample)
    BY <2>1, <2>3, ConcatProperties DEF TypeOK
  <2>5. /\ Append(queue, WithHeld(NextSamples(n))) \in Seq(Chunk)
        /\ Append(queue, NextSamples(n)) \in Seq(Chunk)
    BY <2>2 DEF TypeOK
  <2>6. /\ queue' \in Seq(Chunk) /\ preroll_buffer' \in Seq(Sample)
        /\ preroll_samples' \in Nat /\ playback_started' \in BOOLEAN
    BY <1>0, <2>1, <2>3, <2>5 DEF TypeOK, buffers
  <2>7. UNCHANGED <<phase, serial, stopping, worker, pcm, device, refused>>
    BY <1>4 DEF Write
  <2>8. QED
    BY <2>4, <2>6, <2>7 DEF TypeOK, device
<1>5. CASE Drain
  <2>1. preroll_buffer # <<>> => Append(queue, preroll_buffer) \in Seq(Chunk)
    BY DEF TypeOK, Chunk
  <2>2. QED
    BY <1>0, <1>5, <2>1 DEF TypeOK, Drain, HasHeld, request, buffers, device
<1>6. CASE Join
  BY <1>6 DEF TypeOK, Join, request, buffers, device
<1>7. CASE Take
  <2>1. Head(queue) \in Chunk /\ Tail(queue) \in Seq(Chunk)
    BY <1>7, HeadTailProperties DEF Take, TypeOK
  <2>2. Head(queue) \in Seq(Sample)
    BY <2>1 DEF Chunk
  <2>3. QED
    BY <1>7, <2>1, <2>2 DEF TypeOK, Take, request, device
<1>8. CASE TakeNothing
  BY <1>8 DEF TypeOK, TakeNothing, request, buffers, device
<1>9. CASE Leave
  BY <1>9 DEF TypeOK, Leave, request, buffers, device
<1>10. CASE RetireCompleted
  BY <1>10 DEF TypeOK, RetireCompleted, request, buffers
<1>11. CASE Submit
  <2>1. pcm \in Chunk
    BY <1>11 DEF TypeOK, Submit, WorkerInv, Chunk
  <2>2. QED
    BY <1>0, <1>11, <2>1 DEF TypeOK, Submit, request, buffers
<1>12. CASE SubmitFails
  BY <1>0, <1>12 DEF TypeOK, SubmitFails, request, buffers, device
<1>13. CASE Abort
  BY <1>0, <1>13 DEF TypeOK, Abort, ClearsQueue, request, device
<1>14. CASE RetireAll
  BY <1>14 DEF TypeOK, RetireAll, request, buffers
<1>15. CASE DevicePlays
  <2>1. Head(pending) \in Chunk /\ Tail(pending) \in Seq(Chunk)
    BY <1>15, HeadTailProperties DEF DevicePlays, TypeOK
  <2>2. heard \o Head(pending) \in Seq(Sample)
    BY <2>1, ConcatProperties DEF TypeOK, Chunk
  <2>3. QED
    BY <1>15, <2>1, <2>2 DEF TypeOK, DevicePlays, request, buffers
<1>16. CASE UNCHANGED vars
  BY <1>16 DEF TypeOK, vars, request, buffers, device
<1>17. QED
  BY <1>1, <1>2, <1>3, <1>4, <1>5, <1>6, <1>7, <1>8, <1>9, <1>10, <1>11, <1>12,
     <1>13, <1>14, <1>15, <1>16 DEF Next, Worker

-------------------------------------------------------------------------------
(* Where the threads are.                                                    *)

ControlInv == WorkerInv /\ StopInv /\ HeldInv /\ RefusedInv

LEMMA InitInv == Init => IInv
<1> SUFFICES ASSUME Init PROVE IInv
  OBVIOUS
<1>1. TypeOK
  <2>1. <<>> \in Seq(Sample) /\ <<>> \in Seq(Chunk)
    OBVIOUS
  <2>2. QED
    BY <2>1 DEF Init, TypeOK
<1>2. SamplesInv
  <2>1. 0 \in Nat /\ Run(0, 0, 0) = <<>>
    BY RunEmpty
  <2>2. Chained(0, <<>>, 0, 0)
    BY ChainedEmpty
  <2>3. Len(<<>>) = 0 /\ 0 \in 0 .. 0 /\ 0 + 0 = 0 /\ 0 - 0 = 0 /\ 0 <= 0
    OBVIOUS
  <2>4. Ahead(0)
    BY <2>1, <2>2, <2>3 DEF Init, Ahead
  <2>5. QED
    BY <2>1, <2>2, <2>3, <2>4 DEF Init, SamplesInv
<1>3. ControlInv
  BY DEF Init, ControlInv, WorkerInv, StopInv, HeldInv, RefusedInv, Holds
<1>4. QED
  BY <1>1, <1>2, <1>3 DEF IInv, ControlInv

LEMMA ControlInductive == TypeOK /\ ControlInv /\ [Next]_vars => ControlInv'
<1> SUFFICES ASSUME TypeOK, ControlInv, [Next]_vars PROVE ControlInv'
  OBVIOUS
<1> USE DEF ControlInv
<1>1. CASE PrepareDevice
  <2>1. WorkerInv'
    BY <1>1 DEF TypeOK, WorkerInv, StopInv, HeldInv, RefusedInv, Holds, PrepareDevice, Prepare, request, buffers
  <2>2. StopInv'
    BY <1>1 DEF TypeOK, WorkerInv, StopInv, HeldInv, RefusedInv, Holds, PrepareDevice, Prepare, request, buffers
  <2>3. HeldInv'
    BY <1>1 DEF TypeOK, WorkerInv, StopInv, HeldInv, RefusedInv, Holds, PrepareDevice, Prepare, request, buffers
  <2>4. RefusedInv'
    BY <1>1 DEF TypeOK, WorkerInv, StopInv, HeldInv, RefusedInv, Holds, PrepareDevice, Prepare, request, buffers
  <2>5. QED
    BY <2>1, <2>2, <2>3, <2>4
<1>2. CASE Discard
  <2>1. WorkerInv'
    BY <1>2 DEF TypeOK, WorkerInv, StopInv, HeldInv, RefusedInv, Holds, Discard, request
  <2>2. StopInv'
    BY <1>2 DEF TypeOK, WorkerInv, StopInv, HeldInv, RefusedInv, Holds, Discard, request
  <2>3. HeldInv'
    BY <1>2 DEF TypeOK, WorkerInv, StopInv, HeldInv, RefusedInv, Holds, Discard, request
  <2>4. RefusedInv'
    BY <1>2 DEF TypeOK, WorkerInv, StopInv, HeldInv, RefusedInv, Holds, Discard, request
  <2>5. QED
    BY <2>1, <2>2, <2>3, <2>4
<1>3. CASE Open
  <2>1. WorkerInv'
    BY <1>3 DEF TypeOK, WorkerInv, StopInv, HeldInv, RefusedInv, Holds, Open
  <2>2. StopInv'
    BY <1>3 DEF TypeOK, WorkerInv, StopInv, HeldInv, RefusedInv, Holds, Open
  <2>3. HeldInv'
    <3>1. PICK preroll \in Prerolls :
            preroll_samples' = preroll /\ playback_started' = (preroll = 0)
      BY <1>3 DEF Open
    <3>2. preroll_buffer' = <<>> /\ refused' = FALSE /\ queue' = queue /\ pcm' = pcm
      BY <1>3 DEF Open
    <3>3. queue = <<>> /\ pcm = <<>>
      BY <1>3 DEF Open, WorkerInv
    <3>4. ~playback_started' => preroll_samples' > 0
      <4>1. preroll # 0 => preroll > 0
        OBVIOUS
      <4>2. preroll = 0 => playback_started'
        BY <3>1, Zenon
      <4>3. QED
        BY <3>1, <4>1, <4>2, Zenon
    <3>5. QED
      BY <3>2, <3>3, <3>4 DEF HeldInv
  <2>4. RefusedInv'
    BY <1>3 DEF TypeOK, WorkerInv, StopInv, HeldInv, RefusedInv, Holds, Open
  <2>5. QED
    BY <2>1, <2>2, <2>3, <2>4
<1>4. CASE Write
  <2>1. WorkerInv'
    BY <1>4 DEF TypeOK, WorkerInv, StopInv, HeldInv, RefusedInv, Holds, Write, request, buffers, device
  <2>2. StopInv'
    BY <1>4 DEF TypeOK, WorkerInv, StopInv, HeldInv, RefusedInv, Holds, Write, request, buffers, device
  <2>3. HeldInv'
    BY <1>4 DEF TypeOK, WorkerInv, StopInv, HeldInv, RefusedInv, Holds, Write, request, buffers, device
  <2>4. RefusedInv'
    BY <1>4 DEF TypeOK, WorkerInv, StopInv, HeldInv, RefusedInv, Holds, Write, request, buffers, device
  <2>5. QED
    BY <2>1, <2>2, <2>3, <2>4
<1>5. CASE Drain
  <2>1. WorkerInv'
    BY <1>5 DEF TypeOK, WorkerInv, StopInv, HeldInv, RefusedInv, Holds, Drain, HasHeld, request, buffers, device
  <2>2. StopInv'
    BY <1>5 DEF TypeOK, WorkerInv, StopInv, HeldInv, RefusedInv, Holds, Drain, HasHeld, request, buffers, device
  <2>3. HeldInv'
    BY <1>5 DEF TypeOK, WorkerInv, StopInv, HeldInv, RefusedInv, Holds, Drain, HasHeld, request, buffers, device
  <2>4. RefusedInv'
    BY <1>5 DEF TypeOK, WorkerInv, StopInv, HeldInv, RefusedInv, Holds, Drain, HasHeld, request, buffers, device
  <2>5. QED
    BY <2>1, <2>2, <2>3, <2>4
<1>6. CASE Join
  <2>1. WorkerInv'
    BY <1>6 DEF TypeOK, WorkerInv, StopInv, HeldInv, RefusedInv, Holds, Join, request, buffers, device
  <2>2. StopInv'
    BY <1>6 DEF TypeOK, WorkerInv, StopInv, HeldInv, RefusedInv, Holds, Join, request, buffers, device
  <2>3. HeldInv'
    BY <1>6 DEF TypeOK, WorkerInv, StopInv, HeldInv, RefusedInv, Holds, Join, request, buffers, device
  <2>4. RefusedInv'
    BY <1>6 DEF TypeOK, WorkerInv, StopInv, HeldInv, RefusedInv, Holds, Join, request, buffers, device
  <2>5. QED
    BY <2>1, <2>2, <2>3, <2>4
<1>7. CASE Take
  <2>1. WorkerInv'
    BY <1>7 DEF TypeOK, WorkerInv, StopInv, HeldInv, RefusedInv, Holds, Take, request, buffers, device
  <2>2. StopInv'
    BY <1>7 DEF TypeOK, WorkerInv, StopInv, HeldInv, RefusedInv, Holds, Take, request, buffers, device
  <2>3. HeldInv'
    BY <1>7 DEF TypeOK, WorkerInv, StopInv, HeldInv, RefusedInv, Holds, Take, request, buffers, device
  <2>4. RefusedInv'
    BY <1>7 DEF TypeOK, WorkerInv, StopInv, HeldInv, RefusedInv, Holds, Take, request, buffers, device
  <2>5. QED
    BY <2>1, <2>2, <2>3, <2>4
<1>8. CASE TakeNothing
  <2>1. WorkerInv'
    BY <1>8 DEF TypeOK, WorkerInv, StopInv, HeldInv, RefusedInv, Holds, TakeNothing, request, buffers, device
  <2>2. StopInv'
    BY <1>8 DEF TypeOK, WorkerInv, StopInv, HeldInv, RefusedInv, Holds, TakeNothing, request, buffers, device
  <2>3. HeldInv'
    BY <1>8 DEF TypeOK, WorkerInv, StopInv, HeldInv, RefusedInv, Holds, TakeNothing, request, buffers, device
  <2>4. RefusedInv'
    BY <1>8 DEF TypeOK, WorkerInv, StopInv, HeldInv, RefusedInv, Holds, TakeNothing, request, buffers, device
  <2>5. QED
    BY <2>1, <2>2, <2>3, <2>4
<1>9. CASE Leave
  <2>1. WorkerInv'
    BY <1>9 DEF TypeOK, WorkerInv, StopInv, HeldInv, RefusedInv, Holds, Leave, MayLeave, request, buffers, device
  <2>2. StopInv'
    BY <1>9 DEF TypeOK, WorkerInv, StopInv, HeldInv, RefusedInv, Holds, Leave, MayLeave, request, buffers, device
  <2>3. HeldInv'
    BY <1>9 DEF TypeOK, WorkerInv, StopInv, HeldInv, RefusedInv, Holds, Leave, MayLeave, request, buffers, device
  <2>4. RefusedInv'
    BY <1>9 DEF TypeOK, WorkerInv, StopInv, HeldInv, RefusedInv, Holds, Leave, MayLeave, request, buffers, device
  <2>5. QED
    BY <2>1, <2>2, <2>3, <2>4
<1>10. CASE RetireCompleted
  <2>1. WorkerInv'
    BY <1>10 DEF TypeOK, WorkerInv, StopInv, HeldInv, RefusedInv, Holds, RetireCompleted, request, buffers
  <2>2. StopInv'
    BY <1>10 DEF TypeOK, WorkerInv, StopInv, HeldInv, RefusedInv, Holds, RetireCompleted, request, buffers
  <2>3. HeldInv'
    BY <1>10 DEF TypeOK, WorkerInv, StopInv, HeldInv, RefusedInv, Holds, RetireCompleted, request, buffers
  <2>4. RefusedInv'
    BY <1>10 DEF TypeOK, WorkerInv, StopInv, HeldInv, RefusedInv, Holds, RetireCompleted, request, buffers
  <2>5. QED
    BY <2>1, <2>2, <2>3, <2>4
<1>11. CASE Submit
  <2>1. WorkerInv'
    BY <1>11 DEF TypeOK, WorkerInv, StopInv, HeldInv, RefusedInv, Holds, Submit, request, buffers
  <2>2. StopInv'
    BY <1>11 DEF TypeOK, WorkerInv, StopInv, HeldInv, RefusedInv, Holds, Submit, request, buffers
  <2>3. HeldInv'
    BY <1>11 DEF TypeOK, WorkerInv, StopInv, HeldInv, RefusedInv, Holds, Submit, request, buffers
  <2>4. RefusedInv'
    BY <1>11 DEF TypeOK, WorkerInv, StopInv, HeldInv, RefusedInv, Holds, Submit, request, buffers
  <2>5. QED
    BY <2>1, <2>2, <2>3, <2>4
<1>12. CASE SubmitFails
  <2>1. WorkerInv'
    BY <1>12 DEF TypeOK, WorkerInv, StopInv, HeldInv, RefusedInv, Holds, SubmitFails, request, buffers, device
  <2>2. StopInv'
    BY <1>12 DEF TypeOK, WorkerInv, StopInv, HeldInv, RefusedInv, Holds, SubmitFails, request, buffers, device
  <2>3. HeldInv'
    BY <1>12 DEF TypeOK, WorkerInv, StopInv, HeldInv, RefusedInv, Holds, SubmitFails, request, buffers, device
  <2>4. RefusedInv'
    BY <1>12 DEF TypeOK, WorkerInv, StopInv, HeldInv, RefusedInv, Holds, SubmitFails, request, buffers, device
  <2>5. QED
    BY <2>1, <2>2, <2>3, <2>4
<1>13. CASE Abort
  <2>1. WorkerInv'
    BY <1>13 DEF TypeOK, WorkerInv, StopInv, HeldInv, RefusedInv, Holds, Abort, ClearsQueue, request, device
  <2>2. StopInv'
    BY <1>13 DEF TypeOK, WorkerInv, StopInv, HeldInv, RefusedInv, Holds, Abort, ClearsQueue, request, device
  <2>3. HeldInv'
    BY <1>13 DEF TypeOK, WorkerInv, StopInv, HeldInv, RefusedInv, Holds, Abort, ClearsQueue, request, device
  <2>4. RefusedInv'
    BY <1>13 DEF TypeOK, WorkerInv, StopInv, HeldInv, RefusedInv, Holds, Abort, ClearsQueue, request, device
  <2>5. QED
    BY <2>1, <2>2, <2>3, <2>4
<1>14. CASE RetireAll
  <2>1. WorkerInv'
    BY <1>14 DEF TypeOK, WorkerInv, StopInv, HeldInv, RefusedInv, Holds, RetireAll, AllPlayed, request, buffers
  <2>2. StopInv'
    BY <1>14 DEF TypeOK, WorkerInv, StopInv, HeldInv, RefusedInv, Holds, RetireAll, AllPlayed, request, buffers
  <2>3. HeldInv'
    BY <1>14 DEF TypeOK, WorkerInv, StopInv, HeldInv, RefusedInv, Holds, RetireAll, AllPlayed, request, buffers
  <2>4. RefusedInv'
    BY <1>14 DEF TypeOK, WorkerInv, StopInv, HeldInv, RefusedInv, Holds, RetireAll, AllPlayed, request, buffers
  <2>5. QED
    BY <2>1, <2>2, <2>3, <2>4
<1>15. CASE DevicePlays
  <2>1. WorkerInv'
    BY <1>15 DEF TypeOK, WorkerInv, StopInv, HeldInv, RefusedInv, Holds, DevicePlays, request, buffers
  <2>2. StopInv'
    BY <1>15 DEF TypeOK, WorkerInv, StopInv, HeldInv, RefusedInv, Holds, DevicePlays, request, buffers
  <2>3. HeldInv'
    BY <1>15 DEF TypeOK, WorkerInv, StopInv, HeldInv, RefusedInv, Holds, DevicePlays, request, buffers
  <2>4. RefusedInv'
    BY <1>15 DEF TypeOK, WorkerInv, StopInv, HeldInv, RefusedInv, Holds, DevicePlays, request, buffers
  <2>5. QED
    BY <2>1, <2>2, <2>3, <2>4
<1>16. CASE UNCHANGED vars
  BY <1>16 DEF WorkerInv, StopInv, HeldInv, RefusedInv, Holds, vars, request, buffers, device
<1>17. QED
  BY <1>1, <1>2, <1>3, <1>4, <1>5, <1>6, <1>7, <1>8, <1>9, <1>10, <1>11, <1>12, <1>13, <1>14, <1>15, <1>16 DEF Next, Worker

-------------------------------------------------------------------------------
(* Where the samples are.                                                    *)

LEMMA SamplesUnchanged ==
  ASSUME SamplesInv,
         UNCHANGED <<serial, written, heard, pending, refused, pcm, queue, preroll_buffer>>
  PROVE  SamplesInv'
BY DEF SamplesInv, Ahead

\* After a refusal only what was written and what the device has matter.
LEMMA SamplesRefused ==
  ASSUME SamplesInv, refused', UNCHANGED <<serial, written, heard, pending>>
  PROVE  SamplesInv'
BY DEF SamplesInv

\* Lengths.
LEMMA SamplesLengths ==
  ASSUME TypeOK
  PROVE  /\ serial \in Nat
         /\ Len(written) \in Nat /\ Len(heard) \in Nat
         /\ Len(pcm) \in Nat /\ Len(preroll_buffer) \in Nat
BY LenProperties DEF TypeOK

LEMMA OpenSamples ==
  ASSUME TypeOK, ControlInv, Open PROVE SamplesInv'
<1>1. /\ serial' \in Nat /\ written' = <<>> /\ heard' = <<>> /\ refused' = FALSE
      /\ preroll_buffer' = <<>> /\ queue' = <<>> /\ pcm' = <<>> /\ pending' = <<>>
  BY DEF Open, TypeOK, ControlInv, WorkerInv
<1>2. 0 \in Nat /\ Len(<<>>) = 0 /\ 0 \in 0 .. 0 /\ 0 + 0 = 0 /\ 0 - 0 = 0 /\ 0 <= 0
  OBVIOUS
<1>3. Run(serial', 0, 0) = <<>> /\ Chained(serial', <<>>, 0, 0)
  BY <1>1, <1>2, RunEmpty, ChainedEmpty
<1>4. Ahead(0)'
  BY <1>1, <1>2, <1>3 DEF Ahead
<1>5. QED
  BY <1>1, <1>2, <1>3, <1>4 DEF SamplesInv

\* A write puts its samples behind those held.
LEMMA WriteSamples ==
  ASSUME TypeOK, ControlInv, SamplesInv, Write PROVE SamplesInv'
<1> DEFINE w == Len(written)
           h == Len(heard)
           held == w - Len(preroll_buffer)
<1>1. PICK n \in ChunkSizes :
        LET samples == NextSamples(n) IN
        /\ written' = written \o samples
        /\ \/ /\ stopping
              /\ UNCHANGED buffers
           \/ /\ ~stopping /\ Holds
              /\ preroll_buffer' = WithHeld(samples)
              /\ UNCHANGED queue
           \/ /\ ~stopping /\ Holds
              /\ queue' = Append(queue, WithHeld(samples))
              /\ preroll_buffer' = <<>>
           \/ /\ ~stopping /\ ~Holds
              /\ queue' = Append(queue, samples)
              /\ UNCHANGED preroll_buffer
  BY Zenon DEF Write
<1>2. /\ UNCHANGED <<phase, serial, pcm, pending, heard, refused>>
      /\ phase = "streaming"
  BY DEF Write, device
<1>3. /\ n \in Nat \ {0} /\ w \in Nat /\ w + n \in Nat
      /\ NextSamples(n) = Run(serial, w, w + n)
      /\ serial \in Nat /\ h \in Nat /\ Len(pcm) \in Nat
  BY NextSamplesRun, SamplesLengths
<1>4. PICK a \in h .. w :
        /\ Chained(serial, pending, h, a)
        /\ ~refused => Ahead(a)
  BY DEF SamplesInv
<1>5. written' = Run(serial, 0, w + n)
  <2>1. written = Run(serial, 0, w)
    BY DEF SamplesInv
  <2> HIDE DEF w
  <2>2. /\ serial \in Nat /\ 0 \in Nat /\ w \in Nat /\ w + n \in Nat
        /\ 0 <= w /\ w <= w + n
    BY <1>3
  <2>3. Run(serial, 0, w) \o Run(serial, w, w + n) = Run(serial, 0, w + n)
    BY <2>2, RunConcat, Zenon
  <2>4. QED
    BY <1>1, <1>3, <2>1, <2>3
<1>6. Len(written') = w + n
  <2>1. 0 <= w + n /\ 0 \in Nat /\ (w + n) - 0 = w + n
    BY <1>3
  <2>2. Len(Run(serial, 0, w + n)) = (w + n) - 0
    BY <1>3, <2>1, RunIsSeq, Zenon
  <2>3. QED
    BY <1>5, <2>1, <2>2
<1>7. a \in h .. w + n /\ a \in Nat
  BY <1>3, <1>4
<1>8. ASSUME ~refused PROVE Ahead(a)'
  <2>1. ~stopping
    BY <1>2, <1>8 DEF ControlInv, StopInv
  <2>2. /\ held \in 0 .. w
        /\ preroll_buffer = Run(serial, held, w)
        /\ a + Len(pcm) <= held
        /\ pcm = Run(serial, a, a + Len(pcm))
        /\ Chained(serial, queue, a + Len(pcm), held)
    BY <1>4, <1>8 DEF Ahead
  <2>3. held \in Nat /\ held <= w /\ w <= w + n /\ held < w + n /\ a + Len(pcm) \in Nat
    BY <1>3, <1>7, <2>2
  <2> HIDE DEF w, h, held
  <2>4. /\ WithHeld(NextSamples(n)) = Run(serial, held, w + n)
        /\ Len(WithHeld(NextSamples(n))) = (w + n) - held
    <3>0. /\ serial \in Nat /\ held \in Nat /\ w \in Nat /\ w + n \in Nat
          /\ held <= w /\ w <= w + n
      BY <1>3, <2>3
    <3>1. Run(serial, held, w) \o Run(serial, w, w + n) = Run(serial, held, w + n)
      BY <3>0, RunConcat, Zenon
    <3>2. held <= w + n
      BY <1>3, <2>3
    <3>3. Len(Run(serial, held, w + n)) = (w + n) - held
      BY <1>3, <2>3, <3>2, RunIsSeq, Zenon
    <3>4. WithHeld(NextSamples(n)) = Run(serial, held, w + n)
      BY <1>3, <2>2, <3>1 DEF WithHeld
    <3>5. QED
      BY <3>3, <3>4
  <2>5. queue \in Seq(Chunk)
    BY DEF TypeOK
  <2>6. Chained(serial, Append(queue, Run(serial, held, w + n)), a + Len(pcm), w + n)
    BY <1>3, <2>2, <2>3, <2>5, ChainedAppend, Zenon
  <2>7. w + n <= w + n /\ Run(serial, w + n, w + n) = <<>> /\ Len(<<>>) = 0
    BY <1>3, RunEmpty
  <2>8. CASE /\ preroll_buffer' = WithHeld(NextSamples(n))
             /\ UNCHANGED queue
    <3>1. /\ (w + n) - Len(preroll_buffer') = held
          /\ held \in 0 .. w + n
      BY <1>3, <2>3, <2>4, <2>8
    <3>2. QED
      BY <1>2, <1>6, <2>2, <2>4, <2>8, <3>1 DEF Ahead
  <2>9. CASE /\ queue' = Append(queue, WithHeld(NextSamples(n)))
             /\ preroll_buffer' = <<>>
    <3>1. /\ (w + n) - Len(preroll_buffer') = w + n
          /\ w + n \in 0 .. w + n
          /\ a + Len(pcm) <= w + n
      BY <1>3, <2>2, <2>3, <2>7, <2>9
    <3>2. QED
      BY <1>2, <1>6, <2>2, <2>4, <2>6, <2>7, <2>9, <3>1 DEF Ahead
  <2>10. CASE /\ ~Holds
              /\ queue' = Append(queue, NextSamples(n))
              /\ UNCHANGED preroll_buffer
    <3>1. preroll_buffer = <<>>
      BY <2>10 DEF ControlInv, HeldInv, Holds, TypeOK
    <3>2. held = w
      BY <1>3, <2>7, <3>1 DEF held
    <3>3. /\ (w + n) - Len(preroll_buffer') = w + n
          /\ w + n \in 0 .. w + n
          /\ a + Len(pcm) <= w + n
      BY <1>3, <2>2, <2>3, <2>7, <2>10, <3>1
    <3>4. QED
      BY <1>2, <1>3, <1>6, <2>2, <2>6, <2>7, <2>10, <3>1, <3>2, <3>3 DEF Ahead
  <2>11. QED
    BY <1>1, <2>1, <2>8, <2>9, <2>10
<1>9. heard' = Run(serial', 0, Len(heard')) /\ Len(heard') = h
  BY <1>2 DEF SamplesInv
<1>10. Chained(serial', pending', h, a)
  BY <1>2, <1>4
<1>11. ~refused' => Ahead(a)'
  BY <1>2, <1>8
<1> HIDE DEF w, h, held
<1>12. QED
  BY <1>2, <1>5, <1>6, <1>7, <1>9, <1>10, <1>11 DEF SamplesInv

\* A drain queues the samples that are still held.
LEMMA DrainSamples ==
  ASSUME TypeOK, ControlInv, SamplesInv, Drain PROVE SamplesInv'
<1>1. CASE ~HasHeld
  <2>1. UNCHANGED <<serial, written, heard, pending, refused, pcm, queue, preroll_buffer>>
    BY <1>1 DEF Drain, buffers, request, device
  <2>2. QED
    BY <2>1, SamplesUnchanged
<1>2. CASE HasHeld
  <2> DEFINE w == Len(written)
             h == Len(heard)
             held == w - Len(preroll_buffer)
  <2>1. /\ UNCHANGED <<serial, written, heard, pending, refused, pcm>>
        /\ queue' = Append(queue, preroll_buffer) /\ preroll_buffer' = <<>>
    BY <1>2 DEF Drain, request, device
  <2>2. /\ serial \in Nat /\ w \in Nat /\ h \in Nat /\ Len(pcm) \in Nat
    BY SamplesLengths
  <2>3. PICK a \in h .. w :
          /\ Chained(serial, pending, h, a)
          /\ ~refused => Ahead(a)
    BY DEF SamplesInv
  <2>4. ASSUME ~refused PROVE Ahead(a)'
    <3>1. /\ held \in 0 .. w
          /\ preroll_buffer = Run(serial, held, w)
          /\ a + Len(pcm) <= held
          /\ pcm = Run(serial, a, a + Len(pcm))
          /\ Chained(serial, queue, a + Len(pcm), held)
      BY <2>3, <2>4 DEF Ahead
    <3>2. a \in Nat /\ held \in Nat /\ held <= w /\ a + Len(pcm) \in Nat
      BY <2>2, <2>3, <3>1
    <3> HIDE DEF w, h, held
    <3>3. preroll_buffer # <<>>
      BY <1>2 DEF HasHeld
    <3>4. held < w
      <4>1. held # w
        BY <2>2, <3>1, <3>2, <3>3, RunEmpty
      <4>2. QED
        BY <2>2, <3>2, <4>1
    <3>5. Chained(serial, queue', a + Len(pcm), w)
      <4>1. queue \in Seq(Chunk)
        BY DEF TypeOK
      <4>2. Chained(serial, Append(queue, Run(serial, held, w)), a + Len(pcm), w)
        BY <2>2, <3>1, <3>2, <3>4, <4>1, ChainedAppend, Zenon
      <4>3. QED
        BY <2>1, <3>1, <4>2
    <3>6. /\ w - Len(preroll_buffer') = w /\ w \in 0 .. w
          /\ Run(serial, w, w) = <<>> /\ a + Len(pcm) <= w
      <4>1. Len(<<>>) = 0 /\ w <= w
        BY <2>2
      <4>2. Run(serial, w, w) = <<>>
        BY <2>2, <4>1, RunEmpty
      <4>3. QED
        BY <2>1, <2>2, <3>1, <3>2, <4>1, <4>2
    <3>7. QED
      BY <2>1, <3>1, <3>5, <3>6 DEF Ahead, w
  <2>5. /\ written' = Run(serial', 0, Len(written')) /\ heard' = Run(serial', 0, Len(heard'))
        /\ a \in Len(heard') .. Len(written')
        /\ Chained(serial', pending', Len(heard'), a)
    BY <2>1, <2>3 DEF SamplesInv
  <2>6. ~refused' => Ahead(a)'
    BY <2>1, <2>4
  <2>7. QED
    BY <2>5, <2>6 DEF SamplesInv
<1>3. QED
  BY <1>1, <1>2

\* The worker takes the first chunk.
LEMMA TakeSamples ==
  ASSUME TypeOK, ControlInv, SamplesInv, Take PROVE SamplesInv'
<1> DEFINE w == Len(written)
           h == Len(heard)
           held == w - Len(preroll_buffer)
<1>1. /\ UNCHANGED <<serial, written, heard, pending, refused, preroll_buffer>>
      /\ queue # <<>> /\ pcm = <<>>
      /\ pcm' = Head(queue) /\ queue' = Tail(queue)
  BY DEF Take, request, device, ControlInv, WorkerInv
<1>2. serial \in Nat /\ w \in Nat /\ h \in Nat
  BY SamplesLengths
<1>3. PICK a \in h .. w :
        /\ Chained(serial, pending, h, a)
        /\ ~refused => Ahead(a)
  BY DEF SamplesInv
<1>4. ASSUME ~refused PROVE Ahead(a)'
  <2>1. /\ held \in 0 .. w
        /\ preroll_buffer = Run(serial, held, w)
        /\ a + Len(pcm) <= held
        /\ Chained(serial, queue, a + Len(pcm), held)
    BY <1>3, <1>4 DEF Ahead
  <2>2. Len(<<>>) = 0 /\ a \in Nat /\ held \in Nat
    BY <1>2, <1>3, <2>1
  <2> HIDE DEF w, h, held
  <2>3. a + Len(pcm) = a /\ a <= held
    BY <1>1, <2>1, <2>2
  <2>4. queue \in Seq(Chunk) /\ Chained(serial, queue, a, held)
    BY <2>1, <2>3 DEF TypeOK
  <2>5. PICK c \in a + 1 .. held :
          Head(queue) = Run(serial, a, c) /\ Chained(serial, Tail(queue), c, held)
    BY <1>1, <1>2, <2>2, <2>4, ChainedHead, Zenon
  <2>6. c \in Nat /\ a <= c /\ c <= held /\ a + (c - a) = c
    BY <2>2, <2>5
  <2>7. Len(Run(serial, a, c)) = c - a
    BY <1>2, <2>2, <2>6, RunIsSeq, Zenon
  <2>8. a + Len(pcm') = c
    BY <1>1, <2>5, <2>6, <2>7
  <2>9. QED
    BY <1>1, <2>1, <2>5, <2>6, <2>8 DEF Ahead, w, held
<1>5. /\ written' = Run(serial', 0, Len(written')) /\ heard' = Run(serial', 0, Len(heard'))
      /\ a \in Len(heard') .. Len(written')
      /\ Chained(serial', pending', Len(heard'), a)
  BY <1>1, <1>3 DEF SamplesInv
<1>6. ~refused' => Ahead(a)'
  BY <1>1, <1>4
<1>7. QED
  BY <1>5, <1>6 DEF SamplesInv

\* The worker gives its chunk to the device.
LEMMA SubmitSamples ==
  ASSUME TypeOK, ControlInv, SamplesInv, Submit PROVE SamplesInv'
<1> DEFINE w == Len(written)
           h == Len(heard)
           held == w - Len(preroll_buffer)
<1>1. /\ UNCHANGED <<serial, written, heard, queue, refused, preroll_buffer>>
      /\ pcm # <<>> /\ pcm' = <<>> /\ pending' = Append(pending, pcm)
      /\ phase # "idle"
  BY DEF Submit, request, buffers, ControlInv, WorkerInv
<1>2. ~refused
  BY <1>1 DEF ControlInv, RefusedInv
<1>3. serial \in Nat /\ w \in Nat /\ h \in Nat /\ Len(pcm) \in Nat
  BY SamplesLengths
<1>4. PICK a \in h .. w :
        /\ Chained(serial, pending, h, a)
        /\ ~refused => Ahead(a)
  BY DEF SamplesInv
<1>5. /\ held \in 0 .. w
      /\ preroll_buffer = Run(serial, held, w)
      /\ a + Len(pcm) <= held
      /\ pcm = Run(serial, a, a + Len(pcm))
      /\ Chained(serial, queue, a + Len(pcm), held)
  BY <1>2, <1>4 DEF Ahead
<1>6. PICK c \in h .. w : c = a + Len(pcm)
  BY <1>3, <1>4, <1>5
<1>7. /\ a \in Nat /\ c \in Nat /\ a <= c /\ c <= held /\ held <= w /\ h <= a
      /\ held \in Nat
  BY <1>3, <1>4, <1>5, <1>6
<1> HIDE DEF w, h, held
<1>8. pcm = Run(serial, a, c) /\ Chained(serial, queue, c, held)
  BY <1>5, <1>6
<1>9. a < c
  <2>1. c # a
    BY <1>1, <1>3, <1>7, <1>8, RunEmpty
  <2>2. QED
    BY <1>7, <2>1
<1>10. Chained(serial, pending', h, c)
  <2>1. pending \in Seq(Chunk)
    BY DEF TypeOK
  <2>2. Chained(serial, Append(pending, Run(serial, a, c)), h, c)
    BY <1>3, <1>4, <1>7, <1>9, <2>1, ChainedAppend, Zenon
  <2>3. QED
    BY <1>1, <1>8, <2>2
<1>11. Ahead(c)'
  <2>1. Run(serial, c, c) = <<>> /\ Len(<<>>) = 0
    BY <1>3, <1>7, RunEmpty
  <2>2. c + Len(pcm') = c
    BY <1>1, <1>7, <2>1
  <2>3. QED
    BY <1>1, <1>5, <1>7, <1>8, <2>1, <2>2 DEF Ahead, w, held
<1>12. /\ written' = Run(serial', 0, Len(written')) /\ heard' = Run(serial', 0, Len(heard'))
       /\ c \in Len(heard') .. Len(written')
       /\ Chained(serial', pending', Len(heard'), c)
  BY <1>1, <1>6, <1>10 DEF SamplesInv, w, h
<1>13. QED
  BY <1>11, <1>12 DEF SamplesInv

\* The device plays the first chunk it has.
LEMMA PlaySamples ==
  ASSUME TypeOK, SamplesInv, DevicePlays
  PROVE  /\ SamplesInv'
         /\ heard' = Run(serial, 0, Len(heard'))
         /\ Len(heard') \in Len(heard) + 1 .. Len(written)
<1> DEFINE w == Len(written)
           h == Len(heard)
<1>1. /\ UNCHANGED <<serial, written, queue, refused, preroll_buffer, pcm>>
      /\ pending # <<>> /\ heard' = heard \o Head(pending) /\ pending' = Tail(pending)
  BY DEF DevicePlays, request, buffers
<1>2. serial \in Nat /\ w \in Nat /\ h \in Nat /\ 0 \in Nat /\ 0 <= h
  BY SamplesLengths
<1>3. PICK a \in h .. w :
        /\ Chained(serial, pending, h, a)
        /\ ~refused => Ahead(a)
  BY DEF SamplesInv
<1>4. a \in Nat /\ a <= w
  BY <1>2, <1>3
<1>5. PICK c \in h + 1 .. a :
        Head(pending) = Run(serial, h, c) /\ Chained(serial, Tail(pending), c, a)
  <2>1. pending \in Seq(Chunk)
    BY DEF TypeOK
  <2> HIDE DEF h, w
  <2>2. QED
    BY <1>1, <1>2, <1>3, <1>4, <2>1, ChainedHead, Zenon
<1>6. c \in Nat /\ h <= c /\ c \in h + 1 .. w /\ a \in c .. w /\ 0 <= c /\ c - 0 = c
  BY <1>2, <1>4, <1>5
<1>7. heard = Run(serial, 0, h)
  BY DEF SamplesInv
<1>8. heard' = Run(serial, 0, c)
  <2> HIDE DEF h, w
  <2>1. Run(serial, 0, h) \o Run(serial, h, c) = Run(serial, 0, c)
    BY <1>2, <1>6, RunConcat, Zenon
  <2>2. QED
    BY <1>1, <1>5, <1>7, <2>1
<1>9. Len(heard') = c
  <2>1. Len(Run(serial, 0, c)) = c - 0
    BY <1>2, <1>6, RunIsSeq, Zenon
  <2>2. QED
    BY <1>6, <1>8, <2>1
<1>10. ~refused' => Ahead(a)'
  BY <1>1, <1>3 DEF Ahead
<1>11. /\ written' = Run(serial', 0, Len(written')) /\ heard' = Run(serial', 0, Len(heard'))
       /\ a \in Len(heard') .. Len(written')
       /\ Chained(serial', pending', Len(heard'), a)
  BY <1>1, <1>5, <1>6, <1>8, <1>9 DEF SamplesInv
<1>12. SamplesInv'
  BY <1>10, <1>11 DEF SamplesInv
<1>13. QED
  BY <1>6, <1>8, <1>9, <1>12

LEMMA SamplesInductive ==
  TypeOK /\ ControlInv /\ SamplesInv /\ [Next]_vars => SamplesInv'
<1> SUFFICES ASSUME TypeOK, ControlInv, SamplesInv, [Next]_vars PROVE SamplesInv'
  OBVIOUS
<1> DEFINE Same ==
      UNCHANGED <<serial, written, heard, pending, refused, pcm, queue, preroll_buffer>>
<1>1. CASE PrepareDevice
  <2>1. Same
    BY <1>1 DEF PrepareDevice, request, buffers
  <2>2. QED
    BY <2>1, SamplesUnchanged
<1>2. CASE Discard
  <2>1. Same
    BY <1>2 DEF Discard, request, ControlInv, WorkerInv, StopInv
  <2>2. QED
    BY <2>1, SamplesUnchanged
<1>3. CASE Open
  BY <1>3, OpenSamples
<1>4. CASE Write
  BY <1>4, WriteSamples
<1>5. CASE Drain
  BY <1>5, DrainSamples
<1>6. CASE Join
  <2>1. Same
    BY <1>6 DEF Join, request, buffers, device
  <2>2. QED
    BY <2>1, SamplesUnchanged
<1>7. CASE Take
  BY <1>7, TakeSamples
<1>8. CASE TakeNothing
  <2>1. Same
    BY <1>8 DEF TakeNothing, request, buffers, device
  <2>2. QED
    BY <2>1, SamplesUnchanged
<1>9. CASE Leave
  <2>1. Same
    BY <1>9 DEF Leave, request, buffers, device
  <2>2. QED
    BY <2>1, SamplesUnchanged
<1>10. CASE RetireCompleted
  <2>1. Same
    BY <1>10 DEF RetireCompleted, request, buffers
  <2>2. QED
    BY <2>1, SamplesUnchanged
<1>11. CASE Submit
  BY <1>11, SubmitSamples
<1>12. CASE SubmitFails
  <2>1. refused' /\ UNCHANGED <<serial, written, heard, pending>>
    BY <1>12 DEF SubmitFails, request, device
  <2>2. QED
    BY <2>1, SamplesRefused
<1>13. CASE Abort
  <2>1. refused' /\ UNCHANGED <<serial, written, heard, pending>>
    BY <1>13 DEF Abort, request, device, ControlInv, RefusedInv
  <2>2. QED
    BY <2>1, SamplesRefused
<1>14. CASE RetireAll
  <2>1. Same
    BY <1>14 DEF RetireAll, request, buffers
  <2>2. QED
    BY <2>1, SamplesUnchanged
<1>15. CASE DevicePlays
  BY <1>15, PlaySamples
<1>16. CASE UNCHANGED vars
  <2>1. Same
    BY <1>16 DEF vars, request, buffers, device
  <2>2. QED
    BY <2>1, SamplesUnchanged
<1>17. QED
  BY <1>1, <1>2, <1>3, <1>4, <1>5, <1>6, <1>7, <1>8, <1>9, <1>10, <1>11, <1>12,
     <1>13, <1>14, <1>15, <1>16 DEF Next, Worker

-------------------------------------------------------------------------------
(* The theorems.                                                             *)

\* The parts of the inductive invariant hold in every state: in particular, that
\* every sample written is heard, with the device, with the worker, queued or
\* held, in this order, until the device refuses one.
THEOREM Invariant == Spec => []IInv
<1>1. IInv /\ [Next]_vars => IInv'
  BY TypeInductive, ControlInductive, SamplesInductive DEF IInv, ControlInv
<1>2. QED
  BY InitInv, <1>1, PTL DEF Spec

\* The variables have their types, and no empty chunk is queued or played.
THEOREM TypeCorrect == Spec => []TypeOK
<1>1. IInv => TypeOK
  BY DEF IInv
<1>2. QED
  BY Invariant, <1>1, PTL

\* Between requests the player, which is kept, holds no sample and no thread,
\* whatever failed in the request before.
THEOREM CleanBetweenRequests == Spec => []IdleIsClean
<1>1. IInv => IdleIsClean
  BY DEF IInv, IdleIsClean, WorkerInv, StopInv
<1>2. QED
  BY Invariant, <1>1, PTL

\* The device is closed or replaced only when it has no buffer of the player and
\* no worker can give it one.
THEOREM DeviceKept == Spec => DeviceOutlivesBuffers
<1>1. IInv /\ [Next]_vars =>
        [wave_out' # wave_out => pending = <<>> /\ done = 0 /\ worker = "none"]_vars
  <2> SUFFICES ASSUME IInv, [Next]_vars, wave_out' # wave_out
               PROVE  pending = <<>> /\ done = 0 /\ worker = "none"
    OBVIOUS
  <2>1. phase = "idle"
    BY DEF Next, Worker, vars, request, buffers, device, PrepareDevice, Discard, Open,
           Write, Drain, Join, Take, TakeNothing, Leave, RetireCompleted, Submit,
           SubmitFails, Abort, RetireAll, DevicePlays
  <2>2. QED
    BY <2>1 DEF IInv, WorkerInv
<1>2. QED
  BY Invariant, <1>1, PTL DEF Spec, DeviceOutlivesBuffers

LEMMA WritePromised ==
  ASSUME IInv, Write PROVE Promise!Write
<1> DEFINE w == Len(written)
<1>1. /\ phase = "streaming" /\ UNCHANGED <<phase, serial, heard, refused>>
      /\ \E n \in ChunkSizes : written' = written \o NextSamples(n)
  BY DEF Write, device
<1>2. PICK n \in ChunkSizes : written' = written \o NextSamples(n)
  BY <1>1
<1>3. /\ n \in Nat \ {0} /\ w \in Nat /\ w + n \in Nat
      /\ NextSamples(n) = Run(serial, w, w + n)
  BY NextSamplesRun DEF IInv
<1>4. written = Run(serial, 0, w) /\ serial \in Nat
  BY DEF IInv, SamplesInv, TypeOK
<1> HIDE DEF w
<1>5. /\ serial \in Nat /\ 0 \in Nat /\ w \in Nat /\ w + n \in Nat
      /\ 0 <= w /\ w <= w + n /\ 0 <= w + n /\ (w + n) - 0 = w + n
  BY <1>3, <1>4
<1>6. Run(serial, 0, w) \o Run(serial, w, w + n) = Run(serial, 0, w + n)
  BY <1>5, RunConcat, Zenon
<1>7. written' = Run(serial, 0, w + n)
  BY <1>2, <1>3, <1>4, <1>6
<1>8. Len(Run(serial, 0, w + n)) = (w + n) - 0
  BY <1>5, RunIsSeq, Zenon
<1>9. SubSeq(Run(serial, 0, w + n), 1, w) = Run(serial, 0, w)
  BY <1>5, RunPrefix, Zenon
<1>10. w < Len(written') /\ written = SubSeq(written', 1, w)
  BY <1>3, <1>4, <1>5, <1>7, <1>8, <1>9
<1>11. QED
  BY <1>1, <1>10 DEF Promise!Write, w

LEMMA HearPromised ==
  ASSUME IInv, DevicePlays PROVE Promise!Hear
<1> DEFINE w == Len(written)
           n == Len(heard')
<1>1. heard' = Run(serial, 0, n) /\ n \in Len(heard) + 1 .. w
  BY PlaySamples DEF IInv
<1>2. /\ serial \in Nat /\ w \in Nat /\ Len(heard) \in Nat
      /\ written = Run(serial, 0, w)
  BY SamplesLengths DEF IInv, SamplesInv
<1>3. n \in Nat /\ n <= w
  BY <1>1, <1>2
<1> HIDE DEF w, n
<1>4. SubSeq(Run(serial, 0, w), 1, n) = Run(serial, 0, n)
  BY <1>2, <1>3, RunPrefix, Zenon
<1>5. heard' = SubSeq(written, 1, n)
  BY <1>1, <1>2, <1>4
<1>6. \E m \in Len(heard) + 1 .. Len(written) : heard' = SubSeq(written, 1, m)
  BY <1>1, <1>5 DEF w
<1>7. phase # "idle" /\ UNCHANGED <<phase, written, refused>>
  BY DEF DevicePlays, request, IInv, WorkerInv
<1>8. QED
  BY <1>6, <1>7 DEF Promise!Hear

\* When the worker has left, everything was heard.
LEMMA ReturnPromised ==
  ASSUME IInv, Join PROVE Promise!Return
<1>1. /\ phase = "draining" /\ phase' = "idle" /\ worker = "exited"
      /\ UNCHANGED <<written, heard, refused>>
  BY DEF Join, request, device
<1>2. queue = <<>> /\ pending = <<>> /\ pcm = <<>> /\ preroll_buffer = <<>>
  BY <1>1 DEF IInv, WorkerInv, StopInv
<1>3. ASSUME ~refused PROVE heard = written
  <2> DEFINE w == Len(written)
             h == Len(heard)
  <2>1. serial \in Nat /\ w \in Nat /\ h \in Nat /\ Len(<<>>) = 0
    BY SamplesLengths DEF IInv
  <2>2. PICK a \in h .. w : Chained(serial, pending, h, a) /\ Ahead(a)
    BY <1>3 DEF IInv, SamplesInv
  <2>3. a \in Nat /\ w - 0 = w /\ a + 0 = a
    BY <2>1, <2>2
  <2>4. Chained(serial, <<>>, h, a) /\ Chained(serial, <<>>, a, w)
    <3>1. Chained(serial, queue, a + Len(pcm), w - Len(preroll_buffer))
      BY <2>2 DEF Ahead
    <3>2. QED
      BY <1>2, <2>1, <2>2, <2>3, <3>1
  <2> HIDE DEF w, h
  <2>5. h = a /\ a = w
    BY <2>1, <2>3, <2>4, ChainedEmpty
  <2>6. heard = Run(serial, 0, h) /\ written = Run(serial, 0, w)
    BY DEF IInv, SamplesInv, w, h
  <2>7. QED
    BY <2>5, <2>6
<1>4. QED
  BY <1>1, <1>3 DEF Promise!Return

LEMMA StepPromised == IInv /\ [Next]_vars => [Promise!Next]_(Promise!vars)
<1> SUFFICES ASSUME IInv, [Next]_vars
             PROVE  Promise!Next \/ UNCHANGED <<phase, written, heard, refused>>
  BY DEF Promise!vars
<1>1. CASE Open
  <2>1. Promise!Start
    BY <1>1 DEF Open, Promise!Start
  <2>2. QED
    BY <2>1 DEF Promise!Next
<1>2. CASE Write
  BY <1>2, WritePromised DEF Promise!Next
<1>3. CASE DevicePlays
  BY <1>3, HearPromised DEF Promise!Next
<1>4. CASE SubmitFails
  <2>1. phase # "idle" /\ ~refused
    BY <1>4 DEF SubmitFails, IInv, WorkerInv, RefusedInv
  <2>2. Promise!Refuse
    BY <1>4, <2>1 DEF SubmitFails, request, device, Promise!Refuse
  <2>3. QED
    BY <2>2 DEF Promise!Next
<1>5. CASE Drain
  <2>1. Promise!Drain
    BY <1>5 DEF Drain, request, device, Promise!Drain
  <2>2. QED
    BY <2>1 DEF Promise!Next
<1>6. CASE Join
  BY <1>6, ReturnPromised DEF Promise!Next
<1>7. CASE PrepareDevice \/ Discard
  BY <1>7 DEF PrepareDevice, Discard, request
<1>8. CASE Take \/ TakeNothing \/ Leave \/ RetireCompleted \/ Submit \/ Abort \/ RetireAll
  BY <1>8 DEF Take, TakeNothing, Leave, RetireCompleted, Submit, Abort, RetireAll,
              request, device
<1>9. CASE UNCHANGED vars
  BY <1>9 DEF vars, request, device
<1>10. QED
  BY <1>1, <1>2, <1>3, <1>4, <1>5, <1>6, <1>7, <1>8, <1>9 DEF Next, Worker

\* The device plays what the request wrote, in order, each sample once and nothing
\* else, and a drain returns only when all was heard or the device refused.
THEOREM Implements == Spec => Promise!Safety
<1>1. Init => Promise!Init
  BY DEF Init, Promise!Init
<1>2. IInv /\ [Next]_vars => [Promise!Next]_(Promise!vars)
  BY StepPromised
<1>3. QED
  BY <1>1, <1>2, Invariant, PTL DEF Spec, Promise!Safety

-------------------------------------------------------------------------------
(* A drain comes to an end.                                                  *)

Draining == phase = "draining"

\* The worker's way from one wait to the next and out of its loop.
Rank ==
  [none |-> 0, retire |-> 5, submit |-> 4, abort |-> 3, wait |-> 2, retire_all |-> 1,
   exited |-> 0][worker]

\* What is left of a drain: chunks to take, the worker's way, buffers to play.
Remaining == <<Len(queue), Rank, Len(pending)>>

WorkerCanStep ==
  \/ worker \in {"retire", "submit", "abort"}
  \/ worker = "wait" /\ (queue # <<>> \/ stopping)
  \/ worker = "retire_all" /\ AllPlayed

LEMMA RemainingCounts == IInv => Remaining \in [1 .. 3 -> Nat]
<1> SUFFICES ASSUME IInv PROVE Remaining \in [1 .. 3 -> Nat]
  OBVIOUS
<1>1. Rank \in Nat
  BY DEF IInv, TypeOK, Rank
<1>2. Len(queue) \in Nat /\ Len(pending) \in Nat
  BY LenProperties DEF IInv, TypeOK
<1>3. QED
  BY <1>1, <1>2 DEF Remaining

LEMMA RemainingCountsNext == IInv' => (Remaining \in [1 .. 3 -> Nat])'
BY RemainingCounts, PTL

\* The worker takes a chunk, goes on, or the device plays a buffer.
LEMMA LessRemains ==
  ASSUME IInv, Draining, Draining', Next, vars' # vars
  PROVE  \/ Len(queue') < Len(queue)
         \/ Len(queue') = Len(queue) /\ Rank' < Rank
         \/ queue' = queue /\ worker' = worker /\ Len(pending') < Len(pending)
<1>1. queue \in Seq(Chunk) /\ pending \in Seq(Chunk) /\ Len(<<>>) = 0
  BY DEF IInv, TypeOK
<1>2. CASE PrepareDevice \/ Discard \/ Open \/ Write \/ Drain \/ Join
  BY <1>2 DEF PrepareDevice, Discard, Open, Write, Drain, Join, Draining
<1>3. CASE Take
  <2>1. queue # <<>> /\ queue' = Tail(queue)
    BY <1>3 DEF Take
  <2>2. Len(queue) \in Nat /\ Len(queue') = Len(queue) - 1
    BY <1>1, <2>1, EmptySeq, LenProperties, HeadTailProperties
  <2>3. QED
    BY <2>2
<1>4. CASE TakeNothing
  BY <1>4 DEF TakeNothing, Draining, IInv, StopInv
<1>5. CASE Leave \/ RetireCompleted \/ Submit \/ SubmitFails \/ RetireAll
  <2>1. queue' = queue
    BY <1>5 DEF Leave, RetireCompleted, Submit, SubmitFails, RetireAll, buffers
  <2>2. Rank' < Rank
    BY <1>5 DEF Leave, RetireCompleted, Submit, SubmitFails, RetireAll, Rank
  <2>3. QED
    BY <2>1, <2>2
<1>6. CASE Abort
  <2>1. queue' = <<>> /\ Rank' < Rank
    BY <1>6 DEF Abort, ClearsQueue, Rank
  <2>2. Len(queue) \in Nat /\ Len(queue') = 0
    BY <1>1, <2>1, LenProperties
  <2>3. QED
    BY <2>1, <2>2
<1>7. CASE DevicePlays
  <2>1. pending # <<>> /\ pending' = Tail(pending) /\ queue' = queue /\ worker' = worker
    BY <1>7 DEF DevicePlays, buffers
  <2>2. Len(pending) \in Nat /\ Len(pending') = Len(pending) - 1
    BY <1>1, <2>1, EmptySeq, LenProperties, HeadTailProperties
  <2>3. QED
    BY <2>1, <2>2
<1>8. QED
  BY <1>2, <1>3, <1>4, <1>5, <1>6, <1>7 DEF Next, Worker

\* Each step of a drain leaves less to do, by DescentEnds only finitely often: the
\* worker's wait no longer ends without a chunk, and a chunk is given to the device
\* once.
THEOREM EveryStepDescends ==
  Spec => /\ [](Remaining \in [1 .. 3 -> Nat])
          /\ [][Draining /\ Draining' => IsBelow(3, Remaining', Remaining)]_vars
<1>1. IInv /\ IInv' /\ [Next]_vars
        => [Draining /\ Draining' => IsBelow(3, Remaining', Remaining)]_vars
  <2> SUFFICES ASSUME IInv, IInv', Next, vars' # vars, Draining, Draining'
               PROVE  IsBelow(3, Remaining', Remaining)
    OBVIOUS
  <2>1. Remaining \in [1 .. 3 -> Nat] /\ Remaining' \in [1 .. 3 -> Nat]
    BY RemainingCounts, RemainingCountsNext
  <2>2. SUFFICES \E k \in 1 .. 3 : /\ Remaining'[k] < Remaining[k]
                                   /\ \A i \in 1 .. k - 1 : Remaining'[i] = Remaining[i]
    BY <2>1, FirstDifference
  <2>3. \A i \in 1 .. 1 - 1 : FALSE
    OBVIOUS
  <2>4. \A i \in 1 .. 2 - 1 : i = 1
    OBVIOUS
  <2>5. \A i \in 1 .. 3 - 1 : i \in {1, 2}
    OBVIOUS
  <2>6. CASE Len(queue') < Len(queue)
    BY <2>3, <2>6 DEF Remaining
  <2>7. CASE Len(queue') = Len(queue) /\ Rank' < Rank
    <3>1. Remaining'[1] = Remaining[1] /\ Remaining'[2] < Remaining[2]
      BY <2>7 DEF Remaining
    <3>2. QED
      BY <2>4, <3>1
  <2>8. CASE queue' = queue /\ worker' = worker /\ Len(pending') < Len(pending)
    <3>1. /\ Remaining'[1] = Remaining[1] /\ Remaining'[2] = Remaining[2]
          /\ Remaining'[3] < Remaining[3]
      BY <2>8 DEF Remaining, Rank
    <3>2. QED
      BY <2>5, <3>1
  <2>9. QED
    BY <2>6, <2>7, <2>8, LessRemains
<1>2. QED
  BY <1>1, RemainingCounts, Invariant, PTL DEF Spec

\* A drain is never stuck: until it returns, the worker has a step to take, the
\* device a buffer to play, or the worker can be joined.
THEOREM NeverStuck ==
  Spec => [](Draining => WorkerCanStep \/ pending # <<>> \/ worker = "exited")
<1>1. IInv => (Draining => WorkerCanStep \/ pending # <<>> \/ worker = "exited")
  BY DEF IInv, TypeOK, WorkerInv, StopInv, Draining, WorkerCanStep, AllPlayed
<1>2. QED
  BY Invariant, <1>1, PTL
===============================================================================
