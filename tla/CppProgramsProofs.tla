------------------------- MODULE CppProgramsProofs -------------------------
(***************************************************************************)
(* The sequential C++ programs, for every input and every sequence of      *)
(* calls: what the two minimum programs print, the particle filter of      *)
(* stoch-vola, the objects that clients of its statistics classes make,    *)
(* the summaries of utilfuns, and the sums of the Fenwick tree.            *)
(*                                                                         *)
(* Minimum: LeastPrinted only speaks of the end.  Before it, the deque is  *)
(* sorted and its front is not above any number read so far; while the     *)
(* inner loop pops, the number just read may stand in for the front.       *)
(*                                                                         *)
(* Filter: TracesWhole says nothing of the shape of the matrix, nor of how *)
(* t and currentRow_ go together, which decides whether a row is left.     *)
(*                                                                         *)
(* Client: OnePast survives a transformation because appending a function  *)
(* to two different numbers' pasts leaves them different, so the type of   *)
(* the cells is part of the invariant.                                     *)
(*                                                                         *)
(* Summaries: rounding to a nearest double never passes a double, and the  *)
(* data are doubles.                                                       *)
(*                                                                         *)
(* Fenwick: a node is the sum of what it covers, less what update_tree,    *)
(* somewhere on its way, has still to add.  The element it came from is    *)
(* not kept; that there is one which the node at index covers is enough,   *)
(* because the next node that covers it is index + LowBit(index).          *)
(***************************************************************************)
EXTENDS ParticleFilter, StochVolaClient, MinStackQueue, UtilFuns, FenwickTree, DataLemmas

MinTypes ==
    /\ line \in Seq(Numbers \cup {Word})
    /\ pos \in 0..Len(line)
    /\ minProgram \in {"queue", "stack"}
    /\ minPc \in {"read", "pop", "done"}
    /\ x \in Numbers
    /\ q \in Seq(Numbers)
    /\ st \in Seq(Numbers \X Numbers)

\* Each program has its own container, and it has something as soon as a
\* number is read.
Containers ==
    /\ minProgram = "stack" => q = <<>> /\ minPc # "pop"
    /\ minProgram = "queue" => st = <<>>
    /\ minPc = "pop" => pos > 0 /\ x = line[pos]
    /\ minPc = "read" /\ pos > 0 => q # <<>> \/ st # <<>>

NumbersRead == \A i \in 1..pos : line[i] \in Numbers

DequeSorted == \A i, j \in 1..Len(q) : i <= j => q[i] <= q[j]

FromLine == \A k \in 1..Len(q) : \E i \in 1..pos : q[k] = line[i]

FrontLeast ==
    minProgram = "queue" =>
       \A i \in 1..pos :
          \/ q # <<>> /\ q[1] <= line[i]
          \/ minPc = "pop" /\ x <= line[i]

Least(v) == (\E i \in 1..pos : v = line[i]) /\ (\A i \in 1..pos : v <= line[i])

TopLeast == st # <<>> => Least(st[Len(st)][2])

MinInv ==
    /\ MinTypes /\ Containers /\ NumbersRead
    /\ DequeSorted /\ FromLine /\ FrontLeast /\ TopLeast
    /\ LeastPrinted

USE MinAssumption

-----------------------------------------------------------------------------
\* A program that starts, on any line, satisfies the invariant.
LEMMA MinInitial == MinInit => MinInv
<1> SUFFICES ASSUME MinInit PROVE MinInv
    OBVIOUS
<1>1. PICK p \in {"queue", "stack"}, l \in Lines, x0 \in Numbers : MinStart(p, l, x0)
      BY DEF MinInit
<1>2. MinTypes
      BY <1>1 DEF MinStart, MinTypes
<1> QED
    BY <1>1, <1>2 DEF MinStart, MinInv, Containers, NumbersRead, DequeSorted, FromLine,
                      FrontLeast, TopLeast, LeastPrinted

\* main_queue reads a number that is one.
LEMMA ReadNumberStep ==
    ASSUME MinInv, ReadNumber PROVE MinInv'
<1>1. /\ pos < Len(line) /\ pos' = pos + 1 /\ line' = line
      /\ x' = line[pos + 1] /\ x' \in Numbers /\ pos \in Nat /\ Len(line) \in Nat
      /\ q' = q /\ st' = st /\ minProgram' = minProgram /\ minPc' = "pop"
      /\ minProgram = "queue" /\ minPc = "read"
      BY DEF MinInv, MinTypes, ReadNumber, Extracts
<1>2. MinTypes'
      BY <1>1 DEF MinInv, MinTypes
<1>3. Containers'
      BY <1>1 DEF MinInv, Containers
<1>4. NumbersRead'
      BY <1>1 DEF MinInv, NumbersRead
<1>5. DequeSorted'
      BY <1>1 DEF MinInv, DequeSorted
<1>6. FromLine'
      BY <1>1 DEF MinInv, FromLine
<1>7. FrontLeast'
      BY <1>1 DEF MinInv, FrontLeast
<1>8. TopLeast'
      BY <1>1 DEF MinInv, Containers, TopLeast
<1> QED
    BY <1>1, <1>2, <1>3, <1>4, <1>5, <1>6, <1>7, <1>8 DEF MinInv, LeastPrinted

\* The inner loop drops a number above the one just read.
LEMMA PopBackStep ==
    ASSUME MinInv, PopBack PROVE MinInv'
<1>1. /\ minPc = "pop" /\ q # <<>> /\ q[Len(q)] > x /\ q' = SubSeq(q, 1, Len(q) - 1)
      /\ pos' = pos /\ line' = line /\ x' = x /\ st' = st
      /\ minProgram' = minProgram /\ minPc' = minPc /\ minimum' = minimum
      BY DEF PopBack, Behind
<1>2. /\ Len(q) \in Nat \ {0} /\ q' \in Seq(Numbers) /\ Len(q') = Len(q) - 1
      /\ \A i \in 1..(Len(q) - 1) : q'[i] = q[i]
  <2>1. q \in Seq(Numbers)
        BY DEF MinInv, MinTypes
  <2>2. Len(q) \in Nat \ {0} /\ \A i \in 1..(Len(q) - 1) : q[i] \in Numbers
        BY <2>1, <1>1, LenProperties, EmptySeq, ElementOfSeq
  <2> DEFINE last == Len(q) - 1
  <2>3. last \in Int /\ 1 \in Int /\ \A i \in 1..last : q[i] \in Numbers
        BY <2>2
  <2>4. /\ SubSeq(q, 1, last) \in Seq(Numbers)
        /\ Len(SubSeq(q, 1, last)) = IF 1 <= last THEN last - 1 + 1 ELSE 0
        /\ \A i \in 1..(last - 1 + 1) : SubSeq(q, 1, last)[i] = q[1 + i - 1]
    <3> HIDE DEF last
    <3> QED
        BY <2>3, SubSeqProperties
  <2>5. Len(q') = Len(q) - 1
    <3>1. last \in Nat
          BY <2>2
    <3>2. (IF 1 <= last THEN last - 1 + 1 ELSE 0) = last
      <4> HIDE DEF last
      <4> QED
          BY <3>1
    <3> HIDE DEF last
    <3>3. q' = SubSeq(q, 1, last)
          BY <1>1 DEF last
    <3>4. Len(q') = last
          BY <2>4, <3>2, <3>3, Zenon
    <3> QED
        BY <3>4 DEF last
  <2>6. ASSUME NEW i \in 1..(Len(q) - 1) PROVE q'[i] = q[i]
    <3>1. i \in 1..(last - 1 + 1) /\ 1 + i - 1 = i
          BY <2>2
    <3> QED
        BY <3>1, <2>4, <1>1
  <2> QED
      BY <2>2, <2>4, <2>5, <2>6, <1>1
<1>b. x \in Int /\ \A i \in 1..pos : line[i] \in Int
      BY DEF MinInv, MinTypes, NumbersRead
<1>c. \A i \in 1..Len(q) : q[i] \in Int
      BY ElementOfSeq DEF MinInv, MinTypes
<1>3. MinTypes'
      BY <1>1, <1>2 DEF MinInv, MinTypes
<1>4. Containers'
      BY <1>1, <1>2 DEF MinInv, Containers, MinTypes
<1>5. NumbersRead'
      BY <1>1 DEF MinInv, NumbersRead
<1>6. DequeSorted'
      BY <1>1, <1>2 DEF MinInv, DequeSorted
<1>7. FromLine'
      BY <1>1, <1>2 DEF MinInv, FromLine
<1>8. FrontLeast'
  <2> SUFFICES ASSUME minProgram = "queue", NEW i \in 1..pos
               PROVE (q' # <<>> /\ q'[1] <= line[i]) \/ x <= line[i]
      BY <1>1 DEF FrontLeast
  <2>1. CASE Len(q) = 1
    <3>1. q[1] > x /\ q[1] \in Int
          BY <2>1, <1>1, <1>c
    <3>2. q[1] <= line[i] \/ x <= line[i]
          BY DEF MinInv, FrontLeast
    <3> QED
        BY <3>1, <3>2, <1>b
  <2>2. CASE Len(q) > 1
    <3>1. q'[1] = q[1] /\ q' # <<>>
          BY <2>2, <1>2, EmptySeq
    <3> QED
        BY <3>1 DEF MinInv, FrontLeast
  <2> QED
      BY <2>1, <2>2, <1>2
<1>9. TopLeast'
      BY <1>1 DEF MinInv, TopLeast, Least
<1> QED
    BY <1>1, <1>3, <1>4, <1>5, <1>6, <1>7, <1>8, <1>9 DEF MinInv, LeastPrinted

\* The inner loop ends and the number is pushed.
LEMMA PushBackStep ==
    ASSUME MinInv, PushBack PROVE MinInv'
<1>1. /\ minPc = "pop" /\ (q = <<>> \/ ~(q[Len(q)] > x)) /\ q' = Append(q, x)
      /\ pos' = pos /\ line' = line /\ x' = x /\ st' = st
      /\ minProgram' = minProgram /\ minPc' = "read" /\ minimum' = minimum
      BY DEF PushBack, Behind
<1>2. /\ Len(q) \in Nat /\ q' \in Seq(Numbers) /\ Len(q') = Len(q) + 1 /\ x \in Int
      /\ \A i \in 1..Len(q) : q'[i] = q[i] /\ q[i] \in Int
      /\ q'[Len(q) + 1] = x
  <2>1. q \in Seq(Numbers) /\ x \in Numbers
        BY DEF MinInv, MinTypes
  <2>2. Len(q) \in Nat /\ \A i \in 1..Len(q) : q[i] \in Int
        BY <2>1, LenProperties, ElementOfSeq
  <2> QED
      BY <2>1, <2>2, <1>1, AppendProperties
<1>3. MinTypes'
      BY <1>1, <1>2 DEF MinInv, MinTypes
<1>4. Containers'
      BY <1>1, <1>2 DEF MinInv, Containers, MinTypes
<1>5. NumbersRead'
      BY <1>1 DEF MinInv, NumbersRead
<1>a. \A i \in 1..Len(q) : q[i] <= x
  <2>1. ASSUME NEW i \in 1..Len(q) PROVE q[i] <= q[Len(q)]
        BY <1>2 DEF MinInv, DequeSorted
  <2> QED
      BY <2>1, <1>1, <1>2
<1>6. DequeSorted'
  <2> SUFFICES ASSUME NEW i \in 1..(Len(q) + 1), NEW j \in 1..(Len(q) + 1), i <= j
               PROVE q'[i] <= q'[j]
      BY <1>2 DEF DequeSorted
  <2>1. CASE j <= Len(q)
        BY <2>1, <1>2 DEF MinInv, DequeSorted
  <2>2. CASE j = Len(q) + 1 /\ i <= Len(q)
        BY <2>2, <1>2, <1>a
  <2>3. CASE i = Len(q) + 1
        BY <2>3, <1>2
  <2> QED
      BY <2>1, <2>2, <2>3, <1>2
<1>7. FromLine'
  <2>1. pos \in 1..pos /\ x = line[pos]
        BY <1>1 DEF MinInv, Containers, MinTypes
  <2> QED
      BY <2>1, <1>1, <1>2 DEF MinInv, FromLine
<1>8. FrontLeast'
  <2> SUFFICES ASSUME minProgram = "queue", NEW i \in 1..pos
               PROVE q' # <<>> /\ q'[1] <= line[i]
      BY <1>1 DEF FrontLeast
  <2>1. q' # <<>>
        BY <1>2
  <2>2. CASE Len(q) = 0
        BY <2>1, <2>2, <1>1, <1>2 DEF MinInv, FrontLeast, MinTypes
  <2>3. CASE Len(q) > 0
    <3>1. q'[1] = q[1] /\ q[1] <= x /\ q[1] \in Int
          BY <2>3, <1>2, <1>a
    <3>2. line[i] \in Int
          BY DEF MinInv, NumbersRead
    <3> QED
        BY <2>1, <3>1, <3>2, <1>1, <1>2 DEF MinInv, FrontLeast
  <2> QED
      BY <2>2, <2>3, <1>2
<1>9. TopLeast'
      BY <1>1 DEF MinInv, TopLeast, Least
<1> QED
    BY <1>1, <1>3, <1>4, <1>5, <1>6, <1>7, <1>8, <1>9 DEF MinInv, LeastPrinted

\* main_stack reads a number and pushes it with the least so far.
LEMMA PushPairStep ==
    ASSUME MinInv, PushPair PROVE MinInv'
<1>1. /\ pos < Len(line) /\ pos' = pos + 1 /\ line' = line
      /\ x' = line[pos + 1] /\ x' \in Numbers /\ pos \in Nat /\ Len(line) \in Nat
      /\ q' = q /\ minProgram' = minProgram /\ minPc' = minPc
      /\ minProgram = "stack" /\ minPc = "read"
      /\ st' = Append(st, <<x', NewMin(x')>>)
      BY DEF MinInv, MinTypes, PushPair, Extracts
<1> DEFINE top == st[Len(st)][2]
<1>2. st \in Seq(Numbers \X Numbers) /\ (st # <<>> => top \in Numbers)
      BY DEF MinInv, MinTypes
<1>3. NewMin(x') \in Numbers
      BY <1>1, <1>2 DEF NewMin
<1>4. /\ st' \in Seq(Numbers \X Numbers) /\ Len(st') = Len(st) + 1 /\ st' # <<>>
      /\ st'[Len(st')] = <<x', NewMin(x')>>
      BY <1>1, <1>2, <1>3
<1>5. MinTypes'
      BY <1>1, <1>4 DEF MinInv, MinTypes
<1>6. Containers'
      BY <1>1, <1>4 DEF MinInv, Containers
<1>7. NumbersRead'
      BY <1>1 DEF MinInv, NumbersRead
<1>8. DequeSorted' /\ FromLine' /\ FrontLeast'
      BY <1>1 DEF MinInv, Containers, DequeSorted, FromLine, FrontLeast
<1>9. TopLeast'
  <2>1. ASSUME NEW i \in 1..pos PROVE line[i] \in Int
        BY <2>1 DEF MinInv, NumbersRead
  <2>2. x' \in Int /\ 1..pos' = 1..pos \cup {pos + 1}
        BY <1>1
  <2>3. CASE st = <<>>
    <3>1. pos = 0
          BY <1>1, <2>3 DEF MinInv, Containers
    <3>2. NewMin(x') = x'
          BY <2>3 DEF NewMin
    <3> QED
        BY <3>1, <3>2, <1>1, <1>4, <2>2 DEF TopLeast, Least
  <2>4. CASE st # <<>>
    <3>1. Least(top)
          BY <2>4 DEF MinInv, TopLeast
    <3>2. CASE x' < top
      <4>1. NewMin(x') = x'
            BY <3>2, <2>4 DEF NewMin
      <4>2. \A i \in 1..pos : x' <= line[i]
            BY <3>1, <3>2, <2>1, <2>2, <1>2, <2>4 DEF Least
      <4> QED
          BY <4>1, <4>2, <1>1, <1>4, <2>2 DEF TopLeast, Least
    <3>3. CASE ~(x' < top)
      <4>1. NewMin(x') = top /\ top <= x'
        <5>1. NewMin(x') = top
              BY <3>3, <2>4 DEF NewMin
        <5>2. top \in Int
              BY <2>4, <1>2
        <5> QED
            BY <5>1, <5>2, <3>3, <2>2
      <4> QED
          BY <4>1, <3>1, <1>1, <1>4, <2>2 DEF TopLeast, Least
    <3> QED
        BY <3>2, <3>3
  <2> QED
      BY <2>3, <2>4
<1> QED
    BY <1>1, <1>5, <1>6, <1>7, <1>8, <1>9 DEF MinInv, LeastPrinted

\* The end of the line, or a word that is no number.
LEMMA PrintMinimumStep ==
    ASSUME MinInv, PrintMinimum PROVE MinInv'
<1>1. /\ minPc = "read" /\ minPc' = "done" /\ (pos < Len(line) => line[pos + 1] = Word)
      /\ pos' = pos /\ line' = line /\ x' = x /\ st' = st /\ q' = q
      /\ minProgram' = minProgram
      BY DEF PrintMinimum, Extracts
<1>2. MinTypes' /\ Containers' /\ NumbersRead' /\ DequeSorted' /\ FromLine' /\ TopLeast'
      BY <1>1 DEF MinInv, MinTypes, Containers, NumbersRead, DequeSorted, FromLine, TopLeast, Least
<1>3. FrontLeast'
      BY <1>1 DEF MinInv, FrontLeast
<1>4. ASSUME pos > 0 PROVE Least(minimum')
  <2>1. (q # <<>> /\ minimum' = q[1]) \/ (st # <<>> /\ minimum' = st[Len(st)][2])
        BY <1>4 DEF PrintMinimum, MinInv, MinTypes
  <2>2. CASE q # <<>> /\ minimum' = q[1]
    <3>1. minProgram = "queue" /\ 1 \in 1..Len(q)
          BY <2>2 DEF MinInv, Containers, MinTypes
    <3> QED
        BY <2>2, <3>1, <1>1 DEF MinInv, FromLine, FrontLeast, Least
  <2>3. CASE st # <<>> /\ minimum' = st[Len(st)][2]
        BY <2>3 DEF MinInv, TopLeast
  <2> QED
      BY <2>1, <2>2, <2>3
<1>5. pos = Len(line) \/ line[pos + 1] = Word
      BY <1>1 DEF MinInv, MinTypes
<1>6. LeastPrinted'
      BY <1>1, <1>4, <1>5 DEF LeastPrinted, Least
<1> QED
    BY <1>2, <1>3, <1>6 DEF MinInv

-----------------------------------------------------------------------------
\* On every line, whatever its length and numbers, both programs print the
\* least of the numbers before the first word that is none.
THEOREM MinimumIsLeast == MinSpec => []LeastPrinted
<1>1. MinInit => MinInv
      BY MinInitial
<1>2. MinInv /\ [MinNext]_minVars => MinInv'
  <2>1. CASE UNCHANGED minVars
        BY <2>1 DEF minVars, MinInv, MinTypes, Containers, NumbersRead, DequeSorted, FromLine,
                    FrontLeast, TopLeast, Least, LeastPrinted
  <2> QED
      BY <2>1, ReadNumberStep, PopBackStep, PushBackStep, PushPairStep, PrintMinimumStep
         DEF MinNext
<1>3. MinInv => LeastPrinted
      BY DEF MinInv
<1> QED
    BY <1>1, <1>2, <1>3, PTL DEF MinSpec
-----------------------------------------------------------------------------
(* The particle filter                                                     *)

Noise == {Seed} \X Nat

Matrices(N, obs) == [0..obs -> [0..(N - 1) -> Seq(Noise)]]

\* Whole, of a matrix.
WholeMatrix(m, N, last, born) ==
    \A row \in 0..last, col \in 0..(N - 1) :
       /\ Len(m[row][col]) = row + born
       /\ row > 0 => m[row - 1][col] = SubSeq(m[row][col], 1, row + born - 1)

\* The objects that a call with N particles and obs observations works on.
WholeParticles(N, obs) ==
    {p \in [class : {"Particles"}, particleCount : {N}, particleLength : {obs + 1},
            currentRow : 0..obs, particles : Matrices(N, obs)] :
       WholeMatrix(p.particles, N, p.currentRow, 1)}

FilterParams ==
    /\ fun \in {"particleFilter", "logLikelihood"}
    /\ nParticles \in Nat \ {0}
    /\ T \in Nat
    /\ sigma \in {0, 1}

\* A call does not throw for want of a row ("append"), and getParticlesWithoutInit
\* only throws when there was no observation.
FilterEnds ==
    /\ filterPc \in {"start", "loop", "resample", "returned", "sigma", "stds", "no init"}
    /\ filterPc = "no init" => T = 0

\* In the loop the last row filled is t - 1, and after appending it is t.
FilterLoop ==
    filterPc \in {"loop", "resample"} =>
       /\ sigma = 1
       /\ loopSeed = Seed
       /\ particles \in WholeParticles(nParticles, T)
       /\ t \in 1..(T + 1)
       /\ filterPc = "loop" => particles.currentRow = t - 1
       /\ filterPc = "resample" => /\ particles.currentRow = t
                                   /\ likelihoods \in [Cols -> {"zero", "positive", "inf", "nan"}]

\* A result is the T rows behind the first.
ResultWhole ==
    \/ result = NoResult
    \/ result.class = "double"
    \/ result.particleLength = T /\ WholeMatrix(result.particles, nParticles, T - 1, 2)

FilterInv ==
    /\ FilterParams /\ FilterEnds /\ FilterLoop /\ ResultWhole
    /\ particles = NoResult \/ particles \in WholeParticles(nParticles, T)

-----------------------------------------------------------------------------
\* What the constant constructor of IndependentVectorNormal makes of a standard
\* deviation that has underflowed, or has not.
LEMMA ConstantVector ==
    ASSUME NEW N \in Nat \ {0}
    PROVE  /\ MakeConstantVector(1, N).what = "value"
           /\ MakeConstantVector(1, N).value.nMeans = N
           /\ Fitting(MakeConstantVector(1, N).value)
           /\ MakeConstantVector(0, N).what # "value"
<1>1. \A s \in {0, 1} : /\ [i \in 1..N |-> s] \in Seq({0, 1})
                        /\ Len([i \in 1..N |-> s]) = N
                        /\ [i \in 1..N |-> s] # <<>>
      OBVIOUS
<1>2. ~NotPositive([i \in 1..N |-> 1]) /\ NotPositive([i \in 1..N |-> 0])
      BY DEF NotPositive
<1> QED
    BY <1>1, <1>2 DEF MakeConstantVector, MakeVector, Returned, Vector, Fitting, InvalidArgument

\* The noise that such a distribution samples.
LEMMA NoiseSampled ==
    ASSUME NEW N \in Nat \ {0}
    PROVE  LET sample == VectorSample(MakeConstantVector(1, N).value, Seed)
           IN  sample.what = "value" /\ sample.value \in [0..(N - 1) -> Noise]
BY ConstantVector DEF VectorSample, Returned, Noise

\* The particles at time 0 are whole traces.
LEMMA FirstRow ==
    ASSUME NEW N \in Nat \ {0}, NEW obs \in Nat
    PROVE  LET p == FromVectorNormal(MakeConstantVector(1, N).value, obs + 1, Seed).value
           IN  p \in WholeParticles(N, obs) /\ p.currentRow = 0
<1> DEFINE d == MakeConstantVector(1, N).value
           sample == VectorSample(d, Seed)
           m == [row \in 0..obs |-> IF row = 0 THEN Cells(sample.value) ELSE Zeros(N)]
           p == FromVectorNormal(d, obs + 1, Seed).value
<1>1. sample.what = "value" /\ sample.value \in [0..(N - 1) -> Noise] /\ d.nMeans = N
      BY NoiseSampled, ConstantVector
<1>2. p = ParticlesOf(N, obs + 1, 0, m)
      <2>1. (obs + 1) - 1 = obs
            OBVIOUS
      <2> QED
          BY <1>1, <2>1 DEF FromVectorNormal, FromVector, Returned
<1>3. /\ Cells(sample.value) \in [0..(N - 1) -> Seq(Noise)]
      /\ \A col \in 0..(N - 1) : Len(Cells(sample.value)[col]) = 1
      <2> HIDE DEF sample
      <2> QED
          BY <1>1 DEF Cells
<1>4. Zeros(N) \in [0..(N - 1) -> Seq(Noise)]
      BY DEF Zeros, Zero
<1> HIDE DEF d, sample
<1>5. m \in Matrices(N, obs)
      BY <1>3, <1>4 DEF Matrices
<1>6. WholeMatrix(m, N, 0, 1)
      BY <1>3 DEF WholeMatrix
<1> QED
    <2> HIDE DEF m, p
    <2>1. p \in WholeParticles(N, obs) /\ p.currentRow = 0
          BY <1>2, <1>5, <1>6 DEF WholeParticles, ParticlesOf
    <2> QED
        BY <2>1 DEF p, d

\* Moving on: the row below the last one filled holds each particle's number
\* with its past.
LEMMA RowAppended ==
    ASSUME NEW N \in Nat \ {0}, NEW obs \in Nat, NEW m \in Matrices(N, obs),
           NEW r \in 0..obs, r < obs, WholeMatrix(m, N, r, 1),
           NEW noise \in [0..(N - 1) -> Noise]
    PROVE  /\ [m EXCEPT ![r + 1] = Moved(m[r], noise)] \in Matrices(N, obs)
           /\ WholeMatrix([m EXCEPT ![r + 1] = Moved(m[r], noise)], N, r + 1, 1)
<1> DEFINE moved == Moved(m[r], noise)
           m2 == [m EXCEPT ![r + 1] = moved]
<1>1. m[r] \in [0..(N - 1) -> Seq(Noise)]
      BY DEF Matrices
<1>2. \A col \in 0..(N - 1) :
         /\ moved[col] = Append(m[r][col], noise[col])
         /\ moved[col] \in Seq(Noise)
         /\ Len(moved[col]) = r + 2
         /\ SubSeq(moved[col], 1, r + 1) = m[r][col]
      <2> TAKE col \in 0..(N - 1)
      <2>1. m[r][col] \in Seq(Noise) /\ noise[col] \in Noise /\ Len(m[r][col]) = r + 1
            <3>1. r \in 0..r
                  OBVIOUS
            <3>2. Len(m[r][col]) = r + 1
                  BY <3>1 DEF WholeMatrix
            <3> QED
                BY <1>1, <3>2
      <2>2. moved[col] = Append(m[r][col], noise[col])
            BY <1>1 DEF Moved
      <2>3. \A s \in Seq(Noise), e \in Noise :
               /\ Append(s, e) \in Seq(Noise)
               /\ Len(Append(s, e)) = Len(s) + 1
               /\ SubSeq(Append(s, e), 1, Len(s)) = s
            OBVIOUS
      <2> QED
          BY <2>1, <2>2, <2>3
<1>3. moved \in [0..(N - 1) -> Seq(Noise)]
      BY <1>1, <1>2 DEF Moved
<1> HIDE DEF moved
<1>4. m2 \in Matrices(N, obs) /\ m2[r + 1] = moved /\ \A row \in 0..r : m2[row] = m[row]
      BY <1>3 DEF Matrices
<1> HIDE DEF m2
<1>5. WholeMatrix(m2, N, r + 1, 1)
      <2> SUFFICES ASSUME NEW row \in 0..(r + 1), NEW col \in 0..(N - 1)
                   PROVE  /\ Len(m2[row][col]) = row + 1
                          /\ row > 0 => m2[row - 1][col] = SubSeq(m2[row][col], 1, row + 1 - 1)
          BY DEF WholeMatrix
      <2>1. CASE row = r + 1
            BY <2>1, <1>2, <1>4
      <2>2. CASE row \in 0..r
            <3>1. /\ Len(m[row][col]) = row + 1
                  /\ row > 0 => m[row - 1][col] = SubSeq(m[row][col], 1, row + 1 - 1)
                  BY <2>2 DEF WholeMatrix
            <3>2. m2[row] = m[row] /\ (row > 0 => m2[row - 1] = m[row - 1])
                  BY <2>2, <1>4
            <3> QED
                BY <3>1, <3>2
      <2> QED
          BY <2>1, <2>2
<1> QED
    BY <1>4, <1>5 DEF m2, moved

\* Resampling copies whole columns.
LEMMA ColumnsCopied ==
    ASSUME NEW N \in Nat \ {0}, NEW obs \in Nat, NEW p \in WholeParticles(N, obs),
           NEW from \in [0..(N - 1) -> 0..(N - 1)]
    PROVE  /\ Resampled(p, from) \in WholeParticles(N, obs)
           /\ Resampled(p, from).currentRow = p.currentRow
<1> DEFINE m == p.particles
           m2 == [row \in DOMAIN m |-> [col \in DOMAIN m[row] |-> m[row][from[col]]]]
<1>1. /\ p \in [class : {"Particles"}, particleCount : {N}, particleLength : {obs + 1},
                currentRow : 0..obs, particles : Matrices(N, obs)]
      /\ WholeMatrix(m, N, p.currentRow, 1)
      BY DEF WholeParticles
<1>2. m \in Matrices(N, obs) /\ p.currentRow \in 0..obs
      BY <1>1
<1>3. Resampled(p, from) = [p EXCEPT !.particles = m2]
      BY DEF Resampled
<1> HIDE DEF m
<1>4. /\ m2 \in Matrices(N, obs)
      /\ \A row \in 0..obs, col \in 0..(N - 1) : m2[row][col] = m[row][from[col]]
      BY <1>2 DEF Matrices
<1> HIDE DEF m2
<1>5. WholeMatrix(m2, N, p.currentRow, 1)
      <2> SUFFICES ASSUME NEW row \in 0..p.currentRow, NEW col \in 0..(N - 1)
                   PROVE  /\ Len(m2[row][col]) = row + 1
                          /\ row > 0 => m2[row - 1][col] = SubSeq(m2[row][col], 1, row + 1 - 1)
          BY DEF WholeMatrix
      <2>1. from[col] \in 0..(N - 1) /\ row \in 0..obs /\ (row > 0 => row - 1 \in 0..obs)
            BY <1>2
      <2>2. /\ Len(m[row][from[col]]) = row + 1
            /\ row > 0 => m[row - 1][from[col]] = SubSeq(m[row][from[col]], 1, row + 1 - 1)
            BY <1>1, <2>1 DEF WholeMatrix
      <2> QED
          BY <1>4, <2>1, <2>2
<1>6. /\ [p EXCEPT !.particles = m2] \in WholeParticles(N, obs)
      /\ [p EXCEPT !.particles = m2].currentRow = p.currentRow
      BY <1>1, <1>4, <1>5 DEF WholeParticles
<1> QED
    BY <1>3, <1>4, <1>6 DEF m

\* Every column that can be drawn is one of the particles'.
LEMMA DrawableColumns ==
    ASSUME NEW N \in Nat \ {0}, NEW likes \in [0..(N - 1) -> {"zero", "positive", "inf", "nan"}]
    PROVE  Drawable(likes) \subseteq 0..(N - 1)
BY DEF Drawable

-----------------------------------------------------------------------------
LEMMA FilterInitial == FilterInit => FilterInv
<1> SUFFICES ASSUME FilterInit PROVE FilterInv
    OBVIOUS
<1>1. PICK f \in {"particleFilter", "logLikelihood"}, N \in Counts, obs \in Observations,
           s \in {0, 1} : FilterStart(f, N, obs, s)
      BY DEF FilterInit
<1>2. FilterParams
      BY <1>1, FilterAssumption DEF FilterStart, FilterParams
<1> QED
    BY <1>1, <1>2 DEF FilterStart, FilterInv, FilterEnds, FilterLoop, ResultWhole

\* The particles at time 0 are sampled, or the constructor throws.
LEMMA ConstructKeeps == FilterInv /\ Construct => FilterInv'
<1> SUFFICES ASSUME FilterInv, Construct PROVE FilterInv'
    OBVIOUS
<1> USE DEF FilterInv, Construct
<1>1. FilterParams /\ FilterParams' /\ UNCHANGED <<nParticles, T, sigma, result>>
      BY DEF FilterParams, callVars
<1>2. ResultWhole'
      BY <1>1 DEF ResultWhole
<1>3. CASE MakeConstantVector(sigma, nParticles).what = "value"
      <2>1. sigma = 1
            BY <1>1, <1>3, ConstantVector DEF FilterParams
      <2>2. /\ particles' \in WholeParticles(nParticles, T)
            /\ particles'.currentRow = 0
            BY <1>1, <1>3, <2>1, FirstRow DEF FilterParams
      <2>3. loopSeed' = Seed /\ t' = 1 /\ filterPc' = "loop"
            BY <1>3
      <2>4. FilterLoop'
            BY <1>1, <2>1, <2>2, <2>3 DEF FilterLoop, FilterParams
      <2> QED
          BY <1>1, <1>2, <2>2, <2>3, <2>4 DEF FilterEnds
<1>4. CASE MakeConstantVector(sigma, nParticles).what # "value"
      BY <1>1, <1>2, <1>4 DEF FilterEnds, FilterLoop
<1> QED
    BY <1>3, <1>4

\* The row below the last one is there, and gets the particles' numbers.
LEMMA AppendMovedKeeps ==
    ASSUME FilterInv, filterPc = "loop", t <= T, AppendMoved
    PROVE  /\ filterPc' = "resample"
           /\ particles' \in WholeParticles(nParticles, T)
           /\ particles'.currentRow = t
<1> DEFINE noise == VectorSample(MakeConstantVector(1, nParticles).value, Seed).value
           m == particles.particles
           r == particles.currentRow
           moved == Moved(m[r], noise)
           m2 == [m EXCEPT ![r + 1] = moved]
<1>1. /\ nParticles \in Nat \ {0} /\ T \in Nat
      /\ sigma = 1 /\ loopSeed = Seed
      /\ particles \in WholeParticles(nParticles, T)
      /\ r = t - 1
      /\ t \in 1..(T + 1)
      BY DEF FilterInv, FilterParams, FilterLoop
<1>2. /\ particles \in [class : {"Particles"}, particleCount : {nParticles},
                        particleLength : {T + 1}, currentRow : 0..T,
                        particles : Matrices(nParticles, T)]
      /\ WholeMatrix(m, nParticles, r, 1)
      BY <1>1 DEF WholeParticles
<1>3. m \in Matrices(nParticles, T) /\ r \in 0..T /\ r < T /\ particles.particleLength = T + 1
      BY <1>1, <1>2
<1>4. noise \in [0..(nParticles - 1) -> Noise]
      BY <1>1, NoiseSampled
<1>5. GetLatestParticles(particles).value = m[r]
      <2>1. particles.currentRow < particles.particleLength
            BY <1>1, <1>3
      <2> QED
          BY <2>1 DEF GetLatestParticles, Returned
<1>6. AppendParticles(particles, moved, nParticles) =
         Returned([particles EXCEPT !.particles[r + 1] = moved, !.currentRow = @ + 1])
      <2>1. particles.particleCount = nParticles
            BY <1>2
      <2>2. ~(particles.currentRow >= particles.particleLength - 1)
            BY <1>1, <1>3
      <2> QED
          BY <2>1, <2>2 DEF AppendParticles
<1>7. /\ particles' = [particles EXCEPT !.particles[r + 1] = moved, !.currentRow = @ + 1]
      /\ filterPc' = "resample"
      BY <1>1, <1>5, <1>6 DEF AppendMoved, Returned
<1> HIDE DEF noise
<1>8. m2 \in Matrices(nParticles, T) /\ WholeMatrix(m2, nParticles, r + 1, 1)
      BY <1>1, <1>2, <1>3, <1>4, RowAppended
<1> HIDE DEF moved
<1>9. particles' = [particles EXCEPT !.particles = m2, !.currentRow = r + 1]
      BY <1>2, <1>7
<1> HIDE DEF m2, r
<1>10. r + 1 = t /\ r + 1 \in 0..T
       BY <1>1, <1>3
<1>11. /\ particles' \in [class : {"Particles"}, particleCount : {nParticles},
                          particleLength : {T + 1}, currentRow : 0..T,
                          particles : Matrices(nParticles, T)]
       /\ particles'.currentRow = r + 1
       /\ particles'.particles = m2
       BY <1>2, <1>8, <1>9, <1>10
<1> QED
    BY <1>7, <1>8, <1>10, <1>11 DEF WholeParticles

LEMMA PropagateKeeps == FilterInv /\ Propagate => FilterInv'
<1> SUFFICES ASSUME FilterInv, Propagate PROVE FilterInv'
    OBVIOUS
<1>1. /\ filterPc = "loop" /\ t <= T
      /\ UNCHANGED <<fun, nParticles, T, sigma, loopSeed, t, result>>
      BY DEF Propagate, callVars
<1>2. FilterParams' /\ ResultWhole'
      BY <1>1 DEF FilterInv, FilterParams, ResultWhole
<1>3. CASE filterPc' = "stds" /\ UNCHANGED <<particles, likelihoods, logLikeSum>>
      BY <1>1, <1>2, <1>3 DEF FilterInv, FilterEnds, FilterLoop
<1>4. CASE \E densities \in [Cols -> Densities] :
              likelihoods' = [col \in Cols |-> densities[col][2]] /\ AppendMoved
      <2>1. /\ filterPc' = "resample"
            /\ particles' \in WholeParticles(nParticles, T)
            /\ particles'.currentRow = t
            BY <1>1, <1>4, AppendMovedKeeps
      <2>2. likelihoods' \in [Cols -> {"zero", "positive", "inf", "nan"}]
            <3>1. \A d \in Densities : d[2] \in {"zero", "positive", "inf", "nan"}
                  BY DEF Densities
            <3> QED
                BY <1>4, <3>1
      <2>3. FilterLoop'
            BY <1>1, <2>1, <2>2 DEF FilterInv, FilterLoop, Cols
      <2> QED
          BY <1>1, <1>2, <2>1, <2>3 DEF FilterInv, FilterEnds
<1> QED
    BY <1>3, <1>4 DEF Propagate

LEMMA ResampleKeeps == FilterInv /\ Resample => FilterInv'
<1> SUFFICES ASSUME FilterInv, Resample PROVE FilterInv'
    OBVIOUS
<1>1. /\ filterPc = "resample" /\ filterPc' = "loop" /\ t' = t + 1
      /\ UNCHANGED <<fun, nParticles, T, sigma, loopSeed, result>>
      BY DEF Resample, callVars
<1>2. FilterParams' /\ ResultWhole'
      BY <1>1 DEF FilterInv, FilterParams, ResultWhole
<1>3. /\ nParticles \in Nat \ {0} /\ T \in Nat
      /\ particles \in WholeParticles(nParticles, T)
      /\ particles.currentRow = t /\ t \in 1..(T + 1)
      /\ likelihoods \in [0..(nParticles - 1) -> {"zero", "positive", "inf", "nan"}]
      BY <1>1 DEF FilterInv, FilterParams, FilterLoop, Cols
<1>4. particles' \in WholeParticles(nParticles, T) /\ particles'.currentRow = t
      <2>1. CASE Resamples
            <3>1. PICK from \in [Cols -> Drawable(likelihoods)] :
                     particles' = ResampleParticles(particles, from, nParticles).value
                  BY <2>1 DEF Resample
            <3>2. from \in [0..(nParticles - 1) -> 0..(nParticles - 1)]
                  BY <1>3, <3>1, DrawableColumns DEF Cols
            <3>3. particles' = Resampled(particles, from)
                  BY <1>3, <3>1 DEF ResampleParticles, Returned, WholeParticles
            <3> QED
                <4>1. /\ Resampled(particles, from) \in WholeParticles(nParticles, T)
                      /\ Resampled(particles, from).currentRow = particles.currentRow
                      BY <1>3, <3>2, ColumnsCopied
                <4> QED
                    BY <1>3, <3>3, <4>1
      <2>2. CASE ~Resamples
            BY <1>3, <2>2 DEF Resample
      <2> QED
          BY <2>1, <2>2
<1>5. t' \in 1..(T + 1)
      <2>1. particles.currentRow \in 0..T
            BY <1>3 DEF WholeParticles
      <2> QED
          BY <1>1, <1>3, <2>1
<1>6. FilterLoop'
      BY <1>1, <1>3, <1>4, <1>5 DEF FilterInv, FilterLoop
<1> QED
    BY <1>1, <1>2, <1>4, <1>6 DEF FilterInv, FilterEnds

\* All rows but the first, of a matrix that is filled.
LEMMA WithoutInit ==
    ASSUME NEW N \in Nat \ {0}, NEW obs \in Nat, obs > 0, NEW p \in WholeParticles(N, obs),
           p.currentRow = obs
    PROVE  LET without == GetParticlesWithoutInit(p)
           IN  /\ without.what = "value"
               /\ without.value.particleLength = obs
               /\ WholeMatrix(without.value.particles, N, obs - 1, 2)
<1> DEFINE m == p.particles
           m2 == [row \in 0..(obs - 1) |-> m[row + 1]]
           m3 == [row \in 0..(obs - 1) |-> IF row < obs THEN m2[row] ELSE Zeros(N)]
<1>1. /\ p.particleLength = obs + 1 /\ p.particleCount = N
      /\ m \in Matrices(N, obs)
      /\ WholeMatrix(m, N, obs, 1)
      BY DEF WholeParticles
<1>2. /\ p.particleLength - 2 = obs - 1 /\ p.particleLength - 1 = obs
      /\ p.particleLength # 1
      BY <1>1
<1>3. GetParticlesWithoutInit(p) = Returned(ParticlesOf(N, obs, 0, m3))
      BY <1>1, <1>2 DEF GetParticlesWithoutInit, FromMatrix
<1>4. \A row \in 0..(obs - 1) : m3[row] = m[row + 1]
      OBVIOUS
<1> HIDE DEF m3, m
<1>5. WholeMatrix(m3, N, obs - 1, 2)
      <2> SUFFICES ASSUME NEW row \in 0..(obs - 1), NEW col \in 0..(N - 1)
                   PROVE  /\ Len(m3[row][col]) = row + 2
                          /\ row > 0 => m3[row - 1][col] = SubSeq(m3[row][col], 1, row + 2 - 1)
          BY DEF WholeMatrix
      <2>1. /\ row + 1 \in 0..obs /\ row + 1 > 0 /\ (row + 1) - 1 = row
            /\ (row + 1) + 1 = row + 2 /\ (row + 1) + 1 - 1 = row + 2 - 1
            OBVIOUS
      <2>2. Len(m[row + 1][col]) = row + 2
            /\ m[row][col] = SubSeq(m[row + 1][col], 1, row + 2 - 1)
            BY <1>1, <2>1 DEF WholeMatrix
      <2>3. m3[row] = m[row + 1] /\ (row > 0 => m3[row - 1] = m[row])
            BY <1>4
      <2> QED
          BY <2>2, <2>3
<1> QED
    BY <1>3, <1>5 DEF Returned, ParticlesOf

LEMMA ReturnKeeps == FilterInv /\ Return => FilterInv'
<1> SUFFICES ASSUME FilterInv, Return PROVE FilterInv'
    OBVIOUS
<1>1. /\ filterPc = "loop" /\ t > T
      /\ UNCHANGED <<fun, nParticles, T, sigma, particles, loopSeed, t, likelihoods>>
      BY DEF Return, callVars
<1>2. FilterParams' /\ FilterParams
      BY <1>1 DEF FilterInv, FilterParams
<1>3. /\ nParticles \in Nat \ {0} /\ T \in Nat
      /\ particles \in WholeParticles(nParticles, T) /\ particles.currentRow = T
      BY <1>1 DEF FilterInv, FilterParams, FilterLoop
<1>4. CASE fun = "logLikelihood"
      <2>1. result'.class = "double" /\ filterPc' = "returned"
            BY <1>4 DEF Return
      <2> QED
          BY <1>1, <1>2, <2>1 DEF FilterInv, FilterEnds, FilterLoop, ResultWhole
<1>5. CASE fun = "particleFilter" /\ GetParticlesWithoutInit(particles).what = "value"
      <2>1. /\ result' = GetParticlesWithoutInit(particles).value
            /\ filterPc' = "returned"
            BY <1>5 DEF Return
      <2>2. T > 0
            BY <1>3, <1>5 DEF GetParticlesWithoutInit, InvalidArgument, WholeParticles
      <2>3. ResultWhole'
            BY <1>1, <1>3, <2>1, <2>2, WithoutInit DEF ResultWhole
      <2> QED
          BY <1>1, <1>2, <2>1, <2>3 DEF FilterInv, FilterEnds, FilterLoop
<1>6. CASE fun = "particleFilter" /\ GetParticlesWithoutInit(particles).what # "value"
      <2>1. filterPc' = "no init" /\ UNCHANGED result
            BY <1>6 DEF Return
      <2>2. T = 0
            <3>1. T > 0 => GetParticlesWithoutInit(particles).what = "value"
                  BY <1>3, WithoutInit
            <3> QED
                BY <1>3, <1>6, <3>1
      <2>3. ResultWhole'
            BY <1>1, <2>1 DEF FilterInv, ResultWhole
      <2> QED
          BY <1>1, <1>2, <2>1, <2>2, <2>3 DEF FilterInv, FilterEnds, FilterLoop
<1> QED
    BY <1>2, <1>4, <1>5, <1>6 DEF FilterParams

LEMMA FilterStutterKeeps == FilterInv /\ UNCHANGED filterVars => FilterInv'
BY DEF filterVars, callVars, FilterInv, FilterParams, FilterEnds, FilterLoop, ResultWhole, Cols

LEMMA FilterInvariant == FilterSpec => []FilterInv
<1>1. FilterInv /\ [FilterNext]_filterVars => FilterInv'
      BY ConstructKeeps, PropagateKeeps, ResampleKeeps, ReturnKeeps, FilterStutterKeeps
      DEF FilterNext
<1> QED
    BY FilterInitial, <1>1, PTL DEF FilterSpec

\* Whatever the number of particles and observations, every column of the
\* matrix is one particle's trace.
THEOREM FilterTracesWhole == FilterSpec => []TracesWhole
<1>1. FilterInv => TracesWhole
      <2> SUFFICES ASSUME FilterInv PROVE TracesWhole
          OBVIOUS
      <2>1. particles # NoResult => Whole(particles, particles.currentRow, 1)
            BY DEF FilterInv, WholeParticles, WholeMatrix, Whole, Cols
      <2>2. result.class = "Particles" => Whole(result, T - 1, 2)
            BY DEF FilterInv, ResultWhole, NoResult, WholeMatrix, Whole, Cols
      <2> QED
          BY <2>1, <2>2 DEF TracesWhole
<1> QED
    BY FilterInvariant, <1>1, PTL

\* appendParticles always finds a row for the particles, a result has a row for
\* each observation, and only a call without observations cannot drop the first.
THEOREM FilterRowsSuffice ==
    FilterSpec => [](FilterEnds /\ (result.class = "Particles" => result.particleLength = T))
<1>1. FilterInv => FilterEnds /\ (result.class = "Particles" => result.particleLength = T)
      BY DEF FilterInv, ResultWhole, NoResult
<1> QED
    BY FilterInvariant, <1>1, PTL

\* Which particles survive a resampling, whatever their number.
THEOREM FilterSurvivorsLikely == FilterSpec => SurvivorsLikely
<1> DEFINE Survive ==
        filterPc = "resample" /\ filterPc' = "loop" =>
          /\ DensitySum(likelihoods) = "positive" =>
                \A col \in Cols : \E old \in Cols :
                   likelihoods[old] = "positive" /\ Trace(particles', col) = Trace(particles, old)
          /\ fun = "particleFilter" /\ DensitySum(likelihoods) \in {"zero", "nan"} =>
                particles' = particles
<1>1. FilterInv /\ Resample => Survive
      <2> SUFFICES ASSUME FilterInv, Resample, filterPc = "resample" PROVE Survive
          BY DEF Resample
      <2>1. /\ nParticles \in Nat \ {0} /\ T \in Nat
            /\ particles \in WholeParticles(nParticles, T)
            /\ likelihoods \in [0..(nParticles - 1) -> {"zero", "positive", "inf", "nan"}]
            BY DEF FilterInv, FilterParams, FilterLoop, Cols
      <2>2. ASSUME DensitySum(likelihoods) = "positive", NEW col \in Cols
            PROVE  \E old \in Cols :
                      likelihoods[old] = "positive" /\ Trace(particles', col) = Trace(particles, old)
            <3>1. Resamples
                  BY <2>2 DEF Resamples
            <3>2. PICK from \in [Cols -> Drawable(likelihoods)] :
                     particles' = ResampleParticles(particles, from, nParticles).value
                  BY <3>1 DEF Resample
            <3>3. from \in [0..(nParticles - 1) -> 0..(nParticles - 1)]
                  BY <2>1, <3>2, DrawableColumns DEF Cols
            <3>4. particles' = Resampled(particles, from)
                  BY <2>1, <3>2 DEF ResampleParticles, Returned, WholeParticles
            <3>5. particles' \in WholeParticles(nParticles, T)
                  <4>1. Resampled(particles, from) \in WholeParticles(nParticles, T)
                        BY <2>1, <3>3, ColumnsCopied
                  <4> QED
                      BY <3>4, <4>1
            <3>6. particles'.particleLength = T + 1 /\ particles.particleLength = T + 1
                  BY <2>1, <3>5 DEF WholeParticles
            <3>7. Trace(particles', col) = Trace(particles, from[col])
                  <4>1. (T + 1) - 1 = T
                        BY <2>1
                  <4>2. col \in 0..(nParticles - 1)
                        BY <2>2 DEF Cols
                  <4>3. ASSUME NEW row \in 0..T
                        PROVE  Resampled(particles, from).particles[row][col]
                               = particles.particles[row][from[col]]
                        <5>1. particles \in [class : {"Particles"}, particleCount : {nParticles},
                                             particleLength : {T + 1}, currentRow : 0..T,
                                             particles : Matrices(nParticles, T)]
                              BY <2>1 DEF WholeParticles
                        <5>2. /\ DOMAIN particles.particles = 0..T
                              /\ DOMAIN particles.particles[row] = 0..(nParticles - 1)
                              BY <5>1 DEF Matrices
                        <5> QED
                            BY <4>2, <5>1, <5>2 DEF Resampled
                  <4> QED
                      BY <3>4, <3>6, <4>1, <4>3 DEF Trace
            <3>8. from[col] \in Cols /\ likelihoods[from[col]] = "positive"
                  <4>1. from[col] \in {c \in DOMAIN likelihoods : likelihoods[c] = "positive"}
                        BY <2>2, <3>2 DEF Drawable
                  <4> QED
                      BY <2>1, <4>1 DEF Cols
            <3> QED
                BY <3>7, <3>8
      <2>3. ASSUME fun = "particleFilter", DensitySum(likelihoods) \in {"zero", "nan"}
            PROVE  particles' = particles
            <3>1. ~Resamples
                  BY <2>3 DEF Resamples
            <3> QED
                BY <3>1 DEF Resample
      <2> QED
          BY <2>2, <2>3
<1>2. FilterInv /\ (Construct \/ Propagate \/ Return \/ UNCHANGED filterVars) => Survive
      BY DEF Construct, Propagate, Return, filterVars
<1>3. FilterInv /\ [FilterNext]_filterVars => [Survive]_filterVars
      BY <1>1, <1>2 DEF FilterNext
<1> QED
    BY FilterInvariant, <1>3, PTL DEF FilterSpec, SurvivorsLikely

-----------------------------------------------------------------------------
(* The objects that a client of the statistics classes can make            *)

CellEntries == (Nat \cup Seeds \cup {-2, -1}) \X Int

\* OnePast, of a matrix.
Pasts(m, count, length, last) ==
    \A row \in 0..last, c, d \in 0..(count - 1) :
       row < length /\ m[row][c] = m[row][d] =>
          \A before \in 0..row : m[before][c] = m[before][d]

ParticlesWith(count, length, row, m) ==
    [class : {"Particles"}, particleCount : {count}, particleLength : {length},
     currentRow : {row}, particles : {m}]

IsParticles(p) ==
    p \in ParticlesWith(p.particleCount, p.particleLength, p.currentRow, p.particles)

Traced(p) ==
    /\ p.particleCount \in Nat
    /\ p.particleLength \in Nat \ {0}
    /\ p.currentRow \in Nat
    /\ p.particles \in [0..(p.particleLength - 1) -> [0..(p.particleCount - 1) -> Seq(CellEntries)]]
    /\ Pasts(p.particles, p.particleCount, p.particleLength, p.currentRow)

NormalObjects ==
    [class : {"NormalDistribution"}, mean : {0, 1}, stdDev : StdDevs,
     generator : [seed : Seeds \cup {5489}, drawn : Nat]]

VectorObjects ==
    [class : {"IndependentVectorNormal"}, nMeans : Sizes, stdDevs : StdVectors]

\* The object o is one of these.
ObjectOK(o) ==
    /\ o.class \in {"none", "NormalDistribution", "IndependentVectorNormal", "Particles"}
    /\ o.class = "NormalDistribution" => o \in NormalObjects
    /\ o.class = "IndependentVectorNormal" => o \in VectorObjects
    /\ o.class = "Particles" => IsParticles(o) /\ Traced(o)

ClientInv ==
    /\ calls \in Nat
    /\ ObjectOK(obj)

-----------------------------------------------------------------------------
\* An object made from one row.
LEMMA MadeFromRow ==
    ASSUME NEW count \in Nat, NEW length \in Nat \ {0},
           NEW v \in [0..(count - 1) -> Seq(CellEntries)]
    PROVE  /\ FromVector(v, count, length).class = "Particles"
           /\ IsParticles(FromVector(v, count, length))
           /\ Traced(FromVector(v, count, length))
<1> DEFINE m == [row \in 0..(length - 1) |-> IF row = 0 THEN v ELSE Zeros(count)]
<1>1. FromVector(v, count, length) = ParticlesOf(count, length, 0, m)
      BY DEF FromVector
<1>2. Zeros(count) \in [0..(count - 1) -> Seq(CellEntries)]
      BY DEF Zeros, Zero
<1>3. m \in [0..(length - 1) -> [0..(count - 1) -> Seq(CellEntries)]]
      BY <1>2
<1> HIDE DEF m
<1>4. Pasts(m, count, length, 0)
      BY DEF Pasts
<1> QED
    BY <1>1, <1>3, <1>4 DEF ParticlesOf, ParticlesWith, IsParticles, Traced

\* The numbers that a client appends.
LEMMA FreshRow ==
    ASSUME calls \in Nat, NEW count \in Nat
    PROVE  /\ Fresh(count) \in [0..(count - 1) -> Seq(CellEntries)]
           /\ \A c, d \in 0..(count - 1) : Fresh(count)[c] = Fresh(count)[d] => c = d
<1>1. \A col \in 0..(count - 1) : <<calls, col>> \in CellEntries
      BY DEF CellEntries
<1>2. \A c, d \in 0..(count - 1) : << <<calls, c>> >> = << <<calls, d>> >> => c = d
      OBVIOUS
<1> QED
    BY <1>1, <1>2 DEF Fresh

\* A row of numbers that differ, appended.
LEMMA AppendKeepsPasts ==
    ASSUME NEW p, IsParticles(p), NEW count, NEW v,
           AppendParticles(p, v, count).what = "value"
    PROVE  LET p2 == AppendParticles(p, v, count).value
           IN  /\ p2.class = "Particles"
               /\ IsParticles(p2)
               /\ Traced(p) /\ v \in [0..(count - 1) -> Seq(CellEntries)]
                  /\ (\A c, d \in 0..(count - 1) : v[c] = v[d] => c = d) => Traced(p2)
<1> DEFINE row == p.currentRow
           m2 == [p.particles EXCEPT ![row + 1] = v]
           p2 == AppendParticles(p, v, count).value
<1>1. /\ count = p.particleCount /\ ~(row >= p.particleLength - 1)
      /\ p2 = [p EXCEPT !.particles[row + 1] = v, !.currentRow = @ + 1]
      BY DEF AppendParticles, InvalidArgument, Returned
<1>2. p2 \in ParticlesWith(p.particleCount, p.particleLength, row + 1, m2)
      BY <1>1 DEF IsParticles, ParticlesWith
<1> HIDE DEF p2
<1>3. /\ p2.class = "Particles" /\ p2.particleCount = p.particleCount
      /\ p2.particleLength = p.particleLength /\ p2.currentRow = row + 1
      /\ p2.particles = m2
      /\ IsParticles(p2)
      <2> HIDE DEF m2
      <2> QED
          BY <1>2 DEF ParticlesWith, IsParticles
<1>4. ASSUME Traced(p), v \in [0..(count - 1) -> Seq(CellEntries)],
             \A c, d \in 0..(count - 1) : v[c] = v[d] => c = d
      PROVE  Traced(p2)
      <2>1. /\ p.particleCount \in Nat /\ p.particleLength \in Nat \ {0}
            /\ row \in Nat
            /\ p.particles \in [0..(p.particleLength - 1) -> [0..(p.particleCount - 1) -> Seq(CellEntries)]]
            /\ Pasts(p.particles, p.particleCount, p.particleLength, row)
            BY <1>4 DEF Traced
      <2>2. row + 1 \in 0..(p.particleLength - 1)
            BY <1>1, <2>1
      <2>3. /\ m2 \in [0..(p.particleLength - 1) -> [0..(p.particleCount - 1) -> Seq(CellEntries)]]
            /\ m2[row + 1] = v
            /\ \A r \in 0..row : m2[r] = p.particles[r]
            BY <1>1, <1>4, <2>1, <2>2
      <2> HIDE DEF m2
      <2>4. Pasts(m2, p.particleCount, p.particleLength, row + 1)
            <3> SUFFICES ASSUME NEW r \in 0..(row + 1), NEW c \in 0..(p.particleCount - 1),
                                NEW d \in 0..(p.particleCount - 1),
                                r < p.particleLength, m2[r][c] = m2[r][d],
                                NEW before \in 0..r
                         PROVE  m2[before][c] = m2[before][d]
                BY DEF Pasts
            <3>1. CASE r = row + 1
                  BY <1>1, <1>4, <2>3, <3>1
            <3>2. CASE r \in 0..row
                  <4>1. before \in 0..row
                        BY <2>1, <3>2
                  <4>2. p.particles[r][c] = p.particles[r][d]
                        BY <2>3, <3>2
                  <4>3. p.particles[before][c] = p.particles[before][d]
                        BY <2>1, <3>2, <4>2 DEF Pasts
                  <4> QED
                      BY <2>3, <4>1, <4>3
            <3> QED
                BY <2>1, <3>1, <3>2
      <2> QED
          BY <1>3, <2>1, <2>2, <2>3, <2>4 DEF Traced
<1> QED
    BY <1>3, <1>4 DEF p2

\* Columns copied, with their past.
LEMMA ResampleKeepsPasts ==
    ASSUME NEW p, IsParticles(p), NEW count,
           NEW from \in [0..(p.particleCount - 1) -> 0..(p.particleCount - 1)],
           ResampleParticles(p, from, count).what = "value"
    PROVE  LET p2 == ResampleParticles(p, from, count).value
           IN  p2.class = "Particles" /\ IsParticles(p2) /\ (Traced(p) => Traced(p2))
<1> DEFINE m == p.particles
           m2 == [row \in DOMAIN m |-> [col \in DOMAIN m[row] |-> m[row][from[col]]]]
           p2 == ResampleParticles(p, from, count).value
<1>1. p2 = [p EXCEPT !.particles = m2]
      BY DEF ResampleParticles, Resampled, InvalidArgument, Returned
<1> HIDE DEF m2, p2
<1>2. p2 \in ParticlesWith(p.particleCount, p.particleLength, p.currentRow, m2)
      BY <1>1 DEF IsParticles, ParticlesWith
<1>3. /\ p2.class = "Particles" /\ p2.particleCount = p.particleCount
      /\ p2.particleLength = p.particleLength /\ p2.currentRow = p.currentRow
      /\ p2.particles = m2
      /\ IsParticles(p2)
      BY <1>2 DEF ParticlesWith, IsParticles
<1>4. ASSUME Traced(p) PROVE Traced(p2)
      <2>1. /\ p.particleCount \in Nat /\ p.particleLength \in Nat \ {0}
            /\ p.currentRow \in Nat
            /\ m \in [0..(p.particleLength - 1) -> [0..(p.particleCount - 1) -> Seq(CellEntries)]]
            /\ Pasts(m, p.particleCount, p.particleLength, p.currentRow)
            BY <1>4 DEF Traced
      <2> HIDE DEF m
      <2>2. /\ m2 \in [0..(p.particleLength - 1) -> [0..(p.particleCount - 1) -> Seq(CellEntries)]]
            /\ \A r \in 0..(p.particleLength - 1), c \in 0..(p.particleCount - 1) :
                  m2[r][c] = m[r][from[c]]
            BY <2>1 DEF m2
      <2>3. Pasts(m2, p.particleCount, p.particleLength, p.currentRow)
            <3> SUFFICES ASSUME NEW r \in 0..p.currentRow, NEW c \in 0..(p.particleCount - 1),
                                NEW d \in 0..(p.particleCount - 1),
                                r < p.particleLength, m2[r][c] = m2[r][d],
                                NEW before \in 0..r
                         PROVE  m2[before][c] = m2[before][d]
                BY DEF Pasts
            <3>1. r \in 0..(p.particleLength - 1) /\ before \in 0..(p.particleLength - 1)
                  BY <2>1
            <3>2. from[c] \in 0..(p.particleCount - 1) /\ from[d] \in 0..(p.particleCount - 1)
                  OBVIOUS
            <3>3. m[r][from[c]] = m[r][from[d]]
                  BY <2>2, <3>1
            <3>4. m[before][from[c]] = m[before][from[d]]
                  <4>1. Pasts(m, p.particleCount, p.particleLength, p.currentRow)
                        BY <2>1
                  <4>2. r < p.particleLength /\ m[r][from[c]] = m[r][from[d]] =>
                           \A b \in 0..r : m[b][from[c]] = m[b][from[d]]
                        BY <3>2, <4>1, Zenon DEF Pasts
                  <4> QED
                      BY <3>3, <4>2, Zenon
            <3> QED
                BY <2>2, <3>1, <3>4
      <2> QED
          BY <1>3, <2>1, <2>2, <2>3 DEF Traced
<1> QED
    BY <1>3, <1>4 DEF p2

\* A function applied to all numbers: those that differed still do.
LEMMA TransformKeepsPasts ==
    ASSUME NEW p, IsParticles(p)
    PROVE  LET p2 == ApplyTransformation(p, Function)
           IN  p2.class = "Particles" /\ IsParticles(p2) /\ (Traced(p) => Traced(p2))
<1> DEFINE m == p.particles
           m2 == [row \in DOMAIN m |-> [col \in DOMAIN m[row] |-> Append(m[row][col], Function)]]
           p2 == ApplyTransformation(p, Function)
<1>1. p2 = [p EXCEPT !.particles = m2]
      BY DEF ApplyTransformation
<1> HIDE DEF m2, p2
<1>2. p2 \in ParticlesWith(p.particleCount, p.particleLength, p.currentRow, m2)
      BY <1>1 DEF IsParticles, ParticlesWith
<1>3. /\ p2.class = "Particles" /\ p2.particleCount = p.particleCount
      /\ p2.particleLength = p.particleLength /\ p2.currentRow = p.currentRow
      /\ p2.particles = m2
      /\ IsParticles(p2)
      BY <1>2 DEF ParticlesWith, IsParticles
<1>4. ASSUME Traced(p) PROVE Traced(p2)
      <2>1. /\ p.particleCount \in Nat /\ p.particleLength \in Nat \ {0}
            /\ p.currentRow \in Nat
            /\ m \in [0..(p.particleLength - 1) -> [0..(p.particleCount - 1) -> Seq(CellEntries)]]
            /\ Pasts(m, p.particleCount, p.particleLength, p.currentRow)
            BY <1>4 DEF Traced
      <2>2. Function \in CellEntries
            BY DEF Function, CellEntries
      <2> HIDE DEF m
      <2>3. /\ m2 \in [0..(p.particleLength - 1) -> [0..(p.particleCount - 1) -> Seq(CellEntries)]]
            /\ \A r \in 0..(p.particleLength - 1), c \in 0..(p.particleCount - 1) :
                  m2[r][c] = Append(m[r][c], Function)
            <3>1. \A a \in Seq(CellEntries) : Append(a, Function) \in Seq(CellEntries)
                  BY <2>2, AppendProperties
            <3>2. /\ DOMAIN m = 0..(p.particleLength - 1)
                  /\ \A r \in 0..(p.particleLength - 1) :
                        m[r] \in [0..(p.particleCount - 1) -> Seq(CellEntries)]
                  BY <2>1
            <3> QED
                BY <3>1, <3>2 DEF m2
      <2>4. Pasts(m2, p.particleCount, p.particleLength, p.currentRow)
            <3> SUFFICES ASSUME NEW r \in 0..p.currentRow, NEW c \in 0..(p.particleCount - 1),
                                NEW d \in 0..(p.particleCount - 1),
                                r < p.particleLength, m2[r][c] = m2[r][d],
                                NEW before \in 0..r
                         PROVE  m2[before][c] = m2[before][d]
                BY DEF Pasts
            <3>1. r \in 0..(p.particleLength - 1) /\ before \in 0..(p.particleLength - 1)
                  BY <2>1
            <3>2. /\ m[r][c] \in Seq(CellEntries) /\ m[r][d] \in Seq(CellEntries)
                  /\ Append(m[r][c], Function) = Append(m[r][d], Function)
                  BY <2>1, <2>3, <3>1
            <3>3. m[r][c] = m[r][d]
                  <4>1. \A a, b \in Seq(CellEntries) :
                           Append(a, Function) = Append(b, Function) => a = b
                        BY <2>2, AppendInjective
                  <4> HIDE DEF m
                  <4> QED
                      BY <3>2, <4>1, Zenon
            <3>4. m[before][c] = m[before][d]
                  <4>1. Pasts(m, p.particleCount, p.particleLength, p.currentRow)
                        BY <2>1
                  <4>2. r < p.particleLength /\ m[r][c] = m[r][d] =>
                           \A b \in 0..r : m[b][c] = m[b][d]
                        BY <4>1, Zenon DEF Pasts
                  <4> QED
                      BY <3>3, <4>2, Zenon
            <3> QED
                BY <2>3, <3>1, <3>4
      <2> QED
          BY <1>3, <2>1, <2>3, <2>4 DEF Traced
<1> QED
    BY <1>3, <1>4 DEF p2

\* Objects that are no Particles have no rows.
LEMMA DistributionOK ==
    ASSUME NEW o, o \in NormalObjects \/ o \in VectorObjects
    PROVE  ObjectOK(o)
BY DEF ObjectOK, NormalObjects, VectorObjects

\* A call that makes or changes the object, or throws.
LEMMA BecomeKeeps ==
    ASSUME ClientInv, calls' \in Nat, NEW res, Become(res),
           res.what = "value" => ObjectOK(res.value)
    PROVE  ClientInv'
<1>1. CASE res.what = "value"
      <2>1. obj' = res.value
            BY <1>1 DEF Become
      <2> QED
          BY <1>1, <2>1 DEF ClientInv
<1>2. CASE res.what # "value"
      <2>1. obj' = obj
            BY <1>2 DEF Become
      <2> QED
          BY <2>1 DEF ClientInv
<1> QED
    BY <1>1, <1>2

\* A call that only returns something.
LEMMA AnswerKeeps ==
    ASSUME ClientInv, calls' \in Nat, UNCHANGED obj
    PROVE  ClientInv'
BY DEF ClientInv

\* Every operation on a NormalDistribution makes another one.
LEMMA NormalOperations ==
    ASSUME NEW o \in NormalObjects
    PROVE  /\ \A mean \in {0, 1} : SetMean(o, mean) \in NormalObjects
           /\ \A s \in StdDevs : SetStdDev(o, s) \in NormalObjects
           /\ \A N \in Sizes, seed \in Seeds :
                 /\ NormalSample(o, N, seed) = [i \in 0..(N - 1) |-> <<seed, i + 1>>]
                 /\ AfterSample(o, N, seed) \in NormalObjects
<1>1. \A mean \in {0, 1} : SetMean(o, mean) \in NormalObjects
      BY DEF SetMean, NormalObjects
<1>2. \A s \in StdDevs : SetStdDev(o, s) \in NormalObjects
      BY DEF SetStdDev, NormalObjects
<1>3. ASSUME NEW N \in Sizes, NEW seed \in Seeds
      PROVE  /\ NormalSample(o, N, seed) = [i \in 0..(N - 1) |-> <<seed, i + 1>>]
             /\ AfterSample(o, N, seed) \in NormalObjects
      <2>1. /\ Seeded(o, seed) \in NormalObjects
            /\ Seeded(o, seed).generator = Generator(seed, 0)
            BY DEF Seeded, SetSeed, NormalObjects, Generator
      <2>2. Generator(seed, 0).seed = seed /\ Generator(seed, 0).drawn = 0
            BY DEF Generator
      <2>3. NormalSample(o, N, seed) = [i \in 0..(N - 1) |-> <<seed, i + 1>>]
            BY <2>1, <2>2 DEF NormalSample
      <2>4. N \in Nat
            BY ClientAssumption
      <2>5. AfterSample(o, N, seed) \in NormalObjects
            BY <2>1, <2>2, <2>4 DEF AfterSample, NormalObjects
      <2> QED
          BY <2>3, <2>5
<1> QED
    BY <1>1, <1>2, <1>3

\* Numbers sampled are a row of Particles.
LEMMA SampledRow ==
    ASSUME NEW N \in Nat, NEW seed \in Seeds
    PROVE  Cells([i \in 0..(N - 1) |-> <<seed, i + 1>>]) \in [0..(N - 1) -> Seq(CellEntries)]
<1>1. \A i \in 0..(N - 1) : <<seed, i + 1>> \in CellEntries
      BY DEF CellEntries
<1> QED
    BY <1>1 DEF Cells

LEMMA NormalCallKeeps ==
    ASSUME ClientInv, calls' \in Nat, NormalCall PROVE ClientInv'
<1>0. obj.class = "NormalDistribution" => obj \in NormalObjects
      BY DEF ClientInv, ObjectOK
<1>1. ASSUME NEW s \in StdDevs, Become(MakeNormal(0, s)) PROVE ClientInv'
      <2>1. MakeNormal(0, s).what = "value" => MakeNormal(0, s).value \in NormalObjects
            BY DEF MakeNormal, InvalidArgument, Returned, NormalObjects, Generator
      <2>2. MakeNormal(0, s).what = "value" => ObjectOK(MakeNormal(0, s).value)
            BY <2>1, DistributionOK
      <2> QED
          BY <1>1, <2>2, BecomeKeeps
<1>2. ASSUME NEW o \in NormalObjects, Become(Returned(o)) PROVE ClientInv'
      <2>1. obj' = o
            BY <1>2 DEF Become, Returned
      <2> QED
          BY <1>2, <2>1, DistributionOK DEF ClientInv
<1>3. ASSUME NEW N \in Sizes, NEW seed \in Seeds, obj \in NormalObjects,
             obj' = AfterSample(obj, N, seed)
      PROVE  ClientInv'
      <2>1. obj' \in NormalObjects
            BY <1>3, NormalOperations
      <2>2. ObjectOK(obj')
            BY <2>1, DistributionOK
      <2> QED
          BY <1>3, <2>2 DEF ClientInv
<1>4. CASE \E s \in StdDevs : Become(MakeNormal(0, s))
      BY <1>1, <1>4
<1>5. CASE /\ obj \in NormalObjects
           /\ \E mean \in {0, 1} : Become(Returned(SetMean(obj, mean)))
      BY <1>2, <1>5, NormalOperations
<1>6. CASE /\ obj \in NormalObjects
           /\ \E s \in StdDevs : Become(Returned(SetStdDev(obj, s)))
      BY <1>2, <1>6, NormalOperations
<1>7. CASE UNCHANGED obj
      BY <1>7, AnswerKeeps
<1>8. CASE /\ obj \in NormalObjects
           /\ \E N \in Sizes, seed \in Seeds : obj' = AfterSample(obj, N, seed)
          
      BY <1>3, <1>8
<1> QED
    BY <1>0, <1>4, <1>5, <1>6, <1>7, <1>8 DEF NormalCall, Answer

LEMMA VectorCallKeeps ==
    ASSUME ClientInv, calls' \in Nat, VectorCall PROVE ClientInv'
<1>0. obj.class = "IndependentVectorNormal" => obj \in VectorObjects
      BY DEF ClientInv, ObjectOK
<1>1. ASSUME NEW res, res.what = "value" => res.value \in VectorObjects,
             Become(res)
      PROVE  ClientInv'
      <2>1. res.what = "value" => ObjectOK(res.value)
            BY <1>1, DistributionOK
      <2> QED
          BY <1>1, <2>1, BecomeKeeps
<1>2. ASSUME NEW N \in Sizes, NEW s \in StdVectors
      PROVE  MakeVector(N, s).what = "value" => MakeVector(N, s).value \in VectorObjects
      BY DEF MakeVector, InvalidArgument, OutOfRange, Returned, Vector, VectorObjects
<1>3. ASSUME NEW N \in Sizes, NEW s \in StdDevs
      PROVE  MakeConstantVector(s, N).what = "value" => MakeConstantVector(s, N).value \in VectorObjects
      <2>1. [i \in 1..N |-> s] \in StdVectors
            BY DEF StdVectors
      <2> QED
          BY <1>2, <2>1 DEF MakeConstantVector
<1>4. ASSUME obj \in VectorObjects, NEW N \in Sizes
      PROVE  Returned(SetMeans(obj, N)).value \in VectorObjects
      BY <1>4 DEF Returned, SetMeans, VectorObjects
<1>5. ASSUME obj \in VectorObjects, NEW s \in StdVectors
      PROVE  SetStdDevs(obj, s).what = "value" => SetStdDevs(obj, s).value \in VectorObjects
      BY <1>5 DEF SetStdDevs, InvalidArgument, OutOfRange, Returned, VectorObjects
<1>6. CASE \E N \in Sizes, s \in StdVectors : Become(MakeVector(N, s))
      BY <1>1, <1>2, <1>6
<1>7. CASE \E N \in Sizes, s \in StdDevs : Become(MakeConstantVector(s, N))
      BY <1>1, <1>3, <1>7
<1>8. CASE /\ obj \in VectorObjects
           /\ \E N \in Sizes : Become(Returned(SetMeans(obj, N)))
      BY <1>1, <1>4, <1>8
<1>9. CASE /\ obj \in VectorObjects
           /\ \E s \in StdVectors : Become(SetStdDevs(obj, s))
      BY <1>1, <1>5, <1>9
<1>10. CASE UNCHANGED obj
       BY <1>10, AnswerKeeps
<1> QED
    BY <1>0, <1>6, <1>7, <1>8, <1>9, <1>10 DEF VectorCall, Answer

\* An object made from one row, as a result.
LEMMA RowResultOK ==
    ASSUME NEW count \in Nat, NEW length \in Nat \ {0},
           NEW v \in [0..(count - 1) -> Seq(CellEntries)]
    PROVE  ObjectOK(FromVector(v, count, length))
<1>1. /\ FromVector(v, count, length).class = "Particles"
      /\ IsParticles(FromVector(v, count, length))
      /\ Traced(FromVector(v, count, length))
      BY MadeFromRow
<1> QED
    BY <1>1 DEF ObjectOK

\* An object made from several rows.
LEMMA MatrixResultOK ==
    ASSUME NEW count \in Nat, NEW length \in Nat \ {0}, NEW row \in Nat,
           NEW m \in [0..(length - 1) -> [0..(count - 1) -> Seq(CellEntries)]],
           Pasts(m, count, length, row)
    PROVE  ObjectOK(ParticlesOf(count, length, row, m))
<1> DEFINE p == ParticlesOf(count, length, row, m)
<1>1. /\ p.class = "Particles" /\ p.particleCount = count /\ p.particleLength = length
      /\ p.currentRow = row /\ p.particles = m
      BY DEF ParticlesOf
<1>2. IsParticles(p)
      BY DEF ParticlesOf, ParticlesWith, IsParticles
<1> HIDE DEF p
<1>3. Traced(p)
      BY <1>1 DEF Traced
<1> QED
    BY <1>1, <1>2, <1>3 DEF ObjectOK, p

\* The constructor from a matrix counts only the first row as filled.
LEMMA FromMatrixOK ==
    ASSUME NEW nRows \in Nat, NEW count \in Nat, NEW length \in Nat \ {0},
           NEW rows \in [0..(nRows - 1) -> [0..(count - 1) -> Seq(CellEntries)]],
           FromMatrix(rows, nRows, count, length).what = "value"
    PROVE  ObjectOK(FromMatrix(rows, nRows, count, length).value)
<1> DEFINE m == [row \in 0..(length - 1) |-> IF row < nRows THEN rows[row] ELSE Zeros(count)]
<1>1. FromMatrix(rows, nRows, count, length).value = ParticlesOf(count, length, 0, m)
      BY DEF FromMatrix, InvalidArgument, Returned
<1>2. Zeros(count) \in [0..(count - 1) -> Seq(CellEntries)]
      BY DEF Zeros, Zero
<1>3. m \in [0..(length - 1) -> [0..(count - 1) -> Seq(CellEntries)]]
      <2>1. \A row \in 0..(length - 1) : row < nRows => row \in 0..(nRows - 1)
            OBVIOUS
      <2> QED
          BY <1>2, <2>1
<1> HIDE DEF m
<1>4. Pasts(m, count, length, 0)
      BY DEF Pasts
<1>5. ObjectOK(ParticlesOf(count, length, 0, m))
      BY <1>3, <1>4, MatrixResultOK
<1> QED
    BY <1>1, <1>5

\* The constructor from traces counts all rows that it was given as filled;
\* here the traces differ in each of them.
LEMMA FromTracesOK ==
    ASSUME NEW nRows \in Nat \ {0}, NEW count \in Nat, NEW length \in Nat \ {0},
           NEW v \in [0..(count - 1) -> Seq(CellEntries)], NEW traces,
           \A col \in 0..(count - 1), row \in 0..(nRows - 1) : traces[col][row] = v[col],
           \A c, d \in 0..(count - 1) : v[c] = v[d] => c = d,
           FromTraces(traces, count, nRows, length).what = "value"
    PROVE  ObjectOK(FromTraces(traces, count, nRows, length).value)
<1> DEFINE m == [row \in 0..(length - 1) |-> [col \in 0..(count - 1) |->
                    IF row < nRows THEN traces[col][row] ELSE Garbage]]
<1>1. FromTraces(traces, count, nRows, length).value = ParticlesOf(count, length, nRows - 1, m)
      BY DEF FromTraces, InvalidArgument, Returned
<1>2. Garbage \in Seq(CellEntries)
      <2>1. <<-1, 0>> \in CellEntries
            BY DEF CellEntries
      <2> QED
          BY <2>1 DEF Garbage
<1>3. \A row \in 0..(length - 1), col \in 0..(count - 1) :
         m[row][col] = IF row < nRows THEN v[col] ELSE Garbage
      OBVIOUS
<1>4. m \in [0..(length - 1) -> [0..(count - 1) -> Seq(CellEntries)]]
      <2>1. ASSUME NEW row \in 0..(length - 1), NEW col \in 0..(count - 1)
            PROVE  (IF row < nRows THEN traces[col][row] ELSE Garbage) \in Seq(CellEntries)
            <3>1. row < nRows => row \in 0..(nRows - 1)
                  OBVIOUS
            <3>2. row < nRows => traces[col][row] = v[col]
                  BY <3>1
            <3>3. v[col] \in Seq(CellEntries)
                  OBVIOUS
            <3> QED
                BY <1>2, <3>2, <3>3
      <2> QED
          BY <2>1
<1> HIDE DEF m
<1>5. Pasts(m, count, length, nRows - 1)
      <2> SUFFICES ASSUME NEW row \in 0..(nRows - 1), NEW c \in 0..(count - 1),
                          NEW d \in 0..(count - 1), row < length, m[row][c] = m[row][d]
                   PROVE  c = d
          BY DEF Pasts
      <2>1. row \in 0..(length - 1) /\ row < nRows
            OBVIOUS
      <2> QED
          BY <1>3, <2>1
<1>6. nRows - 1 \in Nat
      OBVIOUS
<1>7. ObjectOK(ParticlesOf(count, length, nRows - 1, m))
      BY <1>4, <1>5, <1>6, MatrixResultOK
<1> QED
    BY <1>1, <1>7

\* All rows but the first, of which the new first one counts as filled.
LEMMA WithoutInitOK ==
    ASSUME NEW p, Traced(p), GetParticlesWithoutInit(p).what = "value"
    PROVE  ObjectOK(GetParticlesWithoutInit(p).value)
<1> DEFINE count == p.particleCount
           length == p.particleLength
           rows == [row \in 0..(length - 2) |-> p.particles[row + 1]]
<1>1. /\ count \in Nat /\ length \in Nat \ {0}
      /\ p.particles \in [0..(length - 1) -> [0..(count - 1) -> Seq(CellEntries)]]
      BY DEF Traced
<1>2. /\ length # 1
      /\ GetParticlesWithoutInit(p) = FromMatrix(rows, length - 1, count, length - 1)
      BY DEF GetParticlesWithoutInit, InvalidArgument
<1>3. length - 1 \in Nat \ {0} /\ (length - 1) - 1 = length - 2
      BY <1>1, <1>2
<1>4. rows \in [0..(length - 2) -> [0..(count - 1) -> Seq(CellEntries)]]
      <2>1. \A row \in 0..(length - 2) : row + 1 \in 0..(length - 1)
            BY <1>1
      <2> HIDE DEF count, length
      <2> QED
          BY <1>1, <2>1
<1> HIDE DEF rows, count, length
<1> QED
    BY <1>1, <1>2, <1>3, <1>4, FromMatrixOK

LEMMA MakeParticlesKeeps ==
    ASSUME ClientInv, calls' \in Nat, MakeParticles PROVE ClientInv'
<1> USE ClientAssumption
<1>0. PICK length \in Sizes :
        \/ \E count \in Sizes :
              Become(Returned(FromVector(Fresh(count), count, length)))
        \/ /\ obj.class = "NormalDistribution"
           /\ \E count \in Sizes, seed \in Seeds :
                 Become(Returned(FromNormal(obj, count, length, seed)))
        \/ /\ obj.class = "IndependentVectorNormal"
           /\ \E seed \in Seeds : Become(FromVectorNormal(obj, length, seed))
        \/ \E rows, count \in Sizes :
              Become(FromMatrix([row \in 0..(rows - 1) |-> Fresh(count)], rows, count, length))
        \/ \E rows, count \in Sizes :
              Become(FromTraces([col \in 0..(count - 1) |->
                        [row \in 0..(rows - 1) |-> Fresh(count)[col]]], count, rows, length))
      BY DEF MakeParticles
<1>1. length \in Nat \ {0} /\ \A N \in Sizes : N \in Nat \ {0}
      OBVIOUS
<1>2. calls \in Nat
      BY DEF ClientInv
<1>3. ASSUME NEW count \in Sizes, Become(Returned(FromVector(Fresh(count), count, length)))
      PROVE  ClientInv'
      <2>1. ObjectOK(FromVector(Fresh(count), count, length))
            BY <1>1, <1>2, FreshRow, RowResultOK
      <2>2. obj' = FromVector(Fresh(count), count, length)
            BY <1>3 DEF Become, Returned
      <2> QED
          BY <2>1, <2>2 DEF ClientInv
<1>4. ASSUME obj.class = "NormalDistribution", NEW count \in Sizes, NEW seed \in Seeds,
             Become(Returned(FromNormal(obj, count, length, seed)))
      PROVE  ClientInv'
      <2> DEFINE sample == [i \in 0..(count - 1) |-> <<seed, i + 1>>]
      <2>1. obj \in NormalObjects
            BY <1>4 DEF ClientInv, ObjectOK
      <2>2. NormalSample(obj, count, seed) = sample
            BY <2>1, NormalOperations
      <2>3. obj' = FromVector(Cells(sample), count, length)
            BY <1>4, <2>2 DEF Become, Returned, FromNormal
      <2>4. Cells(sample) \in [0..(count - 1) -> Seq(CellEntries)]
            BY <1>1, SampledRow
      <2> HIDE DEF sample
      <2>5. ObjectOK(FromVector(Cells(sample), count, length))
            BY <1>1, <2>4, RowResultOK
      <2> QED
          BY <2>3, <2>5 DEF ClientInv
<1>5. ASSUME obj.class = "IndependentVectorNormal", NEW seed \in Seeds,
             Become(FromVectorNormal(obj, length, seed))
      PROVE  ClientInv'
      <2> DEFINE N == obj.nMeans
                 sample == [i \in 0..(N - 1) |-> <<seed, i + 1>>]
                 res == FromVectorNormal(obj, length, seed)
      <2>1. N \in Nat
            BY <1>1, <1>5 DEF ClientInv, ObjectOK, VectorObjects
      <2>2. res.what = "value" => res.value = FromVector(Cells(sample), N, length)
            BY DEF FromVectorNormal, VectorSample, Returned, OutOfRange
      <2>3. Cells(sample) \in [0..(N - 1) -> Seq(CellEntries)]
            BY <2>1, SampledRow
      <2> HIDE DEF sample, N
      <2>4. ObjectOK(FromVector(Cells(sample), N, length))
            BY <1>1, <2>1, <2>3, RowResultOK
      <2> HIDE DEF res
      <2>5. Become(res)
            BY <1>5 DEF res
      <2> QED
          BY <2>2, <2>4, <2>5, BecomeKeeps
<1>6. ASSUME NEW rows \in Sizes, NEW count \in Sizes,
             Become(FromMatrix([row \in 0..(rows - 1) |-> Fresh(count)], rows, count, length))
      PROVE  ClientInv'
      <2> DEFINE mat == [row \in 0..(rows - 1) |-> Fresh(count)]
                 res == FromMatrix(mat, rows, count, length)
      <2>1. Fresh(count) \in [0..(count - 1) -> Seq(CellEntries)]
            BY <1>1, <1>2, FreshRow
      <2>2. mat \in [0..(rows - 1) -> [0..(count - 1) -> Seq(CellEntries)]]
            BY <2>1
      <2> HIDE DEF mat
      <2>3. res.what = "value" => ObjectOK(res.value)
            BY <1>1, <2>2, FromMatrixOK
      <2> HIDE DEF res
      <2>4. Become(res)
            BY <1>6 DEF res, mat
      <2> QED
          BY <2>3, <2>4, BecomeKeeps
<1>7. ASSUME NEW rows \in Sizes, NEW count \in Sizes,
             Become(FromTraces([col \in 0..(count - 1) |->
                        [row \in 0..(rows - 1) |-> Fresh(count)[col]]], count, rows, length))
      PROVE  ClientInv'
      <2> DEFINE v == Fresh(count)
                 traces == [col \in 0..(count - 1) |-> [row \in 0..(rows - 1) |-> v[col]]]
                 res == FromTraces(traces, count, rows, length)
      <2>1. /\ v \in [0..(count - 1) -> Seq(CellEntries)]
            /\ \A c, d \in 0..(count - 1) : v[c] = v[d] => c = d
            BY <1>1, <1>2, FreshRow
      <2> HIDE DEF v
      <2>2. \A col \in 0..(count - 1), row \in 0..(rows - 1) : traces[col][row] = v[col]
            OBVIOUS
      <2> HIDE DEF traces
      <2>3. res.what = "value" => ObjectOK(res.value)
            BY <1>1, <2>1, <2>2, FromTracesOK
      <2> HIDE DEF res
      <2>4. Become(res)
            BY <1>7 DEF res, traces, v
      <2> QED
          BY <2>3, <2>4, BecomeKeeps
<1> QED
    BY <1>0, <1>3, <1>4, <1>5, <1>6, <1>7

LEMMA ParticlesCallKeeps ==
    ASSUME ClientInv, calls' \in Nat, ParticlesCall PROVE ClientInv'
<1> USE ClientAssumption
<1>0. obj.class = "Particles" /\ IsParticles(obj) /\ Traced(obj)
      BY DEF ParticlesCall, ClientInv, ObjectOK
<1>1. calls \in Nat
      BY DEF ClientInv
<1>2. ASSUME NEW res, Become(res),
             res.what = "value" => /\ res.value.class = "Particles"
                                   /\ IsParticles(res.value)
                                   /\ Traced(res.value)
      PROVE  ClientInv'
      <2>1. res.what = "value" => ObjectOK(res.value)
            BY <1>2 DEF ObjectOK
      <2> QED
          BY <1>2, <2>1, BecomeKeeps
<1>3. ASSUME NEW count \in Sizes, Become(AppendParticles(obj, Fresh(count), count))
      PROVE  ClientInv'
      <2> DEFINE v == Fresh(count)
                 res == AppendParticles(obj, v, count)
      <2>1. /\ v \in [0..(count - 1) -> Seq(CellEntries)]
            /\ \A c, d \in 0..(count - 1) : v[c] = v[d] => c = d
            <3>1. count \in Nat
                  OBVIOUS
            <3> QED
                BY <1>1, <3>1, FreshRow
      <2> HIDE DEF v
      <2>2. res.what = "value" => /\ res.value.class = "Particles"
                                  /\ IsParticles(res.value)
                                  /\ Traced(res.value)
            BY <1>0, <2>1, AppendKeepsPasts
      <2> HIDE DEF res
      <2>3. Become(res)
            BY <1>3 DEF res, v
      <2> QED
          BY <1>2, <2>2, <2>3
<1>4. ASSUME NEW count \in Sizes,
             NEW from \in [0..(obj.particleCount - 1) -> 0..(obj.particleCount - 1)],
             Become(ResampleParticles(obj, from, count))
      PROVE  ClientInv'
      <2> DEFINE res == ResampleParticles(obj, from, count)
      <2>1. res.what = "value" => /\ res.value.class = "Particles"
                                  /\ IsParticles(res.value)
                                  /\ Traced(res.value)
            BY <1>0, ResampleKeepsPasts
      <2> HIDE DEF res
      <2>2. Become(res)
            BY <1>4 DEF res
      <2> QED
          BY <1>2, <2>1, <2>2
<1>5. ASSUME Become(Returned(ApplyTransformation(obj, Function)))
      PROVE  ClientInv'
      <2> DEFINE res == Returned(ApplyTransformation(obj, Function))
      <2>1. /\ res.value.class = "Particles"
            /\ IsParticles(res.value)
            /\ Traced(res.value)
            BY <1>0, TransformKeepsPasts DEF Returned
      <2> HIDE DEF res
      <2>2. Become(res)
            BY <1>5 DEF res
      <2> QED
          BY <1>2, <2>1, <2>2
<1>6. ASSUME Become(GetParticlesWithoutInit(obj)) PROVE ClientInv'
      <2> DEFINE res == GetParticlesWithoutInit(obj)
      <2>1. res.what = "value" => ObjectOK(res.value)
            BY <1>0, WithoutInitOK
      <2> HIDE DEF res
      <2>2. Become(res)
            BY <1>6 DEF res
      <2> QED
          BY <2>1, <2>2, BecomeKeeps
<1>7. CASE UNCHANGED obj
      BY <1>7, AnswerKeeps
<1> QED
    BY <1>3, <1>4, <1>5, <1>6, <1>7 DEF ParticlesCall, Answer

LEMMA ClientInvariant == ClientSpec => []ClientInv
<1>1. ClientInit => ClientInv
      <2> SUFFICES ASSUME ClientInit PROVE ClientInv
          OBVIOUS
      <2>1. obj.class = "none" /\ calls \in Nat
            BY DEF ClientInit, Nothing
      <2> QED
          BY <2>1 DEF ClientInv, ObjectOK
<1>2. ClientInv /\ [ClientNext]_clientVars => ClientInv'
      <2>1. ASSUME ClientInv, ClientNext PROVE ClientInv'
            <3>1. calls' \in Nat
                  BY <2>1 DEF ClientNext, Call, ClientInv
            <3> QED
                BY <2>1, <3>1, NormalCallKeeps, VectorCallKeeps, MakeParticlesKeeps,
                   ParticlesCallKeeps DEF ClientNext
      <2>2. ASSUME ClientInv, UNCHANGED clientVars PROVE ClientInv'
            BY <2>2 DEF clientVars, ClientInv
      <2> QED
          BY <2>1, <2>2
<1> QED
    BY <1>1, <1>2, PTL DEF ClientSpec

\* After any sequence of calls, and whichever constructor made the object, a
\* particle has one past.
THEOREM ParticlesHaveOnePast == ClientSpec => []OnePast
<1>1. ClientInv => OnePast
      BY DEF ClientInv, ObjectOK, Traced, Pasts, OnePast
<1> QED
    BY ClientInvariant, <1>1, PTL

\* After any sequence of calls, and for any sizes and seeds, what is sampled
\* depends on the seed and not on the generator's state.
THEOREM NormalSamplesReproducible == ClientSpec => []SamplesReproducible
<1>1. ClientInv => SamplesReproducible
      <2> SUFFICES ASSUME ClientInv, obj.class = "NormalDistribution",
                          NEW N \in Sizes, NEW length \in Sizes, NEW seed \in Seeds
                   PROVE  LET again == [obj EXCEPT !.generator = Generator(0, 0)]
                          IN  Equal(FromNormal(obj, N, length, seed),
                                    FromVector(Cells(NormalSample(again, N, seed)), N, length))
          BY DEF SamplesReproducible
      <2> DEFINE again == [obj EXCEPT !.generator = Generator(0, 0)]
      <2>1. obj \in NormalObjects
            BY DEF ClientInv, ObjectOK
      <2>2. Seeded(obj, seed).generator = Seeded(again, seed).generator
            BY <2>1 DEF Seeded, SetSeed, NormalObjects
      <2>3. NormalSample(obj, N, seed) = NormalSample(again, N, seed)
            BY <2>2 DEF NormalSample
      <2> QED
          BY <2>3 DEF FromNormal, Equal
<1> QED
    BY ClientInvariant, <1>1, PTL

-----------------------------------------------------------------------------
(* The sorted data                                                         *)

\* at says where each place of the sorted data comes from.
SortedBy(data, at) ==
    /\ at \in [DOMAIN data -> DOMAIN data]
    /\ \A j, k \in DOMAIN data : at[j] = at[k] => j = k
    /\ \A i \in DOMAIN data : \E k \in DOMAIN data : at[k] = i
    /\ \A k \in DOMAIN data : SortedData(data)[k] = data[at[k]]
    /\ \A j, k \in DOMAIN data : j <= k => data[at[j]] <= data[at[k]]

\* SortedData has the data, each once, in order.
LEMMA Sorted ==
    ASSUME NEW data \in Seq(Int)
    PROVE  \E at : SortedBy(data, at)
<1> DEFINE D == 1..Len(data)
           R == {p \in D \X D : data[p[1]] < data[p[2]] \/ (data[p[1]] = data[p[2]] /\ p[1] < p[2])}
           Of(k) == CHOOSE i \in D : Cardinality(Earlier(data, i)) = k - 1
           at == [k \in D |-> Of(k)]
<1>1. DOMAIN data = D /\ Len(data) \in Nat /\ \A i \in D : data[i] \in Int
      BY SeqPlaces
<1>2. IsFiniteSet(D) /\ Cardinality(D) = Len(data)
      BY SeqPlaces
<1>3. Orders(R, D)
      BY <1>1 DEF Orders
<1>4. \A i \in D : Earlier(data, i) = Preceding(R, D, i)
      BY <1>1 DEF Earlier, Preceding
<1>5. /\ \A i \in D : Rank(R, D, i) \in 0..(Len(data) - 1)
      /\ \A i, j \in D : <<i, j>> \in R => Rank(R, D, i) < Rank(R, D, j)
      /\ \A k \in 0..(Len(data) - 1) : \E i \in D : Rank(R, D, i) = k
  <2> HIDE DEF D, R
  <2> QED
      BY <1>2, <1>3, Ranks
<1>6. \A i \in D : Cardinality(Earlier(data, i)) = Rank(R, D, i)
      BY <1>4 DEF Rank
<1>7. ASSUME NEW k \in D PROVE Of(k) \in D /\ Rank(R, D, Of(k)) = k - 1
  <2>1. k - 1 \in 0..(Len(data) - 1)
        BY <1>1
  <2>2. \E i \in D : Cardinality(Earlier(data, i)) = k - 1
        BY <1>5, <1>6, <2>1
  <2>3. Of(k) \in D /\ Cardinality(Earlier(data, Of(k))) = k - 1
        BY <2>2
  <2> QED
      BY <1>6, <2>3
<1>8. \A k \in D : SortedData(data)[k] = data[at[k]]
      BY <1>1 DEF SortedData
<1> HIDE DEF Of
<1>9. at \in [D -> D] /\ \A k \in D : Rank(R, D, at[k]) = k - 1
      BY <1>7
<1> HIDE DEF at
<1>10. \A i, j \in D : i = j \/ Rank(R, D, i) < Rank(R, D, j) \/ Rank(R, D, j) < Rank(R, D, i)
  <2> HIDE DEF D, R
  <2> QED
      BY <1>3, <1>5 DEF Orders
<1>11. ASSUME NEW j \in D, NEW k \in D, at[j] = at[k] PROVE j = k
  <2> HIDE DEF R
  <2>1. j - 1 = k - 1
        BY <1>9, <1>11
  <2> QED
      BY <1>1, <2>1
<1>12. ASSUME NEW i \in D PROVE \E k \in D : at[k] = i
  <2> HIDE DEF R
  <2> DEFINE r == Rank(R, D, i)
             k == r + 1
  <2>0. r \in 0..(Len(data) - 1)
        BY <1>5
  <2> HIDE DEF r
  <2>1. k \in D /\ r = k - 1
        BY <1>1, <2>0
  <2> HIDE DEF k
  <2>a. Rank(R, D, at[k]) = k - 1 /\ at[k] \in D
        BY <1>9, <2>1
  <2>2. Rank(R, D, at[k]) = r /\ r \in Int /\ at[k] \in D
        BY <2>0, <2>1, <2>a
  <2>3. at[k] = i
        BY <1>10, <2>2 DEF r
  <2> QED
      BY <2>1, <2>3
<1>13. ASSUME NEW j \in D, NEW k \in D, j <= k PROVE data[at[j]] <= data[at[k]]
  <2>1. ~(Rank(R, D, at[k]) < Rank(R, D, at[j])) /\ at[j] \in D /\ at[k] \in D
        BY <1>1, <1>9, <1>13
  <2>2. <<at[k], at[j]>> \notin R
    <3> HIDE DEF R, D
    <3> QED
        BY <1>5, <2>1
  <2> QED
      BY <1>1, <2>1, <2>2
<1> QED
    BY <1>1, <1>8, <1>9, <1>11, <1>12, <1>13 DEF SortedBy

\* As many data are where a range of the sorted data is.
LEMMA SortedRange ==
    ASSUME NEW data \in Seq(Int), NEW at, SortedBy(data, at),
           NEW a \in 1..(Len(data) + 1), NEW b \in 0..Len(data), a <= b + 1,
           NEW B \in SUBSET DOMAIN data, \A k \in a..b : at[k] \in B
    PROVE  Cardinality(B) \in Nat /\ Cardinality(B) >= b - a + 1
<1> DEFINE A == a..b
           f == [k \in A |-> at[k]]
<1>1. Len(data) \in Nat /\ DOMAIN data = 1..Len(data) /\ IsFiniteSet(1..Len(data))
      BY SeqPlaces
<1>2. IsFiniteSet(B) /\ Cardinality(B) \in Nat
      BY <1>1, FS_Subset, FS_CardinalityType
<1>3. A \subseteq DOMAIN data /\ a \in Int /\ b \in Int
      BY <1>1
<1>4. f \in [A -> B] /\ \A j, k \in A : f[j] = f[k] => j = k
      BY <1>3 DEF SortedBy
<1>5. f \in Injection(A, B)
  <2> HIDE DEF A, f
  <2> QED
      BY <1>4, Fun_IsInj
<1>6. Cardinality(A) <= Cardinality(B)
  <2> HIDE DEF A, f
  <2> QED
      BY <1>2, <1>5, FS_Injection
<1>7. Cardinality(A) = IF a > b THEN 0 ELSE b - a + 1
      BY <1>3, FS_Interval
<1> QED
    BY <1>2, <1>3, <1>6, <1>7

-----------------------------------------------------------------------------
(* Rounding                                                                *)

\* There is a nearest double.
LEMMA RoundNearest ==
    ASSUME NEW num \in Int, NEW den \in Nat \ {0}
    PROVE  /\ Round(num, den) \in Doubles /\ Round(num, den) \in Int
           /\ \A e \in Doubles : Distance(num, den, Round(num, den)) <= Distance(num, den, e)
<1> DEFINE far == [d \in Doubles |-> Distance(num, den, d)]
           S == {far[d] : d \in Doubles}
<1>1. Doubles \subseteq Int /\ 0 \in Doubles
      BY UtilAssumption
<1>2. \A d \in Doubles : Distance(num, den, d) \in Nat
      BY <1>1 DEF Distance
<1>3. S \in SUBSET Nat /\ S # {}
      BY <1>1, <1>2
<1>4. PICK least \in S : \A other \in S : least <= other
      BY <1>3, LeastElement
<1>5. \E d \in Doubles : \A e \in Doubles : Distance(num, den, d) <= Distance(num, den, e)
      BY <1>4
<1>6. /\ Round(num, den) \in Doubles
      /\ \A e \in Doubles : Distance(num, den, Round(num, den)) <= Distance(num, den, e)
      BY <1>5 DEF Round
<1> QED
    BY <1>1, <1>6

\* Rounding does not pass a double.
LEMMA RoundWithin ==
    ASSUME NEW num \in Int, NEW den \in Nat \ {0}, NEW d \in Doubles
    PROVE  /\ num <= d * den => Round(num, den) <= d
           /\ d * den <= num => d <= Round(num, den)
           /\ num = d * den => Round(num, den) = d
<1> DEFINE r == Round(num, den)
<1>1. r \in Int /\ d \in Int /\ Distance(num, den, r) <= Distance(num, den, d)
      BY RoundNearest, UtilAssumption
<1> HIDE DEF r
<1>2. \A a, b \in Int : a > b => a * den >= b * den + den
  <2> SUFFICES ASSUME NEW a \in Int, NEW b \in Int, a > b PROVE a * den >= b * den + den
      OBVIOUS
  <2>1. \A c, e \in Int : c >= e => c * den >= e * den
        OBVIOUS
  <2>2. a * den >= (b + 1) * den
        BY <2>1
  <2> QED
      BY <2>2
<1>3. r * den \in Int /\ d * den \in Int
      BY <1>1
<1>4. num <= d * den => r <= d
  <2> SUFFICES ASSUME num <= d * den, r > d PROVE FALSE
      BY <1>1
  <2>1. r * den >= d * den + den
        BY <1>1, <1>2
  <2> QED
      BY <1>1, <1>3, <2>1 DEF Distance
<1>5. d * den <= num => d <= r
  <2> SUFFICES ASSUME d * den <= num, d > r PROVE FALSE
      BY <1>1
  <2>1. d * den >= r * den + den
        BY <1>1, <1>2
  <2> QED
      BY <1>1, <1>3, <2>1 DEF Distance
<1>6. num = d * den => r = d
      BY <1>1, <1>3, <1>4, <1>5
<1> QED
    BY <1>4, <1>5, <1>6 DEF r

\* A double is not rounded.
LEMMA RoundDouble ==
    ASSUME NEW d \in Doubles
    PROVE  Round(d, 1) = d
<1>1. d \in Int /\ d * 1 = d
      BY UtilAssumption
<1> QED
    BY <1>1, RoundWithin

-----------------------------------------------------------------------------
(* Sums                                                                    *)

\* g has the sums on the way to the m-th number.
SumsTo(g, data, m) ==
    /\ g \in [0..m -> Doubles]
    /\ g[0] = 0
    /\ \A k \in 1..m : g[k] = Round(g[k - 1] + data[k], 1)

LEMMA SumsToExists ==
    ASSUME NEW data \in Seq(Int), NEW m \in Nat, m <= Len(data)
    PROVE  \E g : SumsTo(g, data, m)
<1> DEFINE P == {K \in Nat : K <= Len(data) => \E g : SumsTo(g, data, K)}
<1>1. Len(data) \in Nat /\ \A k \in 1..Len(data) : data[k] \in Int
      BY SeqPlaces
<1>2. 0 \in P
  <2> DEFINE g == [k \in 0..0 |-> 0]
  <2>1. SumsTo(g, data, 0)
        BY UtilAssumption DEF SumsTo
  <2> QED
      BY <2>1
<1>3. ASSUME NEW K \in Nat, K \in P PROVE K + 1 \in P
  <2> SUFFICES ASSUME K + 1 <= Len(data) PROVE \E g : SumsTo(g, data, K + 1)
      OBVIOUS
  <2>1. PICK g : SumsTo(g, data, K)
        BY <1>1, <1>3
  <2> DEFINE next == Round(g[K] + data[K + 1], 1)
             f == [k \in 0..(K + 1) |-> IF k = K + 1 THEN next ELSE g[k]]
  <2>2. g \in [0..K -> Doubles] /\ g[0] = 0
        BY <2>1 DEF SumsTo
  <2>3. g[K] + data[K + 1] \in Int
    <3>1. K \in 0..K /\ K + 1 \in 1..Len(data)
          BY <1>1
    <3>2. g[K] \in Doubles /\ data[K + 1] \in Int
          BY <1>1, <2>2, <3>1
    <3>3. g[K] \in Int
          BY <3>2, UtilAssumption
    <3> QED
        BY <3>2, <3>3
  <2>4. next \in Doubles
        BY <2>3, RoundNearest
  <2> HIDE DEF next
  <2>5. f \in [0..(K + 1) -> Doubles] /\ f[K + 1] = next /\ \A k \in 0..K : f[k] = g[k]
        BY <2>2, <2>4
  <2> HIDE DEF f
  <2>6. ASSUME NEW k \in 1..(K + 1) PROVE f[k] = Round(f[k - 1] + data[k], 1)
    <3>1. CASE k = K + 1
          BY <2>5, <3>1 DEF next
    <3>2. CASE k \in 1..K
      <4>1. f[k] = g[k] /\ f[k - 1] = g[k - 1]
            BY <2>5, <3>2
      <4> QED
          BY <2>1, <3>2, <4>1 DEF SumsTo
    <3> QED
        BY <3>1, <3>2
  <2>7. SumsTo(f, data, K + 1)
        BY <2>2, <2>5, <2>6 DEF SumsTo
  <2> QED
      BY <2>7
<1> HIDE DEF P
<1>4. Nat \subseteq P
      BY <1>2, <1>3, NatInductionInSet
<1> QED
    BY <1>4 DEF P

\* The sums that the loop computes.
LEMMA RunningSumsAre ==
    ASSUME NEW data \in Seq(Int)
    PROVE  SumsTo(RunningSums(data), data, Len(data))
<1> DEFINE N == Len(data)
           Eq(g) == g = [k \in 0..N |-> IF k = 0 THEN 0 ELSE Round(g[k - 1] + data[k], 1)]
<1>1. N \in Nat
      BY SeqPlaces
<1>2. PICK g : SumsTo(g, data, N)
      BY <1>1, SumsToExists
<1>3. RunningSums(data) = CHOOSE f : Eq(f)
      BY DEF RunningSums
<1> HIDE DEF N
<1>4. Eq(g)
  <2>1. \A k \in 0..N : k # 0 => k \in 1..N
        BY <1>1
  <2> QED
      BY <1>1, <1>2, <2>1 DEF SumsTo
<1>5. Eq(RunningSums(data))
  <2> HIDE DEF Eq
  <2> QED
      BY <1>3, <1>4
<1>6. ASSUME NEW f, Eq(f)
      PROVE  /\ f = [k \in 0..N |-> f[k]]
             /\ f[0] = 0
             /\ \A k \in 1..N : f[k] = Round(f[k - 1] + data[k], 1)
  <2>1. f = [k \in 0..N |-> IF k = 0 THEN 0 ELSE Round(f[k - 1] + data[k], 1)]
        BY <1>6
  <2>2. DOMAIN f = 0..N /\ \A k \in 0..N : f[k] = IF k = 0 THEN 0 ELSE Round(f[k - 1] + data[k], 1)
        BY <2>1
  <2>3. f = [k \in 0..N |-> f[k]]
        BY <2>1, <2>2
  <2>4. 0 \in 0..N /\ \A k \in 1..N : k \in 0..N /\ k # 0
        BY <1>1
  <2> QED
      BY <2>2, <2>3, <2>4
<1> DEFINE f == RunningSums(data)
<1>7. /\ f = [k \in 0..N |-> f[k]]
      /\ f[0] = 0
      /\ \A k \in 1..N : f[k] = Round(f[k - 1] + data[k], 1)
  <2> HIDE DEF Eq
  <2> QED
      BY <1>5, <1>6
<1> HIDE DEF Eq, f
<1>8. ASSUME NEW k \in 0..N PROVE f[k] = g[k]
  <2> DEFINE P == {m \in Nat : m <= N => f[m] = g[m]}
  <2>1. 0 \in P
        BY <1>2, <1>7 DEF SumsTo
  <2>2. ASSUME NEW m \in Nat, m \in P PROVE m + 1 \in P
    <3>1. CASE m + 1 <= N
      <4>1. f[m] = g[m] /\ m + 1 \in 1..N /\ (m + 1) - 1 = m
            BY <1>1, <2>2, <3>1
      <4>2. f[m + 1] = Round(f[m] + data[m + 1], 1) /\ g[m + 1] = Round(g[m] + data[m + 1], 1)
            BY <1>2, <1>7, <4>1 DEF SumsTo
      <4> QED
          BY <4>1, <4>2
    <3>2. CASE ~(m + 1 <= N)
          BY <3>2
    <3> QED
        BY <3>1, <3>2
  <2> HIDE DEF P
  <2>3. Nat \subseteq P
        BY <2>1, <2>2, NatInductionInSet
  <2> QED
      BY <1>1, <2>3 DEF P
<1>9. f \in [0..N -> Doubles]
  <2>1. \A k \in 0..N : f[k] \in Doubles
        BY <1>2, <1>8 DEF SumsTo
  <2> QED
      BY <1>7, <2>1
<1> QED
    BY <1>7, <1>9 DEF SumsTo, f, N

\* The sums are doubles, the first of no data.
LEMMA SumsType ==
    ASSUME NEW data \in Seq(Int)
    PROVE  /\ Len(data) \in Nat
           /\ RunningSums(data)[0] = 0
           /\ \A k \in 0..Len(data) : RunningSums(data)[k] \in Int
<1>1. Len(data) \in Nat
      BY SeqPlaces
<1>2. SumsTo(RunningSums(data), data, Len(data))
      BY RunningSumsAre
<1>3. Doubles \subseteq Int
      BY UtilAssumption
<1> QED
    BY <1>1, <1>2, <1>3 DEF SumsTo

\* Sums that were not rounded are within as many times the least and the
\* largest of the data.
LEMMA ExactBounds ==
    ASSUME NEW data \in Seq(Int), ExactSums(data), NEW c \in Int
    PROVE  /\ (\A i \in 1..Len(data) : c <= data[i]) => c * Len(data) <= SumOf(data)
           /\ (\A i \in 1..Len(data) : data[i] <= c) => SumOf(data) <= c * Len(data)
<1> DEFINE f == RunningSums(data)
           N == Len(data)
           Lo(k) == (\A i \in 1..N : c <= data[i]) => c * k <= f[k]
           Hi(k) == (\A i \in 1..N : data[i] <= c) => f[k] <= c * k
           P == {m \in Nat : m <= N => Lo(m) /\ Hi(m)}
<1>1. N \in Nat /\ f[0] = 0 /\ \A k \in 0..N : f[k] \in Int
      BY SumsType
<1>2. \A k \in 1..N : f[k] = f[k - 1] + data[k]
      BY DEF ExactSums
<1>3. \A k \in 1..N : data[k] \in Int
      BY SeqPlaces
<1> HIDE DEF f, N
<1>4. 0 \in P
      BY <1>1
<1>5. ASSUME NEW m \in Nat, m \in P PROVE m + 1 \in P
  <2> SUFFICES ASSUME m + 1 <= N PROVE Lo(m + 1) /\ Hi(m + 1)
      OBVIOUS
  <2>1. m \in 0..N /\ m + 1 \in 1..N /\ (m + 1) - 1 = m
        BY <1>1
  <2>2. f[m] \in Int /\ data[m + 1] \in Int /\ f[m + 1] = f[m] + data[m + 1]
        BY <1>1, <1>2, <1>3, <2>1
  <2>3. Lo(m) /\ Hi(m)
        BY <1>1, <1>5
  <2>4. c * (m + 1) = c * m + c /\ c * m \in Int
        OBVIOUS
  <2>5. Lo(m + 1)
        BY <2>1, <2>2, <2>3, <2>4
  <2>6. Hi(m + 1)
        BY <2>1, <2>2, <2>3, <2>4
  <2> QED
      BY <2>5, <2>6
<1> HIDE DEF P
<1>6. Nat \subseteq P
      BY <1>4, <1>5, NatInductionInSet
<1>7. Lo(N) /\ Hi(N)
  <2>1. N \in P
        BY <1>1, <1>6
  <2> QED
      BY <1>1, <2>1 DEF P
<1> QED
    BY <1>7 DEF SumOf, f, N

\* Numbers that are not negative have such a sum, rounded or not, and zeros
\* have the sum zero.
LEMMA SumOfNaturals ==
    ASSUME NEW data \in Seq(Nat)
    PROVE  /\ SumOf(data) \in Nat
           /\ (\A i \in 1..Len(data) : data[i] = 0) => SumOf(data) = 0
<1> DEFINE f == RunningSums(data)
           N == Len(data)
           None(k) == (\A i \in 1..N : data[i] = 0) => f[k] = 0
           P == {m \in Nat : m <= N => f[m] \in Nat /\ None(m)}
<1>0. data \in Seq(Int) /\ \A k \in 1..N : data[k] \in Nat
      BY SeqPlaces
<1>1. N \in Nat /\ f[0] = 0
      BY <1>0, SumsType
<1>2. \A k \in 1..N : f[k] = Round(f[k - 1] + data[k], 1)
      BY <1>0, RunningSumsAre DEF SumsTo
<1> HIDE DEF f, N
<1>4. 0 \in P
      BY <1>1
<1>5. ASSUME NEW m \in Nat, m \in P PROVE m + 1 \in P
  <2> SUFFICES ASSUME m + 1 <= N PROVE f[m + 1] \in Nat /\ None(m + 1)
      OBVIOUS
  <2>1. m + 1 \in 1..N /\ (m + 1) - 1 = m
        BY <1>1
  <2>2. f[m] \in Nat /\ None(m)
        BY <1>1, <1>5
  <2> DEFINE total == f[m] + data[m + 1]
  <2>3. data[m + 1] \in Nat /\ f[m + 1] = Round(total, 1)
        BY <1>0, <1>2, <2>1
  <2>4. total \in Nat
        BY <2>2, <2>3
  <2>5. (\A i \in 1..N : data[i] = 0) => total = 0
        BY <2>1, <2>2
  <2> HIDE DEF total
  <2>6. 0 \in Doubles
        BY UtilAssumption
  <2>7. Round(total, 1) \in Int /\ (0 * 1 <= total => 0 <= Round(total, 1))
        BY <2>4, <2>6, RoundNearest, RoundWithin
  <2>8. Round(0, 1) = 0
        BY <2>6, RoundDouble
  <2> QED
      BY <2>3, <2>4, <2>5, <2>7, <2>8
<1> HIDE DEF P
<1>6. Nat \subseteq P
      BY <1>4, <1>5, NatInductionInSet
<1>7. f[N] \in Nat /\ None(N)
  <2>1. N \in P
        BY <1>1, <1>6
  <2> QED
      BY <1>1, <2>1 DEF P
<1> QED
    BY <1>7 DEF SumOf, f, N

-----------------------------------------------------------------------------
(* What the calls return                                                   *)

\* Rounding the quotient does not take it past the least or the largest of
\* the data, which are doubles.
LEMMA MeanSound ==
    ASSUME NEW data \in Seq(Doubles), data # <<>>, ExactSums(data)
    PROVE  Below(data, MeanOf(data)) # {} /\ Above(data, MeanOf(data)) # {}
<1> DEFINE N == Len(data)
           s == SumOf(data)
<1>1. Doubles \subseteq Int /\ data \in Seq(Int)
  <2>1. Doubles \subseteq Int
        BY UtilAssumption
  <2> QED
      BY <2>1, SeqMonotonic
<1>2. N \in Nat \ {0} /\ DOMAIN data = 1..N /\ \A i \in 1..N : data[i] \in Doubles
      BY LenProperties, EmptySeq
<1>3. s \in Int
      BY <1>1, <1>2, SumsType DEF SumOf
<1>4. PICK at : SortedBy(data, at)
      BY <1>1, Sorted
<1> DEFINE lo == data[at[1]]
           hi == data[at[N]]
<1>5. at[1] \in 1..N /\ at[N] \in 1..N /\ \A i \in 1..N : lo <= data[i] /\ data[i] <= hi
  <2>1. 1 \in 1..N /\ N \in 1..N /\ \A k \in 1..N : 1 <= k /\ k <= N
        BY <1>2
  <2> QED
      BY <1>2, <1>4, <2>1 DEF SortedBy
<1>6. lo \in Doubles /\ hi \in Doubles /\ lo \in Int /\ hi \in Int
      BY <1>1, <1>2, <1>5
<1> HIDE DEF lo, hi
<1>7. lo * N <= s /\ s <= hi * N
      BY <1>1, <1>5, <1>6, ExactBounds
<1> HIDE DEF N, s
<1>8. lo <= Round(s, N) /\ Round(s, N) <= hi
      BY <1>2, <1>3, <1>6, <1>7, RoundWithin
<1>9. at[1] \in Below(data, Round(s, N)) /\ at[N] \in Above(data, Round(s, N))
  <2>1. Round(s, N) \in Int
        BY <1>2, <1>3, RoundNearest
  <2> QED
      BY <1>2, <1>5, <1>6, <1>8, <2>1 DEF Below, Above, lo, hi
<1> QED
    BY <1>9 DEF MeanOf, N, s

\* The position of a quantile: a place, and how far it is to the next one.
LEMMA PositionSplit ==
    ASSUME NEW N \in Nat \ {0}, NEW num \in Nat, NEW den \in Nat \ {0}, num <= den
    PROVE  LET steps == num * (N - 1)
               l == steps \div den
               w == steps % den
           IN  /\ steps \in Nat /\ l \in Nat /\ w \in 0..(den - 1)
               /\ l <= N - 1
               /\ l = N - 1 => w = 0
               /\ w = 0 => (-steps) \div den = -l
               /\ w # 0 => (-steps) \div den = -l - 1
<1> DEFINE steps == num * (N - 1)
           l == steps \div den
           w == steps % den
<1>1. steps \in Nat /\ steps <= den * (N - 1)
      OBVIOUS
<1> HIDE DEF steps
<1>2. l \in Int /\ w \in 0..(den - 1) /\ steps = den * l + w
      BY <1>1
<1> HIDE DEF l, w
<1>3. l \in Nat
  <2> SUFFICES ASSUME l <= -1 PROVE FALSE
      BY <1>2
  <2>1. den * l <= -den
        BY <1>2
  <2> QED
      BY <1>1, <1>2, <2>1
<1>4. l <= N - 1
  <2> SUFFICES ASSUME N <= l PROVE FALSE
      BY <1>2
  <2>1. den * N <= den * l
        BY <1>2
  <2>2. den * (N - 1) = den * N - den
        OBVIOUS
  <2> QED
      BY <1>1, <1>2, <2>1, <2>2
<1>5. l = N - 1 => w = 0
      BY <1>1, <1>2
<1>6. w = 0 => (-steps) \div den = -l
  <2> SUFFICES ASSUME w = 0 PROVE (-steps) \div den = -l
      OBVIOUS
  <2> QED
      BY <1>1, <1>2
<1>7. w # 0 => (-steps) \div den = -l - 1
  <2> SUFFICES ASSUME w # 0 PROVE (-steps) \div den = -l - 1
      OBVIOUS
  <2>1. -steps = den * (-l - 1) + (den - w)
        BY <1>1, <1>2
  <2>2. den - w \in 0..(den - 1)
        BY <1>2
  <2> QED
      BY <1>1, <1>2, <2>1, <2>2
<1> QED
    BY <1>1, <1>2, <1>3, <1>4, <1>5, <1>6, <1>7 DEF steps, l, w

\* Interpolating with weights that are not rounded stays between the two.
LEMMA InterpolatedBetween ==
    ASSUME NEW b \in Doubles, NEW c \in Doubles, b <= c, NEW w \in 0..(One - 1),
           w \in Doubles, One - w \in Doubles, ExactProduct(b, One - w), ExactProduct(c, w)
    PROVE  /\ Interpolated(b, c, w) \in Int
           /\ b <= Interpolated(b, c, w) /\ Interpolated(b, c, w) <= c
           /\ w = 0 => Interpolated(b, c, w) = b
<1>1. b \in Int /\ c \in Int /\ One \in Nat \ {0} /\ Doubles \subseteq Int
      BY UtilAssumption
<1>2. PICK d \in Doubles : d * One = b * (One - w)
      BY DEF ExactProduct
<1>3. PICK e \in Doubles : e * One = c * w
      BY DEF ExactProduct
<1>4. d \in Int /\ e \in Int /\ w \in Int /\ One - w \in Int
      BY <1>1
<1>5. Round(One - w, 1) = One - w
      BY RoundDouble
<1>6. Round(b * (One - w), One) = d
  <2>1. b * (One - w) \in Int
        BY <1>1, <1>4
  <2> QED
      BY <1>1, <1>2, <2>1, RoundWithin
<1>7. Round(c * w, One) = e
  <2>1. c * w \in Int
        BY <1>1, <1>4
  <2> QED
      BY <1>1, <1>3, <2>1, RoundWithin
<1>8. Interpolated(b, c, w) = Round(d + e, 1)
      BY <1>5, <1>6, <1>7 DEF Interpolated
<1>9. b <= d + e /\ d + e <= c /\ (w = 0 => d + e = b)
  <2>1. (d + e) * One = b * (One - w) + c * w
    <3>1. (d + e) * One = d * One + e * One
          BY <1>1, <1>4
    <3> QED
        BY <1>2, <1>3, <3>1
  <2>2. b * (One - w) = b * One - b * w /\ c * w = c * One - c * (One - w)
        BY <1>1, <1>4
  <2>3. b * w <= c * w /\ b * (One - w) <= c * (One - w)
    <3>1. \A u, z, k \in Int : 0 <= k /\ u <= z => u * k <= z * k
          OBVIOUS
    <3>2. 0 <= w /\ 0 <= One - w
          BY <1>1
    <3> QED
        BY <1>1, <1>4, <3>1, <3>2
  <2>4. /\ b * w \in Int /\ c * w \in Int /\ b * One \in Int /\ c * One \in Int
        /\ b * (One - w) \in Int /\ c * (One - w) \in Int /\ (d + e) * One \in Int
        BY <1>1, <1>4
  <2>5. b * One <= (d + e) * One /\ (d + e) * One <= c * One
        BY <2>1, <2>2, <2>3, <2>4
  <2>6. w = 0 => (d + e) * One <= b * One
    <3>1. w = 0 => c * w = 0 /\ b * w = 0
          BY <1>1
    <3> QED
        BY <2>1, <2>2, <2>4, <3>1
  <2>7. \A u, z \in Int : u * One <= z * One => u <= z
    <3> SUFFICES ASSUME NEW u \in Int, NEW z \in Int, u > z PROVE u * One > z * One
        BY <1>1
    <3>1. u * One = z * One + (u - z) * One /\ (u - z) * One > 0
          BY <1>1
    <3>2. u * One \in Int /\ z * One \in Int /\ (u - z) * One \in Int
          BY <1>1
    <3> QED
        BY <3>1, <3>2
  <2>8. d + e \in Int
        BY <1>4
  <2>9. b <= d + e /\ d + e <= c /\ (w = 0 => d + e <= b)
        BY <1>1, <2>5, <2>6, <2>7, <2>8
  <2> QED
      BY <1>1, <2>8, <2>9
<1>10. d + e \in Int /\ b * 1 = b /\ c * 1 = c
      BY <1>1, <1>4
<1>11. /\ Round(d + e, 1) \in Int
       /\ b <= Round(d + e, 1) /\ Round(d + e, 1) <= c
  <2> DEFINE total == d + e
  <2>1. total \in Int /\ b * 1 <= total /\ total <= c * 1
        BY <1>9, <1>10
  <2> HIDE DEF total
  <2>2. Round(total, 1) \in Int
        BY <2>1, RoundNearest
  <2>3. b <= Round(total, 1)
        BY <2>1, RoundWithin
  <2>4. Round(total, 1) <= c
        BY <2>1, RoundWithin
  <2> QED
      BY <2>2, <2>3, <2>4 DEF total
<1>12. w = 0 => Round(d + e, 1) = b
      BY <1>9, RoundDouble
<1> QED
    BY <1>8, <1>11, <1>12

\* A quantile lies between two neighbours of the sorted data, so it has the
\* first and all before it below, and the second and all after it above.
LEMMA QuantileSound ==
    ASSUME NEW data \in Seq(Doubles), NEW qt \in Int,
           Quantile(data, qt).what = "value", ExactWeights(data, qt * (Len(data) - 1))
    PROVE  LET v == Quantile(data, qt).value
               steps == qt * (Len(data) - 1)
           IN  /\ Cardinality(Below(data, v)) >= steps \div One + 1
               /\ Cardinality(Above(data, v)) >= Len(data) + (-steps) \div One
<1> DEFINE N == Len(data)
           steps == qt * (N - 1)
           l == steps \div One
           w == steps % One
           v == Quantile(data, qt).value
           sorted == SortedData(data)
<1>0. Doubles \subseteq Int /\ One \in Nat \ {0} /\ data \in Seq(Int)
  <2>1. Doubles \subseteq Int /\ One \in Nat \ {0}
        BY UtilAssumption
  <2> QED
      BY <2>1, SeqMonotonic
<1>1. data # <<>> /\ qt >= 0 /\ qt <= One
      BY <1>0 DEF Quantile, Throws
<1>2. N \in Nat \ {0} /\ DOMAIN data = 1..N /\ \A i \in 1..N : data[i] \in Doubles
      BY <1>1, LenProperties, EmptySeq
<1>a. /\ steps \in Nat /\ l \in Nat /\ w \in 0..(One - 1) /\ l <= N - 1
      /\ l = N - 1 => w = 0
      /\ w = 0 => (-steps) \div One = -l
      /\ w # 0 => (-steps) \div One = -l - 1
  <2>1. N \in Nat \ {0} /\ qt \in Nat /\ qt <= One
        BY <1>1, <1>2
  <2> HIDE DEF N
  <2> QED
      BY <1>0, <2>1, PositionSplit
<1>c. /\ steps \in Doubles /\ w \in Doubles /\ One - w \in Doubles
      /\ \A d \in ToSet(data) : ExactProduct(d, w) /\ ExactProduct(d, One - w)
      BY DEF ExactWeights
<1>d. Round(steps, 1) = steps /\ Round(w, 1) = w
      BY <1>c, RoundDouble
<1>e. steps - l * One = w
  <2> HIDE DEF steps
  <2>1. steps = One * l + w /\ One * l = l * One
        BY <1>0, <1>a
  <2>2. l * One \in Int
        BY <1>0, <1>a
  <2> HIDE DEF l, w
  <2> QED
      BY <1>a, <2>1, <2>2
<1>4. v = IF l + 1 >= N THEN sorted[l + 1] ELSE Interpolated(sorted[l + 1], sorted[l + 2], w)
  <2>1. ~(data = <<>> \/ qt < 0 \/ qt > One)
        BY <1>0, <1>1
  <2> HIDE DEF w
  <2> QED
      BY <1>d, <1>e, <2>1 DEF Quantile, Value
<1> DEFINE up == (-steps) \div One
<1> HIDE DEF v, steps, l, w, sorted, up
<1>3. l \in Nat /\ w \in 0..(One - 1) /\ l <= N - 1 /\ (l = N - 1 => w = 0)
      BY <1>a
<1>b. (w = 0 => up = -l) /\ (w # 0 => up = -l - 1)
      BY <1>a DEF up
<1> HIDE DEF N
<1>5. PICK at : SortedBy(data, at)
      BY <1>0, Sorted
<1>6. /\ \A k \in 1..N : /\ at[k] \in 1..N /\ data[at[k]] \in Doubles /\ sorted[k] = data[at[k]]
                         /\ sorted[k] \in Int /\ sorted[k] \in Doubles /\ sorted[k] \in ToSet(data)
      /\ \A j, k \in 1..N : j <= k => sorted[j] <= sorted[k]
  <2>1. /\ \A k \in 1..N : at[k] \in 1..N /\ sorted[k] = data[at[k]]
        /\ \A j, k \in 1..N : j <= k => data[at[j]] <= data[at[k]]
        BY <1>2, <1>5 DEF SortedBy, sorted
  <2>2. \A i \in 1..N : data[i] \in Doubles /\ data[i] \in Int /\ data[i] \in ToSet(data)
        BY <1>0, <1>2 DEF ToSet
  <2> QED
      BY <2>1, <2>2
<1>f. l + 1 \in 1..N
      BY <1>2, <1>3
<1>g. /\ v \in Int /\ sorted[l + 1] <= v
      /\ w = 0 => v = sorted[l + 1]
      /\ w # 0 => l + 2 \in 1..N /\ v <= sorted[l + 2]
  <2>1. CASE l + 1 >= N
    <3>1. v = sorted[l + 1] /\ w = 0
          BY <1>2, <1>3, <1>4, <2>1
    <3>2. sorted[l + 1] \in Int
          BY <1>6, <1>f
    <3> QED
        BY <3>1, <3>2
  <2>2. CASE ~(l + 1 >= N)
    <3> DEFINE b == sorted[l + 1]
               c == sorted[l + 2]
    <3>1. l + 2 \in 1..N /\ l + 1 <= l + 2
          BY <1>2, <1>3, <2>2
    <3>2. /\ b \in Doubles /\ c \in Doubles /\ b <= c /\ b \in ToSet(data) /\ c \in ToSet(data)
          BY <1>6, <1>f, <3>1
    <3>3. v = Interpolated(b, c, w)
          BY <1>4, <2>2
    <3> HIDE DEF b, c
    <3>4. ExactProduct(b, One - w) /\ ExactProduct(c, w)
          BY <1>c, <3>2
    <3>5. v \in Int /\ b <= v /\ v <= c /\ (w = 0 => v = b)
          BY <1>3, <1>c, <3>2, <3>3, <3>4, InterpolatedBetween
    <3> QED
        BY <3>1, <3>5 DEF b, c
  <2> QED
      BY <2>1, <2>2
<1>7. \A k \in 1..(l + 1) : at[k] \in Below(data, v)
  <2> SUFFICES ASSUME NEW k \in 1..(l + 1) PROVE data[at[k]] <= v /\ at[k] \in 1..N
      BY <1>2 DEF Below
  <2>1. k \in 1..N /\ k <= l + 1
        BY <1>2, <1>3
  <2>2. /\ at[k] \in 1..N /\ data[at[k]] = sorted[k] /\ sorted[k] \in Int
        /\ sorted[l + 1] \in Int /\ sorted[k] <= sorted[l + 1]
        BY <1>6, <1>f, <2>1
  <2> QED
      BY <1>g, <2>2
<1>8. \A k \in 1..N : k >= (IF w = 0 THEN l + 1 ELSE l + 2) => at[k] \in Above(data, v)
  <2> SUFFICES ASSUME NEW k \in 1..N, k >= (IF w = 0 THEN l + 1 ELSE l + 2)
               PROVE  data[at[k]] >= v /\ at[k] \in 1..N
      BY <1>2 DEF Above
  <2>1. at[k] \in 1..N /\ data[at[k]] = sorted[k] /\ sorted[k] \in Int
        BY <1>6
  <2>2. CASE w = 0
    <3>1. l + 1 <= k
          BY <1>3, <2>2
    <3>2. sorted[l + 1] <= sorted[k]
          BY <1>6, <1>f, <3>1
    <3> QED
        BY <1>g, <2>1, <2>2, <3>2
  <2>3. CASE w # 0
    <3>1. l + 2 <= k /\ l + 2 \in 1..N
          BY <1>3, <1>g, <2>3
    <3>2. sorted[l + 2] <= sorted[k] /\ sorted[l + 2] \in Int
          BY <1>6, <3>1
    <3> QED
        BY <1>g, <2>1, <2>3, <3>2
  <2> QED
      BY <2>2, <2>3
<1>9. Below(data, v) \in SUBSET DOMAIN data /\ Above(data, v) \in SUBSET DOMAIN data
      BY DEF Below, Above
<1>10. Cardinality(Below(data, v)) >= l + 1
  <2> DEFINE a == 1
             b == l + 1
             B == Below(data, v)
  <2>1. a \in 1..(N + 1) /\ b \in 0..N /\ a <= b + 1
        BY <1>2, <1>3
  <2>2. \A k \in a..b : at[k] \in B
        BY <1>7
  <2>3. B \in SUBSET DOMAIN data
        BY <1>9
  <2> HIDE DEF a, b, B
  <2>4. Cardinality(B) \in Nat /\ Cardinality(B) >= b - a + 1
        BY <1>0, <1>5, <2>1, <2>2, <2>3, SortedRange DEF N
  <2> QED
      BY <1>3, <2>4 DEF a, b, B
<1>11. Cardinality(Above(data, v)) >= N + up
  <2> DEFINE a == IF w = 0 THEN l + 1 ELSE l + 2
             b == N
             B == Above(data, v)
  <2>1. a \in 1..(N + 1) /\ b \in 0..N /\ a <= b + 1
        BY <1>2, <1>3
  <2>2. \A k \in a..b : at[k] \in B
        BY <1>2, <1>3, <1>8
  <2>3. B \in SUBSET DOMAIN data
        BY <1>9
  <2>5. N - a + 1 = N + up
        BY <1>2, <1>3, <1>b
  <2> HIDE DEF a, B, b
  <2>4. Cardinality(B) \in Nat /\ Cardinality(B) >= b - a + 1
        BY <1>0, <1>5, <2>1, <2>2, <2>3, SortedRange DEF N
  <2> QED
      BY <2>4, <2>5 DEF b, B
<1> QED
    BY <1>10, <1>11 DEF v, l, steps, up, N

\* What the deviations from any double m come to: squares that are not
\* negative, and zeros for data that are all m.
LEMMA SquaredDeviations ==
    ASSUME NEW value \in Doubles, NEW m \in Doubles
    PROVE  /\ SquaredDeviation(value, m) \in Nat
           /\ value = m => SquaredDeviation(value, m) = 0
<1>1. value \in Int /\ m \in Int /\ 0 \in Doubles /\ One \in Nat \ {0}
      BY UtilAssumption
<1> DEFINE d == Round(value - m, 1)
<1>2. d \in Int
  <2>1. value - m \in Int
        BY <1>1
  <2> QED
      BY <2>1, RoundNearest
<1>3. value = m => d = 0
  <2>1. value = m => value - m = 0
        BY <1>1
  <2> QED
      BY <1>1, <2>1, RoundDouble
<1>4. SquaredDeviation(value, m) = Round(d * d, One)
      BY DEF SquaredDeviation
<1> HIDE DEF d
<1>5. d * d \in Int /\ 0 <= d * d /\ (d = 0 => d * d = 0) /\ 0 * One = 0
      BY <1>1, <1>2
<1>6. Round(d * d, One) \in Int /\ 0 <= Round(d * d, One)
      BY <1>1, <1>5, RoundNearest, RoundWithin
<1>7. d = 0 => Round(d * d, One) = 0
      BY <1>1, <1>5, RoundWithin
<1> QED
    BY <1>3, <1>4, <1>6, <1>7

LEMMA SumSquaresSound ==
    ASSUME NEW data \in Seq(Doubles), Len(data) > 0
    PROVE  /\ SumSquares(data) \in Nat
           /\ ExactSums(data) /\ (\A i, j \in DOMAIN data : data[i] = data[j])
                 => SumSquares(data) = 0
<1> DEFINE N == Len(data)
           mv == MeanOf(data)
           devs == [i \in DOMAIN data |-> SquaredDeviation(data[i], mv)]
<1>0. Doubles \subseteq Int /\ data \in Seq(Int)
  <2>1. Doubles \subseteq Int
        BY UtilAssumption
  <2> QED
      BY <2>1, SeqMonotonic
<1>1. N \in Nat \ {0} /\ DOMAIN data = 1..N /\ \A i \in 1..N : data[i] \in Doubles
      BY LenProperties
<1>2. SumOf(data) \in Int
      BY <1>0, <1>1, SumsType DEF SumOf
<1>3. mv \in Doubles
      BY <1>1, <1>2, RoundNearest DEF MeanOf
<1>4. SumSquares(data) = SumOf(devs)
      BY DEF SumSquares
<1> HIDE DEF mv
<1>5. \A i \in 1..N : devs[i] \in Nat /\ (data[i] = mv => devs[i] = 0)
  <2> SUFFICES ASSUME NEW i \in 1..N PROVE devs[i] \in Nat /\ (data[i] = mv => devs[i] = 0)
      OBVIOUS
  <2>1. data[i] \in Doubles /\ devs[i] = SquaredDeviation(data[i], mv)
        BY <1>1
  <2> QED
      BY <1>3, <2>1, SquaredDeviations
<1>6. devs \in Seq(Nat) /\ Len(devs) = N
  <2>1. DOMAIN devs = 1..N /\ devs = [i \in 1..N |-> devs[i]]
        BY <1>1
  <2> HIDE DEF devs, N
  <2>2. devs \in [1..N -> Nat]
        BY <1>5, <2>1
  <2>3. devs \in Seq(Nat)
        BY <1>1, <2>2, SeqDef
  <2> QED
      BY <1>1, <2>1, <2>3, LenProperties
<1> HIDE DEF devs
<1>7. SumOf(devs) \in Nat /\ ((\A i \in 1..N : devs[i] = 0) => SumOf(devs) = 0)
      BY <1>6, SumOfNaturals
<1>8. ASSUME ExactSums(data), \A i, j \in DOMAIN data : data[i] = data[j]
      PROVE  \A i \in 1..N : data[i] = mv
  <2> DEFINE c == data[1]
  <2>1. c \in Doubles /\ c \in Int /\ \A i \in 1..N : data[i] = c
        BY <1>0, <1>1, <1>8
  <2>2. \A i \in 1..N : c <= data[i] /\ data[i] <= c
        BY <2>1
  <2> HIDE DEF c
  <2>3. c * N <= SumOf(data) /\ SumOf(data) <= c * N
        BY <1>0, <1>8, <2>1, <2>2, ExactBounds
  <2>4. SumOf(data) = c * N
    <3>1. c * N \in Int
          BY <1>1, <2>1
    <3> QED
        BY <1>2, <2>3, <3>1
  <2>5. Round(SumOf(data), N) = c
        BY <1>1, <1>2, <2>1, <2>4, RoundWithin
  <2> QED
      BY <2>1, <2>5 DEF mv, MeanOf
<1> QED
    BY <1>1, <1>4, <1>5, <1>7, <1>8

\* The deviation's square is not negative, and 0 for data that are all the
\* same if their sums are not rounded.
LEMMA StandardDeviationSound ==
    ASSUME NEW data \in Seq(Doubles), NEW ddof \in Int, SizeBits \in Nat,
           Len(data) < 2 ^ SizeBits, StandardDeviation(data, ddof).what = "value"
    PROVE  LET v == StandardDeviation(data, ddof).value
           IN  /\ v >= 0
               /\ ExactSums(data) /\ (\A i, j \in DOMAIN data : data[i] = data[j]) => v = 0
<1> DEFINE N == Len(data)
           v == StandardDeviation(data, ddof).value
           s == SumSquares(data)
           d == Divisor(data, ddof)
<1>1. ~(ddof < 0)
      BY DEF StandardDeviation, Throws
<1>2. N \in Nat
      BY LenProperties
<1>3. CASE N < 2
  <2>1. v = 0
        BY <1>1, <1>3 DEF StandardDeviation, Value
  <2> HIDE DEF v
  <2>2. v >= 0
        BY <2>1
  <2> QED
      BY <2>1, <2>2 DEF v
<1>4. CASE ~(N < 2)
  <2>1. s \in Nat /\ (ExactSums(data) /\ (\A i, j \in DOMAIN data : data[i] = data[j]) => s = 0)
    <3>1. Len(data) > 0
          BY <1>2, <1>4
    <3> QED
        BY <3>1, SumSquaresSound
  <2>2. d \in Nat
    <3> DEFINE M == 2 ^ SizeBits
    <3>1. M \in Int /\ N < M /\ M > 0
          BY <1>2
    <3>2. d = (N - ddof) % M
          BY DEF Divisor
    <3> HIDE DEF M, d, N
    <3> QED
        BY <1>2, <3>1, <3>2
  <2>3. d # 0
        BY <1>1, <1>4 DEF StandardDeviation
  <2>4. v = Round(s, d)
        BY <1>1, <1>4, <2>3 DEF StandardDeviation, Value
  <2> HIDE DEF s, d
  <2>5. 0 \in Doubles
        BY UtilAssumption
  <2>6. 0 * d = 0 /\ 0 * d <= s /\ s \in Int /\ d \in Nat \ {0}
        BY <2>1, <2>2, <2>3
  <2>7. 0 <= Round(s, d) /\ (s = 0 => Round(s, d) = 0) /\ Round(s, d) \in Int
        BY <2>5, <2>6, RoundNearest, RoundWithin
  <2> HIDE DEF v
  <2>8. v >= 0 /\ (s = 0 => v = 0)
        BY <2>4, <2>7
  <2> QED
      BY <2>1, <2>8 DEF v
<1> QED
    BY <1>3, <1>4

\* For every vector of doubles, and every choice of a nearest double: a
\* quantile divides the data as it should and a mean is not outside them,
\* where the weights and the sums are exact, and a standard deviation is the
\* root of a number that is not negative.
THEOREM SummariesAreSound == UtilSpec => []SummariesSound
<1>1. UtilInit => SummariesSound
      BY DEF UtilInit, SummariesSound
<1>2. SummariesSound /\ [UtilNext]_utilVars => SummariesSound'
  <2> SUFFICES ASSUME SummariesSound, [UtilNext]_utilVars PROVE SummariesSound'
      OBVIOUS
  <2>1. CASE UNCHANGED utilVars
        BY <2>1 DEF utilVars, SummariesSound
  <2>2. CASE UtilNext
    <3>1. PICK data \in Samples :
             \/ CallMean(data)
             \/ \E ddof \in Ddofs : CallStandardDeviation(data, ddof)
             \/ \E qt \in Quantiles : CallQuantile(data, qt)
          BY <2>2 DEF UtilNext
    <3>2. data \in Seq(Doubles) /\ Len(data) < 2 ^ SizeBits /\ SizeBits \in Nat
          BY UtilAssumption
    <3> SUFFICES ASSUME response'.what = "value" PROVE SummariesSound'
        BY DEF SummariesSound
    <3>3. CASE CallMean(data)
      <4>1. data # <<>> /\ response' = Value(MeanOf(data))
            BY <3>3 DEF CallMean, Mean, Throws
      <4>2. ExactSums(data) => Below(data, MeanOf(data)) # {} /\ Above(data, MeanOf(data)) # {}
            BY <3>2, <4>1, MeanSound
      <4>3. request'.fun = "mean" /\ request'.data = data /\ response'.value = MeanOf(data)
            BY <3>3, <4>1 DEF CallMean, Value
      <4> QED
          BY <4>2, <4>3 DEF SummariesSound
    <3>4. ASSUME NEW ddof \in Ddofs, CallStandardDeviation(data, ddof) PROVE SummariesSound'
      <4> DEFINE v == StandardDeviation(data, ddof).value
      <4>1. /\ request'.fun = "standardDeviation" /\ request'.data = data
            /\ response'.value = v
            /\ StandardDeviation(data, ddof).what = "value"
            BY <3>4 DEF CallStandardDeviation
      <4>2. ddof \in Int
            BY UtilAssumption
      <4>3. /\ v >= 0
            /\ ExactSums(data) /\ (\A i, j \in DOMAIN data : data[i] = data[j]) => v = 0
            BY <3>2, <4>1, <4>2, StandardDeviationSound
      <4> HIDE DEF v
      <4> QED
          BY <4>1, <4>3 DEF SummariesSound
    <3>5. ASSUME NEW qt \in Quantiles, CallQuantile(data, qt) PROVE SummariesSound'
      <4> DEFINE v == Quantile(data, qt).value
                 steps == qt * (Len(data) - 1)
      <4>1. /\ request'.fun = "quantile" /\ request'.data = data
            /\ request'.q = qt /\ response'.value = v
            /\ Quantile(data, qt).what = "value"
            BY <3>5 DEF CallQuantile
      <4>2. qt \in Int
            BY UtilAssumption
      <4>3. ExactWeights(data, steps) =>
               /\ Cardinality(Below(data, v)) >= steps \div One + 1
               /\ Cardinality(Above(data, v)) >= Len(data) + (-steps) \div One
            BY <3>2, <4>1, <4>2, QuantileSound
      <4> HIDE DEF v
      <4> QED
          BY <4>1, <4>3 DEF SummariesSound
    <3> QED
        BY <3>1, <3>3, <3>4, <3>5
  <2> QED
      BY <2>1, <2>2
<1> QED
    BY <1>1, <1>2, PTL DEF UtilSpec

-----------------------------------------------------------------------------
(* The Fenwick tree                                                        *)

OddTimes(k, p) == \E m \in Nat : k = (2 * m + 1) * p

\* A power of two: a positive number without odd divisors but 1.
Pure(p) == p \in Nat \ {0} /\ \A d \in Nat : OddTimes(p, d) => d = p

\* Products of natural numbers.
LEMMA ProductFacts ==
    /\ \A a, b \in Nat : a * b \in Nat
    /\ \A a, b \in Nat : a * b = b * a
    /\ \A a, b, c \in Nat : a * (b * c) = (a * b) * c
    /\ \A a, b \in Nat : b >= 1 => a * b >= a
    /\ \A b \in Nat : 1 * b = b /\ 0 * b = 0
OBVIOUS

\* The lowest bit of k ...
LEMMA LowBitIs ==
    ASSUME NEW k \in Nat \ {0}
    PROVE  /\ LowBit(k) \in 1..k
           /\ OddTimes(k, LowBit(k))
           /\ \A p \in Nat \ {0} : OddTimes(k, p) => LowBit(k) <= p
<1> DEFINE S == {p \in 1..k : \E m \in 0..k : k = (2 * m + 1) * p}
<1>1. ASSUME NEW p \in Nat \ {0}, OddTimes(k, p) PROVE p \in S
  <2>1. PICK m \in Nat : k = (2 * m + 1) * p
        BY <1>1 DEF OddTimes
  <2>2. 2 * m + 1 \in Nat /\ p \in Nat /\ p >= 1 /\ 2 * m + 1 >= 1
        OBVIOUS
  <2>3. k >= 2 * m + 1
        BY <2>1, <2>2, ProductFacts
  <2>4. k >= p
        BY <2>1, <2>2, ProductFacts
  <2>5. m \in 0..k /\ p \in 1..k
        BY <2>3, <2>4
  <2> QED
      BY <2>1, <2>5
<1>2. k \in S
  <2>1. k = (2 * 0 + 1) * k
        OBVIOUS
  <2>2. k \in 1..k /\ 0 \in 0..k
        OBVIOUS
  <2> QED
      BY <2>1, <2>2
<1>3. S \in SUBSET Nat /\ S \subseteq 1..k /\ \A p \in S : OddTimes(k, p)
      BY DEF OddTimes
<1>4. LowBit(k) = CHOOSE z \in S : \A y \in S : z <= y
      BY DEF LowBit, Min
<1> HIDE DEF S
<1>5. \E z \in S : \A y \in S : z <= y
      BY <1>2, <1>3, LeastElement
<1>6. LowBit(k) \in S /\ \A y \in S : LowBit(k) <= y
      BY <1>4, <1>5
<1> QED
    BY <1>1, <1>3, <1>6

\* ... is a power of two.
LEMMA LowBitPure ==
    ASSUME NEW k \in Nat \ {0}
    PROVE  Pure(LowBit(k))
<1> DEFINE p == LowBit(k)
<1>1. p \in 1..k /\ OddTimes(k, p) /\ \A d \in Nat \ {0} : OddTimes(k, d) => p <= d
      BY LowBitIs
<1> HIDE DEF p
<1>2. PICK j \in Nat : k = (2 * j + 1) * p
      BY <1>1 DEF OddTimes
<1>3. ASSUME NEW d \in Nat, OddTimes(p, d) PROVE d = p
  <2>1. PICK m \in Nat : p = (2 * m + 1) * d
        BY <1>3 DEF OddTimes
  <2>2. d # 0
        BY <1>1, <2>1
  <2> DEFINE i == 2 * (j * m) + j + m
  <2>3. i \in Nat /\ (2 * j + 1) * (2 * m + 1) = 2 * i + 1
        OBVIOUS
  <2>4. k = (2 * i + 1) * d
    <3>1. k = (2 * j + 1) * ((2 * m + 1) * d)
          BY <1>2, <2>1
    <3>2. 2 * j + 1 \in Nat /\ 2 * m + 1 \in Nat
          OBVIOUS
    <3>3. k = ((2 * j + 1) * (2 * m + 1)) * d
          BY <3>1, <3>2, ProductFacts
    <3> QED
        BY <2>3, <3>3
  <2> HIDE DEF i
  <2>5. p <= d
        BY <1>1, <2>2, <2>3, <2>4 DEF OddTimes
  <2>6. p >= d
    <3>1. 2 * m + 1 \in Nat /\ 2 * m + 1 >= 1
          OBVIOUS
    <3> QED
        BY <2>1, <3>1, ProductFacts
  <2> QED
      BY <1>1, <2>5, <2>6
<1>4. p \in Nat \ {0}
      BY <1>1
<1> QED
    BY <1>3, <1>4 DEF Pure, p

\* Half a power of two is one, if it is not 1.
LEMMA PureHalf ==
    ASSUME NEW p, Pure(p), p # 1
    PROVE  \E h \in Nat \ {0} : p = 2 * h /\ Pure(h)
<1>1. p \in Nat \ {0} /\ \A d \in Nat : OddTimes(p, d) => d = p
      BY DEF Pure
<1>2. PICK h \in Nat : p = 2 * h \/ p = 2 * h + 1
  <2>1. p \div 2 \in Nat /\ (p = 2 * (p \div 2) \/ p = 2 * (p \div 2) + 1)
        BY <1>1
  <2> QED
      BY <2>1
<1>3. p # 2 * h + 1
  <2> SUFFICES ASSUME p = 2 * h + 1 PROVE FALSE
      OBVIOUS
  <2>1. p = (2 * h + 1) * 1
        OBVIOUS
  <2>2. OddTimes(p, 1)
        BY <2>1 DEF OddTimes
  <2> QED
      BY <1>1, <2>2
<1>4. p = 2 * h /\ h \in Nat \ {0}
      BY <1>1, <1>2, <1>3
<1>5. ASSUME NEW d \in Nat, OddTimes(h, d) PROVE d = h
  <2>1. PICK m \in Nat : h = (2 * m + 1) * d
        BY <1>5 DEF OddTimes
  <2>2. 2 * h = (2 * m + 1) * (2 * d)
        BY <2>1
  <2>3. OddTimes(p, 2 * d) /\ 2 * d \in Nat
        BY <1>4, <2>2 DEF OddTimes
  <2>4. 2 * d = p
        BY <1>1, <2>3
  <2> QED
      BY <1>4, <2>4
<1> QED
    BY <1>4, <1>5 DEF Pure

\* Of two powers of two the smaller divides the larger, an even number of
\* times.
LEMMA PureDivides ==
    ASSUME NEW p, NEW w, Pure(p), Pure(w), p < w
    PROVE  \E e \in Nat \ {0} : w = 2 * (e * p)
<1> DEFINE Good(b) == \A s \in 0..b : \A r \in Nat :
                         Pure(r) /\ Pure(s) /\ r < s => \E e \in Nat \ {0} : s = 2 * (e * r)
           P == {b \in Nat : Good(b)}
<1>1. 0 \in P
  <2>1. \A s \in 0..0 : s = 0
        OBVIOUS
  <2>2. ~Pure(0)
        BY DEF Pure
  <2> QED
      BY <2>1, <2>2
<1>2. ASSUME NEW b \in Nat, b \in P PROVE b + 1 \in P
  <2> SUFFICES ASSUME NEW s \in 0..(b + 1), NEW r \in Nat, Pure(r), Pure(s), r < s
               PROVE  \E e \in Nat \ {0} : s = 2 * (e * r)
      OBVIOUS
  <2>0. Good(b)
        BY <1>2
  <2>1. r >= 1 /\ s # 1
        BY DEF Pure
  <2>2. PICK h \in Nat \ {0} : s = 2 * h /\ Pure(h)
        BY <2>1, PureHalf
  <2>3. CASE r = 1
    <3>1. s = 2 * (h * 1)
          BY <2>2
    <3> QED
        BY <2>3, <3>1
  <2>4. CASE r # 1
    <3>1. PICK g \in Nat \ {0} : r = 2 * g /\ Pure(g)
          BY <2>4, PureHalf
    <3>2. g < h /\ h \in 0..b
          BY <2>2, <3>1
    <3>3. PICK e \in Nat \ {0} : h = 2 * (e * g)
          BY <2>0, <2>2, <3>1, <3>2
    <3>4. 2 * (e * g) = e * (2 * g)
          OBVIOUS
    <3>5. s = 2 * (e * r)
          BY <2>2, <3>1, <3>3, <3>4
    <3> QED
        BY <3>5
  <2> QED
      BY <2>3, <2>4
<1> HIDE DEF P
<1>3. Nat \subseteq P
      BY <1>1, <1>2, NatInductionInSet
<1>4. w \in Nat /\ p \in Nat /\ w \in 0..w
      BY DEF Pure
<1>5. Good(w)
      BY <1>3, <1>4 DEF P
<1> QED
    BY <1>4, <1>5

\* An odd multiple of p and an even one differ.
LEMMA OddIsNotEven ==
    ASSUME NEW p \in Nat \ {0}, NEW i \in Nat, NEW m \in Nat, (2 * i) * p = (2 * m + 1) * p
    PROVE  FALSE
<1>1. CASE 2 * i >= (2 * m + 1) + 1
  <2>1. PICK d \in Nat : 2 * i = ((2 * m + 1) + 1) + d
        BY <1>1
  <2>2. (2 * i) * p = (2 * m + 1) * p + p + d * p /\ d * p \in Nat
        BY <2>1
  <2> QED
      BY <2>2
<1>2. CASE 2 * i + 1 <= 2 * m + 1
  <2>1. PICK d \in Nat : 2 * m + 1 = (2 * i + 1) + d
        BY <1>2
  <2>2. (2 * m + 1) * p = (2 * i) * p + p + d * p /\ d * p \in Nat /\ (2 * i) * p \in Nat
        BY <2>1
  <2> QED
      BY <2>2
<1> QED
    BY <1>1, <1>2

\* The next node of update_tree covers twice as much at least.
LEMMA LowBitUp ==
    ASSUME NEW k \in Nat \ {0}
    PROVE  LowBit(k + LowBit(k)) >= 2 * LowBit(k)
<1> DEFINE p == LowBit(k)
           w == LowBit(k + p)
<1>1. p \in Nat \ {0} /\ OddTimes(k, p) /\ Pure(p)
      BY LowBitIs, LowBitPure
<1> HIDE DEF p
<1>2. k + p \in Nat \ {0}
      BY <1>1
<1>3. w \in Nat \ {0} /\ OddTimes(k + p, w) /\ Pure(w)
      BY <1>2, LowBitIs, LowBitPure
<1> HIDE DEF w
<1>4. PICK j \in Nat : k = (2 * j + 1) * p
      BY <1>1 DEF OddTimes
<1>5. PICK m \in Nat : k + p = (2 * m + 1) * w
      BY <1>3 DEF OddTimes
<1>6. k + p = (2 * (j + 1)) * p
      BY <1>1, <1>4
<1>7. w # p
      BY <1>1, <1>5, <1>6, OddIsNotEven
<1>8. ~(w < p)
  <2> SUFFICES ASSUME w < p PROVE FALSE
      OBVIOUS
  <2>1. PICK e \in Nat \ {0} : p = 2 * (e * w)
        BY <1>1, <1>3, PureDivides
  <2> DEFINE i == (j + 1) * (2 * e)
  <2>2. i \in Nat
        BY ProductFacts
  <2>3. (2 * (j + 1)) * (2 * (e * w)) = (2 * ((j + 1) * (2 * e))) * w
        BY <1>3
  <2>4. (2 * i) * w = (2 * m + 1) * w
        BY <1>5, <1>6, <2>1, <2>3
  <2> HIDE DEF i
  <2> QED
      BY <1>3, <2>2, <2>4, OddIsNotEven
<1>9. p < w
      BY <1>1, <1>3, <1>7, <1>8
<1>10. PICK e \in Nat \ {0} : w = 2 * (e * p)
      BY <1>1, <1>3, <1>9, PureDivides
<1>11. e * p >= p
  <2>1. e * p = p * e /\ p * e >= p
        BY <1>1, ProductFacts
  <2> QED
      BY <2>1
<1>12. e * p \in Nat
      BY <1>1, ProductFacts
<1>13. w >= 2 * p
      BY <1>1, <1>10, <1>11, <1>12
<1> QED
    BY <1>13 DEF w, p

\* A positive multiple of p is not below p.
LEMMA MultipleNotBelow ==
    ASSUME NEW p \in Nat \ {0}, NEW a \in Nat, NEW b \in Nat, NEW d \in Nat \ {0},
           a * p + d = b * p
    PROVE  d >= p
<1>1. CASE b >= a + 1
  <2>1. PICK c \in Nat : b = (a + 1) + c
        BY <1>1
  <2>2. b * p = a * p + p + c * p /\ c * p \in Nat /\ a * p \in Nat
        BY <2>1
  <2> QED
      BY <2>2
<1>2. CASE b <= a
  <2>1. PICK c \in Nat : a = b + c
        BY <1>2
  <2>2. a * p = b * p + c * p /\ c * p \in Nat /\ b * p \in Nat
        BY <2>1
  <2> QED
      BY <2>2
<1> QED
    BY <1>1, <1>2

\* The nodes in between cover nothing up to k.
LEMMA LowBitBetween ==
    ASSUME NEW k \in Nat \ {0}, NEW d \in Nat \ {0}, d < LowBit(k)
    PROVE  LowBit(k + d) <= d
<1> DEFINE p == LowBit(k)
           w == LowBit(k + d)
<1>1. p \in Nat \ {0} /\ OddTimes(k, p) /\ Pure(p) /\ d < p
      BY LowBitIs, LowBitPure
<1>2. w \in Nat \ {0} /\ OddTimes(k + d, w) /\ Pure(w)
  <2>1. k + d \in Nat \ {0}
        OBVIOUS
  <2> QED
      BY <2>1, LowBitIs, LowBitPure
<1> HIDE DEF p, w
<1>3. PICK j \in Nat : k = (2 * j + 1) * p
      BY <1>1 DEF OddTimes
<1>4. PICK m \in Nat : k + d = (2 * m + 1) * w
      BY <1>2 DEF OddTimes
<1>5. 2 * j + 1 \in Nat /\ 2 * m + 1 \in Nat
      OBVIOUS
<1>6. CASE w = p
  <2>1. (2 * j + 1) * p + d = (2 * m + 1) * p
        BY <1>3, <1>4, <1>6
  <2>2. d >= p
        BY <1>1, <1>5, <2>1, MultipleNotBelow
  <2> QED
      BY <1>1, <2>2
<1>7. CASE p < w
  <2>1. PICK e \in Nat \ {0} : w = 2 * (e * p)
        BY <1>1, <1>2, <1>7, PureDivides
  <2> DEFINE b == (2 * m + 1) * (2 * e)
  <2>2. b \in Nat
        BY <1>5, ProductFacts
  <2>3. (2 * m + 1) * (2 * (e * p)) = ((2 * m + 1) * (2 * e)) * p
        BY <1>1
  <2>4. (2 * j + 1) * p + d = b * p
        BY <1>3, <1>4, <2>1, <2>3
  <2> HIDE DEF b
  <2>5. d >= p
        BY <1>1, <1>5, <2>2, <2>4, MultipleNotBelow
  <2> QED
      BY <1>1, <2>5
<1>8. CASE w < p
  <2>1. PICK e \in Nat \ {0} : p = 2 * (e * w)
        BY <1>1, <1>2, <1>8, PureDivides
  <2> DEFINE a == (2 * j + 1) * (2 * e)
  <2>2. a \in Nat
        BY <1>5, ProductFacts
  <2>3. (2 * j + 1) * (2 * (e * w)) = ((2 * j + 1) * (2 * e)) * w
        BY <1>2
  <2>4. a * w + d = (2 * m + 1) * w
        BY <1>3, <1>4, <2>1, <2>3
  <2> HIDE DEF a
  <2>5. d >= w
        BY <1>2, <1>5, <2>2, <2>4, MultipleNotBelow
  <2> QED
      BY <1>2, <2>5 DEF w
<1> QED
    BY <1>1, <1>2, <1>6, <1>7, <1>8

\* The elements that node k adds up.
Covers(k) == (k - LowBit(k))..(k - 1)

\* The array as far as construct_tree has put it in.
Entered(array, length, b) == [j \in 0..(length - 1) |-> IF j < b THEN array[j] ELSE 0]

TreeHolds(tree, length, f) == \A k \in 1..length : tree[k] = Sums(f)[Covers(k)]

\* From node k on, v is still to be added to the nodes that cover j.
TreeLacks(tree, length, f, j, v, from) ==
    \A k \in 1..length :
       tree[k] + (IF k >= from /\ j \in Covers(k) THEN v ELSE 0) = Sums(f)[Covers(k)]

FenwickTypes ==
    /\ n \in Nat \ {0}
    /\ arr \in [0..(n - 1) -> Int]
    /\ fenwickTree \in [0..n -> Int]
    /\ fenwickPc \in {"construct", "update", "get", "idle"}
    /\ built \in 0..n
    /\ index \in Nat
    /\ val \in Int
    /\ sum \in Int
    /\ asked \in 0..(n - 1)
    /\ updates \in Nat

\* update_tree is on its way up from some element that the node at index
\* covers; what get_sum has and what is in front of index are what it is to
\* return.
FenwickInv ==
    /\ FenwickTypes
    /\ fenwickPc \in {"idle", "get"} \/ updates > 0 => built = n
    /\ fenwickPc # "update" => TreeHolds(fenwickTree, n, Entered(arr, n, built))
    /\ fenwickPc = "update" =>
          /\ index > 0
          /\ \E j \in 0..(n - 1) :
                /\ j \in Covers(index)
                /\ TreeLacks(fenwickTree, n, Entered(arr, n, built), j, val, index)
    /\ fenwickPc = "get" =>
          /\ index <= asked + 1
          /\ sum + Sums(arr)[0..(index - 1)] = Sums(arr)[0..asked]

LEMMA CoversIn ==
    ASSUME NEW length \in Nat \ {0}, NEW k \in 1..length
    PROVE  Covers(k) \in SUBSET (0..(length - 1))
<1>1. LowBit(k) \in 1..k
      BY LowBitIs
<1> QED
    BY <1>1 DEF Covers

\* update_tree goes from a node that covers j to the next one that does.
LEMMA CoversUp ==
    ASSUME NEW k \in Nat \ {0}, NEW j \in Covers(k)
    PROVE  /\ k + LowBit(k) \in Nat \ {0} /\ k + LowBit(k) > k
           /\ j \in Covers(k + LowBit(k))
           /\ \A m \in Nat : k < m /\ m < k + LowBit(k) => j \notin Covers(m)
<1> DEFINE p == LowBit(k)
           w == LowBit(k + p)
<1>1. p \in 1..k
      BY LowBitIs
<1>2. w >= 2 * p
      BY LowBitUp
<1> HIDE DEF p
<1>3. k + p \in Nat \ {0} /\ k + p > k
      BY <1>1
<1>4. w \in 1..(k + p)
      BY <1>3, LowBitIs
<1> HIDE DEF w
<1>5. j \in (k - p)..(k - 1)
      BY DEF Covers, p
<1>6. j \in (k + p - w)..(k + p - 1)
      BY <1>1, <1>2, <1>4, <1>5
<1>7. ASSUME NEW m \in Nat, k < m, m < k + p PROVE j \notin Covers(m)
  <2>1. m - k \in Nat \ {0} /\ m - k < p /\ k + (m - k) = m
        BY <1>1, <1>7
  <2>2. LowBit(k + (m - k)) <= m - k
        BY <2>1, LowBitBetween DEF p
  <2>3. LowBit(m) \in 1..m /\ LowBit(m) <= m - k
        BY <1>7, <2>1, <2>2, LowBitIs
  <2> QED
      BY <1>1, <1>5, <2>3 DEF Covers
<1>8. j \in Covers(k + p)
  <2>1. Covers(k + p) = (k + p - w)..(k + p - 1)
        BY <1>1, <1>3, <1>4 DEF Covers, w
  <2> QED
      BY <1>6, <2>1
<1> QED
    BY <1>3, <1>7, <1>8 DEF p

\* get_sum goes from a node to the part in front of what it covers.
LEMMA PrefixSplit ==
    ASSUME NEW length \in Nat \ {0}, NEW f \in [0..(length - 1) -> Int], NEW k \in 1..length
    PROVE  /\ k - LowBit(k) \in 0..(k - 1)
           /\ Sums(f)[0..(k - 1)] = Sums(f)[0..(k - LowBit(k) - 1)] + Sums(f)[Covers(k)]
           /\ Sums(f)[0..(k - LowBit(k) - 1)] \in Int /\ Sums(f)[Covers(k)] \in Int
<1> DEFINE p == LowBit(k)
           A == 0..(k - p - 1)
           B == Covers(k)
           S == 0..(length - 1)
<1>1. p \in 1..k
      BY LowBitIs
<1>2. IsFiniteSet(S) /\ f \in [S -> Int]
      BY FS_Interval
<1>3. A \in SUBSET S /\ B \in SUBSET S /\ Parts(0..(k - 1), A, B, S)
  <2>1. B = (k - p)..(k - 1)
        BY DEF Covers
  <2> HIDE DEF p
  <2> QED
      BY <1>1, <2>1 DEF Parts
<1>4. k - p \in 0..(k - 1)
      BY <1>1
<1> HIDE DEF A, B, S
<1>5. Sums(f)[0..(k - 1)] = Sums(f)[A] + Sums(f)[B]
      BY <1>2, <1>3, SumsOfParts
<1>6. Sums(f)[A] \in Int /\ Sums(f)[B] \in Int
      BY <1>2, <1>3, SumsChosen
<1> QED
    BY <1>4, <1>5, <1>6 DEF A, B

\* One more element, or more in one of them, is what a new update has to add.
LEMMA NewUpdate ==
    ASSUME NEW length \in Nat \ {0}, NEW tree \in [0..length -> Int],
           NEW f \in [0..(length - 1) -> Int], NEW h \in [0..(length - 1) -> Int],
           NEW j \in 0..(length - 1), NEW v \in Int, DifferAt(f, h, 0..(length - 1), j, v),
           TreeHolds(tree, length, f)
    PROVE  j \in Covers(j + 1) /\ TreeLacks(tree, length, h, j, v, j + 1)
<1> DEFINE S == 0..(length - 1)
<1>1. IsFiniteSet(S)
      BY FS_Interval
<1>0. f \in [S -> Int] /\ h \in [S -> Int] /\ DifferAt(f, h, S, j, v)
      OBVIOUS
<1>2. j \in Covers(j + 1)
  <2>0. j + 1 \in Nat \ {0}
        OBVIOUS
  <2>1. LowBit(j + 1) \in 1..(j + 1)
        BY <2>0, LowBitIs
  <2> QED
      BY <2>1 DEF Covers
<1> HIDE DEF S
<1>3. MoreWith(Sums(h), Sums(f), S, j, v)
      BY <1>0, <1>1, SumsOneChanged
<1>4. ASSUME NEW k \in 1..length
      PROVE  tree[k] + (IF k >= j + 1 /\ j \in Covers(k) THEN v ELSE 0) = Sums(h)[Covers(k)]
  <2>1. Covers(k) \in SUBSET S
        BY CoversIn DEF S
  <2>2. Sums(h)[Covers(k)] = Sums(f)[Covers(k)] + (IF j \in Covers(k) THEN v ELSE 0)
        BY <1>3, <2>1 DEF MoreWith
  <2>3. tree[k] = Sums(f)[Covers(k)]
        BY DEF TreeHolds
  <2>4. j \in Covers(k) => k >= j + 1
        BY DEF Covers
  <2> QED
      BY <2>2, <2>3, <2>4
<1> QED
    BY <1>2, <1>4 DEF TreeLacks

\* A turn of update_tree's loop.
LEMMA UpdateTurn ==
    ASSUME NEW length \in Nat \ {0}, NEW tree \in [0..length -> Int], NEW f, NEW v \in Int,
           NEW from \in 1..length, NEW j, j \in Covers(from),
           TreeLacks(tree, length, f, j, v, from)
    PROVE  TreeLacks([tree EXCEPT ![from] = @ + v], length, f, j, v, from + LowBit(from))
<1> DEFINE t2 == [tree EXCEPT ![from] = @ + v]
           next == from + LowBit(from)
<1>1. /\ next \in Nat /\ next > from
      /\ \A m \in Nat : from < m /\ m < next => j \notin Covers(m)
      BY CoversUp
<1> HIDE DEF next
<1> SUFFICES ASSUME NEW k \in 1..length
             PROVE  t2[k] + (IF k >= next /\ j \in Covers(k) THEN v ELSE 0) = Sums(f)[Covers(k)]
    BY DEF TreeLacks, next
<1>2. tree[k] + (IF k >= from /\ j \in Covers(k) THEN v ELSE 0) = Sums(f)[Covers(k)]
      BY DEF TreeLacks
<1>3. t2[k] = IF k = from THEN tree[k] + v ELSE tree[k]
      OBVIOUS
<1>4. tree[k] \in Int
      OBVIOUS
<1> HIDE DEF t2
<1>5. CASE k = from
  <2>1. ~(k >= next) /\ k >= from /\ j \in Covers(k)
        BY <1>1, <1>5
  <2> QED
      BY <1>2, <1>3, <1>4, <1>5, <2>1
<1>6. CASE k # from
  <2>1. (k >= next /\ j \in Covers(k)) <=> (k >= from /\ j \in Covers(k))
        BY <1>1, <1>6
  <2> QED
      BY <1>2, <1>3, <1>6, <2>1
<1> QED
    BY <1>5, <1>6

\* The last turn has left nothing out.
LEMMA UpdateEnd ==
    ASSUME NEW length \in Nat \ {0}, NEW tree \in [0..length -> Int], NEW f, NEW v \in Int,
           NEW from \in Nat, from > length, NEW j, TreeLacks(tree, length, f, j, v, from)
    PROVE  TreeHolds(tree, length, f)
<1> SUFFICES ASSUME NEW k \in 1..length PROVE tree[k] = Sums(f)[Covers(k)]
    BY DEF TreeHolds
<1>1. tree[k] \in Int /\ ~(k >= from)
      OBVIOUS
<1>2. tree[k] + 0 = Sums(f)[Covers(k)]
      BY <1>1 DEF TreeLacks
<1> QED
    BY <1>1, <1>2

LEMMA EnteredType ==
    ASSUME NEW length \in Nat \ {0}, NEW array \in [0..(length - 1) -> Int], NEW b \in 0..length
    PROVE  /\ Entered(array, length, b) \in [0..(length - 1) -> Int]
           /\ Entered(array, length, length) = array
BY DEF Entered

LEMMA FenwickStarts == ASSUME FenwickInit PROVE FenwickInv
<1>1. PICK length \in 1..MaxLength : \E array \in [0..(length - 1) -> Summands] :
         FenwickStart(length, array)
      BY DEF FenwickInit
<1>2. PICK array \in [0..(length - 1) -> Summands] : FenwickStart(length, array)
      BY <1>1
<1>3. length \in Nat \ {0} /\ array \in [0..(length - 1) -> Int]
  <2>1. MaxLength \in Nat /\ Summands \subseteq Int
        BY FenwickAssumption
  <2>2. length \in Nat \ {0}
        BY <1>1, <2>1
  <2>3. \A j \in 0..(length - 1) : array[j] \in Int
        BY <1>2, <2>1
  <2> QED
      BY <1>2, <2>2, <2>3
<1> DEFINE S == 0..(length - 1)
           f == Entered(array, length, 0)
<1>4. IsFiniteSet(S) /\ 0 \in Int
      BY <1>3, FS_Interval
<1>5. f \in [S -> Int] /\ \A j \in S : f[j] = 0
      BY <1>3 DEF Entered
<1> HIDE DEF f
<1>6. SUBSET S \subseteq {U \in SUBSET S : Sums(f)[U] = 0}
  <2> DEFINE P == {U \in SUBSET S : Sums(f)[U] = 0}
  <2> HIDE DEF S
  <2>1. /\ Sums(f)[{}] = 0
        /\ \A U \in SUBSET S : U # {} => Sums(f)[U] = f[Chosen(U)] + Sums(f)[U \ {Chosen(U)}]
    <3>1. IsFiniteSet(S) /\ f \in [S -> Int]
          BY <1>4, <1>5
    <3> QED
        BY <3>1, SumsChosen
  <2>2. {} \in P
        BY <2>1
  <2>3. ASSUME NEW U \in SUBSET S, U # {}, \A y \in U : U \ {y} \in P PROVE U \in P
    <3>1. Chosen(U) \in U
          BY <2>3 DEF Chosen
    <3>2. f[Chosen(U)] = 0 /\ Sums(f)[U \ {Chosen(U)}] = 0
          BY <1>5, <2>3, <3>1
    <3>3. Sums(f)[U] = f[Chosen(U)] + Sums(f)[U \ {Chosen(U)}]
          BY <2>1, <2>3
    <3>4. Sums(f)[U] = 0 + 0
          BY <3>2, <3>3
    <3> QED
        BY <3>4
  <2> HIDE DEF P
  <2>4. SUBSET S \subseteq P
        BY <1>4, <2>2, <2>3, SubsetInduction
  <2> QED
      BY <2>4 DEF P
<1>7. \A k \in 1..length : Sums(f)[Covers(k)] = 0
      BY <1>3, <1>6, CoversIn
<1>8. FenwickTypes /\ fenwickPc = "construct" /\ updates = 0 /\ n = length
      BY <1>2, <1>3 DEF FenwickStart, FenwickTypes
<1>9. TreeHolds(fenwickTree, n, Entered(arr, n, built))
  <2>1. fenwickTree = [k \in 0..length |-> 0] /\ Entered(arr, n, built) = f
        BY <1>2 DEF FenwickStart, f
  <2> QED
      BY <1>3, <1>7, <1>8, <2>1 DEF TreeHolds
<1> QED
    BY <1>8, <1>9 DEF FenwickInv

LEMMA ConstructNextKeeps == ASSUME FenwickInv, ConstructNext PROVE FenwickInv'
<1>1. FenwickTypes /\ fenwickPc = "construct" /\ TreeHolds(fenwickTree, n, Entered(arr, n, built))
      BY DEF FenwickInv, ConstructNext
<1>2. /\ n' = n /\ arr' = arr /\ fenwickTree' = fenwickTree /\ sum' = sum
      /\ asked' = asked /\ updates' = updates
      BY DEF ConstructNext
<1>3. CASE built < n
  <2>1. index' = built + 1 /\ val' = arr[built] /\ built' = built + 1 /\ fenwickPc' = "update"
        BY <1>3 DEF ConstructNext
  <2>2. /\ built \in 0..(n - 1) /\ arr[built] \in Int /\ built + 1 \in 0..n
        /\ n \in Nat \ {0} /\ arr \in [0..(n - 1) -> Int] /\ fenwickTree \in [0..n -> Int]
        BY <1>1, <1>3 DEF FenwickTypes
  <2>3. FenwickTypes'
        BY <1>1, <1>2, <2>1, <2>2 DEF FenwickTypes
  <2> DEFINE f == Entered(arr, n, built)
             h == Entered(arr, n, built + 1)
  <2>4. f \in [0..(n - 1) -> Int] /\ h \in [0..(n - 1) -> Int]
        BY <2>2 DEF Entered
  <2>5. DifferAt(f, h, 0..(n - 1), built, arr[built])
        BY <2>2 DEF DifferAt, Entered
  <2> HIDE DEF f, h
  <2>6. built \in Covers(built + 1) /\ TreeLacks(fenwickTree, n, h, built, arr[built], built + 1)
        BY <1>1, <2>2, <2>4, <2>5, NewUpdate DEF f
  <2>7. updates > 0 => built = n
        BY DEF FenwickInv
  <2>8. ~(updates > 0)
        BY <1>3, <2>2, <2>7
  <2> QED
      BY <1>2, <2>1, <2>2, <2>3, <2>6, <2>8 DEF FenwickInv, h
<1>4. CASE ~(built < n)
  <2>1. /\ fenwickPc' = "idle" /\ index' = index /\ val' = val /\ built' = built
        BY <1>4 DEF ConstructNext
  <2>2. built = n
        BY <1>1, <1>4 DEF FenwickTypes
  <2>3. FenwickTypes'
        BY <1>1, <1>2, <2>1 DEF FenwickTypes
  <2> QED
      BY <1>1, <1>2, <2>1, <2>2, <2>3 DEF FenwickInv
<1> QED
    BY <1>3, <1>4

LEMMA UpdateKeeps ==
    ASSUME FenwickInv, UpdateStep
    PROVE  FenwickInv' /\ (fenwickPc' = "update" => index < index' /\ index <= n)
<1>1. /\ FenwickTypes /\ fenwickPc = "update" /\ index > 0
      /\ updates > 0 => built = n
      BY DEF FenwickInv, UpdateStep
<1> DEFINE f == Entered(arr, n, built)
<1>2. PICK j \in 0..(n - 1) : j \in Covers(index) /\ TreeLacks(fenwickTree, n, f, j, val, index)
      BY <1>1 DEF FenwickInv
<1>3. /\ n' = n /\ arr' = arr /\ built' = built /\ val' = val /\ sum' = sum
      /\ asked' = asked /\ updates' = updates
      BY DEF UpdateStep
<1>4. /\ n \in Nat \ {0} /\ fenwickTree \in [0..n -> Int] /\ val \in Int /\ index \in Nat \ {0}
      BY <1>1 DEF FenwickTypes
<1>5. Entered(arr', n', built') = f
      BY <1>3
<1> HIDE DEF f
<1>6. CASE index <= n
  <2>1. /\ fenwickTree' = [fenwickTree EXCEPT ![index] = @ + val]
        /\ index' = index + LowBit(index) /\ fenwickPc' = "update"
        BY <1>1, <1>6 DEF UpdateStep
  <2>2. index' \in Nat \ {0} /\ index' > index /\ j \in Covers(index')
        BY <1>2, <1>4, <2>1, CoversUp
  <2>3. index \in 1..n
        BY <1>4, <1>6
  <2>4. TreeLacks([fenwickTree EXCEPT ![index] = @ + val], n, f, j, val, index + LowBit(index))
        BY <1>2, <1>4, <2>3, UpdateTurn
  <2>5. fenwickTree' \in [0..n -> Int]
        BY <1>4, <2>1, <2>3
  <2>6. TreeLacks(fenwickTree', n, f, j, val, index')
        BY <2>1, <2>4
  <2>7. FenwickTypes'
        BY <1>1, <1>3, <2>1, <2>2, <2>5 DEF FenwickTypes
  <2>8. FenwickInv'
        BY <1>1, <1>2, <1>3, <1>5, <2>1, <2>2, <2>6, <2>7 DEF FenwickInv
  <2>9. index < index'
        BY <1>4, <2>2
  <2> QED
      BY <1>6, <2>8, <2>9
<1>7. CASE ~(index <= n)
  <2>1. /\ fenwickTree' = fenwickTree /\ index' = index
        /\ fenwickPc' = IF updates = 0 THEN "construct" ELSE "idle"
        BY <1>1, <1>7 DEF UpdateStep
  <2>2. TreeHolds(fenwickTree, n, f)
        BY <1>2, <1>4, <1>7, UpdateEnd
  <2>3. FenwickTypes'
        BY <1>1, <1>3, <2>1 DEF FenwickTypes
  <2>4. updates \in Nat
        BY <1>1 DEF FenwickTypes
  <2>5. fenwickPc' # "update" /\ fenwickPc' # "get" /\ (fenwickPc' = "idle" => built = n)
        BY <1>1, <2>1, <2>4
  <2> QED
      BY <1>1, <1>3, <1>5, <2>1, <2>2, <2>3, <2>5 DEF FenwickInv
<1> QED
    BY <1>6, <1>7

LEMMA CallUpdateKeeps ==
    ASSUME FenwickInv, NEW i \in 0..(n - 1), NEW v \in Summands, CallUpdate(i, v)
    PROVE  FenwickInv'
<1>1. /\ FenwickTypes /\ fenwickPc = "idle" /\ built = n
      /\ TreeHolds(fenwickTree, n, Entered(arr, n, built))
      BY DEF FenwickInv, CallUpdate
<1>2. /\ n \in Nat \ {0} /\ arr \in [0..(n - 1) -> Int] /\ fenwickTree \in [0..n -> Int]
      /\ updates \in Nat
      BY <1>1 DEF FenwickTypes
<1>3. v \in Int
      BY FenwickAssumption
<1> DEFINE a2 == [arr EXCEPT ![i] = @ + v]
<1>4. /\ updates' = updates + 1 /\ arr' = a2 /\ index' = i + 1 /\ val' = v
      /\ fenwickPc' = "update" /\ n' = n /\ fenwickTree' = fenwickTree /\ built' = built
      /\ sum' = sum /\ asked' = asked
      BY DEF CallUpdate
<1>5. a2 \in [0..(n - 1) -> Int] /\ DifferAt(arr, a2, 0..(n - 1), i, v)
      BY <1>2, <1>3 DEF DifferAt
<1> HIDE DEF a2
<1>6. Entered(arr, n, built) = arr
      BY <1>1, <1>2, EnteredType
<1>7. Entered(a2, n, n) = a2
      BY <1>2, <1>5 DEF Entered
<1>8. i \in Covers(i + 1) /\ TreeLacks(fenwickTree, n, a2, i, v, i + 1)
      BY <1>1, <1>2, <1>3, <1>5, <1>6, NewUpdate
<1>9. FenwickTypes'
      BY <1>1, <1>2, <1>3, <1>4, <1>5 DEF FenwickTypes
<1>10. Entered(arr', n', built') = a2
      BY <1>1, <1>4, <1>7
<1> QED
    BY <1>1, <1>4, <1>8, <1>9, <1>10 DEF FenwickInv

LEMMA CallGetSumKeeps ==
    ASSUME FenwickInv, NEW i \in 0..(n - 1), CallGetSum(i)
    PROVE  FenwickInv'
<1>1. /\ FenwickTypes /\ fenwickPc = "idle" /\ built = n
      /\ TreeHolds(fenwickTree, n, Entered(arr, n, built))
      BY DEF FenwickInv, CallGetSum
<1>2. n \in Nat \ {0} /\ arr \in [0..(n - 1) -> Int]
      BY <1>1 DEF FenwickTypes
<1>3. /\ sum' = 0 /\ asked' = i /\ index' = i + 1 /\ fenwickPc' = "get" /\ n' = n /\ arr' = arr
      /\ fenwickTree' = fenwickTree /\ built' = built /\ val' = val /\ updates' = updates
      BY DEF CallGetSum
<1>4. FenwickTypes'
      BY <1>1, <1>2, <1>3 DEF FenwickTypes
<1>5. Sums(arr)[0..i] \in Int
  <2>1. IsFiniteSet(0..(n - 1)) /\ 0..i \in SUBSET (0..(n - 1))
        BY <1>2, FS_Interval
  <2> QED
      BY <1>2, <2>1, SumsChosen
<1>6. 0..((i + 1) - 1) = 0..i
      BY <1>2
<1>7. 0 + Sums(arr)[0..((i + 1) - 1)] = Sums(arr)[0..i]
      BY <1>5, <1>6
<1> QED
    BY <1>1, <1>3, <1>4, <1>7 DEF FenwickInv

LEMMA GetKeeps ==
    ASSUME FenwickInv, GetStep
    PROVE  /\ FenwickInv'
           /\ fenwickPc' = "get" => index' < index
           /\ fenwickPc' = "idle" => sum' = Sums(arr')[0..asked']
<1>1. /\ FenwickTypes /\ fenwickPc = "get" /\ built = n /\ index <= asked + 1
      /\ TreeHolds(fenwickTree, n, Entered(arr, n, built))
      /\ sum + Sums(arr)[0..(index - 1)] = Sums(arr)[0..asked]
      BY DEF FenwickInv, GetStep
<1>2. /\ n \in Nat \ {0} /\ arr \in [0..(n - 1) -> Int] /\ fenwickTree \in [0..n -> Int]
      /\ index \in Nat /\ asked \in 0..(n - 1) /\ sum \in Int
      BY <1>1 DEF FenwickTypes
<1>3. /\ n' = n /\ arr' = arr /\ fenwickTree' = fenwickTree /\ built' = built /\ val' = val
      /\ asked' = asked /\ updates' = updates
      BY DEF GetStep
<1>4. TreeHolds(fenwickTree, n, arr)
  <2>1. Entered(arr, n, built) = arr
        BY <1>1, <1>2 DEF Entered
  <2> QED
      BY <1>1, <2>1
<1>5. CASE index > 0
  <2>1. /\ sum' = sum + fenwickTree[index] /\ index' = index - LowBit(index) /\ fenwickPc' = "get"
        BY <1>1, <1>5 DEF GetStep
  <2>2. index \in 1..n
        BY <1>1, <1>2, <1>5
  <2>3. /\ index' \in 0..(index - 1)
        /\ Sums(arr)[0..(index - 1)] = Sums(arr)[0..(index' - 1)] + Sums(arr)[Covers(index)]
        /\ Sums(arr)[0..(index' - 1)] \in Int /\ Sums(arr)[Covers(index)] \in Int
        BY <1>2, <2>1, <2>2, PrefixSplit
  <2>4. fenwickTree[index] = Sums(arr)[Covers(index)]
        BY <1>4, <2>2 DEF TreeHolds
  <2>5. sum' + Sums(arr)[0..(index' - 1)] = Sums(arr)[0..asked] /\ sum' \in Int
    <3> DEFINE a == Sums(arr)[0..(index' - 1)]
               b == Sums(arr)[Covers(index)]
               w == Sums(arr)[0..asked]
    <3>1. a \in Int /\ b \in Int /\ sum \in Int
          BY <1>2, <2>3
    <3>2. sum + (a + b) = w /\ sum' = sum + b
          BY <1>1, <2>1, <2>3, <2>4
    <3> HIDE DEF a, b, w
    <3>3. sum' + a = w /\ sum' \in Int
          BY <3>1, <3>2
    <3> QED
        BY <3>3 DEF a, w
  <2>6. index' \in Nat /\ index' < index /\ index' <= asked + 1
    <3>1. index' \in 0..(index - 1) /\ index <= asked + 1 /\ asked \in Int
          BY <1>1, <1>2, <2>3
    <3> QED
        BY <1>2, <3>1
  <2>7. FenwickTypes'
        BY <1>1, <1>3, <2>1, <2>5, <2>6 DEF FenwickTypes
  <2>8. FenwickInv'
        BY <1>1, <1>3, <2>1, <2>5, <2>6, <2>7 DEF FenwickInv
  <2> QED
      BY <2>1, <2>6, <2>8
<1>6. CASE ~(index > 0)
  <2>1. sum' = sum /\ index' = index /\ fenwickPc' = "idle"
        BY <1>1, <1>6 DEF GetStep
  <2>2. 0..(index - 1) = {}
        BY <1>2, <1>6
  <2>3. Sums(arr)[{}] = 0
    <3>1. IsFiniteSet(0..(n - 1))
          BY <1>2, FS_Interval
    <3> QED
        BY <1>2, <3>1, SumsChosen
  <2>4. sum = Sums(arr)[0..asked]
    <3>1. sum + Sums(arr)[{}] = Sums(arr)[0..asked]
          BY <1>1, <2>2
    <3>2. sum + 0 = Sums(arr)[0..asked]
          BY <2>3, <3>1
    <3> QED
        BY <1>2, <3>2
  <2>5. FenwickTypes'
        BY <1>1, <1>3, <2>1 DEF FenwickTypes
  <2>6. FenwickInv'
        BY <1>1, <1>3, <2>1, <2>5 DEF FenwickInv
  <2> QED
      BY <1>3, <2>1, <2>4, <2>6
<1> QED
    BY <1>5, <1>6

\* What get_sum returns, and that the loops go on.
LEMMA FenwickKeeps ==
    ASSUME FenwickInv, [FenwickNext]_fenwickVars
    PROVE  /\ FenwickInv'
           /\ fenwickPc = "get" /\ fenwickPc' = "get" => index' < index \/ UNCHANGED fenwickVars
           /\ fenwickPc = "update" /\ fenwickPc' = "update" =>
                 (index < index' /\ index <= n) \/ UNCHANGED fenwickVars
           /\ fenwickPc = "get" /\ fenwickPc' = "idle" => sum' = Sums(arr')[0..asked']
<1>1. CASE UNCHANGED fenwickVars
  <2>1. /\ n' = n /\ arr' = arr /\ fenwickTree' = fenwickTree /\ fenwickPc' = fenwickPc
        /\ built' = built /\ index' = index /\ val' = val /\ sum' = sum /\ asked' = asked
        /\ updates' = updates
        BY <1>1 DEF fenwickVars
  <2>2. FenwickTypes' = FenwickTypes
        BY <2>1 DEF FenwickTypes
  <2>3. FenwickInv'
        BY <2>1, <2>2 DEF FenwickInv
  <2> QED
      BY <1>1, <2>1, <2>3
<1>2. CASE ConstructNext
  <2>1. fenwickPc = "construct"
        BY <1>2 DEF ConstructNext
  <2> QED
      BY <1>2, <2>1, ConstructNextKeeps
<1>3. CASE UpdateStep
  <2>1. fenwickPc = "update"
        BY <1>3 DEF UpdateStep
  <2> QED
      BY <1>3, <2>1, UpdateKeeps
<1>4. CASE GetStep
  <2>1. fenwickPc = "get"
        BY <1>4 DEF GetStep
  <2> QED
      BY <1>4, <2>1, GetKeeps
<1>5. CASE FenwickCall
  <2>1. PICK i \in 0..(n - 1) : CallGetSum(i) \/ \E v \in Summands : CallUpdate(i, v)
        BY <1>5 DEF FenwickCall
  <2>2. fenwickPc = "idle"
        BY <2>1 DEF CallGetSum, CallUpdate
  <2> QED
      BY <2>1, <2>2, CallGetSumKeeps, CallUpdateKeeps
<1> QED
    BY <1>1, <1>2, <1>3, <1>4, <1>5 DEF FenwickNext, FenwickLoops

\* get_sum returns the sum of the elements up to the index it was asked for.
SumsReturned ==
    [][fenwickPc = "get" /\ fenwickPc' = "idle" =>
          sum' = MapThenSumSet(LAMBDA k : arr'[k], 0..asked')]_fenwickVars

\* The index of get_sum only goes down and that of update_tree only up, as
\* long as it is within the array, so that both loops end.
LoopsAdvance ==
    [][/\ fenwickPc = "get" /\ fenwickPc' = "get" => index' < index
       /\ fenwickPc = "update" /\ fenwickPc' = "update" => index < index' /\ index <= n
      ]_fenwickVars

\* For arrays of any length and any updates: every node is the sum of what it
\* covers, so the nodes that get_sum visits make up the prefix.
THEOREM FenwickSumsReturned == FenwickSpec => SumsReturned
<1>1. ASSUME FenwickInv, [FenwickNext]_fenwickVars, fenwickPc = "get", fenwickPc' = "idle"
      PROVE  sum' = MapThenSumSet(LAMBDA k : arr'[k], 0..asked')
  <2>1. FenwickInv' /\ sum' = Sums(arr')[0..asked']
        BY <1>1, FenwickKeeps
  <2>2. n' \in Nat \ {0} /\ arr' \in [0..(n' - 1) -> Int] /\ asked' \in 0..(n' - 1)
        BY <2>1 DEF FenwickInv, FenwickTypes
  <2> DEFINE S == 0..(n' - 1)
  <2>3. IsFiniteSet(S) /\ arr' \in [S -> Int]
    <3>1. 0 \in Int /\ n' - 1 \in Int
          BY <2>2
    <3> QED
        BY <2>2, <3>1, FS_Interval
  <2>4. 0..asked' \in SUBSET S
    <3>1. \A N \in Nat \ {0} : \A hi \in 0..(N - 1) : 0..hi \in SUBSET (0..(N - 1))
          OBVIOUS
    <3> QED
        BY <2>2, <3>1, Zenon
  <2> HIDE DEF S
  <2>5. MapThenSumSet(LAMBDA k : arr'[k], 0..asked') = Sums(arr')[0..asked']
        BY <2>3, <2>4, SumsOfSet
  <2> QED
      BY <2>1, <2>5
<1>2. FenwickInv /\ [FenwickNext]_fenwickVars =>
         FenwickInv' /\ [fenwickPc = "get" /\ fenwickPc' = "idle" =>
                            sum' = MapThenSumSet(LAMBDA k : arr'[k], 0..asked')]_fenwickVars
      BY <1>1, FenwickKeeps
<1> QED
    BY <1>2, FenwickStarts, PTL DEF FenwickSpec, SumsReturned

\* Both loops make headway at every turn.
THEOREM FenwickLoopsAdvance == FenwickSpec => LoopsAdvance
<1>1. FenwickInv /\ [FenwickNext]_fenwickVars =>
         FenwickInv' /\ [/\ fenwickPc = "get" /\ fenwickPc' = "get" => index' < index
                         /\ fenwickPc = "update" /\ fenwickPc' = "update" =>
                               index < index' /\ index <= n]_fenwickVars
      BY FenwickKeeps
<1> QED
    BY <1>1, FenwickStarts, PTL DEF FenwickSpec, LoopsAdvance
=============================================================================
