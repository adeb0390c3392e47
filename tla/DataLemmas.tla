----------------------------- MODULE DataLemmas -----------------------------
(***************************************************************************)
(* What folds and sorted sequences are, for every finite input.            *)
(*                                                                         *)
(* The folds of the community modules take the elements of a set out one   *)
(* by one, in the order CHOOSE makes.  Induction here is over a set of the *)
(* inputs for which a claim holds, that takes the place of a predicate:    *)
(* the least natural number, or a smallest subset, outside of the set      *)
(* would contradict the induction step.                                    *)
(***************************************************************************)
EXTENDS Integers, SequencesExt, SequenceTheorems, FunctionTheorems, FiniteSetTheorems,
        WellFoundedInduction, TLAPS

\* The element that a fold takes out of T.
Chosen(T) == CHOOSE x \in T : TRUE

\* h makes of an element of S and the value of the rest the next value.
FoldStep(h, S, V) == h \in [S \X V -> V]

\* g is the fold over every subset of S.
FoldOf(g, h, base, S, V) ==
    /\ g \in [SUBSET S -> V]
    /\ \A T \in SUBSET S :
          g[T] = IF T = {} THEN base ELSE h[<<Chosen(T), g[T \ {Chosen(T)}]>>]

\* The function that adds f up over the subsets of its domain.
Sums(f) ==
    CHOOSE g : g = [T \in SUBSET DOMAIN f |->
                      IF T = {} THEN 0 ELSE f[Chosen(T)] + g[T \ {Chosen(T)}]]

\* g adds f up over the subsets of S.
AddsUp(g, f, S) ==
    \A T \in SUBSET S :
       g[T] = IF T = {} THEN 0 ELSE g[T \ {Chosen(T)}] + f[Chosen(T)]

-----------------------------------------------------------------------------
(* Induction                                                               *)

\* A set of natural numbers that is not empty has a least one.
LEMMA LeastElement ==
    ASSUME NEW S \in SUBSET Nat, S # {}
    PROVE  \E n \in S : \A m \in S : n <= m
<1> DEFINE R == {ss \in Nat \X Nat : ss[1] < ss[2]}
<1>1. IsWellFoundedOn(R, Nat)
      BY NatLessThanWellFounded, Zenon DEF OpToRel
<1> HIDE DEF R
<1>2. \E x \in S : \A y \in S : ~(<<y, x>> \in R)
      BY <1>1, WFMin
<1>3. \A x, y \in S : ~(<<y, x>> \in R) => x <= y
      BY DEF R
<1> QED
    BY <1>2, <1>3

\* A set that has 0 and, with n, also n + 1 has all natural numbers.
LEMMA NatInductionInSet ==
    ASSUME NEW P, 0 \in P, \A n \in Nat : n \in P => n + 1 \in P
    PROVE  Nat \subseteq P
<1> SUFFICES ASSUME ~(Nat \subseteq P) PROVE FALSE
    OBVIOUS
<1>1. PICK n \in Nat \ P : \A m \in Nat \ P : n <= m
      BY LeastElement
<1>2. n - 1 \in Nat /\ n - 1 \in P
      BY <1>1
<1> QED
    BY <1>1, <1>2

\* A set that has {}, and has T whenever it has T without any one element,
\* has all the subsets of a finite set.
LEMMA SubsetInduction ==
    ASSUME NEW S, IsFiniteSet(S), NEW P, {} \in P,
           \A T \in SUBSET S : T # {} /\ (\A x \in T : T \ {x} \in P) => T \in P
    PROVE  SUBSET S \subseteq P
<1> DEFINE Bad == (SUBSET S) \ P
           Sizes == {Cardinality(T) : T \in Bad}
<1> SUFFICES ASSUME Bad # {} PROVE FALSE
    OBVIOUS
<1>1. \A T \in SUBSET S : IsFiniteSet(T) /\ Cardinality(T) \in Nat
      BY FS_Subset, FS_CardinalityType
<1>2. Sizes \in SUBSET Nat /\ Sizes # {}
      BY <1>1
<1>3. PICK n \in Sizes : \A m \in Sizes : n <= m
      BY <1>2, LeastElement
<1>4. PICK T \in Bad : Cardinality(T) = n
      BY <1>3
<1>5. T \in SUBSET S /\ T \notin P
      BY <1>4
<1>6. \A U \in SUBSET S : U \notin P => Cardinality(T) <= Cardinality(U)
      BY <1>3, <1>4
<1> HIDE DEF Bad, Sizes
<1>7. ASSUME NEW x \in T PROVE T \ {x} \in P
  <2>1. Cardinality(T \ {x}) = Cardinality(T) - 1
        BY <1>1, <1>5, FS_RemoveElement
  <2>2. T \ {x} \in SUBSET S /\ Cardinality(T) \in Nat
        BY <1>1, <1>5
  <2>3. ~(Cardinality(T) <= Cardinality(T \ {x}))
        BY <2>1, <2>2
  <2> QED
      BY <1>6, <2>2, <2>3
<1> QED
    BY <1>5, <1>7

\* The places of a sequence.
LEMMA SeqPlaces ==
    ASSUME NEW X, NEW s \in Seq(X)
    PROVE  /\ Len(s) \in Nat /\ DOMAIN s = 1..Len(s) /\ s \in [DOMAIN s -> X]
           /\ IsFiniteSet(DOMAIN s) /\ Cardinality(DOMAIN s) = Len(s)
<1> DEFINE n == Len(s)
<1>1. n \in Nat /\ DOMAIN s = 1..n /\ s \in [DOMAIN s -> X]
      BY LenProperties
<1> HIDE DEF n
<1>2. IsFiniteSet(1..n) /\ Cardinality(1..n) = IF 1 > n THEN 0 ELSE n - 1 + 1
  <2>1. 1 \in Int /\ n \in Int
        BY <1>1
  <2> QED
      BY <2>1, FS_Interval
<1>3. Cardinality(1..n) = n
      BY <1>1, <1>2
<1> QED
    BY <1>1, <1>2, <1>3 DEF n

-----------------------------------------------------------------------------
(* Folds                                                                   *)

\* Every fold over a finite set has a function that computes it.
LEMMA FoldExists ==
    ASSUME NEW S, IsFiniteSet(S), NEW V, NEW base \in V, NEW h, FoldStep(h, S, V)
    PROVE  \E g : FoldOf(g, h, base, S, V)
<1> USE DEF FoldStep, FoldOf
<1> DEFINE Small(n) == {T \in SUBSET S : Cardinality(T) <= n}
           Rest(T) == T \ {Chosen(T)}
           Fits(g, n) == \A T \in Small(n) :
                            g[T] = IF T = {} THEN base ELSE h[<<Chosen(T), g[Rest(T)]>>]
           P == {n \in Nat : \E g \in [Small(n) -> V] : Fits(g, n)}
<1>1. \A T \in SUBSET S : IsFiniteSet(T) /\ Cardinality(T) \in Nat
      BY FS_Subset, FS_CardinalityType
<1>2. \A T \in SUBSET S : T # {} =>
         Chosen(T) \in T /\ Rest(T) \in SUBSET S /\ Cardinality(Rest(T)) = Cardinality(T) - 1
      BY <1>1, FS_RemoveElement DEF Chosen
<1>3. 0 \in P
  <2>1. Small(0) = {{}}
        BY <1>1, FS_EmptySet
  <2>2. [T \in Small(0) |-> base] \in [Small(0) -> V] /\ Fits([T \in Small(0) |-> base], 0)
        BY <2>1
  <2> QED
      BY <2>2
<1>4. ASSUME NEW n \in Nat, n \in P PROVE n + 1 \in P
  <2>1. PICK g \in [Small(n) -> V] : Fits(g, n)
        BY <1>4
  <2> DEFINE k == [T \in Small(n + 1) |->
                     IF T = {} THEN base ELSE h[<<Chosen(T), g[Rest(T)]>>]]
  <2>2. \A T \in Small(n + 1) : T # {} => Rest(T) \in Small(n) /\ Chosen(T) \in S
        BY <1>1, <1>2
  <2>3. k \in [Small(n + 1) -> V]
        BY <2>2
  <2>4. \A T \in Small(n) : T \in Small(n + 1) /\ k[T] = g[T]
        BY <1>1, <2>1
  <2>5. Fits(k, n + 1)
    <3> SUFFICES ASSUME NEW T \in Small(n + 1), T # {}
                 PROVE  k[T] = h[<<Chosen(T), k[Rest(T)]>>]
        BY <2>3
    <3> QED
        BY <2>2, <2>4
  <2>6. \E f \in [Small(n + 1) -> V] : Fits(f, n + 1)
    <3> HIDE DEF Fits, k
    <3> QED
        BY <2>3, <2>5
  <2>7. n + 1 \in Nat
        OBVIOUS
  <2> HIDE DEF Small, Fits
  <2> QED
      BY <2>6, <2>7
<1>5. Nat \subseteq P
  <2> HIDE DEF P
  <2> QED
      BY <1>3, <1>4, NatInductionInSet
<1>6. Cardinality(S) \in Nat /\ Small(Cardinality(S)) = SUBSET S
      BY <1>1, FS_Subset
<1>7. PICK g \in [Small(Cardinality(S)) -> V] : Fits(g, Cardinality(S))
      BY <1>5, <1>6
<1> QED
    BY <1>6, <1>7

\* The sums of a function of numbers: nothing for the empty set, and otherwise
\* the chosen element's number and the sum of the rest.
LEMMA SumsChosen ==
    ASSUME NEW S, IsFiniteSet(S), NEW f \in [S -> Int]
    PROVE  /\ DOMAIN Sums(f) = SUBSET S
           /\ Sums(f) = [T \in SUBSET S |-> Sums(f)[T]]
           /\ \A T \in SUBSET S : Sums(f)[T] \in Int
           /\ Sums(f)[{}] = 0
           /\ \A T \in SUBSET S :
                 T # {} => Sums(f)[T] = f[Chosen(T)] + Sums(f)[T \ {Chosen(T)}]
<1> DEFINE Eq(g) == g = [T \in SUBSET S |->
                           IF T = {} THEN 0 ELSE f[Chosen(T)] + g[T \ {Chosen(T)}]]
           h == [p \in S \X Int |-> f[p[1]] + p[2]]
<1>1. h \in [S \X Int -> Int] /\ 0 \in Int
      OBVIOUS
<1>2. \A T \in SUBSET S : T # {} => Chosen(T) \in S /\ T \ {Chosen(T)} \in SUBSET S
      BY DEF Chosen
<1>3. PICK g : FoldOf(g, h, 0, S, Int)
  <2>1. FoldStep(h, S, Int)
        BY <1>1 DEF FoldStep
  <2> QED
      BY <1>1, <2>1, FoldExists
<1>4. \A T \in SUBSET S : T # {} =>
         h[<<Chosen(T), g[T \ {Chosen(T)}]>>] = f[Chosen(T)] + g[T \ {Chosen(T)}]
      BY <1>2, <1>3 DEF FoldOf
<1>5. Eq(g)
  <2> HIDE DEF h
  <2> QED
      BY <1>3, <1>4 DEF FoldOf
<1>6. Sums(f) = CHOOSE k : Eq(k)
      BY DEF Sums
<1>7. Eq(Sums(f))
  <2> HIDE DEF Eq
  <2> QED
      BY <1>5, <1>6
<1>8. /\ DOMAIN Sums(f) = SUBSET S
      /\ Sums(f) = [T \in SUBSET S |-> Sums(f)[T]]
      /\ Sums(f)[{}] = 0
      /\ \A T \in SUBSET S :
            T # {} => Sums(f)[T] = f[Chosen(T)] + Sums(f)[T \ {Chosen(T)}]
      BY <1>7
<1>9. SUBSET S \subseteq {T \in SUBSET S : Sums(f)[T] \in Int}
  <2> HIDE DEF Eq
  <2> DEFINE P == {T \in SUBSET S : Sums(f)[T] \in Int}
  <2>1. {} \in P
        BY <1>8
  <2>2. ASSUME NEW T \in SUBSET S, T # {}, \A y \in T : T \ {y} \in P PROVE T \in P
    <3>1. Sums(f)[T] = f[Chosen(T)] + Sums(f)[T \ {Chosen(T)}]
          BY <1>8, <2>2
    <3>2. Chosen(T) \in T /\ f[Chosen(T)] \in Int
          BY <1>2, <2>2 DEF Chosen
    <3>3. Sums(f)[T \ {Chosen(T)}] \in Int
          BY <2>2, <3>2
    <3>4. Sums(f)[T] \in Int
          BY <3>1, <3>2, <3>3
    <3> QED
        BY <3>4
  <2> HIDE DEF P
  <2>3. SUBSET S \subseteq P
        BY <2>1, <2>2, SubsetInduction
  <2> QED
      BY <2>3 DEF P
<1> QED
    BY <1>8, <1>9

\* Any element may be taken out of a sum first.
LEMMA SumsTakeOut ==
    ASSUME NEW S, IsFiniteSet(S), NEW f \in [S -> Int], NEW T \in SUBSET S, NEW x \in T
    PROVE  Sums(f)[T] = f[x] + Sums(f)[T \ {x}]
<1> DEFINE g == Sums(f)
           Out(U) == \A y \in U : g[U] = f[y] + g[U \ {y}]
           P == {U \in SUBSET S : Out(U)}
<1>1. /\ \A U \in SUBSET S : g[U] \in Int
      /\ \A U \in SUBSET S : U # {} => g[U] = f[Chosen(U)] + g[U \ {Chosen(U)}]
      BY SumsChosen
<1> HIDE DEF g
<1>2. {} \in P
      OBVIOUS
<1>3. ASSUME NEW U \in SUBSET S, U # {}, \A z \in U : U \ {z} \in P PROVE U \in P
  <2> SUFFICES ASSUME NEW y \in U PROVE g[U] = f[y] + g[U \ {y}]
      OBVIOUS
  <2>1. \A z \in U : Out(U \ {z})
        BY <1>3
  <2> HIDE DEF P
  <2>2. PICK c \in U : g[U] = f[c] + g[U \ {c}]
    <3>1. Chosen(U) \in U
          BY DEF Chosen
    <3> QED
        BY <1>1, <3>1
  <2>3. CASE y = c
        BY <2>2, <2>3
  <2>4. CASE y # c
    <3> DEFINE W == (U \ {c}) \ {y}
    <3>1. W = (U \ {y}) \ {c} /\ W \in SUBSET S
          OBVIOUS
    <3>2. g[U \ {c}] = f[y] + g[W] /\ g[U \ {y}] = f[c] + g[W]
          BY <2>1, <2>4, <3>1
    <3>3. g[W] \in Int /\ f[c] \in Int /\ f[y] \in Int
          BY <1>1, <3>1
    <3> HIDE DEF W
    <3>4. ASSUME NEW i \in Int, NEW j \in Int, NEW k \in Int PROVE i + (j + k) = j + (i + k)
          OBVIOUS
    <3> QED
        BY <2>2, <3>2, <3>3, <3>4
  <2> QED
      BY <2>3, <2>4
<1> HIDE DEF P
<1>4. SUBSET S \subseteq P
      BY <1>2, <1>3, SubsetInduction
<1> QED
    BY <1>4 DEF P, g

\* g lets any element be taken out of any subset first.
TakesOut(g, f, S) == \A T \in SUBSET S : \A x \in T : g[T] = f[x] + g[T \ {x}]

\* Sums do.
LEMMA SumsTakeOutAny ==
    ASSUME NEW S, IsFiniteSet(S), NEW f \in [S -> Int]
    PROVE  TakesOut(Sums(f), f, S)
<1> SUFFICES ASSUME NEW T \in SUBSET S, NEW x \in T PROVE Sums(f)[T] = f[x] + Sums(f)[T \ {x}]
    BY DEF TakesOut
<1>1. T \in SUBSET S /\ x \in T
      OBVIOUS
<1> QED
    BY <1>1, SumsTakeOut

\* The sum of two sets that have nothing in common.
LEMMA SumsDisjoint ==
    ASSUME NEW S, IsFiniteSet(S), NEW f \in [S -> Int],
           NEW A \in SUBSET S, NEW B \in SUBSET S, A \cap B = {}
    PROVE  Sums(f)[A \cup B] = Sums(f)[A] + Sums(f)[B]
<1> DEFINE g == Sums(f)
           Adds(U) == U \cap B = {} => g[U \cup B] = g[U] + g[B]
           P == {U \in SUBSET S : Adds(U)}
<1>1. /\ \A U \in SUBSET S : g[U] \in Int
      /\ g[{}] = 0
      BY SumsChosen
<1>2. \A U \in SUBSET S : \A y \in U : g[U] = f[y] + g[U \ {y}]
  <2> SUFFICES ASSUME NEW U \in SUBSET S, NEW y \in U PROVE g[U] = f[y] + g[U \ {y}]
      OBVIOUS
  <2>1. U \in SUBSET S /\ y \in U
        OBVIOUS
  <2> QED
      BY <2>1, SumsTakeOut
<1> HIDE DEF g
<1>3. {} \in P
  <2>1. {} \cup B = B /\ g[B] \in Int
        BY <1>1
  <2> QED
      BY <1>1, <2>1
<1>4. ASSUME NEW U \in SUBSET S, U # {}, \A z \in U : U \ {z} \in P PROVE U \in P
  <2> SUFFICES ASSUME U \cap B = {} PROVE g[U \cup B] = g[U] + g[B]
      OBVIOUS
  <2>1. \A z \in U : Adds(U \ {z})
        BY <1>4
  <2> HIDE DEF P
  <2>2. PICK y : y \in U
        BY <1>4
  <2>3. g[U] = f[y] + g[U \ {y}]
        BY <1>2, <2>2
  <2>4. g[U \cup B] = f[y] + g[(U \cup B) \ {y}]
    <3>1. U \cup B \in SUBSET S /\ y \in U \cup B
          BY <2>2
    <3> QED
        BY <1>2, <3>1
  <2>5. (U \cup B) \ {y} = (U \ {y}) \cup B
        BY <2>2
  <2>6. g[(U \ {y}) \cup B] = g[U \ {y}] + g[B]
        BY <2>1, <2>2
  <2>7. g[U \ {y}] \in Int /\ g[B] \in Int /\ f[y] \in Int
        BY <1>1, <2>2
  <2>8. ASSUME NEW i \in Int, NEW j \in Int, NEW k \in Int PROVE i + (j + k) = (i + j) + k
        OBVIOUS
  <2>9. g[U \cup B] = f[y] + (g[U \ {y}] + g[B])
        BY <2>4, <2>5, <2>6
  <2> QED
      BY <2>3, <2>7, <2>8, <2>9
<1> HIDE DEF P
<1>5. SUBSET S \subseteq P
      BY <1>3, <1>4, SubsetInduction
<1> QED
    BY <1>5 DEF P, g

\* A and B are the two parts of C, which is within S.
Parts(C, A, B, S) == A \in SUBSET S /\ B \in SUBSET S /\ A \cap B = {} /\ C = A \cup B

\* The sum of a set is that of its parts.
LEMMA SumsOfParts ==
    ASSUME NEW S, IsFiniteSet(S), NEW f \in [S -> Int], NEW A, NEW B, NEW C, Parts(C, A, B, S)
    PROVE  Sums(f)[C] = Sums(f)[A] + Sums(f)[B]
<1>1. A \in SUBSET S /\ B \in SUBSET S /\ A \cap B = {}
      BY DEF Parts
<1>2. Sums(f)[A \cup B] = Sums(f)[A] + Sums(f)[B]
      BY <1>1, SumsDisjoint
<1>3. C = A \cup B
      BY DEF Parts
<1> QED
    BY <1>2, <1>3, Zenon

\* The sums add up in either order ...
LEMMA SumsAddUp ==
    ASSUME NEW S, IsFiniteSet(S), NEW f \in [S -> Int]
    PROVE  Sums(f) = [T \in SUBSET S |->
                 IF T = {} THEN 0 ELSE Sums(f)[T \ {Chosen(T)}] + f[Chosen(T)]]
<1> DEFINE k == Sums(f)
<1>1. /\ k = [T \in SUBSET S |-> k[T]]
      /\ \A T \in SUBSET S : k[T] \in Int
      /\ k[{}] = 0
      /\ \A T \in SUBSET S : T # {} => k[T] = f[Chosen(T)] + k[T \ {Chosen(T)}]
      BY SumsChosen
<1> HIDE DEF k
<1>2. ASSUME NEW T \in SUBSET S, T # {}
      PROVE  k[T] = k[T \ {Chosen(T)}] + f[Chosen(T)]
  <2>1. Chosen(T) \in T
        BY <1>2 DEF Chosen
  <2>2. f[Chosen(T)] \in Int /\ k[T \ {Chosen(T)}] \in Int
        BY <1>1, <2>1
  <2>3. k[T] = f[Chosen(T)] + k[T \ {Chosen(T)}]
        BY <1>1, <1>2
  <2>4. \A i, j \in Int : i + j = j + i
        OBVIOUS
  <2> QED
      BY <2>2, <2>3, <2>4
<1>3. k = [T \in SUBSET S |-> IF T = {} THEN 0 ELSE k[T \ {Chosen(T)}] + f[Chosen(T)]]
      BY <1>1, <1>2
<1> QED
    BY <1>3 DEF k

\* ... and whatever adds up is the sums.
LEMMA SumsUnique ==
    ASSUME NEW S, IsFiniteSet(S), NEW f \in [S -> Int], NEW g, AddsUp(g, f, S)
    PROVE  \A T \in SUBSET S : g[T] = Sums(f)[T]
<1> DEFINE k == Sums(f)
<1>0. k = [T \in SUBSET S |-> IF T = {} THEN 0 ELSE k[T \ {Chosen(T)}] + f[Chosen(T)]]
      BY SumsAddUp
<1> HIDE DEF k
<1>1. \A T \in SUBSET S :
         k[T] = IF T = {} THEN 0 ELSE k[T \ {Chosen(T)}] + f[Chosen(T)]
      BY <1>0
<1> DEFINE P == {T \in SUBSET S : g[T] = k[T]}
<1>2. {} \in P
      BY <1>1 DEF AddsUp
<1>3. ASSUME NEW T \in SUBSET S, T # {}, \A y \in T : T \ {y} \in P PROVE T \in P
  <2>1. Chosen(T) \in T
        BY <1>3 DEF Chosen
  <2> QED
      BY <1>1, <1>3, <2>1 DEF AddsUp
<1> HIDE DEF P
<1>4. SUBSET S \subseteq P
      BY <1>2, <1>3, SubsetInduction
<1> QED
    BY <1>4 DEF P, k

\* The sum that MapThenSumSet makes of a part of the numbers.
LEMMA SumsOfSet ==
    ASSUME NEW S, IsFiniteSet(S), NEW f \in [S -> Int], NEW D \in SUBSET S
    PROVE  MapThenSumSet(LAMBDA x : f[x], D) = Sums(f)[D]
<1> DEFINE Eq(g) == g = [T \in SUBSET D |->
                           IF T = {} THEN 0 ELSE f[Chosen(T)] + g[T \ {Chosen(T)}]]
           g0 == CHOOSE g : Eq(g)
           k == [T \in SUBSET D |-> Sums(f)[T]]
<1>1. MapThenSumSet(LAMBDA x : f[x], D) = g0[D]
      BY DEF MapThenSumSet, MapThenFoldSet, Chosen
<1>2. \A T \in SUBSET D : T # {} => Chosen(T) \in T /\ T \ {Chosen(T)} \in SUBSET D
      BY DEF Chosen
<1>3. /\ Sums(f)[{}] = 0
      /\ \A T \in SUBSET D : T # {} => Sums(f)[T] = f[Chosen(T)] + Sums(f)[T \ {Chosen(T)}]
  <2>1. /\ Sums(f)[{}] = 0
        /\ \A T \in SUBSET S : T # {} => Sums(f)[T] = f[Chosen(T)] + Sums(f)[T \ {Chosen(T)}]
        BY SumsChosen
  <2> QED
      BY <2>1
<1>4. Eq(k)
      BY <1>2, <1>3
<1>5. Eq(g0)
  <2> HIDE DEF Eq, k
  <2> QED
      BY <1>4
<1> HIDE DEF g0
<1>6. /\ g0[{}] = 0
      /\ \A T \in SUBSET D : T # {} => g0[T] = f[Chosen(T)] + g0[T \ {Chosen(T)}]
      BY <1>5
<1> HIDE DEF Eq, k
<1> DEFINE P == {T \in SUBSET D : g0[T] = Sums(f)[T]}
<1>7. {} \in P
      BY <1>3, <1>6
<1>8. ASSUME NEW T \in SUBSET D, T # {}, \A y \in T : T \ {y} \in P PROVE T \in P
      BY <1>2, <1>3, <1>6, <1>8
<1>9. IsFiniteSet(D)
      BY FS_Subset
<1> HIDE DEF P
<1>10. SUBSET D \subseteq P
      BY <1>7, <1>8, <1>9, SubsetInduction
<1> QED
    BY <1>1, <1>10 DEF P

\* f and h are the same but for x, where h has v more.
DifferAt(f, h, S, x, v) ==
    x \in S /\ h[x] = f[x] + v /\ \A y \in S \ {x} : h[y] = f[y]

\* Of the sums b and a of subsets of S, those with x have v more in b.
MoreWith(b, a, S, x, v) ==
    \A T \in SUBSET S : b[T] = a[T] + (IF x \in T THEN v ELSE 0)

\* Then the sums of the sets with x have v more.
LEMMA SumsOneChanged ==
    ASSUME NEW S, IsFiniteSet(S), NEW f \in [S -> Int], NEW h \in [S -> Int],
           NEW x, NEW v \in Int, DifferAt(f, h, S, x, v)
    PROVE  MoreWith(Sums(h), Sums(f), S, x, v)
<1> DEFINE Fits(U) == Sums(h)[U] = Sums(f)[U] + (IF x \in U THEN v ELSE 0)
           P == {U \in SUBSET S : Fits(U)}
           a == Sums(f)
           b == Sums(h)
<1>1. /\ a[{}] = 0 /\ b[{}] = 0
      /\ \A U \in SUBSET S : a[U] \in Int /\ b[U] \in Int
  <2>1. a[{}] = 0 /\ \A U \in SUBSET S : a[U] \in Int
        BY SumsChosen
  <2>2. b[{}] = 0 /\ \A U \in SUBSET S : b[U] \in Int
        BY SumsChosen
  <2> QED
      BY <2>1, <2>2
<1>2. TakesOut(a, f, S) /\ TakesOut(b, h, S)
      BY SumsTakeOutAny
<1> HIDE DEF a, b
<1>3. {} \in P
      BY <1>1 DEF a, b
<1>4. ASSUME NEW U \in SUBSET S, U # {}, \A y \in U : U \ {y} \in P PROVE U \in P
  <2>1. \A y \in U : /\ b[U \ {y}] = a[U \ {y}] + (IF x \in U \ {y} THEN v ELSE 0)
                     /\ a[U] = f[y] + a[U \ {y}] /\ b[U] = h[y] + b[U \ {y}]
                     /\ a[U \ {y}] \in Int /\ f[y] \in Int /\ h[y] \in Int
        BY <1>1, <1>2, <1>4 DEF TakesOut, a, b
  <2>2. CASE x \in U
    <3>1. b[U \ {x}] = a[U \ {x}] + 0 /\ h[x] = f[x] + v
          BY <2>1, <2>2 DEF DifferAt
    <3>2. a[U] = f[x] + a[U \ {x}] /\ b[U] = h[x] + b[U \ {x}] /\ a[U \ {x}] \in Int /\ f[x] \in Int
          BY <2>1, <2>2
    <3>3. b[U] = a[U] + v
          BY <3>1, <3>2
    <3> QED
        BY <2>2, <3>3 DEF a, b
  <2>3. CASE x \notin U
    <3>1. PICK y : y \in U
          BY <1>4
    <3>2. b[U \ {y}] = a[U \ {y}] + 0 /\ h[y] = f[y]
          BY <2>1, <2>3, <3>1 DEF DifferAt
    <3>3. a[U] = f[y] + a[U \ {y}] /\ b[U] = h[y] + b[U \ {y}] /\ a[U \ {y}] \in Int /\ f[y] \in Int
          BY <2>1, <3>1
    <3>4. b[U] = a[U] + 0
          BY <3>2, <3>3
    <3> QED
        BY <2>3, <3>4 DEF a, b
  <2> QED
      BY <2>2, <2>3
<1> HIDE DEF P
<1>5. SUBSET S \subseteq P
      BY <1>3, <1>4, SubsetInduction
<1>6. \A T \in SUBSET S : Fits(T)
      BY <1>5 DEF P
<1> QED
    BY <1>6 DEF MoreWith

-----------------------------------------------------------------------------
(* Order                                                                   *)

\* The pairs R order S, strictly and totally.
Orders(R, S) ==
    /\ \A x \in S : <<x, x>> \notin R
    /\ \A x, y, z \in S : <<x, y>> \in R /\ <<y, z>> \in R => <<x, z>> \in R
    /\ \A x, y \in S : x = y \/ <<x, y>> \in R \/ <<y, x>> \in R

Preceding(R, S, x) == {y \in S : <<y, x>> \in R}

\* How many elements of S come before x.
Rank(R, S, x) == Cardinality(Preceding(R, S, x))

\* An element that comes before another has the lower rank, and there is one
\* of every rank.
LEMMA Ranks ==
    ASSUME NEW S, IsFiniteSet(S), NEW R, Orders(R, S)
    PROVE  /\ Cardinality(S) \in Nat
           /\ \A x \in S : Rank(R, S, x) \in 0..(Cardinality(S) - 1)
           /\ \A x, y \in S : <<x, y>> \in R => Rank(R, S, x) < Rank(R, S, y)
           /\ \A k \in 0..(Cardinality(S) - 1) : \E x \in S : Rank(R, S, x) = k
<1>1. /\ Cardinality(S) \in Nat
      /\ \A T \in SUBSET S : /\ IsFiniteSet(T) /\ Cardinality(T) \in Nat
                             /\ Cardinality(T) <= Cardinality(S)
                             /\ Cardinality(S) = Cardinality(T) => S = T
      BY FS_Subset, FS_CardinalityType
<1>2. ASSUME NEW x \in S PROVE Rank(R, S, x) \in 0..(Cardinality(S) - 1)
  <2>1. Preceding(R, S, x) \in SUBSET S /\ Preceding(R, S, x) # S
        BY DEF Orders, Preceding
  <2>2. /\ Rank(R, S, x) \in Nat /\ Rank(R, S, x) <= Cardinality(S)
        /\ Rank(R, S, x) # Cardinality(S)
        BY <1>1, <2>1 DEF Rank
  <2> QED
      BY <1>1, <2>2
<1>3. ASSUME NEW x \in S, NEW y \in S, <<x, y>> \in R PROVE Rank(R, S, x) < Rank(R, S, y)
  <2> DEFINE A == Preceding(R, S, x)
             B == Preceding(R, S, y)
  <2>1. A \in SUBSET B /\ A # B /\ B \in SUBSET S /\ A \in SUBSET S
        BY <1>3 DEF Orders, Preceding
  <2> HIDE DEF A, B
  <2>2. Cardinality(A) \in Nat /\ Cardinality(B) \in Nat /\ IsFiniteSet(B)
        BY <1>1, <2>1
  <2>3. Cardinality(A) <= Cardinality(B) /\ Cardinality(A) # Cardinality(B)
        BY <2>1, <2>2, FS_Subset
  <2> QED
      BY <2>2, <2>3 DEF Rank, A, B
<1>4. \A k \in 0..(Cardinality(S) - 1) : \E x \in S : Rank(R, S, x) = k
  <2> DEFINE r == [x \in S |-> Rank(R, S, x)]
             T == 0..(Cardinality(S) - 1)
  <2>1. r \in [S -> T]
        BY <1>2
  <2>2. IsFiniteSet(T) /\ Cardinality(T) = Cardinality(S)
    <3> DEFINE m == Cardinality(S) - 1
    <3>1. 0 \in Int /\ m \in Int
          BY <1>1
    <3>2. IsFiniteSet(0..m) /\ Cardinality(0..m) = IF 0 > m THEN 0 ELSE m - 0 + 1
          BY <3>1, FS_Interval
    <3> QED
        BY <1>1, <3>2
  <2>3. ASSUME NEW x \in S, NEW y \in S, r[x] = r[y] PROVE x = y
    <3>1. Rank(R, S, x) = Rank(R, S, y) /\ Rank(R, S, x) \in Nat
          BY <1>2, <2>3
    <3>2. ~(<<x, y>> \in R) /\ ~(<<y, x>> \in R)
          BY <1>3, <3>1
    <3> QED
        BY <3>2 DEF Orders
  <2>4. r \in Injection(S, T)
    <3> HIDE DEF r, T
    <3> QED
        BY <2>1, <2>3, Fun_IsInj
  <2>5. r \in Surjection(S, T)
    <3> HIDE DEF r, T
    <3> QED
        BY <2>2, <2>4, FS_Injection
  <2>6. \A k \in T : \E x \in S : r[x] = k
    <3> HIDE DEF r, T
    <3> QED
        BY <2>5, Fun_SurjectionProperties
  <2> QED
      BY <2>6
<1> QED
    BY <1>1, <1>2, <1>3, <1>4

\* at has every element at the place its rank says.
RankedBy(R, S, at) ==
    /\ at \in [1..Cardinality(S) -> S]
    /\ \A k \in 1..Cardinality(S) : Rank(R, S, at[k]) = k - 1

\* It has each element, once.
LEMMA RankedOnce ==
    ASSUME NEW S, IsFiniteSet(S), NEW R, Orders(R, S), NEW at, RankedBy(R, S, at)
    PROVE  /\ Cardinality(S) \in Nat
           /\ \A j, k \in 1..Cardinality(S) : at[j] = at[k] => j = k
           /\ \A x \in S : \E k \in 1..Cardinality(S) : at[k] = x
<1> DEFINE n == Cardinality(S)
<1>1. /\ n \in Nat
      /\ \A x \in S : Rank(R, S, x) \in 0..(n - 1)
      /\ \A x, y \in S : <<x, y>> \in R => Rank(R, S, x) < Rank(R, S, y)
      BY Ranks
<1>2. /\ \A k \in 1..n : at[k] \in S
      /\ \A k \in 1..n : Rank(R, S, at[k]) = k - 1
      BY DEF RankedBy
<1> HIDE DEF n
<1>3. ASSUME NEW j \in 1..n, NEW k \in 1..n, at[j] = at[k] PROVE j = k
  <2>1. j - 1 = k - 1
        BY <1>2, <1>3
  <2> QED
      BY <1>1, <2>1
<1>4. ASSUME NEW x \in S PROVE \E k \in 1..n : at[k] = x
  <2> DEFINE r == Rank(R, S, x)
  <2>1. r \in 0..(n - 1)
        BY <1>1
  <2> HIDE DEF r
  <2>2. PICK k \in 1..n : k = r + 1
        BY <1>1, <2>1
  <2>3. at[k] \in S /\ Rank(R, S, at[k]) = r
    <3>1. k - 1 = r
          BY <2>1, <2>2
    <3> QED
        BY <1>2, <3>1
  <2>4. ~(r < r)
        BY <2>1
  <2>5. <<at[k], x>> \notin R /\ <<x, at[k]>> \notin R
        BY <1>1, <2>3, <2>4 DEF r
  <2>6. at[k] = x
        BY <2>3, <2>5 DEF Orders
  <2> QED
      BY <2>6
<1> QED
    BY <1>1, <1>3, <1>4 DEF n

-----------------------------------------------------------------------------
(* Sums of parts, and sums that wrap around                                *)

\* k has the numbers f gives to the values of e, which are all different.
Through(k, f, e, D) ==
    /\ k \in [D -> Int]
    /\ \A i, j \in D : e[i] = e[j] => i = j
    /\ \A i \in D : k[i] = f[e[i]]

ValuesOf(e, D) == {e[i] : i \in D}

\* The sum over the places of such a function is that over its values.
LEMMA SumsImage ==
    ASSUME NEW S, IsFiniteSet(S), NEW f \in [S -> Int],
           NEW D, IsFiniteSet(D), NEW e \in [D -> S], NEW k, Through(k, f, e, D)
    PROVE  Sums(k)[D] = Sums(f)[ValuesOf(e, D)]
<1>0. /\ k \in [D -> Int]
      /\ \A i, j \in D : e[i] = e[j] => i = j
      /\ \A i \in D : k[i] = f[e[i]]
      BY DEF Through
<1> DEFINE g == Sums(f)
           h == Sums(k)
           Im(T) == {e[i] : i \in T}
           P == {T \in SUBSET D : h[T] = g[Im(T)]}
<1>1. g[{}] = 0 /\ h[{}] = 0
      BY <1>0, SumsChosen
<1>2. TakesOut(h, k, D) /\ TakesOut(g, f, S)
      BY <1>0, SumsTakeOutAny
<1> HIDE DEF g, h
<1>3. {} \in P
  <2>1. Im({}) = {}
        OBVIOUS
  <2> QED
      BY <1>1, <2>1
<1>4. ASSUME NEW T \in SUBSET D, T # {}, \A i \in T : T \ {i} \in P PROVE T \in P
  <2>1. PICK i : i \in T
        BY <1>4
  <2>2. h[T \ {i}] = g[Im(T \ {i})]
        BY <1>4, <2>1
  <2>3. Im(T \ {i}) = Im(T) \ {e[i]}
        BY <1>0, <2>1
  <2>4. k[i] = f[e[i]]
        BY <1>0, <2>1
  <2>7. Im(T) \in SUBSET S /\ e[i] \in Im(T)
        BY <2>1
  <2> HIDE DEF Im
  <2>5. h[T] = k[i] + h[T \ {i}] /\ g[Im(T)] = f[e[i]] + g[Im(T) \ {e[i]}]
        BY <1>2, <2>1, <2>7 DEF TakesOut
  <2>6. h[T] = g[Im(T)]
        BY <2>2, <2>3, <2>4, <2>5
  <2> QED
      BY <2>6
<1> HIDE DEF P
<1>5. SUBSET D \subseteq P
      BY <1>3, <1>4, SubsetInduction
<1> QED
    BY <1>5 DEF P, g, h, ValuesOf

\* g adds f up over the subsets of S, with every addition taken modulo m.
AddsUpModulo(g, f, S, m) ==
    \A T \in SUBSET S :
       g[T] = IF T = {} THEN 0 ELSE (g[T \ {Chosen(T)}] + f[Chosen(T)]) % m

IsModulo(g, f, S, m) == \A T \in SUBSET S : g[T] = Sums(f)[T] % m

\* What is left when m is taken out as often as it goes.
LEMMA ModuloIs ==
    ASSUME NEW m \in Nat \ {0}, NEW a \in Int, NEW q \in Int, NEW r \in 0..(m - 1), a = m * q + r
    PROVE  a % m = r
<1> DEFINE u == a \div m
           w == a % m
<1>1. u \in Int /\ w \in 0..(m - 1) /\ a = m * u + w
      OBVIOUS
<1> HIDE DEF u, w
<1>2. ASSUME NEW x \in Int, NEW y \in Int, NEW s \in 0..(m - 1), NEW t \in 0..(m - 1),
             m * x + s = m * y + t, x < y
      PROVE  FALSE
  <2>1. m * (x + 1) <= m * y
    <3>1. \A c, d \in Int : c <= d => m * c <= m * d
          OBVIOUS
    <3> QED
        BY <1>2, <3>1
  <2>2. m * (x + 1) = m * x + m
        OBVIOUS
  <2>3. m * x \in Int /\ m * y \in Int
        OBVIOUS
  <2> QED
      BY <1>2, <2>1, <2>2, <2>3
<1>3. ~(u < q) /\ ~(q < u)
      BY <1>1, <1>2
<1>4. u = q
      BY <1>1, <1>3
<1>5. m * q \in Int
      OBVIOUS
<1>6. w = r
      BY <1>1, <1>4, <1>5
<1> QED
    BY <1>6 DEF w

\* It does not matter when the modulus is taken.
LEMMA ModuloLater ==
    ASSUME NEW a \in Int, NEW b \in Int, NEW m \in Nat \ {0}
    PROVE  /\ ((a % m) + b) % m = (a + b) % m
           /\ ((a % m) + (b % m)) % m = (a + b) % m
           /\ a % m \in Int
<1>1. ASSUME NEW c \in Int, NEW d \in Int PROVE (c + (d % m)) % m = (c + d) % m
  <2> DEFINE q == d \div m
             r == d % m
  <2>1. q \in Int /\ r \in Int /\ d = m * q + r
        OBVIOUS
  <2> HIDE DEF q, r
  <2>2. ASSUME NEW x \in Int, NEW y \in Int PROVE (x + m * y) % m = x % m
    <3> DEFINE k == x \div m
               t == x % m
    <3>1. k \in Int /\ t \in 0..(m - 1) /\ x = m * k + t
          OBVIOUS
    <3> HIDE DEF k, t
    <3>2. x + m * y = m * (k + y) + t /\ k + y \in Int /\ x + m * y \in Int
          BY <3>1
    <3>3. (x + m * y) % m = t
          BY <3>1, <3>2, ModuloIs
    <3> QED
        BY <3>3 DEF t
  <2>3. c + d = (c + r) + m * q /\ c + r \in Int
        BY <2>1
  <2>4. ((c + r) + m * q) % m = (c + r) % m
        BY <2>1, <2>2, <2>3
  <2> QED
      BY <2>3, <2>4 DEF r
<1>2. a % m \in Int /\ b % m \in Int
      OBVIOUS
<1>3. ((a % m) + (b % m)) % m = ((a % m) + b) % m
      BY <1>1, <1>2
<1>4. (a % m) + b = b + (a % m) /\ a + b = b + a
      BY <1>2
<1>5. (b + (a % m)) % m = (b + a) % m
      BY <1>1
<1> QED
    BY <1>2, <1>3, <1>4, <1>5

\* A sum that wraps around at every addition is the sum, wrapped around.
LEMMA SumsModulo ==
    ASSUME NEW S, IsFiniteSet(S), NEW f \in [S -> Int], NEW m \in Nat \ {0}
    PROVE  /\ AddsUpModulo([T \in SUBSET S |-> Sums(f)[T] % m], f, S, m)
           /\ \A g : AddsUpModulo(g, f, S, m) => IsModulo(g, f, S, m)
<1> DEFINE s == Sums(f)
<1>1. /\ s[{}] = 0
      /\ \A T \in SUBSET S : s[T] \in Int
      /\ \A T \in SUBSET S : T # {} => s[T] = f[Chosen(T)] + s[T \ {Chosen(T)}]
      BY SumsChosen
<1> HIDE DEF s
<1>2. ASSUME NEW T \in SUBSET S, T # {}
      PROVE  /\ Chosen(T) \in T /\ T \ {Chosen(T)} \in SUBSET S
             /\ s[T] % m = ((s[T \ {Chosen(T)}] % m) + f[Chosen(T)]) % m
  <2>1. Chosen(T) \in T
        BY <1>2 DEF Chosen
  <2> DEFINE a == s[T \ {Chosen(T)}]
             b == f[Chosen(T)]
  <2>2. a \in Int /\ b \in Int /\ s[T] = b + a
        BY <1>1, <1>2, <2>1
  <2> HIDE DEF a, b
  <2>3. s[T] = a + b
        BY <2>2
  <2>4. ((a % m) + b) % m = (a + b) % m
        BY <2>2, ModuloLater
  <2> QED
      BY <2>1, <2>3, <2>4 DEF a, b
<1>3. s[{}] % m = 0
      BY <1>1
<1>4. AddsUpModulo([T \in SUBSET S |-> s[T] % m], f, S, m)
  <2> DEFINE K == [T \in SUBSET S |-> s[T] % m]
  <2> SUFFICES ASSUME NEW T \in SUBSET S
               PROVE  K[T] = IF T = {} THEN 0 ELSE (K[T \ {Chosen(T)}] + f[Chosen(T)]) % m
      BY DEF AddsUpModulo
  <2>1. CASE T = {}
        BY <1>3, <2>1
  <2>2. CASE T # {}
        BY <1>2, <2>2
  <2> QED
      BY <2>1, <2>2
<1>5. ASSUME NEW g, AddsUpModulo(g, f, S, m) PROVE \A T \in SUBSET S : g[T] = s[T] % m
  <2> DEFINE P == {T \in SUBSET S : g[T] = s[T] % m}
  <2>1. {} \in P
        BY <1>3, <1>5 DEF AddsUpModulo
  <2>2. ASSUME NEW T \in SUBSET S, T # {}, \A y \in T : T \ {y} \in P PROVE T \in P
    <3>1. g[T \ {Chosen(T)}] = s[T \ {Chosen(T)}] % m
          BY <1>2, <2>2
    <3>2. g[T] = (g[T \ {Chosen(T)}] + f[Chosen(T)]) % m
          BY <1>5, <2>2 DEF AddsUpModulo
    <3> QED
        BY <1>2, <2>2, <3>1, <3>2
  <2> HIDE DEF P
  <2>3. SUBSET S \subseteq P
        BY <2>1, <2>2, SubsetInduction
  <2> QED
      BY <2>3 DEF P
<1> QED
    BY <1>4, <1>5 DEF s, IsModulo

\* k has, for every group, the sum of f over it, wrapped around; and the
\* groups have nothing in common.
Groups(group, S, k, f, N, m) ==
    /\ group \in [N -> SUBSET S]
    /\ \A i, j \in N : i # j => group[i] \cap group[j] = {}
    /\ k \in [N -> Int]
    /\ \A i \in N : k[i] = Sums(f)[group[i]] % m

\* Such sums of groups add up to the sum of all.
LEMMA SumsGrouped ==
    ASSUME NEW S, IsFiniteSet(S), NEW f \in [S -> Int], NEW N, IsFiniteSet(N),
           NEW m \in Nat \ {0}, NEW group, NEW k, Groups(group, S, k, f, N, m)
    PROVE  Sums(k)[N] % m = Sums(f)[UNION {group[i] : i \in N}] % m
<1>0. /\ group \in [N -> SUBSET S]
      /\ \A i, j \in N : i # j => group[i] \cap group[j] = {}
      /\ k \in [N -> Int]
      /\ \A i \in N : k[i] = Sums(f)[group[i]] % m
      BY DEF Groups
<1> DEFINE g == Sums(f)
           h == Sums(k)
           All(T) == UNION {group[i] : i \in T}
           P == {T \in SUBSET N : h[T] % m = g[All(T)] % m}
<1>1. /\ g[{}] = 0 /\ h[{}] = 0
      /\ \A A \in SUBSET S : g[A] \in Int
      /\ \A T \in SUBSET N : h[T] \in Int
      BY <1>0, SumsChosen
<1>2. ASSUME NEW A \in SUBSET S, NEW B \in SUBSET S, A \cap B = {}
      PROVE  g[A \cup B] = g[A] + g[B]
      BY <1>2, SumsDisjoint
<1>3. TakesOut(h, k, N)
      BY <1>0, SumsTakeOutAny
<1> HIDE DEF g, h
<1>4. {} \in P
  <2>1. All({}) = {}
        OBVIOUS
  <2> QED
      BY <1>1, <2>1
<1>5. ASSUME NEW T \in SUBSET N, T # {}, \A i \in T : T \ {i} \in P PROVE T \in P
  <2>1. PICK i : i \in T
        BY <1>5
  <2> DEFINE A == group[i]
             B == All(T \ {i})
             x == g[A]
             y == g[B]
             z == h[T \ {i}]
  <2>2. A \in SUBSET S /\ B \in SUBSET S /\ A \cap B = {} /\ All(T) = A \cup B
        BY <1>0, <2>1
  <2>3. h[T \ {i}] % m = y % m
        BY <1>5, <2>1
  <2>4. k[i] = x % m /\ i \in N
        BY <1>0, <2>1 DEF g
  <2> HIDE DEF All, A, B
  <2>5. g[All(T)] = x + y /\ x \in Int /\ y \in Int /\ z \in Int
        BY <1>1, <1>2, <2>2
  <2>6. h[T] = (x % m) + z
        BY <1>3, <2>1, <2>4 DEF TakesOut
  <2> HIDE DEF x, y, z
  <2>7. z % m = y % m
        BY <2>3 DEF z
  <2>8. ((x % m) + z) % m = (x + y) % m
    <3>1. x % m \in Int
          BY <2>5, ModuloLater
    <3>2. ((x % m) + z) % m = (x + z) % m
          BY <2>5, ModuloLater
    <3>3. ((x % m) + (z % m)) % m = (x + z) % m /\ ((x % m) + (y % m)) % m = (x + y) % m
          BY <2>5, ModuloLater
    <3> QED
        BY <2>7, <3>2, <3>3
  <2>9. h[T] % m = g[All(T)] % m
        BY <2>5, <2>6, <2>8
  <2> QED
      BY <2>9
<1> HIDE DEF P
<1>6. SUBSET N \subseteq P
      BY <1>4, <1>5, SubsetInduction
<1> QED
    BY <1>6 DEF P, g, h
=============================================================================
