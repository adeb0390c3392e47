------------------------- MODULE NormalDistribution -------------------------
(***************************************************************************)
(* NormalDistribution and IndependentVectorNormal of stoch-vola.           *)
(*                                                                         *)
(* Parameters are integers, which is enough for the sign of a standard     *)
(* deviation; a vector of means is only its length.  A random number is    *)
(* <<seed, k>>, the k-th that a generator gives after seed(seed), and a    *)
(* density is only told apart by what kind of double it is.                *)
(*                                                                         *)
(* Vectors of different lengths in one expression are out of range: Eigen  *)
(* stops the program, or in a release build reads what is not there.       *)
(***************************************************************************)
EXTENDS Integers, Sequences

Returned(v) == [what |-> "value", value |-> v]
InvalidArgument == [what |-> "invalid_argument"]
OutOfRange == [what |-> "out of range"]

-----------------------------------------------------------------------------
(* NormalDistribution                                                      *)

Generator(seed, drawn) == [seed |-> seed, drawn |-> drawn]

\* generator_ starts with mt19937's own seed, 5489.
MakeNormal(mean, stdDev) ==
    IF stdDev <= 0 THEN InvalidArgument
    ELSE Returned([class |-> "NormalDistribution", mean |-> mean, stdDev |-> stdDev,
                   generator |-> Generator(5489, 0)])

SetMean(d, mean) == [d EXCEPT !.mean = mean]

\* No check here.
SetStdDev(d, stdDev) == [d EXCEPT !.stdDev = stdDev]

\* With standard deviation 0 it is 0 * infinity or 0 / 0.
Pdf(d) ==
    CASE d.stdDev > 0 -> "density"
      [] d.stdDev = 0 -> "nan"
      [] d.stdDev < 0 -> "negative"

LogLikelihood(d) == IF d.stdDev > 0 THEN "finite" ELSE "nan"

SetSeed(d, seed) == [d EXCEPT !.generator = Generator(seed, 0)]

\* Mutant of Seeded: the generator goes on where it was.
SeededOnce(d, seed) == IF d.generator.seed = seed THEN d ELSE SetSeed(d, seed)

\* sample begins with setSeed, on the mutable generator_.
Seeded(d, seed) == SetSeed(d, seed)

\* The n numbers that sample returns.
NormalSample(d, n, seed) ==
    LET from == Seeded(d, seed).generator
    IN  [i \in 0..(n - 1) |-> <<from.seed, from.drawn + i + 1>>]

\* The distribution after it: generator_ has moved on.
AfterSample(d, n, seed) ==
    [Seeded(d, seed) EXCEPT !.generator.drawn = @ + n]

-----------------------------------------------------------------------------
(* IndependentVectorNormal                                                 *)

Vector(nMeans, stdDevs) ==
    [class |-> "IndependentVectorNormal", nMeans |-> nMeans, stdDevs |-> stdDevs]

\* minCoeff of no elements is out of range.
NotPositive(stdDevs) == \E i \in DOMAIN stdDevs : stdDevs[i] <= 0

MakeVector(nMeans, stdDevs) ==
    IF nMeans # Len(stdDevs) THEN InvalidArgument
    ELSE IF stdDevs = <<>> THEN OutOfRange
    ELSE IF NotPositive(stdDevs) THEN InvalidArgument
    ELSE Returned(Vector(nMeans, stdDevs))

\* The constructor from one mean, one standard deviation and a length.
MakeConstantVector(stdDev, n) == MakeVector(n, [i \in 1..n |-> stdDev])

\* No check against the standard deviations here.
SetMeans(d, nMeans) == [d EXCEPT !.nMeans = nMeans]

\* Nor against the means here.
SetStdDevs(d, stdDevs) ==
    IF stdDevs = <<>> THEN OutOfRange
    ELSE IF NotPositive(stdDevs) THEN InvalidArgument
    ELSE Returned([d EXCEPT !.stdDevs = stdDevs])

Fitting(d) == d.nMeans = Len(d.stdDevs)

\* pdfs and logLikelihoods of a vector of nX numbers.
DensitiesAt(d, nX) ==
    IF nX # d.nMeans THEN InvalidArgument
    ELSE IF ~Fitting(d) THEN OutOfRange
    ELSE Returned("densities")

\* pdfs and logLikelihoods of one number.
DensitiesAtOne(d) == IF Fitting(d) THEN Returned("densities") ELSE OutOfRange

\* colWiseLogLikelihoods of a matrix of nRows rows.
ColWiseDensities(d, nRows) ==
    IF nRows # d.nMeans \/ ~Fitting(d) THEN OutOfRange ELSE Returned("densities")

\* A generator of its own for every call.
VectorSample(d, seed) ==
    IF Fitting(d) THEN Returned([i \in 0..(d.nMeans - 1) |-> <<seed, i + 1>>])
    ELSE OutOfRange
=============================================================================
