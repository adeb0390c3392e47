--------------------------- MODULE ParticleFilter ---------------------------
(***************************************************************************)
(* StochasticVolatilityModel of stoch-vola: a call of particleFilter or of *)
(* logLikelihood.  A turn of their loop is two steps: the particles of     *)
(* time t-1 are moved on to time t and weighed by the observation, and     *)
(* then resampled.                                                         *)
(*                                                                         *)
(* A particle's number is the sequence of noises it was computed from.     *)
(* What floating point makes of the parameters and the observation is      *)
(* chosen: a standard deviation is 0 (exp has underflowed) or not, and a   *)
(* density is 0, positive, infinite or not a number.                       *)
(*                                                                         *)
(* std::discrete_distribution draws columns of positive weight.  Weights   *)
(* that are not numbers break its contract; libstdc++'s search then always *)
(* ends at column 0.                                                       *)
(***************************************************************************)
EXTENDS Particles

CONSTANTS
    Counts,          \* nParticles
    Observations,    \* y.size()
    Seed,            \* seed
    UintBits         \* the bits of an unsigned int

ASSUME FilterAssumption ==
    /\ Counts \subseteq Nat \ {0}
    /\ Observations \subseteq Nat
    /\ UintBits \in Nat

VARIABLES
    fun,           \* which of the two functions is called
    nParticles, T,
    sigma,         \* 0 if exp(sigma_) has underflowed, or 1
    filterPc,      \* "start", "loop", "resample", "returned", or why it threw
    particles, loopSeed, t,
    likelihoods,   \* the densities of the observation, by particle
    logLikeSum,    \* the kind of number it is
    result

callVars == <<fun, nParticles, T, sigma>>
filterVars == <<callVars, filterPc, particles, loopSeed, t, likelihoods, logLikeSum, result>>

NoResult == [class |-> "none"]

\* f is called with n particles and obs observations.
FilterStart(f, n, obs, s) ==
    /\ fun = f
    /\ nParticles = n
    /\ T = obs
    /\ sigma = s
    /\ filterPc = "start"
    /\ particles = NoResult
    /\ loopSeed = 0 /\ t = 0
    /\ likelihoods = <<>>
    /\ logLikeSum = "finite"
    /\ result = NoResult

FilterInit ==
    \E f \in {"particleFilter", "logLikelihood"}, n \in Counts, obs \in Observations,
       s \in {0, 1} : FilterStart(f, n, obs, s)

Cols == 0..(nParticles - 1)

-----------------------------------------------------------------------------
(* Numbers, by their kind                                                  *)

\* A density with its logarithm, which may be finite where exp is not.
Densities ==
    {<<"finite", "zero">>, <<"finite", "positive">>, <<"finite", "inf">>,
     <<"-inf", "zero">>, <<"nan", "nan">>}

\* A sum of numbers, none of them inf.
LogSum(kinds) ==
    IF "nan" \in kinds THEN "nan" ELSE IF "-inf" \in kinds THEN "-inf" ELSE "finite"

\* lSum, the sum of densities.  (One that overflows counts as one with an
\* infinite density: the weights are not numbers either way.)
DensitySum(likes) ==
    LET kinds == {likes[col] : col \in DOMAIN likes}
    IN  IF "nan" \in kinds THEN "nan"
        ELSE IF "inf" \in kinds THEN "inf"
        ELSE IF "positive" \in kinds THEN "positive" ELSE "zero"

\* logLikeSum / (T * nParticles), a product of unsigned ints.
MeanLogLike ==
    IF (T * nParticles) % 2 ^ UintBits # 0 \/ logLikeSum # "finite" THEN logLikeSum
    ELSE IF T = 0 THEN "nan" ELSE "inf"

-----------------------------------------------------------------------------
(* The steps                                                               *)

\* The particles at time 0; the constructor of the distribution may throw.
Construct ==
    /\ filterPc = "start"
    /\ LET dist == MakeConstantVector(sigma, nParticles)
       IN  IF dist.what = "value"
           THEN /\ particles' = FromVectorNormal(dist.value, T + 1, Seed).value
                /\ loopSeed' = Seed /\ t' = 1
                /\ filterPc' = "loop"
           ELSE /\ filterPc' = "sigma"
                /\ UNCHANGED <<particles, loopSeed, t>>
    /\ UNCHANGED <<callVars, likelihoods, logLikeSum, result>>

\* mu + phi * (latest - mu) + noise
Moved(latest, noise) == [col \in DOMAIN latest |-> Append(latest[col], noise[col])]

\* The particles at time t are appended: appendParticles throws if there is no
\* row left for them.
AppendMoved ==
    LET noise == VectorSample(MakeConstantVector(sigma, nParticles).value, loopSeed).value
        moved == Moved(GetLatestParticles(particles).value, noise)
        appended == AppendParticles(particles, moved, nParticles)
    IN  IF appended.what = "value"
        THEN particles' = appended.value /\ filterPc' = "resample"
        ELSE filterPc' = "append" /\ UNCHANGED particles

\* A particle for which exp(x / 2) is 0 makes IndependentVectorNormal throw
\* before anything is appended.
Propagate ==
    /\ filterPc = "loop"
    /\ t <= T
    /\ \E stds \in [1..nParticles -> {0, 1}] :
          IF MakeVector(nParticles, stds).what = "value"
          THEN \E densities \in [Cols -> Densities] :
                  /\ likelihoods' = [col \in Cols |-> densities[col][2]]
                  /\ logLikeSum' = IF fun = "logLikelihood"
                                   THEN LogSum({densities[col][1] : col \in Cols} \cup {logLikeSum})
                                   ELSE logLikeSum
                  /\ AppendMoved
          ELSE filterPc' = "stds" /\ UNCHANGED <<particles, likelihoods, logLikeSum>>
    /\ UNCHANGED <<callVars, loopSeed, t, result>>

\* Mutant of Resamples: the degenerate case is not avoided.
ResamplesAlways == TRUE

\* Only particleFilter looks at lSum > 0.0.
Resamples == fun = "particleFilter" => DensitySum(likelihoods) \in {"positive", "inf"}

\* The columns that std::discrete_distribution may return: infinite or missing
\* sums make weights that are not numbers.
Drawable(likes) ==
    IF DensitySum(likes) = "positive" THEN {col \in DOMAIN likes : likes[col] = "positive"}
    ELSE {0}

Resample ==
    /\ filterPc = "resample"
    /\ IF Resamples
       THEN \E from \in [Cols -> Drawable(likelihoods)] :
               particles' = ResampleParticles(particles, from, nParticles).value
       ELSE UNCHANGED particles
    /\ t' = t + 1
    /\ filterPc' = "loop"
    /\ likelihoods' = <<>>
    /\ UNCHANGED <<callVars, loopSeed, logLikeSum, result>>

\* getParticlesWithoutInit throws if there were no observations.
Return ==
    /\ filterPc = "loop"
    /\ t > T
    /\ LET without == GetParticlesWithoutInit(particles)
       IN  CASE fun = "logLikelihood" ->
                  /\ result' = [class |-> "double", kind |-> MeanLogLike]
                  /\ filterPc' = "returned"
             [] fun = "particleFilter" /\ without.what = "value" ->
                  result' = without.value /\ filterPc' = "returned"
             [] OTHER -> filterPc' = "no init" /\ UNCHANGED result
    /\ UNCHANGED <<callVars, particles, loopSeed, t, likelihoods, logLikeSum>>

FilterNext == Construct \/ Propagate \/ Resample \/ Return

FilterSpec == FilterInit /\ [][FilterNext]_filterVars

-----------------------------------------------------------------------------
(* Properties                                                              *)

\* Up to row last, a column holds one particle's numbers in the order of time,
\* each computed from the one above it, the first from `born' noises.
Whole(p, last, born) ==
    \A row \in 0..last, col \in Cols :
       /\ Len(p.particles[row][col]) = row + born
       /\ row > 0 => p.particles[row - 1][col] = SubSeq(p.particles[row][col], 1, row + born - 1)

\* Every column is the trace of one particle from time 0, or in the result
\* from time 1, to now: moving on reads the row that was resampled last, and
\* resampling never parts a number from its past.
TracesWhole ==
    /\ particles # NoResult => Whole(particles, particles.currentRow, 1)
    /\ result.class = "Particles" => Whole(result, T - 1, 2)

\* A call that gets past its first constructor ends, and appendParticles never
\* runs out of rows: it returns the particles of the times 1..T, or a number,
\* unless a standard deviation underflows, or there is no observation.
FilterReturns ==
    filterPc = "loop" ~>
       \/ /\ filterPc = "returned"
          /\ result.class = "Particles" => result.particleLength = T
       \/ filterPc = "stds"
       \/ filterPc = "no init" /\ T = 0

\* While the densities have a finite positive sum, resampling drops every
\* trace whose particle the observation rules out; when they have none,
\* particleFilter keeps all traces as they are.
SurvivorsLikely ==
    [][filterPc = "resample" /\ filterPc' = "loop" =>
         /\ DensitySum(likelihoods) = "positive" =>
               \A col \in Cols : \E old \in Cols :
                  likelihoods[old] = "positive" /\ Trace(particles', col) = Trace(particles, old)
         /\ fun = "particleFilter" /\ DensitySum(likelihoods) \in {"zero", "nan"} =>
               particles' = particles]_filterVars
=============================================================================
