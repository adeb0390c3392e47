-------------------------- MODULE StochVolaClient --------------------------
(***************************************************************************)
(* A program that uses the classes of stoch-vola's statistics directly, as *)
(* its unit tests do: it holds one object, makes a new one or calls any    *)
(* public member of the one it has, up to MaxCalls calls.  A call that is  *)
(* out of range ends the program.                                          *)
(***************************************************************************)
EXTENDS Particles, TLC

CONSTANTS
    Sizes,       \* lengths of vectors, numbers of particles and of rows
    StdDevs,     \* standard deviations
    Seeds,
    MaxCalls     \* bound: calls of the program

ASSUME ClientAssumption ==
    /\ Sizes \subseteq Nat \ {0}
    /\ StdDevs \subseteq Int
    /\ MaxCalls \in Nat

VARIABLES
    obj,         \* the object
    answer,      \* what the last call returned, by its name, or threw
    calls

clientVars == <<obj, answer, calls>>

Nothing == [class |-> "none"]

ClientInit ==
    /\ obj = Nothing
    /\ answer = Nothing
    /\ calls = 0

Call == calls < MaxCalls /\ answer # OutOfRange /\ calls' = calls + 1

\* A call that makes or changes the object, unless it throws.
Become(result) ==
    /\ obj' = IF result.what = "value" THEN result.value ELSE obj
    /\ answer' = IF result.what = "value" THEN Nothing ELSE result

\* A call that only returns something.
Answer(name, result) ==
    /\ answer' = IF result.what = "value" THEN name :> result.value ELSE result
    /\ UNCHANGED obj

-----------------------------------------------------------------------------
NormalCall ==
    LET Holds == obj.class = "NormalDistribution"
    IN  \/ \E s \in StdDevs : Become(MakeNormal(0, s))
        \/ Holds /\ \E mean \in {0, 1} : Become(Returned(SetMean(obj, mean)))
        \/ Holds /\ \E s \in StdDevs : Become(Returned(SetStdDev(obj, s)))
        \/ Holds /\ Answer("pdf", Returned(Pdf(obj)))
        \/ Holds /\ Answer("logLikelihood", Returned(LogLikelihood(obj)))
        \/ /\ Holds
           /\ \E n \in Sizes, seed \in Seeds :
                 /\ answer' = "sample" :> NormalSample(obj, n, seed)
                 /\ obj' = AfterSample(obj, n, seed)

StdVectors == UNION {[1..n -> StdDevs] : n \in Sizes}

VectorCall ==
    LET Holds == obj.class = "IndependentVectorNormal"
    IN  \/ \E n \in Sizes, s \in StdVectors : Become(MakeVector(n, s))
        \/ \E n \in Sizes, s \in StdDevs : Become(MakeConstantVector(s, n))
        \/ Holds /\ \E n \in Sizes : Become(Returned(SetMeans(obj, n)))
        \/ Holds /\ \E s \in StdVectors : Become(SetStdDevs(obj, s))
        \/ Holds /\ \E n \in Sizes : Answer("densities", DensitiesAt(obj, n))
        \/ Holds /\ Answer("densities", DensitiesAtOne(obj))
        \/ Holds /\ \E n \in Sizes : Answer("densities", ColWiseDensities(obj, n))
        \/ Holds /\ \E seed \in Seeds : Answer("samples", VectorSample(obj, seed))

-----------------------------------------------------------------------------
\* New numbers, different in every column and from all earlier ones.
Fresh(count) == [col \in 0..(count - 1) |-> << <<calls, col>> >>]

\* The caller's function, as the numbers it computes tell of it.
Function == <<-2, 0>>

MakeParticles ==
    \E length \in Sizes :
        \/ \E count \in Sizes :
              Become(Returned(FromVector(Fresh(count), count, length)))
        \/ /\ obj.class = "NormalDistribution"
           /\ \E count \in Sizes, seed \in Seeds :
                 Become(Returned(FromNormal(obj, count, length, seed)))
        \/ /\ obj.class = "IndependentVectorNormal"
           /\ \E seed \in Seeds : Become(FromVectorNormal(obj, length, seed))
        \/ \E rows, count \in Sizes :
              Become(FromMatrix([row \in 0..(rows - 1) |-> Fresh(count)], rows, count, length))
        \/ \E rows, count \in Sizes :
              Become(FromTraces([col \in 0..(count - 1) |->
                        [row \in 0..(rows - 1) |-> Fresh(count)[col]]], count, rows, length))

ParticlesCall ==
    /\ obj.class = "Particles"
    /\ \/ \E count \in Sizes : Become(AppendParticles(obj, Fresh(count), count))
       \/ \E count \in Sizes : \E from \in [0..(obj.particleCount - 1) -> 0..(obj.particleCount - 1)] :
             Become(ResampleParticles(obj, from, count))
       \/ Become(Returned(ApplyTransformation(obj, Function)))
       \/ Become(GetParticlesWithoutInit(obj))
       \/ Answer("latest", GetLatestParticles(obj))
       \/ Answer("reduced", Returned(ReduceParticles(obj, Function)))
       \/ Answer("reduced by trace", Returned(ReduceTraces(obj, Function)))
       \/ Answer("equal", Returned(Equal(obj, FromVector(obj.particles[0], obj.particleCount,
                                                obj.particleLength))))

ClientNext == Call /\ (NormalCall \/ VectorCall \/ MakeParticles \/ ParticlesCall)

ClientSpec == ClientInit /\ [][ClientNext]_clientVars

-----------------------------------------------------------------------------
(* Properties                                                              *)

\* What a NormalDistribution samples depends on its parameters and the seed
\* alone, not on what was sampled before from the generator it keeps: Particles
\* made from the distribution equal those made from such a sample.
SamplesReproducible ==
    obj.class = "NormalDistribution" =>
       \A n, length \in Sizes, seed \in Seeds :
          LET again == [obj EXCEPT !.generator = Generator(0, 0)]
          IN  Equal(FromNormal(obj, n, length, seed),
                    FromVector(Cells(NormalSample(again, n, seed)), n, length))

\* A particle has one past: whichever way the object was made and whatever
\* was called since, two columns that agree in a row which the object counts
\* as filled agree in every row before it.  (currentRow_ may be behind the
\* last row of the matrix: the constructor from traces can put it there.)
OnePast ==
    obj.class = "Particles" =>
       \A row \in 0..obj.currentRow, c, d \in 0..(obj.particleCount - 1) :
          row < obj.particleLength /\ obj.particles[row][c] = obj.particles[row][d] =>
             \A before \in 0..row : obj.particles[before][c] = obj.particles[before][d]
=============================================================================
