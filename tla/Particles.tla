----------------------------- MODULE Particles -----------------------------
(***************************************************************************)
(* class Particles of stoch-vola: a matrix whose columns are the traces of *)
(* the particles and whose rows are the times, with the row that was       *)
(* filled last.                                                            *)
(*                                                                         *)
(* A number in the matrix is the sequence of what it was computed from, so *)
(* Zero is the empty sequence.  A vector is a function on 0..count-1.      *)
(* Resampling copies columns of random index: which ones is a parameter,   *)
(* so generator_, which is seeded before each use, is not part of the      *)
(* object.                                                                 *)
(***************************************************************************)
EXTENDS NormalDistribution

Zero == <<>>

\* Read from behind the end of a std::vector.
Garbage == << <<-1, 0>> >>

Zeros(count) == [col \in 0..(count - 1) |-> Zero]

ParticlesOf(count, length, row, cells) ==
    [class |-> "Particles", particleCount |-> count, particleLength |-> length,
     currentRow |-> row, particles |-> cells]

\* The constructors from a std::vector and from an Eigen::VectorXd.
FromVector(v, count, length) ==
    ParticlesOf(count, length, 0,
        [row \in 0..(length - 1) |-> IF row = 0 THEN v ELSE Zeros(count)])

Cells(numbers) == [i \in DOMAIN numbers |-> <<numbers[i]>>]

\* From nParticles samples of a NormalDistribution.
FromNormal(d, nParticles, length, seed) ==
    FromVector(Cells(NormalSample(d, nParticles, seed)), nParticles, length)

\* From a sample of an IndependentVectorNormal.
FromVectorNormal(d, length, seed) ==
    LET samples == VectorSample(d, seed)
    IN  IF samples.what = "value"
        THEN Returned(FromVector(Cells(samples.value), d.nMeans, length))
        ELSE samples

\* From the nRows rows of a matrix.
FromMatrix(rows, nRows, count, length) ==
    IF nRows > length THEN InvalidArgument
    ELSE Returned(ParticlesOf(count, length, 0,
             [row \in 0..(length - 1) |-> IF row < nRows THEN rows[row] ELSE Zeros(count)]))

\* From nTraces vectors of nRows numbers.  The check is on the number of
\* traces, and all rows of the matrix are read, whatever nRows is.
FromTraces(traces, nTraces, nRows, length) ==
    IF nTraces > length THEN InvalidArgument
    ELSE Returned(ParticlesOf(nTraces, length, nRows - 1,
             [row \in 0..(length - 1) |-> [col \in 0..(nTraces - 1) |->
                 IF row < nRows THEN traces[col][row] ELSE Garbage]]))

\* operator==; currentRow_ is not compared.
Equal(p, other) ==
    /\ p.particleCount = other.particleCount
    /\ p.particleLength = other.particleLength
    /\ p.particles = other.particles

\* Rows that are not filled yet are transformed as well.
ApplyTransformation(p, func) ==
    [p EXCEPT !.particles =
        [row \in DOMAIN @ |-> [col \in DOMAIN @[row] |-> Append(@[row][col], func)]]]

\* The whole matrix, unfilled rows included: func of each row.
ReduceParticles(p, func) ==
    [row \in 0..(p.particleLength - 1) |-> <<func, p.particles[row]>>]

Trace(p, col) == [row \in 0..(p.particleLength - 1) |-> p.particles[row][col]]

\* func of each column.
ReduceTraces(p, func) == [col \in 0..(p.particleCount - 1) |-> <<func, Trace(p, col)>>]

\* Mutants of AppendParticles: the last row is never filled; the new row
\* replaces the current one.
AppendTooSoon(p, v, count) ==
    IF p.currentRow + 1 >= p.particleLength - 1 \/ count # p.particleCount
    THEN InvalidArgument
    ELSE Returned([p EXCEPT !.particles[p.currentRow + 1] = v, !.currentRow = @ + 1])

AppendInPlace(p, v, count) ==
    IF p.currentRow >= p.particleLength - 1 \/ count # p.particleCount
    THEN InvalidArgument
    ELSE Returned([p EXCEPT !.particles[p.currentRow] = v, !.currentRow = @ + 1])

AppendParticles(p, v, count) ==
    IF p.currentRow >= p.particleLength - 1 \/ count # p.particleCount
    THEN InvalidArgument
    ELSE Returned([p EXCEPT !.particles[p.currentRow + 1] = v, !.currentRow = @ + 1])

\* The vector constructor can leave currentRow_ behind the last row.
GetLatestParticles(p) ==
    IF p.currentRow < p.particleLength
    THEN Returned(p.particles[p.currentRow]) ELSE OutOfRange

\* Mutant of Resampled: only the latest row is.
ResampledLatest(p, from) ==
    [p EXCEPT !.particles[p.currentRow] = [col \in DOMAIN @ |-> @[from[col]]]]

\* Column col becomes a copy of column from[col].
Resampled(p, from) ==
    [p EXCEPT !.particles =
        [row \in DOMAIN @ |-> [col \in DOMAIN @[row] |-> @[row][from[col]]]]]

ResampleParticles(p, from, nWeights) ==
    IF nWeights # p.particleCount THEN InvalidArgument ELSE Returned(Resampled(p, from))

\* All rows but the first, through the constructor from a matrix.
GetParticlesWithoutInit(p) ==
    IF p.particleLength = 1 THEN InvalidArgument
    ELSE FromMatrix([row \in 0..(p.particleLength - 2) |-> p.particles[row + 1]],
                    p.particleLength - 1, p.particleCount, p.particleLength - 1)
=============================================================================
