---------------------------- MODULE MCCppPrograms ----------------------------
(***************************************************************************)
(* The sequential C++ programs for TLC.  A behaviour is a run of one of    *)
(* them, and the others stay where they start, so that their states add up *)
(* and do not multiply.                                                    *)
(***************************************************************************)
EXTENDS ParticleFilter, StochVolaClient, UtilFuns, FenwickTree, MinStackQueue

VARIABLE program

allVars == <<program, filterVars, clientVars, utilVars, fenwickVars, minVars>>

FilterIdle == FilterStart("particleFilter", 1, 0, 1)
FenwickIdle == FenwickStart(1, [k \in {0} |-> 0])
MinIdle == MinStart("queue", <<>>, 0)

Init ==
    \/ program = "filter" /\ FilterInit /\ ClientInit /\ UtilInit /\ FenwickIdle /\ MinIdle
    \/ program = "client" /\ FilterIdle /\ ClientInit /\ UtilInit /\ FenwickIdle /\ MinIdle
    \/ program = "util" /\ FilterIdle /\ ClientInit /\ UtilInit /\ FenwickIdle /\ MinIdle
    \/ program = "fenwick" /\ FilterIdle /\ ClientInit /\ UtilInit /\ FenwickInit /\ MinIdle
    \/ program = "minimum" /\ FilterIdle /\ ClientInit /\ UtilInit /\ FenwickIdle /\ MinInit

InFilter(A) == program = "filter" /\ A /\ UNCHANGED <<program, clientVars, utilVars, fenwickVars, minVars>>
InClient(A) == program = "client" /\ A /\ UNCHANGED <<program, filterVars, utilVars, fenwickVars, minVars>>
InUtil(A) == program = "util" /\ A /\ UNCHANGED <<program, filterVars, clientVars, fenwickVars, minVars>>
InFenwick(A) == program = "fenwick" /\ A /\ UNCHANGED <<program, filterVars, clientVars, utilVars, minVars>>
InMinimum(A) == program = "minimum" /\ A /\ UNCHANGED <<program, filterVars, clientVars, utilVars, fenwickVars>>

Next ==
    \/ InFilter(FilterNext)
    \/ InClient(ClientNext)
    \/ InUtil(UtilNext)
    \/ InFenwick(FenwickNext)
    \/ InMinimum(MinNext)

Spec == Init /\ [][Next]_allVars

\* A call that has begun runs on; nobody has to call.
FairSpec == Spec /\ WF_allVars(InFilter(FilterNext)) /\ WF_allVars(InFenwick(FenwickLoops))

-----------------------------------------------------------------------------
(* The instances                                                           *)

\* All lines of up to four words.
MCLines == UNION {[1..k -> {1, 2, 3, Word}] : k \in 0..4}

\* Doubles with three significant bits, in quarters, and all vectors of up to
\* four of the numbers -1, 2 and 6.  In this arithmetic 6 + 6 + 6 is rounded.
MCDoubles == UNION {{k * 2 ^ e, -k * 2 ^ e} : k \in 0..7, e \in 0..7}

MCSamples == UNION {[1..k -> {-4, 8, 24}] : k \in 0..4}

MCStdDevs == {-1, 0, 1}

MCDdofs == {-1, 0, 1, 2, 3, 5}

MCSummands == {-1, 2}

\* Quarters, and one below and one above what is allowed.
MCQuantiles == -1..5
=============================================================================
