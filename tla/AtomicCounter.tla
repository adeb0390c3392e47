---------------------------- MODULE AtomicCounter ----------------------------
(***************************************************************************)
(* What a counter behind a spin lock promises: every thread adds 1 in a    *)
(* single step, Rounds times, and the program prints the value it has when *)
(* all are through.                                                        *)
(***************************************************************************)
EXTENDS Integers

CONSTANTS Threads, Rounds, NotYet

VARIABLES value, left, printed

Init ==
    /\ value = 0
    /\ left = [t \in Threads |-> Rounds]
    /\ printed = NotYet

Increment(t) ==
    /\ left[t] > 0
    /\ value' = value + 1
    /\ left' = [left EXCEPT ![t] = @ - 1]
    /\ UNCHANGED printed

Report ==
    /\ \A t \in Threads : left[t] = 0
    /\ printed = NotYet
    /\ printed' = value
    /\ UNCHANGED <<value, left>>

Next == (\E t \in Threads : Increment(t)) \/ Report

Spec == Init /\ [][Next]_<<value, left, printed>>
=============================================================================
