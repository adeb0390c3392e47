---------------------------- MODULE FenwickTree ----------------------------
(***************************************************************************)
(* The Fenwick tree of c++/fenwick_tree: an array of n numbers kept as     *)
(* sums over ranges, so that update_tree and get_sum take a step per bit   *)
(* of the index.  Each turn of their loops is a step.  main builds a tree  *)
(* and asks for one sum; here further updates and sums may follow.         *)
(***************************************************************************)
EXTENDS Integers, FiniteSetsExt

CONSTANTS
    MaxLength,     \* the longest array
    Summands,      \* its elements
    MaxUpdates     \* bound: updates after the construction

ASSUME FenwickAssumption ==
    /\ MaxLength \in Nat
    /\ Summands \subseteq Int
    /\ MaxUpdates \in Nat

VARIABLES
    n, arr,         \* the array (n), and what its elements are by now (arr)
    fenwickTree,    \* fenwick_tree
    fenwickPc,      \* "construct", "update", "get" or "idle"
    built,          \* i of construct_tree's loop
    index, val,     \* update_tree's and get_sum's index, update_tree's val
    sum, asked,     \* get_sum's sum, and the index it was called with
    updates

fenwickVars ==
    <<n, arr, fenwickTree, fenwickPc, built, index, val, sum, asked, updates>>

FenwickStart(length, array) ==
    /\ n = length
    /\ arr = array
    /\ fenwickTree = [k \in 0..length |-> 0]
    /\ fenwickPc = "construct"
    /\ built = 0
    /\ index = 0 /\ val = 0
    /\ sum = 0 /\ asked = 0
    /\ updates = 0

FenwickInit ==
    \E length \in 1..MaxLength : \E array \in [0..(length - 1) -> Summands] :
        FenwickStart(length, array)

\* Mutant of LowBit: the largest power of two that is not greater.
LowBitHighest(k) == Max({p \in {2 ^ j : j \in 0..k} : p <= k})

\* k & (-k), the least number of which k is an odd multiple.
LowBit(k) == Min({p \in 1..k : \E m \in 0..k : k = (2 * m + 1) * p})

\* construct_tree: update_tree for every element.
ConstructNext ==
    /\ fenwickPc = "construct"
    /\ IF built < n
       THEN /\ index' = built + 1 /\ val' = arr[built]
            /\ built' = built + 1
            /\ fenwickPc' = "update"
       ELSE /\ fenwickPc' = "idle"
            /\ UNCHANGED <<index, val, built>>
    /\ UNCHANGED <<n, arr, fenwickTree, sum, asked, updates>>

\* The caller of update_tree goes on.
UpdateStep ==
    /\ fenwickPc = "update"
    /\ IF index <= n
       THEN /\ fenwickTree' = [fenwickTree EXCEPT ![index] = @ + val]
            /\ index' = index + LowBit(index)
            /\ UNCHANGED fenwickPc
       ELSE /\ fenwickPc' = IF updates = 0 THEN "construct" ELSE "idle"
            /\ UNCHANGED <<fenwickTree, index>>
    /\ UNCHANGED <<n, arr, built, val, sum, asked, updates>>

CallUpdate(i, v) ==
    /\ fenwickPc = "idle"
    /\ updates < MaxUpdates /\ updates' = updates + 1
    /\ arr' = [arr EXCEPT ![i] = @ + v]
    /\ index' = i + 1 /\ val' = v
    /\ fenwickPc' = "update"
    /\ UNCHANGED <<n, fenwickTree, built, sum, asked>>

CallGetSum(i) ==
    /\ fenwickPc = "idle"
    /\ sum' = 0 /\ asked' = i
    /\ index' = i + 1
    /\ fenwickPc' = "get"
    /\ UNCHANGED <<n, arr, fenwickTree, built, val, updates>>

GetStep ==
    /\ fenwickPc = "get"
    /\ IF index > 0
       THEN /\ sum' = sum + fenwickTree[index]
            /\ index' = index - LowBit(index)
            /\ UNCHANGED fenwickPc
       ELSE /\ fenwickPc' = "idle"
            /\ UNCHANGED <<sum, index>>
    /\ UNCHANGED <<n, arr, fenwickTree, built, val, asked, updates>>

FenwickCall ==
    \E i \in 0..(n - 1) :
        CallGetSum(i) \/ \E v \in Summands : CallUpdate(i, v)

FenwickLoops == ConstructNext \/ UpdateStep \/ GetStep

FenwickNext == FenwickCall \/ FenwickLoops

FenwickSpec == FenwickInit /\ [][FenwickNext]_fenwickVars

-----------------------------------------------------------------------------
(* Properties                                                              *)

\* get_sum ends, and what it returns is the sum of the elements up to the
\* index it was asked for, after the construction and after any updates.
SumsAnswered ==
    \A i \in 0..(MaxLength - 1) :
        fenwickPc = "get" /\ asked = i
            ~> /\ fenwickPc = "idle" /\ asked = i
               /\ sum = MapThenSumSet(LAMBDA k : arr[k], 0..i)
=============================================================================
