--------------------------- MODULE MinStackQueue ---------------------------
(***************************************************************************)
(* The two programs of minimum_stack_and_queue: each reads a line of       *)
(* integers and prints the least.  main_queue keeps a monotone deque, the  *)
(* least at its front; main_stack pushes every number with the least so    *)
(* far.  `iss >> x' stops at the end of the line and at the first word     *)
(* that is no integer.                                                     *)
(***************************************************************************)
EXTENDS Integers, Sequences

CONSTANTS
    Numbers,    \* the integers a line may hold
    Word,       \* a word that is no int
    Lines,      \* the lines the programs are run on
    Crash       \* the stack's program ends without printing

ASSUME MinAssumption ==
    /\ Numbers \subseteq Int
    /\ Word \notin Int
    /\ Lines \subseteq Seq(Numbers \cup {Word})

VARIABLES
    line, pos,    \* iss: the line, and how much of it has been read
    minProgram,   \* which of the two programs runs
    x,            \* the number just read
    q, st,        \* the deque of numbers, the stack of <<number, minimum>>
    minPc,        \* "read", "pop" (the inner loop) or "done"
    minimum       \* what is printed

minVars == <<line, pos, minProgram, x, q, st, minPc, minimum>>

\* Program p is run on line l; the variable x is not initialized.
MinStart(p, l, x0) ==
    /\ line = l /\ pos = 0
    /\ minProgram = p
    /\ x = x0
    /\ q = <<>> /\ st = <<>>
    /\ minPc = "read"
    /\ minimum = Word

MinInit == \E p \in {"queue", "stack"}, l \in Lines, x0 \in Numbers : MinStart(p, l, x0)

\* iss >> x succeeds.
Extracts == pos < Len(line) /\ line[pos + 1] # Word

ReadNumber ==
    /\ minProgram = "queue" /\ minPc = "read"
    /\ Extracts
    /\ x' = line[pos + 1] /\ pos' = pos + 1
    /\ minPc' = "pop"
    /\ UNCHANGED <<line, minProgram, q, st, minimum>>

\* Mutant of Behind: the comparison the wrong way round.
BehindReversed == q # <<>> /\ q[Len(q)] < x

\* The last number of the deque can never be the minimum again.
Behind == q # <<>> /\ q[Len(q)] > x

PopBack ==
    /\ minPc = "pop"
    /\ Behind
    /\ q' = SubSeq(q, 1, Len(q) - 1)
    /\ UNCHANGED <<line, pos, minProgram, x, st, minPc, minimum>>

PushBack ==
    /\ minPc = "pop"
    /\ ~Behind
    /\ q' = Append(q, x)
    /\ minPc' = "read"
    /\ UNCHANGED <<line, pos, minProgram, x, st, minimum>>

NewMin(v) == IF st = <<>> \/ v < st[Len(st)][2] THEN v ELSE st[Len(st)][2]

PushPair ==
    /\ minProgram = "stack" /\ minPc = "read"
    /\ Extracts
    /\ x' = line[pos + 1] /\ pos' = pos + 1
    /\ st' = Append(st, <<x', NewMin(x')>>)
    /\ UNCHANGED <<line, minProgram, q, minPc, minimum>>

\* front() and top() of an empty container: the deque's first slot, which was
\* never written; for the stack the slot before it, in a block that was never
\* allocated.
PrintMinimum ==
    /\ minPc = "read"
    /\ ~Extracts
    /\ minPc' = "done"
    /\ \/ q # <<>> /\ minimum' = q[1]
       \/ st # <<>> /\ minimum' = st[Len(st)][2]
       \/ pos = 0 /\ minimum' \in Numbers
       \/ pos = 0 /\ minProgram = "stack" /\ minimum' = Crash
    /\ UNCHANGED <<line, pos, minProgram, x, q, st>>

MinNext == ReadNumber \/ PopBack \/ PushBack \/ PushPair \/ PrintMinimum

MinSpec == MinInit /\ [][MinNext]_minVars

-----------------------------------------------------------------------------
(* Properties                                                              *)

\* Both programs print the least of the integers before the first word that
\* is none, if there is one: what the inner loop of the queue pops is never
\* missed, and the stack's running minimum is the one of the whole line.
LeastPrinted ==
    minPc = "done" /\ pos > 0 =>
       /\ pos = Len(line) \/ line[pos + 1] = Word
       /\ \E i \in 1..pos : minimum = line[i]
       /\ \A i \in 1..pos : minimum <= line[i]
=============================================================================
