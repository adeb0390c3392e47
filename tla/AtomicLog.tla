------------------------------ MODULE AtomicLog ------------------------------
(***************************************************************************)
(* What a log that clients share promises: a request takes effect at one   *)
(* instant after it was asked, and its answer is that of this instant.  An *)
(* append is answered with the offset of the value, a read with the value  *)
(* at the offset or that there is none.                                    *)
(***************************************************************************)
EXTENDS Integers, Sequences

CONSTANTS
    Clients,
    Requests    \* what may be asked

VARIABLES
    log,        \* the values, at offsets 0 and up
    asked       \* what each client has asked, or has been answered

Nothing == [want |-> "nothing"]

Init ==
    /\ log = <<>>
    /\ asked = [c \in Clients |-> Nothing]

Ask(c) ==
    /\ asked[c] = Nothing
    /\ \E request \in Requests : asked' = [asked EXCEPT ![c] = request]
    /\ UNCHANGED log

Refuse(c) ==
    /\ asked[c].want = "unclear"
    /\ asked' = [asked EXCEPT ![c] = [want |-> "refused"]]
    /\ UNCHANGED log

DoAppend(c) ==
    /\ asked[c].want = "append"
    /\ log' = Append(log, asked[c].value)
    /\ asked' = [asked EXCEPT ![c] = [want |-> "appended", offset |-> Len(log)]]

Found(offset) ==
    IF offset < Len(log)
    THEN [want |-> "found", offset |-> offset, value |-> log[offset + 1]]
    ELSE [want |-> "missing"]

DoRead(c) ==
    /\ asked[c].want = "read"
    /\ asked' = [asked EXCEPT ![c] = Found(asked[c].offset)]
    /\ UNCHANGED log

Leave(c) ==
    /\ asked[c].want \in {"refused", "appended", "found", "missing"}
    /\ asked' = [asked EXCEPT ![c] = Nothing]
    /\ UNCHANGED log

Next == \E c \in Clients : Ask(c) \/ Refuse(c) \/ DoAppend(c) \/ DoRead(c) \/ Leave(c)

Spec == Init /\ [][Next]_<<log, asked>>
=============================================================================
