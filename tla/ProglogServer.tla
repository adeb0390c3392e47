---------------------------- MODULE ProglogServer ----------------------------
(***************************************************************************)
(* The HTTP server of distributed-services-with-go/proglog and the log it  *)
(* keeps in memory (internal/server/http.go and log.go).  Each request is  *)
(* handled by a goroutine of its own; the log has a mutex.  The response   *)
(* may not reach the client, which then cannot know what became of its     *)
(* request and may send it again.                                          *)
(***************************************************************************)
EXTENDS Integers, Sequences, FiniteSets

CONSTANTS
    Clients,       \* each has at most one request in flight
    Values,        \* record values
    Nobody,        \* the mutex is free
    Malformed,     \* a body that json does not decode
    MaxRequests    \* bound: requests sent

ASSUME ServerAssumption ==
    /\ Nobody \notin Clients
    /\ Malformed \notin Values
    /\ MaxRequests \in Nat

VARIABLES
    records,    \* Log.records
    mu,         \* Log.mu
    call,       \* each client's request and where its handler is
    produced,   \* what clients know: offset -> value, from the responses they got
    consumed,   \* the last response to a Consume, and what was known of its offset
    requests    \* requests sent

vars == <<records, mu, call, produced, consumed, requests>>

None == [pc |-> "none"]
NothingConsumed == [known |-> {}]

Init ==
    /\ records = <<>>
    /\ mu = Nobody
    /\ call = [c \in Clients |-> None]
    /\ produced = {}
    /\ consumed = NothingConsumed
    /\ requests = 0

-----------------------------------------------------------------------------
(* Clients                                                                 *)

Send(c, request) ==
    /\ call[c].pc = "none"
    /\ requests < MaxRequests
    /\ requests' = requests + 1
    /\ call' = [call EXCEPT ![c] = request]
    /\ UNCHANGED <<records, mu, produced, consumed>>

\* A record is sent with an offset of the client's own making, which Append
\* overwrites.
SendProduce(c, value, offset) ==
    Send(c, [pc |-> "produce", record |-> [value |-> value, offset |-> offset]])

SendConsume(c, offset) ==
    Send(c, [pc |-> "consume", offset |-> offset])

-----------------------------------------------------------------------------
(* The handlers and the log                                                *)

Undecodable(request) ==
    \/ request.pc = "produce" /\ request.record.value = Malformed
    \/ request.pc = "consume" /\ request.offset = Malformed

\* The decoder's error, in both handlers: 400.
BadRequest(c) ==
    /\ Undecodable(call[c])
    /\ call' = [call EXCEPT ![c] = [pc |-> "respond", kind |-> "none", status |-> 400]]
    /\ UNCHANGED <<records, mu, produced, consumed, requests>>

\* Mutant of Lock: the mutex is not waited for.
LockAnyway(c) == mu' = c

Lock(c) == mu = Nobody /\ mu' = c

\* handleProduce calls Append, which takes the length as the offset ...
AppendOffset(c) ==
    /\ call[c].pc = "produce"
    /\ ~Undecodable(call[c])
    /\ Lock(c)
    /\ call' = [call EXCEPT ![c].pc = "append", ![c].record.offset = Len(records)]
    /\ UNCHANGED <<records, produced, consumed, requests>>

\* Mutant of AppendRecord: the mutex is not given back.
AppendRecordLocked(c) ==
    /\ call[c].pc = "append"
    /\ records' = Append(records, call[c].record)
    /\ UNCHANGED mu
    /\ call' = [call EXCEPT ![c] = [pc |-> "respond", kind |-> "produce", status |-> 200,
                                    offset |-> call[c].record.offset, value |-> call[c].record.value]]
    /\ UNCHANGED <<produced, consumed, requests>>

\* ... and appends the record.
AppendRecord(c) ==
    /\ call[c].pc = "append"
    /\ records' = Append(records, call[c].record)
    /\ mu' = Nobody
    /\ call' = [call EXCEPT ![c] = [pc |-> "respond", kind |-> "produce", status |-> 200,
                                    offset |-> call[c].record.offset, value |-> call[c].record.value]]
    /\ UNCHANGED <<produced, consumed, requests>>

\* Mutant of Looked: the last record cannot be read.
LookedShort(offset) ==
    IF offset + 1 >= Len(records)
    THEN [status |-> 404]
    ELSE [status |-> 200, record |-> records[offset + 1]]

\* Log.Read
Looked(offset) ==
    IF offset >= Len(records)
    THEN [status |-> 404]
    ELSE [status |-> 200, record |-> records[offset + 1]]

\* handleConsume: one step under the mutex.  What the clients knew when the
\* log was read is kept with the answer.
Consume(c) ==
    /\ call[c].pc = "consume"
    /\ ~Undecodable(call[c])
    /\ mu = Nobody
    /\ call' = [call EXCEPT ![c] = [pc |-> "respond", kind |-> "consume",
                                    offset |-> call[c].offset, answer |-> Looked(call[c].offset),
                                    known |-> {a \in produced : a.offset = call[c].offset}]]
    /\ UNCHANGED <<records, mu, produced, consumed, requests>>

\* The response reaches the client, or is lost.
Respond(c) ==
    /\ call[c].pc = "respond"
    /\ call' = [call EXCEPT ![c] = None]
    /\ produced' = IF call[c].kind = "produce" /\ call[c].status = 200
                   THEN produced \cup {[offset |-> call[c].offset, value |-> call[c].value]}
                   ELSE produced
    /\ consumed' = IF call[c].kind = "consume"
                   THEN [answer |-> call[c].answer, known |-> call[c].known]
                   ELSE consumed
    /\ UNCHANGED <<records, mu, requests>>

LoseResponse(c) ==
    /\ call[c].pc = "respond"
    /\ call' = [call EXCEPT ![c] = None]
    /\ UNCHANGED <<records, mu, produced, consumed, requests>>

Handler(c) ==
    BadRequest(c) \/ AppendOffset(c) \/ AppendRecord(c) \/ Consume(c) \/ Respond(c) \/ LoseResponse(c)

Next ==
    \E c \in Clients :
        \/ Handler(c)
        \/ \E offset \in (0..MaxRequests) \cup {Malformed} : SendConsume(c, offset)
        \/ \E value \in Values \cup {Malformed}, offset \in {0, 1} : SendProduce(c, value, offset)

Spec == Init /\ [][Next]_vars

\* Handlers run, and sync.Mutex does not starve a goroutine.
FairSpec ==
    Spec /\ \A c \in Clients : WF_vars(Handler(c)) /\ SF_vars(AppendOffset(c)) /\ SF_vars(Consume(c))

-----------------------------------------------------------------------------
(* Properties                                                              *)

\* What the client of a call has asked the log for, or has been answered.
\* Append takes effect when the record is appended, not with its offset.
Asked(k) ==
    CASE k.pc = "none" -> [want |-> "nothing"]
      [] Undecodable(k) -> [want |-> "unclear"]
      [] k.pc \in {"produce", "append"} /\ ~Undecodable(k) ->
            [want |-> "append", value |-> k.record.value]
      [] k.pc = "consume" /\ ~Undecodable(k) -> [want |-> "read", offset |-> k.offset]
      [] k.pc = "respond" /\ k.kind = "none" -> [want |-> "refused"]
      [] k.pc = "respond" /\ k.kind = "produce" -> [want |-> "appended", offset |-> k.offset]
      [] k.pc = "respond" /\ k.kind = "consume" ->
            IF k.answer.status = 200
            THEN [want |-> "found", offset |-> k.answer.record.offset,
                  value |-> k.answer.record.value]
            ELSE [want |-> "missing"]

AtomicRequests ==
    {[want |-> "unclear"]}
      \cup {[want |-> "append", value |-> value] : value \in Values}
      \cup {[want |-> "read", offset |-> offset] : offset \in 0..MaxRequests}

Atomic ==
    INSTANCE AtomicLog
    WITH Requests <- AtomicRequests,
         log <- [i \in DOMAIN records |-> records[i].value],
         asked <- [c \in Clients |-> Asked(call[c])]

\* However the handlers interleave and whatever offset the clients put in,
\* the answers are those of a log that does one request after another: an
\* appended record is where the response says, and the record that is read
\* carries the offset it was asked for.
ImplementsLog == Atomic!Spec

\* A client that reads an offset some client was told before the log was read
\* finds that record: it is not 404 and not another value.
ConsumeFinds ==
    \A a \in consumed.known :
        consumed.answer.status = 200 /\ consumed.answer.record.value = a.value

\* Every request is answered.
Answered == \A c \in Clients : call[c].pc # "none" ~> call[c].pc = "none"
=============================================================================
