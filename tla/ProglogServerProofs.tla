------------------------ MODULE ProglogServerProofs ------------------------
(***************************************************************************)
(* Proofs about the Proglog server, for any number of clients, values and  *)
(* requests.                                                               *)
(*                                                                         *)
(* The offset of a record is chosen a step before the record is appended,  *)
(* and a client learns of it later still.  Both are right in between       *)
(* because the handler that appends holds the mutex, and because what is   *)
(* in the log stays there.                                                 *)
(***************************************************************************)
EXTENDS ProglogServer, SequenceTheorems, TLAPS

Records == [value : Values, offset : Nat]

\* The log r has value v at offset o.
Holds(r, o, v) == o \in 0..(Len(r) - 1) /\ r[o + 1].value = v

\* The answer is that of a log which had what was known.
AnswerFits(answer, known) ==
    \A a \in known : answer.status = 200 /\ answer.record.value = a.value

\* The request k of client c, with log r and mutex m.
RequestOK(k, c, r, m) ==
    /\ k.pc \in {"none", "produce", "append", "consume", "respond"}
    /\ k.pc = "respond" => k.kind \in {"none", "produce", "consume"}
    /\ k.pc = "produce" => k \in [pc : {"produce"}, record : [value : Values \cup {Malformed}, offset : Nat]]
    /\ k.pc = "append" => k.record \in Records /\ k.record.offset = Len(r) /\ m = c
    /\ k.pc = "consume" => k.offset \in Nat \cup {Malformed}
    /\ k.pc = "respond" /\ k.kind = "produce" => Holds(r, k.offset, k.value)
    /\ k.pc = "respond" /\ k.kind = "consume" => AnswerFits(k.answer, k.known)

RequestsOK ==
    /\ call \in [Clients -> {call[c] : c \in Clients}]
    /\ \A c \in Clients : RequestOK(call[c], c, records, mu)

ProducedHeld == \A a \in produced : Holds(records, a.offset, a.value)

\* The record at an offset carries that offset, whatever the client put in.
OffsetsDense == \A i \in DOMAIN records : records[i].offset = i - 1

IInv ==
    /\ records \in Seq(Records)
    /\ RequestsOK
    /\ ProducedHeld
    /\ OffsetsDense
    /\ ConsumeFinds

USE ServerAssumption

-----------------------------------------------------------------------------
(* Lemmas                                                                  *)

\* Appending a record leaves what is there.
LEMMA Appended ==
    ASSUME NEW r \in Seq(Records), NEW e \in Records
    PROVE  /\ Append(r, e) \in Seq(Records)
           /\ Len(r) \in Nat /\ Len(Append(r, e)) = Len(r) + 1
           /\ \A i \in 1..Len(r) : Append(r, e)[i] = r[i]
           /\ Append(r, e)[Len(r) + 1] = e
           /\ Holds(Append(r, e), Len(r), e.value)
           /\ \A o, v : Holds(r, o, v) => Holds(Append(r, e), o, v)
<1>1. /\ Append(r, e) \in Seq(Records)
      /\ Len(r) \in Nat /\ Len(Append(r, e)) = Len(r) + 1
      /\ \A i \in 1..Len(r) : Append(r, e)[i] = r[i]
      /\ Append(r, e)[Len(r) + 1] = e
      BY AppendProperties, LenProperties
<1>2. Holds(Append(r, e), Len(r), e.value)
      BY <1>1 DEF Holds
<1>3. ASSUME NEW o, NEW v, Holds(r, o, v) PROVE Holds(Append(r, e), o, v)
  <2>1. o \in 0..(Len(Append(r, e)) - 1) /\ o + 1 \in 1..Len(r)
        BY <1>1, <1>3 DEF Holds
  <2> QED
      BY <1>1, <1>3, <2>1 DEF Holds
<1> QED
    BY <1>1, <1>2, <1>3

\* A request that only one client changes, while the log and the mutex stay.
LEMMA OneRequest ==
    ASSUME IInv, NEW c \in Clients, NEW k,
           call' = [call EXCEPT ![c] = k],
           UNCHANGED <<records, mu>>, RequestOK(k, c, records, mu)
    PROVE  RequestsOK'
<1>1. call \in [Clients -> {call[d] : d \in Clients}]
      BY DEF IInv, RequestsOK
<1>2. call'[c] = k /\ \A d \in Clients \ {c} : call'[d] = call[d]
      BY <1>1
<1>3. call' \in [Clients -> {call'[d] : d \in Clients}]
      BY <1>1
<1>4. ASSUME NEW d \in Clients PROVE RequestOK(call'[d], d, records, mu)
      BY <1>2 DEF IInv, RequestsOK
<1> QED
    BY <1>3, <1>4 DEF RequestsOK

-----------------------------------------------------------------------------
(* The steps                                                               *)

LEMMA InitIInv == Init => IInv
<1> SUFFICES ASSUME Init PROVE IInv
    OBVIOUS
<1>1. records \in Seq(Records) /\ records = <<>>
      BY DEF Init
<1>2. RequestsOK
      BY DEF Init, RequestsOK, RequestOK, None
<1> QED
    BY <1>1, <1>2 DEF Init, IInv, ProducedHeld, OffsetsDense, ConsumeFinds, NothingConsumed

LEMMA SendStep ==
    ASSUME IInv, NEW c \in Clients, NEW request, Send(c, request),
           RequestOK(request, c, records, mu)
    PROVE  IInv'
<1>1. RequestsOK'
      BY OneRequest DEF Send
<1> QED
    BY <1>1 DEF Send, IInv, ProducedHeld, OffsetsDense, ConsumeFinds

LEMMA SendsAreOK ==
    ASSUME IInv, NEW c \in Clients
    PROVE  /\ \A offset \in (0..MaxRequests) \cup {Malformed} : SendConsume(c, offset) => IInv'
           /\ \A value \in Values \cup {Malformed}, offset \in {0, 1} :
                 SendProduce(c, value, offset) => IInv'
<1>1. ASSUME NEW offset \in (0..MaxRequests) \cup {Malformed}, SendConsume(c, offset) PROVE IInv'
  <2>1. RequestOK([pc |-> "consume", offset |-> offset], c, records, mu)
        BY DEF RequestOK
  <2> QED
      BY <1>1, <2>1, SendStep DEF SendConsume
<1>2. ASSUME NEW value \in Values \cup {Malformed}, NEW offset \in {0, 1},
             SendProduce(c, value, offset)
      PROVE  IInv'
  <2>1. RequestOK([pc |-> "produce", record |-> [value |-> value, offset |-> offset]], c, records, mu)
        BY DEF RequestOK
  <2> QED
      BY <1>2, <2>1, SendStep DEF SendProduce
<1> QED
    BY <1>1, <1>2

LEMMA BadRequestStep ==
    ASSUME IInv, NEW c \in Clients, BadRequest(c)
    PROVE  IInv'
<1>1. RequestOK([pc |-> "respond", kind |-> "none", status |-> 400], c, records, mu)
      BY DEF RequestOK
<1>2. RequestsOK'
      BY <1>1, OneRequest DEF BadRequest
<1> QED
    BY <1>2 DEF BadRequest, IInv, ProducedHeld, OffsetsDense, ConsumeFinds

LEMMA AppendOffsetStep ==
    ASSUME IInv, NEW c \in Clients, AppendOffset(c)
    PROVE  IInv'
<1> DEFINE k == call[c]
           k2 == [pc |-> "append", record |-> [value |-> k.record.value, offset |-> Len(records)]]
<1>1. Len(records) \in Nat
      BY LenProperties DEF IInv
<1>2. k \in [pc : {"produce"}, record : [value : Values, offset : Nat]]
      BY DEF AppendOffset, Undecodable, IInv, RequestsOK, RequestOK
<1>3. call \in [Clients -> {call[d] : d \in Clients}]
      BY DEF IInv, RequestsOK
<1>4. /\ call'[c] = k2 /\ \A d \in Clients \ {c} : call'[d] = call[d]
      /\ call' \in [Clients -> {call'[d] : d \in Clients}]
      BY <1>2, <1>3 DEF AppendOffset
<1>5. mu = Nobody /\ mu' = c /\ records' = records
      BY DEF AppendOffset, Lock
<1>6. RequestOK(k2, c, records, c)
      BY <1>1, <1>2 DEF RequestOK, Records
<1>7. ASSUME NEW d \in Clients \ {c} PROVE RequestOK(call[d], d, records, c)
  <2>1. call[d].pc # "append"
        BY <1>5 DEF IInv, RequestsOK, RequestOK
  <2> QED
      BY <2>1 DEF IInv, RequestsOK, RequestOK
<1>8. RequestsOK'
      BY <1>4, <1>5, <1>6, <1>7 DEF RequestsOK
<1> QED
    BY <1>5, <1>8 DEF AppendOffset, IInv, ProducedHeld, OffsetsDense, ConsumeFinds

LEMMA AppendRecordStep ==
    ASSUME IInv, NEW c \in Clients, AppendRecord(c)
    PROVE  IInv'
<1> DEFINE e == call[c].record
           k2 == [pc |-> "respond", kind |-> "produce", status |-> 200,
                  offset |-> e.offset, value |-> e.value]
<1>1. records \in Seq(Records) /\ e \in Records /\ e.offset = Len(records) /\ mu = c
      BY DEF AppendRecord, IInv, RequestsOK, RequestOK
<1>2. records' = Append(records, e)
      BY DEF AppendRecord
<1> HIDE DEF e
<1>3. /\ records' \in Seq(Records)
      /\ Len(records) \in Nat /\ Len(records') = Len(records) + 1
      /\ \A i \in 1..Len(records) : records'[i] = records[i]
      /\ records'[Len(records) + 1] = e
      /\ Holds(records', e.offset, e.value)
      /\ \A o, v : Holds(records, o, v) => Holds(records', o, v)
      BY <1>1, <1>2, Appended
<1>4. call \in [Clients -> {call[d] : d \in Clients}]
      BY DEF IInv, RequestsOK
<1>5. /\ call'[c] = k2 /\ \A d \in Clients \ {c} : call'[d] = call[d]
      /\ call' \in [Clients -> {call'[d] : d \in Clients}]
      BY <1>4 DEF AppendRecord, e
<1>6. RequestOK(call'[c], c, records', mu')
      BY <1>3, <1>5 DEF RequestOK
<1>7. ASSUME NEW d \in Clients \ {c} PROVE RequestOK(call'[d], d, records', mu')
  <2>1. call[d].pc # "append"
        BY <1>1 DEF IInv, RequestsOK, RequestOK
  <2> QED
      BY <2>1, <1>3, <1>5 DEF IInv, RequestsOK, RequestOK
<1>8. RequestsOK'
      BY <1>5, <1>6, <1>7 DEF RequestsOK
<1>9. OffsetsDense'
  <2> SUFFICES ASSUME NEW i \in 1..(Len(records) + 1) PROVE records'[i].offset = i - 1
      BY <1>3 DEF OffsetsDense
  <2>1. CASE i \in 1..Len(records)
        BY <2>1, <1>1, <1>3 DEF IInv, OffsetsDense
  <2>2. CASE i = Len(records) + 1
        BY <2>2, <1>1, <1>3
  <2> QED
      BY <2>1, <2>2, <1>3
<1>10. ProducedHeld'
      BY <1>3 DEF AppendRecord, IInv, ProducedHeld
<1> QED
    BY <1>3, <1>8, <1>9, <1>10 DEF AppendRecord, IInv, ConsumeFinds

LEMMA ConsumeStep ==
    ASSUME IInv, NEW c \in Clients, Consume(c)
    PROVE  IInv'
<1> DEFINE o == call[c].offset
           known == {a \in produced : a.offset = o}
           k2 == [pc |-> "respond", kind |-> "consume", offset |-> o,
                  answer |-> Looked(o), known |-> known]
<1>1. ASSUME NEW a \in known PROVE Looked(o).status = 200 /\ Looked(o).record.value = a.value
  <2>1. Holds(records, o, a.value)
        BY <1>1 DEF IInv, ProducedHeld
  <2>2. ~(o >= Len(records)) /\ records[o + 1].value = a.value
        BY <2>1, LenProperties DEF Holds, IInv
  <2> QED
      BY <2>2 DEF Looked
<1>2. RequestOK(k2, c, records, mu)
      BY <1>1 DEF RequestOK, AnswerFits
<1>3. RequestsOK'
      BY <1>2, OneRequest DEF Consume
<1> QED
    BY <1>3 DEF Consume, IInv, ProducedHeld, OffsetsDense, ConsumeFinds

LEMMA RespondStep ==
    ASSUME IInv, NEW c \in Clients, Respond(c) \/ LoseResponse(c)
    PROVE  IInv'
<1>1. RequestOK(None, c, records, mu)
      BY DEF RequestOK, None
<1>2. RequestsOK' /\ records' = records
      BY <1>1, OneRequest DEF Respond, LoseResponse
<1>3. RequestOK(call[c], c, records, mu)
      BY DEF IInv, RequestsOK
<1>4. ProducedHeld'
      BY <1>2, <1>3 DEF Respond, LoseResponse, IInv, ProducedHeld, RequestOK
<1>5. ConsumeFinds'
      BY <1>3 DEF Respond, LoseResponse, IInv, ConsumeFinds, RequestOK, AnswerFits
<1> QED
    BY <1>2, <1>4, <1>5 DEF IInv, OffsetsDense

\* The invariant is inductive.
LEMMA NextIInv == IInv /\ [Next]_vars => IInv'
<1> SUFFICES ASSUME IInv, [Next]_vars PROVE IInv'
    OBVIOUS
<1>1. CASE UNCHANGED vars
      BY <1>1 DEF vars, IInv, RequestsOK, ProducedHeld, OffsetsDense, ConsumeFinds
<1>2. CASE Next
  <2>1. PICK c \in Clients :
           \/ Handler(c)
           \/ \E offset \in (0..MaxRequests) \cup {Malformed} : SendConsume(c, offset)
           \/ \E value \in Values \cup {Malformed}, offset \in {0, 1} : SendProduce(c, value, offset)
        BY <1>2 DEF Next
  <2>2. CASE Handler(c)
        BY <2>2, BadRequestStep, AppendOffsetStep, AppendRecordStep, ConsumeStep, RespondStep
           DEF Handler
  <2> QED
      BY <2>1, <2>2, SendsAreOK
<1> QED
    BY <1>1, <1>2

-----------------------------------------------------------------------------
\* The record at an offset carries that offset, however many handlers of
\* Append run at once and whatever offset the clients put in.
THEOREM OffsetsAreDense == Spec => []OffsetsDense
<1>1. IInv => OffsetsDense
      BY DEF IInv
<1> QED
    BY <1>1, InitIInv, NextIInv, PTL DEF Spec

\* A client that reads an offset which any client had been told before the
\* log was read finds the record that was told.
THEOREM ConsumeFindsProduced == Spec => []ConsumeFinds
<1>1. IInv => ConsumeFinds
      BY DEF IInv
<1> QED
    BY <1>1, InitIInv, NextIInv, PTL DEF Spec

-----------------------------------------------------------------------------
(* The log is atomic                                                       *)

LogOf(r) == [i \in DOMAIN r |-> r[i].value]

Asks == [c \in Clients |-> Asked(call[c])]

\* What a call has asked or been answered, by where its handler is.
LEMMA AskedIs ==
    ASSUME NEW k
    PROVE  /\ k.pc = "none" => Asked(k) = [want |-> "nothing"]
           /\ Undecodable(k) => Asked(k) = [want |-> "unclear"]
           /\ k.pc \in {"produce", "append"} /\ ~Undecodable(k) =>
                 Asked(k) = [want |-> "append", value |-> k.record.value]
           /\ k.pc = "consume" /\ ~Undecodable(k) =>
                 Asked(k) = [want |-> "read", offset |-> k.offset]
           /\ k.pc = "respond" /\ k.kind = "none" => Asked(k) = [want |-> "refused"]
           /\ k.pc = "respond" /\ k.kind = "produce" =>
                 Asked(k) = [want |-> "appended", offset |-> k.offset]
           /\ k.pc = "respond" /\ k.kind = "consume" =>
                 Asked(k) = IF k.answer.status = 200
                            THEN [want |-> "found", offset |-> k.answer.record.offset,
                                  value |-> k.answer.record.value]
                            ELSE [want |-> "missing"]
BY DEF Asked, Undecodable

\* A step of one client's call is a step of what that client has asked.
LEMMA OneAsked ==
    ASSUME IInv, NEW c \in Clients, NEW k, call' = [call EXCEPT ![c] = k]
    PROVE  Asks' = [Asks EXCEPT ![c] = Asked(k)]
<1>1. call \in [Clients -> {call[d] : d \in Clients}]
      BY DEF IInv, RequestsOK
<1>2. call'[c] = k /\ \A d \in Clients \ {c} : call'[d] = call[d]
      BY <1>1
<1>3. Asks' = [d \in Clients |-> Asked(call'[d])]
      BY DEF Asks, Asked, Undecodable
<1>4. [Asks EXCEPT ![c] = Asked(k)] = [d \in Clients |-> IF d = c THEN Asked(k) ELSE Asked(call[d])]
      BY DEF Asks
<1>5. \A d \in Clients : Asked(call'[d]) = IF d = c THEN Asked(k) ELSE Asked(call[d])
      BY <1>2
<1> QED
    BY <1>3, <1>4, <1>5

\* The values of a log with one more record.
LEMMA LogAppended ==
    ASSUME NEW r \in Seq(Records), NEW e \in Records
    PROVE  LogOf(Append(r, e)) = Append(LogOf(r), e.value)
<1> DEFINE n == Len(r)
           s == LogOf(r)
<1>1. /\ Append(r, e) \in Seq(Records) /\ Len(Append(r, e)) = n + 1 /\ n \in Nat
      /\ \A i \in 1..n : Append(r, e)[i] = r[i]
      /\ Append(r, e)[n + 1] = e
      BY Appended
<1>2. DOMAIN r = 1..n /\ DOMAIN Append(r, e) = 1..(n + 1) /\ \A i \in 1..n : r[i] \in Records
      BY <1>1, LenProperties, ElementOfSeq
<1>3. s = [i \in 1..n |-> r[i].value]
      BY <1>2 DEF LogOf
<1>4. e.value \in Values /\ \A i \in 1..n : r[i].value \in Values
      BY <1>2 DEF Records
<1> HIDE DEF n
<1>5. s \in Seq(Values) /\ Len(s) = n
  <2>1. s \in [1..n -> Values]
        BY <1>3, <1>4
  <2> HIDE DEF s
  <2>2. s \in Seq(Values)
        BY <1>1, <2>1, SeqDef
  <2>3. DOMAIN s = 1..n /\ DOMAIN s = 1..Len(s) /\ Len(s) \in Nat
        BY <2>1, <2>2, LenProperties
  <2> QED
      BY <1>1, <2>2, <2>3
<1>6. \A i \in 1..n : s[i] = r[i].value
      BY <1>3
<1> HIDE DEF s
<1> DEFINE u == Append(s, e.value)
<1>7. /\ u \in Seq(Values) /\ Len(u) = n + 1
      /\ \A i \in 1..n : u[i] = s[i]
      /\ u[n + 1] = e.value
      BY <1>4, <1>5, AppendProperties
<1>8. DOMAIN u = 1..(n + 1) /\ u = [i \in 1..(n + 1) |-> u[i]]
      BY <1>7, LenProperties
<1> HIDE DEF u
<1>9. \A i \in 1..(n + 1) : u[i] = Append(r, e)[i].value
  <2> SUFFICES ASSUME NEW i \in 1..(n + 1) PROVE u[i] = Append(r, e)[i].value
      OBVIOUS
  <2>1. CASE i \in 1..n
        BY <2>1, <1>1, <1>6, <1>7
  <2>2. CASE i = n + 1
        BY <2>2, <1>1, <1>7
  <2> QED
      BY <1>1, <2>1, <2>2
<1>10. LogOf(Append(r, e)) = [i \in 1..(n + 1) |-> Append(r, e)[i].value]
      BY <1>2 DEF LogOf, n
<1> QED
    BY <1>8, <1>9, <1>10 DEF u, s

\* The values of a log, one by one.
LEMMA LogValues ==
    ASSUME NEW r \in Seq(Records)
    PROVE  /\ Len(LogOf(r)) = Len(r) /\ Len(r) \in Nat
           /\ \A i \in 1..Len(r) : LogOf(r)[i] = r[i].value
<1> DEFINE n == Len(r)
           s == LogOf(r)
<1>0. n \in Nat /\ DOMAIN r = 1..n /\ \A i \in 1..n : r[i] \in Records
      BY LenProperties, ElementOfSeq
<1>1. n \in Nat /\ DOMAIN r = 1..n /\ \A i \in 1..n : r[i].value \in Values
      BY <1>0 DEF Records
<1>2. s = [i \in 1..n |-> r[i].value]
      BY <1>1 DEF LogOf
<1> HIDE DEF n
<1>3. s \in [1..n -> Values] /\ \A i \in 1..n : s[i] = r[i].value
      BY <1>1, <1>2
<1> HIDE DEF s
<1>4. s \in Seq(Values)
      BY <1>1, <1>3, SeqDef
<1>5. DOMAIN s = 1..n /\ DOMAIN s = 1..Len(s) /\ Len(s) \in Nat
      BY <1>3, <1>4, LenProperties
<1>6. Len(s) = n
      BY <1>1, <1>5
<1> QED
    BY <1>1, <1>3, <1>6 DEF n, s

\* The requests of the clients are requests to the log.
LEMMA SendIsAsk ==
    ASSUME IInv, NEW c \in Clients,
           \/ \E offset \in (0..MaxRequests) \cup {Malformed} : SendConsume(c, offset)
           \/ \E value \in Values \cup {Malformed}, offset \in {0, 1} : SendProduce(c, value, offset)
    PROVE  Atomic!Ask(c)
<1>1. ASSUME NEW k, Send(c, k), Asked(k) \in AtomicRequests PROVE Atomic!Ask(c)
  <2>1. Asks[c] = [want |-> "nothing"]
        BY <1>1, AskedIs DEF Send, Asks
  <2>2. Asks' = [Asks EXCEPT ![c] = Asked(k)]
        BY <1>1, OneAsked DEF Send
  <2>3. LogOf(records)' = LogOf(records)
        BY <1>1 DEF Send
  <2> QED
      BY <1>1, <2>1, <2>2, <2>3 DEF Atomic!Ask, Atomic!Nothing, Asks, LogOf
<1>2. ASSUME NEW offset \in (0..MaxRequests) \cup {Malformed}, SendConsume(c, offset)
      PROVE  Atomic!Ask(c)
  <2> DEFINE k == [pc |-> "consume", offset |-> offset]
  <2>1. k.pc = "consume" /\ k.offset = offset /\ (Undecodable(k) <=> offset = Malformed)
        BY DEF Undecodable
  <2> HIDE DEF k
  <2>2. Asked(k) \in AtomicRequests
        BY <2>1, AskedIs DEF AtomicRequests
  <2> QED
      BY <1>1, <1>2, <2>2 DEF SendConsume, k
<1>3. ASSUME NEW value \in Values \cup {Malformed}, NEW offset \in {0, 1},
             SendProduce(c, value, offset)
      PROVE  Atomic!Ask(c)
  <2> DEFINE k == [pc |-> "produce", record |-> [value |-> value, offset |-> offset]]
  <2>1. k.pc = "produce" /\ k.record.value = value /\ (Undecodable(k) <=> value = Malformed)
        BY DEF Undecodable
  <2> HIDE DEF k
  <2>2. Asked(k) \in AtomicRequests
        BY <2>1, AskedIs DEF AtomicRequests
  <2> QED
      BY <1>1, <1>3, <2>2 DEF SendProduce, k
<1> QED
    BY <1>2, <1>3

\* A handler that has taken an offset has not done anything yet ...
LEMMA AppendOffsetIsSilent ==
    ASSUME IInv, NEW c \in Clients, AppendOffset(c)
    PROVE  UNCHANGED <<LogOf(records), Asks>>
<1> DEFINE k == call[c]
           k2 == [pc |-> "append", record |-> [value |-> k.record.value, offset |-> Len(records)]]
<1>1. k \in [pc : {"produce"}, record : [value : Values, offset : Nat]]
      BY DEF AppendOffset, Undecodable, IInv, RequestsOK, RequestOK
<1>2. call \in [Clients -> {call[d] : d \in Clients}]
      BY DEF IInv, RequestsOK
<1>3. /\ call'[c] = k2 /\ \A d \in Clients \ {c} : call'[d] = call[d]
      /\ records' = records
      BY <1>1, <1>2 DEF AppendOffset
<1>4. ~Undecodable(k) /\ k.pc = "produce"
      BY DEF AppendOffset
<1>5. ~Undecodable(k2) /\ k2.pc = "append" /\ k2.record.value = k.record.value
      BY DEF Undecodable
<1> HIDE DEF k2
<1>6. Asked(k2) = [want |-> "append", value |-> k.record.value]
      BY <1>5, AskedIs
<1>7. Asked(k) = [want |-> "append", value |-> k.record.value]
      BY <1>4, AskedIs
<1> HIDE DEF k
<1>8. \A d \in Clients : Asked(call'[d]) = Asked(call[d])
      BY <1>3, <1>6, <1>7 DEF k
<1>9. Asks' = [d \in Clients |-> Asked(call'[d])]
      BY DEF Asks, Asked, Undecodable
<1>10. Asks' = Asks
      BY <1>8, <1>9 DEF Asks
<1>11. LogOf(records') = LogOf(records)
      BY <1>3
<1> QED
    BY <1>10, <1>11 DEF LogOf

\* ... until it appends the record: at the offset it has taken, because it has
\* held the mutex since.
LEMMA AppendRecordIsAppend ==
    ASSUME IInv, NEW c \in Clients, AppendRecord(c)
    PROVE  Atomic!DoAppend(c)
<1> DEFINE k == call[c]
           e == k.record
           k2 == [pc |-> "respond", kind |-> "produce", status |-> 200,
                  offset |-> e.offset, value |-> e.value]
<1>1. /\ records \in Seq(Records) /\ e \in Records /\ e.offset = Len(records)
      /\ k.pc = "append" /\ records' = Append(records, e) /\ call' = [call EXCEPT ![c] = k2]
      BY DEF AppendRecord, IInv, RequestsOK, RequestOK
<1>2. ~Undecodable(k)
      BY <1>1 DEF Undecodable
<1>3. Asks[c] = [want |-> "append", value |-> e.value]
      BY <1>1, <1>2, AskedIs DEF Asks
<1>4. Asked(k2) = [want |-> "appended", offset |-> e.offset]
  <2>1. k2.pc = "respond" /\ k2.kind = "produce" /\ k2.offset = e.offset
        OBVIOUS
  <2> HIDE DEF k2
  <2> QED
      BY <2>1, AskedIs
<1>5. Asks' = [Asks EXCEPT ![c] = Asked(k2)]
      BY <1>1, OneAsked
<1>6. Len(LogOf(records)) = Len(records)
      BY <1>1, LogValues
<1>7. LogOf(records') = Append(LogOf(records), e.value)
      BY <1>1, LogAppended
<1> HIDE DEF k, e, k2
<1>8. /\ Asks[c].want = "append" /\ Asks[c].value = e.value
      /\ Asks' = [Asks EXCEPT ![c] = [want |-> "appended", offset |-> Len(LogOf(records))]]
      BY <1>1, <1>3, <1>4, <1>5, <1>6
<1> QED
    BY <1>7, <1>8 DEF Atomic!DoAppend, Asks, LogOf

\* A read finds what the log has at this instant.
LEMMA ConsumeIsRead ==
    ASSUME IInv, NEW c \in Clients, Consume(c)
    PROVE  Atomic!DoRead(c)
<1> DEFINE k == call[c]
           o == k.offset
           k2 == [pc |-> "respond", kind |-> "consume", offset |-> o, answer |-> Looked(o),
                  known |-> {a \in produced : a.offset = o}]
           l == LogOf(records)
<1>1. /\ records \in Seq(Records) /\ OffsetsDense /\ k.pc = "consume" /\ ~Undecodable(k)
      /\ o \in Nat /\ call' = [call EXCEPT ![c] = k2] /\ records' = records
      BY DEF Consume, IInv, RequestsOK, RequestOK, Undecodable
<1>2. Asks[c] = [want |-> "read", offset |-> o]
      BY <1>1, AskedIs DEF Asks
<1>3. Len(l) = Len(records) /\ Len(records) \in Nat /\ DOMAIN records = 1..Len(records)
      /\ \A i \in 1..Len(records) : l[i] = records[i].value
      BY <1>1, LogValues, LenProperties
<1>4. Asks' = [Asks EXCEPT ![c] = Asked(k2)]
      BY <1>1, OneAsked
<1>5. Asked(k2) = IF Looked(o).status = 200
                  THEN [want |-> "found", offset |-> Looked(o).record.offset,
                        value |-> Looked(o).record.value]
                  ELSE [want |-> "missing"]
  <2>1. k2.pc = "respond" /\ k2.kind = "consume" /\ k2.answer = Looked(o)
        OBVIOUS
  <2> HIDE DEF k2
  <2> QED
      BY <2>1, AskedIs
<1> HIDE DEF l, k2, o
<1>6. Asked(k2) = IF o < Len(l)
                  THEN [want |-> "found", offset |-> o, value |-> l[o + 1]]
                  ELSE [want |-> "missing"]
  <2>1. CASE o < Len(l)
    <3>1. o + 1 \in 1..Len(records) /\ ~(o >= Len(records))
          BY <1>1, <1>3, <2>1
    <3>2. records[o + 1].offset = o /\ l[o + 1] = records[o + 1].value
      <4>1. \A i \in DOMAIN records : records[i].offset = i - 1
            BY <1>1 DEF OffsetsDense
      <4>2. o + 1 \in DOMAIN records /\ (o + 1) - 1 = o
            BY <1>1, <1>3, <3>1
      <4>3. records[o + 1].offset = (o + 1) - 1
            BY <4>1, <4>2, Zenon
      <4> QED
          BY <1>3, <3>1, <4>2, <4>3
    <3>3. Looked(o) = [status |-> 200, record |-> records[o + 1]]
          BY <3>1 DEF Looked
    <3> QED
        BY <1>5, <2>1, <3>2, <3>3
  <2>2. CASE ~(o < Len(l))
    <3>1. o >= Len(records)
          BY <1>1, <1>3, <2>2
    <3>2. Looked(o) = [status |-> 404]
          BY <3>1 DEF Looked
    <3> QED
        BY <1>5, <2>2, <3>2
  <2> QED
      BY <2>1, <2>2
<1>7. /\ Asks[c].want = "read" /\ Asks[c].offset = o
      /\ Asks' = [Asks EXCEPT ![c] = IF o < Len(l)
                                     THEN [want |-> "found", offset |-> o, value |-> l[o + 1]]
                                     ELSE [want |-> "missing"]]
      BY <1>2, <1>4, <1>6
<1>8. LogOf(records') = l
      BY <1>1 DEF l
<1> QED
    BY <1>7, <1>8 DEF Atomic!DoRead, Atomic!Found, Asks, LogOf, l

\* Refusals, and clients that have their answer or will never get it.
LEMMA AnsweredLeave ==
    ASSUME IInv, NEW c \in Clients
    PROVE  /\ BadRequest(c) => Atomic!Refuse(c)
           /\ Respond(c) \/ LoseResponse(c) => Atomic!Leave(c)
<1> DEFINE k == call[c]
<1>1. ASSUME BadRequest(c) PROVE Atomic!Refuse(c)
  <2> DEFINE k2 == [pc |-> "respond", kind |-> "none", status |-> 400]
  <2>1. Undecodable(k) /\ call' = [call EXCEPT ![c] = k2] /\ records' = records
        BY <1>1 DEF BadRequest
  <2>2. Asks[c] = [want |-> "unclear"]
        BY <2>1, AskedIs DEF Asks
  <2>3. Asks' = [Asks EXCEPT ![c] = Asked(k2)]
        BY <2>1, OneAsked
  <2>4. k2.pc = "respond" /\ k2.kind = "none"
        OBVIOUS
  <2> HIDE DEF k2
  <2>5. Asked(k2) = [want |-> "refused"]
        BY <2>4, AskedIs
  <2>6. /\ Asks[c].want = "unclear"
        /\ Asks' = [Asks EXCEPT ![c] = [want |-> "refused"]]
        BY <2>2, <2>3, <2>5
  <2>7. LogOf(records') = LogOf(records)
        BY <2>1
  <2> QED
      BY <2>6, <2>7 DEF Atomic!Refuse, Asks, LogOf
<1>2. ASSUME Respond(c) \/ LoseResponse(c) PROVE Atomic!Leave(c)
  <2>1. k.pc = "respond" /\ call' = [call EXCEPT ![c] = None] /\ records' = records
        BY <1>2 DEF Respond, LoseResponse
  <2>2. k.kind \in {"none", "produce", "consume"}
        BY <2>1 DEF IInv, RequestsOK, RequestOK
  <2>3. Asked(k).want \in {"refused", "appended", "found", "missing"}
        BY <2>1, <2>2, AskedIs
  <2>4. Asks' = [Asks EXCEPT ![c] = Asked(None)]
        BY <2>1, OneAsked
  <2>5. Asked(None) = [want |-> "nothing"]
        BY AskedIs DEF None
  <2>6. Asks[c] = Asked(k)
        BY DEF Asks
  <2> QED
      BY <2>1, <2>3, <2>4, <2>5, <2>6 DEF Atomic!Leave, Atomic!Nothing, Asks, LogOf
<1> QED
    BY <1>1, <1>2

\* Every step is one of the atomic log, or silent.
LEMMA LogStep ==
    ASSUME IInv, [Next]_vars
    PROVE  [Atomic!Next]_<<LogOf(records), Asks>>
<1>1. CASE UNCHANGED vars
  <2>1. records' = records /\ call' = call
        BY <1>1 DEF vars
  <2> QED
      BY <2>1 DEF Asks, LogOf
<1>2. CASE Next
  <2>1. PICK c \in Clients :
           \/ Handler(c)
           \/ \E offset \in (0..MaxRequests) \cup {Malformed} : SendConsume(c, offset)
           \/ \E value \in Values \cup {Malformed}, offset \in {0, 1} : SendProduce(c, value, offset)
        BY <1>2 DEF Next
  <2>2. \/ Atomic!Ask(c) \/ Atomic!Refuse(c) \/ Atomic!DoAppend(c)
        \/ Atomic!DoRead(c) \/ Atomic!Leave(c)
        \/ UNCHANGED <<LogOf(records), Asks>>
        BY <2>1, SendIsAsk, AppendOffsetIsSilent, AppendRecordIsAppend, ConsumeIsRead, AnsweredLeave
           DEF Handler
  <2> QED
      BY <2>2 DEF Atomic!Next
<1> QED
    BY <1>1, <1>2

\* The server's log is atomic, for any number of clients, values and requests:
\* every response is that of a log which does one request after another.
THEOREM LogIsAtomic == Spec => ImplementsLog
<1>1. Init => Atomic!Init
  <2> SUFFICES ASSUME Init PROVE Atomic!Init
      OBVIOUS
  <2>1. records = <<>> /\ call = [c \in Clients |-> None]
        BY DEF Init
  <2>2. Asked(None) = [want |-> "nothing"]
        BY AskedIs DEF None
  <2>3. LogOf(records) = <<>>
        BY <2>1 DEF LogOf
  <2>4. Asks = [c \in Clients |-> [want |-> "nothing"]]
        BY <2>1, <2>2 DEF Asks
  <2> QED
      BY <2>3, <2>4 DEF Atomic!Init, Atomic!Nothing, Asks, LogOf
<1>2. IInv /\ [Next]_vars => [Atomic!Next]_<<LogOf(records), Asks>>
      BY LogStep
<1> QED
    BY <1>1, <1>2, InitIInv, NextIInv, PTL DEF Spec, ImplementsLog, Atomic!Spec, LogOf, Asks
=============================================================================
