---------------------------- MODULE ProglogStore ----------------------------
(***************************************************************************)
(* The record store of distributed-services-with-go/proglog,               *)
(* internal/log/store.go: length-prefixed records in a file, written       *)
(* through a bufio.Writer, under a mutex.                                  *)
(*                                                                         *)
(* A byte is a cell that says which byte of which payload or length it is. *)
(* The file is opened in append mode, as the tests' openFile does.  A      *)
(* write to it may fail after some of its bytes, and the process may stop  *)
(* at any step: the file stays, what was only buffered is gone.            *)
(***************************************************************************)
EXTENDS Integers, Sequences, SequencesExt, FiniteSets

CONSTANTS
    Clients,      \* goroutines that share the store
    Payloads,
    LengthOf,     \* their length in bytes
    LenWidth,     \* bytes of the length (8)
    BufSize,      \* bytes of the bufio.Writer's buffer (4096)
    Nobody,       \* the mutex is free
    NoRead,       \* nothing has been read
    MaxAppends,   \* bound: appends begun
    MaxFaults,    \* bound: writes to the file that fail
    MaxCrashes    \* bound: crashes

ASSUME StoreAssumption ==
    /\ LengthOf \in [Payloads -> Nat]
    /\ \A p1, p2 \in Payloads : LengthOf[p1] = 0 /\ LengthOf[p2] = 0 => p1 = p2
    /\ LenWidth \in Nat \ {0}
    /\ BufSize \in Nat \ {0}
    /\ Nobody \notin Clients
    /\ MaxAppends \in Nat /\ MaxFaults \in Nat /\ MaxCrashes \in Nat

VARIABLES
    file,      \* the bytes of the file
    closed,    \* the file has been closed
    buf,       \* the bytes in the bufio.Writer
    err,       \* the bufio.Writer's error: once set, it fails
    size,      \* store.size
    mu,        \* who holds the mutex
    op,        \* where each client is in its call
    acked,     \* what Append has returned: [pos, payload]; forgets what a crash loses
    read,      \* what the last Read wanted and got
    appends, faults, crashes

store == <<file, buf, err>>
bounds == <<appends, faults, crashes>>
vars == <<file, closed, buf, err, size, mu, op, acked, read, appends, faults, crashes>>

Idle == [pc |-> "idle"]

Init ==
    /\ file = <<>>
    /\ closed = FALSE
    /\ buf = <<>>
    /\ err = FALSE
    /\ size = 0
    /\ mu = Nobody
    /\ op = [c \in Clients |-> Idle]
    /\ acked = {}
    /\ read = NoRead
    /\ appends = 0 /\ faults = 0 /\ crashes = 0

-----------------------------------------------------------------------------
(* The bytes                                                               *)

Header(payload) == [i \in 1..LenWidth |-> <<"len", LengthOf[payload], i>>]

Body(payload) == [i \in 1..LengthOf[payload] |-> <<"data", payload, i>>]

Encode(payload) == Header(payload) \o Body(payload)

\* The payloads that Read finds at pos: at most one.
Found(bytes, pos) ==
    {p \in Payloads : pos + LenWidth + LengthOf[p] <= Len(bytes) /\
                      SubSeq(bytes, pos + 1, pos + LenWidth + LengthOf[p]) = Encode(p)}

-----------------------------------------------------------------------------
(* bufio.Writer and the file                                               *)

\* write(2) of the bytes fails: the file is closed, or the disk does not take
\* all of them.  (With a Restart next, this is also a stop between two writes.)
WriteFails(bytes) ==
    /\ err' = TRUE
    /\ UNCHANGED buf
    /\ IF closed
       THEN UNCHANGED <<file, faults>>
       ELSE /\ faults < MaxFaults
            /\ faults' = faults + 1
            /\ \E n \in 0..(Len(bytes) - 1) : file' = file \o SubSeq(bytes, 1, n)

Flush(ok) ==
    IF buf = <<>> \/ err
    THEN ok = ~err /\ UNCHANGED <<store, faults>>
    ELSE \/ ok /\ ~closed /\ file' = file \o buf /\ buf' = <<>> /\ UNCHANGED <<err, faults>>
         \/ ~ok /\ WriteFails(buf)

\* What a Write that does not fit leaves in the buffer: nothing, if the bytes
\* went to the file directly, else what is left when the buffer was filled up
\* and flushed, unless that again is too long.
Kept(bytes) ==
    LET taken == BufSize - Len(buf)
        rest == SubSeq(bytes, taken + 1, Len(bytes))
    IN  IF buf = <<>> \/ Len(rest) > BufSize THEN <<>> ELSE rest

\* Mutant of BufWrite: the buffer is not flushed first.
BufWriteAround(bytes, ok) ==
    CASE err -> ok = FALSE /\ UNCHANGED <<store, faults>>
      [] ~err /\ Len(buf) + Len(bytes) <= BufSize ->
            ok /\ buf' = buf \o bytes /\ UNCHANGED <<file, err, faults>>
      [] OTHER ->
            \/ ok /\ ~closed /\ file' = file \o bytes /\ UNCHANGED <<buf, err, faults>>
            \/ ~ok /\ WriteFails(buf \o bytes)

\* buf.Write(bytes)
BufWrite(bytes, ok) ==
    CASE err -> ok = FALSE /\ UNCHANGED <<store, faults>>
      [] ~err /\ Len(buf) + Len(bytes) <= BufSize ->
            ok /\ buf' = buf \o bytes /\ UNCHANGED <<file, err, faults>>
      [] OTHER ->
            \/ /\ ok /\ ~closed
               /\ buf' = Kept(bytes)
               /\ file' = file \o SubSeq(buf \o bytes, 1, Len(buf) + Len(bytes) - Len(Kept(bytes)))
               /\ UNCHANGED <<err, faults>>
            \/ ~ok /\ WriteFails(SubSeq(buf \o bytes, 1, Len(buf) + Len(bytes) - Len(Kept(bytes))))

-----------------------------------------------------------------------------
(* Append, Read and ReadAt, Close                                          *)

Lock(c) == mu = Nobody /\ mu' = c

Call(c) == op[c].pc = "idle"

\* Append takes the mutex and the position.
Append1(c, payload) ==
    /\ Call(c)
    /\ appends < MaxAppends
    /\ Lock(c)
    /\ op' = [op EXCEPT ![c] = [pc |-> "header", payload |-> payload, pos |-> size]]
    /\ appends' = appends + 1
    /\ UNCHANGED <<store, closed, size, acked, read, faults, crashes>>

\* Mutant of Return: the mutex is kept (no defer).
ReturnLocked(c) ==
    /\ op' = [op EXCEPT ![c] = Idle]
    /\ UNCHANGED mu

\* A return runs the deferred Unlock.
Return(c) ==
    /\ op' = [op EXCEPT ![c] = Idle]
    /\ mu' = Nobody

\* binary.Write of the length
AppendHeader(c) ==
    /\ op[c].pc = "header"
    /\ \/ BufWrite(Header(op[c].payload), TRUE) /\ op' = [op EXCEPT ![c].pc = "body"] /\ UNCHANGED mu
       \/ BufWrite(Header(op[c].payload), FALSE) /\ Return(c)
    /\ UNCHANGED <<closed, size, acked, read, appends, crashes>>

\* Mutant of Width: the length is not counted.
WidthOfBody(payload) == LengthOf[payload]

\* w, after w += lenWidth
Width(payload) == LengthOf[payload] + LenWidth

\* Write of the record
AppendBody(c) ==
    LET payload == op[c].payload
    IN  /\ op[c].pc = "body"
        /\ \/ /\ BufWrite(Body(payload), TRUE)
              /\ size' = size + Width(payload)
              /\ acked' = acked \cup {[pos |-> op[c].pos, payload |-> payload]}
           \/ /\ BufWrite(Body(payload), FALSE)
              /\ UNCHANGED <<size, acked>>
        /\ Return(c)
        /\ UNCHANGED <<closed, read, appends, crashes>>

\* Read of a position that Append returned.  It is one step: it holds the
\* mutex throughout, and but for the flush it changes nothing.  ReadAt
\* flushes and reads in the same way.
Read(c, a) ==
    /\ Call(c)
    /\ mu = Nobody
    /\ \/ /\ Flush(TRUE)
          /\ read' = [want |-> a.payload, got |-> IF closed THEN {} ELSE Found(file', a.pos)]
       \/ /\ Flush(FALSE)
          /\ read' = [want |-> a.payload, got |-> {}]
    /\ UNCHANGED <<closed, size, mu, op, acked, appends, crashes>>

\* Mutant of Close: the file is closed whether flushed or not.
CloseUnflushed(c) ==
    /\ Call(c)
    /\ mu = Nobody
    /\ closed' = TRUE
    /\ UNCHANGED <<file, buf, err, size, mu, op, acked, read, bounds>>

\* Close flushes, and closes the file if that went well.
Close(c) ==
    /\ Call(c)
    /\ mu = Nobody
    /\ \/ Flush(TRUE) /\ closed' = TRUE
       \/ Flush(FALSE) /\ UNCHANGED closed
    /\ UNCHANGED <<size, mu, op, acked, read, appends, crashes>>

\* The process stops; the file is opened again, and newStore asks its size.
Restart ==
    /\ crashes < MaxCrashes
    /\ crashes' = crashes + 1
    /\ buf' = <<>>
    /\ err' = FALSE
    /\ closed' = FALSE
    /\ size' = Len(file)
    /\ mu' = Nobody
    /\ op' = [c \in Clients |-> Idle]
    /\ acked' = {a \in acked : a.pos + Width(a.payload) <= Len(file)}
    /\ read' = NoRead
    /\ UNCHANGED <<file, appends, faults>>

ClientStep(c) == AppendHeader(c) \/ AppendBody(c)

Next ==
    \/ Restart
    \/ \E c \in Clients :
          \/ ClientStep(c)
          \/ Close(c)
          \/ \E payload \in Payloads : Append1(c, payload)
          \/ \E a \in acked : Read(c, a)

Spec == Init /\ [][Next]_vars

\* A goroutine that holds the mutex runs.
FairSpec == Spec /\ \A c \in Clients : WF_vars(ClientStep(c))

-----------------------------------------------------------------------------
(* Properties                                                              *)

\* A position that Append has returned reads back as the record appended
\* there, after any number of other appends, flushes and restarts; if not,
\* it is an error, and only after a failed write or Close.
ReadBack ==
    read # NoRead => \/ read.got = {read.want}
                     \/ read.got = {} /\ (err \/ closed)

\* Unless a write has failed, size is the end of the bytes written and
\* buffered, which is where the next record goes; and an Append that has its
\* position holds the mutex, so that no other moves size away from it.
SizeIsEnd ==
    /\ mu = Nobody /\ ~err => size = Len(file) + Len(buf)
    /\ \A c \in Clients : op[c].pc # "idle" => mu = c /\ op[c].pos = size

\* After Close has returned without error, the records appended so far are in
\* the file; and no step, be it a failed write, a later Append or a restart,
\* changes a byte that is there.
CloseKeepsAll ==
    [][/\ closed' /\ ~closed => \A a \in acked : Found(file', a.pos) = {a.payload}
       /\ IsPrefix(file, file')]_vars

\* Every call returns and gives the mutex back, on its error paths too.
CallsReturn == mu # Nobody ~> mu = Nobody
=============================================================================
