------------------------- MODULE ProglogStoreProofs -------------------------
(***************************************************************************)
(* The store, for any clients, payloads, length width and buffer size, and *)
(* any number of appends, failed writes and restarts.                      *)
(*                                                                         *)
(* What the records are in is the file followed by the buffer, as long as  *)
(* no write has failed: then its length is where the next record goes, and *)
(* each record that Append has returned is at its position.  Once a write  *)
(* has failed, the buffer's bytes may be in the file a second time; what   *)
(* remains true is that a record that fits into the file is there, which   *)
(* is what a restart needs.                                                *)
(***************************************************************************)
EXTENDS ProglogStore, SequenceTheorems, TLAPS

Bytes == ({"len"} \X Nat \X Nat) \cup ({"data"} \X Payloads \X Nat)

\* What has been written, as long as no write failed.
Written == file \o buf

\* The bytes contain the record of the payload at pos.
Holds(bytes, pos, payload) ==
    /\ pos + Width(payload) <= Len(bytes)
    /\ \A i \in 1..Width(payload) : bytes[pos + i] = Encode(payload)[i]

\* IsPrefix, by elements.
Begins(s, t) == Len(s) <= Len(t) /\ \A i \in 1..Len(s) : t[i] = s[i]

Records == [pos : Nat, payload : Payloads]

Calls == [pc : {"header", "body"}, payload : Payloads, pos : Nat]

StoreTypes ==
    /\ file \in Seq(Bytes)
    /\ buf \in Seq(Bytes)
    /\ Len(buf) <= BufSize
    /\ closed \in BOOLEAN
    /\ err \in BOOLEAN
    /\ size \in Nat
    /\ mu \in Clients \cup {Nobody}
    /\ op \in [Clients -> Calls \cup {Idle}]
    /\ acked \subseteq Records

\* One call at a time is under way, and has the position that size says.
OneCall ==
    /\ \A c \in Clients : op[c] # Idle => mu = c /\ op[c].pos = size
    /\ mu # Nobody => op[mu] # Idle

\* Where the next byte goes.
EndOfWritten ==
    ~err =>
       /\ mu = Nobody => size = Len(Written)
       /\ \A c \in Clients :
             /\ op[c] # Idle /\ op[c].pc = "header" => size = Len(Written)
             /\ op[c] # Idle /\ op[c].pc = "body" =>
                   /\ size + LenWidth = Len(Written)
                   /\ \A i \in 1..LenWidth : Written[size + i] = Header(op[c].payload)[i]

\* Where the records are.
RecordsKept ==
    \A a \in acked :
       /\ ~err => Holds(Written, a.pos, a.payload)
       /\ a.pos + Width(a.payload) <= Len(file) => Holds(file, a.pos, a.payload)

StoreInv == StoreTypes /\ OneCall /\ EndOfWritten /\ RecordsKept /\ ReadBack

USE StoreAssumption

-----------------------------------------------------------------------------
(* The bytes of a record                                                   *)

LEMMA HeaderBytes ==
    ASSUME NEW payload \in Payloads
    PROVE  Header(payload) \in Seq(Bytes) /\ Len(Header(payload)) = LenWidth
<1>1. \A i \in 1..LenWidth : <<"len", LengthOf[payload], i>> \in Bytes
      BY DEF Bytes
<1> QED
    BY <1>1 DEF Header

LEMMA BodyBytes ==
    ASSUME NEW payload \in Payloads
    PROVE  Body(payload) \in Seq(Bytes) /\ Len(Body(payload)) = LengthOf[payload]
<1>1. \A i \in 1..LengthOf[payload] : <<"data", payload, i>> \in Bytes
      BY DEF Bytes
<1>2. LengthOf[payload] \in Nat
      OBVIOUS
<1> QED
    BY <1>1, <1>2 DEF Body

LEMMA EncodeBytes ==
    ASSUME NEW payload \in Payloads
    PROVE  /\ Width(payload) \in Nat /\ Width(payload) = LenWidth + LengthOf[payload]
           /\ Encode(payload) \in Seq(Bytes) /\ Len(Encode(payload)) = Width(payload)
           /\ \A i \in 1..LenWidth : Encode(payload)[i] = Header(payload)[i]
           /\ \A i \in 1..LengthOf[payload] : Encode(payload)[LenWidth + i] = Body(payload)[i]
<1>1. LengthOf[payload] \in Nat /\ LenWidth \in Nat
      OBVIOUS
<1>2. /\ Header(payload) \in Seq(Bytes) /\ Len(Header(payload)) = LenWidth
      /\ Body(payload) \in Seq(Bytes) /\ Len(Body(payload)) = LengthOf[payload]
      BY HeaderBytes, BodyBytes
<1>3. /\ Encode(payload) \in Seq(Bytes)
      /\ Len(Encode(payload)) = LenWidth + LengthOf[payload]
      /\ \A i \in 1..(LenWidth + LengthOf[payload]) : Encode(payload)[i] =
            IF i <= LenWidth THEN Header(payload)[i] ELSE Body(payload)[i - LenWidth]
      <2> DEFINE h == Header(payload)
                 b == Body(payload)
      <2> HIDE DEF h, b
      <2>1. h \in Seq(Bytes) /\ Len(h) = LenWidth /\ b \in Seq(Bytes) /\ Len(b) = LengthOf[payload]
            BY <1>2 DEF h, b
      <2>2. /\ h \o b \in Seq(Bytes)
            /\ Len(h \o b) = Len(h) + Len(b)
            /\ \A i \in 1..(Len(h) + Len(b)) : (h \o b)[i] =
                  IF i <= Len(h) THEN h[i] ELSE b[i - Len(h)]
            BY <2>1, ConcatProperties
      <2> QED
          BY <2>1, <2>2 DEF Encode, h, b
<1>4. \A i \in 1..LengthOf[payload] :
         /\ LenWidth + i \in 1..(LenWidth + LengthOf[payload])
         /\ ~(LenWidth + i <= LenWidth) /\ (LenWidth + i) - LenWidth = i
      BY <1>1
<1> QED
    BY <1>1, <1>3, <1>4 DEF Width

\* Two records that are at the same place are the same: their lengths are, and
\* there is only one empty payload.
LEMMA OneRecord ==
    ASSUME NEW bytes, NEW pos \in Nat, NEW p1 \in Payloads, NEW p2 \in Payloads,
           Holds(bytes, pos, p1), Holds(bytes, pos, p2)
    PROVE  p1 = p2
<1>1. \A payload \in Payloads : Holds(bytes, pos, payload) =>
         /\ bytes[pos + 1] = <<"len", LengthOf[payload], 1>>
         /\ LengthOf[payload] > 0 => bytes[pos + LenWidth + 1] = <<"data", payload, 1>>
      <2> SUFFICES ASSUME NEW payload \in Payloads, Holds(bytes, pos, payload)
                   PROVE  /\ bytes[pos + 1] = <<"len", LengthOf[payload], 1>>
                          /\ LengthOf[payload] > 0 =>
                                bytes[pos + LenWidth + 1] = <<"data", payload, 1>>
          OBVIOUS
      <2>1. LengthOf[payload] \in Nat /\ LenWidth \in Nat /\ LenWidth > 0
            OBVIOUS
      <2>2. \A i \in 1..Width(payload) : bytes[pos + i] = Encode(payload)[i]
            BY DEF Holds
      <2>3. 1 \in 1..LenWidth /\ 1 \in 1..Width(payload)
            BY <2>1, EncodeBytes
      <2>4. bytes[pos + 1] = Header(payload)[1]
            BY <2>2, <2>3, EncodeBytes
      <2>5. ASSUME LengthOf[payload] > 0
            PROVE  bytes[pos + LenWidth + 1] = Body(payload)[1]
            <3>1. LenWidth + 1 \in 1..Width(payload) /\ 1 \in 1..LengthOf[payload]
                  BY <2>1, <2>5, EncodeBytes
            <3>2. bytes[pos + (LenWidth + 1)] = Body(payload)[1]
                  BY <2>2, <3>1, EncodeBytes
            <3>3. pos + (LenWidth + 1) = pos + LenWidth + 1
                  BY <2>1
            <3> QED
                BY <3>2, <3>3
      <2>6. Header(payload)[1] = <<"len", LengthOf[payload], 1>>
            BY <2>3 DEF Header
      <2>7. LengthOf[payload] > 0 => Body(payload)[1] = <<"data", payload, 1>>
            BY <2>1 DEF Body
      <2> QED
          BY <2>4, <2>5, <2>6, <2>7
<1>2. LengthOf[p1] = LengthOf[p2]
      <2>1. <<"len", LengthOf[p1], 1>> = <<"len", LengthOf[p2], 1>>
            BY <1>1
      <2> QED
          BY <2>1
<1>3. CASE LengthOf[p1] = 0
      BY <1>2, <1>3
<1>4. CASE LengthOf[p1] > 0
      <2>1. <<"data", p1, 1>> = <<"data", p2, 1>>
            BY <1>1, <1>2, <1>4
      <2> QED
          BY <2>1
<1>5. LengthOf[p1] \in Nat
      OBVIOUS
<1> QED
    BY <1>3, <1>4, <1>5

\* What Read finds where a record is.
LEMMA RecordFound ==
    ASSUME NEW bytes \in Seq(Bytes), NEW pos \in Nat, NEW payload \in Payloads,
           Holds(bytes, pos, payload)
    PROVE  Found(bytes, pos) = {payload}
<1>1. ASSUME NEW p1 \in Payloads
      PROVE  pos + LenWidth + LengthOf[p1] <= Len(bytes)
             /\ SubSeq(bytes, pos + 1, pos + LenWidth + LengthOf[p1]) = Encode(p1)
             <=> Holds(bytes, pos, p1)
      <2> DEFINE w == Width(p1)
                 s == SubSeq(bytes, pos + 1, pos + w)
      <2>1. w \in Nat /\ pos + LenWidth + LengthOf[p1] = pos + w /\ Len(bytes) \in Nat
            BY EncodeBytes
      <2>2. Encode(p1) \in Seq(Bytes) /\ Len(Encode(p1)) = w
            BY EncodeBytes
      <2> HIDE DEF w
      <2>3. ASSUME pos + w <= Len(bytes)
            PROVE  s \in Seq(Bytes) /\ Len(s) = w /\ \A i \in 1..w : s[i] = bytes[pos + i]
            <3>1. pos + 1 \in 1..(Len(bytes) + 1) /\ pos + w \in (pos + 1) - 1..Len(bytes)
                  BY <2>1, <2>3
            <3>2. /\ s \in Seq(Bytes)
                  /\ Len(s) = (IF pos + 1 <= pos + w THEN pos + w - (pos + 1) + 1 ELSE 0)
                  /\ \A i \in 1..(pos + w - (pos + 1) + 1) : s[i] = bytes[pos + 1 + i - 1]
                  BY <2>1, <2>3, <3>1, SubSeqProperties
            <3>3. /\ (IF pos + 1 <= pos + w THEN pos + w - (pos + 1) + 1 ELSE 0) = w
                  /\ pos + w - (pos + 1) + 1 = w
                  /\ \A i \in 1..w : pos + 1 + i - 1 = pos + i
                  BY <2>1
            <3> HIDE DEF s
            <3> QED
                BY <3>2, <3>3
      <2> HIDE DEF s
      <2>4. ASSUME pos + w <= Len(bytes)
            PROVE  s = Encode(p1) <=> \A i \in 1..w : bytes[pos + i] = Encode(p1)[i]
            BY <2>2, <2>3, <2>4, SeqEqual
      <2> QED
          BY <2>1, <2>4 DEF Holds, w, s
<1>2. \A p1 \in Payloads : p1 \in Found(bytes, pos) <=> Holds(bytes, pos, p1)
      BY <1>1 DEF Found
<1>3. Found(bytes, pos) \subseteq Payloads
      BY DEF Found
<1> QED
    BY <1>2, <1>3, OneRecord

-----------------------------------------------------------------------------
(* Prefixes                                                                *)

LEMMA BeginsConcat ==
    ASSUME NEW s \in Seq(Bytes), NEW t \in Seq(Bytes)
    PROVE  s \o t \in Seq(Bytes) /\ Len(s \o t) = Len(s) + Len(t) /\ Begins(s, s \o t)
<1>1. /\ s \o t \in Seq(Bytes) /\ Len(s \o t) = Len(s) + Len(t)
      /\ \A i \in 1..(Len(s) + Len(t)) : (s \o t)[i] = IF i <= Len(s) THEN s[i] ELSE t[i - Len(s)]
      BY ConcatProperties
<1>2. Len(s) \in Nat /\ Len(t) \in Nat
      OBVIOUS
<1>3. \A i \in 1..Len(s) : i \in 1..(Len(s) + Len(t)) /\ i <= Len(s)
      BY <1>2
<1> QED
    BY <1>1, <1>2, <1>3 DEF Begins

LEMMA BeginsIsPrefix ==
    ASSUME NEW s \in Seq(Bytes), NEW t \in Seq(Bytes), Begins(s, t)
    PROVE  IsPrefix(s, t)
<1> DEFINE n == Len(s)
<1>1. n \in Nat /\ n <= Len(t) /\ Len(t) \in Nat /\ \A i \in 1..n : t[i] = s[i]
      BY DEF Begins
<1>2. ASSUME NEW u \in Seq(Bytes), n <= Len(u)
      PROVE  /\ SubSeq(u, 1, n) \in Seq(Bytes) /\ Len(SubSeq(u, 1, n)) = n
             /\ \A i \in 1..n : SubSeq(u, 1, n)[i] = u[i]
      <2> HIDE DEF n
      <2>1. \A i \in 1..n : u[i] \in Bytes
            BY <1>1, <1>2, ElementOfSeq
      <2>2. /\ SubSeq(u, 1, n) \in Seq(Bytes)
            /\ Len(SubSeq(u, 1, n)) = (IF 1 <= n THEN n - 1 + 1 ELSE 0)
            /\ \A i \in 1..(n - 1 + 1) : SubSeq(u, 1, n)[i] = u[1 + i - 1]
            BY <1>1, <2>1, SubSeqProperties
      <2>3. (IF 1 <= n THEN n - 1 + 1 ELSE 0) = n /\ n - 1 + 1 = n /\ \A i \in 1..n : 1 + i - 1 = i
            BY <1>1
      <2> QED
          BY <2>2, <2>3
<1> HIDE DEF n
<1>3. SubSeq(s, 1, n) = SubSeq(t, 1, n)
      <2>1. n <= Len(s)
            BY <1>1 DEF n
      <2>2. /\ SubSeq(s, 1, n) \in Seq(Bytes) /\ Len(SubSeq(s, 1, n)) = n
            /\ SubSeq(t, 1, n) \in Seq(Bytes) /\ Len(SubSeq(t, 1, n)) = n
            /\ \A i \in 1..n : SubSeq(s, 1, n)[i] = SubSeq(t, 1, n)[i]
            BY <1>1, <1>2, <2>1
      <2> QED
          BY <2>2, SeqEqual
<1> QED
    BY <1>1, <1>3 DEF IsPrefix, n

\* The first n bytes of t, behind s.
LEMMA PartWritten ==
    ASSUME NEW s \in Seq(Bytes), NEW t \in Seq(Bytes), NEW n \in 0..Len(t)
    PROVE  /\ s \o SubSeq(t, 1, n) \in Seq(Bytes)
           /\ Begins(s, s \o SubSeq(t, 1, n))
           /\ Begins(s \o SubSeq(t, 1, n), s \o t)
<1> DEFINE u == SubSeq(t, 1, n)
<1>1. Len(s) \in Nat /\ Len(t) \in Nat /\ n \in Nat /\ n <= Len(t)
      OBVIOUS
<1>2. u \in Seq(Bytes) /\ Len(u) = n /\ \A i \in 1..n : u[i] = t[i]
      <2>1. \A i \in 1..n : t[i] \in Bytes
            BY <1>1, ElementOfSeq
      <2>2. /\ SubSeq(t, 1, n) \in Seq(Bytes)
            /\ Len(SubSeq(t, 1, n)) = (IF 1 <= n THEN n - 1 + 1 ELSE 0)
            /\ \A i \in 1..(n - 1 + 1) : SubSeq(t, 1, n)[i] = t[1 + i - 1]
            BY <1>1, <2>1, SubSeqProperties
      <2>3. (IF 1 <= n THEN n - 1 + 1 ELSE 0) = n /\ n - 1 + 1 = n /\ \A i \in 1..n : 1 + i - 1 = i
            BY <1>1
      <2> QED
          BY <2>2, <2>3
<1> HIDE DEF u
<1>3. s \o u \in Seq(Bytes) /\ Begins(s, s \o u)
      BY <1>2, BeginsConcat
<1>4. /\ Len(s \o u) = Len(s) + n
      /\ \A i \in 1..(Len(s) + n) : (s \o u)[i] = IF i <= Len(s) THEN s[i] ELSE u[i - Len(s)]
      <2>1. /\ Len(s \o u) = Len(s) + Len(u)
            /\ \A i \in 1..(Len(s) + Len(u)) :
                  (s \o u)[i] = IF i <= Len(s) THEN s[i] ELSE u[i - Len(s)]
            BY <1>2, ConcatProperties
      <2> QED
          BY <1>2, <2>1
<1>5. /\ Len(s \o t) = Len(s) + Len(t)
      /\ \A i \in 1..(Len(s) + Len(t)) : (s \o t)[i] = IF i <= Len(s) THEN s[i] ELSE t[i - Len(s)]
      BY ConcatProperties
<1>6. \A i \in 1..(Len(s) + n) :
         /\ i \in 1..(Len(s) + Len(t))
         /\ ~(i <= Len(s)) => i - Len(s) \in 1..n
      BY <1>1
<1>7. Begins(s \o u, s \o t)
      <2>1. ASSUME NEW i \in 1..(Len(s) + n) PROVE (s \o t)[i] = (s \o u)[i]
            <3>1. CASE i <= Len(s)
                  BY <1>4, <1>5, <1>6, <3>1
            <3>2. CASE ~(i <= Len(s))
                  BY <1>2, <1>4, <1>5, <1>6, <3>2
            <3> QED
                BY <3>1, <3>2
      <2> QED
          BY <1>1, <1>4, <1>5, <2>1 DEF Begins
<1> QED
    BY <1>3, <1>7 DEF u

\* A record stays where it is when bytes are added, and is there before if it
\* fits.
LEMMA HoldsAlong ==
    ASSUME NEW s \in Seq(Bytes), NEW t \in Seq(Bytes), Begins(s, t),
           NEW pos \in Nat, NEW payload \in Payloads
    PROVE  /\ Holds(s, pos, payload) => Holds(t, pos, payload)
           /\ Holds(t, pos, payload) /\ pos + Width(payload) <= Len(s) => Holds(s, pos, payload)
<1> DEFINE w == Width(payload)
<1>1. w \in Nat /\ Len(s) \in Nat /\ Len(t) \in Nat /\ Len(s) <= Len(t)
      BY EncodeBytes DEF Begins
<1>2. \A i \in 1..Len(s) : t[i] = s[i]
      BY DEF Begins
<1> HIDE DEF w
<1>3. ASSUME pos + w <= Len(s) PROVE \A i \in 1..w : t[pos + i] = s[pos + i]
      <2>1. \A i \in 1..w : pos + i \in 1..Len(s)
            BY <1>1, <1>3
      <2> QED
          BY <1>2, <2>1
<1>4. pos + w <= Len(s) => pos + w <= Len(t)
      BY <1>1
<1> QED
    BY <1>3, <1>4 DEF Holds, w

-----------------------------------------------------------------------------
(* bufio.Writer                                                            *)

\* What a Write that does not fit sends to the file and what it keeps are the
\* buffer and the bytes.
LEMMA KeptBytes ==
    ASSUME NEW bytes \in Seq(Bytes), buf \in Seq(Bytes), Len(buf) <= BufSize,
           ~(Len(buf) + Len(bytes) <= BufSize)
    PROVE  LET sent == Len(buf) + Len(bytes) - Len(Kept(bytes))
           IN  /\ Kept(bytes) \in Seq(Bytes)
               /\ Len(Kept(bytes)) <= BufSize
               /\ sent \in 0..Len(buf \o bytes)
               /\ SubSeq(buf \o bytes, 1, sent) \o Kept(bytes) = buf \o bytes
<1> DEFINE s == buf \o bytes
           taken == BufSize - Len(buf)
           rest == SubSeq(bytes, taken + 1, Len(bytes))
<1>1. s \in Seq(Bytes) /\ Len(s) = Len(buf) + Len(bytes)
      BY ConcatProperties
<1>2. Len(buf) \in Nat /\ Len(bytes) \in Nat /\ BufSize \in Nat
      OBVIOUS
<1>3. CASE Kept(bytes) = <<>>
      <2>1. Len(Kept(bytes)) = 0 /\ Kept(bytes) \in Seq(Bytes)
            BY <1>3
      <2>2. Len(buf) + Len(bytes) - Len(Kept(bytes)) = Len(s)
            BY <1>1, <1>2, <2>1
      <2> HIDE DEF s
      <2>3. SubSeq(s, 1, Len(s)) = s /\ s \o <<>> = s
            BY <1>1, SubSeqFull, ConcatEmptySeq
      <2> QED
          BY <1>1, <1>2, <1>3, <2>1, <2>2, <2>3 DEF s
<1>4. CASE Kept(bytes) = rest /\ ~(Len(rest) > BufSize)
      <2>1. /\ taken \in Nat /\ taken + 1 \in 1..Len(bytes)
            /\ BufSize + 1 \in Len(buf) + 1..Len(buf) + Len(bytes)
            /\ Len(s) \in Len(buf) + 1..Len(buf) + Len(bytes)
            /\ BufSize + 1 - Len(buf) = taken + 1
            /\ Len(s) - Len(buf) = Len(bytes)
            BY <1>1, <1>2
      <2>2. SubSeq(s, BufSize + 1, Len(s)) = rest
            <3>1. SubSeq(s, BufSize + 1, Len(s))
                     = SubSeq(bytes, BufSize + 1 - Len(buf), Len(s) - Len(buf))
                  BY <2>1, SubSeqOfConcat2
            <3> QED
                BY <2>1, <3>1
      <2>3. rest \in Seq(Bytes) /\ Len(rest) = Len(s) - BufSize
            <3>1. \A i \in (taken + 1)..Len(bytes) : bytes[i] \in Bytes
                  BY <1>2, <2>1, ElementOfSeq
            <3>2. /\ rest \in Seq(Bytes)
                  /\ Len(rest) = IF taken + 1 <= Len(bytes) THEN Len(bytes) - (taken + 1) + 1 ELSE 0
                  BY <1>2, <2>1, <3>1, SubSeqProperties
            <3>3. (IF taken + 1 <= Len(bytes) THEN Len(bytes) - (taken + 1) + 1 ELSE 0)
                     = Len(s) - BufSize
                  BY <1>1, <1>2, <2>1
            <3> QED
                BY <3>2, <3>3
      <2> HIDE DEF s, rest
      <2>4. /\ 1 \in 1..(Len(s) + 1) /\ BufSize \in (1 - 1)..Len(s) /\ Len(s) \in BufSize..Len(s)
            /\ Len(buf) + Len(bytes) - Len(rest) = BufSize
            BY <1>1, <1>2, <2>1, <2>3
      <2>5. SubSeq(s, 1, BufSize) \o SubSeq(s, BufSize + 1, Len(s)) = SubSeq(s, 1, Len(s))
            BY <1>1, <2>4, ConcatAdjacentSubSeq
      <2>6. SubSeq(s, 1, Len(s)) = s
            BY <1>1, SubSeqFull
      <2>7. Len(rest) <= BufSize
            BY <1>1, <1>2, <1>4, <2>3
      <2>8. Len(buf) + Len(bytes) - Len(Kept(bytes)) = BufSize
            BY <1>4, <2>4
      <2>9. SubSeq(s, 1, BufSize) \o Kept(bytes) = s
            BY <1>4, <2>2, <2>5, <2>6
      <2>10. BufSize \in 0..Len(s)
            BY <2>4
      <2> QED
          BY <1>4, <2>3, <2>7, <2>8, <2>9, <2>10 DEF s
<1> QED
    BY <1>3, <1>4 DEF Kept

\* A failed write: some of the bytes may have reached the file.
LEMMA FailedWrite ==
    ASSUME StoreTypes, NEW bytes \in Seq(Bytes), WriteFails(bytes), ~err
    PROVE  /\ err' = TRUE /\ buf' = buf
           /\ file' \in Seq(Bytes) /\ Begins(file, file') /\ Begins(file', file \o bytes)
<1>1. file \in Seq(Bytes)
      BY DEF StoreTypes
<1>2. err' = TRUE /\ buf' = buf
      BY DEF WriteFails
<1>3. CASE file' = file
      <2>1. Begins(file, file) /\ Begins(file, file \o bytes)
            <3>1. Len(file) \in Nat
                  BY <1>1
            <3>2. Begins(file, file)
                  BY <3>1 DEF Begins
            <3> QED
                BY <1>1, <3>2, BeginsConcat
      <2> QED
          BY <1>1, <1>2, <1>3, <2>1
<1>4. CASE \E n \in 0..(Len(bytes) - 1) : file' = file \o SubSeq(bytes, 1, n)
      <2>1. PICK n \in 0..(Len(bytes) - 1) : file' = file \o SubSeq(bytes, 1, n)
            BY <1>4
      <2>2. n \in 0..Len(bytes)
            OBVIOUS
      <2> QED
          BY <1>1, <1>2, <2>1, <2>2, PartWritten
<1> QED
    BY <1>3, <1>4 DEF WriteFails

\* buf.Write that goes well: the bytes are behind those written before.
LEMMA BufWriteDone ==
    ASSUME StoreTypes, NEW bytes \in Seq(Bytes), BufWrite(bytes, TRUE)
    PROVE  /\ ~err /\ ~err'
           /\ file' \in Seq(Bytes) /\ buf' \in Seq(Bytes) /\ Len(buf') <= BufSize
           /\ file' \o buf' = Written \o bytes
           /\ Begins(file, file')
<1>1. /\ file \in Seq(Bytes) /\ buf \in Seq(Bytes) /\ Len(buf) <= BufSize /\ err \in BOOLEAN
      /\ Len(file) \in Nat
      BY DEF StoreTypes
<1>2. ~err
      BY <1>1, Zenon DEF BufWrite
<1>3. CASE Len(buf) + Len(bytes) <= BufSize
      <2>1. buf' = buf \o bytes /\ file' = file /\ err' = err
            BY <1>2, <1>3, Zenon DEF BufWrite
      <2>2. (file \o buf) \o bytes = file \o (buf \o bytes)
            BY <1>1, ConcatAssociative
      <2>3. buf \o bytes \in Seq(Bytes) /\ Len(buf \o bytes) = Len(buf) + Len(bytes)
            BY <1>1, ConcatProperties
      <2>4. Begins(file, file)
            BY <1>1 DEF Begins
      <2> QED
          BY <1>1, <1>2, <1>3, <2>1, <2>2, <2>3, <2>4 DEF Written
<1>4. CASE ~(Len(buf) + Len(bytes) <= BufSize)
      <2> DEFINE n == Len(buf) + Len(bytes) - Len(Kept(bytes))
                 u == SubSeq(buf \o bytes, 1, n)
                 k == Kept(bytes)
      <2>1. buf' = k /\ file' = file \o u /\ err' = err
            BY <1>2, <1>4, Zenon DEF BufWrite
      <2>2. k \in Seq(Bytes) /\ Len(k) <= BufSize /\ n \in 0..Len(buf \o bytes) /\ u \o k = buf \o bytes
            BY <1>1, <1>4, KeptBytes
      <2>3. buf \o bytes \in Seq(Bytes)
            BY <1>1, ConcatProperties
      <2> HIDE DEF n, k
      <2>4. u \in Seq(Bytes)
            <3>1. \A i \in 1..n : (buf \o bytes)[i] \in Bytes
                  BY <2>2, <2>3, ElementOfSeq
            <3> QED
                BY <2>2, <3>1, SubSeqProperties
      <2> HIDE DEF u
      <2>5. file \o u \in Seq(Bytes) /\ Begins(file, file \o u)
            BY <1>1, <2>4, BeginsConcat
      <2>6. (file \o u) \o k = file \o (u \o k) /\ (file \o buf) \o bytes = file \o (buf \o bytes)
            <3>1. (file \o u) \o k = file \o (u \o k)
                  <4>1. file \in Seq(Bytes) /\ k \in Seq(Bytes)
                        BY <1>1, <2>2
                  <4> QED
                      BY <2>4, <4>1, ConcatAssociative
            <3>2. (file \o buf) \o bytes = file \o (buf \o bytes)
                  BY <1>1, ConcatAssociative
            <3> QED
                BY <3>1, <3>2
      <2> QED
          BY <1>2, <2>1, <2>2, <2>5, <2>6 DEF Written
<1> QED
    BY <1>3, <1>4

\* buf.Write that fails.
LEMMA BufWriteFailed ==
    ASSUME StoreTypes, NEW bytes \in Seq(Bytes), BufWrite(bytes, FALSE)
    PROVE  /\ err' = TRUE /\ buf' = buf
           /\ file' \in Seq(Bytes) /\ Begins(file, file')
           /\ err => file' = file
           /\ ~err => Begins(file', Written \o bytes)
<1>1. /\ file \in Seq(Bytes) /\ buf \in Seq(Bytes) /\ Len(buf) <= BufSize /\ err \in BOOLEAN
      /\ Len(file) \in Nat /\ Len(buf) \in Nat /\ Len(bytes) \in Nat
      BY DEF StoreTypes
<1>2. CASE err
      <2>1. UNCHANGED <<file, buf, err>>
            BY <1>2, Zenon DEF BufWrite, store
      <2>2. Begins(file, file)
            BY <1>1 DEF Begins
      <2> QED
          BY <1>1, <1>2, <2>1, <2>2
<1>3. CASE ~err
      <2> DEFINE n == Len(buf) + Len(bytes) - Len(Kept(bytes))
                 s == buf \o bytes
                 u == SubSeq(s, 1, n)
      <2>1. ~(Len(buf) + Len(bytes) <= BufSize) /\ WriteFails(u)
            BY <1>3, Zenon DEF BufWrite
      <2>2. n \in 0..Len(s)
            BY <1>1, <2>1, KeptBytes
      <2>3. s \in Seq(Bytes)
            BY <1>1, ConcatProperties
      <2> HIDE DEF n, s
      <2>4. u \in Seq(Bytes)
            <3>1. \A i \in 1..n : s[i] \in Bytes
                  BY <2>2, <2>3, ElementOfSeq
            <3> QED
                BY <2>2, <3>1, SubSeqProperties
      <2>5. Begins(file \o u, file \o s) /\ file \o u \in Seq(Bytes)
            BY <1>1, <2>2, <2>3, PartWritten
      <2> HIDE DEF u
      <2>6. /\ err' = TRUE /\ buf' = buf
            /\ file' \in Seq(Bytes) /\ Begins(file, file') /\ Begins(file', file \o u)
            BY <1>3, <2>1, <2>4, FailedWrite
      <2>7. file \o s = Written \o bytes
            BY <1>1, ConcatAssociative DEF s, Written
      <2>8. Begins(file', file \o s)
            BY <2>5, <2>6 DEF Begins
      <2> QED
          BY <1>3, <2>6, <2>7, <2>8
<1> QED
    BY <1>2, <1>3

\* buf.Flush that goes well.
LEMMA FlushDone ==
    ASSUME StoreTypes, Flush(TRUE)
    PROVE  ~err /\ ~err' /\ buf' = <<>> /\ file' = Written /\ file' \in Seq(Bytes)
           /\ Begins(file, file') /\ file' \o buf' = Written
<1>1. file \in Seq(Bytes) /\ buf \in Seq(Bytes) /\ err \in BOOLEAN
      BY DEF StoreTypes
<1>2. ~err
      BY <1>1, Zenon DEF Flush
<1>3. Written \in Seq(Bytes) /\ Written \o <<>> = Written /\ Begins(file, Written)
      BY <1>1, BeginsConcat, ConcatEmptySeq DEF Written
<1>4. CASE buf = <<>>
      <2>1. UNCHANGED <<file, buf, err>>
            BY <1>4, Zenon DEF Flush, store
      <2>2. Written = file
            BY <1>1, <1>4, ConcatEmptySeq DEF Written
      <2> QED
          BY <1>2, <1>3, <1>4, <2>1, <2>2
<1>5. CASE buf # <<>>
      <2>1. file' = Written /\ buf' = <<>> /\ err' = err
            BY <1>2, <1>5, Zenon DEF Flush, Written
      <2> QED
          BY <1>2, <1>3, <2>1
<1> QED
    BY <1>4, <1>5

\* buf.Flush that fails.
LEMMA FlushFailed ==
    ASSUME StoreTypes, Flush(FALSE)
    PROVE  /\ err' = TRUE /\ buf' = buf
           /\ file' \in Seq(Bytes) /\ Begins(file, file')
           /\ err => file' = file
           /\ ~err => Begins(file', Written)
<1>1. file \in Seq(Bytes) /\ buf \in Seq(Bytes) /\ err \in BOOLEAN /\ Len(file) \in Nat
      BY DEF StoreTypes
<1>2. CASE err
      <2>1. UNCHANGED <<file, buf, err>>
            BY <1>2, Zenon DEF Flush, store
      <2>2. Begins(file, file)
            BY <1>1 DEF Begins
      <2> QED
          BY <1>1, <1>2, <2>1, <2>2
<1>3. CASE ~err
      <2>1. WriteFails(buf)
            BY <1>1, <1>3, Zenon DEF Flush
      <2> QED
          BY <1>1, <1>3, <2>1, FailedWrite DEF Written
<1> QED
    BY <1>2, <1>3

-----------------------------------------------------------------------------
(* The invariant                                                           *)

\* Records that were among the bytes w1 are among w2, which begins with them,
\* and as far as they fit in the file f, which w2 begins with too.
LEMMA RecordsAlong ==
    ASSUME NEW w1 \in Seq(Bytes), NEW w2 \in Seq(Bytes), NEW f \in Seq(Bytes),
           Begins(w1, w2), Begins(f, w2), NEW A \in SUBSET Records,
           \A a \in A : Holds(w1, a.pos, a.payload)
    PROVE  \A a \in A : /\ Holds(w2, a.pos, a.payload)
                        /\ a.pos + Width(a.payload) <= Len(f) => Holds(f, a.pos, a.payload)
<1> SUFFICES ASSUME NEW a \in A
             PROVE  /\ Holds(w2, a.pos, a.payload)
                    /\ a.pos + Width(a.payload) <= Len(f) => Holds(f, a.pos, a.payload)
    OBVIOUS
<1>1. a.pos \in Nat /\ a.payload \in Payloads
      BY DEF Records
<1>2. Holds(w2, a.pos, a.payload)
      BY <1>1, HoldsAlong
<1> QED
    BY <1>1, <1>2, HoldsAlong

LEMMA WrittenBytes ==
    ASSUME StoreTypes
    PROVE  /\ Written \in Seq(Bytes) /\ Len(Written) \in Nat
           /\ Begins(file, Written) /\ Begins(Written, Written)
<1>1. file \in Seq(Bytes) /\ buf \in Seq(Bytes)
      BY DEF StoreTypes
<1>2. Written \in Seq(Bytes) /\ Begins(file, Written)
      BY <1>1, BeginsConcat DEF Written
<1>3. Len(Written) \in Nat
      BY <1>2
<1> QED
    BY <1>2, <1>3 DEF Begins

\* The records, after a write or a flush that went well.
LEMMA RecordsAfterWrite ==
    ASSUME StoreInv, ~err, NEW bytes \in Seq(Bytes), file' \in Seq(Bytes), buf' \in Seq(Bytes),
           file' \o buf' = Written \o bytes, NEW A \in SUBSET acked
    PROVE  \A a \in A :
              /\ Holds(Written', a.pos, a.payload)
              /\ a.pos + Width(a.payload) <= Len(file') => Holds(file', a.pos, a.payload)
<1>1. Written \in Seq(Bytes)
      BY WrittenBytes DEF StoreInv
<1>2. Written' = Written \o bytes /\ Written' \in Seq(Bytes)
      BY ConcatProperties DEF Written
<1>3. Begins(Written, Written')
      BY <1>1, <1>2, BeginsConcat
<1>4. Begins(file', Written')
      BY BeginsConcat DEF Written
<1>5. A \in SUBSET Records /\ \A a \in A : Holds(Written, a.pos, a.payload)
      BY DEF StoreInv, StoreTypes, RecordsKept
<1> QED
    BY <1>1, <1>2, <1>3, <1>4, <1>5, RecordsAlong

\* The records, after a write or a flush that failed.
LEMMA RecordsAfterFailure ==
    ASSUME StoreInv, NEW bytes \in Seq(Bytes), file' \in Seq(Bytes), err' = TRUE,
           err => file' = file, ~err => Begins(file', Written \o bytes), UNCHANGED acked
    PROVE  RecordsKept'
<1>1. CASE err
      BY <1>1 DEF StoreInv, RecordsKept
<1>2. CASE ~err
      <2>1. Written \in Seq(Bytes)
            BY WrittenBytes DEF StoreInv
      <2>2. Written \o bytes \in Seq(Bytes) /\ Begins(Written, Written \o bytes)
            BY <2>1, BeginsConcat
      <2>3. acked \in SUBSET Records /\ \A a \in acked : Holds(Written, a.pos, a.payload)
            BY <1>2 DEF StoreInv, StoreTypes, RecordsKept
      <2>4. \A a \in acked :
               a.pos + Width(a.payload) <= Len(file') => Holds(file', a.pos, a.payload)
            BY <1>2, <2>1, <2>2, <2>3, RecordsAlong
      <2> QED
          BY <2>4 DEF RecordsKept
<1>3. err \in BOOLEAN
      BY DEF StoreInv, StoreTypes
<1> QED
    BY <1>1, <1>2, <1>3

\* What was read is not about the state it was read in: an error stays until
\* the restart, and so does a file that is closed.
LEMMA ReadBackKept ==
    ASSUME StoreInv, UNCHANGED read, err => err', closed => closed'
    PROVE  ReadBack'
BY DEF StoreInv, ReadBack

LEMMA StoreInitial == Init => StoreInv
<1> SUFFICES ASSUME Init PROVE StoreInv
    OBVIOUS
<1>1. <<>> \in Seq(Bytes) /\ Len(<<>>) = 0 /\ <<>> \o <<>> = <<>>
      BY EmptySeq, ConcatEmptySeq
<1>2. StoreTypes
      <2>1. file \in Seq(Bytes) /\ buf \in Seq(Bytes) /\ Len(buf) <= BufSize
            BY <1>1 DEF Init
      <2>2. op \in [Clients -> Calls \cup {Idle}] /\ acked \subseteq Records
            BY DEF Init
      <2>3. closed \in BOOLEAN /\ err \in BOOLEAN /\ size \in Nat /\ mu \in Clients \cup {Nobody}
            BY DEF Init
      <2> QED
          BY <2>1, <2>2, <2>3 DEF StoreTypes
<1>3. OneCall /\ RecordsKept /\ ReadBack
      BY DEF Init, OneCall, RecordsKept, ReadBack
<1>4. EndOfWritten
      BY <1>1 DEF Init, EndOfWritten, Written
<1> QED
    BY <1>2, <1>3, <1>4 DEF StoreInv

\* Append takes the mutex and the position, which is the end.
LEMMA Append1Keeps ==
    ASSUME StoreInv, NEW c \in Clients, NEW payload \in Payloads, Append1(c, payload)
    PROVE  StoreInv'
<1> DEFINE call == [pc |-> "header", payload |-> payload, pos |-> size]
<1>1. /\ UNCHANGED <<file, buf, err, closed, size, acked, read>>
      /\ mu = Nobody /\ mu' = c /\ op' = [op EXCEPT ![c] = call]
      BY DEF Append1, Lock, store
<1>2. StoreTypes
      BY DEF StoreInv
<1>3. call \in Calls /\ call # Idle /\ call.pc = "header" /\ call.pos = size
      BY <1>2 DEF StoreTypes, Calls, Idle
<1> HIDE DEF call
<1>4. op' \in [Clients -> Calls \cup {Idle}] /\ op'[c] = call /\ \A d \in Clients \ {c} : op'[d] = op[d]
      BY <1>1, <1>2, <1>3 DEF StoreTypes
<1>5. StoreTypes'
      BY <1>1, <1>2, <1>4 DEF StoreTypes
<1>6. \A d \in Clients : op[d] = Idle
      BY <1>1 DEF StoreInv, OneCall
<1>7. OneCall'
      BY <1>1, <1>3, <1>4, <1>6 DEF OneCall
<1>8. Written' = Written
      BY <1>1 DEF Written
<1>9. EndOfWritten'
      BY <1>1, <1>3, <1>4, <1>6, <1>8 DEF StoreInv, EndOfWritten
<1>10. RecordsKept'
      BY <1>1, <1>8 DEF StoreInv, RecordsKept
<1>11. ReadBack'
      BY <1>1, ReadBackKept
<1> QED
    BY <1>5, <1>7, <1>9, <1>10, <1>11 DEF StoreInv

\* A call that fails, or any failed flush, leaves an error and no call.
LEMMA FailureKeeps ==
    ASSUME StoreInv, NEW bytes \in Seq(Bytes), err' = TRUE, UNCHANGED <<buf, closed, size, acked>>,
           file' \in Seq(Bytes), err => file' = file, ~err => Begins(file', Written \o bytes),
           StoreTypes', OneCall', ReadBack'
    PROVE  StoreInv'
<1>1. EndOfWritten'
      BY DEF EndOfWritten
<1>2. RecordsKept'
      BY RecordsAfterFailure
<1> QED
    BY <1>1, <1>2 DEF StoreInv

\* The client that returns was the only one in a call.
LEMMA ReturnIdles ==
    ASSUME StoreInv, NEW c \in Clients, op[c] # Idle, Return(c)
    PROVE  mu' = Nobody /\ op' \in [Clients -> {Idle}]
<1>1. mu' = Nobody /\ op' = [op EXCEPT ![c] = Idle]
      BY DEF Return
<1>2. \A d \in Clients : d # c => op[d] = Idle
      BY DEF StoreInv, OneCall
<1> QED
    BY <1>1, <1>2 DEF StoreInv, StoreTypes

LEMMA AppendHeaderKeeps ==
    ASSUME StoreInv, NEW c \in Clients, AppendHeader(c)
    PROVE  StoreInv'
<1> DEFINE h == Header(op[c].payload)
<1>1. /\ StoreTypes /\ op[c].pc = "header"
      /\ UNCHANGED <<closed, size, acked, read>>
      BY DEF StoreInv, AppendHeader
<1>2. op[c] \in Calls /\ op[c] # Idle
      BY <1>1 DEF StoreTypes, Idle
<1>3. /\ op[c].payload \in Payloads /\ op[c].pos = size /\ mu = c
      /\ \A d \in Clients : d # c => op[d] = Idle
      BY <1>2 DEF Calls, StoreInv, OneCall
<1>4. h \in Seq(Bytes) /\ Len(h) = LenWidth
      BY <1>3, HeaderBytes
<1>5. CASE BufWrite(h, TRUE) /\ op' = [op EXCEPT ![c].pc = "body"] /\ UNCHANGED mu
      <2> HIDE DEF h
      <2>1. /\ ~err /\ ~err'
            /\ file' \in Seq(Bytes) /\ buf' \in Seq(Bytes) /\ Len(buf') <= BufSize
            /\ file' \o buf' = Written \o h
            BY <1>1, <1>4, <1>5, BufWriteDone
      <2>2. err' \in BOOLEAN
            BY <1>1, <1>4, <1>5, Zenon DEF BufWrite, StoreTypes, store
      <2>3. /\ op'[c] \in Calls /\ op'[c].pc = "body" /\ op'[c] # Idle
            /\ op'[c].payload = op[c].payload /\ op'[c].pos = op[c].pos
            /\ \A d \in Clients : d # c => op'[d] = Idle
            /\ op' \in [Clients -> Calls \cup {Idle}]
            <3>1. [op[c] EXCEPT !.pc = "body"] \in Calls
                  BY <1>2 DEF Calls
            <3>2. op'[c] = [op[c] EXCEPT !.pc = "body"] /\ \A d \in Clients : d # c => op'[d] = op[d]
                  BY <1>1, <1>5 DEF StoreTypes
            <3>3. op' \in [Clients -> Calls \cup {Idle}]
                  BY <1>1, <1>5, <3>1 DEF StoreTypes
            <3>4. op'[c].pc = "body" /\ op'[c].payload = op[c].payload /\ op'[c].pos = op[c].pos
                  BY <1>2, <3>2 DEF Calls
            <3> QED
                BY <1>3, <3>1, <3>2, <3>3, <3>4 DEF Idle
      <2>4. StoreTypes'
            BY <1>1, <1>5, <2>1, <2>2, <2>3 DEF StoreTypes
      <2>5. OneCall'
            BY <1>1, <1>3, <1>5, <2>3 DEF OneCall
      <2>6. Written \in Seq(Bytes) /\ Len(Written) = size
            BY <1>1, <1>2, <2>1, WrittenBytes DEF StoreInv, EndOfWritten
      <2>7. /\ Len(Written \o h) = size + LenWidth
            /\ \A i \in 1..LenWidth : (Written \o h)[size + i] = h[i]
            <3>1. /\ Len(Written \o h) = Len(Written) + Len(h)
                  /\ \A i \in 1..(Len(Written) + Len(h)) : (Written \o h)[i] =
                        IF i <= Len(Written) THEN Written[i] ELSE h[i - Len(Written)]
                  BY <1>4, <2>6, ConcatProperties
            <3>2. size \in Nat /\ LenWidth \in Nat
                  BY <1>1 DEF StoreTypes
            <3>3. \A i \in 1..LenWidth : /\ size + i \in 1..(size + LenWidth)
                                         /\ ~(size + i <= size) /\ (size + i) - size = i
                  BY <3>2
            <3> QED
                BY <1>4, <2>6, <3>1, <3>3
      <2>8. EndOfWritten'
            <3>1. Written' = Written \o h
                  BY <2>1 DEF Written
            <3>2. mu' # Nobody
                  BY <1>3, <1>5
            <3>3. op'[c].payload = op[c].payload /\ size' = size
                  BY <1>1, <2>3
            <3> QED
                BY <2>3, <2>7, <3>1, <3>2, <3>3 DEF EndOfWritten, h
      <2>9. RecordsKept'
            BY <1>1, <1>4, <2>1, RecordsAfterWrite DEF RecordsKept
      <2>10. ReadBack'
            BY <1>1, <2>1, ReadBackKept
      <2> QED
          BY <2>4, <2>5, <2>8, <2>9, <2>10 DEF StoreInv
<1>6. CASE BufWrite(h, FALSE) /\ Return(c)
      <2> HIDE DEF h
      <2>1. /\ err' = TRUE /\ buf' = buf
            /\ file' \in Seq(Bytes)
            /\ err => file' = file
            /\ ~err => Begins(file', Written \o h)
            BY <1>1, <1>4, <1>6, BufWriteFailed
      <2>2. mu' = Nobody /\ op' \in [Clients -> {Idle}]
            BY <1>2, <1>6, ReturnIdles
      <2>3. StoreTypes' /\ OneCall'
            BY <1>1, <2>1, <2>2 DEF StoreTypes, OneCall
      <2>4. ReadBack'
            BY <1>1, <2>1, ReadBackKept
      <2> QED
          BY <1>1, <1>4, <2>1, <2>3, <2>4, FailureKeeps
<1> QED
    BY <1>5, <1>6 DEF AppendHeader

\* The record is written: header and body are at the position taken.
LEMMA AppendBodyKeeps ==
    ASSUME StoreInv, NEW c \in Clients, AppendBody(c)
    PROVE  StoreInv'
<1> DEFINE payload == op[c].payload
           b == Body(payload)
           new == [pos |-> op[c].pos, payload |-> payload]
<1>1. /\ StoreTypes /\ op[c].pc = "body"
      /\ UNCHANGED <<closed, read>> /\ Return(c)
      BY DEF StoreInv, AppendBody
<1>2. op[c] \in Calls /\ op[c] # Idle
      BY <1>1 DEF StoreTypes, Idle
<1>3. payload \in Payloads /\ op[c].pos = size /\ size \in Nat /\ LengthOf[payload] \in Nat
      BY <1>1, <1>2 DEF Calls, StoreInv, OneCall, StoreTypes
<1>4. b \in Seq(Bytes) /\ Len(b) = LengthOf[payload]
      BY <1>3, BodyBytes
<1>5. mu' = Nobody /\ op' \in [Clients -> {Idle}]
      BY <1>1, <1>2, ReturnIdles
<1>6. OneCall'
      BY <1>5 DEF OneCall
<1>7. CASE /\ BufWrite(b, TRUE)
           /\ size' = size + Width(payload)
           /\ acked' = acked \cup {new}
      <2> HIDE DEF b, payload
      <2>1. /\ ~err /\ ~err'
            /\ file' \in Seq(Bytes) /\ buf' \in Seq(Bytes) /\ Len(buf') <= BufSize
            /\ file' \o buf' = Written \o b
            BY <1>1, <1>4, <1>7, BufWriteDone
      <2>2. err' \in BOOLEAN
            BY <1>1, <1>4, <1>7, Zenon DEF BufWrite, StoreTypes, store
      <2>3. Width(payload) = LenWidth + LengthOf[payload] /\ LenWidth \in Nat
            BY <1>3, EncodeBytes
      <2>4. new \in Records /\ new.pos = size /\ new.payload = payload
            BY <1>3 DEF Records
      <2> HIDE DEF new
      <2>5. StoreTypes'
            <3>1. size' \in Nat
                  BY <1>3, <1>7, <2>3
            <3>2. acked' \subseteq Records
                  BY <1>1, <1>7, <2>4 DEF StoreTypes
            <3> QED
                BY <1>1, <1>5, <2>1, <2>2, <3>1, <3>2 DEF StoreTypes
      <2>6. /\ Written \in Seq(Bytes) /\ Len(Written) = size + LenWidth
            /\ \A i \in 1..LenWidth : Written[size + i] = Header(payload)[i]
            BY <1>1, <1>2, <2>1, WrittenBytes DEF StoreInv, EndOfWritten, payload
      <2>7. /\ Len(Written \o b) = size + Width(payload)
            /\ \A i \in 1..(size + Width(payload)) : (Written \o b)[i] =
                  IF i <= size + LenWidth THEN Written[i] ELSE b[i - (size + LenWidth)]
            <3>1. /\ Len(Written \o b) = Len(Written) + Len(b)
                  /\ \A i \in 1..(Len(Written) + Len(b)) : (Written \o b)[i] =
                        IF i <= Len(Written) THEN Written[i] ELSE b[i - Len(Written)]
                  BY <1>4, <2>6, ConcatProperties
            <3>2. Len(Written) + Len(b) = size + Width(payload)
                  BY <1>3, <1>4, <2>3, <2>6
            <3> QED
                BY <2>6, <3>1, <3>2
      <2>8. Written' = Written \o b
            BY <2>1 DEF Written
      <2>9. EndOfWritten'
            BY <1>5, <1>7, <2>7, <2>8 DEF EndOfWritten
      <2>10. Holds(Written', size, payload)
            <3>1. ASSUME NEW i \in 1..Width(payload)
                  PROVE  (Written \o b)[size + i] = Encode(payload)[i]
                  <4>1. size + i \in 1..(size + Width(payload)) /\ i \in Nat
                        BY <1>3, <2>3
                  <4>2. CASE i <= LenWidth
                        <5>1. i \in 1..LenWidth /\ size + i <= size + LenWidth
                              BY <1>3, <2>3, <4>1, <4>2
                        <5> QED
                            BY <1>3, <2>6, <2>7, <4>1, <5>1, EncodeBytes
                  <4>3. CASE ~(i <= LenWidth)
                        <5>1. /\ i - LenWidth \in 1..LengthOf[payload]
                              /\ LenWidth + (i - LenWidth) = i
                              /\ ~(size + i <= size + LenWidth)
                              /\ (size + i) - (size + LenWidth) = i - LenWidth
                              BY <1>3, <2>3, <4>1, <4>3
                        <5>2. (Written \o b)[size + i] = b[i - LenWidth]
                              BY <2>7, <4>1, <5>1
                        <5>3. Encode(payload)[LenWidth + (i - LenWidth)] = Body(payload)[i - LenWidth]
                              BY <1>3, <5>1, EncodeBytes
                        <5> QED
                            BY <5>1, <5>2, <5>3 DEF b
                  <4> QED
                      BY <4>2, <4>3
            <3>2. size + Width(payload) <= Len(Written \o b)
                  BY <1>3, <2>3, <2>7
            <3> QED
                BY <2>8, <3>1, <3>2 DEF Holds
      <2>11. RecordsKept'
            <3>1. \A a \in acked :
                     /\ Holds(Written', a.pos, a.payload)
                     /\ a.pos + Width(a.payload) <= Len(file') => Holds(file', a.pos, a.payload)
                  BY <1>4, <2>1, RecordsAfterWrite
            <3>2. new.pos + Width(new.payload) <= Len(file') => Holds(file', new.pos, new.payload)
                  <4>1. Begins(file', Written')
                        BY <2>1, BeginsConcat DEF Written
                  <4>2. Written' \in Seq(Bytes)
                        BY <2>1, ConcatProperties DEF Written
                  <4> QED
                      BY <1>3, <2>1, <2>4, <2>10, <4>1, <4>2, HoldsAlong
            <3>3. Holds(Written', new.pos, new.payload)
                  BY <2>4, <2>10
            <3> QED
                BY <1>7, <3>1, <3>2, <3>3 DEF RecordsKept
      <2>12. ReadBack'
            BY <1>1, <2>1, ReadBackKept
      <2> QED
          BY <1>6, <2>5, <2>9, <2>11, <2>12 DEF StoreInv
<1>8. CASE BufWrite(b, FALSE) /\ UNCHANGED <<size, acked>>
      <2> HIDE DEF b
      <2>1. /\ err' = TRUE /\ buf' = buf
            /\ file' \in Seq(Bytes)
            /\ err => file' = file
            /\ ~err => Begins(file', Written \o b)
            BY <1>1, <1>4, <1>8, BufWriteFailed
      <2>2. StoreTypes'
            BY <1>1, <1>5, <1>8, <2>1 DEF StoreTypes
      <2>3. ReadBack'
            BY <1>1, <2>1, ReadBackKept
      <2> QED
          BY <1>1, <1>4, <1>6, <1>8, <2>1, <2>2, <2>3, FailureKeeps
<1> QED
    BY <1>7, <1>8 DEF AppendBody

\* A flush that went well changes where the bytes are, not which.
LEMMA FlushKeeps ==
    ASSUME StoreInv, Flush(TRUE), UNCHANGED <<size, mu, op, acked>>, closed' \in BOOLEAN, ReadBack'
    PROVE  StoreInv'
<1>1. StoreTypes
      BY DEF StoreInv
<1>2. /\ ~err /\ ~err' /\ buf' = <<>> /\ file' \in Seq(Bytes)
      /\ Written' = Written
      BY <1>1, FlushDone DEF Written
<1>3. err' \in BOOLEAN
      BY <1>1, Zenon DEF Flush, StoreTypes, store
<1>4. buf' \in Seq(Bytes) /\ Len(buf') <= BufSize
      BY <1>2, EmptySeq
<1>5. StoreTypes' /\ OneCall'
      BY <1>1, <1>2, <1>3, <1>4 DEF StoreInv, StoreTypes, OneCall
<1>6. EndOfWritten'
      BY <1>2 DEF StoreInv, EndOfWritten
<1>7. RecordsKept'
      <2>1. Written \in Seq(Bytes) /\ Begins(Written, Written)
            BY <1>1, WrittenBytes
      <2>2. Begins(file', Written)
            BY <1>2, <1>4, BeginsConcat DEF Written
      <2>3. acked \in SUBSET Records /\ \A a \in acked : Holds(Written, a.pos, a.payload)
            BY <1>1, <1>2 DEF StoreInv, StoreTypes, RecordsKept
      <2>4. \A a \in acked :
               /\ Holds(Written, a.pos, a.payload)
               /\ a.pos + Width(a.payload) <= Len(file') => Holds(file', a.pos, a.payload)
            BY <1>2, <2>1, <2>2, <2>3, RecordsAlong
      <2> QED
          BY <1>2, <2>4 DEF RecordsKept
<1> QED
    BY <1>5, <1>6, <1>7 DEF StoreInv

\* After a flush, the records are in the file.
LEMMA FlushedFound ==
    ASSUME StoreInv, Flush(TRUE), NEW a \in acked
    PROVE  Found(file', a.pos) = {a.payload}
<1>1. ~err /\ file' = Written /\ file' \in Seq(Bytes)
      BY FlushDone DEF StoreInv
<1>2. a.pos \in Nat /\ a.payload \in Payloads /\ Holds(file', a.pos, a.payload)
      BY <1>1 DEF StoreInv, StoreTypes, Records, RecordsKept
<1> QED
    BY <1>1, <1>2, RecordFound

LEMMA FailedFlushKeeps ==
    ASSUME StoreInv, Flush(FALSE), UNCHANGED <<closed, size, mu, op, acked>>, ReadBack'
    PROVE  StoreInv'
<1>1. StoreTypes
      BY DEF StoreInv
<1>2. /\ err' = TRUE /\ buf' = buf /\ file' \in Seq(Bytes)
      /\ err => file' = file
      /\ ~err => Begins(file', Written)
      BY <1>1, FlushFailed
<1>3. Written \o <<>> = Written /\ <<>> \in Seq(Bytes)
      BY <1>1, WrittenBytes, ConcatEmptySeq
<1>4. StoreTypes' /\ OneCall'
      BY <1>1, <1>2 DEF StoreInv, StoreTypes, OneCall
<1> QED
    BY <1>2, <1>3, <1>4, FailureKeeps

LEMMA ReadKeeps ==
    ASSUME StoreInv, NEW c \in Clients, NEW a \in acked, Read(c, a)
    PROVE  StoreInv'
<1>1. UNCHANGED <<closed, size, mu, op, acked>> /\ StoreTypes
      BY DEF Read, StoreInv
<1>2. CASE Flush(TRUE) /\ read' = [want |-> a.payload, got |-> IF closed THEN {} ELSE Found(file', a.pos)]
      <2>1. ReadBack'
            BY <1>1, <1>2, FlushedFound DEF ReadBack
      <2>2. closed' \in BOOLEAN
            BY <1>1 DEF StoreTypes
      <2> QED
          BY <1>1, <1>2, <2>1, <2>2, FlushKeeps
<1>3. CASE Flush(FALSE) /\ read' = [want |-> a.payload, got |-> {}]
      <2>1. err' = TRUE
            BY <1>1, <1>3, FlushFailed
      <2>2. ReadBack'
            BY <1>3, <2>1 DEF ReadBack
      <2> QED
          BY <1>1, <1>3, <2>2, FailedFlushKeeps
<1> QED
    BY <1>2, <1>3 DEF Read

LEMMA CloseKeeps ==
    ASSUME StoreInv, NEW c \in Clients, Close(c)
    PROVE  StoreInv'
<1>1. UNCHANGED <<size, mu, op, acked, read>> /\ StoreTypes
      BY DEF Close, StoreInv
<1>2. CASE Flush(TRUE) /\ closed' = TRUE
      <2>1. ~err
            BY <1>1, <1>2, FlushDone
      <2>2. ReadBack'
            BY <1>1, <1>2, <2>1, ReadBackKept
      <2> QED
          BY <1>1, <1>2, <2>2, FlushKeeps
<1>3. CASE Flush(FALSE) /\ UNCHANGED closed
      <2>1. err' = TRUE
            BY <1>1, <1>3, FlushFailed
      <2>2. ReadBack'
            BY <1>1, <1>3, <2>1, ReadBackKept
      <2> QED
          BY <1>1, <1>3, <2>2, FailedFlushKeeps
<1> QED
    BY <1>2, <1>3 DEF Close

\* The records that fit in the file are in it, whatever was lost.
LEMMA RestartKeeps == StoreInv /\ Restart => StoreInv'
<1> SUFFICES ASSUME StoreInv, Restart PROVE StoreInv'
    OBVIOUS
<1>1. /\ buf' = <<>> /\ err' = FALSE /\ closed' = FALSE /\ size' = Len(file) /\ mu' = Nobody
      /\ op' = [c \in Clients |-> Idle] /\ read' = NoRead /\ file' = file
      /\ acked' = {a \in acked : a.pos + Width(a.payload) <= Len(file)}
      BY DEF Restart
<1>2. file \in Seq(Bytes) /\ Len(file) \in Nat /\ acked \subseteq Records
      BY DEF StoreInv, StoreTypes
<1>3. <<>> \in Seq(Bytes) /\ Len(<<>>) = 0 /\ file \o <<>> = file
      BY <1>2, EmptySeq, ConcatEmptySeq
<1>4. StoreTypes'
      <2>1. buf' \in Seq(Bytes) /\ Len(buf') <= BufSize
            BY <1>1, <1>3
      <2>2. acked' \subseteq Records
            BY <1>1, <1>2
      <2>3. op' \in [Clients -> Calls \cup {Idle}]
            BY <1>1
      <2> QED
          BY <1>1, <1>2, <2>1, <2>2, <2>3 DEF StoreTypes
<1>5. OneCall'
      BY <1>1 DEF OneCall
<1>6. Written' = file
      BY <1>1, <1>3 DEF Written
<1>7. EndOfWritten'
      BY <1>1, <1>6 DEF EndOfWritten
<1>8. RecordsKept'
      BY <1>1, <1>6 DEF StoreInv, RecordsKept
<1>9. ReadBack'
      BY <1>1 DEF ReadBack
<1> QED
    BY <1>4, <1>5, <1>7, <1>8, <1>9 DEF StoreInv

LEMMA StoreStutterKeeps == StoreInv /\ UNCHANGED vars => StoreInv'
BY DEF vars, StoreInv, StoreTypes, OneCall, EndOfWritten, RecordsKept, ReadBack, Written

LEMMA StoreInvariant == Spec => []StoreInv
<1>1. StoreInv /\ [Next]_vars => StoreInv'
      BY Append1Keeps, AppendHeaderKeeps, AppendBodyKeeps, ReadKeeps, CloseKeeps, RestartKeeps,
         StoreStutterKeeps DEF Next, ClientStep
<1> QED
    BY StoreInitial, <1>1, PTL DEF Spec

-----------------------------------------------------------------------------
\* Every position that Append has returned reads back as its record, or as an
\* error after a failed write or Close.
THEOREM RecordsReadBack == Spec => []ReadBack
<1>1. StoreInv => ReadBack
      BY DEF StoreInv
<1> QED
    BY StoreInvariant, <1>1, PTL

\* size is the end of what has been written, and it does not move away from an
\* Append that has its position.
THEOREM StoreSizeIsEnd == Spec => []SizeIsEnd
<1>1. StoreInv => SizeIsEnd
      <2> SUFFICES ASSUME StoreInv PROVE SizeIsEnd
          OBVIOUS
      <2>1. Len(Written) = Len(file) + Len(buf)
            BY BeginsConcat DEF StoreInv, StoreTypes, Written
      <2>2. mu = Nobody /\ ~err => size = Len(file) + Len(buf)
            BY <2>1 DEF StoreInv, EndOfWritten
      <2>3. \A c \in Clients : op[c].pc # "idle" => op[c] # Idle
            BY DEF Idle
      <2>4. \A c \in Clients : op[c].pc # "idle" => mu = c /\ op[c].pos = size
            BY <2>3 DEF StoreInv, OneCall
      <2> QED
          BY <2>2, <2>4 DEF SizeIsEnd
<1> QED
    BY StoreInvariant, <1>1, PTL

\* Close keeps all records, and no step changes a byte of the file.
THEOREM StoreCloseKeepsAll == Spec => CloseKeepsAll
<1> DEFINE Keeps == /\ closed' /\ ~closed => \A a \in acked : Found(file', a.pos) = {a.payload}
                    /\ IsPrefix(file, file')
<1>1. ASSUME StoreInv, Next PROVE Begins(file, file') /\ file' \in Seq(Bytes)
      <2>1. StoreTypes /\ file \in Seq(Bytes) /\ Len(file) \in Nat
            BY <1>1 DEF StoreInv, StoreTypes
      <2>2. CASE file' = file
            BY <2>1, <2>2 DEF Begins
      <2>3. ASSUME NEW bytes \in Seq(Bytes), NEW ok \in BOOLEAN, BufWrite(bytes, ok)
            PROVE  Begins(file, file') /\ file' \in Seq(Bytes)
            BY <2>1, <2>3, BufWriteDone, BufWriteFailed
      <2>4. ASSUME NEW ok \in BOOLEAN, Flush(ok)
            PROVE  Begins(file, file') /\ file' \in Seq(Bytes)
            BY <2>1, <2>4, FlushDone, FlushFailed
      <2>5. ASSUME NEW c \in Clients, AppendHeader(c)
            PROVE  Begins(file, file') /\ file' \in Seq(Bytes)
            <3>1. op[c].payload \in Payloads
                  BY <2>1, <2>5 DEF AppendHeader, StoreTypes, Calls, Idle
            <3> QED
                BY <2>3, <2>5, <3>1, HeaderBytes DEF AppendHeader
      <2>6. ASSUME NEW c \in Clients, AppendBody(c)
            PROVE  Begins(file, file') /\ file' \in Seq(Bytes)
            <3>1. op[c].payload \in Payloads
                  BY <2>1, <2>6 DEF AppendBody, StoreTypes, Calls, Idle
            <3> QED
                BY <2>3, <2>6, <3>1, BodyBytes DEF AppendBody
      <2>7. ASSUME NEW c \in Clients, Close(c) \/ \E a \in acked : Read(c, a)
            PROVE  Begins(file, file') /\ file' \in Seq(Bytes)
            BY <2>4, <2>7 DEF Close, Read
      <2>8. ASSUME Restart \/ \E c \in Clients, payload \in Payloads : Append1(c, payload)
            PROVE  file' = file
            BY <2>8 DEF Restart, Append1, store
      <2> QED
          BY <1>1, <2>2, <2>5, <2>6, <2>7, <2>8 DEF Next, ClientStep
<1>2. ASSUME StoreInv, Next PROVE IsPrefix(file, file')
      <2>1. file \in Seq(Bytes)
            BY <1>2 DEF StoreInv, StoreTypes
      <2> QED
          BY <1>1, <1>2, <2>1, BeginsIsPrefix
<1>3. ASSUME StoreInv, Next, closed', ~closed
      PROVE  \A a \in acked : Found(file', a.pos) = {a.payload}
      <2>1. \E c \in Clients : Close(c)
            BY <1>3, Zenon DEF Next, ClientStep, AppendHeader, AppendBody, Append1, Read, Restart
      <2>2. Flush(TRUE)
            BY <1>3, <2>1, Zenon DEF Close
      <2> QED
          BY <1>3, <2>2, FlushedFound
<1>4. StoreInv /\ [Next]_vars => [Keeps]_vars
      BY <1>2, <1>3
<1> QED
    BY StoreInvariant, <1>4, PTL DEF Spec, CloseKeepsAll

=============================================================================
