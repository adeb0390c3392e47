--------------------------- MODULE SpscQueueProofs ---------------------------
(***************************************************************************)
(* Proofs about the SPSC queue, for every capacity and number of items.    *)
(***************************************************************************)
EXTENDS SpscQueue, TLAPS

W == Len(wStores)
R == Len(rStores)

\* How far the threads are apart, as far as each has seen.  The producer has
\* seen enough pops that what it writes next cannot lap the consumer.
Distance ==
    /\ R <= cView
    /\ cpc \in {"read", "store"} => R < cView
    /\ W - pView <= Capacity - 1
    /\ ppc \in {"write", "store"} => W - pView <= Capacity - 2 /\ W - 1 < Items

\* The two indices run through the same values; up to a lap apart, the
\* difference of two positions gives the difference of the slots.
Lockstep ==
    /\ \A k \in 1..R : rStores[k] = wStores[k]
    /\ \A k \in 1..(W - 1) : wStores[k + 1] = NextIdx(wStores[k])
    /\ \A i, j \in 1..W : i <= j /\ j - i <= Capacity =>
          wStores[j] \in {wStores[i] + (j - i), wStores[i] + (j - i) - Capacity}

\* The slots between the indices hold the items pushed and not popped.
Data ==
    /\ \A k \in R..(W - 1) : buffer[wStores[k]] = k - 1
    /\ ppc = "store" => buffer[wStores[W]] = W - 1
    /\ cpc = "store" => popped = R - 1
    /\ Len(got) = R - 1
    /\ InOrder

Inv == TypeOK /\ Distance /\ Lockstep /\ Data

-----------------------------------------------------------------------------
\* The next slot is a slot.
LEMMA NextIdxType ==
    ASSUME NEW i \in Slots
    PROVE  NextIdx(i) \in Slots
BY SpscAssumption DEF Slots, NextIdx

\* A lap less one slot after a, the next slot is a.
LEMMA NextIdxLap ==
    ASSUME NEW a \in Slots, NEW b \in Slots, b \in {a + (Capacity - 1), a + (Capacity - 1) - Capacity}
    PROVE  NextIdx(b) = a
BY SpscAssumption DEF Slots, NextIdx

\* The empty queue.
LEMMA InitInv == Init => Inv
<1> SUFFICES ASSUME Init PROVE Inv
  OBVIOUS
<1>1. 0 \in Slots /\ wStores = <<0>> /\ rStores = <<0>>
  BY SpscAssumption DEF Init, Slots
<1>2. /\ wStores \in Seq(Slots) /\ rStores \in Seq(Slots) /\ W = 1 /\ R = 1
      /\ wStores[1] = 0 /\ rStores[1] = 0
  BY <1>1 DEF W, R
<1>3. TypeOK
  BY <1>2 DEF Init, TypeOK, W, R
<1>4. Distance /\ Lockstep
  BY <1>2, SpscAssumption DEF Init, Distance, Lockstep
<1>5. Data
  BY <1>2 DEF Init, Data, InOrder
<1> QED
  BY <1>3, <1>4, <1>5 DEF Inv

\* Positions less than a lap apart are different slots.
LEMMA DifferentSlots ==
    ASSUME Inv, NEW i \in 1..W, NEW j \in 1..W, i < j, j - i < Capacity
    PROVE  wStores[i] # wStores[j]
<1>1. wStores[i] \in Slots /\ W \in Nat
  BY DEF Inv, TypeOK, W
<1>2. wStores[j] \in {wStores[i] + (j - i), wStores[i] + (j - i) - Capacity}
  BY SpscAssumption DEF Inv, Lockstep
<1> QED
  BY <1>1, <1>2, SpscAssumption DEF Slots

\* What the lengths are, in every good state.
LEMMA Positions ==
    ASSUME Inv
    PROVE  /\ W \in Nat /\ W >= 1 /\ R \in Nat /\ R >= 1
           /\ pView \in Nat /\ 1 <= pView /\ pView <= R
           /\ cView \in Nat /\ R <= cView /\ cView <= W
           /\ W - R <= Capacity - 1
           /\ wStores[W] \in Slots /\ rStores[R] \in Slots
           /\ WriteIdx = wStores[W] /\ ReadIdx = rStores[R] /\ ReadIdx = wStores[R]
           /\ Pushed = W - 1 /\ PoppedCount = R - 1
<1>1. /\ wStores \in Seq(Slots) /\ rStores \in Seq(Slots) /\ Len(wStores) >= 1 /\ Len(rStores) >= 1
      /\ pView \in 1..Len(rStores) /\ cView \in 1..Len(wStores)
  BY DEF Inv, TypeOK
<1>2. R <= cView /\ W - pView <= Capacity - 1 /\ \A k \in 1..R : rStores[k] = wStores[k]
  BY DEF Inv, Distance, Lockstep
<1> QED
  BY <1>1, <1>2, SpscAssumption DEF W, R, WriteIdx, ReadIdx, Pushed, PoppedCount

-----------------------------------------------------------------------------
\* Past the test, the producer has seen the slot it writes next to be free.
LEMMA PushLoadInv ==
    ASSUME Inv, NEW j \in 1..Len(rStores), PushLoad(j)
    PROVE  Inv'
<1>1. UNCHANGED <<W, R, wStores, rStores, buffer, cView, cpc, popped, got>>
  BY DEF PushLoad, W, R
<1>2. TypeOK'
  BY DEF Inv, TypeOK, PushLoad
<1>3. Distance'
  <2>1. j \in Nat /\ pView <= j /\ j <= R /\ pView' = j
    BY Positions DEF PushLoad, R
  <2>2. W - j <= Capacity - 1
    BY <2>1, Positions, SpscAssumption DEF Inv, Distance
  <2>3. ASSUME ~ Full(rStores[j]) PROVE W - j <= Capacity - 2
    <3>1. SUFFICES ASSUME W - j = Capacity - 1 PROVE FALSE
      BY <2>1, <2>2, Positions, SpscAssumption
    <3>2. j \in 1..W /\ W \in 1..W /\ j <= W /\ W - j <= Capacity
      BY <2>1, <3>1, Positions, SpscAssumption
    <3>3. wStores[W] \in {wStores[j] + (W - j), wStores[j] + (W - j) - Capacity}
      BY <3>2 DEF Inv, Lockstep
    <3>4. wStores[j] \in Slots /\ wStores[W] \in Slots
      BY <3>2, Positions DEF Inv, TypeOK, W
    <3>5. NextIdx(wStores[W]) = wStores[j]
      BY <3>1, <3>3, <3>4, NextIdxLap
    <3>6. rStores[j] = wStores[j]
      BY <2>1 DEF Inv, Lockstep
    <3> QED
      BY <2>3, <3>5, <3>6, Positions DEF Full
  <2>4. ppc' \in {"write", "store"} => ~ Full(rStores[j]) /\ W - 1 < Items
    BY Positions DEF PushLoad
  <2> QED
    BY <1>1, <2>1, <2>2, <2>3, <2>4 DEF Inv, Distance
<1>4. Lockstep'
  BY <1>1 DEF Inv, Lockstep
<1>5. Data'
  BY <1>1 DEF Inv, Data, InOrder, PushLoad
<1> QED
  BY <1>2, <1>3, <1>4, <1>5 DEF Inv

\* The slot written is none of those that hold items.
LEMMA PushWriteInv ==
    ASSUME Inv, PushWrite
    PROVE  Inv'
<1>1. UNCHANGED <<W, R, wStores, rStores, pView, cView, cpc, popped, got>> /\ ppc = "write" /\ ppc' = "store"
  BY DEF PushWrite, W, R
<1>2. buffer \in [Slots -> Nat \cup {Uninit}] /\ buffer' = [buffer EXCEPT ![wStores[W]] = W - 1]
  BY Positions DEF Inv, TypeOK, PushWrite
<1>3. TypeOK'
  BY <1>1, <1>2, Positions DEF Inv, TypeOK
<1>4. Distance'
  BY <1>1 DEF Inv, Distance
<1>5. Lockstep'
  BY <1>1 DEF Inv, Lockstep
<1>6. \A k \in R..(W - 1) : wStores[k] # wStores[W] /\ wStores[k] \in Slots
  <2>1. SUFFICES ASSUME NEW k \in R..(W - 1) PROVE wStores[k] # wStores[W] /\ wStores[k] \in Slots
    OBVIOUS
  <2>2. k \in 1..W /\ W \in 1..W /\ k < W /\ W - k < Capacity
    BY Positions, SpscAssumption
  <2> QED
    BY <2>2, DifferentSlots DEF Inv, TypeOK, W
<1>7. Data'
  BY <1>1, <1>2, <1>6, Positions DEF Inv, Data, InOrder
<1> QED
  BY <1>3, <1>4, <1>5, <1>7 DEF Inv

\* Publishing moves the window by one.
LEMMA PushStoreInv ==
    ASSUME Inv, PushStore
    PROVE  Inv'
<1>1. UNCHANGED <<R, buffer, rStores, pView, cView, cpc, popped, got>> /\ ppc = "store" /\ ppc' = "load"
  BY DEF PushStore, R
<1>2. /\ wStores \in Seq(Slots) /\ NextIdx(wStores[W]) \in Slots
      /\ wStores' = Append(wStores, NextIdx(wStores[W]))
  BY Positions, NextIdxType DEF Inv, TypeOK, PushStore
<1>3. /\ wStores' \in Seq(Slots) /\ W' = W + 1 /\ wStores'[W + 1] = NextIdx(wStores[W])
      /\ \A k \in 1..W : wStores'[k] = wStores[k] /\ wStores[k] \in Slots
  BY <1>2 DEF W
<1>4. TypeOK'
  BY <1>1, <1>3, Positions DEF Inv, TypeOK, W, R
<1>5. Distance'
  BY <1>1, <1>3, Positions, SpscAssumption DEF Inv, Distance
<1>6. Lockstep'
  <2>1. \A k \in 1..R : rStores[k] = wStores'[k]
    BY <1>3, Positions DEF Inv, Lockstep
  <2>2. \A k \in 1..W : wStores'[k + 1] = NextIdx(wStores'[k])
    BY <1>3, Positions DEF Inv, Lockstep
  <2>3. ASSUME NEW i \in 1..(W + 1), NEW j \in 1..(W + 1), i <= j, j - i <= Capacity
        PROVE  wStores'[j] \in {wStores'[i] + (j - i), wStores'[i] + (j - i) - Capacity}
    <3>1. CASE j \in 1..W
      <4>1. i \in 1..W /\ wStores'[i] = wStores[i] /\ wStores'[j] = wStores[j]
        BY <1>3, <2>3, <3>1, Positions
      <4> QED
        BY <2>3, <3>1, <4>1 DEF Inv, Lockstep
    <3>2. CASE j = W + 1 /\ i = W + 1
      <4>1. wStores'[j] \in Slots
        BY <1>3, <1>2, <3>2
      <4> QED
        BY <3>2, <4>1, Positions, SpscAssumption DEF Slots
    <3>3. CASE j = W + 1 /\ i \in 1..W
      <4>1. wStores[W] \in {wStores[i] + (W - i), wStores[i] + (W - i) - Capacity}
        BY <2>3, <3>3, Positions, SpscAssumption DEF Inv, Lockstep
      <4>2. wStores[W] \in Slots /\ wStores[i] \in Slots
        BY <1>3, <3>3, Positions
      <4>3. wStores'[j] = NextIdx(wStores[W]) /\ wStores'[i] = wStores[i]
        BY <1>3, <3>3
      <4> QED
        BY <4>1, <4>2, <4>3, <2>3, <3>3, Positions, SpscAssumption DEF NextIdx, Slots
    <3> QED
      BY <3>1, <3>2, <3>3, Positions
  <2> QED
    BY <1>1, <1>3, <2>1, <2>2, <2>3, Positions DEF Lockstep
<1>7. Data'
  <2>1. ASSUME NEW k \in R..W PROVE buffer[wStores'[k]] = k - 1
    <3>1. CASE k \in R..(W - 1)
      <4>1. k \in 1..W /\ wStores'[k] = wStores[k]
        BY <1>3, <3>1, Positions
      <4> QED
        BY <3>1, <4>1 DEF Inv, Data
    <3>2. CASE k = W
      BY <1>1, <1>3, <3>2, Positions DEF Inv, Data
    <3> QED
      BY <3>1, <3>2, Positions
  <2>2. R..(W' - 1) = R..W
    BY <1>3, Positions
  <2> QED
    BY <1>1, <2>1, <2>2 DEF Inv, Data, InOrder
<1> QED
  BY <1>4, <1>5, <1>6, <1>7 DEF Inv

\* Past the test, the consumer has seen a store after the one it is at.
LEMMA PopLoadInv ==
    ASSUME Inv, NEW j \in 1..Len(wStores), PopLoad(j)
    PROVE  Inv'
<1>1. UNCHANGED <<W, R, wStores, rStores, buffer, pView, ppc, popped, got>> /\ cpc = "load"
  BY DEF PopLoad, W, R
<1>2. TypeOK'
  BY DEF Inv, TypeOK, PopLoad
<1>3. j \in Nat /\ cView <= j /\ j <= W /\ cView' = j
  BY Positions DEF PopLoad, W
<1>4. cpc' \in {"read", "store"} => R < j
  BY <1>3, Positions DEF PopLoad, Empty
<1>5. Distance'
  BY <1>1, <1>3, <1>4, Positions DEF Inv, Distance
<1>6. Lockstep' /\ Data'
  BY <1>1 DEF Inv, Lockstep, Data, InOrder, PopLoad
<1> QED
  BY <1>2, <1>5, <1>6 DEF Inv

\* The slot read holds the oldest item.
LEMMA PopReadInv ==
    ASSUME Inv, PopRead
    PROVE  Inv'
<1>1. UNCHANGED <<W, R, wStores, rStores, buffer, pView, cView, ppc, got>> /\ cpc = "read" /\ cpc' = "store"
  BY DEF PopRead, W, R
<1>2. popped' = R - 1
  <2>1. R \in R..(W - 1)
    BY <1>1, Positions DEF Inv, Distance
  <2> QED
    BY <2>1, Positions DEF Inv, Data, PopRead
<1>3. TypeOK'
  BY <1>1, <1>2, Positions DEF Inv, TypeOK
<1>4. Distance' /\ Lockstep'
  BY <1>1 DEF Inv, Distance, Lockstep
<1>5. Data'
  BY <1>1, <1>2 DEF Inv, Data, InOrder
<1> QED
  BY <1>3, <1>4, <1>5 DEF Inv

\* The read index follows the write index.
LEMMA PopStoreInv ==
    ASSUME Inv, PopStore
    PROVE  Inv'
<1>1. UNCHANGED <<W, buffer, wStores, pView, cView, ppc, popped>> /\ cpc = "store" /\ cpc' = "load"
  BY DEF PopStore, W
<1>2. /\ rStores \in Seq(Slots) /\ NextIdx(rStores[R]) \in Slots
      /\ rStores' = Append(rStores, NextIdx(rStores[R]))
  BY Positions, NextIdxType DEF Inv, TypeOK, PopStore
<1>3. /\ rStores' \in Seq(Slots) /\ R' = R + 1 /\ rStores'[R + 1] = NextIdx(rStores[R])
      /\ \A k \in 1..R : rStores'[k] = rStores[k]
  BY <1>2 DEF R
<1>4. R < cView /\ popped = R - 1 /\ R - 1 \in Nat
  BY <1>1, Positions DEF Inv, Distance, Data
<1>5. /\ got \in Seq(Nat \cup {Uninit}) /\ Len(got) = R - 1 /\ got' = Append(got, popped)
  BY DEF Inv, TypeOK, Data, PopStore
<1>6. /\ got' \in Seq(Nat \cup {Uninit}) /\ Len(got') = R /\ got'[R] = R - 1
      /\ \A k \in 1..(R - 1) : got'[k] = got[k]
  BY <1>4, <1>5, Positions
<1>7. TypeOK'
  BY <1>1, <1>3, <1>6, Positions DEF Inv, TypeOK, R
<1>8. Distance'
  BY <1>1, <1>3, <1>4, Positions DEF Inv, Distance
<1>9. Lockstep'
  <2>1. rStores'[R + 1] = wStores[R + 1]
    BY <1>3, <1>4, Positions DEF Inv, Lockstep
  <2>2. \A k \in 1..(R + 1) : rStores'[k] = wStores[k]
    BY <1>3, <2>1, Positions DEF Inv, Lockstep
  <2> QED
    BY <1>1, <1>3, <2>2 DEF Inv, Lockstep
<1>10. InOrder'
  <2>1. \A k \in 1..(R - 1) : got[k] = k - 1
    BY <1>5 DEF Inv, Data, InOrder
  <2>2. DOMAIN got' = 1..R
    BY <1>6
  <2> QED
    BY <1>6, <2>1, <2>2, Positions DEF InOrder
<1>11. Data'
  BY <1>1, <1>3, <1>6, <1>10, Positions DEF Inv, Data
<1> QED
  BY <1>7, <1>8, <1>9, <1>11 DEF Inv

\* Every step keeps the invariant.
LEMMA NextInv == ASSUME Inv, [Next]_vars PROVE Inv'
<1>1. CASE UNCHANGED vars
  BY <1>1 DEF Inv, TypeOK, Distance, Lockstep, Data, InOrder, W, R, vars
<1> QED
  BY <1>1, PushLoadInv, PushWriteInv, PushStoreInv, PopLoadInv, PopReadInv, PopStoreInv
     DEF Next, Producer, Consumer, Finished

\* The inductive invariant holds for every capacity and number of items.
THEOREM Invariance == Spec => []Inv
BY InitInv, NextInv, PTL DEF Spec

-----------------------------------------------------------------------------
\* No index ever leaves the buffer.
THEOREM TypeCorrect == Spec => []TypeOK
<1>1. Inv => TypeOK
  BY DEF Inv
<1> QED
  BY <1>1, Invariance, PTL

\* The consumer receives the items in order, each once, for every capacity,
\* every number of items and every staleness of the loads.
THEOREM DeliveryInOrder == Spec => []InOrder
<1>1. Inv => InOrder
  BY DEF Inv, Data
<1> QED
  BY <1>1, Invariance, PTL

\* The two threads never race on a slot.
THEOREM NoDataRace == Spec => []RaceFree
<1>1. ASSUME Inv PROVE RaceFree
  <2>1. ASSUME ppc = "write", NEW k \in 1..Pushed, wStores[k] = WriteIdx PROVE k < pView
    <3>1. SUFFICES ASSUME pView <= k PROVE FALSE
      BY <1>1, Positions
    <3>2. k \in 1..W /\ W \in 1..W /\ k < W /\ W - k < Capacity
      BY <1>1, <2>1, <3>1, Positions, SpscAssumption DEF Inv, Distance
    <3> QED
      BY <1>1, <2>1, <3>2, DifferentSlots, Positions
  <2>2. cpc = "read" => Len(rStores) < cView
    BY <1>1 DEF Inv, Distance, R
  <2> QED
    BY <2>1, <2>2 DEF RaceFree
<1> QED
  BY <1>1, Invariance, PTL

-----------------------------------------------------------------------------
(* The refinement                                                          *)

\* What the abstract queue holds when positions r .. w - 1 hold items.
LEMMA ContentsValue ==
    ASSUME NEW w \in Nat, NEW r \in Nat, 1 <= r, r <= w,
           NEW c, c = [k \in 1..(w - r) |-> r + k - 2]
    PROVE  c \in Seq(Nat) /\ Len(c) = w - r /\ \A k \in 1..(w - r) : c[k] = r + k - 2
<1>1. w - r \in Nat
  OBVIOUS
<1>2. \A k \in 1..(w - r) : r + k - 2 \in Nat
  OBVIOUS
<1>3. \A k \in 1..(w - r) : c[k] = r + k - 2
  OBVIOUS
<1>4. c \in [1..(w - r) -> Nat]
  BY <1>2
<1>5. c \in Seq(Nat) /\ Len(c) = w - r
  BY <1>1, <1>4
<1> QED
  BY <1>3, <1>5

\* Its value in a good state.
LEMMA ContentsNow ==
    ASSUME Inv
    PROVE  Contents \in Seq(Nat) /\ Len(Contents) = W - R /\ \A k \in 1..(W - R) : Contents[k] = R + k - 2
<1>1. \A k \in R..(W - 1) : buffer[wStores[k]] = k - 1
  BY DEF Inv, Data
<1>2. Contents = [k \in 1..(W - R) |-> buffer[wStores[R + k - 1]]]
  BY DEF Contents, W, R
<1>3. W \in Nat /\ R \in Nat /\ 1 <= R /\ R <= W
  BY Positions
<1>4. PICK b, ws, w, r, c : b = buffer /\ ws = wStores /\ w = W /\ r = R /\ c = Contents
  OBVIOUS
<1>5. w \in Nat /\ r \in Nat /\ 1 <= r /\ r <= w /\ c = [k \in 1..(w - r) |-> b[ws[r + k - 1]]]
  BY <1>2, <1>3, <1>4
<1>6. \A k \in r..(w - 1) : b[ws[k]] = k - 1
  BY <1>1, <1>4
<1>7. c = [k \in 1..(w - r) |-> r + k - 2]
  <2>1. \A k \in 1..(w - r) : b[ws[r + k - 1]] = r + k - 2
    <3> SUFFICES ASSUME NEW k \in 1..(w - r) PROVE b[ws[r + k - 1]] = r + k - 2
      OBVIOUS
    <3>1. r + k - 1 \in r..(w - 1) /\ (r + k - 1) - 1 = r + k - 2
      BY <1>5
    <3> QED
      BY <3>1, <1>6
  <2> QED
    BY <2>1, <1>5
<1>8. c \in Seq(Nat) /\ Len(c) = w - r /\ \A k \in 1..(w - r) : c[k] = r + k - 2
  BY <1>5, <1>7, ContentsValue
<1> QED
  BY <1>4, <1>8

\* The same for the state after a step.
LEMMA ContentsNext ==
    ASSUME Inv', W' \in Nat, R' \in Nat, 1 <= R', R' <= W'
    PROVE  /\ Contents' \in Seq(Nat) /\ Len(Contents') = W' - R'
           /\ \A k \in 1..(W' - R') : Contents'[k] = R' + k - 2
<1>1. \A k \in R'..(W' - 1) : buffer'[wStores'[k]] = k - 1
  BY DEF Inv, Data
<1>2. Contents' = [k \in 1..(W' - R') |-> buffer'[wStores'[R' + k - 1]]]
  BY DEF Contents, W, R
<1>3. PICK b, ws, w, r, c : b = buffer' /\ ws = wStores' /\ w = W' /\ r = R' /\ c = Contents'
  OBVIOUS
<1>4. w \in Nat /\ r \in Nat /\ 1 <= r /\ r <= w /\ c = [k \in 1..(w - r) |-> b[ws[r + k - 1]]]
  BY <1>2, <1>3
<1>5. \A k \in r..(w - 1) : b[ws[k]] = k - 1
  BY <1>1, <1>3
<1>6. c = [k \in 1..(w - r) |-> r + k - 2]
  <2>1. \A k \in 1..(w - r) : b[ws[r + k - 1]] = r + k - 2
    <3> SUFFICES ASSUME NEW k \in 1..(w - r) PROVE b[ws[r + k - 1]] = r + k - 2
      OBVIOUS
    <3>1. r + k - 1 \in r..(w - 1) /\ (r + k - 1) - 1 = r + k - 2
      BY <1>4
    <3> QED
      BY <3>1, <1>5
  <2> QED
    BY <2>1, <1>4
<1>7. c \in Seq(Nat) /\ Len(c) = w - r /\ \A k \in 1..(w - r) : c[k] = r + k - 2
  BY <1>4, <1>6, ContentsValue
<1> QED
  BY <1>3, <1>7

\* The empty ring buffer is the empty queue.
LEMMA FifoInit == Init => Fifo!Init
<1> SUFFICES ASSUME Init PROVE Fifo!Init
  OBVIOUS
<1>1. Len(wStores) = 1 /\ Len(rStores) = 1 /\ got = <<>>
  BY DEF Init
<1>2. Contents = <<>>
  BY <1>1 DEF Contents
<1>3. Pushed = 0
  BY <1>1 DEF Pushed
<1> QED
  BY <1>1, <1>2, <1>3 DEF Fifo!Init

\* Every step of the ring buffer is a step of the queue or none: the stores
\* are the pushes and pops.
LEMMA FifoStep ==
    ASSUME Inv, Inv', [Next]_vars
    PROVE  [Fifo!Next]_<<Contents, Pushed, got>>
<1>1. CASE PushStore
  <2>1. UNCHANGED <<R, got>> /\ W' = W + 1 /\ Pushed' = Pushed + 1 /\ Pushed = W - 1
    <3>1. wStores \in Seq(Slots) /\ wStores' = Append(wStores, NextIdx(wStores[W]))
      BY <1>1, Positions DEF PushStore, Inv, TypeOK
    <3> QED
      BY <1>1, <3>1, Positions DEF PushStore, W, R, Pushed
  <2>2. Pushed < Items /\ W - R < Capacity - 1
    <3>1. W - pView <= Capacity - 2 /\ W - 1 < Items
      BY <1>1 DEF Inv, Distance, PushStore
    <3> QED
      BY <2>1, <3>1, Positions, SpscAssumption
  <2>3. Contents' = Append(Contents, Pushed)
    <3>1. /\ Contents' \in Seq(Nat) /\ Len(Contents') = W + 1 - R
          /\ \A k \in 1..(W + 1 - R) : Contents'[k] = R + k - 2
      <4>1. R' = R /\ W' = W + 1 /\ W' \in Nat /\ 1 <= R /\ R <= W'
        BY <2>1, Positions
      <4> QED
        BY <4>1, ContentsNext, Positions
    <3>2. /\ Contents \in Seq(Nat) /\ Len(Contents) = W - R
          /\ \A k \in 1..(W - R) : Contents[k] = R + k - 2
      BY ContentsNow
    <3>3. /\ Append(Contents, Pushed) \in Seq(Nat)
          /\ Len(Append(Contents, Pushed)) = W + 1 - R
          /\ \A k \in 1..(W + 1 - R) : Append(Contents, Pushed)[k] = R + k - 2
      <4>1. W - R \in Nat /\ Pushed \in Nat /\ W + 1 - R = (W - R) + 1 /\ Pushed = R + (W + 1 - R) - 2
        BY <2>1, Positions
      <4>2. /\ Append(Contents, Pushed) \in Seq(Nat)
            /\ Len(Append(Contents, Pushed)) = (W - R) + 1
            /\ \A k \in 1..(W - R) : Append(Contents, Pushed)[k] = Contents[k]
            /\ Append(Contents, Pushed)[W - R + 1] = Pushed
        BY <3>2, <4>1
      <4> QED
        BY <3>2, <4>1, <4>2
    <3> QED
      BY <3>1, <3>3
  <2> QED
    BY <2>1, <2>2, <2>3, ContentsNow DEF Fifo!Next, Fifo!Push
<1>2. CASE PopStore
  <2>1. UNCHANGED <<W, Pushed>> /\ R' = R + 1 /\ popped = R - 1 /\ R < W /\ got' = Append(got, popped)
    <3>1. rStores \in Seq(Slots) /\ rStores' = Append(rStores, NextIdx(rStores[R]))
      BY <1>2, Positions DEF PopStore, Inv, TypeOK
    <3>2. popped = R - 1 /\ R < W
      BY <1>2, Positions DEF Inv, Distance, Data, PopStore
    <3> QED
      BY <1>2, <3>1, <3>2, Positions DEF PopStore, W, R, Pushed
  <2>2. /\ Contents \in Seq(Nat) /\ Len(Contents) = W - R
        /\ \A k \in 1..(W - R) : Contents[k] = R + k - 2
    BY ContentsNow
  <2>3. Contents # <<>> /\ Head(Contents) = R - 1
    BY <2>1, <2>2, Positions
  <2>4. Contents' = Tail(Contents)
    <3>1. /\ Contents' \in Seq(Nat) /\ Len(Contents') = W - (R + 1)
          /\ \A k \in 1..(W - (R + 1)) : Contents'[k] = (R + 1) + k - 2
      BY <2>1, ContentsNext, Positions
    <3>2. /\ Tail(Contents) \in Seq(Nat) /\ Len(Tail(Contents)) = W - (R + 1)
          /\ \A k \in 1..(W - (R + 1)) : Tail(Contents)[k] = Contents[k + 1]
      BY <2>1, <2>2, <2>3, Positions
    <3>3. \A k \in 1..(W - (R + 1)) : Contents[k + 1] = (R + 1) + k - 2
      BY <2>2, Positions
    <3> QED
      BY <3>1, <3>2, <3>3
  <2> QED
    BY <2>1, <2>3, <2>4 DEF Fifo!Next, Fifo!Pop
<1>3. CASE UNCHANGED <<wStores, rStores, got>>
  <2>1. UNCHANGED <<W, R, Pushed>>
    BY <1>3 DEF W, R, Pushed
  <2>2. Contents' = Contents
    <3>1. /\ Contents' \in Seq(Nat) /\ Len(Contents') = W - R
          /\ \A k \in 1..(W - R) : Contents'[k] = R + k - 2
      BY <2>1, ContentsNext, Positions
    <3> QED
      BY <3>1, ContentsNow
  <2> QED
    BY <1>3, <2>1, <2>2
<1> QED
  BY <1>1, <1>2, <1>3 DEF Next, Producer, Consumer, Finished, PushLoad, PushWrite, PopLoad, PopRead, vars

\* The ring buffer implements the bounded FIFO queue, for every capacity: push
\* and pop take effect at their Release store, all at once.
THEOREM Refinement == Spec => ImplementsFifo
<1>1. Inv /\ Inv' /\ [Next]_vars => [Fifo!Next]_<<Contents, Pushed, got>>
  BY FifoStep
<1> QED
  BY FifoInit, Invariance, <1>1, PTL DEF Spec, ImplementsFifo, Fifo!Spec
=============================================================================
