--------------------------- MODULE SpscRingProofs ---------------------------
(***************************************************************************)
(* The byte ring delivers the stream in order and its two sides never race *)
(* on a slot, for every capacity and every length of push and pop.         *)
(***************************************************************************)
EXTENDS SpscRing, SequenceTheorems, TLAPS

-----------------------------------------------------------------------------
(* Arithmetic of remainders.                                               *)

\* A count is a multiple of N and a remainder.
LEMMA DivMod ==
  ASSUME NEW N \in Nat \ {0}, NEW a \in Nat
  PROVE  \E k \in Int, r \in 0 .. N - 1 : a = N * k + r /\ a % N = r
PROOF
  <1>1. a = N * (a \div N) + (a % N)
    BY SMT
  <1>2. a \div N \in Int
    BY SMT
  <1>3. a % N \in 0 .. N - 1
    BY SMT
  <1> QED BY <1>1, <1>2, <1>3

\* The remainder of N * k + r is r.
LEMMA ModOf ==
  ASSUME NEW N \in Nat \ {0}, NEW k \in Int, NEW r \in 0 .. N - 1
  PROVE  (N * k + r) % N = r
PROOF BY SMT

\* A number below twice N is reduced by N at most once.
LEMMA ModOnce ==
  ASSUME NEW N \in Nat \ {0}, NEW x \in 0 .. 2 * N - 1
  PROVE  x % N = IF x < N THEN x ELSE x - N
PROOF BY SMT

\* Going i < N places on from a count wraps at most once.
LEMMA ModAdd ==
  ASSUME NEW N \in Nat \ {0}, NEW a \in Nat, NEW i \in 0 .. N - 1
  PROVE  \E r \in 0 .. N - 1 :
           /\ a % N = r
           /\ (a + i) % N = IF r + i < N THEN r + i ELSE r + i - N
PROOF
  <1>1. PICK k \in Int, r \in 0 .. N - 1 : a = N * k + r /\ a % N = r
    BY DivMod
  <1>2. CASE r + i < N
    <2>1. a + i = N * k + (r + i) /\ r + i \in 0 .. N - 1
      <3>1. N * k \in Int
        OBVIOUS
      <3> QED BY <1>1, <1>2, <3>1
    <2>2. (N * k + (r + i)) % N = r + i
      BY <2>1, ModOf
    <2> QED BY <1>1, <1>2, <2>1, <2>2
  <1>3. CASE ~(r + i < N)
    <2>1. a + i = N * (k + 1) + (r + i - N) /\ r + i - N \in 0 .. N - 1 /\ k + 1 \in Int
      <3>1. N * k \in Int /\ N * (k + 1) = N * k + N
        OBVIOUS
      <3> QED BY <1>1, <1>3, <3>1
    <2>2. ASSUME NEW s \in 0 .. N - 1 PROVE (N * (k + 1) + s) % N = s
      BY <2>1, ModOf
    <2> QED BY <1>1, <1>3, <2>1, <2>2
  <1> QED BY <1>2, <1>3

-----------------------------------------------------------------------------
(* Index arithmetic: an index is a count modulo the capacity.              *)

\* The index of a count is one of the storage.
LEMMA IndexRange == ASSUME NEW a \in Nat PROVE a % Capacity \in Index
PROOF
  <1>1. Capacity \in Nat \ {0}
    BY SpscAssumption DEF SpscAssumption
  <1>2. PICK r \in 0 .. Capacity - 1 : a % Capacity = r
    BY <1>1, DivMod
  <1> QED BY <1>1, <1>2 DEF Index

\* Two counts less than Capacity apart have different indices.
LEMMA ModDistinct ==
  ASSUME NEW a \in Nat, NEW b \in Nat, a < b, b - a < Capacity
  PROVE  a % Capacity # b % Capacity
PROOF
  <1>1. Capacity \in Nat \ {0}
    BY SpscAssumption DEF SpscAssumption
  <1>2. PICK i \in 0 .. Capacity - 1 : b = a + i /\ i # 0
    BY <1>1
  <1>3. PICK r \in 0 .. Capacity - 1 :
          /\ a % Capacity = r
          /\ b % Capacity = IF r + i < Capacity THEN r + i ELSE r + i - Capacity
    BY <1>1, <1>2, ModAdd
  <1> QED BY <1>1, <1>2, <1>3

\* The distance computed from two indices is the distance of the counts.
LEMMA Distance ==
  ASSUME NEW a \in Nat, NEW b \in Nat, a <= b, b - a < Capacity
  PROVE  /\ available(a % Capacity, b % Capacity) = b - a
         /\ free(a % Capacity, b % Capacity) = Capacity - 1 - (b - a)
PROOF
  <1>1. Capacity \in Nat \ {0}
    BY SpscAssumption DEF SpscAssumption
  <1>2. PICK i \in 0 .. Capacity - 1 : b = a + i
    BY <1>1
  <1>3. PICK r \in 0 .. Capacity - 1 :
          /\ a % Capacity = r
          /\ b % Capacity = IF r + i < Capacity THEN r + i ELSE r + i - Capacity
    BY <1>1, <1>2, ModAdd
  <1>4. PICK s \in 0 .. Capacity - 1 :
          b % Capacity = s /\ s = IF r + i < Capacity THEN r + i ELSE r + i - Capacity
    BY <1>1, <1>2, <1>3
  <1>5. (s - r + Capacity) % Capacity = i
    <2>1. PICK x \in 0 .. 2 * Capacity - 1 : x = s - r + Capacity
      BY <1>1
    <2>2. x % Capacity = IF x < Capacity THEN x ELSE x - Capacity
      BY <1>1, ModOnce
    <2>3. x % Capacity = i
      BY <1>1, <1>4, <2>1, <2>2
    <2> QED BY <2>1, <2>3
  <1>6. (r - s - 1 + Capacity) % Capacity = Capacity - 1 - i
    <2>1. PICK x \in 0 .. 2 * Capacity - 1 : x = r - s - 1 + Capacity
      BY <1>1
    <2>2. x % Capacity = IF x < Capacity THEN x ELSE x - Capacity
      BY <1>1, ModOnce
    <2>3. x % Capacity = Capacity - 1 - i
      BY <1>1, <1>4, <2>1, <2>2
    <2> QED BY <2>1, <2>3
  <1> QED BY <1>1, <1>2, <1>3, <1>4, <1>5, <1>6 DEF available, free

\* The two memcpys walk through the indices of consecutive counts.
LEMMA SlotIsIndex ==
  ASSUME NEW a \in Nat, NEW n \in 0 .. Capacity - 1, NEW i \in 0 .. n - 1
  PROVE  slot(a % Capacity, n, i) = (a + i) % Capacity
PROOF
  <1>1. Capacity \in Nat \ {0} /\ i \in 0 .. Capacity - 1
    BY SpscAssumption DEF SpscAssumption
  <1>2. PICK r \in 0 .. Capacity - 1 :
          /\ a % Capacity = r
          /\ (a + i) % Capacity = IF r + i < Capacity THEN r + i ELSE r + i - Capacity
    BY <1>1, ModAdd
  <1> QED BY <1>1, <1>2 DEF slot, Min2

\* The index stored at the end of a copy is that of the new count.
LEMMA AdvanceIsIndex ==
  ASSUME NEW a \in Nat, NEW n \in 0 .. Capacity - 1
  PROVE  advance(a % Capacity, n) = (a + n) % Capacity
PROOF
  <1>1. Capacity \in Nat \ {0}
    BY SpscAssumption DEF SpscAssumption
  <1>2. PICK r \in 0 .. Capacity - 1 :
          /\ a % Capacity = r
          /\ (a + n) % Capacity = IF r + n < Capacity THEN r + n ELSE r + n - Capacity
    BY <1>1, ModAdd
  <1>3. PICK x \in 0 .. 2 * Capacity - 1 : x = r + n
    BY <1>1
  <1>4. x % Capacity = IF x < Capacity THEN x ELSE x - Capacity
    BY <1>1, ModOnce
  <1>5. x % Capacity = (a + n) % Capacity
    BY <1>1, <1>2, <1>3, <1>4
  <1>6. advance(a % Capacity, n) = x % Capacity
    BY <1>2, <1>3 DEF advance
  <1> QED BY <1>5, <1>6

-----------------------------------------------------------------------------
(* The inductive invariant.                                                *)

\* What IInv says of the counts, in the form the steps below use: their types,
LEMMA CountTypes ==
  ASSUME IInv
  PROVE  /\ Capacity \in Nat
         /\ pushed \in Nat /\ popped \in Nat /\ pushedSeen \in Nat /\ poppedSeen \in Nat
         /\ toWrite \in Nat /\ written \in Nat
         /\ toRead \in Nat /\ Len(out) \in Nat /\ atLeast \in Nat
PROOF
  <1>1. Len(out) \in Nat
    BY LenProperties DEF IInv, TypeOK
  <1> QED BY <1>1, SpscAssumption DEF SpscAssumption, IInv, TypeOK

\* and their order.
LEMMA CountOrder ==
  ASSUME IInv
  PROVE  /\ toWrite < Capacity /\ written <= toWrite
         /\ toRead < Capacity /\ Len(out) <= toRead
         /\ poppedSeen <= popped /\ popped <= pushedSeen /\ pushedSeen <= pushed
         /\ pushed + toWrite < poppedSeen + Capacity
         /\ popped + toRead <= pushedSeen /\ popped + atLeast <= pushedSeen
PROOF
  <1>1. /\ toWrite \in 0 .. Capacity - 1 /\ written \in 0 .. toWrite
        /\ toRead \in 0 .. Capacity - 1 /\ Len(out) <= toRead
    BY DEF IInv, TypeOK
  <1>2. WithinRing
    BY DEF IInv
  <1> QED BY <1>1, <1>2, CountTypes DEF WithinRing

LEMMA InitIInv == Init => IInv
PROOF
  <1> SUFFICES ASSUME Init PROVE IInv
    OBVIOUS
  <1> USE DEF Init
  <1>1. Capacity \in Nat \ {0, 1} /\ 0 \in Index
    BY SpscAssumption DEF SpscAssumption, Index
  <1>2. out \in Seq(Nat) /\ Len(out) = 0
    BY EmptySeq
  <1>3. TypeOK
    BY <1>1, <1>2 DEF TypeOK
  <1>4. 0 % Capacity = 0
    BY <1>1, ModOnce
  <1>5. IndexIsCount
    BY <1>4 DEF IndexIsCount
  <1>6. WithinRing /\ BytesInPlace
    BY <1>1 DEF WithinRing, BytesInPlace
  <1>7. InOrder
    BY <1>2 DEF InOrder
  <1> QED BY <1>3, <1>5, <1>6, <1>7 DEF IInv

LEMMA PushBeginIInv ==
  ASSUME NEW len \in 1 .. MaxLen PROVE IInv /\ PushBegin(len) => IInv'
PROOF
  <1> SUFFICES ASSUME IInv, PushBegin(len) PROVE IInv'
    OBVIOUS
  <1> USE DEF IInv
  <1>1. len \in Nat /\ MaxLen \in Nat
    BY SpscAssumption DEF SpscAssumption
  <1>2. /\ pPc = "idle" /\ pPc' = "copy" /\ written' = 0 /\ toWrite = 0 /\ written = 0
        /\ toWrite' = Min2(free(headSeen, tail), len)
        /\ UNCHANGED <<buff, head, tail, headSeen, tailSeen, cPc, toRead, out, atLeast,
                       pushed, popped, pushedSeen, poppedSeen>>
    BY DEF PushBegin, consumerVars, historyVars, WithinRing
  <1>3. free(headSeen, tail) = Capacity - 1 - (pushed - poppedSeen)
    <2>1. /\ pushed \in Nat /\ poppedSeen \in Nat
          /\ poppedSeen <= pushed /\ pushed - poppedSeen < Capacity
      BY CountTypes, CountOrder, <1>2
    <2> QED BY <2>1, Distance DEF IndexIsCount
  <1>4. toWrite' \in 0 .. Capacity - 1 /\ pushed + toWrite' <= poppedSeen + Capacity - 1
    BY <1>1, <1>2, <1>3, CountTypes, CountOrder DEF Min2
  <1>5. TypeOK'
    BY <1>2, <1>4 DEF TypeOK
  <1>6. IndexIsCount' /\ BytesInPlace' /\ InOrder'
    BY <1>2 DEF IndexIsCount, BytesInPlace, InOrder
  <1>7. WithinRing'
    BY <1>2, <1>4 DEF WithinRing
  <1> QED BY <1>5, <1>6, <1>7

LEMMA PushByteIInv == IInv /\ PushByte => IInv'
PROOF
  <1> SUFFICES ASSUME IInv, PushByte PROVE IInv'
    OBVIOUS
  <1> USE DEF IInv
  <1> DEFINE q == pushed + written
  <1>1. /\ pPc = "copy" /\ written < toWrite /\ written' = written + 1
        /\ buff' = [buff EXCEPT ![slot(tail, toWrite, written)] = q + 1]
        /\ UNCHANGED <<head, tail, headSeen, tailSeen, pPc, toWrite, cPc, toRead, out,
                       atLeast, pushed, popped, pushedSeen, poppedSeen>>
    BY DEF PushByte, consumerVars, historyVars
  <1>2. q \in Nat
    BY CountTypes
  <1>3. slot(tail, toWrite, written) = q % Capacity /\ q % Capacity \in Index
    <2>1. pushed \in Nat /\ toWrite \in 0 .. Capacity - 1 /\ written \in 0 .. toWrite - 1
      BY <1>1, CountTypes, CountOrder
    <2>2. slot(pushed % Capacity, toWrite, written) = q % Capacity
      BY <2>1, SlotIsIndex
    <2> QED BY <1>2, <2>2, IndexRange DEF IndexIsCount
  <1>4. BytesInPlace'
    <2> SUFFICES ASSUME NEW p \in popped .. q PROVE buff'[p % Capacity] = p + 1
      <3>1. popped' = popped /\ pushed' + written' - 1 = q
        BY <1>1, CountTypes
      <3> QED BY <3>1 DEF BytesInPlace
    <2>0. p \in Nat
      BY CountTypes
    <2>1. p % Capacity \in Index
      BY <2>0, IndexRange
    <2>2. CASE p = q
      BY <2>2, <1>1, <1>3 DEF TypeOK
    <2>3. CASE p # q
      <3>1. p % Capacity # q % Capacity
        <4>1. p < q
          BY <2>0, <2>3, <1>2, CountTypes
        <4>2. q < poppedSeen + Capacity /\ poppedSeen <= p
          BY <2>0, <1>1, CountTypes, CountOrder
        <4>3. Capacity \in Nat /\ poppedSeen \in Nat
          BY CountTypes
        <4>4. q - p < Capacity
          <5> HIDE DEF q
          <5> QED BY <4>1, <4>2, <4>3, <2>0, <1>2
        <4> QED BY <4>1, <4>4, <2>0, <1>2, ModDistinct
      <3>2. buff[p % Capacity] = p + 1
        <4>1. p \in popped .. q - 1
          BY <2>0, <2>3, <1>2, CountTypes
        <4> QED BY <4>1, CountTypes DEF BytesInPlace
      <3> QED BY <3>1, <3>2, <2>1, <1>1, <1>3 DEF TypeOK
    <2> QED BY <2>2, <2>3
  <1>5. TypeOK'
    <2>1. buff' \in [Index -> Nat]
      BY <1>1, <1>2, <1>3 DEF TypeOK
    <2>2. written' \in 0 .. toWrite'
      BY <1>1, CountTypes
    <2> QED BY <1>1, <2>1, <2>2 DEF TypeOK
  <1>6. IndexIsCount' /\ WithinRing' /\ InOrder'
    BY <1>1 DEF IndexIsCount, WithinRing, InOrder
  <1> QED BY <1>4, <1>5, <1>6

LEMMA PushStoreIInv == IInv /\ PushStore => IInv'
PROOF
  <1> SUFFICES ASSUME IInv, PushStore PROVE IInv'
    OBVIOUS
  <1> USE DEF IInv
  <1>1. /\ written = toWrite /\ pPc' = "idle" /\ toWrite' = 0 /\ written' = 0
        /\ tail' = advance(tail, toWrite) /\ pushed' = pushed + toWrite
        /\ UNCHANGED <<buff, head, headSeen, tailSeen, cPc, toRead, out, atLeast, popped,
                       pushedSeen, poppedSeen>>
    BY DEF PushStore, copied, consumerVars
  <1>2. tail' = pushed' % Capacity /\ tail' \in Index /\ pushed' \in Nat
    <2>1. pushed \in Nat /\ toWrite \in 0 .. Capacity - 1 /\ pushed + toWrite \in Nat
      BY CountTypes, CountOrder
    <2>2. advance(pushed % Capacity, toWrite) = (pushed + toWrite) % Capacity
      BY <2>1, AdvanceIsIndex
    <2>3. (pushed + toWrite) % Capacity \in Index
      BY <2>1, IndexRange
    <2> QED BY <1>1, <2>1, <2>2, <2>3 DEF IndexIsCount
  <1>3. TypeOK'
    <2>1. toWrite' \in 0 .. Capacity - 1 /\ written' \in 0 .. toWrite'
      BY <1>1, CountTypes, CountOrder
    <2> QED BY <1>1, <1>2, <2>1 DEF TypeOK
  <1>4. IndexIsCount' /\ InOrder'
    BY <1>1, <1>2 DEF IndexIsCount, InOrder
  <1>5. WithinRing'
    BY <1>1, CountTypes, CountOrder DEF WithinRing
  <1>6. BytesInPlace'
    <2>1. popped' = popped /\ pushed' + written' - 1 = pushed + written - 1
      BY <1>1, CountTypes
    <2> QED BY <1>1, <2>1 DEF BytesInPlace
  <1> QED BY <1>3, <1>4, <1>5, <1>6

LEMMA SizeIInv == IInv /\ Size => IInv'
PROOF
  <1> SUFFICES ASSUME IInv, Size PROVE IInv'
    OBVIOUS
  <1> USE DEF IInv
  <1>1. /\ atLeast' = available(head, tailSeen)
        /\ UNCHANGED <<buff, head, tail, headSeen, tailSeen, pPc, toWrite, written, cPc,
                       toRead, out, pushed, popped, pushedSeen, poppedSeen>>
    BY DEF Size, size, producerVars, historyVars
  <1>2. available(head, tailSeen) = pushedSeen - popped /\ pushedSeen - popped < Capacity
    <2>1. /\ pushedSeen \in Nat /\ popped \in Nat
          /\ popped <= pushedSeen /\ pushedSeen - popped < Capacity
      BY CountTypes, CountOrder
    <2> QED BY <2>1, Distance DEF IndexIsCount
  <1>3. TypeOK' /\ WithinRing'
    <2>1. atLeast' \in 0 .. Capacity - 1 /\ popped + atLeast' <= pushedSeen
      BY <1>1, <1>2, CountTypes, CountOrder
    <2> QED BY <1>1, <2>1 DEF TypeOK, WithinRing
  <1>4. IndexIsCount' /\ BytesInPlace' /\ InOrder'
    BY <1>1 DEF IndexIsCount, BytesInPlace, InOrder
  <1> QED BY <1>3, <1>4

LEMMA PopBeginIInv ==
  ASSUME NEW max_len \in 1 .. MaxLen PROVE IInv /\ PopBegin(max_len) => IInv'
PROOF
  <1> SUFFICES ASSUME IInv, PopBegin(max_len) PROVE IInv'
    OBVIOUS
  <1> USE DEF IInv
  <1>1. max_len \in Nat /\ MaxLen \in Nat
    BY SpscAssumption DEF SpscAssumption
  <1>2. /\ toRead' = Min2(available(head, tailSeen), max_len) /\ out' = <<>>
        /\ cPc' = "copy"
        /\ UNCHANGED <<buff, head, tail, headSeen, tailSeen, pPc, toWrite, written, atLeast,
                       pushed, popped, pushedSeen, poppedSeen>>
    BY DEF PopBegin, producerVars, historyVars
  <1>3. available(head, tailSeen) = pushedSeen - popped /\ pushedSeen - popped < Capacity
    <2>1. /\ pushedSeen \in Nat /\ popped \in Nat
          /\ popped <= pushedSeen /\ pushedSeen - popped < Capacity
      BY CountTypes, CountOrder
    <2> QED BY <2>1, Distance DEF IndexIsCount
  <1>4. toRead' \in 0 .. Capacity - 1 /\ popped + toRead' <= pushedSeen
    <2>1. pushedSeen - popped \in Nat
      BY CountTypes, CountOrder
    <2>2. toRead' \in Nat /\ toRead' <= pushedSeen - popped
      BY <1>1, <1>2, <1>3, <2>1 DEF Min2
    <2> QED BY <1>3, <2>2, CountTypes
  <1>5. out' \in Seq(Nat) /\ Len(out') = 0
    BY <1>2, EmptySeq
  <1>6. TypeOK'
    BY <1>2, <1>4, <1>5 DEF TypeOK
  <1>7. WithinRing' /\ InOrder'
    BY <1>2, <1>4, <1>5 DEF WithinRing, InOrder
  <1>8. IndexIsCount' /\ BytesInPlace'
    BY <1>2 DEF IndexIsCount, BytesInPlace
  <1> QED BY <1>6, <1>7, <1>8

LEMMA PopByteIInv == IInv /\ PopByte => IInv'
PROOF
  <1> SUFFICES ASSUME IInv, PopByte PROVE IInv'
    OBVIOUS
  <1> USE DEF IInv
  <1> DEFINE n == Len(out)
  <1> DEFINE p == popped + n
  <1>1. /\ n < toRead
        /\ out' = Append(out, buff[slot(head, toRead, n)])
        /\ UNCHANGED <<buff, head, tail, headSeen, tailSeen, pPc, toWrite, written, cPc,
                       toRead, atLeast, pushed, popped, pushedSeen, poppedSeen>>
    BY DEF PopByte, producerVars, historyVars
  <1>2. p \in Nat /\ n \in Nat /\ p \in popped .. pushed + written - 1
    <2>1. p \in Nat /\ n \in Nat
      BY CountTypes
    <2>2. popped <= p /\ p < pushed + written
      BY <1>1, CountTypes, CountOrder
    <2> QED BY <2>1, <2>2, CountTypes
  <1>3. slot(head, toRead, n) = p % Capacity
    <2>1. popped \in Nat /\ toRead \in 0 .. Capacity - 1 /\ n \in 0 .. toRead - 1
      BY <1>1, CountTypes, CountOrder
    <2> QED BY <2>1, SlotIsIndex DEF IndexIsCount
  <1>4. buff[p % Capacity] = p + 1
    BY <1>2 DEF BytesInPlace
  <1>5. /\ out' \in Seq(Nat) /\ Len(out') = n + 1
        /\ \A i \in 1 .. n : out'[i] = out[i]
        /\ out'[n + 1] = p + 1
    <2>1. p + 1 \in Nat /\ out' = Append(out, p + 1)
      BY <1>1, <1>2, <1>3, <1>4
    <2> QED BY <2>1, AppendProperties DEF TypeOK
  <1>6. TypeOK'
    <2>1. Len(out') <= toRead
      BY <1>1, <1>5, CountTypes
    <2> QED BY <1>1, <1>5, <2>1 DEF TypeOK
  <1>7. InOrder'
    <2> SUFFICES ASSUME NEW i \in 1 .. n + 1 PROVE out'[i] = popped + i
      BY <1>1, <1>5 DEF InOrder
    <2>1. CASE i = n + 1
      BY <2>1, <1>5, CountTypes
    <2>2. CASE i # n + 1
      <3>1. i \in 1 .. n
        BY <2>2, <1>2
      <3> QED BY <3>1, <1>5 DEF InOrder
    <2> QED BY <2>1, <2>2
  <1>8. IndexIsCount' /\ WithinRing' /\ BytesInPlace'
    BY <1>1 DEF IndexIsCount, WithinRing, BytesInPlace
  <1> QED BY <1>6, <1>7, <1>8

LEMMA PopStoreIInv == IInv /\ PopStore => IInv'
PROOF
  <1> SUFFICES ASSUME IInv, PopStore PROVE IInv'
    OBVIOUS
  <1> USE DEF IInv
  <1>1. /\ head' = advance(head, toRead) /\ popped' = popped + toRead
        /\ cPc' = "idle" /\ toRead' = 0 /\ out' = <<>> /\ atLeast' = 0
        /\ UNCHANGED <<buff, tail, headSeen, tailSeen, pPc, toWrite, written, pushed,
                       pushedSeen, poppedSeen>>
    BY DEF PopStore, producerVars
  <1>2. head' = popped' % Capacity /\ head' \in Index /\ popped' \in Nat
    <2>1. popped \in Nat /\ toRead \in 0 .. Capacity - 1 /\ popped + toRead \in Nat
      BY CountTypes, CountOrder
    <2>2. advance(popped % Capacity, toRead) = (popped + toRead) % Capacity
      BY <2>1, AdvanceIsIndex
    <2>3. (popped + toRead) % Capacity \in Index
      BY <2>1, IndexRange
    <2> QED BY <1>1, <2>1, <2>2, <2>3 DEF IndexIsCount
  <1>3. out' \in Seq(Nat) /\ Len(out') = 0
    BY <1>1, EmptySeq
  <1>4. TypeOK'
    <2>1. toRead' \in 0 .. Capacity - 1 /\ atLeast' \in 0 .. Capacity - 1 /\ Len(out') <= toRead'
      BY <1>1, <1>3, CountTypes, CountOrder
    <2> QED BY <1>1, <1>2, <1>3, <2>1 DEF TypeOK
  <1>5. IndexIsCount' /\ InOrder'
    BY <1>1, <1>2, <1>3 DEF IndexIsCount, InOrder
  <1>6. WithinRing'
    BY <1>1, CountTypes, CountOrder DEF WithinRing
  <1>7. BytesInPlace'
    <2>1. popped' .. pushed' + written' - 1 \subseteq popped .. pushed + written - 1
      BY <1>1, CountTypes
    <2> QED BY <1>1, <2>1 DEF BytesInPlace
  <1> QED BY <1>4, <1>5, <1>6, <1>7

LEMMA HeadArrivesIInv == IInv /\ HeadArrives => IInv'
PROOF
  <1> SUFFICES ASSUME IInv, HeadArrives PROVE IInv'
    OBVIOUS
  <1> USE DEF IInv
  <1>1. /\ headSeen' = head /\ poppedSeen' = popped
        /\ UNCHANGED <<buff, head, tail, tailSeen, pPc, toWrite, written, cPc, toRead, out,
                       atLeast, pushed, popped, pushedSeen>>
    BY DEF HeadArrives, producerVars, consumerVars
  <1>2. TypeOK' /\ IndexIsCount' /\ BytesInPlace' /\ InOrder'
    BY <1>1 DEF TypeOK, IndexIsCount, BytesInPlace, InOrder
  <1>3. WithinRing'
    BY <1>1, CountTypes, CountOrder DEF WithinRing
  <1> QED BY <1>2, <1>3

LEMMA TailArrivesIInv == IInv /\ TailArrives => IInv'
PROOF
  <1> SUFFICES ASSUME IInv, TailArrives PROVE IInv'
    OBVIOUS
  <1> USE DEF IInv
  <1>1. /\ tailSeen' = tail /\ pushedSeen' = pushed
        /\ UNCHANGED <<buff, head, tail, headSeen, pPc, toWrite, written, cPc, toRead, out,
                       atLeast, pushed, popped, poppedSeen>>
    BY DEF TailArrives, producerVars, consumerVars
  <1>2. TypeOK' /\ IndexIsCount' /\ BytesInPlace' /\ InOrder'
    BY <1>1 DEF TypeOK, IndexIsCount, BytesInPlace, InOrder
  <1>3. WithinRing'
    BY <1>1, CountTypes, CountOrder DEF WithinRing
  <1> QED BY <1>2, <1>3

LEMMA NextIInv == IInv /\ [Next]_vars => IInv'
PROOF
  <1> SUFFICES ASSUME IInv, [Next]_vars PROVE IInv'
    OBVIOUS
  <1>1. CASE Producer
    BY <1>1, PushBeginIInv, PushByteIInv, PushStoreIInv DEF Producer
  <1>2. CASE Size
    BY <1>2, SizeIInv
  <1>3. CASE Pop
    BY <1>3, PopBeginIInv, PopByteIInv, PopStoreIInv DEF Pop
  <1>4. CASE HeadArrives
    BY <1>4, HeadArrivesIInv
  <1>5. CASE TailArrives
    BY <1>5, TailArrivesIInv
  <1>6. CASE UNCHANGED vars
    BY <1>6 DEF vars, producerVars, consumerVars, historyVars, IInv, TypeOK, IndexIsCount,
       WithinRing, BytesInPlace, InOrder
  <1> QED BY <1>1, <1>2, <1>3, <1>4, <1>5, <1>6 DEF Next

-----------------------------------------------------------------------------
\* No slot of the copy in push is one of the copy in pop_front.
LEMMA SlotsApart ==
  ASSUME IInv, NEW i \in Nat, NEW j \in Nat, i < toWrite, j < toRead
  PROVE  slot(tail, toWrite, i) # slot(head, toRead, j)
PROOF
  <1>1. popped + j \in Nat /\ pushed + i \in Nat
    BY CountTypes
  <1>2. popped + j < pushedSeen /\ pushedSeen <= pushed + i
    BY CountTypes, CountOrder
  <1>3. pushed + i < poppedSeen + Capacity /\ poppedSeen <= popped + j
    BY CountTypes, CountOrder
  <1>4. popped + j < pushed + i /\ (pushed + i) - (popped + j) < Capacity
    <2>1. ASSUME NEW a \in Nat, NEW b \in Nat,
                 a < pushedSeen, pushedSeen <= b, b < poppedSeen + Capacity, poppedSeen <= a
          PROVE  a < b /\ b - a < Capacity
      BY <2>1, CountTypes
    <2> QED BY <1>1, <1>2, <1>3, <2>1
  <1>5. slot(tail, toWrite, i) = (pushed + i) % Capacity
    <2>1. pushed \in Nat /\ toWrite \in 0 .. Capacity - 1 /\ i \in 0 .. toWrite - 1
      BY CountTypes, CountOrder
    <2> QED BY <2>1, SlotIsIndex DEF IInv, IndexIsCount
  <1>6. slot(head, toRead, j) = (popped + j) % Capacity
    <2>1. popped \in Nat /\ toRead \in 0 .. Capacity - 1 /\ j \in 0 .. toRead - 1
      BY CountTypes, CountOrder
    <2> QED BY <2>1, SlotIsIndex DEF IInv, IndexIsCount
  <1> QED BY <1>1, <1>4, <1>5, <1>6, ModDistinct

LEMMA RaceFree == IInv => NoDataRace
PROOF
  <1> SUFFICES ASSUME IInv, NEW s \in WriteSet, s \in ReadSet PROVE FALSE
    BY DEF NoDataRace
  <1>1. PICK i \in written .. toWrite - 1 : s = slot(tail, toWrite, i)
    BY DEF WriteSet
  <1>2. PICK j \in Len(out) .. toRead - 1 : s = slot(head, toRead, j)
    BY DEF ReadSet
  <1>3. i \in Nat /\ j \in Nat /\ i < toWrite /\ j < toRead
    BY CountTypes
  <1> QED BY <1>1, <1>2, <1>3, SlotsApart

\* The inductive invariant holds in every reachable state.
THEOREM Invariance == Spec => []IInv
PROOF
  <1> QED BY InitIInv, NextIInv, PTL DEF Spec

\* Every variable keeps its type, and no copy overruns.
THEOREM TypeCorrect == Spec => []TypeOK
PROOF
  <1>1. IInv => TypeOK
    BY DEF IInv
  <1> QED BY <1>1, Invariance, PTL

\* Producer and consumer never have the same slot to access.
THEOREM NoRace == Spec => []NoDataRace
PROOF
  <1> QED BY RaceFree, Invariance, PTL

\* The consumer always copies out the next bytes of the stream: none is lost,
\* repeated or overtaken, at any capacity.
THEOREM StreamInOrder == Spec => []InOrder
PROOF
  <1>1. IInv => InOrder
    BY DEF IInv
  <1> QED BY <1>1, Invariance, PTL

\* size() never promises more than the pop after it can take.
THEOREM SizeIsSound == Spec => []SizeIsKept
PROOF
  <1>1. IInv => SizeIsKept
    <2> SUFFICES ASSUME IInv PROVE SizeIsKept
      OBVIOUS
    <2> QED BY CountTypes, CountOrder DEF SizeIsKept
  <1> QED BY <1>1, Invariance, PTL
-----------------------------------------------------------------------------
(* The ring is a FIFO.  What it contains is told by the counts alone, so   *)
(* only the two stores that change them are visible.                       *)

\* The bytes after position a of the stream, up to position b.
Stretch(a, b) == [i \in 1 .. b - a |-> a + i]

LEMMA StretchIsSeq ==
  ASSUME NEW a \in Nat, NEW b \in Nat, a <= b
  PROVE  Stretch(a, b) \in Seq(Nat) /\ Len(Stretch(a, b)) = b - a
PROOF
  <1>1. b - a \in Nat /\ \A i \in 1 .. b - a : a + i \in Nat
    OBVIOUS
  <1>2. Stretch(a, b) \in [1 .. b - a -> Nat]
    BY <1>1 DEF Stretch
  <1> QED BY <1>1, <1>2, SeqDef DEF Stretch

\* More bytes come behind those that are there.
LEMMA StretchGrows ==
  ASSUME NEW a \in Nat, NEW b \in Nat, NEW n \in Nat, a <= b
  PROVE  Stretch(a, b + n) = Stretch(a, b) \o [i \in 1 .. n |-> b + i]
PROOF
  <1>1. /\ Stretch(a, b) \in Seq(Nat) /\ Len(Stretch(a, b)) = b - a
        /\ Stretch(b, b + n) \in Seq(Nat) /\ Len(Stretch(b, b + n)) = n
        /\ Stretch(a, b + n) \in Seq(Nat) /\ Len(Stretch(a, b + n)) = b + n - a
    <2>1. b + n \in Nat /\ b <= b + n /\ a <= b + n /\ (b + n) - b = n
      OBVIOUS
    <2>2. Stretch(b, b + n) \in Seq(Nat) /\ Len(Stretch(b, b + n)) = (b + n) - b
      BY <2>1, StretchIsSeq
    <2>3. Stretch(a, b + n) \in Seq(Nat) /\ Len(Stretch(a, b + n)) = (b + n) - a
      BY <2>1, StretchIsSeq
    <2>4. Stretch(a, b) \in Seq(Nat) /\ Len(Stretch(a, b)) = b - a
      BY StretchIsSeq
    <2> QED BY <2>1, <2>2, <2>3, <2>4
  <1>2. Stretch(b, b + n) = [i \in 1 .. n |-> b + i]
    BY DEF Stretch
  <1> DEFINE both == Stretch(a, b) \o Stretch(b, b + n)
  <1>3. /\ both \in Seq(Nat) /\ Len(both) = Len(Stretch(a, b)) + Len(Stretch(b, b + n))
        /\ \A i \in 1 .. Len(Stretch(a, b)) + Len(Stretch(b, b + n)) :
             both[i] = IF i <= Len(Stretch(a, b)) THEN Stretch(a, b)[i]
                       ELSE Stretch(b, b + n)[i - Len(Stretch(a, b))]
    BY <1>1, ConcatProperties
  <1>4. Len(both) = b + n - a
    <2>1. (b - a) + n = b + n - a
      OBVIOUS
    <2>2. Len(both) = (b - a) + n
      BY <1>1, <1>3
    <2> QED BY <2>1, <2>2
  <1>5. ASSUME NEW i \in 1 .. b + n - a PROVE both[i] = a + i
    <2> HIDE DEF both
    <2>0. i \in 1 .. Len(Stretch(a, b)) + Len(Stretch(b, b + n))
      BY <1>1
    <2>1. CASE i <= b - a
      <3>1. both[i] = Stretch(a, b)[i]
        BY <2>0, <2>1, <1>1, <1>3
      <3> QED BY <2>1, <3>1 DEF Stretch
    <2>2. CASE ~(i <= b - a)
      <3>1. i - (b - a) \in 1 .. n /\ b + (i - (b - a)) = a + i
        BY <2>2
      <3>2. Stretch(b, b + n)[i - (b - a)] = b + (i - (b - a))
        BY <3>1, <1>2
      <3>3. both[i] = Stretch(b, b + n)[i - (b - a)]
        BY <2>0, <2>2, <1>1, <1>3
      <3> QED BY <3>1, <3>2, <3>3
    <2> QED BY <2>1, <2>2
  <1>6. ASSUME NEW i \in 1 .. b + n - a PROVE Stretch(a, b + n)[i] = a + i
    BY DEF Stretch
  <1>7. both = Stretch(a, b + n)
    <2> HIDE DEF both
    <2>1. \A i \in 1 .. Len(both) : both[i] = Stretch(a, b + n)[i]
      BY <1>4, <1>5, <1>6
    <2>2. Len(both) = Len(Stretch(a, b + n))
      BY <1>1, <1>4
    <2> QED BY <1>1, <1>3, <2>1, <2>2, SeqEqual
  <1> QED BY <1>2, <1>7

\* The oldest bytes go.
LEMMA StretchShrinks ==
  ASSUME NEW a \in Nat, NEW b \in Nat, NEW n \in Nat, a + n <= b
  PROVE  Stretch(a + n, b) = SubSeq(Stretch(a, b), n + 1, b - a)
PROOF
  <1>1. Stretch(a, b) \in Seq(Nat) /\ Len(Stretch(a, b)) = b - a
    BY StretchIsSeq
  <1>2. SubSeq(Stretch(a, b), n + 1, b - a)
          = [i \in 1 .. b - a - n |-> Stretch(a, b)[i + n]]
    <2>1. SubSeq(Stretch(a, b), n + 1, b - a)
            = [i \in 1 .. (1 + b - a) - (n + 1) |-> Stretch(a, b)[(i - 1) + (n + 1)]]
      OBVIOUS
    <2> QED BY <2>1
  <1>3. \A i \in 1 .. b - a - n : Stretch(a, b)[i + n] = a + n + i
    BY DEF Stretch
  <1> QED BY <1>2, <1>3 DEF Stretch

\* From head_ up to tail_ the ring holds the bytes accepted and not yet taken.
ContentsTold == Contents = Stretch(popped, pushed)

LEMMA ContentsAreTheStretch == IInv => ContentsTold
PROOF
  <1> SUFFICES ASSUME IInv PROVE Contents = Stretch(popped, pushed)
    BY DEF ContentsTold
  <1>1. /\ popped \in Nat /\ pushed \in Nat /\ written \in Nat
        /\ popped <= pushed /\ pushed - popped < Capacity
    BY CountTypes, CountOrder
  <1>2. head = popped % Capacity /\ tail = pushed % Capacity
    BY DEF IInv, IndexIsCount
  <1>3. available(head, tail) = pushed - popped
    BY <1>1, <1>2, Distance
  <1>4. ASSUME NEW i \in 1 .. pushed - popped PROVE buff[advance(head, i - 1)] = popped + i
    <2>1. i - 1 \in 0 .. Capacity - 1 /\ popped + (i - 1) \in popped .. pushed + written - 1
      BY <1>1, CountTypes
    <2>2. advance(head, i - 1) = (popped + (i - 1)) % Capacity
      BY <1>1, <1>2, <2>1, AdvanceIsIndex
    <2>3. buff[(popped + (i - 1)) % Capacity] = (popped + (i - 1)) + 1
      BY <2>1 DEF IInv, BytesInPlace
    <2> QED BY <1>1, <2>2, <2>3
  <1> QED BY <1>3, <1>4 DEF Contents, Stretch

LEMMA ContentsAfterwards == IInv' => ContentsTold'
PROOF BY ContentsAreTheStretch, PTL

LEMMA PushStoreIsPut == IInv /\ IInv' /\ PushStore => [F!Next]_(F!vars)
PROOF
  <1> SUFFICES ASSUME IInv, IInv', PushStore PROVE [F!Next]_(F!vars)
    OBVIOUS
  <1>1. pushed' = pushed + toWrite /\ popped' = popped
    BY DEF PushStore
  <1>2. Contents = Stretch(popped, pushed) /\ Contents' = Stretch(popped', pushed')
    BY ContentsAreTheStretch, ContentsAfterwards DEF ContentsTold
  <1>3. /\ popped \in Nat /\ pushed \in Nat /\ toWrite \in Nat /\ popped <= pushed
        /\ pushed + toWrite < popped + Capacity /\ toWrite < Capacity
    BY CountTypes, CountOrder
  <1>4. CASE toWrite = 0
    BY <1>1, <1>2, <1>3, <1>4 DEF F!vars
  <1>5. CASE toWrite # 0
    <2>1. Contents' = Contents \o [i \in 1 .. toWrite |-> pushed + i]
      BY <1>1, <1>2, <1>3, StretchGrows
    <2>2. Len(Contents) + toWrite <= Capacity - 1
      <3>1. Len(Contents) = pushed - popped
        BY <1>2, <1>3, StretchIsSeq
      <3> QED BY <3>1, <1>3, CountTypes
    <2>3. F!Put(toWrite)
      BY <1>1, <2>1, <2>2 DEF F!Put
    <2>4. toWrite \in 1 .. Capacity - 1
      BY <1>3, <1>5, CountTypes
    <2> QED BY <2>3, <2>4 DEF F!Next
  <1> QED BY <1>4, <1>5

LEMMA PopStoreIsGet == IInv /\ IInv' /\ PopStore => [F!Next]_(F!vars)
PROOF
  <1> SUFFICES ASSUME IInv, IInv', PopStore PROVE [F!Next]_(F!vars)
    OBVIOUS
  <1>1. popped' = popped + toRead /\ pushed' = pushed
    BY DEF PopStore
  <1>2. Contents = Stretch(popped, pushed) /\ Contents' = Stretch(popped', pushed')
    BY ContentsAreTheStretch, ContentsAfterwards DEF ContentsTold
  <1>3. /\ popped \in Nat /\ pushed \in Nat /\ toRead \in Nat
        /\ popped + toRead <= pushed /\ toRead < Capacity /\ popped <= pushed
    BY CountTypes, CountOrder
  <1>4. CASE toRead = 0
    BY <1>1, <1>2, <1>3, <1>4 DEF F!vars
  <1>5. CASE toRead # 0
    <2>1. Len(Contents) = pushed - popped
      BY <1>2, <1>3, StretchIsSeq
    <2>2. Contents' = SubSeq(Contents, toRead + 1, Len(Contents))
      BY <1>1, <1>2, <1>3, <2>1, StretchShrinks
    <2>3. toRead <= Len(Contents)
      BY <1>3, <2>1
    <2>4. F!Get(toRead)
      BY <1>1, <2>2, <2>3 DEF F!Get
    <2>5. toRead \in 1 .. Capacity - 1
      BY <1>3, <1>5, CountTypes
    <2> QED BY <2>4, <2>5 DEF F!Next
  <1> QED BY <1>4, <1>5

LEMMA StepIsFifoStep == IInv /\ IInv' /\ [Next]_vars => [F!Next]_(F!vars)
PROOF
  <1> SUFFICES ASSUME IInv, IInv', [Next]_vars PROVE [F!Next]_(F!vars)
    OBVIOUS
  <1>1. CASE PushStore
    BY <1>1, PushStoreIsPut
  <1>2. CASE PopStore
    BY <1>2, PopStoreIsGet
  <1>3. CASE UNCHANGED <<pushed, popped>>
    <2>1. Contents = Stretch(popped, pushed) /\ Contents' = Stretch(popped', pushed')
      BY ContentsAreTheStretch, ContentsAfterwards DEF ContentsTold
    <2> QED BY <1>3, <2>1 DEF F!vars
  <1>4. PushStore \/ PopStore \/ UNCHANGED <<pushed, popped>>
    BY DEF Next, Producer, Pop, PushBegin, PushByte, Size, PopBegin, PopByte, HeadArrives,
       TailArrives, vars, historyVars
  <1> QED BY <1>1, <1>2, <1>3, <1>4

LEMMA InitIsFifoInit == Init => F!Init
PROOF
  <1> SUFFICES ASSUME Init PROVE F!Init
    OBVIOUS
  <1>1. pushed = 0 /\ popped = 0
    BY DEF Init
  <1>2. Contents = Stretch(0, 0)
    BY <1>1, InitIInv, ContentsAreTheStretch DEF ContentsTold
  <1>3. Stretch(0, 0) = <<>>
    BY StretchIsSeq, EmptySeq
  <1> QED BY <1>1, <1>2, <1>3 DEF F!Init

\* The ring is a bounded FIFO of bytes, whatever its capacity and however the
\* accesses of the two sides interleave: a push takes effect at its store of
\* tail_, a pop at its store of head_.
THEOREM RingIsFifo == Spec => ImplementsFifo
PROOF
  <1>1. IInv /\ IInv' /\ [Next]_vars => [F!Next]_(F!vars)
    BY StepIsFifoStep
  <1> QED BY <1>1, InitIsFifoInit, Invariance, PTL DEF Spec, ImplementsFifo, F!Spec
=============================================================================
