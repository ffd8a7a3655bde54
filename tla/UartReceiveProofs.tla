------------------------- MODULE UartReceiveProofs --------------------------
(***************************************************************************)
(* Two parts of receiving.  The driver's buffer: the bytes that are taken  *)
(* from it are in the order of arrival, none twice and none left out, for  *)
(* a buffer of any size and however its interrupts follow each other.  And *)
(* the service: it gives every byte to one reader, in order, and tells     *)
(* success of requests that are full only, for any number of tasks, any    *)
(* ring and any moments at which interrupts come.                          *)
(***************************************************************************)
EXTENDS UartReceive, UartRxDma, QueueLemmas

-----------------------------------------------------------------------------
(* The driver's buffer.                                                    *)

\* MayFollow and the parts of the invariant, of values instead of variables.
Follows(m, R, a, b) ==
  /\ a >= b => m = "it" /\ b + BufferSize = a + 1
  /\ a + 1 < b => \E r \in R : a <= r /\ r < b

\* The last of the bytes st, and that each may follow the one before.
LastOf(st) == IF st = <<>> THEN 0 ELSE st[Len(st)]
InOrder(m, R, st) ==
  \A i \in 1 .. Len(st) : Follows(m, R, IF i = 1 THEN 0 ELSE st[i - 1], st[i])

Holds(m, b, ro, p, on, c, n) ==
  /\ p <= n
  /\ \A s \in Slot : b[s] <= n
  /\ \A s \in Slot : s < p => b[s] = n - p + s + 1
  /\ c => /\ m = "dma" /\ p <= ro /\ n - p >= BufferSize
          /\ \A s \in Slot : s >= p => b[s] = n - p - BufferSize + s + 1
  /\ m = "it" /\ on => p < BufferSize

NextMay(m, R, last, n, ro, p, on, c) ==
  /\ last <= n /\ (ro > 0 => n > 0)
  /\ ~c /\ (on \/ p > ro) => Follows(m, R, last, n - p + ro + 1)
  /\ c => Follows(m, R, last, n - p - BufferSize + ro + 1)
  /\ m = "it" /\ on /\ ro = BufferSize => Follows(m, R, last, n - p + 1)

Kept(m, R, last, b, ro, wp, on, c, p) ==
  wp # NotRead /\ wp > ro =>
    /\ \A s \in ro .. wp - 1 : b[s] = b[ro] + (s - ro)
    /\ b[ro] > 0 /\ Follows(m, R, last, b[ro])
    /\ on /\ ~c => wp <= p

Parts ==
  /\ DmaTypeOK
  /\ InOrder(mode, restarts, stream)
  /\ Holds(mode, rxBuffer, readOffset, pos, receiving, complete, received)
  /\ NextMay(mode, restarts, LastOf(stream), received, readOffset, pos, receiving, complete)
  /\ Kept(mode, restarts, LastOf(stream), rxBuffer, readOffset, writePos, receiving, complete, pos)

LEMMA Sizes ==
  /\ BufferSize \in Nat \ {0} /\ DmaBytes \in Nat /\ NotRead \notin 0 .. BufferSize
  /\ Slot = 0 .. BufferSize - 1
PROOF BY RxDmaAssumption DEF RxDmaAssumption, Slot

LEMMA OneMore ==
  ASSUME NEW m, NEW R, NEW a \in Int
  PROVE  Follows(m, R, a, a + 1)
PROOF BY DEF Follows

LEMMA FollowsMore ==
  ASSUME NEW m, NEW R, NEW Q, R \subseteq Q, NEW a, NEW b, Follows(m, R, a, b)
  PROVE  Follows(m, Q, a, b)
PROOF BY DEF Follows

LEMMA InOrderMore ==
  ASSUME NEW m, NEW R, NEW Q, R \subseteq Q, NEW st, InOrder(m, R, st)
  PROVE  InOrder(m, Q, st)
PROOF BY FollowsMore DEF InOrder

\* A byte that came after a restart of which there is a trace.
LEMMA AfterRestart ==
  ASSUME NEW m, NEW R, NEW r \in R, NEW a, NEW b, a \in Int, b \in Int, r \in Int, a <= r, r < b
  PROVE  Follows(m, R, a, b)
PROOF BY DEF Follows

LEMMA IsSeq ==
  ASSUME NEW S, NEW n \in Nat, NEW f, f = [i \in 1 .. n |-> f[i]], \A i \in 1 .. n : f[i] \in S
  PROVE  f \in Seq(S) /\ Len(f) = n
PROOF
  <1>1. f \in [1 .. n -> S]
    OBVIOUS
  <1> QED BY <1>1

LEMMA WithZero ==
  ASSUME NEW m, NEW R, NEW st \in Seq(1 .. DmaBytes)
  PROVE  LET s == <<0>> \o st IN
         (\A i \in 1 .. Len(s) - 1 : Follows(m, R, s[i], s[i + 1])) <=> InOrder(m, R, st)
PROOF
  <1> DEFINE s == <<0>> \o st
  <1>1. <<0>> \in Seq(0 .. DmaBytes) /\ st \in Seq(0 .. DmaBytes) /\ Len(<<0>>) = 1 /\ <<0>>[1] = 0
    <2>1. \A i \in 1 .. Len(st) : st[i] \in 0 .. DmaBytes
      <3>1. \A i \in 1 .. Len(st) : st[i] \in 1 .. DmaBytes
        BY ElementOfSeq
      <3> QED BY <3>1, Sizes
    <2>2. st = [i \in 1 .. Len(st) |-> st[i]] /\ Len(st) \in Nat
      BY LenProperties
    <2>3. st \in Seq(0 .. DmaBytes)
      BY <2>1, <2>2, IsSeq
    <2> QED BY <2>3, Sizes
  <1>2. /\ Len(s) = 1 + Len(st) /\ Len(st) \in Nat
        /\ \A i \in 1 .. 1 + Len(st) : s[i] = IF i <= 1 THEN <<0>>[i] ELSE st[i - 1]
    BY <1>1, ConcatProperties, LenProperties
  <1> HIDE DEF s
  <1>3. ASSUME NEW i \in 1 .. Len(st)
        PROVE  s[i] = (IF i = 1 THEN 0 ELSE st[i - 1]) /\ s[i + 1] = st[i]
    <2>1. i \in 1 .. 1 + Len(st) /\ i + 1 \in 1 .. 1 + Len(st) /\ ~(i + 1 <= 1) /\ i + 1 - 1 = i
          /\ (i <= 1 <=> i = 1)
      BY <1>2
    <2>2. s[i + 1] = st[i]
      BY <1>2, <2>1
    <2>3. s[i] = (IF i = 1 THEN 0 ELSE st[i - 1])
      BY <1>1, <1>2, <2>1
    <2> QED BY <2>2, <2>3
  <1>4. Len(s) - 1 = Len(st)
    BY <1>2
  <1>5. (\A i \in 1 .. Len(s) - 1 : Follows(m, R, s[i], s[i + 1])) <=> InOrder(m, R, st)
    BY <1>3, <1>4, Zenon DEF InOrder
  <1> QED BY <1>5 DEF s

LEMMA InvIsParts == DmaInv <=> Parts
PROOF
  <1>1. lastForwarded = LastOf(stream)
    BY DEF lastForwarded, LastOf, Last
  <1>2. DmaTypeOK => (ForwardedInOrder <=> InOrder(mode, restarts, stream))
    <2>1. DmaTypeOK => stream \in Seq(1 .. DmaBytes)
      BY DEF DmaTypeOK
    <2>2. ForwardedInOrder <=>
            LET s == <<0>> \o stream IN
            \A i \in 1 .. Len(s) - 1 : Follows(mode, restarts, s[i], s[i + 1])
      BY DEF ForwardedInOrder, MayFollow, Follows
    <2> QED BY <2>1, <2>2, WithZero
  <1>3. BufferHolds <=> Holds(mode, rxBuffer, readOffset, pos, receiving, complete, received)
    BY DEF BufferHolds, Holds, lap
  <1>4. NextFollows <=>
          NextMay(mode, restarts, LastOf(stream), received, readOffset, pos, receiving, complete)
    BY <1>1 DEF NextFollows, NextMay, MayFollow, Follows, lap
  <1>5. FoundIsKept <=>
          Kept(mode, restarts, LastOf(stream), rxBuffer, readOffset, writePos, receiving, complete, pos)
    BY <1>1 DEF FoundIsKept, Kept, MayFollow, Follows
  <1> QED BY <1>2, <1>3, <1>4, <1>5 DEF DmaInv, Parts

\* Bytes that lie one after the other in the buffer, pushed to the ring.
LEMMA Pushed ==
  ASSUME NEW m, NEW R, NEW st \in Seq(1 .. DmaBytes), InOrder(m, R, st),
         NEW b \in [Slot -> 0 .. DmaBytes],
         NEW first \in Nat, NEW end \in 0 .. BufferSize, first < end,
         \A s \in first .. end - 1 : b[s] = b[first] + (s - first),
         b[first] > 0, Follows(m, R, LastOf(st), b[first])
  PROVE  /\ st \o slots(b, first, end) \in Seq(1 .. DmaBytes)
         /\ InOrder(m, R, st \o slots(b, first, end))
         /\ LastOf(st \o slots(b, first, end)) = b[end - 1]
PROOF
  <1> DEFINE t == slots(b, first, end)
             u == st \o t
  <1>1. PICK n \in Nat \ {0} : n = end - first
    BY Sizes
  <1>2. t = [i \in 1 .. n |-> b[first + i - 1]]
    BY <1>1 DEF slots
  <1>3. first \in Slot /\ b[first] \in Nat
    BY Sizes
  <1>4. ASSUME NEW i \in 1 .. n
        PROVE  first + i - 1 \in Slot /\ t[i] = b[first] + (i - 1) /\ t[i] \in 1 .. DmaBytes
               /\ t[i] = b[first + i - 1]
    <2>1. PICK s \in Slot : s = first + i - 1 /\ s \in first .. end - 1
      BY <1>1, Sizes
    <2>2. t[i] = b[s] /\ b[s] = b[first] + (s - first) /\ b[s] \in 0 .. DmaBytes
      BY <1>2, <2>1
    <2> HIDE DEF t
    <2>3. s - first = i - 1
      BY <2>1
    <2> QED BY <1>3, <2>1, <2>2, <2>3
  <1> HIDE DEF t
  <1>5. t \in Seq(1 .. DmaBytes) /\ Len(t) = n
    <2>1. t = [i \in 1 .. n |-> t[i]] /\ n \in Nat
      BY <1>2
    <2> QED BY <1>4, <2>1, IsSeq
  <1>6. /\ u \in Seq(1 .. DmaBytes)
        /\ Len(u) = Len(st) + n /\ Len(st) \in Nat
        /\ \A i \in 1 .. Len(st) + n : u[i] = IF i <= Len(st) THEN st[i] ELSE t[i - Len(st)]
    BY <1>5, ConcatProperties, LenProperties
  <1> HIDE DEF u
  <1>7. ASSUME NEW i \in 1 .. Len(st) + n
        PROVE  Follows(m, R, IF i = 1 THEN 0 ELSE u[i - 1], u[i])
    <2>1. CASE i <= Len(st)
      <3>1. i \in 1 .. Len(st) /\ u[i] = st[i] /\ (i # 1 => u[i - 1] = st[i - 1])
        BY <1>6, <2>1
      <3> QED BY <3>1 DEF InOrder
    <2>2. CASE i = Len(st) + 1
      <3>1. u[i] = t[1]
        BY <1>6, <2>2
      <3>2. t[1] = b[first]
        BY <1>3, <1>4
      <3>3. (IF i = 1 THEN 0 ELSE u[i - 1]) = LastOf(st)
        <4>1. CASE Len(st) = 0
          BY <4>1, <2>2 DEF LastOf
        <4>2. CASE Len(st) > 0
          <5>1. i # 1 /\ i - 1 = Len(st) /\ i - 1 \in 1 .. Len(st) + n /\ i - 1 <= Len(st) /\ st # <<>>
            BY <4>2, <2>2, <1>6
          <5>2. u[i - 1] = st[Len(st)]
            BY <1>6, <5>1
          <5> QED BY <5>1, <5>2 DEF LastOf
        <4> QED BY <4>1, <4>2, <1>6
      <3> QED BY <3>1, <3>2, <3>3, Zenon
    <2>3. CASE i > Len(st) + 1
      <3>0. i - Len(st) \in 2 .. n /\ (i - Len(st)) - 1 = i - 1 - Len(st)
        BY <1>6, <2>3
      <3>1. PICK j \in 2 .. n : j = i - Len(st) /\ j - 1 = i - 1 - Len(st)
        BY <3>0
      <3>2. i \in 1 .. Len(st) + n /\ i - 1 \in 1 .. Len(st) + n /\ ~(i <= Len(st)) /\ ~(i - 1 <= Len(st))
            /\ i # 1
        BY <1>6, <2>3
      <3>3. u[i] = t[j] /\ u[i - 1] = t[j - 1]
        BY <1>6, <3>1, <3>2
      <3>4. j \in 1 .. n /\ j - 1 \in 1 .. n
        BY <3>1
      <3>5. t[j] = b[first] + (j - 1) /\ t[j - 1] = b[first] + ((j - 1) - 1)
        BY <1>4, <3>4
      <3>6. t[j - 1] \in Int /\ t[j] = t[j - 1] + 1
        BY <1>3, <3>4, <3>5
      <3>7. Follows(m, R, t[j - 1], t[j])
        BY <3>6, OneMore
      <3> QED BY <3>2, <3>3, <3>7, Zenon
    <2> QED BY <2>1, <2>2, <2>3, <1>6
  <1>8. InOrder(m, R, u)
    BY <1>6, <1>7 DEF InOrder
  <1>9. LastOf(u) = b[end - 1]
    <2>1. u # <<>> /\ Len(u) = Len(st) + n
      BY <1>6
    <2>2. Len(st) + n \in 1 .. Len(st) + n /\ ~(Len(st) + n <= Len(st)) /\ Len(st) + n - Len(st) = n
          /\ n \in 1 .. n /\ first + n - 1 = end - 1
      BY <1>1, <1>6
    <2>3. u[Len(st) + n] = t[n] /\ t[n] = b[first + n - 1]
      BY <1>4, <1>6, <2>2
    <2> QED BY <2>1, <2>2, <2>3 DEF LastOf
  <1> QED BY <1>6, <1>8, <1>9 DEF t, u

\* Pushing nothing.
LEMMA PushedNone ==
  ASSUME NEW st \in Seq(1 .. DmaBytes), NEW b, NEW first \in Nat
  PROVE  st \o slots(b, first, first) = st
PROOF
  <1>1. slots(b, first, first) = <<>>
    BY DEF slots
  <1> QED BY <1>1, ConcatEmptySeq

LEMMA LastType ==
  ASSUME NEW st \in Seq(1 .. DmaBytes)
  PROVE  LastOf(st) \in Nat
PROOF
  <1>0. Len(st) \in Nat /\ (st # <<>> => Len(st) # 0)
    BY EmptySeq, LenProperties
  <1>1. st # <<>> => Len(st) \in 1 .. Len(st)
    BY <1>0
  <1>2. st # <<>> => st[Len(st)] \in 1 .. DmaBytes
    BY <1>1, ElementOfSeq
  <1> QED BY <1>2, Sizes DEF LastOf

-----------------------------------------------------------------------------
(* The steps.                                                              *)

LEMMA Initially == DmaInit => Parts
PROOF
  <1> SUFFICES ASSUME DmaInit PROVE Parts
    OBVIOUS
  <1>1. /\ mode \in {"dma", "it"} /\ rxBuffer = [s \in Slot |-> 0]
        /\ readOffset = 0 /\ pos = 0 /\ writePos = NotRead /\ stream = <<>>
        /\ receiving = FALSE /\ complete = FALSE /\ idle = FALSE
        /\ irq = FALSE /\ busy = FALSE /\ missed = FALSE
        /\ received = 0 /\ restarts = {}
    BY DEF DmaInit
  <1>2. LastOf(stream) = 0 /\ Len(stream) = 0 /\ stream \in Seq(1 .. DmaBytes)
    BY <1>1 DEF LastOf
  <1>3. DmaTypeOK
    BY <1>1, <1>2, Sizes DEF DmaTypeOK, Position
  <1>4. InOrder(mode, restarts, stream)
    BY <1>2 DEF InOrder
  <1>5. Holds(mode, rxBuffer, readOffset, pos, receiving, complete, received)
    BY <1>1, Sizes DEF Holds
  <1>6. NextMay(mode, restarts, LastOf(stream), received, readOffset, pos, receiving, complete)
    BY <1>1, <1>2 DEF NextMay
  <1>7. Kept(mode, restarts, LastOf(stream), rxBuffer, readOffset, writePos, receiving, complete, pos)
    BY <1>1 DEF Kept
  <1> QED BY <1>3, <1>4, <1>5, <1>6, <1>7 DEF Parts

\* What the types say of the numbers.
LEMMA Numbers ==
  ASSUME DmaTypeOK
  PROVE  /\ readOffset \in 0 .. BufferSize /\ pos \in 0 .. BufferSize
         /\ received \in 0 .. DmaBytes /\ writePos \in (0 .. BufferSize) \cup {NotRead}
         /\ mode = "dma" => readOffset \in Slot /\ pos \in Slot /\ writePos \in Slot \cup {NotRead}
         /\ \A s \in Slot : rxBuffer[s] \in 0 .. DmaBytes
         /\ LastOf(stream) \in Nat
PROOF
  <1>1. LastOf(stream) \in Nat
    BY LastType DEF DmaTypeOK
  <1>2. \A s \in Slot : rxBuffer[s] \in 0 .. DmaBytes
    BY DEF DmaTypeOK
  <1>3. /\ readOffset \in Position /\ pos \in Position /\ writePos \in Position \cup {NotRead}
        /\ mode \in {"dma", "it"} /\ received \in 0 .. DmaBytes
    BY DEF DmaTypeOK
  <1> QED BY <1>1, <1>2, <1>3, Sizes DEF Position

\* Nothing that the invariant speaks of but the flags changes.
LEMMA SameParts ==
  ASSUME Parts, DmaTypeOK',
         UNCHANGED <<mode, rxBuffer, readOffset, pos, receiving, complete, received,
                     restarts, stream, writePos>>
  PROVE  Parts'
PROOF BY Zenon DEF Parts

\* The device stores a byte: every other slot is as it was.
LEMMA StoredFacts ==
  ASSUME DmaTypeOK, Stored, pos \in Slot
  PROVE  /\ received' = received + 1 /\ received' \in 0 .. DmaBytes
         /\ rxBuffer' \in [Slot -> 0 .. DmaBytes]
         /\ rxBuffer'[pos] = received + 1
         /\ \A s \in Slot : s # pos => rxBuffer'[s] = rxBuffer[s]
PROOF
  <1>1. received \in 0 .. DmaBytes /\ rxBuffer \in [Slot -> 0 .. DmaBytes]
    BY DEF DmaTypeOK
  <1>2. /\ received < DmaBytes /\ received' = received + 1
        /\ rxBuffer' = [rxBuffer EXCEPT ![pos] = received + 1]
    BY DEF Stored
  <1>3. received + 1 \in 0 .. DmaBytes
    BY <1>1, <1>2, Sizes
  <1> QED BY <1>1, <1>2, <1>3

LEMMA ByteArrivesKeeps ==
  ASSUME Parts, ByteArrives
  PROVE  Parts'
PROOF
  <1> DEFINE last == LastOf(stream)
  <1>1. /\ mode = "dma" /\ (complete => pos < readOffset) /\ receiving
        /\ pos' = (pos + 1) % BufferSize /\ complete' = (complete \/ pos' = 0)
        /\ busy' = TRUE
        /\ UNCHANGED <<mode, writePos, idle, irq, restarts, missed, readOffset, stream, receiving>>
    BY DEF ByteArrives, Stored, InTime
  <1>2. /\ DmaTypeOK
        /\ InOrder(mode, restarts, stream)
        /\ Holds(mode, rxBuffer, readOffset, pos, receiving, complete, received)
        /\ NextMay(mode, restarts, last, received, readOffset, pos, receiving, complete)
        /\ Kept(mode, restarts, last, rxBuffer, readOffset, writePos, receiving, complete, pos)
    BY DEF Parts
  <1>3. /\ readOffset \in Slot /\ pos \in Slot /\ writePos \in Slot \cup {NotRead}
        /\ received \in Nat /\ last \in Nat
        /\ \A s \in Slot : rxBuffer[s] \in Nat
    BY <1>1, <1>2, Numbers
  <1>4. /\ received' = received + 1 /\ received' \in 0 .. DmaBytes
        /\ rxBuffer' \in [Slot -> 0 .. DmaBytes]
        /\ rxBuffer'[pos] = received + 1
        /\ \A s \in Slot : s # pos => rxBuffer'[s] = rxBuffer[s]
    BY <1>2, <1>3, StoredFacts DEF ByteArrives
  <1>5. pos' = IF pos + 1 < BufferSize THEN pos + 1 ELSE 0
    <2>1. pos + 1 \in 0 .. 2 * BufferSize - 1 /\ (~(pos + 1 < BufferSize) => pos + 1 - BufferSize = 0)
      BY <1>3, Sizes
    <2>2. PICK x \in 0 .. 2 * BufferSize - 1 : x = pos + 1
      BY <2>1
    <2>3. x % BufferSize = IF x < BufferSize THEN x ELSE x - BufferSize
      BY Sizes, ReducedOnce
    <2>4. pos' = IF x < BufferSize THEN x ELSE x - BufferSize
      BY <1>1, <2>2, <2>3, Zenon
    <2> QED BY <1>3, <2>1, <2>2, <2>4, Sizes
  <1>a. complete' = (complete \/ pos' = 0) /\ receiving /\ (complete => pos < readOffset)
    BY <1>1
  <1>6. DmaTypeOK'
    <2>1. pos' \in Slot
      BY <1>3, <1>5, Sizes
    <2>2. complete' \in BOOLEAN
      BY <1>1
    <2> QED BY <1>1, <1>2, <1>4, <2>1, <2>2 DEF DmaTypeOK, Position
  <1>7. complete \in BOOLEAN
    BY <1>2 DEF DmaTypeOK
  <1> HIDE DEF last
  <1>8. CASE pos + 1 < BufferSize
    <2>0. pos' = pos + 1 /\ pos' # 0
      BY <1>3, <1>5, <1>8, Sizes
    <2>1. pos' = pos + 1 /\ (complete' <=> complete)
      BY <1>a, <2>0, Zenon
    <2>2. Holds(mode, rxBuffer', readOffset, pos', receiving, complete', received')
      <3>1. pos' <= received'
        BY <1>2, <1>3, <1>4, <2>1, Sizes DEF Holds
      <3>2. ASSUME NEW s \in Slot
            PROVE  /\ rxBuffer'[s] <= received'
                   /\ s < pos' => rxBuffer'[s] = received' - pos' + s + 1
                   /\ complete' /\ s >= pos' =>
                        rxBuffer'[s] = received' - pos' - BufferSize + s + 1
        <4>1. CASE s = pos
          BY <4>1, <1>3, <1>4, <2>1, Sizes
        <4>2. CASE s # pos
          <5>1. /\ rxBuffer[s] <= received
                /\ s < pos => rxBuffer[s] = received - pos + s + 1
                /\ complete /\ s >= pos => rxBuffer[s] = received - pos - BufferSize + s + 1
            BY <1>2 DEF Holds
          <5>2. rxBuffer'[s] = rxBuffer[s] /\ rxBuffer[s] \in Nat
            BY <1>3, <1>4, <4>2
          <5> QED BY <4>2, <5>1, <5>2, <1>3, <1>4, <2>1, Sizes
        <4> QED BY <4>1, <4>2
      <3>3. complete' => mode = "dma" /\ pos' <= readOffset /\ received' - pos' >= BufferSize
        BY <1>1, <1>2, <1>3, <1>4, <2>1, Sizes DEF Holds
      <3> QED BY <3>1, <3>2, <3>3, <1>1 DEF Holds
    <2>3. NextMay(mode, restarts, last, received', readOffset, pos', receiving, complete')
      <3>1. received' - pos' = received - pos /\ received' > 0
        BY <1>3, <1>4, <2>1, Sizes
      <3>2. last <= received'
        BY <1>2, <1>3, <1>4 DEF NextMay
      <3>3. ~complete => Follows(mode, restarts, last, received - pos + readOffset + 1)
        BY <1>1, <1>2 DEF NextMay
      <3>4. complete => Follows(mode, restarts, last, received - pos - BufferSize + readOffset + 1)
        BY <1>2 DEF NextMay
      <3>5. mode # "it"
        BY <1>1
      <3> QED BY <3>1, <3>2, <3>3, <3>4, <3>5, <2>1, Zenon DEF NextMay
    <2>4. Kept(mode, restarts, last, rxBuffer', readOffset, writePos, receiving, complete', pos')
      <3> SUFFICES ASSUME writePos # NotRead, writePos > readOffset
                   PROVE  /\ \A s \in readOffset .. writePos - 1 :
                               rxBuffer'[s] = rxBuffer'[readOffset] + (s - readOffset)
                          /\ rxBuffer'[readOffset] > 0
                          /\ Follows(mode, restarts, last, rxBuffer'[readOffset])
                          /\ receiving /\ ~complete' => writePos <= pos'
        BY DEF Kept
      <3>1. /\ \A s \in readOffset .. writePos - 1 :
                 rxBuffer[s] = rxBuffer[readOffset] + (s - readOffset)
            /\ rxBuffer[readOffset] > 0
            /\ Follows(mode, restarts, last, rxBuffer[readOffset])
            /\ ~complete => writePos <= pos
        BY <1>1, <1>2 DEF Kept
      <3>2. \A s \in readOffset .. writePos - 1 : s \in Slot /\ s # pos
        BY <1>1, <1>3, <3>1, Sizes
      <3>3. readOffset \in readOffset .. writePos - 1
        BY <1>3, Sizes
      <3>4. \A s \in readOffset .. writePos - 1 : rxBuffer'[s] = rxBuffer[s]
        BY <1>4, <3>2
      <3>5. ~complete' => writePos <= pos'
        BY <1>3, <2>1, <3>1, Sizes
      <3> QED BY <3>1, <3>3, <3>4, <3>5
    <2> QED BY <1>1, <1>2, <1>6, <2>2, <2>3, <2>4, Zenon DEF Parts, last
  <1>9. CASE ~(pos + 1 < BufferSize)
    <2>0. /\ pos' = 0 /\ pos = BufferSize - 1 /\ ~(pos < readOffset)
          /\ received' - pos' = received - pos + BufferSize
      BY <1>3, <1>4, <1>5, <1>9, Sizes
    <2>1. /\ pos' = 0 /\ complete' = TRUE /\ ~complete
          /\ pos = BufferSize - 1 /\ received' - pos' = received - pos + BufferSize
      BY <1>a, <2>0, Zenon
    <2>2. Holds(mode, rxBuffer', readOffset, pos', receiving, complete', received')
      <3>1. pos' <= received' /\ pos' <= readOffset /\ received' - pos' >= BufferSize
        BY <1>2, <1>3, <1>4, <2>1, Sizes DEF Holds
      <3>2. ASSUME NEW s \in Slot
            PROVE  /\ rxBuffer'[s] <= received'
                   /\ ~(s < pos')
                   /\ rxBuffer'[s] = received' - pos' - BufferSize + s + 1
        <4>1. CASE s = pos
          BY <4>1, <1>3, <1>4, <2>1, Sizes
        <4>2. CASE s # pos
          <5>1. rxBuffer[s] <= received /\ (s < pos => rxBuffer[s] = received - pos + s + 1)
            BY <1>2 DEF Holds
          <5>2. rxBuffer'[s] = rxBuffer[s] /\ rxBuffer[s] \in Nat
            BY <1>3, <1>4, <4>2
          <5> QED BY <4>2, <5>1, <5>2, <1>3, <1>4, <2>1, Sizes
        <4> QED BY <4>1, <4>2
      <3> QED BY <3>1, <3>2, <1>1 DEF Holds
    <2>3. NextMay(mode, restarts, last, received', readOffset, pos', receiving, complete')
      <3>1. /\ received' - pos' - BufferSize + readOffset + 1 = received - pos + readOffset + 1
            /\ received' > 0
        BY <1>3, <1>4, <2>1, Sizes
      <3>2. last <= received'
        BY <1>2, <1>3, <1>4 DEF NextMay
      <3>3. Follows(mode, restarts, last, received - pos + readOffset + 1)
        BY <1>1, <1>2, <2>1 DEF NextMay
      <3>4. mode # "it"
        BY <1>1
      <3> QED BY <3>1, <3>2, <3>3, <3>4, <2>1, Zenon DEF NextMay
    <2>4. Kept(mode, restarts, last, rxBuffer', readOffset, writePos, receiving, complete', pos')
      <3> SUFFICES ASSUME writePos # NotRead, writePos > readOffset
                   PROVE  /\ \A s \in readOffset .. writePos - 1 :
                               rxBuffer'[s] = rxBuffer'[readOffset] + (s - readOffset)
                          /\ rxBuffer'[readOffset] > 0
                          /\ Follows(mode, restarts, last, rxBuffer'[readOffset])
        BY <2>1 DEF Kept
      <3>1. /\ \A s \in readOffset .. writePos - 1 :
                 rxBuffer[s] = rxBuffer[readOffset] + (s - readOffset)
            /\ rxBuffer[readOffset] > 0
            /\ Follows(mode, restarts, last, rxBuffer[readOffset])
            /\ writePos <= pos
        BY <1>1, <1>2, <2>1 DEF Kept
      <3>2. \A s \in readOffset .. writePos - 1 : s \in Slot /\ s # pos
        BY <1>1, <1>3, <3>1, Sizes
      <3>3. readOffset \in readOffset .. writePos - 1
        BY <1>3, Sizes
      <3>4. \A s \in readOffset .. writePos - 1 : rxBuffer'[s] = rxBuffer[s]
        BY <1>4, <3>2
      <3> QED BY <3>1, <3>3, <3>4
    <2> QED BY <1>1, <1>2, <1>6, <2>2, <2>3, <2>4, Zenon DEF Parts, last
  <1> QED BY <1>8, <1>9

\* The byte in mode it that is not the last of the buffer.
LEMMA ByteInterruptKeeps ==
  ASSUME Parts, ByteInterrupt
  PROVE  Parts'
PROOF
  <1> DEFINE last == LastOf(stream)
  <1>1. /\ mode = "it" /\ writePos = NotRead /\ receiving
        /\ pos' = pos + 1 /\ receiving' = (pos' # BufferSize) /\ busy' = TRUE
        /\ UNCHANGED <<mode, writePos, idle, irq, restarts, missed, complete>>
    BY DEF ByteInterrupt, Stored
  <1>2. /\ DmaTypeOK
        /\ InOrder(mode, restarts, stream)
        /\ Holds(mode, rxBuffer, readOffset, pos, receiving, complete, received)
        /\ NextMay(mode, restarts, last, received, readOffset, pos, receiving, complete)
    BY DEF Parts
  <1>3. ~complete /\ pos < BufferSize
    BY <1>1, <1>2 DEF Holds
  <1>4. /\ readOffset \in 0 .. BufferSize /\ pos \in 0 .. BufferSize /\ pos \in Slot
        /\ received \in Nat /\ last \in Nat
        /\ \A s \in Slot : rxBuffer[s] \in Nat
    BY <1>2, <1>3, Numbers, Sizes
  <1>5. /\ received' = received + 1 /\ received' \in 0 .. DmaBytes
        /\ rxBuffer' \in [Slot -> 0 .. DmaBytes]
        /\ rxBuffer'[pos] = received + 1
        /\ \A s \in Slot : s # pos => rxBuffer'[s] = rxBuffer[s]
    BY <1>2, <1>4, StoredFacts DEF ByteInterrupt
  <1>a. pos' = pos + 1
    BY <1>1
  <1>6. /\ pos' \in 0 .. BufferSize /\ received' - pos' = received - pos /\ received' > 0
        /\ received' \in Nat /\ received' - pos' \in Int
    BY <1>a, <1>3, <1>4, <1>5, Sizes
  <1> HIDE DEF last
  <1>7. /\ pos' <= received'
        /\ \A s \in Slot : rxBuffer'[s] <= received'
        /\ \A s \in Slot : s < pos' => rxBuffer'[s] = received' - pos' + s + 1
    <2>1. pos' <= received'
      BY <1>1, <1>2, <1>4, <1>5 DEF Holds
    <2>2. ASSUME NEW s \in Slot
          PROVE  /\ rxBuffer'[s] <= received'
                 /\ s < pos' => rxBuffer'[s] = received' - pos' + s + 1
      <3>1. CASE s = pos
        BY <3>1, <1>1, <1>4, <1>5, Sizes
      <3>2. CASE s # pos
        <4>1. rxBuffer[s] <= received /\ (s < pos => rxBuffer[s] = received - pos + s + 1)
          BY <1>2 DEF Holds
        <4>2. rxBuffer'[s] = rxBuffer[s] /\ rxBuffer[s] \in Nat
          BY <1>4, <1>5, <3>2
        <4> QED BY <3>2, <4>1, <4>2, <1>1, <1>4, <1>5, <1>6, Sizes
      <3> QED BY <3>1, <3>2
    <2> QED BY <2>1, <2>2
  <1>8. mode' = "it" /\ restarts' = restarts /\ ~complete' /\ writePos' = NotRead
    BY <1>1, <1>3
  <1>9. Holds(mode', rxBuffer', readOffset', pos', receiving', complete', received')
    <2>0. receiving' => pos' # BufferSize
      BY <1>1, Zenon
    <2>1. receiving' => pos' < BufferSize
      BY <2>0, <1>6, Sizes
    <2> QED BY <1>7, <1>8, <2>1 DEF Holds
  <1>10. /\ Follows("it", restarts, last, received - pos + readOffset + 1)
         /\ readOffset = BufferSize => Follows("it", restarts, last, received - pos + 1)
         /\ last <= received
    BY <1>1, <1>2, <1>3 DEF NextMay
  <1>11. Kept(mode', restarts', LastOf(stream'), rxBuffer', readOffset', writePos',
              receiving', complete', pos')
    BY <1>8 DEF Kept
  <1>12. CASE pos' # BufferSize
    <2>1. receiving' /\ stream' = stream /\ readOffset' = readOffset
      BY <1>1, <1>12 DEF ByteInterrupt
    <2>2. DmaTypeOK'
      BY <1>1, <1>2, <1>5, <1>6, <2>1 DEF DmaTypeOK, Position
    <2>3. InOrder(mode', restarts', stream')
      BY <1>1, <1>2, <2>1
    <2>4. last <= received'
      BY <1>4, <1>5, <1>10
    <2>5. NextMay(mode', restarts', last, received', readOffset', pos', receiving', complete')
      BY <1>6, <1>8, <1>10, <2>1, <2>4, Zenon DEF NextMay
    <2>6. LastOf(stream') = last
      BY <2>1 DEF last
    <2> QED BY <1>9, <1>11, <2>2, <2>3, <2>5, <2>6, Zenon DEF Parts
  <1>13. CASE pos' = BufferSize
    <2>1. /\ ~receiving' /\ readOffset' = 0
          /\ stream' = stream \o slots(rxBuffer', readOffset, BufferSize)
      BY <1>1, <1>13 DEF ByteInterrupt, on_rx_complete, offset_after_complete
    <2>2. stream \in Seq(1 .. DmaBytes) /\ InOrder("it", restarts, stream)
      BY <1>1, <1>2 DEF DmaTypeOK
    <2>3. /\ stream' \in Seq(1 .. DmaBytes) /\ InOrder("it", restarts, stream')
          /\ LastOf(stream') <= received'
          /\ Follows("it", restarts, LastOf(stream'), received' - pos' + 0 + 1)
      <3>1. CASE readOffset < BufferSize
        <4>1. readOffset \in Slot /\ BufferSize - 1 \in Slot /\ readOffset \in Nat
              /\ BufferSize \in 0 .. BufferSize
          BY <1>4, <3>1, Sizes
        <4>2. \A s \in Slot : rxBuffer'[s] = received' - pos' + s + 1
          BY <1>7, <1>13, Sizes
        <4>3. rxBuffer'[readOffset] = received - pos + readOffset + 1
          BY <1>6, <4>1, <4>2
        <4>4. \A s \in readOffset .. BufferSize - 1 :
                rxBuffer'[s] = rxBuffer'[readOffset] + (s - readOffset)
          <5> SUFFICES ASSUME NEW s \in readOffset .. BufferSize - 1
                       PROVE  rxBuffer'[s] = rxBuffer'[readOffset] + (s - readOffset)
            OBVIOUS
          <5>1. s \in Slot
            BY <4>1, Sizes
          <5>2. PICK d \in Int : d = received' - pos'
            BY <1>6
          <5>3. rxBuffer'[s] = d + s + 1 /\ rxBuffer'[readOffset] = d + readOffset + 1
            BY <4>1, <4>2, <5>1, <5>2
          <5> QED BY <5>1, <5>3, <4>1, Sizes
        <4>5. rxBuffer'[readOffset] > 0
          BY <1>4, <1>5, <1>6, <1>7, <4>1, <4>2
        <4>6. Follows("it", restarts, LastOf(stream), rxBuffer'[readOffset])
          BY <1>10, <4>3 DEF last
        <4>7. /\ stream' \in Seq(1 .. DmaBytes) /\ InOrder("it", restarts, stream')
              /\ LastOf(stream') = rxBuffer'[BufferSize - 1]
          BY <1>5, <2>1, <2>2, <3>1, <4>1, <4>4, <4>5, <4>6, Pushed
        <4>8. rxBuffer'[BufferSize - 1] = received' /\ received' - pos' + 0 + 1 = received' - BufferSize + 1
          BY <1>4, <1>5, <1>13, <4>1, <4>2, Sizes
        <4>9. Follows("it", restarts, received', received' - BufferSize + 1)
          BY <1>5, <1>4, Sizes DEF Follows
        <4> QED BY <1>4, <1>5, <4>7, <4>8, <4>9
      <3>2. CASE readOffset = BufferSize
        <4>1. stream' = stream
          BY <2>1, <2>2, <3>2, PushedNone, Sizes
        <4>2. received' - pos' + 0 + 1 = received - pos + 1
          <5>1. PICK d \in Int : d = received' - pos' /\ d = received - pos
            BY <1>6
          <5>2. d + 0 + 1 = d + 1
            OBVIOUS
          <5> QED BY <5>1, <5>2, Zenon
        <4>3. last <= received' /\ LastOf(stream') = last /\ LastOf(stream') <= received'
          <5>1. LastOf(stream') = last
            BY <4>1 DEF last
          <5>2. last <= received'
            BY <1>4, <1>5, <1>10
          <5> QED BY <5>1, <5>2
        <4>4. Follows("it", restarts, LastOf(stream'), received' - pos' + 0 + 1)
          BY <3>2, <1>10, <4>2, <4>3, Zenon
        <4>5. stream' \in Seq(1 .. DmaBytes) /\ InOrder("it", restarts, stream')
          BY <2>2, <4>1, Zenon
        <4> QED BY <4>3, <4>4, <4>5, Zenon
      <3>3. readOffset < BufferSize \/ readOffset = BufferSize
        BY <1>4, Sizes
      <3> QED BY <3>1, <3>2, <3>3, Zenon
    <2>4. DmaTypeOK'
      BY <1>1, <1>2, <1>5, <1>6, <2>1, <2>3, Sizes DEF DmaTypeOK, Position
    <2>5. NextMay(mode', restarts', LastOf(stream'), received', readOffset', pos',
                  receiving', complete')
      BY <1>6, <1>8, <2>1, <2>3 DEF NextMay
    <2> QED BY <1>8, <1>9, <1>11, <2>3, <2>4, <2>5, Zenon DEF Parts
  <1> QED BY <1>12, <1>13

LEMMA ReceptionAbortedKeeps ==
  ASSUME Parts, ReceptionAborted
  PROVE  Parts'
PROOF
  <1>1. /\ receiving /\ ~receiving' /\ (complete' => complete)
        /\ complete' \in BOOLEAN
        /\ UNCHANGED <<mode, readOffset, writePos, stream, rxBuffer, pos, idle, irq, busy,
                       received, restarts, missed>>
    <2>1. complete \in BOOLEAN
      BY DEF Parts, DmaTypeOK
    <2>2. complete' = complete \/ complete' = FALSE
      BY DEF ReceptionAborted
    <2>3. /\ receiving /\ receiving' = FALSE
          /\ UNCHANGED <<mode, readOffset, writePos, stream, rxBuffer, pos, idle, irq, busy,
                         received, restarts, missed>>
      BY DEF ReceptionAborted, serviceVars, historyVars
    <2>4. (complete' => complete) /\ complete' \in BOOLEAN
      <3>1. CASE complete' = complete
        BY <2>1, <3>1, Zenon
      <3>2. CASE complete' = FALSE
        BY <3>2
      <3> QED BY <2>2, <3>1, <3>2, Zenon
    <2>5. receiving /\ ~receiving'
      BY <2>3
    <2> QED BY <2>3, <2>4, <2>5
  <1>2. /\ DmaTypeOK
        /\ InOrder(mode, restarts, stream)
        /\ Holds(mode, rxBuffer, readOffset, pos, receiving, complete, received)
        /\ NextMay(mode, restarts, LastOf(stream), received, readOffset, pos, receiving, complete)
        /\ Kept(mode, restarts, LastOf(stream), rxBuffer, readOffset, writePos, receiving,
                complete, pos)
    BY DEF Parts
  <1>3. DmaTypeOK'
    BY <1>1, <1>2 DEF DmaTypeOK, Position, ReceptionAborted
  <1>4. Holds(mode, rxBuffer, readOffset, pos, receiving', complete', received)
    BY <1>1, <1>2 DEF Holds
  <1>5. NextMay(mode, restarts, LastOf(stream), received, readOffset, pos, receiving', complete')
    <2>1. complete => ~(pos > readOffset)
      BY <1>2, Numbers DEF Holds
    <2> QED BY <1>1, <1>2, <2>1 DEF NextMay
  <1>6. Kept(mode, restarts, LastOf(stream), rxBuffer, readOffset, writePos, receiving',
             complete', pos)
    BY <1>1, <1>2 DEF Kept
  <1> QED BY <1>1, <1>2, <1>3, <1>4, <1>5, <1>6, Zenon DEF Parts

\* A transfer started later begins at 0; what it skips is told by restarts.
LEMMA StartKeeps ==
  ASSUME Parts, ServiceStart
  PROVE  Parts'
PROOF
  <1>1. /\ writePos = NotRead /\ irq' = TRUE /\ idle' = FALSE /\ missed' = (missed \/ idle)
        /\ UNCHANGED <<mode, readOffset, writePos, stream, rxBuffer, busy, received>>
    BY DEF ServiceStart, enable_irq, serviceVars
  <1>2. /\ DmaTypeOK
        /\ InOrder(mode, restarts, stream)
        /\ Holds(mode, rxBuffer, readOffset, pos, receiving, complete, received)
        /\ NextMay(mode, restarts, LastOf(stream), received, readOffset, pos, receiving, complete)
    BY DEF Parts
  <1>3. idle' \in BOOLEAN /\ irq' \in BOOLEAN /\ missed' \in BOOLEAN
    BY <1>1, <1>2 DEF DmaTypeOK
  <1>4. Kept(mode', restarts', LastOf(stream'), rxBuffer', readOffset', writePos',
             receiving', complete', pos')
    BY <1>1 DEF Kept
  <1>5. CASE receiving
    <2>1. UNCHANGED <<receiving, pos, complete, restarts>>
      BY <1>5 DEF ServiceStart, start_receive
    <2>2. DmaTypeOK'
      BY <1>1, <1>2, <1>3, <2>1 DEF DmaTypeOK, Position
    <2> QED BY <1>1, <1>2, <1>4, <2>1, <2>2, Zenon DEF Parts
  <1>6. CASE ~receiving
    <2>1. /\ receiving' = TRUE /\ pos' = 0 /\ complete' = FALSE
          /\ restarts' = IF received = 0 THEN restarts ELSE restarts \cup {received}
      BY <1>6 DEF ServiceStart, start_receive
    <2>2. /\ received \in 0 .. DmaBytes /\ readOffset \in 0 .. BufferSize
          /\ LastOf(stream) \in Nat /\ LastOf(stream) <= received /\ restarts \subseteq 1 .. DmaBytes
          /\ readOffset > 0 => received > 0
      BY <1>2, Numbers DEF DmaTypeOK, NextMay
    <2>3. restarts' \subseteq 1 .. DmaBytes /\ restarts \subseteq restarts'
          /\ (received # 0 => received \in restarts')
      BY <2>1, <2>2
    <2>4. DmaTypeOK'
      <3>1. pos' \in Position
        BY <1>1, <2>1, Sizes DEF Position
      <3>2. receiving' \in BOOLEAN /\ complete' \in BOOLEAN
        BY <2>1
      <3> QED BY <1>1, <1>2, <1>3, <2>3, <3>1, <3>2 DEF DmaTypeOK, Position
    <2>5. InOrder(mode', restarts', stream')
      BY <1>1, <1>2, <2>3, InOrderMore
    <2>6. Holds(mode', rxBuffer', readOffset', pos', receiving', complete', received')
      BY <1>1, <1>2, <2>1, <2>2, Sizes DEF Holds
    <2>7. ASSUME NEW k \in 0 .. BufferSize, received = 0 => k = 0
          PROVE  Follows(mode, restarts', LastOf(stream), received - 0 + k + 1)
      <3>1. CASE received = 0
        <4>1. LastOf(stream) = 0 /\ received - 0 + k + 1 = LastOf(stream) + 1
          BY <2>2, <2>7, <3>1
        <4> QED BY <2>2, <4>1, OneMore
      <3>2. CASE received # 0
        <4>1. /\ received \in Int /\ LastOf(stream) \in Int /\ received - 0 + k + 1 \in Int
              /\ received < received - 0 + k + 1
          BY <2>2, Sizes
        <4> QED BY <2>2, <2>3, <3>2, <4>1, AfterRestart
      <3> QED BY <3>1, <3>2
    <2>8. Follows(mode, restarts', LastOf(stream), received - 0 + readOffset + 1)
      BY <2>2, <2>7
    <2>9. readOffset = BufferSize => Follows(mode, restarts', LastOf(stream), received - 0 + 1)
      <3>1. 0 \in 0 .. BufferSize /\ received - 0 + 0 + 1 = received - 0 + 1
        BY <2>2, Sizes
      <3> QED BY <2>7, <3>1
    <2>10. NextMay(mode', restarts', LastOf(stream'), received', readOffset', pos',
                   receiving', complete')
      BY <1>1, <2>1, <2>2, <2>8, <2>9, Zenon DEF NextMay
    <2> QED BY <1>4, <2>4, <2>5, <2>6, <2>10 DEF Parts
  <1> QED BY <1>5, <1>6

LEMMA LineIdleKeeps ==
  ASSUME Parts, LineIdle \/ ServiceStop
  PROVE  Parts'
PROOF
  <1>1. /\ UNCHANGED <<mode, rxBuffer, readOffset, pos, receiving, complete, received,
                       restarts, stream, writePos>>
        /\ UNCHANGED missed /\ idle' \in {idle, TRUE} /\ irq' \in {irq, FALSE}
        /\ busy' \in {busy, FALSE}
    BY DEF LineIdle, ServiceStop, serviceVars, historyVars
  <1>2. DmaTypeOK
    BY DEF Parts
  <1>3. idle' \in BOOLEAN /\ irq' \in BOOLEAN /\ busy' \in BOOLEAN
    BY <1>1, <1>2 DEF DmaTypeOK
  <1>4. DmaTypeOK'
    BY <1>1, <1>2, <1>3 DEF DmaTypeOK, Position
  <1> QED BY <1>1, <1>4, SameParts

\* The rest of the buffer is of the lap before: what follows begins at 0.
LEMMA OnRxCompleteKeeps ==
  ASSUME Parts, OnRxComplete
  PROVE  Parts'
PROOF
  <1> DEFINE last == LastOf(stream)
             L == received - pos
  <1>1. /\ complete /\ writePos = NotRead /\ ~complete' /\ complete' = FALSE
        /\ stream' = stream \o slots(rxBuffer, readOffset, BufferSize)
        /\ readOffset' = 0
        /\ UNCHANGED <<mode, writePos, rxBuffer, receiving, pos, idle, irq, busy,
                       received, restarts, missed>>
    BY DEF OnRxComplete, on_rx_complete, offset_after_complete, historyVars
  <1>2. /\ DmaTypeOK
        /\ InOrder(mode, restarts, stream)
        /\ Holds(mode, rxBuffer, readOffset, pos, receiving, complete, received)
        /\ NextMay(mode, restarts, last, received, readOffset, pos, receiving, complete)
    BY DEF Parts
  <1>3. /\ mode = "dma" /\ pos <= readOffset /\ L >= BufferSize
        /\ \A s \in Slot : s >= pos => rxBuffer[s] = L - BufferSize + s + 1
    BY <1>1, <1>2 DEF Holds
  <1>4. /\ readOffset \in Slot /\ pos \in Slot /\ received \in Nat /\ last \in Nat
        /\ \A s \in Slot : rxBuffer[s] \in 0 .. DmaBytes
    BY <1>2, <1>3, Numbers
  <1>5. PICK d \in Nat : d = L - BufferSize /\ L = d + BufferSize
    BY <1>3, <1>4, Sizes
  <1>6. Follows(mode, restarts, last, d + readOffset + 1)
    BY <1>1, <1>2, <1>5 DEF NextMay
  <1> HIDE DEF last, L
  <1>7. /\ stream' \in Seq(1 .. DmaBytes) /\ InOrder(mode, restarts, stream')
        /\ LastOf(stream') = rxBuffer[BufferSize - 1]
    <2>1. /\ readOffset \in Nat /\ BufferSize \in 0 .. BufferSize /\ readOffset < BufferSize
          /\ BufferSize - 1 \in Slot
      BY <1>4, Sizes
    <2>2. \A s \in readOffset .. BufferSize - 1 : s \in Slot /\ s >= pos
      BY <1>3, <1>4, Sizes
    <2>3. \A s \in readOffset .. BufferSize - 1 : rxBuffer[s] = d + s + 1
      BY <1>3, <1>5, <2>2
    <2>4. rxBuffer[readOffset] = d + readOffset + 1
      BY <1>3, <1>4, <1>5
    <2>5. \A s \in readOffset .. BufferSize - 1 :
            rxBuffer[s] = rxBuffer[readOffset] + (s - readOffset)
      BY <2>1, <2>3, <2>4, Sizes
    <2>6. rxBuffer[readOffset] > 0
      BY <2>1, <2>4
    <2>7. Follows(mode, restarts, LastOf(stream), rxBuffer[readOffset])
      BY <1>6, <2>4 DEF last
    <2>8. stream \in Seq(1 .. DmaBytes) /\ rxBuffer \in [Slot -> 0 .. DmaBytes]
      BY <1>2 DEF DmaTypeOK
    <2> QED BY <1>1, <1>2, <2>1, <2>5, <2>6, <2>7, <2>8, Pushed
  <1>8. LastOf(stream') = L /\ L <= received /\ L \in Nat
    <2>1. BufferSize - 1 \in Slot /\ BufferSize - 1 >= pos /\ d + (BufferSize - 1) + 1 = L
      BY <1>4, <1>5, Sizes
    <2>2. rxBuffer[BufferSize - 1] = d + (BufferSize - 1) + 1
      BY <1>3, <1>5, <2>1
    <2>3. L <= received /\ L \in Nat
      BY <1>2, <1>4, Sizes DEF Holds, L
    <2> QED BY <1>7, <2>1, <2>2, <2>3
  <1>9. DmaTypeOK'
    <2>1. readOffset' \in Position
      BY <1>1, <1>3, Sizes DEF Position
    <2> QED BY <1>1, <1>2, <1>7, <2>1 DEF DmaTypeOK, Position
  <1>10. Holds(mode', rxBuffer', readOffset', pos', receiving', complete', received')
    BY <1>1, <1>2 DEF Holds
  <1>11. NextMay(mode', restarts', LastOf(stream'), received', readOffset', pos',
                 receiving', complete')
    <2>1. Follows(mode, restarts, L, L + 1)
      BY <1>8, OneMore
    <2>2. received - pos + 0 + 1 = L + 1
      BY <1>4, Sizes DEF L
    <2>3. mode # "it"
      BY <1>3
    <2>4. Follows(mode', restarts', LastOf(stream'), received' - pos' + readOffset' + 1)
      BY <1>1, <1>8, <2>1, <2>2, Zenon
    <2>5. LastOf(stream') <= received' /\ ~(readOffset' > 0)
      BY <1>1, <1>8
    <2> QED BY <1>1, <2>3, <2>4, <2>5, Zenon DEF NextMay
  <1>12. Kept(mode', restarts', LastOf(stream'), rxBuffer', readOffset', writePos',
              receiving', complete', pos')
    BY <1>1 DEF Kept
  <1>13. InOrder(mode', restarts', stream')
    BY <1>1, <1>7
  <1> QED BY <1>9, <1>10, <1>11, <1>12, <1>13 DEF Parts

\* What lies between the offset and the position is of this lap.
LEMMA OnRxIdleKeeps ==
  ASSUME Parts, OnRxIdle
  PROVE  Parts'
PROOF
  <1> DEFINE last == LastOf(stream)
  <1>1. /\ writePos = NotRead /\ idle' = FALSE
        /\ writePos' = BufferSize - (BufferSize - pos)
        /\ UNCHANGED <<mode, readOffset, stream, rxBuffer, receiving, pos, complete, irq, busy,
                       received, restarts, missed>>
    BY DEF OnRxIdle, get_rx_transfer_remaining, historyVars
  <1>2. /\ DmaTypeOK
        /\ InOrder(mode, restarts, stream)
        /\ Holds(mode, rxBuffer, readOffset, pos, receiving, complete, received)
        /\ NextMay(mode, restarts, last, received, readOffset, pos, receiving, complete)
    BY DEF Parts
  <1>3. /\ readOffset \in 0 .. BufferSize /\ pos \in 0 .. BufferSize /\ received \in Nat
        /\ last \in Nat
    BY <1>2, Numbers
  <1>4. writePos' = pos
    BY <1>1, <1>3, Sizes
  <1>5. DmaTypeOK'
    <2>1. writePos' \in Position \cup {NotRead} /\ idle' \in BOOLEAN
      BY <1>1, <1>2, <1>4 DEF DmaTypeOK
    <2> QED BY <1>1, <1>2, <2>1 DEF DmaTypeOK, Position
  <1> HIDE DEF last
  <1>6. ASSUME pos > readOffset
        PROVE  /\ \A s \in readOffset .. pos - 1 :
                    rxBuffer[s] = rxBuffer[readOffset] + (s - readOffset)
               /\ rxBuffer[readOffset] > 0
               /\ Follows(mode, restarts, last, rxBuffer[readOffset])
    <2>1. ~complete
      BY <1>2, <1>3, <1>6 DEF Holds
    <2>2. Follows(mode, restarts, last, received - pos + readOffset + 1)
      BY <1>2, <1>6, <2>1 DEF NextMay
    <2>3. PICK d \in Nat : d = received - pos
      BY <1>2, <1>3 DEF Holds
    <2>4. \A s \in readOffset .. pos - 1 : s \in Slot /\ s < pos
      BY <1>3, Sizes
    <2>5. \A s \in readOffset .. pos - 1 : rxBuffer[s] = d + s + 1
      BY <1>2, <2>3, <2>4 DEF Holds
    <2>6. readOffset \in readOffset .. pos - 1
      BY <1>3, <1>6
    <2>7. rxBuffer[readOffset] = d + readOffset + 1
      BY <2>5, <2>6
    <2>8. Follows(mode, restarts, last, rxBuffer[readOffset])
      BY <2>2, <2>3, <2>7, Zenon
    <2> QED BY <1>3, <2>5, <2>7, <2>8
  <1>7. Kept(mode, restarts, last, rxBuffer, readOffset, pos, receiving, complete, pos)
    BY <1>3, <1>6 DEF Kept
  <1> QED BY <1>1, <1>2, <1>4, <1>5, <1>7, Zenon DEF Parts, last

\* What was found is forwarded; it is still there.
LEMMA OnRxIdleForwardsKeeps ==
  ASSUME Parts, OnRxIdleForwards
  PROVE  Parts'
PROOF
  <1> DEFINE last == LastOf(stream)
  <1>1. /\ writePos # NotRead /\ writePos' = NotRead
        /\ UNCHANGED <<mode, rxBuffer, receiving, pos, complete, idle, irq, busy,
                       received, restarts>>
    BY DEF OnRxIdleForwards, deviceVars
  <1>2. /\ DmaTypeOK
        /\ InOrder(mode, restarts, stream)
        /\ Holds(mode, rxBuffer, readOffset, pos, receiving, complete, received)
        /\ NextMay(mode, restarts, last, received, readOffset, pos, receiving, complete)
        /\ Kept(mode, restarts, last, rxBuffer, readOffset, writePos, receiving, complete, pos)
    BY DEF Parts
  <1>3. /\ readOffset \in 0 .. BufferSize /\ pos \in 0 .. BufferSize
        /\ writePos \in 0 .. BufferSize /\ received \in Nat /\ last \in Nat
        /\ mode = "dma" => writePos \in Slot
        /\ \A s \in Slot : rxBuffer[s] \in 0 .. DmaBytes
    BY <1>1, <1>2, Numbers
  <1>4. missed \in BOOLEAN /\ complete \in BOOLEAN /\ readOffset \in Position
        /\ writePos \in Position \cup {NotRead} /\ mode \in {"dma", "it"}
        /\ stream \in Seq(1 .. DmaBytes) /\ rxBuffer \in [Slot -> 0 .. DmaBytes]
    BY <1>2 DEF DmaTypeOK
  <1>5. Kept(mode', restarts', LastOf(stream'), rxBuffer', readOffset', writePos',
             receiving', complete', pos')
    BY <1>1 DEF Kept
  <1> HIDE DEF last
  <1>6. CASE writePos <= readOffset
    <2>1. UNCHANGED <<readOffset, stream>> /\ missed' = (missed \/ complete)
      BY <1>6 DEF OnRxIdleForwards, nothing_new
    <2>2. missed' \in BOOLEAN
      BY <2>1
    <2>3. DmaTypeOK'
      BY <1>1, <1>2, <2>1, <2>2 DEF DmaTypeOK, Position
    <2> QED BY <1>1, <1>2, <1>5, <2>1, <2>3, Zenon DEF Parts, last
  <1>7. CASE ~(writePos <= readOffset)
    <2>1. /\ stream' = stream \o slots(rxBuffer, readOffset, writePos)
          /\ readOffset' = writePos /\ missed' = missed
      BY <1>7 DEF OnRxIdleForwards, nothing_new
    <2>2. /\ writePos > readOffset /\ readOffset < writePos /\ readOffset \in Nat
          /\ readOffset \in Slot /\ writePos - 1 \in Slot /\ writePos - 1 \in readOffset .. writePos - 1
          /\ writePos > 0
      BY <1>3, <1>7, Sizes
    <2>3. /\ \A s \in readOffset .. writePos - 1 :
                rxBuffer[s] = rxBuffer[readOffset] + (s - readOffset)
          /\ rxBuffer[readOffset] > 0 /\ Follows(mode, restarts, last, rxBuffer[readOffset])
          /\ receiving /\ ~complete => writePos <= pos
      BY <1>1, <1>2, <2>2 DEF Kept
    <2>4. Follows(mode, restarts, LastOf(stream), rxBuffer[readOffset])
      BY <2>3 DEF last
    <2>5. /\ stream' \in Seq(1 .. DmaBytes) /\ InOrder(mode, restarts, stream')
          /\ LastOf(stream') = rxBuffer[writePos - 1]
      <3>1. /\ stream \in Seq(1 .. DmaBytes) /\ InOrder(mode, restarts, stream)
            /\ rxBuffer \in [Slot -> 0 .. DmaBytes]
            /\ writePos \in 0 .. BufferSize /\ rxBuffer[readOffset] > 0
        BY <1>2, <1>3, <1>4, <2>3
      <3>2. \A s \in readOffset .. writePos - 1 :
              rxBuffer[s] = rxBuffer[readOffset] + (s - readOffset)
        BY <2>3
      <3> QED BY <2>1, <2>2, <2>4, <3>1, <3>2, Pushed
    <2>6. PICK e \in Nat : e = LastOf(stream')
      BY <1>3, <2>2, <2>5
    <2>7. e = rxBuffer[writePos - 1] /\ e <= received /\ e > 0
      <3>1. rxBuffer[writePos - 1] <= received
        BY <1>2, <2>2 DEF Holds
      <3>2. rxBuffer[writePos - 1] = rxBuffer[readOffset] + (writePos - 1 - readOffset)
        BY <2>2, <2>3
      <3>3. rxBuffer[writePos - 1] > 0
        <4>1. rxBuffer[readOffset] \in Nat /\ rxBuffer[readOffset] > 0
          BY <1>3, <2>2, <2>3
        <4> QED BY <1>3, <2>2, <3>2, <4>1, Sizes
      <3> QED BY <2>5, <2>6, <3>1, <3>3
    <2>8. Follows(mode, restarts, e, e + 1)
      BY OneMore
    <2>9. DmaTypeOK'
      <3>1. readOffset' \in Position
        BY <1>1, <1>4, <2>1
      <3> QED BY <1>1, <1>2, <2>1, <2>5, <3>1 DEF DmaTypeOK, Position
    <2>10. InOrder(mode', restarts', stream')
      BY <1>1, <2>5
    <2>11. Holds(mode', rxBuffer', readOffset', pos', receiving', complete', received')
      <3>1. complete => pos <= writePos
        <4>1. complete => pos <= readOffset
          BY <1>2 DEF Holds
        <4> QED BY <4>1, <1>3, <2>2, Sizes
      <3> QED BY <1>1, <1>2, <2>1, <3>1 DEF Holds
    <2>12. ~complete /\ (receiving \/ pos > writePos) => e + 1 = received - pos + writePos + 1
      <3> SUFFICES ASSUME ~complete, receiving \/ pos > writePos
                   PROVE  e + 1 = received - pos + writePos + 1
        OBVIOUS
      <3>1. writePos - 1 < pos
        BY <1>3, <2>2, <2>3
      <3>2. rxBuffer[writePos - 1] = received - pos + (writePos - 1) + 1
        BY <1>2, <2>2, <3>1 DEF Holds
      <3> QED BY <1>3, <2>7, <3>2, Sizes
    <2>13. complete => e + 1 = received - pos - BufferSize + writePos + 1
      <3> SUFFICES ASSUME complete
                   PROVE  e + 1 = received - pos - BufferSize + writePos + 1
        OBVIOUS
      <3>1. pos <= readOffset
        BY <1>2 DEF Holds
      <3>2. writePos - 1 >= pos
        BY <1>3, <2>2, <3>1, Sizes
      <3>3. rxBuffer[writePos - 1] = received - pos - BufferSize + (writePos - 1) + 1
        BY <1>2, <2>2, <3>2 DEF Holds
      <3> QED BY <1>3, <2>7, <3>3, Sizes
    <2>14. ~(mode = "it" /\ receiving /\ writePos = BufferSize)
      <3> SUFFICES ASSUME mode = "it", receiving, writePos = BufferSize
                   PROVE  FALSE
        OBVIOUS
      <3>1. pos < BufferSize /\ ~complete
        BY <1>2 DEF Holds
      <3>2. writePos <= pos
        BY <2>3, <3>1
      <3> QED BY <1>3, <3>1, <3>2, Sizes
    <2>15. e <= received /\ (writePos > 0 => received > 0)
      BY <1>3, <2>7
    <2>16. NextMay(mode, restarts, e, received, writePos, pos, receiving, complete)
      BY <2>8, <2>12, <2>13, <2>14, <2>15, Zenon DEF NextMay
    <2>17. NextMay(mode', restarts', LastOf(stream'), received', readOffset', pos',
                   receiving', complete')
      BY <1>1, <2>1, <2>6, <2>16, Zenon
    <2> QED BY <1>5, <2>9, <2>10, <2>11, <2>17 DEF Parts
  <1> QED BY <1>6, <1>7

LEMMA StutterKeeps ==
  ASSUME Parts, UNCHANGED dmaVars
  PROVE  Parts'
PROOF
  <1>1. UNCHANGED <<mode, readOffset, writePos, stream, rxBuffer, receiving, pos, complete,
                    idle, irq, busy, received, restarts, missed>>
    BY DEF dmaVars, serviceVars, deviceVars, historyVars
  <1>2. DmaTypeOK'
    BY <1>1 DEF Parts, DmaTypeOK, Position
  <1> QED BY <1>1, <1>2, SameParts

\* The parts of the invariant always hold.
LEMMA AlwaysParts == DmaSpec => []Parts
PROOF
  <1>1. Parts /\ [DmaNext]_dmaVars => Parts'
    <2> SUFFICES ASSUME Parts, [DmaNext]_dmaVars PROVE Parts'
      OBVIOUS
    <2>1. CASE ByteArrives
      BY <2>1, ByteArrivesKeeps
    <2>2. CASE ByteInterrupt
      BY <2>2, ByteInterruptKeeps
    <2>3. CASE LineIdle \/ ServiceStop
      BY <2>3, LineIdleKeeps
    <2>4. CASE ReceptionAborted
      BY <2>4, ReceptionAbortedKeeps
    <2>5. CASE ServiceStart
      BY <2>5, StartKeeps
    <2>6. CASE OnRxComplete
      BY <2>6, OnRxCompleteKeeps
    <2>7. CASE OnRxIdle
      BY <2>7, OnRxIdleKeeps
    <2>8. CASE OnRxIdleForwards
      BY <2>8, OnRxIdleForwardsKeeps
    <2>9. CASE UNCHANGED dmaVars
      BY <2>9, StutterKeeps
    <2> QED BY <2>1, <2>2, <2>3, <2>4, <2>5, <2>6, <2>7, <2>8, <2>9 DEF DmaNext, Handlers
  <1> QED BY Initially, <1>1, PTL DEF DmaSpec

\* The inductive invariant of the reception buffer always holds.
THEOREM DmaInvariance == DmaSpec => []DmaInv
PROOF BY AlwaysParts, InvIsParts, PTL

\* The variables of the model of the reception buffer keep their types.
THEOREM DmaTypeCorrect == DmaSpec => []DmaTypeOK
PROOF
  <1>1. DmaInv => DmaTypeOK
    BY DEF DmaInv
  <1> QED BY <1>1, DmaInvariance, PTL

\* The bytes forwarded are in the order of arrival, none twice and none left
\* out but for the exceptions of MayFollow, for a buffer of any size and however
\* the two interrupts of the DMA follow each other.
THEOREM DmaForwardsInOrder == DmaSpec => []ForwardedInOrder
PROOF
  <1>1. DmaInv => ForwardedInOrder
    BY DEF DmaInv
  <1> QED BY <1>1, DmaInvariance, PTL

-----------------------------------------------------------------------------
(* The service.                                                            *)

USE ReceiveAssumption DEF ReceiveAssumption

-----------------------------------------------------------------------------
(* Pieces of a sequence in ascending order.                                *)

LEMMA SplitFacts ==
  ASSUME NEW q \in Seq(Byte), NEW m \in 0 .. Len(q)
  PROVE  LET front == SubSeq(q, 1, m)  rest == SubSeq(q, m + 1, Len(q)) IN
         /\ front \in Seq(Byte) /\ Len(front) = m
         /\ rest \in Seq(Byte) /\ Len(rest) = Len(q) - m
         /\ Range(front) \subseteq Range(q) /\ Range(rest) \subseteq Range(q)
         /\ Ascending(q) =>
              /\ Ascending(front) /\ Ascending(rest)
              /\ \A b \in Range(front), c \in Range(rest) : b < c
PROOF
  <1> DEFINE front == SubSeq(q, 1, m)
             rest == SubSeq(q, m + 1, Len(q))
  <1>0. Len(q) \in Nat /\ m \in Nat /\ m <= Len(q) /\ DOMAIN q = 1 .. Len(q)
        /\ \A i \in 1 .. Len(q) : q[i] \in Byte
    BY LenProperties
  <1>1. front \in Seq(Byte) /\ Len(front) = m /\ \A i \in 1 .. m : front[i] = q[i]
    <2>1. \A i \in 1 .. m : q[i] \in Byte
      BY <1>0
    <2>2. /\ SubSeq(q, 1, m) \in Seq(Byte)
          /\ Len(SubSeq(q, 1, m)) = IF 1 <= m THEN m - 1 + 1 ELSE 0
          /\ \A i \in 1 .. m - 1 + 1 : SubSeq(q, 1, m)[i] = q[1 + i - 1]
      BY <1>0, <2>1, SubSeqProperties
    <2> HIDE DEF front
    <2>3. front = SubSeq(q, 1, m)
      BY DEF front
    <2> QED
      BY <1>0, <2>2, <2>3
  <1>2. /\ rest \in Seq(Byte) /\ Len(rest) = Len(q) - m
        /\ \A i \in 1 .. Len(q) - m : rest[i] = q[m + i]
    <2>1. \A i \in m + 1 .. Len(q) : q[i] \in Byte
      BY <1>0
    <2>2. /\ SubSeq(q, m + 1, Len(q)) \in Seq(Byte)
          /\ Len(SubSeq(q, m + 1, Len(q))) = IF m + 1 <= Len(q) THEN Len(q) - (m + 1) + 1 ELSE 0
          /\ \A i \in 1 .. Len(q) - (m + 1) + 1 :
               SubSeq(q, m + 1, Len(q))[i] = q[(m + 1) + i - 1]
      BY <1>0, <2>1, SubSeqProperties
    <2> HIDE DEF rest
    <2>3. rest = SubSeq(q, m + 1, Len(q))
      BY DEF rest
    <2> QED
      BY <1>0, <2>2, <2>3
  <1> HIDE DEF front, rest
  <1>3. DOMAIN front = 1 .. m /\ DOMAIN rest = 1 .. Len(q) - m
    BY <1>1, <1>2, LenProperties
  <1>4. Range(front) \subseteq Range(q)
    BY <1>0, <1>1, <1>3 DEF Range
  <1>5. Range(rest) \subseteq Range(q)
    <2>1. \A i \in 1 .. Len(q) - m : m + i \in 1 .. Len(q)
      BY <1>0
    <2> QED
      BY <1>0, <1>2, <1>3, <2>1 DEF Range
  <1>6. ASSUME Ascending(q)
        PROVE  /\ Ascending(front) /\ Ascending(rest)
               /\ \A b \in Range(front), c \in Range(rest) : b < c
    <2>1. Ascending(front)
      BY <1>0, <1>1, <1>3, <1>6 DEF Ascending
    <2>2. ASSUME NEW i \in DOMAIN rest, NEW j \in DOMAIN rest, i < j PROVE rest[i] < rest[j]
      <3>1. m + i \in DOMAIN q /\ m + j \in DOMAIN q /\ m + i < m + j
        BY <1>0, <1>3, <2>2
      <3>2. q[m + i] < q[m + j]
        BY <1>6, <3>1 DEF Ascending
      <3> QED
        BY <1>2, <1>3, <3>2
    <2>3. ASSUME NEW b \in Range(front), NEW c \in Range(rest) PROVE b < c
      <3>1. PICK i \in 1 .. m : b = front[i]
        BY <1>3, <2>3 DEF Range
      <3>2. PICK j \in 1 .. Len(q) - m : c = rest[j]
        BY <1>3, <2>3 DEF Range
      <3>3. i \in DOMAIN q /\ m + j \in DOMAIN q /\ i < m + j
        BY <1>0
      <3>4. q[i] < q[m + j]
        BY <1>6, <3>3 DEF Ascending
      <3> QED
        BY <1>1, <1>2, <3>1, <3>2, <3>4
    <2> QED
      BY <2>1, <2>2, <2>3 DEF Ascending
  <1> QED
    BY <1>1, <1>2, <1>4, <1>5, <1>6 DEF front, rest

LEMMA JoinFacts ==
  ASSUME NEW p \in Seq(Byte), NEW q \in Seq(Byte), Ascending(p), Ascending(q),
         \A b \in Range(p), c \in Range(q) : b < c
  PROVE  Ascending(p \o q)
PROOF
  <1> DEFINE r == p \o q
  <1>1. /\ Len(p) \in Nat /\ DOMAIN p = 1 .. Len(p)
        /\ Len(q) \in Nat /\ DOMAIN q = 1 .. Len(q)
    BY LenProperties
  <1>2. r \in Seq(Byte) /\ Len(r) = Len(p) + Len(q)
        /\ \A i \in 1 .. Len(p) + Len(q) : r[i] = IF i <= Len(p) THEN p[i] ELSE q[i - Len(p)]
    BY ConcatProperties
  <1> HIDE DEF r
  <1>3. DOMAIN r = 1 .. Len(p) + Len(q)
    BY <1>2, LenProperties
  <1>4. ASSUME NEW i \in DOMAIN r, NEW j \in DOMAIN r, i < j PROVE r[i] < r[j]
    <2>1. CASE j <= Len(p)
      BY <1>1, <1>2, <1>3, <1>4, <2>1 DEF Ascending
    <2>2. CASE i > Len(p)
      <3>1. /\ i - Len(p) \in DOMAIN q /\ j - Len(p) \in DOMAIN q
            /\ i - Len(p) < j - Len(p)
        BY <1>1, <1>3, <1>4, <2>2
      <3>2. r[i] = q[i - Len(p)] /\ r[j] = q[j - Len(p)]
        BY <1>1, <1>2, <1>3, <1>4, <2>2
      <3> QED
        BY <3>1, <3>2 DEF Ascending
    <2>3. CASE i <= Len(p) /\ j > Len(p)
      <3>1. i \in DOMAIN p /\ j - Len(p) \in DOMAIN q
        BY <1>1, <1>3, <2>3
      <3>2. r[i] = p[i] /\ r[j] = q[j - Len(p)]
        BY <1>1, <1>2, <1>3, <2>3
      <3>3. p[i] \in Range(p) /\ q[j - Len(p)] \in Range(q)
        BY <3>1 DEF Range
      <3> QED
        BY <3>2, <3>3
    <2> QED
      BY <1>1, <1>3, <2>1, <2>2, <2>3
  <1> QED
    BY <1>4 DEF Ascending, r

-----------------------------------------------------------------------------
(* Bytes are given to a reader.                                            *)

\* What every round of try_fill_receiver does to the bytes.
Gives(t) == data' = given(t) /\ ring' = ring_after(t) /\ UNCHANGED <<len, arrived>>

LEMMA GiveFacts ==
  ASSUME TypeOK, StreamSplit, NEW t \in Task, Gives(t)
  PROVE  /\ ring' \in Seq(Byte) /\ Len(ring') <= RingSize
         /\ data' \in [Task -> Seq(Byte)] /\ \A u \in Task : Len(data'[u]) <= len'[u]
         /\ \A u \in Task \ {t} : data'[u] = data[u]
         /\ filled(t) => Len(data'[t]) = len'[t]
         /\ StreamSplit'
PROOF
  <1> DEFINE m == moved(t)
             front == SubSeq(ring, 1, m)
             rest == SubSeq(ring, m + 1, Len(ring))
  <1>0. /\ ring \in Seq(Byte) /\ Len(ring) \in Nat /\ Len(ring) <= RingSize
        /\ data \in [Task -> Seq(Byte)] /\ data[t] \in Seq(Byte) /\ Len(data[t]) \in Nat
        /\ len \in [Task -> 0 .. MaxLen] /\ len[t] \in Nat /\ Len(data[t]) <= len[t]
    BY LenProperties DEF TypeOK
  <1>1. m \in 0 .. Len(ring) /\ m <= len[t] - Len(data[t]) /\ (filled(t) => m = len[t] - Len(data[t]))
    BY <1>0 DEF moved, want, Min2, filled
  <1>2. data' = [data EXCEPT ![t] = data[t] \o front] /\ ring' = rest
    BY DEF Gives, given, ring_after
  <1> HIDE DEF m
  <1>3. /\ front \in Seq(Byte) /\ Len(front) = m
        /\ rest \in Seq(Byte) /\ Len(rest) = Len(ring) - m
        /\ Range(front) \subseteq Range(ring) /\ Range(rest) \subseteq Range(ring)
        /\ Ascending(front) /\ Ascending(rest)
        /\ \A b \in Range(front), c \in Range(rest) : b < c
    BY <1>0, <1>1, SplitFacts DEF StreamSplit
  <1> HIDE DEF front, rest
  <1>4. /\ data[t] \o front \in Seq(Byte)
        /\ Len(data[t] \o front) = Len(data[t]) + m
        /\ Range(data[t] \o front) = Range(data[t]) \cup Range(front)
    <2>0. data[t] \in Seq(Byte) /\ front \in Seq(Byte)
      BY <1>0, <1>3
    <2>1. data[t] \o front \in Seq(Byte) /\ Len(data[t] \o front) = Len(data[t]) + Len(front)
      BY <2>0, ConcatProperties
    <2>2. Range(data[t] \o front) = Range(data[t]) \cup Range(front)
      BY <2>0, ConcatFacts
    <2> QED
      BY <1>3, <2>1, <2>2
  <1>5. /\ data'[t] = data[t] \o front
        /\ \A u \in Task \ {t} : data'[u] = data[u]
        /\ data' \in [Task -> Seq(Byte)]
    BY <1>0, <1>2, <1>4
  <1>6. Len(data'[t]) <= len'[t] /\ (filled(t) => Len(data'[t]) = len'[t])
    <2>1. len'[t] = len[t]
      BY DEF Gives
    <2>2. m \in Nat
      BY <1>0, <1>1
    <2> QED
      BY <1>0, <1>1, <1>4, <1>5, <2>1, <2>2
  <1>7. \A u \in Task \ {t} : Len(data'[u]) <= len'[u]
    BY <1>5 DEF TypeOK, Gives
  <1>8. Len(rest) <= RingSize
    BY <1>0, <1>1, <1>3
  <1>9. StreamSplit'
    <2>1. Ascending(data[t]) /\ \A b \in Range(data[t]), c \in Range(front) : b < c
      BY <1>3 DEF StreamSplit
    <2>2. Ascending(data[t] \o front)
      BY <1>0, <1>3, <2>1, JoinFacts
    <2>3. /\ Ascending(ring') /\ \A b \in Range(ring') : b <= arrived'
      BY <1>2, <1>3 DEF StreamSplit, Gives
    <2>4. ASSUME NEW u \in Task
          PROVE  /\ Ascending(data'[u]) /\ \A b \in Range(data'[u]) : b <= arrived'
                 /\ \A b \in Range(data'[u]), c \in Range(ring') : b < c
      <3>1. CASE u = t
        BY <1>2, <1>3, <1>4, <1>5, <2>2, <3>1 DEF StreamSplit, Gives
      <3>2. CASE u # t
        BY <1>2, <1>3, <1>5, <3>2 DEF StreamSplit, Gives
      <3> QED
        BY <3>1, <3>2
    <2>5. ASSUME NEW u \in Task \ {t} PROVE Range(data'[u]) \cap Range(data'[t]) = {}
      <3>1. Range(data[u]) \cap Range(data[t]) = {}
        BY <2>5 DEF StreamSplit
      <3>2. ASSUME NEW b \in Range(data[u]), b \in Range(front) PROVE FALSE
        <4>1. b < b
          BY <1>3, <2>5, <3>2 DEF StreamSplit
        <4>2. b \in Byte
          BY <1>3, <3>2, LenProperties DEF Range
        <4> QED
          BY <4>1, <4>2 DEF Byte
      <3> QED
        BY <1>4, <1>5, <3>1, <3>2
    <2>6. \A u, v \in Task : u # v => Range(data'[u]) \cap Range(data'[v]) = {}
      <3> SUFFICES ASSUME NEW u \in Task, NEW v \in Task, u # v
                   PROVE  Range(data'[u]) \cap Range(data'[v]) = {}
        OBVIOUS
      <3>1. CASE u = t \/ v = t
        BY <2>5, <3>1
      <3>2. CASE u # t /\ v # t
        BY <1>5, <3>2 DEF StreamSplit
      <3> QED
        BY <3>1, <3>2
    <2> QED
      BY <2>3, <2>4, <2>6 DEF StreamSplit
  <1> QED
    BY <1>2, <1>3, <1>5, <1>6, <1>7, <1>8, <1>9

-----------------------------------------------------------------------------
(* The steps, one lemma each.                                              *)

LEMMA SameBytes ==
  ASSUME StreamSplit, UNCHANGED <<ring, data, arrived>>
  PROVE  StreamSplit'
  BY DEF StreamSplit

LEMMA InitIInv == Init => IInv
PROOF
  <1> SUFFICES ASSUME Init PROVE IInv
    OBVIOUS
  <1> USE DEF Init
  <1>0. <<>> \in Seq(Task) /\ <<>> \in Seq(Byte) /\ Len(<<>>) = 0 /\ Range(<<>>) = {}
    BY DEF Range
  <1>1. TypeOK
    BY <1>0 DEF TypeOK, ErrCode
  <1>2. Suspended
    BY <1>0 DEF Suspended, IsInjective
  <1>3. Ascending(<<>>)
    BY DEF Ascending
  <1>4. StreamSplit
    BY <1>0, <1>3 DEF StreamSplit
  <1>5. SuccessMeansFilled /\ TimerIsForActive
    BY <1>0 DEF SuccessMeansFilled, TimerIsForActive
  <1> QED
    BY <1>1, <1>2, <1>4, <1>5 DEF IInv

LEMMA OnRxBytesIInv ==
  ASSUME IInv, NEW n \in 1 .. MaxBytes, OnRxBytes(n)
  PROVE  IInv'
PROOF
  <1> DEFINE k == Min2(n, RingSize - Len(ring))
             new == [i \in 1 .. k |-> arrived + i]
  <1>0. /\ ring \in Seq(Byte) /\ Len(ring) \in Nat /\ Len(ring) <= RingSize
        /\ arrived \in 0 .. MaxBytes /\ arrived + n <= MaxBytes
        /\ data \in [Task -> Seq(Byte)]
    BY LenProperties DEF IInv, TypeOK, OnRxBytes
  <1>1. k \in Nat /\ k <= n /\ Len(ring) + k <= RingSize
    BY <1>0 DEF Min2
  <1>2. ring' = ring \o new /\ arrived' = arrived + n /\ UNCHANGED <<data, len>>
    BY DEF OnRxBytes, stored, readerVars
  <1> HIDE DEF k
  <1>3. /\ new \in Seq(Byte) /\ Len(new) = k /\ Ascending(new)
        /\ \A c \in Range(new) : c > arrived /\ c <= arrived + n
    <2>1. \A i \in 1 .. k : arrived + i \in Byte
      BY <1>0, <1>1 DEF Byte
    <2>2. new \in Seq(Byte) /\ Len(new) = k
      BY <1>1, <2>1
    <2>3. Ascending(new)
      BY <1>0, <1>1 DEF Ascending
    <2>4. ASSUME NEW c \in Range(new) PROVE c > arrived /\ c <= arrived + n
      <3>1. PICK i \in 1 .. k : c = arrived + i
        BY <2>4 DEF Range
      <3> QED
        BY <1>0, <1>1, <3>1
    <2> QED
      BY <2>2, <2>3, <2>4
  <1> HIDE DEF new
  <1>4. ring' \in Seq(Byte) /\ Len(ring') <= RingSize
    <2>1. ring \o new \in Seq(Byte) /\ Len(ring \o new) = Len(ring) + Len(new)
      BY <1>0, <1>3, ConcatProperties
    <2> QED
      BY <1>1, <1>2, <1>3, <2>1
  <1>5. TypeOK'
    BY <1>0, <1>2, <1>4 DEF IInv, TypeOK, OnRxBytes, readerVars
  <1>6. StreamSplit'
    <2>b. Range(ring) \subseteq Byte /\ Range(new) \subseteq Byte
          /\ \A t \in Task : Range(data[t]) \subseteq Byte
      BY <1>0, <1>3, LenProperties DEF Range
    <2>1. \A b \in Range(ring), c \in Range(new) : b < c
      BY <1>0, <1>3, <2>b DEF IInv, StreamSplit, Byte
    <2>2. Ascending(ring')
      BY <1>0, <1>2, <1>3, <2>1, JoinFacts DEF IInv, StreamSplit
    <2>3. Range(ring') = Range(ring) \cup Range(new)
      BY <1>0, <1>2, <1>3, ConcatFacts
    <2>4. \A b \in Range(ring') : b <= arrived'
      BY <1>0, <1>2, <1>3, <2>b, <2>3 DEF IInv, StreamSplit, Byte
    <2>5. ASSUME NEW t \in Task
          PROVE  /\ \A b \in Range(data[t]) : b <= arrived'
                 /\ \A b \in Range(data[t]), c \in Range(ring') : b < c
      <3>1. \A b \in Range(data[t]) : b <= arrived /\ b \in Int
        BY <2>b DEF IInv, StreamSplit, Byte
      <3>2. \A b \in Range(data[t]), c \in Range(new) : b < c
        BY <1>0, <1>3, <2>b, <3>1 DEF Byte
      <3> QED
        BY <1>0, <1>2, <2>3, <3>1, <3>2 DEF IInv, StreamSplit
    <2> QED
      BY <1>2, <2>2, <2>4, <2>5 DEF IInv, StreamSplit
  <1>7. Suspended' /\ SuccessMeansFilled' /\ TimerIsForActive'
    BY DEF IInv, Suspended, SuccessMeansFilled, TimerIsForActive, OnRxBytes, readerVars
  <1> QED
    BY <1>5, <1>6, <1>7 DEF IInv

LEMMA ReceiveIInv ==
  ASSUME IInv, NEW t \in Task, NEW n \in 0 .. MaxLen, Receive(t, n)
  PROVE  IInv'
PROOF
  <1>t. TypeOK
    BY DEF IInv
  <1>0. ~waiting[t] /\ <<>> \in Seq(Byte) /\ Len(<<>>) = 0 /\ Range(<<>>) = {}
    BY DEF Receive, Range
  <1>1. /\ data'[t] = <<>> /\ len'[t] = n /\ waiting'[t] = TRUE /\ status'[t] = ec_success
        /\ \A u \in Task \ {t} : /\ data'[u] = data[u] /\ len'[u] = len[u]
                                 /\ waiting'[u] = waiting[u] /\ status'[u] = status[u]
    BY <1>t DEF TypeOK, Receive
  <1>2. TypeOK'
    <2>1. data' \in [Task -> Seq(Byte)] /\ len' \in [Task -> 0 .. MaxLen]
          /\ waiting' \in [Task -> BOOLEAN] /\ status' \in [Task -> ErrCode]
      BY <1>t, <1>0 DEF TypeOK, Receive, ErrCode
    <2>2. ASSUME NEW u \in Task PROVE Len(data'[u]) <= len'[u]
      <3>1. Len(data[u]) <= len[u]
        BY <1>t DEF TypeOK
      <3>2. CASE u = t
        BY <1>0, <1>1, <3>2
      <3>3. CASE u # t
        BY <1>1, <3>1, <3>3
      <3> QED BY <3>2, <3>3
    <2> QED
      BY <1>t, <2>1, <2>2 DEF TypeOK, Receive, isrVars
  <1>3. Suspended'
    <2>1. Range(pendingReaders) \subseteq Task
      BY <1>t, LenProperties DEF TypeOK, Range
    <2>2. UNCHANGED <<pendingReaders, active>> /\ caller' = t
      BY DEF Receive
    <2>3. t \notin Range(pendingReaders) /\ t # active
      BY <1>0 DEF IInv, Suspended, ReceiveAssumption
    <2>4. active # None => active \in Task \ {t}
      BY <1>t, <2>3 DEF TypeOK
    <2>5. \A u \in Range(pendingReaders) : u \in Task \ {t}
      BY <2>1, <2>3
    <2> QED
      BY <1>1, <2>2, <2>4, <2>5 DEF IInv, Suspended
  <1>4. StreamSplit'
    <2>1. Ascending(<<>>)
      BY DEF Ascending
    <2>2. UNCHANGED <<ring, arrived>>
      BY DEF Receive, isrVars
    <2>3. ASSUME NEW u \in Task
          PROVE  /\ Ascending(data'[u]) /\ \A b \in Range(data'[u]) : b <= arrived'
                 /\ \A b \in Range(data'[u]), c \in Range(ring') : b < c
      BY <1>0, <1>1, <2>1, <2>2 DEF IInv, StreamSplit
    <2>4. \A u, v \in Task : u # v => Range(data'[u]) \cap Range(data'[v]) = {}
      BY <1>0, <1>1 DEF IInv, StreamSplit
    <2> QED
      BY <2>2, <2>3, <2>4 DEF IInv, StreamSplit
  <1>5. SuccessMeansFilled'
    BY <1>1 DEF IInv, SuccessMeansFilled
  <1>6. TimerIsForActive'
    BY DEF IInv, TimerIsForActive, Receive
  <1> QED
    BY <1>2, <1>3, <1>4, <1>5, <1>6 DEF IInv

\* complete_active_read, for the bookkeeping of requests.
LEMMA CompleteFacts ==
  ASSUME TypeOK, Suspended, TimerIsForActive, active # None,
         NEW code \in ErrCode, complete_active_read(code),
         UNCHANGED <<pendingReaders, caller>>
  PROVE  /\ timer' = None /\ active' = None
         /\ status' \in [Task -> ErrCode] /\ waiting' \in [Task -> BOOLEAN]
         /\ waiting'[active] = FALSE /\ status'[active] = code
         /\ \A u \in Task \ {active} : waiting'[u] = waiting[u] /\ status'[u] = status[u]
         /\ Suspended' /\ TimerIsForActive'
PROOF
  <1>1. active \in Task
    BY DEF TypeOK
  <1>2. /\ timer' = None /\ active' = None
        /\ status' = [status EXCEPT ![active] = code]
        /\ waiting' = [waiting EXCEPT ![active] = FALSE]
    BY DEF complete_active_read, cancel_timer
  <1>3. /\ status' \in [Task -> ErrCode] /\ waiting' \in [Task -> BOOLEAN]
        /\ waiting'[active] = FALSE /\ status'[active] = code
        /\ \A u \in Task \ {active} : waiting'[u] = waiting[u] /\ status'[u] = status[u]
    BY <1>1, <1>2 DEF TypeOK
  <1>4. Suspended'
    <2>1. Range(pendingReaders) \subseteq Task /\ None \notin Task
      BY LenProperties DEF TypeOK, Range
    <2>2. \A u \in Range(pendingReaders) : waiting'[u] /\ u # None /\ u # caller
      BY <1>3, <2>1 DEF Suspended
    <2>3. caller # None => waiting'[caller]
      BY <1>1, <1>3 DEF Suspended, TypeOK
    <2> QED
      BY <1>2, <2>2, <2>3 DEF Suspended
  <1>5. TimerIsForActive'
    BY <1>2 DEF TimerIsForActive
  <1> QED
    BY <1>2, <1>3, <1>4, <1>5

LEMMA AwaitReadyIInv == IInv /\ AwaitReady => IInv'
PROOF
  <1> SUFFICES ASSUME IInv, AwaitReady PROVE IInv'
    OBVIOUS
  <1>t. TypeOK /\ StreamSplit /\ Suspended /\ SuccessMeansFilled
    BY DEF IInv
  <1>0. /\ caller \in Task /\ Gives(caller) /\ waiting[caller] /\ caller # active
        /\ caller \notin Range(pendingReaders)
        /\ UNCHANGED <<active, timer, run, len, status, hwStatus, arrived>>
    BY <1>t DEF TypeOK, AwaitReady, Gives, Suspended
  <1>1. /\ ring' \in Seq(Byte) /\ Len(ring') <= RingSize
        /\ data' \in [Task -> Seq(Byte)] /\ \A u \in Task : Len(data'[u]) <= len'[u]
        /\ \A u \in Task \ {caller} : data'[u] = data[u]
        /\ filled(caller) => Len(data'[caller]) = len'[caller]
        /\ StreamSplit'
    BY <1>0, <1>t, GiveFacts
  <1>2. /\ caller' \in {None, caller} /\ pendingReaders' \in Seq(Task)
        /\ waiting' \in [Task -> BOOLEAN]
        /\ \A u \in Task \ {caller} : waiting'[u] = waiting[u]
        /\ waiting'[caller] \/ filled(caller)
        /\ Suspended'
    <2>r. Range(pendingReaders) \subseteq Task /\ None \notin Task
      BY <1>t, LenProperties DEF TypeOK, Range
    <2>1. CASE filled(caller) /\ waiting' = [waiting EXCEPT ![caller] = FALSE]
               /\ caller' = None /\ UNCHANGED pendingReaders
      <3>1. /\ waiting' \in [Task -> BOOLEAN]
            /\ \A u \in Task \ {caller} : waiting'[u] = waiting[u]
        BY <1>0, <1>t, <2>1 DEF TypeOK
      <3>2. \A u \in Range(pendingReaders) : u \in Task \ {caller} /\ u # None
        BY <1>0, <2>r
      <3>3. active # None => active \in Task \ {caller}
        BY <1>0, <1>t DEF TypeOK
      <3>4. Suspended'
        BY <1>0, <1>t, <2>1, <3>1, <3>2, <3>3 DEF Suspended
      <3> QED
        BY <1>t, <2>1, <3>1, <3>4 DEF TypeOK
    <2>2. CASE ~filled(caller) /\ pendingReaders' = Append(pendingReaders, caller)
               /\ caller' = None /\ UNCHANGED waiting
      <3>1. pendingReaders' \in Seq(Task) /\ IsInjective(pendingReaders')
            /\ Range(pendingReaders') = Range(pendingReaders) \cup {caller}
        BY <1>0, <1>t, <2>2, PushFacts DEF TypeOK, Suspended
      <3>2. Suspended'
        BY <1>0, <1>t, <2>r, <2>2, <3>1 DEF Suspended
      <3> QED
        BY <1>0, <1>t, <2>2, <3>1, <3>2 DEF TypeOK
    <2>3. CASE UNCHANGED <<caller, pendingReaders, waiting>>
      BY <1>0, <1>t, <2>3 DEF Suspended, TypeOK
    <2> QED
      BY <2>1, <2>2, <2>3 DEF AwaitReady
  <1>3. TypeOK'
    BY <1>0, <1>1, <1>2, <1>t DEF TypeOK
  <1>4. SuccessMeansFilled'
    <2>1. ASSUME NEW u \in Task, ~waiting'[u], status'[u] = ec_success
          PROVE  Len(data'[u]) = len'[u]
      <3>1. CASE u = caller
        BY <1>1, <1>2, <2>1, <3>1
      <3>2. CASE u # caller
        BY <1>0, <1>1, <1>2, <1>t, <2>1, <3>2 DEF SuccessMeansFilled
      <3> QED
        BY <3>1, <3>2
    <2> QED
      BY <2>1 DEF SuccessMeansFilled
  <1>5. TimerIsForActive'
    BY <1>0 DEF IInv, TimerIsForActive
  <1> QED
    BY <1>1, <1>2, <1>3, <1>4, <1>5 DEF IInv

LEMMA ActivateReaderIInv == IInv /\ ActivateReader => IInv'
PROOF
  <1> SUFFICES ASSUME IInv, ActivateReader PROVE IInv'
    OBVIOUS
  <1>t. TypeOK /\ StreamSplit /\ Suspended /\ SuccessMeansFilled /\ TimerIsForActive
    BY DEF IInv
  <1>0. run' = "fill" /\ caller = None /\ UNCHANGED <<caller, hwStatus, len, arrived>>
    BY DEF ActivateReader, Idle
  <1>1. CASE active = None /\ pendingReaders # <<>>
    <2> DEFINE r == Head(pendingReaders)
    <2>1. /\ pendingReaders' = Tail(pendingReaders) /\ data' = given(r) /\ ring' = ring_after(r)
          /\ IF filled(r)
             THEN /\ status' = [status EXCEPT ![r] = ec_success]
                  /\ waiting' = [waiting EXCEPT ![r] = FALSE]
                  /\ UNCHANGED <<active, timer>>
             ELSE /\ active' = r /\ timer' = armed_for(r)
                  /\ UNCHANGED <<waiting, status>>
      BY <1>1 DEF ActivateReader
    <2>2. /\ r \in Task /\ r \in Range(pendingReaders)
          /\ pendingReaders' \in Seq(Task) /\ IsInjective(pendingReaders')
          /\ Range(pendingReaders) = Range(pendingReaders') \cup {r}
          /\ r \notin Range(pendingReaders')
      BY <1>1, <1>t, <2>1, PopFacts DEF TypeOK, Suspended
    <2> HIDE DEF r
    <2>3. waiting[r] /\ Gives(r)
      BY <1>0, <1>t, <2>1, <2>2 DEF Suspended, Gives
    <2>4. /\ ring' \in Seq(Byte) /\ Len(ring') <= RingSize
          /\ data' \in [Task -> Seq(Byte)] /\ \A u \in Task : Len(data'[u]) <= len'[u]
          /\ \A u \in Task \ {r} : data'[u] = data[u]
          /\ filled(r) => Len(data'[r]) = len'[r]
          /\ StreamSplit'
      BY <1>t, <2>2, <2>3, GiveFacts
    <2>r. \A u \in Range(pendingReaders') : u \in Task \ {r} /\ waiting[u] /\ u # None
      <3>1. Range(pendingReaders) \subseteq Task
        BY <1>t, LenProperties DEF TypeOK, Range
      <3> QED
        BY <1>t, <2>2, <3>1 DEF Suspended
    <2>5. CASE filled(r)
      <3>1. /\ status' \in [Task -> ErrCode] /\ waiting' \in [Task -> BOOLEAN]
            /\ \A u \in Task \ {r} : waiting'[u] = waiting[u] /\ status'[u] = status[u]
            /\ UNCHANGED <<active, timer>>
        BY <1>t, <2>1, <2>2, <2>5 DEF TypeOK, ErrCode
      <3>2. TypeOK'
        BY <1>0, <1>t, <2>2, <2>4, <3>1 DEF TypeOK
      <3>3. Suspended'
        BY <1>0, <1>1, <2>2, <2>r, <3>1 DEF Suspended
      <3>4. SuccessMeansFilled'
        BY <1>0, <1>t, <2>4, <2>5, <3>1 DEF SuccessMeansFilled
      <3>5. TimerIsForActive'
        BY <1>t, <3>1 DEF TimerIsForActive
      <3> QED
        BY <2>4, <3>2, <3>3, <3>4, <3>5 DEF IInv
    <2>6. CASE ~filled(r)
      <3>1. active' = r /\ timer' = armed_for(r) /\ UNCHANGED <<waiting, status>>
        BY <2>1, <2>6
      <3>2. TypeOK'
        BY <1>0, <1>t, <2>2, <2>4, <3>1 DEF TypeOK, armed_for
      <3>3. Suspended'
        BY <1>0, <2>2, <2>3, <2>r, <3>1 DEF Suspended
      <3>4. SuccessMeansFilled'
        BY <1>0, <1>t, <2>3, <2>4, <3>1 DEF SuccessMeansFilled
      <3>5. TimerIsForActive'
        BY <2>2, <3>1 DEF TimerIsForActive, armed_for
      <3> QED
        BY <2>4, <3>2, <3>3, <3>4, <3>5 DEF IInv
    <2> QED
      BY <2>5, <2>6
  <1>2. CASE ~(active = None /\ pendingReaders # <<>>)
    <2>1. UNCHANGED <<pendingReaders, active, timer, ring, waiting, data, status>>
      BY <1>2 DEF ActivateReader
    <2> QED
      BY <1>0, <1>t, <2>1, SameBytes DEF IInv, TypeOK, Suspended, SuccessMeansFilled,
        TimerIsForActive
  <1> QED
    BY <1>1, <1>2

\* The rest of a step that ends the active request with an error code.
LEMMA EndsWithError ==
  ASSUME IInv, active # None, NEW code \in ErrCode \ {ec_success}, complete_active_read(code),
         run' \in {"out", "fill", "error"}, hwStatus' \in ErrCode,
         UNCHANGED <<pendingReaders, caller, ring, len, data, arrived>>
  PROVE  IInv'
PROOF
  <1>t. TypeOK /\ StreamSplit /\ Suspended /\ SuccessMeansFilled /\ TimerIsForActive
    BY DEF IInv
  <1>1. /\ timer' = None /\ active' = None
        /\ status' \in [Task -> ErrCode] /\ waiting' \in [Task -> BOOLEAN]
        /\ waiting'[active] = FALSE /\ status'[active] = code
        /\ \A u \in Task \ {active} : waiting'[u] = waiting[u] /\ status'[u] = status[u]
        /\ Suspended' /\ TimerIsForActive'
    BY <1>t, CompleteFacts
  <1>2. TypeOK'
    BY <1>t, <1>1 DEF TypeOK
  <1>3. SuccessMeansFilled'
    BY <1>t, <1>1 DEF SuccessMeansFilled
  <1> QED
    BY <1>t, <1>1, <1>2, <1>3, SameBytes DEF IInv

LEMMA FillActiveIInv == IInv /\ FillActive => IInv'
PROOF
  <1> SUFFICES ASSUME IInv, FillActive PROVE IInv'
    OBVIOUS
  <1>t. TypeOK /\ StreamSplit /\ Suspended /\ SuccessMeansFilled /\ TimerIsForActive
    BY DEF IInv
  <1>0. run' \in {"fill", "error"} /\ UNCHANGED <<pendingReaders, caller, hwStatus, len, arrived>>
    BY DEF FillActive
  <1>1. CASE active = None
    <2>1. UNCHANGED <<active, timer, ring, waiting, data, status>>
      BY <1>1 DEF FillActive
    <2> QED
      BY <1>0, <1>t, <2>1, SameBytes DEF IInv, TypeOK, Suspended, SuccessMeansFilled,
        TimerIsForActive
  <1>2. CASE active # None
    <2>1. active \in Task /\ Gives(active) /\ waiting[active]
      BY <1>2, <1>t DEF TypeOK, Suspended, FillActive, Gives
    <2>2. /\ ring' \in Seq(Byte) /\ Len(ring') <= RingSize
          /\ data' \in [Task -> Seq(Byte)] /\ \A u \in Task : Len(data'[u]) <= len'[u]
          /\ \A u \in Task \ {active} : data'[u] = data[u]
          /\ filled(active) => Len(data'[active]) = len'[active]
          /\ StreamSplit'
      BY <1>t, <2>1, GiveFacts
    <2>3. CASE filled(active) /\ complete_active_read(ec_success)
      <3>1. /\ timer' = None /\ active' = None
            /\ status' \in [Task -> ErrCode] /\ waiting' \in [Task -> BOOLEAN]
            /\ \A u \in Task \ {active} : waiting'[u] = waiting[u] /\ status'[u] = status[u]
            /\ Suspended' /\ TimerIsForActive'
        BY <1>0, <1>2, <1>t, <2>3, CompleteFacts DEF ErrCode
      <3>2. TypeOK'
        BY <1>0, <1>t, <2>2, <3>1 DEF TypeOK
      <3>3. SuccessMeansFilled'
        BY <1>0, <1>t, <2>2, <2>3, <3>1 DEF SuccessMeansFilled
      <3> QED
        BY <2>2, <3>1, <3>2, <3>3 DEF IInv
    <2>4. CASE UNCHANGED <<active, timer, waiting, status>>
      <3>1. TypeOK'
        BY <1>0, <1>t, <2>2, <2>4 DEF TypeOK
      <3>2. Suspended' /\ TimerIsForActive'
        BY <1>0, <1>t, <2>4 DEF Suspended, TimerIsForActive
      <3>3. SuccessMeansFilled'
        BY <1>0, <1>t, <2>1, <2>2, <2>4 DEF SuccessMeansFilled
      <3> QED
        BY <2>2, <3>1, <3>2, <3>3 DEF IInv
    <2> QED
      BY <1>2, <2>3, <2>4 DEF FillActive
  <1> QED
    BY <1>1, <1>2

LEMMA ProcessErrorIInv == IInv /\ ProcessError => IInv'
PROOF
  <1> SUFFICES ASSUME IInv, ProcessError PROVE IInv'
    OBVIOUS
  <1>t. TypeOK /\ hwStatus \in ErrCode
    BY DEF IInv, TypeOK
  <1>0. /\ run' = "out" /\ hwStatus' \in ErrCode
        /\ UNCHANGED <<pendingReaders, caller, ring, len, data, arrived>>
    BY DEF ProcessError, ErrCode
  <1>1. CASE is_error /\ active # None
    <2>1. hwStatus \in ErrCode \ {ec_success} /\ complete_active_read(hwStatus)
      BY <1>1, <1>t DEF is_error, ProcessError
    <2> QED
      BY <1>0, <1>1, <2>1, EndsWithError
  <1>2. CASE ~(is_error /\ active # None)
    <2>1. UNCHANGED <<active, timer, waiting, status>>
      BY <1>2 DEF ProcessError
    <2> QED
      BY <1>0, <2>1, SameBytes DEF IInv, TypeOK, Suspended, SuccessMeansFilled, TimerIsForActive
  <1> QED
    BY <1>1, <1>2

LEMMA OnRxTimeoutIInv == IInv /\ OnRxTimeout => IInv'
PROOF
  <1> SUFFICES ASSUME IInv, OnRxTimeout PROVE IInv'
    OBVIOUS
  <1>0. UNCHANGED <<pendingReaders, run, caller, len, data, isrVars>>
    BY DEF OnRxTimeout
  <1>1. CASE active = None
    \* The timer of nobody is not pending.
    BY <1>1 DEF OnRxTimeout, IInv, TimerIsForActive, ReceiveAssumption
  <1>2. CASE active # None
    <2>1. complete_active_read(ec_timeout)
      BY <1>2 DEF OnRxTimeout
    <2>2. ec_timeout \in ErrCode \ {ec_success}
      BY DEF ErrCode, ec_timeout, ec_success
    <2>3. run' \in {"out", "fill", "error"} /\ hwStatus' \in ErrCode
          /\ UNCHANGED <<pendingReaders, caller, ring, len, data, arrived>>
      BY <1>0 DEF IInv, TypeOK, isrVars
    <2> QED
      BY <1>2, <2>1, <2>2, <2>3, EndsWithError
  <1> QED
    BY <1>1, <1>2

LEMMA StopIInv == IInv /\ Stop => IInv'
PROOF
  <1> SUFFICES ASSUME IInv, Stop PROVE IInv'
    OBVIOUS
  <1>t. TypeOK /\ StreamSplit /\ Suspended /\ SuccessMeansFilled /\ TimerIsForActive
    BY DEF IInv
  <1>0. /\ pendingReaders' = <<>> /\ active' = None /\ timer' = None /\ caller = None
        /\ UNCHANGED <<run, caller, len, data, ring, hwStatus, arrived>>
    BY <1>t DEF Stop, Idle, cancel_timer, TimerIsForActive, isrVars
  <1>1. /\ status' = [t \in Task |-> IF t \in stop_releases THEN ec_canceled ELSE status[t]]
        /\ waiting' = [t \in Task |-> waiting[t] /\ t \notin stop_releases]
    BY DEF Stop
  <1>2. <<>> \in Seq(Task) /\ IsInjective(<<>>) /\ Range(<<>>) = {}
    BY DEF IsInjective, Range
  <1>3. ec_canceled \in ErrCode /\ ec_canceled # ec_success
    BY DEF ErrCode, ec_canceled, ec_success
  <1>4. /\ status' \in [Task -> ErrCode] /\ waiting' \in [Task -> BOOLEAN]
        /\ \A t \in Task : ~waiting'[t] /\ status'[t] = ec_success
             => ~waiting[t] /\ status[t] = ec_success
    BY <1>t, <1>1, <1>3 DEF TypeOK
  <1>5. TypeOK'
    BY <1>0, <1>2, <1>4, <1>t DEF TypeOK
  <1>6. Suspended' /\ TimerIsForActive'
    BY <1>0, <1>2 DEF Suspended, TimerIsForActive
  <1>7. SuccessMeansFilled'
    BY <1>0, <1>4, <1>t DEF SuccessMeansFilled
  <1> QED
    BY <1>0, <1>5, <1>6, <1>7, <1>t, SameBytes DEF IInv

LEMMA OnRxErrorIInv == IInv /\ OnRxError => IInv'
PROOF
  <1> SUFFICES ASSUME IInv, OnRxError PROVE IInv'
    OBVIOUS
  <1>1. hwStatus' \in ErrCode
        /\ UNCHANGED <<pendingReaders, active, timer, run, caller, ring, arrived>>
        /\ UNCHANGED <<waiting, len, data, status>>
    BY DEF OnRxError, HwError, ErrCode, readerVars
  <1> QED
    BY <1>1, SameBytes DEF IInv, TypeOK, Suspended, SuccessMeansFilled, TimerIsForActive

-----------------------------------------------------------------------------
\* The inductive invariant holds in every state.
THEOREM Invariance == Spec => []IInv
PROOF
  <1>1. IInv /\ [Next]_vars => IInv'
    <2>1. IInv /\ UNCHANGED vars => IInv'
      BY SameBytes DEF IInv, TypeOK, Suspended, SuccessMeansFilled, TimerIsForActive, vars,
        readerVars, isrVars
    <2>2. IInv /\ (\E n \in 1 .. MaxBytes : OnRxBytes(n)) => IInv'
      BY OnRxBytesIInv
    <2>3. IInv /\ (\E t \in Task, n \in 0 .. MaxLen : Receive(t, n)) => IInv'
      BY ReceiveIInv
    <2> QED
      BY <2>1, <2>2, <2>3, OnRxErrorIInv, AwaitReadyIInv, ActivateReaderIInv, FillActiveIInv,
        ProcessErrorIInv, OnRxTimeoutIInv, StopIInv DEF Next, Run
  <1> QED
    BY <1>1, InitIInv, PTL DEF Spec

\* Types, for any set of tasks, any ring and any bound on lengths.
THEOREM TypeCorrect == Spec => []TypeOK
  BY Invariance, PTL DEF IInv

\* A receive that reports success has filled its buffer, whatever errors are
\* latched and whatever their values.
THEOREM SuccessIsTrue == Spec => []SuccessMeansFilled
  BY Invariance, PTL DEF IInv

\* A timeout ends no request but the one it was armed for.
THEOREM TimeoutsHitTheirRequest == Spec => []TimerIsForActive
  BY Invariance, PTL DEF IInv

\* The readers share the stream: every byte goes to one of them, in order.
THEOREM BytesAreShared == Spec => []BytesOnceInOrder
PROOF
  <1>1. ASSUME NEW q \in Seq(Byte), Ascending(q) PROVE Increasing(q)
    <2>1. DOMAIN q = 1 .. Len(q) /\ Len(q) \in Nat
      BY LenProperties
    <2>2. \A i \in 1 .. Len(q) - 1 : i \in DOMAIN q /\ i + 1 \in DOMAIN q /\ i < i + 1
      BY <2>1
    <2> QED
      BY <1>1, <2>2 DEF Ascending, Increasing
  <1>2. IInv => BytesOnceInOrder
    <2> SUFFICES ASSUME IInv PROVE BytesOnceInOrder
      OBVIOUS
    <2>1. ring \in Seq(Byte) /\ Ascending(ring)
          /\ \A t \in Task : data[t] \in Seq(Byte) /\ Ascending(data[t])
      BY DEF IInv, TypeOK, StreamSplit
    <2>2. Increasing(ring) /\ \A t \in Task : Increasing(data[t])
      BY <1>1, <2>1
    <2> QED
      BY <2>2 DEF IInv, StreamSplit, BytesOnceInOrder
  <1> QED
    BY <1>2, Invariance, PTL
=============================================================================
