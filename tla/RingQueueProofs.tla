--------------------------- MODULE RingQueueProofs ---------------------------
(***************************************************************************)
(* A ring queue is a bounded queue that keeps the latest entries, for any  *)
(* number of queue objects with storages of any length.  The inductive     *)
(* invariant is TypeOK: the tail is "size" entries after the head, modulo  *)
(* the capacity, and no two objects write to the same storage.             *)
(*                                                                         *)
(* The entries of a queue are the function Entries of its storage: the     *)
(* first lemmas say what it is after one slot was written or the head went *)
(* on, by the laws of places on a ring (RingNext, RingApart ...).          *)
(***************************************************************************)
EXTENDS RingQueue, QueueLemmas

-----------------------------------------------------------------------------
(* Entries on a ring.                                                      *)

\* The n entries of a storage b from place h of a ring of N on.
Entries(b, N, h, n) == [i \in 1 .. n |-> b[(h + (i - 1)) % N]]

\* What a storage may hold.
Storage == [Position -> Value]

LEMMA EntriesType ==
  ASSUME NEW N \in Nat \ {0}, N <= Capacity, NEW b \in Storage,
         NEW h \in 0 .. N - 1, NEW n \in 0 .. N
  PROVE  /\ Entries(b, N, h, n) \in Seq(Value)
         /\ Len(Entries(b, N, h, n)) = n
         /\ \A i \in 1 .. n : Entries(b, N, h, n)[i] = b[(h + (i - 1)) % N]
PROOF
  <1>1. ASSUME NEW i \in 1 .. n PROVE b[(h + (i - 1)) % N] \in Value
    <2>1. PICK j \in 0 .. N : j = i - 1
      OBVIOUS
    <2>2. (h + j) % N \in 0 .. N - 1
      BY RingPlace, Zenon
    <2>3. PICK p \in Position : p = (h + j) % N
      BY <2>2, RingQueueAssumption DEF Position, RingQueueAssumption
    <2>4. b[p] \in Value
      BY <2>3 DEF Storage
    <2>5. b[(h + j) % N] \in Value
      BY <2>3, <2>4
    <2> QED BY <2>1, <2>5
  <1>2. Entries(b, N, h, n) \in [1 .. n -> Value]
    BY <1>1 DEF Entries
  <1>3. n \in Nat
    OBVIOUS
  <1>4. Entries(b, N, h, n) \in Seq(Value) /\ Len(Entries(b, N, h, n)) = n
    BY <1>2, <1>3
  <1> QED BY <1>4 DEF Entries

\* One more entry at the end.
LEMMA EntriesPut ==
  ASSUME NEW N \in Nat \ {0}, N <= Capacity, NEW b \in Storage,
         NEW h \in 0 .. N - 1, NEW n \in 0 .. N - 1, NEW v \in Value
  PROVE  Entries([b EXCEPT ![(h + n) % N] = v], N, h, n + 1) = Append(Entries(b, N, h, n), v)
PROOF
  <1> DEFINE c == [b EXCEPT ![(h + n) % N] = v]
  <1>0. PICK m \in 1 .. N : m = n + 1
    OBVIOUS
  <1>00. n \in 0 .. N /\ m \in 0 .. N
    OBVIOUS
  <1>1. PICK t \in Position : t = (h + n) % N
    <2>1. (h + n) % N \in 0 .. N - 1
      BY <1>00, RingPlace, Zenon
    <2> QED BY <2>1, RingQueueAssumption DEF Position, RingQueueAssumption
  <1>2. c \in Storage /\ c[t] = v /\ \A p \in Position : p # t => c[p] = b[p]
    BY <1>1 DEF Storage
  <1> HIDE DEF c
  <1>3. /\ Entries(c, N, h, m) \in Seq(Value) /\ Len(Entries(c, N, h, m)) = m
        /\ \A i \in 1 .. m : Entries(c, N, h, m)[i] = c[(h + (i - 1)) % N]
    BY <1>2, <1>00, EntriesType
  <1>4. /\ Entries(b, N, h, n) \in Seq(Value) /\ Len(Entries(b, N, h, n)) = n
        /\ \A i \in 1 .. n : Entries(b, N, h, n)[i] = b[(h + (i - 1)) % N]
    BY <1>00, EntriesType
  <1>5. /\ Append(Entries(b, N, h, n), v) \in Seq(Value)
        /\ Len(Append(Entries(b, N, h, n), v)) = n + 1
        /\ \A i \in 1 .. n : Append(Entries(b, N, h, n), v)[i] = Entries(b, N, h, n)[i]
        /\ Append(Entries(b, N, h, n), v)[n + 1] = v
    BY <1>4, AppendProperties
  <1>6. ASSUME NEW i \in 1 .. m
        PROVE  Entries(c, N, h, m)[i] = Append(Entries(b, N, h, n), v)[i]
    <2>1. PICK j \in 0 .. N - 1 : j = i - 1
      OBVIOUS
    <2>2. PICK p \in Position : p = (h + j) % N
      <3>1. j \in 0 .. N
        OBVIOUS
      <3>2. (h + j) % N \in 0 .. N - 1
        BY <3>1, RingPlace, Zenon
      <3> QED BY <3>2, RingQueueAssumption DEF Position, RingQueueAssumption
    <2>3. CASE i = m
      <3>1. j = n
        BY <2>1, <2>3, <1>0
      <3>2. Entries(c, N, h, m)[i] = v
        BY <1>1, <1>2, <1>3, <2>1, <2>2, <3>1, Zenon
      <3> QED BY <2>3, <3>2, <1>5, <1>0
    <2>4. CASE i # m
      <3>1. j # n /\ i \in 1 .. n
        BY <2>1, <2>4, <1>0
      <3>2. p # t
        BY <3>1, <2>2, <1>1, RingApart, Zenon
      <3>3. Entries(c, N, h, m)[i] = b[p]
        BY <1>2, <1>3, <2>1, <2>2, <3>2, Zenon
      <3>4. Entries(b, N, h, n)[i] = b[p]
        BY <1>4, <2>1, <2>2, <3>1, Zenon
      <3> QED BY <3>1, <3>3, <3>4, <1>5
    <2> QED BY <2>3, <2>4
  <1>7. Entries(c, N, h, m) = Append(Entries(b, N, h, n), v)
    BY <1>0, <1>3, <1>5, <1>6, SeqEqual
  <1> QED BY <1>0, <1>7 DEF c

\* The first entry gone.
LEMMA EntriesTake ==
  ASSUME NEW N \in Nat \ {0}, N <= Capacity, NEW b \in Storage,
         NEW h \in 0 .. N - 1, NEW n \in 1 .. N
  PROVE  Entries(b, N, (h + 1) % N, n - 1) = Tail(Entries(b, N, h, n))
PROOF
  <1>1. PICK m \in 0 .. N - 1 : m = n - 1
    OBVIOUS
  <1>2. n \in 0 .. N /\ m \in 0 .. N /\ 1 \in 0 .. N
    OBVIOUS
  <1>3. PICK g \in 0 .. N - 1 : g = (h + 1) % N
    BY <1>2, RingPlace, Zenon
  <1>4. /\ Entries(b, N, h, n) \in Seq(Value) /\ Len(Entries(b, N, h, n)) = n
        /\ \A i \in 1 .. n : Entries(b, N, h, n)[i] = b[(h + (i - 1)) % N]
    BY <1>2, EntriesType
  <1>5. /\ Entries(b, N, g, m) \in Seq(Value) /\ Len(Entries(b, N, g, m)) = m
        /\ \A i \in 1 .. m : Entries(b, N, g, m)[i] = b[(g + (i - 1)) % N]
    BY <1>2, EntriesType
  <1>6. Entries(b, N, h, n) # <<>>
    BY <1>4, EmptySeq
  <1>7. /\ Tail(Entries(b, N, h, n)) \in Seq(Value)
        /\ Len(Tail(Entries(b, N, h, n))) = n - 1
        /\ \A i \in 1 .. n - 1 : Tail(Entries(b, N, h, n))[i] = Entries(b, N, h, n)[i + 1]
    BY <1>4, <1>6, HeadTailProperties
  <1>8. ASSUME NEW i \in 1 .. m
        PROVE  Entries(b, N, g, m)[i] = Tail(Entries(b, N, h, n))[i]
    <2>1. PICK j \in 0 .. N - 1 : j = i - 1
      OBVIOUS
    <2>2. (g + j) % N = (h + (j + 1)) % N
      BY <1>3, RingNext, Zenon
    <2>3. j + 1 = (i + 1) - 1 /\ i \in 1 .. n - 1 /\ i + 1 \in 1 .. n
      BY <1>1, <2>1
    <2>4. Entries(b, N, h, n)[i + 1] = b[(h + (j + 1)) % N]
      BY <1>4, <2>3, Zenon
    <2>5. Entries(b, N, g, m)[i] = b[(g + j) % N]
      BY <1>5, <2>1, Zenon
    <2> QED BY <2>2, <2>3, <2>4, <2>5, <1>7, Zenon
  <1>9. Entries(b, N, g, m) = Tail(Entries(b, N, h, n))
    BY <1>1, <1>5, <1>7, <1>8, SeqEqual
  <1> QED BY <1>1, <1>3, <1>9, Zenon

\* In a full ring the new entry takes the place of the oldest.
LEMMA EntriesReplace ==
  ASSUME NEW N \in Nat \ {0}, N <= Capacity, NEW b \in Storage,
         NEW h \in 0 .. N - 1, NEW v \in Value
  PROVE  Entries([b EXCEPT ![h] = v], N, (h + 1) % N, N)
           = Append(Tail(Entries(b, N, h, N)), v)
PROOF
  <1>1. PICK m \in 0 .. N - 1 : m = N - 1
    OBVIOUS
  <1>2. N \in 1 .. N /\ 1 \in 0 .. N /\ m + 1 = N
    BY <1>1
  <1>3. PICK g \in 0 .. N - 1 : g = (h + 1) % N
    BY <1>2, RingPlace, Zenon
  <1>4. (g + m) % N = h
    <2>1. (g + m) % N = (h + (m + 1)) % N
      BY <1>3, RingNext, Zenon
    <2>2. (h + N) % N = h
      BY RingRound, Zenon
    <2> QED BY <2>1, <2>2, <1>2, Zenon
  <1>5. Entries([b EXCEPT ![(g + m) % N] = v], N, g, m + 1) = Append(Entries(b, N, g, m), v)
    BY EntriesPut
  <1>6. Entries(b, N, (h + 1) % N, N - 1) = Tail(Entries(b, N, h, N))
    BY <1>2, EntriesTake
  <1>7. Entries(b, N, g, m) = Tail(Entries(b, N, h, N))
    BY <1>1, <1>3, <1>6, Zenon
  <1> QED BY <1>2, <1>3, <1>4, <1>5, <1>7, Zenon

-----------------------------------------------------------------------------
\* TypeOK, with the conjunct for one pair of queues named.
Apart(q, r) == q # r /\ buffer[q] # NULL => buffer[q] # buffer[r]

LEMMA Initially == Init => TypeOK
PROOF
  <1> SUFFICES ASSUME Init PROVE TypeOK
    OBVIOUS
  <1> USE DEF Init
  <1>1. /\ buffer \in [Queue -> Queue \cup {NULL}]
        /\ capacity \in [Queue -> Nat] /\ size \in [Queue -> Nat]
        /\ head \in [Queue -> Nat] /\ tail \in [Queue -> Nat]
    BY RingQueueAssumption DEF RingQueueAssumption
  <1>2. storage \in [Queue -> [Position -> Value]]
    OBVIOUS
  <1>3. ASSUME NEW q \in Queue PROVE WellFormed(q)
    <2>1. capacity[q] \in 0 .. Capacity /\ size[q] = 0 /\ head[q] = 0 /\ tail[q] = 0
      OBVIOUS
    <2>2. buffer[q] = IF capacity[q] = 0 THEN NULL ELSE q
      OBVIOUS
    <2>3. capacity[q] > 0 => (0 + 0) % capacity[q] = 0
      BY <2>1, RingRound, RingQueueAssumption DEF RingQueueAssumption
    <2> QED BY <2>1, <2>2, <2>3, RingQueueAssumption DEF RingQueueAssumption, WellFormed
  <1>4. ASSUME NEW q \in Queue, NEW r \in Queue PROVE Apart(q, r)
    BY RingQueueAssumption DEF RingQueueAssumption, Apart
  <1> QED BY <1>1, <1>2, <1>3, <1>4 DEF TypeOK, Apart

\* What push does to the queue it is called for.
LEMMA PushTyped ==
  ASSUME TypeOK, NEW q \in Queue, NEW v \in Value, push(q, v)
  PROVE  TypeOK'
PROOF
  <1> USE DEF TypeOK
  <1>1. /\ capacity[q] > 0 /\ WellFormed(q)
        /\ capacity' = capacity /\ buffer' = buffer
        /\ tail' = [tail EXCEPT ![q] = next_position(q, @)]
        /\ storage' = [storage EXCEPT ![buffer[q]][tail[q]] = v]
    BY DEF push
  <1>2. PICK N \in Nat \ {0} : N = capacity[q] /\ N <= Capacity
    BY <1>1 DEF WellFormed
  <1>3. PICK h \in 0 .. N - 1, n \in 0 .. N :
          h = head[q] /\ n = size[q] /\ tail[q] = (h + n) % N
    BY <1>1, <1>2 DEF WellFormed
  <1>4. PICK t \in 0 .. N - 1 : t = tail[q]
    <2>1. (h + n) % N \in 0 .. N - 1
      BY RingPlace, Zenon
    <2> QED BY <2>1, <1>3
  <1>5. storage' \in [Queue -> [Position -> Value]]
    BY <1>1
  <1>6. (t + 1) % N \in 0 .. N - 1 /\ (h + 1) % N \in 0 .. N - 1
    <2>1. 1 \in 0 .. N
      OBVIOUS
    <2> QED BY <2>1, RingPlace, Zenon
  <1>7. tail'[q] = (t + 1) % N /\ tail' \in [Queue -> Nat]
        /\ \A r \in Queue : r # q => tail'[r] = tail[r]
    BY <1>1, <1>2, <1>4, <1>6 DEF next_position
  <1>8. /\ head' \in [Queue -> Nat] /\ size' \in [Queue -> Nat]
        /\ head'[q] \in 0 .. N - 1 /\ size'[q] \in 0 .. N
        /\ tail'[q] = (head'[q] + size'[q]) % N
        /\ \A r \in Queue : r # q => head'[r] = head[r] /\ size'[r] = size[r]
    <2>1. CASE full(q)
      <3>1. n = N /\ size' = size /\ head' = [head EXCEPT ![q] = next_position(q, @)]
        BY <2>1, <1>2, <1>3 DEF full, push
      <3>2. head'[q] = (h + 1) % N /\ head' \in [Queue -> Nat]
            /\ \A r \in Queue : r # q => head'[r] = head[r]
        BY <3>1, <1>2, <1>3, <1>6 DEF next_position
      <3>3. t = h
        BY <3>1, <1>3, <1>4, RingRound, Zenon
      <3>4. PICK g \in 0 .. N - 1 : g = (h + 1) % N
        BY <1>6
      <3>5. (g + N) % N = g
        BY RingRound, Zenon
      <3>6. tail'[q] = (head'[q] + size'[q]) % N
        BY <1>3, <1>7, <3>1, <3>2, <3>3, <3>4, <3>5, Zenon
      <3> QED BY <1>3, <1>6, <3>1, <3>2, <3>6
    <2>2. CASE ~full(q)
      <3>1. n # N /\ head' = head /\ size' = [size EXCEPT ![q] = @ + 1]
        BY <2>2, <1>2, <1>3 DEF full, push
      <3>2. size'[q] = n + 1 /\ size' \in [Queue -> Nat]
            /\ \A r \in Queue : r # q => size'[r] = size[r]
        BY <3>1, <1>3
      <3>3. n \in 0 .. N - 1
        BY <3>1
      <3>4. (((h + n) % N) + 1) % N = (h + (n + 1)) % N
        BY <3>3, RingNextOne
      <3>5. tail'[q] = (head'[q] + size'[q]) % N
        BY <1>3, <1>4, <1>7, <3>1, <3>2, <3>4, Zenon
      <3> QED BY <1>3, <3>1, <3>2, <3>3, <3>5
    <2> QED BY <2>1, <2>2
  <1>9. ASSUME NEW r \in Queue PROVE WellFormed(r)'
    <2>1. CASE r = q
      BY <2>1, <1>1, <1>2, <1>7, <1>8 DEF WellFormed
    <2>2. CASE r # q
      <3>1. WellFormed(r)
        OBVIOUS
      <3> QED BY <2>2, <3>1, <1>1, <1>7, <1>8 DEF WellFormed
    <2> QED BY <2>1, <2>2
  <1> QED BY <1>1, <1>5, <1>7, <1>8, <1>9

LEMMA PopTyped ==
  ASSUME TypeOK, NEW q \in Queue, pop_front(q)
  PROVE  TypeOK'
PROOF
  <1> USE DEF TypeOK
  <1>1. /\ size[q] > 0 /\ WellFormed(q)
        /\ capacity' = capacity /\ buffer' = buffer /\ tail' = tail /\ storage' = storage
        /\ head' = [head EXCEPT ![q] = next_position(q, @)]
        /\ size' = [size EXCEPT ![q] = @ - 1]
    BY DEF pop_front
  <1>2. PICK N \in Nat \ {0} : N = capacity[q] /\ N <= Capacity
    BY <1>1 DEF WellFormed
  <1>3. PICK h \in 0 .. N - 1, i \in 0 .. N - 1 :
          h = head[q] /\ i + 1 = size[q] /\ tail[q] = (h + (i + 1)) % N
    <2>1. size[q] - 1 \in 0 .. N - 1 /\ size[q] = (size[q] - 1) + 1
      BY <1>1, <1>2 DEF WellFormed
    <2>2. head[q] \in 0 .. N - 1 /\ tail[q] = (head[q] + size[q]) % N
      BY <1>1, <1>2 DEF WellFormed
    <2> QED BY <2>1, <2>2
  <1>4. PICK g \in 0 .. N - 1 : g = (h + 1) % N
    <2>1. 1 \in 0 .. N
      OBVIOUS
    <2> QED BY <2>1, RingPlace, Zenon
  <1>5. (g + i) % N = (h + (i + 1)) % N
    BY <1>4, RingNext, Zenon
  <1>6. /\ head' \in [Queue -> Nat] /\ size' \in [Queue -> Nat]
        /\ head'[q] = g /\ size'[q] = i
        /\ \A r \in Queue : r # q => head'[r] = head[r] /\ size'[r] = size[r]
    BY <1>1, <1>2, <1>3, <1>4 DEF next_position
  <1>7. tail[q] = (head'[q] + size'[q]) % N
    BY <1>3, <1>5, <1>6, Zenon
  <1>8. ASSUME NEW r \in Queue PROVE WellFormed(r)'
    <2>1. CASE r = q
      BY <2>1, <1>1, <1>2, <1>6, <1>7 DEF WellFormed
    <2>2. CASE r # q
      <3>1. WellFormed(r)
        OBVIOUS
      <3> QED BY <2>2, <3>1, <1>1, <1>6 DEF WellFormed
    <2> QED BY <2>1, <2>2
  <1> QED BY <1>1, <1>6, <1>8

LEMMA ClearTyped ==
  ASSUME TypeOK, NEW q \in Queue, clear(q)
  PROVE  TypeOK'
PROOF
  <1> USE DEF TypeOK
  <1>1. /\ capacity' = capacity /\ buffer' = buffer /\ storage' = storage
        /\ head' = [head EXCEPT ![q] = 0] /\ tail' = [tail EXCEPT ![q] = 0]
        /\ size' = [size EXCEPT ![q] = 0]
    BY DEF clear
  <1>2. ASSUME NEW r \in Queue PROVE WellFormed(r)'
    <2>1. WellFormed(r)
      OBVIOUS
    <2>2. CASE r = q
      <3>1. capacity[q] > 0 => (0 + 0) % capacity[q] = 0
        BY RingRound
      <3> QED BY <2>1, <2>2, <3>1, <1>1 DEF WellFormed
    <2>3. CASE r # q
      BY <2>1, <2>3, <1>1 DEF WellFormed
    <2> QED BY <2>2, <2>3
  <1> QED BY <1>1, <1>2

LEMMA MoveTyped ==
  ASSUME TypeOK, NEW q \in Queue, NEW r \in Queue, move(q, r)
  PROVE  TypeOK'
PROOF
  <1> USE DEF TypeOK
  <1>1. /\ q # r /\ storage' = storage
        /\ buffer' = [buffer EXCEPT ![r] = buffer[q], ![q] = NULL]
        /\ capacity' = [capacity EXCEPT ![r] = capacity[q], ![q] = 0]
        /\ head' = [head EXCEPT ![r] = head[q], ![q] = 0]
        /\ tail' = [tail EXCEPT ![r] = tail[q], ![q] = 0]
        /\ size' = [size EXCEPT ![r] = size[q], ![q] = 0]
    BY DEF move, exchanged_buffer
  <1>2. /\ buffer' \in [Queue -> Queue \cup {NULL}]
        /\ capacity' \in [Queue -> Nat] /\ size' \in [Queue -> Nat]
        /\ head' \in [Queue -> Nat] /\ tail' \in [Queue -> Nat]
    BY <1>1
  <1>3. ASSUME NEW p \in Queue PROVE WellFormed(p)'
    <2>1. WellFormed(p) /\ WellFormed(q)
      OBVIOUS
    <2>2. CASE p = q
      <3>1. /\ buffer'[p] = NULL /\ capacity'[p] = 0 /\ head'[p] = 0
            /\ tail'[p] = 0 /\ size'[p] = 0
        BY <2>2, <1>1
      <3> QED BY <3>1, RingQueueAssumption DEF WellFormed, RingQueueAssumption
    <2>3. CASE p = r
      <3>1. /\ buffer'[p] = buffer[q] /\ capacity'[p] = capacity[q] /\ head'[p] = head[q]
            /\ tail'[p] = tail[q] /\ size'[p] = size[q]
        BY <2>3, <1>1
      <3> QED BY <2>1, <3>1 DEF WellFormed
    <2>4. CASE p # q /\ p # r
      <3>1. /\ buffer'[p] = buffer[p] /\ capacity'[p] = capacity[p] /\ head'[p] = head[p]
            /\ tail'[p] = tail[p] /\ size'[p] = size[p]
        BY <2>4, <1>1
      <3> QED BY <2>1, <3>1 DEF WellFormed
    <2> QED BY <2>2, <2>3, <2>4
  <1>4. ASSUME NEW a \in Queue, NEW b \in Queue, a # b, buffer'[a] # NULL
        PROVE  buffer'[a] # buffer'[b]
    BY <1>1, <1>4
  <1> QED BY <1>1, <1>2, <1>3, <1>4

LEMMA StutterTyped == TypeOK /\ UNCHANGED vars => TypeOK'
PROOF BY DEF TypeOK, WellFormed, vars

LEMMA NextTyped == TypeOK /\ [Next]_vars => TypeOK'
PROOF BY PushTyped, PopTyped, ClearTyped, MoveTyped, StutterTyped DEF Next

\* Every queue object has its indices within its own storage, the tail as many
\* places after the head as it has entries, and no storage has two owners, for
\* any number of queues of any capacity.
THEOREM RingTypeCorrect == Spec => []TypeOK
PROOF
  <1>1. Init => TypeOK
    BY Initially
  <1> QED BY <1>1, NextTyped, PTL DEF Spec

-----------------------------------------------------------------------------
(* The refinement.                                                         *)

Held == [q \in Queue |-> Contents(q)]

LEMMA ContentsAre ==
  ASSUME NEW q \in Queue
  PROVE  Contents(q) = Entries(storage[buffer[q]], capacity[q], head[q], size[q])
PROOF BY DEF Contents, Entries

LEMMA NoContents ==
  ASSUME NEW q \in Queue, size[q] = 0
  PROVE  Contents(q) = <<>>
PROOF
  <1>1. 1 .. size[q] = {}
    OBVIOUS
  <1> QED BY <1>1 DEF Contents


\* A queue that holds entries, in terms of numbers.
LEMMA QueueNumbers ==
  ASSUME TypeOK, NEW q \in Queue, capacity[q] > 0
  PROVE  \E N \in Nat \ {0}, h \in Nat, n \in Nat :
           /\ h \in 0 .. N - 1 /\ n \in 0 .. N /\ N <= Capacity
           /\ N = capacity[q] /\ h = head[q] /\ n = size[q]
           /\ tail[q] = (h + n) % N
           /\ buffer[q] \in Queue /\ storage[buffer[q]] \in Storage
PROOF
  <1>1. WellFormed(q)
    BY DEF TypeOK
  <1>2. buffer[q] \in Queue
    BY <1>1 DEF TypeOK, WellFormed
  <1>3. storage[buffer[q]] \in Storage
    BY <1>2 DEF TypeOK, Storage
  <1> QED BY <1>1, <1>2, <1>3 DEF TypeOK, WellFormed

\* What a queue holds stays when its indices and its storage do.
LEMMA ContentsStay ==
  ASSUME NEW r \in Queue, capacity'[r] = capacity[r], head'[r] = head[r], size'[r] = size[r],
         size[r] = 0 \/ storage'[buffer'[r]] = storage[buffer[r]],
         size[r] \in Nat
  PROVE  Contents(r)' = Contents(r)
PROOF
  <1>1. CASE size[r] = 0
    <2>1. 1 .. size[r] = {}
      BY <1>1
    <2> QED BY <2>1 DEF Contents
  <1>2. CASE storage'[buffer'[r]] = storage[buffer[r]]
    BY <1>2 DEF Contents
  <1> QED BY <1>1, <1>2

LEMMA ContentsType ==
  ASSUME TypeOK, NEW q \in Queue
  PROVE  Contents(q) \in Seq(Value) /\ Len(Contents(q)) = size[q]
PROOF
  <1>1. CASE capacity[q] > 0
    <2>1. PICK N \in Nat \ {0}, h \in Nat, n \in Nat :
            /\ h \in 0 .. N - 1 /\ n \in 0 .. N /\ N <= Capacity
            /\ N = capacity[q] /\ h = head[q] /\ n = size[q]
            /\ storage[buffer[q]] \in Storage
      BY <1>1, QueueNumbers
    <2>2. /\ Entries(storage[buffer[q]], N, h, n) \in Seq(Value)
          /\ Len(Entries(storage[buffer[q]], N, h, n)) = n
      BY <2>1, EntriesType
    <2> QED BY <2>1, <2>2, ContentsAre
  <1>2. CASE ~(capacity[q] > 0)
    <2>1. size[q] = 0
      BY <1>2 DEF TypeOK, WellFormed
    <2>2. Contents(q) = <<>>
      BY <2>1, NoContents
    <2> QED BY <2>1, <2>2, EmptySeq
  <1> QED BY <1>1, <1>2

LEMMA PushPuts ==
  ASSUME TypeOK, NEW q \in Queue, NEW v \in Value, push(q, v)
  PROVE  R!Put(q, v)
PROOF
  <1>1. /\ capacity[q] > 0 /\ capacity' = capacity /\ buffer' = buffer
        /\ storage' = [storage EXCEPT ![buffer[q]][tail[q]] = v]
    BY DEF push
  <1>2. PICK N \in Nat \ {0}, h \in Nat, n \in Nat :
          /\ h \in 0 .. N - 1 /\ n \in 0 .. N /\ N <= Capacity
          /\ N = capacity[q] /\ h = head[q] /\ n = size[q]
          /\ tail[q] = (h + n) % N
          /\ buffer[q] \in Queue /\ storage[buffer[q]] \in Storage
    BY <1>1, QueueNumbers
  <1>3. PICK b \in Storage : b = storage[buffer[q]]
    BY <1>2
  <1>4. storage'[buffer[q]] = [b EXCEPT ![(h + n) % N] = v]
    BY <1>1, <1>2, <1>3 DEF TypeOK
  <1>5. storage'[buffer'[q]] = [b EXCEPT ![(h + n) % N] = v]
    BY <1>1, <1>4
  <1>6. Contents(q) = Entries(b, N, h, n) /\ Len(Contents(q)) = n
    BY <1>2, <1>3, ContentsAre, ContentsType
  <1>7. Contents(q)' = IF Len(Contents(q)) < capacity[q]
                       THEN Append(Contents(q), v) ELSE Append(Tail(Contents(q)), v)
    <2>1. CASE full(q)
      <3>1. n = N /\ size' = size /\ head' = [head EXCEPT ![q] = next_position(q, @)]
        BY <2>1, <1>2 DEF full, push
      <3>2. head'[q] = (h + 1) % N /\ size'[q] = N /\ capacity'[q] = N
        BY <3>1, <1>1, <1>2 DEF next_position, TypeOK
      <3>3. (h + n) % N = h
        BY <1>2, <3>1, RingRound, Zenon
      <3>4. Contents(q)' = Entries([b EXCEPT ![h] = v], N, (h + 1) % N, N)
        BY <1>5, <3>2, <3>3, Zenon DEF Contents, Entries
      <3>5. Entries([b EXCEPT ![h] = v], N, (h + 1) % N, N) = Append(Tail(Entries(b, N, h, N)), v)
        BY <1>2, EntriesReplace
      <3>6. ~(n < N)
        BY <3>1
      <3> QED BY <1>2, <1>6, <3>1, <3>4, <3>5, <3>6, Zenon
    <2>2. CASE ~full(q)
      <3>1. n # N /\ head' = head /\ size' = [size EXCEPT ![q] = @ + 1]
        BY <2>2, <1>2 DEF full, push
      <3>2. head'[q] = h /\ size'[q] = n + 1 /\ capacity'[q] = N
        BY <3>1, <1>1, <1>2 DEF TypeOK
      <3>3. n \in 0 .. N - 1 /\ n < N
        BY <1>2, <3>1
      <3>4. Contents(q)' = Entries([b EXCEPT ![(h + n) % N] = v], N, h, n + 1)
        BY <1>5, <3>2, Zenon DEF Contents, Entries
      <3>5. Entries([b EXCEPT ![(h + n) % N] = v], N, h, n + 1) = Append(Entries(b, N, h, n), v)
        <4>1. h \in 0 .. N - 1 /\ N <= Capacity
          BY <1>2
        <4> QED BY <4>1, <3>3, EntriesPut, Zenon
      <3> QED BY <1>2, <1>6, <3>3, <3>4, <3>5, Zenon
    <2> QED BY <2>1, <2>2
  <1>8. ASSUME NEW r \in Queue, r # q PROVE Contents(r)' = Contents(r)
    <2>1. head'[r] = head[r] /\ size'[r] = size[r] /\ size[r] \in Nat
      BY <1>8 DEF push, TypeOK
    <2>2. CASE buffer[r] = NULL
      <3>1. size[r] = 0
        BY <2>2 DEF TypeOK, WellFormed
      <3> QED BY <2>1, <3>1, <1>1, ContentsStay
    <2>3. CASE buffer[r] # NULL
      <3>1. buffer[r] # buffer[q] /\ buffer[r] \in Queue
        BY <2>3, <1>8 DEF TypeOK
      <3>2. storage'[buffer'[r]] = storage[buffer[r]]
        BY <3>1, <1>1 DEF TypeOK
      <3> QED BY <2>1, <3>2, <1>1, ContentsStay
    <2> QED BY <2>2, <2>3
  <1>9. Held' = [Held EXCEPT ![q] = IF Len(@) < capacity[q]
                                    THEN Append(@, v) ELSE Append(Tail(@), v)]
    BY <1>7, <1>8 DEF Held
  <1> QED BY <1>1, <1>9 DEF R!Put, Held

LEMMA PopTakes ==
  ASSUME TypeOK, NEW q \in Queue, pop_front(q)
  PROVE  R!Take(q)
PROOF
  <1>1. /\ size[q] > 0 /\ capacity' = capacity /\ buffer' = buffer /\ storage' = storage
        /\ head' = [head EXCEPT ![q] = next_position(q, @)]
        /\ size' = [size EXCEPT ![q] = @ - 1]
    BY DEF pop_front
  <1>2. capacity[q] > 0
    BY <1>1 DEF TypeOK, WellFormed
  <1>3. PICK N \in Nat \ {0}, h \in Nat, n \in Nat :
          /\ h \in 0 .. N - 1 /\ n \in 0 .. N /\ N <= Capacity
          /\ N = capacity[q] /\ h = head[q] /\ n = size[q]
          /\ storage[buffer[q]] \in Storage
    BY <1>2, QueueNumbers
  <1>4. PICK b \in Storage : b = storage[buffer[q]]
    BY <1>3
  <1>5. Contents(q) = Entries(b, N, h, n) /\ Len(Contents(q)) = n
    BY <1>3, <1>4, ContentsAre, ContentsType
  <1>6. n \in 1 .. N
    BY <1>1, <1>3
  <1>7. head'[q] = (h + 1) % N /\ size'[q] = n - 1
    BY <1>1, <1>3 DEF next_position, TypeOK
  <1>8. Contents(q)' = Entries(b, N, (h + 1) % N, n - 1)
    BY <1>1, <1>3, <1>4, <1>7 DEF Contents, Entries
  <1>9. Entries(b, N, (h + 1) % N, n - 1) = Tail(Entries(b, N, h, n))
    BY <1>3, <1>6, EntriesTake
  <1>10. Contents(q)' = Tail(Contents(q))
    BY <1>5, <1>8, <1>9, Zenon
  <1>11. Contents(q) # <<>>
    BY <1>5, <1>6, ContentsType, EmptySeq
  <1>12. ASSUME NEW r \in Queue, r # q PROVE Contents(r)' = Contents(r)
    <2>1. head'[r] = head[r] /\ size'[r] = size[r] /\ size[r] \in Nat
      BY <1>1, <1>12 DEF TypeOK
    <2> QED BY <2>1, <1>1, ContentsStay
  <1>13. Held' = [Held EXCEPT ![q] = Tail(@)]
    BY <1>10, <1>12 DEF Held
  <1> QED BY <1>1, <1>11, <1>13 DEF R!Take, Held

LEMMA ClearDiscards ==
  ASSUME TypeOK, NEW q \in Queue, clear(q)
  PROVE  R!Discard(q)
PROOF
  <1>1. /\ capacity' = capacity /\ buffer' = buffer /\ storage' = storage
        /\ head' = [head EXCEPT ![q] = 0] /\ size' = [size EXCEPT ![q] = 0]
    BY DEF clear
  <1>2. Contents(q)' = <<>>
    <2>1. size'[q] = 0
      BY <1>1 DEF TypeOK
    <2>2. 1 .. size'[q] = {}
      BY <2>1
    <2> QED BY <2>2 DEF Contents
  <1>3. ASSUME NEW r \in Queue, r # q PROVE Contents(r)' = Contents(r)
    <2>1. head'[r] = head[r] /\ size'[r] = size[r] /\ size[r] \in Nat
      BY <1>1, <1>3 DEF TypeOK
    <2> QED BY <2>1, <1>1, ContentsStay
  <1>4. Held' = [Held EXCEPT ![q] = <<>>]
    BY <1>2, <1>3 DEF Held
  <1> QED BY <1>1, <1>4 DEF R!Discard, Held

LEMMA MoveMoves ==
  ASSUME TypeOK, NEW q \in Queue, NEW r \in Queue, move(q, r)
  PROVE  R!Move(q, r)
PROOF
  <1>1. /\ q # r /\ storage' = storage
        /\ buffer' = [buffer EXCEPT ![r] = buffer[q], ![q] = NULL]
        /\ capacity' = [capacity EXCEPT ![r] = capacity[q], ![q] = 0]
        /\ head' = [head EXCEPT ![r] = head[q], ![q] = 0]
        /\ size' = [size EXCEPT ![r] = size[q], ![q] = 0]
    BY DEF move, exchanged_buffer
  <1>2. Contents(q)' = <<>>
    <2>1. size'[q] = 0
      BY <1>1 DEF TypeOK
    <2>2. 1 .. size'[q] = {}
      BY <2>1
    <2> QED BY <2>2 DEF Contents
  <1>3. Contents(r)' = Contents(q)
    <2>1. /\ buffer'[r] = buffer[q] /\ capacity'[r] = capacity[q]
          /\ head'[r] = head[q] /\ size'[r] = size[q]
      BY <1>1 DEF TypeOK
    <2> QED BY <2>1, <1>1 DEF Contents
  <1>4. ASSUME NEW p \in Queue, p # q, p # r PROVE Contents(p)' = Contents(p)
    <2>1. /\ buffer'[p] = buffer[p] /\ capacity'[p] = capacity[p]
          /\ head'[p] = head[p] /\ size'[p] = size[p] /\ size[p] \in Nat
      BY <1>1, <1>4 DEF TypeOK
    <2> QED BY <2>1, <1>1, ContentsStay
  <1>5. Held' = [Held EXCEPT ![r] = Held[q], ![q] = <<>>]
    BY <1>1, <1>2, <1>3, <1>4 DEF Held
  <1> QED BY <1>1, <1>5 DEF R!Move, Held

\* Every queue of entries in a ring is a queue of bounded length that forgets
\* its oldest entry rather than refuse a new one: whatever the capacity,
\* wherever the indices wrap, and however the objects are moved about.
THEOREM RingIsRecentQueue == Spec => ImplementsRecentQueue
PROOF
  <1>1. Init => R!Init
    <2> SUFFICES ASSUME Init PROVE R!Init
      OBVIOUS
    <2>1. \A q \in Queue : size[q] = 0
      BY DEF Init
    <2>2. \A q \in Queue : Contents(q) = <<>>
      BY <2>1, NoContents
    <2>3. capacity \in [Queue -> Nat]
      BY RingQueueAssumption DEF Init, RingQueueAssumption
    <2> QED BY <2>2, <2>3 DEF R!Init
  <1>2. TypeOK /\ [Next]_vars => [R!Next]_(R!vars)
    <2> SUFFICES ASSUME TypeOK, [Next]_vars PROVE [R!Next]_(R!vars)
      OBVIOUS
    <2>1. CASE \E q \in Queue : pop_front(q)
      BY <2>1, PopTakes DEF R!Next
    <2>2. CASE \E q \in Queue : clear(q)
      BY <2>2, ClearDiscards DEF R!Next
    <2>3. CASE \E q \in Queue, v \in Value : push(q, v)
      BY <2>3, PushPuts DEF R!Next
    <2>4. CASE \E q, r \in Queue : move(q, r)
      BY <2>4, MoveMoves DEF R!Next
    <2>5. CASE UNCHANGED vars
      BY <2>5 DEF vars, R!vars, Contents
    <2> QED BY <2>1, <2>2, <2>3, <2>4, <2>5 DEF Next
  <1> QED BY <1>1, <1>2, RingTypeCorrect, PTL DEF Spec, ImplementsRecentQueue, R!Spec

=============================================================================
