--------------------------- MODULE IntrusiveProofs ---------------------------
(***************************************************************************)
(* What is proved of the two intrusive containers: the FIFO, and the delta *)
(* queue with the timer service on it.                                     *)
(*                                                                         *)
(* The pointers of the FIFO always spell out the sequence of the nodes     *)
(* pushed and not popped, for any nodes and any number of queues.  The     *)
(* argument needs OnePlace: a push changes the link of the last node of    *)
(* its queue and of the new node only, and these are in no other queue.    *)
(*                                                                         *)
(* The timer service is an alarm clock, for any width of the tick counter. *)
(* The argument needs that the deltas of the whole list add up to less     *)
(* than that width (NoOverflow), so that the reductions insert makes are   *)
(* not felt: the due time of a node is then the plain sum of the deltas up *)
(* to it (Added), which insert and erase change for one node only.  The    *)
(* lemmas follow a list from one operation to the next as Pending: its     *)
(* deltas fit, and its due times lie within MaxGap of those asked for.     *)
(***************************************************************************)
EXTENDS FifoQueue, TimerService, QueueLemmas

-----------------------------------------------------------------------------
(* The FIFO.                                                               *)

\* The inductive invariant of the FIFO.
FifoInv == FifoTypeOK /\ WellLinked /\ OnePlace

\* What WellLinked says of one queue.
Spells(q, c) ==
  /\ size[q] = Len(c)
  /\ c = <<>> => head[q] = NULL /\ tail[q] = NULL
  /\ c # <<>> => head[q] = c[1] /\ tail[q] = c[Len(c)] /\ next[c[Len(c)]] = NULL
  /\ \A i \in 1 .. Len(c) - 1 : next[c[i]] = c[i + 1]

LEMMA FifoPushKeeps == FifoInv /\ (\E q \in Queue, n \in FifoNode : push(q, n)) => FifoInv'
PROOF
  <1> SUFFICES ASSUME FifoInv, NEW p \in Queue, NEW n \in FifoNode, push(p, n) PROVE FifoInv'
    OBVIOUS
  <1> USE FifoAssumption
  <1> DEFINE c == content[p]
  <1>t. FifoTypeOK
    BY DEF FifoInv
  <1>c. /\ c \in Seq(FifoNode)
        /\ c # <<>> => Len(c) \in Nat \ {0} /\ c[Len(c)] \in FifoNode
    BY <1>t DEF FifoTypeOK
  <1>f. \A q \in Queue : \A i \in DOMAIN content[q] : content[q][i] # n
    BY DEF push, Free, Range
  <1>1. FifoTypeOK'
    BY <1>t DEF FifoTypeOK, push, linked, Pointer
  <1>2. /\ content'[p] = Append(c, n)
        /\ \A q \in Queue \ {p} : content'[q] = content[q]
    BY <1>t DEF FifoTypeOK, push
  <1>3. OnePlace'
    <2>1. /\ Range(content'[p]) = Range(content[p]) \cup {n}
          /\ \A q \in Queue \ {p} : Range(content'[q]) = Range(content[q])
      BY <1>2, <1>c, PushFacts
    <2>2. ASSUME NEW q \in Queue, NEW r \in Queue, q # r
          PROVE  Range(content'[q]) \cap Range(content'[r]) = {}
      <3>1. Range(content[q]) \cap Range(content[r]) = {}
        BY <2>2 DEF FifoInv, OnePlace
      <3>2. n \notin Range(content[q]) /\ n \notin Range(content[r])
        BY DEF push, Free
      <3>3. CASE q # p /\ r # p
        BY <2>1, <3>1, <3>3, Zenon
      <3>4. CASE q = p
        <4>1. Range(content'[r]) = Range(content[r])
          BY <2>1, <2>2, <3>4
        <4> QED
          BY <2>1, <3>1, <3>2, <3>4, <4>1
      <3>5. CASE r = p
        <4>1. Range(content'[q]) = Range(content[q])
          BY <2>1, <2>2, <3>5
        <4> QED
          BY <2>1, <3>1, <3>2, <3>5, <4>1
      <3> QED
        BY <3>3, <3>4, <3>5
    <2>3. ASSUME NEW q \in Queue, NEW i \in DOMAIN content'[q], NEW j \in DOMAIN content'[q],
                 content'[q][i] = content'[q][j]
          PROVE  i = j
      <3>1. CASE q # p
        BY <1>2, <2>3, <3>1 DEF FifoInv, OnePlace
      <3>2. CASE q = p
        <4>1. /\ DOMAIN content'[q] = 1 .. Len(c) + 1 /\ DOMAIN c = 1 .. Len(c)
              /\ \A k \in 1 .. Len(c) : content'[q][k] = c[k]
              /\ content'[q][Len(c) + 1] = n
          BY <1>2, <1>c, <3>2
        <4>2. \A k \in 1 .. Len(c) : c[k] # n
          BY <1>f, <4>1
        <4>3. \A k, l \in 1 .. Len(c) : c[k] = c[l] => k = l
          BY <4>1 DEF FifoInv, OnePlace
        <4> QED
          BY <4>1, <4>2, <4>3, <2>3, <1>c
      <3> QED
        BY <3>1, <3>2
    <2> QED
      BY <2>2, <2>3 DEF OnePlace
  <1>4. WellLinked'
    <2>1. ASSUME NEW q \in Queue, q # p PROVE Spells(q, content[q])'
      <3> DEFINE d == content[q]
      <3>1. /\ d \in Seq(FifoNode) /\ d' = d
            /\ head'[q] = head[q] /\ tail'[q] = tail[q] /\ size'[q] = size[q]
        BY <1>t, <2>1 DEF FifoTypeOK, push
      <3>2. Spells(q, d)
        BY DEF FifoInv, WellLinked, Spells
      <3>3. \A i \in DOMAIN d : next'[d[i]] = next[d[i]]
        <4> SUFFICES ASSUME NEW i \in DOMAIN d PROVE next'[d[i]] = next[d[i]]
          OBVIOUS
        <4>1. d[i] \in FifoNode /\ d[i] # n
          BY <1>f, <3>1
        <4>2. d[i] # tail[p]
          <5>1. CASE c = <<>>
            BY <4>1, <5>1 DEF FifoInv, WellLinked
          <5>2. CASE c # <<>>
            <6>1. tail[p] = c[Len(c)] /\ Len(c) \in DOMAIN c
              BY <1>c, <5>2 DEF FifoInv, WellLinked
            <6>2. tail[p] \in Range(c) /\ d[i] \in Range(d)
              BY <6>1 DEF Range
            <6> QED
              BY <6>2, <2>1 DEF FifoInv, OnePlace
          <5> QED
            BY <5>1, <5>2
        <4> QED
          BY <4>1, <4>2 DEF push, linked
      <3>4. d # <<>> => Len(d) \in DOMAIN d
        BY <3>1
      <3>5. \A i \in 1 .. Len(d) - 1 : i \in DOMAIN d
        BY <3>1
      <3> QED
        BY <3>1, <3>2, <3>3, <3>4, <3>5 DEF Spells
    <2>2. Spells(p, content[p])'
      <3> DEFINE e == Append(c, n)
      <3>1. /\ Len(e) = Len(c) + 1 /\ e[Len(c) + 1] = n /\ Len(c) \in Nat
            /\ \A i \in 1 .. Len(c) : e[i] = c[i]
            /\ e # <<>>
        BY <1>c
      <3>2. Spells(p, c)
        BY DEF FifoInv, WellLinked, Spells
      <3>3. tail'[p] = n /\ size'[p] = Len(c) + 1 /\ next'[n] = NULL
        BY <1>t, <3>2 DEF FifoTypeOK, push, linked, Spells
      <3>4. head'[p] = e[1]
        <4>1. CASE c = <<>>
          BY <1>t, <3>1, <3>2, <4>1 DEF FifoTypeOK, push, Spells
        <4>2. CASE c # <<>>
          <5>1. tail[p] # NULL /\ head[p] = c[1]
            BY <1>c, <3>2, <4>2 DEF Spells
          <5>2. e[1] = c[1]
            BY <1>c, <3>1, <4>2
          <5> QED
            BY <1>t, <5>1, <5>2 DEF FifoTypeOK, push
        <4> QED
          BY <4>1, <4>2
      <3>5. ASSUME NEW i \in 1 .. Len(c) PROVE next'[e[i]] = e[i + 1]
        <4>1. c # <<>> /\ i \in DOMAIN c /\ c[i] \in FifoNode /\ c[i] # n
          BY <1>c, <1>f
        <4>2. CASE i = Len(c)
          BY <3>1, <3>2, <4>1, <4>2 DEF Spells, push, linked
        <4>3. CASE i # Len(c)
          <5>1. i \in 1 .. Len(c) - 1 /\ Len(c) \in DOMAIN c
            BY <1>c, <4>1, <4>3
          <5>2. c[i] # tail[p]
            BY <3>2, <4>1, <4>3, <5>1 DEF Spells, FifoInv, OnePlace
          <5>3. i + 1 \in 1 .. Len(c)
            BY <5>1, <1>c
          <5> QED
            BY <3>1, <3>2, <4>1, <5>1, <5>2, <5>3 DEF Spells, push, linked
        <4> QED
          BY <4>2, <4>3
      <3> QED
        BY <1>2, <3>1, <3>3, <3>4, <3>5 DEF Spells
    <2>3. \A q \in Queue : Spells(q, content[q])'
      BY <2>1, <2>2
    <2> QED
      BY <2>3 DEF WellLinked, Spells
  <1> QED
    BY <1>1, <1>3, <1>4 DEF FifoInv

LEMMA FifoPopKeeps == FifoInv /\ (\E q \in Queue : pop_front(q)) => FifoInv'
PROOF
  <1> SUFFICES ASSUME FifoInv, NEW p \in Queue, pop_front(p) PROVE FifoInv'
    OBVIOUS
  <1> USE FifoAssumption
  <1> DEFINE c == content[p]
             d == Tail(c)
  <1>t. FifoTypeOK
    BY DEF FifoInv
  <1>s. Spells(p, c)
    BY DEF FifoInv, WellLinked, Spells
  <1>c. /\ c \in Seq(FifoNode) /\ c # <<>>
        /\ d \in Seq(FifoNode) /\ Len(d) = Len(c) - 1 /\ Len(c) \in Nat \ {0}
        /\ \A i \in 1 .. Len(d) : d[i] = c[i + 1] /\ i + 1 \in DOMAIN c
        /\ Range(c) = Range(d) \cup {Head(c)}
    <2>1. c \in Seq(FifoNode) /\ c # <<>>
      BY <1>t, <1>s DEF FifoTypeOK, pop_front, Spells
    <2> QED
      BY <2>1, PopFacts
  <1> HIDE DEF d
  <1>h. head[p] = c[1] /\ c[1] \in FifoNode
    BY <1>c, <1>s DEF Spells
  <1>2. /\ content'[p] = d /\ next' = next
        /\ head'[p] = next[head[p]] /\ size'[p] = Len(c) - 1
        /\ tail' = tail_after_pop(p)
        /\ \A q \in Queue \ {p} :
             /\ content'[q] = content[q] /\ head'[q] = head[q]
             /\ tail'[q] = tail[q] /\ size'[q] = size[q]
    <2>1. /\ content'[p] = d /\ next' = next
          /\ head'[p] = next[head[p]] /\ size'[p] = Len(c) - 1
          /\ tail' = tail_after_pop(p)
          /\ \A q \in Queue \ {p} :
               content'[q] = content[q] /\ head'[q] = head[q] /\ size'[q] = size[q]
      BY <1>t, <1>s DEF FifoTypeOK, pop_front, Spells, d
    <2>2. \A q \in Queue \ {p} : tail'[q] = tail[q]
      BY <1>t, <2>1 DEF FifoTypeOK, tail_after_pop
    <2> QED
      BY <2>1, <2>2
  <1>1. FifoTypeOK'
    <2>1. size'[p] \in Nat
      BY <1>2, <1>c
    <2> QED
      BY <1>t, <1>2, <1>c, <1>h, <2>1 DEF FifoTypeOK, pop_front, tail_after_pop, Pointer
  <1>3. OnePlace'
    <2>1. ASSUME NEW q \in Queue, NEW r \in Queue, q # r
          PROVE  Range(content'[q]) \cap Range(content'[r]) = {}
      <3>1. Range(content[q]) \cap Range(content[r]) = {}
        BY <2>1 DEF FifoInv, OnePlace
      <3>2. \A s \in Queue : Range(content'[s]) \subseteq Range(content[s])
        BY <1>2, <1>c
      <3>3. /\ Range(content'[q]) \subseteq Range(content[q])
            /\ Range(content'[r]) \subseteq Range(content[r])
        BY <3>2
      <3> QED
        BY <3>1, <3>3, Zenon
    <2>2. ASSUME NEW q \in Queue, NEW i \in DOMAIN content'[q], NEW j \in DOMAIN content'[q],
                 content'[q][i] = content'[q][j]
          PROVE  i = j
      <3>1. CASE q # p
        BY <1>2, <2>2, <3>1 DEF FifoInv, OnePlace
      <3>2. CASE q = p
        <4>1. i \in 1 .. Len(d) /\ j \in 1 .. Len(d)
          BY <1>2, <1>c, <3>2
        <4>2. c[i + 1] = c[j + 1] /\ i + 1 \in DOMAIN c /\ j + 1 \in DOMAIN c
          BY <1>2, <1>c, <2>2, <3>2, <4>1
        <4>3. i + 1 = j + 1
          BY <4>2 DEF FifoInv, OnePlace
        <4> QED
          BY <4>1, <4>3
      <3> QED
        BY <3>1, <3>2
    <2> QED
      BY <2>1, <2>2 DEF OnePlace
  <1>4. WellLinked'
    <2>1. \A q \in Queue \ {p} : Spells(q, content[q])'
      BY <1>2 DEF FifoInv, WellLinked, Spells
    <2>2. size'[p] = Len(d)
      BY <1>2, <1>c
    <2>3. d = <<>> => head'[p] = NULL /\ tail'[p] = NULL
      <3> SUFFICES ASSUME d = <<>> PROVE head'[p] = NULL /\ tail'[p] = NULL
        OBVIOUS
      <3>1. Len(c) = 1
        BY <1>c
      <3>2. next[head[p]] = NULL
        BY <1>c, <1>s, <1>h, <3>1 DEF Spells
      <3> QED
        BY <1>t, <1>2, <3>2 DEF FifoTypeOK, tail_after_pop
    <2>4. d # <<>> => head'[p] = d[1] /\ tail'[p] = d[Len(d)] /\ next[d[Len(d)]] = NULL
      <3> SUFFICES ASSUME d # <<>>
                   PROVE  head'[p] = d[1] /\ tail'[p] = d[Len(d)] /\ next[d[Len(d)]] = NULL
        OBVIOUS
      <3>1. Len(d) \in Nat \ {0} /\ 1 \in 1 .. Len(c) - 1
        BY <1>c
      <3>2. next[head[p]] = c[2] /\ c[2] = d[1] /\ d[1] \in FifoNode
        BY <1>c, <1>s, <1>h, <3>1 DEF Spells
      <3>3. tail'[p] = tail[p]
        BY <1>2, <3>2 DEF tail_after_pop
      <3>4. d[Len(d)] = c[Len(c)]
        BY <1>c, <3>1
      <3> QED
        BY <1>2, <1>c, <1>s, <3>2, <3>3, <3>4 DEF Spells
    <2>5. ASSUME NEW i \in 1 .. Len(d) - 1 PROVE next[d[i]] = d[i + 1]
      <3>1. /\ i \in 1 .. Len(d) /\ i + 1 \in 1 .. Len(d)
            /\ i + 1 \in 1 .. Len(c) - 1
        BY <1>c
      <3> QED
        BY <1>c, <1>s, <3>1 DEF Spells
    <2>6. Spells(p, content[p])'
      BY <1>2, <2>2, <2>3, <2>4, <2>5 DEF Spells
    <2>7. \A q \in Queue : Spells(q, content[q])'
      BY <2>1, <2>6
    <2> QED
      BY <2>7 DEF WellLinked, Spells
  <1> QED
    BY <1>1, <1>3, <1>4 DEF FifoInv

\* It holds in every state.
THEOREM FifoInvariance == FifoSpec => []FifoInv
PROOF
  <1>1. FifoInit => FifoInv
    BY DEF FifoInit, FifoInv, FifoTypeOK, WellLinked, OnePlace, Pointer, Range
  <1>2. FifoInv /\ [FifoNext]_fifoVars => FifoInv'
    <2>1. FifoInv /\ UNCHANGED fifoVars => FifoInv'
      BY DEF FifoInv, FifoTypeOK, WellLinked, OnePlace, fifoVars
    <2> QED
      BY <2>1, FifoPushKeeps, FifoPopKeeps DEF FifoNext
  <1> QED
    BY <1>1, <1>2, PTL DEF FifoSpec

\* Types, for any set of nodes and of queues.
THEOREM FifoTypeCorrect == FifoSpec => []FifoTypeOK
  BY FifoInvariance, PTL DEF FifoInv

\* The pointers spell out what was pushed and not popped.
THEOREM FifoLinksRight == FifoSpec => []WellLinked
  BY FifoInvariance, PTL DEF FifoInv

\* Nodes leave in the order they came, and none is left behind.
THEOREM FifoOldestFirst == FifoSpec => PopsInOrder
PROOF
  <1>1. FifoInv /\ FifoInv' /\ FifoNext =>
          \A q \in Queue : /\ pop_front(q) => head[q] = Head(content[q])
                           /\ head'[q] = NULL <=> content'[q] = <<>>
    <2> SUFFICES ASSUME FifoInv, FifoInv', NEW q \in Queue
                 PROVE  /\ pop_front(q) => head[q] = Head(content[q])
                        /\ head'[q] = NULL <=> content'[q] = <<>>
      OBVIOUS
    <2>1. content[q] \in Seq(FifoNode) /\ content'[q] \in Seq(FifoNode)
      BY DEF FifoInv, FifoTypeOK
    <2>2. pop_front(q) => head[q] = Head(content[q])
      BY <2>1 DEF FifoInv, WellLinked, pop_front
    <2>3. content'[q] # <<>> => head'[q] \in FifoNode
      BY <2>1 DEF FifoInv, WellLinked
    <2>4. content'[q] = <<>> => head'[q] = NULL
      BY DEF FifoInv, WellLinked
    <2> QED
      BY <2>2, <2>3, <2>4, FifoAssumption
  <1>2. FifoSpec => []FifoInv
    BY FifoInvariance
  <1>3. FifoInv /\ FifoInv' /\ [FifoNext]_fifoVars =>
          [\A q \in Queue : /\ pop_front(q) => head[q] = Head(content[q])
                            /\ head'[q] = NULL <=> content'[q] = <<>>]_fifoVars
    BY <1>1
  <1> QED
    BY <1>2, <1>3, PTL DEF FifoSpec, PopsInOrder

-----------------------------------------------------------------------------
(* The delta queue: lists of timers and sums of their deltas.              *)

\* What the assumption says of the counter and the bounds.
LEMMA TickFacts ==
  /\ Ticks \in Nat \ {0} /\ Tick = 0 .. Ticks - 1
  /\ MaxGap \in Nat /\ MaxGap < Ticks /\ MaxTime \in Nat
PROOF BY TimerAssumption DEF TimerAssumption, Tick

LEMMA TickReduced ==
  ASSUME NEW x \in Tick
  PROVE  x % Ticks = x
PROOF
  <1>1. x \in 0 .. 2 * Ticks - 1 /\ x < Ticks
    BY TickFacts
  <1> QED BY <1>1, TickFacts, ReducedOnce

\* A list of nodes with the ticks between one and the next.
List(q, del) == q \in Seq(Node) /\ IsInjective(q) /\ del \in [Range(q) -> Tick]

LEMMA ListFacts ==
  ASSUME NEW q, NEW del, List(q, del)
  PROVE  /\ Len(q) \in Nat /\ DOMAIN q = 1 .. Len(q) /\ DOMAIN del = Range(q)
         /\ \A i \in 1 .. Len(q) : q[i] \in Range(q) /\ q[i] \in Node /\ del[q[i]] \in Tick
         /\ \A i, j \in 1 .. Len(q) : q[i] = q[j] => i = j
         /\ \A n \in Range(q) : \E i \in 1 .. Len(q) : q[i] = n
PROOF
  <1>1. q \in Seq(Node) /\ IsInjective(q) /\ del \in [Range(q) -> Tick]
    BY DEF List
  <1>2. /\ Len(q) \in Nat /\ DOMAIN q = 1 .. Len(q) /\ DOMAIN del = Range(q)
        /\ \A i \in 1 .. Len(q) : q[i] \in Node
    BY <1>1, LenProperties
  <1>3. \A i \in 1 .. Len(q) : q[i] \in Range(q)
    BY <1>2 DEF Range
  <1>4. \A i \in 1 .. Len(q) : del[q[i]] \in Tick
    BY <1>1, <1>3
  <1>5. \A i, j \in 1 .. Len(q) : q[i] = q[j] => i = j
    BY <1>1, <1>2 DEF IsInjective
  <1>6. \A n \in Range(q) : \E i \in 1 .. Len(q) : q[i] = n
    BY <1>2 DEF Range
  <1> QED BY <1>2, <1>3, <1>4, <1>5, <1>6

\* The recursive definition of the sums has a solution, found number by number.
Sums(q, del, k, f) ==
  f = [i \in 0 .. k |-> IF i = 0 THEN 0 ELSE (f[i - 1] + del[q[i]]) % Ticks]

LEMMA SumsExist ==
  ASSUME NEW q, NEW del, Len(q) \in Nat
  PROVE  Sums(q, del, Len(q), sums(q, del))
PROOF
  <1> DEFINE S == {k \in Nat : \E f : Sums(q, del, k, f)}
  <1>1. 0 \in S
    <2>1. Sums(q, del, 0, [i \in 0 .. 0 |-> 0])
      BY DEF Sums
    <2> QED BY <2>1
  <1>2. ASSUME NEW k \in Nat, k \in S PROVE k + 1 \in S
    <2>1. PICK g : Sums(q, del, k, g)
      BY <1>2
    <2> DEFINE h == [i \in 0 .. k + 1 |->
                      IF i = k + 1 THEN (g[k] + del[q[k + 1]]) % Ticks ELSE g[i]]
    <2>2. \A i \in 0 .. k + 1 : h[i] = IF i = 0 THEN 0 ELSE (h[i - 1] + del[q[i]]) % Ticks
      BY <2>1 DEF Sums
    <2>3. h = [i \in 0 .. k + 1 |-> h[i]]
      OBVIOUS
    <2> HIDE DEF h
    <2>4. Sums(q, del, k + 1, h)
      BY <2>2, <2>3, Zenon DEF Sums
    <2> QED BY <2>4
  <1> HIDE DEF S
  <1>3. Nat \subseteq S
    BY <1>1, <1>2, Induction
  <1>4. \E f : Sums(q, del, Len(q), f)
    BY <1>3 DEF S
  <1> QED BY <1>4 DEF sums, Sums

\* g are the sums of the deltas, none of which overflows.
Added(q, del, g) ==
  /\ g \in [0 .. Len(q) -> Tick]
  /\ g[0] = 0
  /\ \A i \in 1 .. Len(q) : g[i] = g[i - 1] + del[q[i]]

LEMMA SumsAdded ==
  ASSUME NEW q, NEW del, List(q, del), NEW g, Added(q, del, g)
  PROVE  \A i \in 0 .. Len(q) : sums(q, del)[i] = g[i]
PROOF
  <1> DEFINE s == sums(q, del)
             S == {k \in Nat : k <= Len(q) => s[k] = g[k]}
  <1>1. Len(q) \in Nat
    BY ListFacts
  <1>2. s = [i \in 0 .. Len(q) |-> IF i = 0 THEN 0 ELSE (s[i - 1] + del[q[i]]) % Ticks]
    BY <1>1, SumsExist DEF Sums
  <1> HIDE DEF s
  <1>3. 0 \in S
    BY <1>1, <1>2 DEF Added
  <1>4. ASSUME NEW k \in Nat, k \in S PROVE k + 1 \in S
    <2> SUFFICES ASSUME k + 1 <= Len(q) PROVE s[k + 1] = g[k + 1]
      OBVIOUS
    <2>1. k + 1 \in 0 .. Len(q) /\ k + 1 # 0 /\ k + 1 - 1 = k /\ k <= Len(q)
      BY <1>1
    <2>2. s[k + 1] = (g[k] + del[q[k + 1]]) % Ticks
      BY <1>2, <1>4, <2>1
    <2>3. g[k + 1] = g[k] + del[q[k + 1]] /\ g[k + 1] \in Tick
      BY <1>1, <2>1 DEF Added
    <2> QED BY <2>2, <2>3, TickReduced, Zenon
  <1> HIDE DEF S
  <1>5. Nat \subseteq S
    BY <1>3, <1>4, Induction
  <1> QED BY <1>1, <1>5 DEF S, s

LEMMA AddedOrdered ==
  ASSUME NEW q, NEW del, List(q, del), NEW g, Added(q, del, g),
         NEW i \in 0 .. Len(q), NEW j \in 0 .. Len(q), i <= j
  PROVE  g[i] <= g[j]
PROOF
  <1> DEFINE S == {k \in Nat : i + k <= Len(q) => g[i] <= g[i + k]}
  <1>1. Len(q) \in Nat
    BY ListFacts
  <1>2. \A k \in 0 .. Len(q) : g[k] \in Nat
    BY TickFacts DEF Added
  <1>3. 0 \in S
    BY <1>2
  <1>4. ASSUME NEW k \in Nat, k \in S PROVE k + 1 \in S
    <2> SUFFICES ASSUME i + (k + 1) <= Len(q) PROVE g[i] <= g[i + (k + 1)]
      OBVIOUS
    <2>1. PICK m \in 1 .. Len(q) : m = i + (k + 1) /\ m - 1 = i + k
      BY <1>1
    <2>2. g[m] = g[m - 1] + del[q[m]]
      BY DEF Added
    <2>3. del[q[m]] \in Nat
      BY ListFacts, TickFacts
    <2>4. g[i] <= g[m - 1]
      BY <1>4, <2>1
    <2>5. m \in 0 .. Len(q) /\ m - 1 \in 0 .. Len(q)
      BY <1>1
    <2>6. g[i] <= g[m]
      BY <1>2, <2>2, <2>3, <2>4, <2>5
    <2> QED BY <2>1, <2>6
  <1> HIDE DEF S
  <1>5. Nat \subseteq S
    BY <1>3, <1>4, Induction
  <1>6. PICK k \in Nat : j = i + k
    <2>1. j - i \in Nat /\ j = i + (j - i)
      BY <1>1
    <2> QED BY <2>1
  <1>7. i + k <= Len(q)
    BY <1>1, <1>6
  <1> QED BY <1>5, <1>6, <1>7 DEF S

\* NoOverflow, of any list.
Fits(q, del) == \A i \in 1 .. Len(q) : sums(q, del)[i - 1] + del[q[i]] < Ticks

LEMMA FitsAdded ==
  ASSUME NEW q, NEW del, List(q, del), Fits(q, del)
  PROVE  Added(q, del, sums(q, del))
PROOF
  <1> DEFINE s == sums(q, del)
  <1>1. Len(q) \in Nat
    BY ListFacts
  <1>2. s = [i \in 0 .. Len(q) |-> IF i = 0 THEN 0 ELSE (s[i - 1] + del[q[i]]) % Ticks]
    BY <1>1, SumsExist DEF Sums
  <1>3. \A i \in 1 .. Len(q) : s[i - 1] + del[q[i]] < Ticks
    BY DEF Fits
  <1> HIDE DEF s
  <1> DEFINE S == {k \in Nat : k <= Len(q) => s[k] \in Tick}
  <1>4. 0 \in S /\ s[0] = 0
    BY <1>1, <1>2, TickFacts
  <1>5. ASSUME NEW k \in Nat, k \in S, k + 1 <= Len(q)
        PROVE  s[k + 1] \in Tick /\ s[k + 1] = s[k] + del[q[k + 1]]
    <2>1. k + 1 \in 1 .. Len(q) /\ k + 1 \in 0 .. Len(q) /\ k + 1 # 0
          /\ k + 1 - 1 = k /\ k <= Len(q)
      BY <1>1, <1>5
    <2>2. s[k + 1] = (s[k] + del[q[k + 1]]) % Ticks
      BY <1>2, <2>1
    <2>3. del[q[k + 1]] \in Tick /\ s[k] \in Tick /\ s[k] + del[q[k + 1]] < Ticks
      BY <1>3, <1>5, <2>1, ListFacts
    <2>4. s[k] + del[q[k + 1]] \in Tick
      BY <2>3, TickFacts
    <2> QED BY <2>2, <2>4, TickReduced, Zenon
  <1>6. \A k \in Nat : k \in S => k + 1 \in S
    BY <1>5
  <1>7. Nat \subseteq S
    <2> HIDE DEF S
    <2> QED BY <1>4, <1>6, Induction
  <1>8. \A i \in 0 .. Len(q) : s[i] \in Tick
    BY <1>1, <1>7
  <1>9. ASSUME NEW i \in 1 .. Len(q) PROVE s[i] = s[i - 1] + del[q[i]]
    <2>1. PICK k \in Nat : i = k + 1 /\ k = i - 1
      BY <1>1
    <2>2. k + 1 <= Len(q) /\ k \in S
      BY <1>1, <1>7, <2>1
    <2> QED BY <1>5, <2>1, <2>2
  <1>10. s \in [0 .. Len(q) -> Tick]
    BY <1>2, <1>8
  <1> QED BY <1>4, <1>9, <1>10 DEF Added, s

LEMMA AddedFits ==
  ASSUME NEW q, NEW del, List(q, del), NEW g, Added(q, del, g)
  PROVE  Fits(q, del)
PROOF
  <1>1. Len(q) \in Nat
    BY ListFacts
  <1>2. ASSUME NEW i \in 1 .. Len(q) PROVE sums(q, del)[i - 1] + del[q[i]] < Ticks
    <2>1. i \in 0 .. Len(q) /\ i - 1 \in 0 .. Len(q)
      BY <1>1
    <2>2. sums(q, del)[i - 1] = g[i - 1]
      BY <2>1, SumsAdded
    <2>3. g[i] = g[i - 1] + del[q[i]] /\ g[i] \in Tick
      BY <2>1 DEF Added
    <2> QED BY <2>2, <2>3, TickFacts
  <1> QED BY <1>2 DEF Fits

-----------------------------------------------------------------------------
(* When the timers of a list are due, counting from b.                     *)

Times(q, del, b) == [n \in Range(q) |-> b + sums(q, del)[place(q, n)]]

LEMMA PlaceFacts ==
  ASSUME NEW q, NEW del, List(q, del)
  PROVE  /\ \A i \in 1 .. Len(q) : place(q, q[i]) = i
         /\ \A n \in Range(q) : place(q, n) \in 1 .. Len(q) /\ q[place(q, n)] = n
PROOF
  <1>1. /\ DOMAIN q = 1 .. Len(q)
        /\ \A i, j \in 1 .. Len(q) : q[i] = q[j] => i = j
        /\ \A n \in Range(q) : \E i \in 1 .. Len(q) : q[i] = n
    BY ListFacts
  <1>2. \A n : (\E i \in 1 .. Len(q) : q[i] = n)
                 => place(q, n) \in 1 .. Len(q) /\ q[place(q, n)] = n
    BY <1>1 DEF place
  <1> QED BY <1>1, <1>2

\* The due times of a list, by place.
LEMMA TimesAre ==
  ASSUME NEW q, NEW del, List(q, del), NEW g, Added(q, del, g), NEW b
  PROVE  /\ DOMAIN Times(q, del, b) = Range(q)
         /\ \A i \in 1 .. Len(q) : Times(q, del, b)[q[i]] = b + g[i]
PROOF
  <1>1. DOMAIN Times(q, del, b) = Range(q)
    BY DEF Times
  <1>2. ASSUME NEW i \in 1 .. Len(q) PROVE Times(q, del, b)[q[i]] = b + g[i]
    <2>1. q[i] \in Range(q) /\ place(q, q[i]) = i
      BY ListFacts, PlaceFacts
    <2>2. i \in 0 .. Len(q)
      BY ListFacts
    <2>3. sums(q, del)[i] = g[i]
      BY <2>2, SumsAdded
    <2> QED BY <2>1, <2>3 DEF Times
  <1> QED BY <1>1, <1>2

-----------------------------------------------------------------------------
(* Sequences: an element put in, an element taken out.                     *)

LEMMA SubSeqFacts ==
  ASSUME NEW q \in Seq(Node), NEW m \in 1 .. Len(q) + 1, NEW n \in 0 .. Len(q)
  PROVE  /\ SubSeq(q, m, n) \in Seq(Node)
         /\ Len(SubSeq(q, m, n)) = IF m <= n THEN n - m + 1 ELSE 0
         /\ \A i \in 1 .. n - m + 1 : SubSeq(q, m, n)[i] = q[m + i - 1]
PROOF
  <1>1. Len(q) \in Nat /\ \A i \in 1 .. Len(q) : q[i] \in Node
    BY LenProperties
  <1>2. m \in Int /\ n \in Int /\ \A i \in m .. n : q[i] \in Node
    BY <1>1
  <1> QED BY <1>2, SubSeqProperties

LEMMA InsertAtFacts ==
  ASSUME NEW q \in Seq(Node), NEW k \in 0 .. Len(q), NEW n \in Node
  PROVE  /\ InsertAt(q, k + 1, n) \in Seq(Node)
         /\ Len(InsertAt(q, k + 1, n)) = Len(q) + 1
         /\ \A i \in 1 .. Len(q) + 1 : InsertAt(q, k + 1, n)[i] =
               IF i <= k THEN q[i] ELSE IF i = k + 1 THEN n ELSE q[i - 1]
PROOF
  <1>1. Len(q) \in Nat
    BY LenProperties
  <1> DEFINE a == SubSeq(q, 1, k)
             c == SubSeq(q, k + 1, Len(q))
             m == <<n>>
  <1>2. a \in Seq(Node) /\ Len(a) = k /\ \A i \in 1 .. k : a[i] = q[i]
    <2>1. /\ SubSeq(q, 1, k) \in Seq(Node)
          /\ Len(SubSeq(q, 1, k)) = IF 1 <= k THEN k - 1 + 1 ELSE 0
          /\ \A i \in 1 .. k - 1 + 1 : SubSeq(q, 1, k)[i] = q[1 + i - 1]
      BY <1>1, SubSeqFacts
    <2> QED BY <2>1
  <1>3. c \in Seq(Node) /\ Len(c) = Len(q) - k /\ \A i \in 1 .. Len(q) - k : c[i] = q[i + k]
    <2>1. PICK j \in 1 .. Len(q) + 1 : j = k + 1
      BY <1>1
    <2>2. /\ SubSeq(q, j, Len(q)) \in Seq(Node)
          /\ Len(SubSeq(q, j, Len(q))) = IF j <= Len(q) THEN Len(q) - j + 1 ELSE 0
          /\ \A i \in 1 .. Len(q) - j + 1 : SubSeq(q, j, Len(q))[i] = q[j + i - 1]
      BY <1>1, SubSeqFacts
    <2> QED BY <1>1, <2>1, <2>2
  <1>4. m \in Seq(Node) /\ Len(m) = 1 /\ m[1] = n
    OBVIOUS
  <1>5. InsertAt(q, k + 1, n) = a \o m \o c
    <2>1. PICK j \in Nat : j = k + 1 /\ j - 1 = k
      OBVIOUS
    <2>2. InsertAt(q, j, n) = SubSeq(q, 1, j - 1) \o <<n>> \o SubSeq(q, j, Len(q))
      BY DEF InsertAt
    <2> QED BY <2>1, <2>2
  <1> HIDE DEF a, m, c
  <1>6. /\ a \o m \in Seq(Node) /\ Len(a \o m) = k + 1
        /\ \A i \in 1 .. k + 1 : (a \o m)[i] = IF i <= k THEN a[i] ELSE m[i - k]
    <2>1. a \in Seq(Node) /\ m \in Seq(Node)
      BY <1>2, <1>4
    <2>2. /\ a \o m \in Seq(Node) /\ Len(a \o m) = Len(a) + Len(m)
          /\ \A i \in 1 .. Len(a) + Len(m) : (a \o m)[i] =
               IF i <= Len(a) THEN a[i] ELSE m[i - Len(a)]
      BY <2>1, ConcatProperties
    <2> QED BY <2>2, <1>2, <1>4
  <1> DEFINE am == a \o m
  <1>7. \A i \in 1 .. k + 1 : am[i] = IF i <= k THEN q[i] ELSE n
    BY <1>2, <1>4, <1>6
  <1>8. am \in Seq(Node) /\ Len(am) = k + 1
    BY <1>6
  <1> HIDE DEF am
  <1>9. /\ am \o c \in Seq(Node) /\ Len(am \o c) = Len(q) + 1
        /\ \A i \in 1 .. Len(q) + 1 : (am \o c)[i] =
              IF i <= k + 1 THEN am[i] ELSE c[i - (k + 1)]
    <2>1. am \in Seq(Node) /\ c \in Seq(Node)
      BY <1>3, <1>8
    <2>2. /\ am \o c \in Seq(Node) /\ Len(am \o c) = Len(am) + Len(c)
          /\ \A i \in 1 .. Len(am) + Len(c) : (am \o c)[i] =
               IF i <= Len(am) THEN am[i] ELSE c[i - Len(am)]
      BY <2>1, ConcatProperties
    <2>3. Len(am) + Len(c) = Len(q) + 1
      BY <1>1, <1>3, <1>8
    <2> QED BY <2>2, <2>3, <1>8
  <1>10. InsertAt(q, k + 1, n) = am \o c
    BY <1>5 DEF am
  <1>11. ASSUME NEW i \in 1 .. Len(q) + 1
         PROVE  (am \o c)[i] = IF i <= k THEN q[i] ELSE IF i = k + 1 THEN n ELSE q[i - 1]
    <2>1. CASE i <= k + 1
      BY <1>1, <1>7, <1>9, <2>1
    <2>2. CASE i > k + 1
      <3>1. PICK j \in 1 .. Len(q) - k : j = i - (k + 1) /\ j + k = i - 1
        BY <1>1, <2>2
      <3>2. (am \o c)[i] = c[j] /\ c[j] = q[i - 1]
        BY <1>1, <1>3, <1>9, <2>2, <3>1
      <3> QED BY <3>2, <2>2
    <2>3. i <= k + 1 \/ i > k + 1
      BY <1>1
    <2> QED BY <2>1, <2>2, <2>3
  <1> DEFINE r == am \o c
  <1>12. /\ r \in Seq(Node) /\ Len(r) = Len(q) + 1 /\ InsertAt(q, k + 1, n) = r
         /\ \A i \in 1 .. Len(q) + 1 :
              r[i] = IF i <= k THEN q[i] ELSE IF i = k + 1 THEN n ELSE q[i - 1]
    BY <1>9, <1>10, <1>11
  <1> HIDE DEF r
  <1> QED BY <1>12

LEMMA RemoveAtFacts ==
  ASSUME NEW q \in Seq(Node), NEW p \in 1 .. Len(q)
  PROVE  /\ RemoveAt(q, p) \in Seq(Node)
         /\ Len(RemoveAt(q, p)) = Len(q) - 1
         /\ \A i \in 1 .. Len(q) - 1 : RemoveAt(q, p)[i] = IF i < p THEN q[i] ELSE q[i + 1]
PROOF
  <1>1. Len(q) \in Nat
    BY LenProperties
  <1>2. PICK k \in 0 .. Len(q) - 1 : k = p - 1 /\ p = k + 1
    BY <1>1
  <1> DEFINE a == SubSeq(q, 1, k)
             c == SubSeq(q, p + 1, Len(q))
  <1>3. a \in Seq(Node) /\ Len(a) = k /\ \A i \in 1 .. k : a[i] = q[i]
    <2>1. /\ SubSeq(q, 1, k) \in Seq(Node)
          /\ Len(SubSeq(q, 1, k)) = IF 1 <= k THEN k - 1 + 1 ELSE 0
          /\ \A i \in 1 .. k - 1 + 1 : SubSeq(q, 1, k)[i] = q[1 + i - 1]
      BY <1>1, SubSeqFacts
    <2> QED BY <2>1
  <1>4. c \in Seq(Node) /\ Len(c) = Len(q) - p /\ \A i \in 1 .. Len(q) - p : c[i] = q[i + p]
    <2>1. PICK j \in 1 .. Len(q) + 1 : j = p + 1
      BY <1>1
    <2>2. /\ SubSeq(q, j, Len(q)) \in Seq(Node)
          /\ Len(SubSeq(q, j, Len(q))) = IF j <= Len(q) THEN Len(q) - j + 1 ELSE 0
          /\ \A i \in 1 .. Len(q) - j + 1 : SubSeq(q, j, Len(q))[i] = q[j + i - 1]
      BY <1>1, SubSeqFacts
    <2> QED BY <1>1, <2>1, <2>2
  <1>5. RemoveAt(q, p) = a \o c
    BY <1>2 DEF RemoveAt
  <1> HIDE DEF a, c
  <1>6. /\ a \o c \in Seq(Node) /\ Len(a \o c) = Len(q) - 1
        /\ \A i \in 1 .. Len(q) - 1 : (a \o c)[i] = IF i <= k THEN a[i] ELSE c[i - k]
    <2>1. a \in Seq(Node) /\ c \in Seq(Node)
      BY <1>3, <1>4
    <2>2. /\ a \o c \in Seq(Node) /\ Len(a \o c) = Len(a) + Len(c)
          /\ \A i \in 1 .. Len(a) + Len(c) : (a \o c)[i] =
               IF i <= Len(a) THEN a[i] ELSE c[i - Len(a)]
      BY <2>1, ConcatProperties
    <2>3. Len(a) + Len(c) = Len(q) - 1
      <3>1. Len(a) = k /\ Len(c) = Len(q) - p
        BY <1>3, <1>4
      <3> QED BY <3>1, <1>1, <1>2
    <2> QED BY <2>2, <2>3, <1>3
  <1>7. ASSUME NEW i \in 1 .. Len(q) - 1
        PROVE  (a \o c)[i] = IF i < p THEN q[i] ELSE q[i + 1]
    <2>1. CASE i < p
      BY <1>1, <1>2, <1>3, <1>6, <2>1
    <2>2. CASE i >= p
      <3>1. PICK j \in 1 .. Len(q) - p : j = i - k /\ j + p = i + 1
        BY <1>1, <1>2, <2>2
      <3>2. (a \o c)[i] = c[j] /\ c[j] = q[i + 1]
        BY <1>1, <1>2, <1>4, <1>6, <2>2, <3>1
      <3> QED BY <3>2, <2>2
    <2>3. i < p \/ i >= p
      BY <1>1
    <2> QED BY <2>1, <2>2, <2>3
  <1> QED BY <1>5, <1>6, <1>7

-----------------------------------------------------------------------------
(* insert.                                                                 *)

\* Where the loop of insert stops: after k nodes, those due no later.
Stops(q, g, key, k) ==
  /\ \A i \in 1 .. k : g[i] <= key
  /\ k < Len(q) => g[k + 1] > key

LEMMA LoopStops ==
  ASSUME NEW q, NEW del, List(q, del), NEW g, Added(q, del, g), NEW key \in Tick
  PROVE  \E k \in 0 .. Len(q) : Stops(q, g, key, k)
PROOF
  <1> DEFINE S == {m \in Nat : m <= Len(q) => \/ \A i \in 1 .. m : g[i] <= key
                                              \/ \E k \in 0 .. Len(q) : Stops(q, g, key, k)}
  <1>1. Len(q) \in Nat /\ key \in Nat
    BY ListFacts, TickFacts
  <1>2. \A i \in 1 .. Len(q) : g[i] \in Nat
    BY TickFacts DEF Added
  <1>3. 0 \in S
    OBVIOUS
  <1>4. ASSUME NEW m \in Nat, m \in S PROVE m + 1 \in S
    <2> SUFFICES ASSUME m + 1 <= Len(q), ~ \E k \in 0 .. Len(q) : Stops(q, g, key, k)
                 PROVE  \A i \in 1 .. m + 1 : g[i] <= key
      OBVIOUS
    <2>1. \A i \in 1 .. m : g[i] <= key
      BY <1>1, <1>4
    <2>2. m \in 0 .. Len(q) /\ m < Len(q) /\ m + 1 \in 1 .. Len(q)
      BY <1>1
    <2>3. ~(g[m + 1] > key)
      BY <2>1, <2>2 DEF Stops
    <2>4. g[m + 1] <= key
      BY <1>1, <1>2, <2>2, <2>3
    <2> QED BY <2>1, <2>4
  <1> HIDE DEF S
  <1>5. Nat \subseteq S
    BY <1>3, <1>4, Induction
  <1>6. Len(q) \in S
    BY <1>1, <1>5
  <1>7. Len(q) \in 0 .. Len(q) /\ ~(Len(q) < Len(q))
    BY <1>1
  <1> QED BY <1>1, <1>6, <1>7 DEF S, Stops

LEMMA PassedFacts ==
  ASSUME NEW q, NEW del, List(q, del), NEW g, Added(q, del, g), NEW key \in Tick
  PROVE  passed(q, del, key) \in 0 .. Len(q) /\ Stops(q, g, key, passed(q, del, key))
PROOF
  <1> DEFINE s == sums(q, del)
  <1>1. Len(q) \in Nat
    BY ListFacts
  <1>2. \A i \in 0 .. Len(q) : s[i] = g[i]
    BY SumsAdded
  <1>3. passed(q, del, key) = CHOOSE k \in 0 .. Len(q) :
           (\A i \in 1 .. k : s[i] <= key) /\ (k < Len(q) => s[k + 1] > key)
    BY DEF passed
  <1> HIDE DEF s
  <1>4. ASSUME NEW k \in 0 .. Len(q)
        PROVE  Stops(q, g, key, k) <=>
               (\A i \in 1 .. k : s[i] <= key) /\ (k < Len(q) => s[k + 1] > key)
    <2>1. \A i \in 1 .. k : s[i] = g[i]
      BY <1>1, <1>2
    <2>2. k < Len(q) => s[k + 1] = g[k + 1]
      BY <1>1, <1>2
    <2> QED BY <2>1, <2>2 DEF Stops
  <1>5. \E k \in 0 .. Len(q) : (\A i \in 1 .. k : s[i] <= key) /\ (k < Len(q) => s[k + 1] > key)
    BY <1>4, LoopStops
  <1>6. /\ passed(q, del, key) \in 0 .. Len(q)
        /\ \A i \in 1 .. passed(q, del, key) : s[i] <= key
        /\ passed(q, del, key) < Len(q) => s[passed(q, del, key) + 1] > key
    BY <1>3, <1>5
  <1> QED BY <1>4, <1>6

\* insert keeps every other due time, and gives the new node its own.
LEMMA InsertFacts ==
  ASSUME NEW q, NEW del, List(q, del), Fits(q, del), NEW key \in Tick,
         NEW n \in Node, n \notin Range(q), NEW b
  PROVE  /\ List(insert(q, del, key, n).queue, insert(q, del, key, n).delta)
         /\ Fits(insert(q, del, key, n).queue, insert(q, del, key, n).delta)
         /\ Range(insert(q, del, key, n).queue) = Range(q) \cup {n}
         /\ Times(insert(q, del, key, n).queue, insert(q, del, key, n).delta, b)
              = With(Times(q, del, b), n, b + key)
PROOF
  <1> DEFINE g == sums(q, del)
             k == passed(q, del, key)
             own == key - g[k]
             p == InsertAt(q, k + 1, n)
             d == [m \in Range(q) \cup {n} |->
                    IF m = n THEN own
                    ELSE IF k < Len(q) /\ m = q[k + 1] THEN (del[m] - own) % Ticks
                    ELSE del[m]]
             h == [i \in 0 .. Len(q) + 1 |->
                    IF i <= k THEN g[i] ELSE IF i = k + 1 THEN key ELSE g[i - 1]]
  <1>1. insert(q, del, key, n).queue = p /\ insert(q, del, key, n).delta = d
    BY DEF insert
  <1>2. Added(q, del, g)
    BY FitsAdded
  <1>3. k \in 0 .. Len(q) /\ Stops(q, g, key, k)
    BY <1>2, PassedFacts
  <1> HIDE DEF g, k
  <1>4. q \in Seq(Node) /\ Len(q) \in Nat /\ key \in Nat
    BY ListFacts, TickFacts DEF List
  <1>5. /\ p \in Seq(Node) /\ Len(p) = Len(q) + 1
        /\ \A i \in 1 .. Len(q) + 1 : p[i] =
              IF i <= k THEN q[i] ELSE IF i = k + 1 THEN n ELSE q[i - 1]
    BY <1>3, <1>4, InsertAtFacts
  <1> HIDE DEF p
  <1>6. \A i \in 0 .. Len(q) : g[i] \in Tick
    BY <1>2 DEF Added
  <1>7. g[k] <= key /\ (k < Len(q) => g[k + 1] > key)
    <2>1. k = 0 \/ k \in 1 .. k
      BY <1>3
    <2>2. g[0] = 0
      BY <1>2 DEF Added
    <2> QED BY <1>3, <1>4, <2>1, <2>2 DEF Stops
  <1>8. own \in Tick
    BY <1>3, <1>6, <1>7, TickFacts
  <1>9. ASSUME k < Len(q) PROVE del[q[k + 1]] - own = g[k + 1] - key /\ g[k + 1] - key \in Tick
    <2>1. PICK j \in 1 .. Len(q) : j = k + 1 /\ j - 1 = k
      BY <1>3, <1>4, <1>9
    <2>2. g[j] = g[j - 1] + del[q[j]] /\ g[j] \in Tick /\ g[j - 1] \in Tick /\ del[q[j]] \in Tick
      BY <1>2, <1>3, <1>6, <2>1, ListFacts DEF Added
    <2>3. g[j] > key
      BY <1>7, <1>9, <2>1
    <2> QED BY <1>4, <2>1, <2>2, <2>3, TickFacts
  <1>10. \A i \in 1 .. Len(q) : q[i] \in Range(q) /\ q[i] # n /\ del[q[i]] \in Tick
    BY ListFacts
  <1>11. ASSUME NEW i \in 1 .. Len(q)
         PROVE  d[q[i]] = IF i = k + 1 THEN g[i] - key ELSE del[q[i]]
    <2>1. CASE i = k + 1
      <3>1. k < Len(q)
        BY <1>3, <1>4, <2>1
      <3>2. d[q[i]] = (del[q[k + 1]] - own) % Ticks
        BY <1>10, <2>1, <3>1
      <3>3. d[q[i]] = (g[k + 1] - key) % Ticks
        BY <1>9, <3>1, <3>2, Zenon
      <3> QED BY <1>9, <2>1, <3>1, <3>3, TickReduced, Zenon
    <2>2. CASE i # k + 1
      <3>1. k < Len(q) => q[i] # q[k + 1]
        BY <1>3, <1>4, <2>2, ListFacts
      <3> QED BY <1>10, <2>2, <3>1
    <2> QED BY <2>1, <2>2
  <1>12. d[n] = own /\ DOMAIN d = Range(q) \cup {n}
    OBVIOUS
  <1> HIDE DEF d
  <1>13. DOMAIN p = 1 .. Len(q) + 1
    BY <1>5, LenProperties
  <1>14. Range(p) = Range(q) \cup {n}
    <2>1. ASSUME NEW x \in Range(p) PROVE x \in Range(q) \cup {n}
      <3>1. PICK i \in 1 .. Len(q) + 1 : x = p[i]
        BY <1>13 DEF Range
      <3>2. p[i] = IF i <= k THEN q[i] ELSE IF i = k + 1 THEN n ELSE q[i - 1]
        BY <1>5
      <3>3. i <= k => i \in 1 .. Len(q)
        BY <1>3, <1>4
      <3>4. i > k + 1 => i - 1 \in 1 .. Len(q)
        BY <1>3, <1>4
      <3> QED BY <1>3, <1>4, <1>10, <3>1, <3>2, <3>3, <3>4
    <2>2. ASSUME NEW i \in 1 .. Len(q) PROVE q[i] \in Range(p)
      <3>1. CASE i <= k
        <4>1. i \in 1 .. Len(q) + 1 /\ p[i] = q[i]
          BY <1>4, <1>5, <3>1
        <4> QED BY <4>1, <1>13 DEF Range
      <3>2. CASE ~(i <= k)
        <4>1. PICK j \in 1 .. Len(q) + 1 : j = i + 1 /\ j - 1 = i /\ ~(j <= k) /\ j # k + 1
          BY <1>3, <1>4, <3>2
        <4>2. p[j] = q[i]
          BY <1>5, <4>1
        <4> QED BY <4>1, <4>2, <1>13 DEF Range
      <3> QED BY <3>1, <3>2
    <2>3. n \in Range(p)
      <3>1. k + 1 \in 1 .. Len(q) + 1 /\ ~(k + 1 <= k)
        BY <1>3, <1>4
      <3>2. p[k + 1] = n
        BY <1>5, <3>1
      <3> QED BY <3>1, <3>2, <1>13 DEF Range
    <2>4. \A x \in Range(q) : \E i \in 1 .. Len(q) : q[i] = x
      BY ListFacts
    <2> QED BY <2>1, <2>2, <2>3, <2>4
  <1>15. IsInjective(p)
    <2> SUFFICES ASSUME NEW i \in 1 .. Len(q) + 1, NEW j \in 1 .. Len(q) + 1, p[i] = p[j]
                 PROVE  i = j
      BY <1>13 DEF IsInjective
    <2> DEFINE from(x) == IF x <= k THEN x ELSE x - 1
    <2>1. ASSUME NEW x \in 1 .. Len(q) + 1, x # k + 1
          PROVE  from(x) \in 1 .. Len(q) /\ p[x] = q[from(x)]
      <3>1. from(x) \in 1 .. Len(q)
        BY <1>3, <1>4, <2>1
      <3>2. p[x] = IF x <= k THEN q[x] ELSE q[x - 1]
        BY <1>5, <2>1
      <3> QED BY <3>1, <3>2
    <2>2. from(i) = from(j) /\ i # k + 1 /\ j # k + 1 => i = j
      BY <1>3, <1>4
    <2> HIDE DEF from
    <2>3. p[k + 1] = n
      <3>1. k + 1 \in 1 .. Len(q) + 1 /\ ~(k + 1 <= k)
        BY <1>3, <1>4
      <3> QED BY <1>5, <3>1
    <2>4. CASE i = k + 1
      BY <1>10, <2>1, <2>3, <2>4
    <2>5. CASE j = k + 1
      BY <1>10, <2>1, <2>3, <2>5
    <2>6. CASE i # k + 1 /\ j # k + 1
      <3>1. q[from(i)] = q[from(j)] /\ from(i) \in 1 .. Len(q) /\ from(j) \in 1 .. Len(q)
        BY <2>1, <2>6
      <3>2. from(i) = from(j)
        BY <3>1, ListFacts
      <3> QED BY <2>2, <2>6, <3>2
    <2> QED BY <2>4, <2>5, <2>6
  <1>16. d \in [Range(p) -> Tick]
    <2>1. ASSUME NEW m \in Range(q) PROVE d[m] \in Tick
      <3>1. PICK i \in 1 .. Len(q) : m = q[i]
        BY ListFacts
      <3>2. i = k + 1 => k < Len(q) /\ g[i] - key \in Tick
        BY <1>3, <1>4, <1>9
      <3> QED BY <1>10, <1>11, <3>1, <3>2
    <2>2. d = [m \in Range(q) \cup {n} |-> d[m]]
      BY DEF d
    <2> QED BY <1>8, <1>12, <1>14, <2>1, <2>2
  <1>17. List(p, d)
    BY <1>5, <1>15, <1>16 DEF List
  <1>18. Added(p, d, h)
    <2>1. ASSUME NEW i \in 0 .. Len(q) + 1 PROVE h[i] \in Tick
      <3>1. i <= k => i \in 0 .. Len(q)
        BY <1>3, <1>4
      <3>2. i > k + 1 => i - 1 \in 0 .. Len(q)
        BY <1>3, <1>4
      <3> QED BY <1>3, <1>4, <1>6, <3>1, <3>2
    <2>2. h[0] = 0
      BY <1>2, <1>3, <1>4 DEF Added
    <2>3. ASSUME NEW i \in 1 .. Len(q) + 1 PROVE h[i] = h[i - 1] + d[p[i]]
      <3>0. \A j \in 1 .. Len(q) : g[j] = g[j - 1] + del[q[j]]
        BY <1>2 DEF Added
      <3>00. i \in 0 .. Len(q) + 1 /\ i - 1 \in 0 .. Len(q) + 1
        BY <1>4
      <3>1. CASE i <= k
        <4>1. i \in 1 .. Len(q) /\ i # k + 1 /\ i - 1 <= k
          BY <1>3, <1>4, <3>1
        <4>2. p[i] = q[i] /\ d[q[i]] = del[q[i]]
          BY <1>5, <1>11, <3>1, <4>1
        <4>3. h[i] = g[i] /\ h[i - 1] = g[i - 1]
          BY <3>00, <3>1, <4>1
        <4> QED BY <3>0, <4>1, <4>2, <4>3
      <3>2. CASE i = k + 1
        <4>1. p[i] = n /\ ~(i <= k) /\ i - 1 = k
          BY <1>3, <1>4, <1>5, <3>2
        <4>2. h[i] = key /\ h[i - 1] = g[k]
          BY <3>00, <3>2, <4>1
        <4>3. g[k] \in Nat
          BY <1>3, <1>6, TickFacts
        <4> QED BY <1>4, <1>12, <4>1, <4>2, <4>3
      <3>3. CASE i > k + 1
        <4>1. PICK j \in 1 .. Len(q) : j = i - 1
          BY <1>3, <1>4, <3>3
        <4>2. p[i] = q[j] /\ ~(i <= k) /\ i # k + 1
          BY <1>3, <1>4, <1>5, <3>3, <4>1
        <4>3. h[i] = g[j]
          BY <3>00, <4>1, <4>2
        <4>4. g[j] \in Nat /\ g[j - 1] \in Nat
          BY <1>4, <1>6, TickFacts
        <4>5. CASE j = k + 1
          <5>1. ~(i - 1 <= k) /\ i - 1 = k + 1
            BY <1>3, <4>1, <4>5
          <5>2. h[i - 1] = key
            BY <3>00, <5>1
          <5>3. d[q[j]] = g[j] - key
            BY <1>11, <4>5
          <5> QED BY <1>4, <4>2, <4>3, <4>4, <5>2, <5>3
        <4>6. CASE j # k + 1
          <5>1. ~(i - 1 <= k) /\ i - 1 # k + 1 /\ i - 1 - 1 = j - 1
            BY <1>3, <3>3, <4>1, <4>6
          <5>2. h[i - 1] = g[j - 1]
            BY <3>00, <5>1
          <5>3. d[q[j]] = del[q[j]]
            BY <1>11, <4>6
          <5> QED BY <3>0, <4>2, <4>3, <5>2, <5>3
        <4> QED BY <4>5, <4>6
      <3> QED BY <1>3, <1>4, <3>1, <3>2, <3>3
    <2>4. h \in [0 .. Len(q) + 1 -> Tick]
      BY <2>1
    <2> HIDE DEF h
    <2> QED BY <1>5, <2>2, <2>3, <2>4 DEF Added
  <1>19. Fits(p, d)
    BY <1>17, <1>18, AddedFits
  <1>20. Times(p, d, b) = With(Times(q, del, b), n, b + key)
    <2> DEFINE T == Times(q, del, b)
               U == Times(p, d, b)
    <2>1. DOMAIN T = Range(q) /\ \A i \in 1 .. Len(q) : T[q[i]] = b + g[i]
      BY <1>2, TimesAre
    <2>2. DOMAIN U = Range(p) /\ \A i \in 1 .. Len(q) + 1 : U[p[i]] = b + h[i]
      <3> HIDE DEF h
      <3>1. DOMAIN U = Range(p) /\ \A i \in 1 .. Len(p) : U[p[i]] = b + h[i]
        BY <1>17, <1>18, TimesAre
      <3> QED BY <1>5, <3>1
    <2>3. U = [x \in Range(p) |-> U[x]]
      BY DEF Times
    <2> HIDE DEF T, U
    <2>4. ASSUME NEW x \in Range(p) PROVE U[x] = IF x = n THEN b + key ELSE T[x]
      <3>1. PICK i \in 1 .. Len(q) + 1 : x = p[i]
        BY <1>13 DEF Range
      <3>2. U[x] = b + h[i] /\ i \in 0 .. Len(q) + 1
        <4>1. i \in 0 .. Len(q) + 1
          BY <1>4
        <4>2. U[x] = b + h[i]
          BY <2>2, <3>1, Zenon
        <4> QED BY <4>1, <4>2, Zenon
      <3>3. CASE i <= k
        <4>1. x = q[i] /\ i \in 1 .. Len(q)
          BY <1>3, <1>4, <1>5, <3>1, <3>3
        <4> QED BY <1>10, <2>1, <3>2, <3>3, <4>1
      <3>4. CASE i = k + 1
        <4>1. x = n /\ ~(i <= k)
          BY <1>3, <1>5, <3>1, <3>4
        <4> QED BY <3>2, <3>4, <4>1
      <3>5. CASE i > k + 1
        <4>1. PICK j \in 1 .. Len(q) : j = i - 1
          BY <1>3, <1>4, <3>5
        <4>2. x = q[j] /\ ~(i <= k) /\ i # k + 1
          BY <1>3, <1>4, <1>5, <3>1, <3>5, <4>1
        <4> QED BY <1>10, <2>1, <3>2, <4>1, <4>2
      <3> QED BY <1>3, <1>4, <3>3, <3>4, <3>5
    <2>5. With(T, n, b + key) = [x \in Range(p) |-> IF x = n THEN b + key ELSE T[x]]
      BY <1>14, <2>1 DEF With
    <2>6. U = With(T, n, b + key)
      BY <2>3, <2>4, <2>5
    <2> QED BY <2>6 DEF T, U
  <1> QED BY <1>1, <1>14, <1>17, <1>19, <1>20

-----------------------------------------------------------------------------
(* erase.                                                                  *)

\* A list is determined by its places: what is in a list without place x.
LEMMA RemovedFacts ==
  ASSUME NEW q, NEW del, List(q, del), NEW x \in 1 .. Len(q)
  PROVE  /\ RemoveAt(q, x) \in Seq(Node)
         /\ Len(RemoveAt(q, x)) = Len(q) - 1
         /\ \A i \in 1 .. Len(q) - 1 : RemoveAt(q, x)[i] = IF i < x THEN q[i] ELSE q[i + 1]
         /\ IsInjective(RemoveAt(q, x))
         /\ Range(RemoveAt(q, x)) = Range(q) \ {q[x]}
PROOF
  <1> DEFINE p == RemoveAt(q, x)
             from(i) == IF i < x THEN i ELSE i + 1
  <1>1. q \in Seq(Node) /\ Len(q) \in Nat
    BY ListFacts DEF List
  <1>2. /\ p \in Seq(Node) /\ Len(p) = Len(q) - 1
        /\ \A i \in 1 .. Len(q) - 1 : p[i] = IF i < x THEN q[i] ELSE q[i + 1]
    BY <1>1, RemoveAtFacts
  <1> HIDE DEF p
  <1>3. DOMAIN p = 1 .. Len(q) - 1
    BY <1>2, LenProperties
  <1>4. ASSUME NEW i \in 1 .. Len(q) - 1
        PROVE  from(i) \in 1 .. Len(q) /\ from(i) # x /\ p[i] = q[from(i)]
    BY <1>1, <1>2
  <1>5. \A i, j \in 1 .. Len(q) - 1 : from(i) = from(j) => i = j
    BY <1>1
  <1>6. \A j \in 1 .. Len(q) : j # x => \E i \in 1 .. Len(q) - 1 : from(i) = j
    <2> SUFFICES ASSUME NEW j \in 1 .. Len(q), j # x
                 PROVE  \E i \in 1 .. Len(q) - 1 : from(i) = j
      OBVIOUS
    <2>1. CASE j < x
      <3>1. j \in 1 .. Len(q) - 1 /\ from(j) = j
        BY <1>1, <2>1
      <3> QED BY <3>1
    <2>2. CASE j > x
      <3>1. j - 1 \in 1 .. Len(q) - 1 /\ from(j - 1) = j
        BY <1>1, <2>2
      <3> QED BY <3>1
    <2> QED BY <1>1, <2>1, <2>2
  <1> HIDE DEF from
  <1>7. IsInjective(p)
    <2> SUFFICES ASSUME NEW i \in 1 .. Len(q) - 1, NEW j \in 1 .. Len(q) - 1, p[i] = p[j]
                 PROVE  i = j
      BY <1>3 DEF IsInjective
    <2>1. from(i) = from(j)
      BY <1>4, ListFacts
    <2> QED BY <1>5, <2>1
  <1>8. Range(p) = Range(q) \ {q[x]}
    <2>1. ASSUME NEW y \in Range(p) PROVE y \in Range(q) \ {q[x]}
      <3>1. PICK i \in 1 .. Len(q) - 1 : y = p[i]
        BY <1>3 DEF Range
      <3> QED BY <1>4, <3>1, ListFacts
    <2>2. ASSUME NEW y \in Range(q) \ {q[x]} PROVE y \in Range(p)
      <3>1. PICK j \in 1 .. Len(q) : y = q[j] /\ j # x
        BY ListFacts
      <3>2. PICK i \in 1 .. Len(q) - 1 : from(i) = j
        BY <1>6, <3>1
      <3>3. p[i] = y
        BY <1>4, <3>1, <3>2
      <3> QED BY <1>3, <3>3 DEF Range
    <2> QED BY <2>1, <2>2
  <1> QED BY <1>2, <1>7, <1>8 DEF p

\* erase keeps every other due time: the successor inherits the ticks.
LEMMA EraseFacts ==
  ASSUME NEW q, NEW del, List(q, del), Fits(q, del), NEW n \in Range(q), NEW b
  PROVE  /\ List(erase(q, del, n).queue, erase(q, del, n).delta)
         /\ Fits(erase(q, del, n).queue, erase(q, del, n).delta)
         /\ Range(erase(q, del, n).queue) = Range(q) \ {n}
         /\ Times(erase(q, del, n).queue, erase(q, del, n).delta, b)
              = Without(Times(q, del, b), n)
PROOF
  <1> DEFINE g == sums(q, del)
             x == place(q, n)
             p == RemoveAt(q, x)
             d == [m \in Range(q) \ {n} |->
                    IF \E i \in 2 .. Len(q) : q[i - 1] = n /\ q[i] = m
                    THEN (del[m] + del[n]) % Ticks ELSE del[m]]
             h == [i \in 0 .. Len(q) - 1 |-> IF i < x THEN g[i] ELSE g[i + 1]]
  <1>1. erase(q, del, n).queue = p /\ erase(q, del, n).delta = d
    BY DEF erase
  <1>2. Added(q, del, g)
    BY FitsAdded
  <1>3. x \in 1 .. Len(q) /\ q[x] = n
    BY PlaceFacts
  <1>4. Len(q) \in Nat
    BY ListFacts
  <1> HIDE DEF g, x
  <1>5. /\ p \in Seq(Node) /\ Len(p) = Len(q) - 1
        /\ \A i \in 1 .. Len(q) - 1 : p[i] = IF i < x THEN q[i] ELSE q[i + 1]
        /\ IsInjective(p) /\ Range(p) = Range(q) \ {n}
    BY <1>3, RemovedFacts
  <1> HIDE DEF p
  <1>6. \A i \in 0 .. Len(q) : g[i] \in Tick
    BY <1>2 DEF Added
  <1>7. \A i \in 1 .. Len(q) : g[i] = g[i - 1] + del[q[i]]
    BY <1>2 DEF Added
  <1>8. \A i \in 1 .. Len(q) : q[i] \in Range(q) /\ del[q[i]] \in Tick
    BY ListFacts
  <1>9. \A i, j \in 1 .. Len(q) : q[i] = q[j] => i = j
    BY ListFacts
  <1>10. ASSUME NEW i \in 1 .. Len(q), i # x
         PROVE  /\ q[i] \in Range(q) \ {n}
                /\ d[q[i]] = IF i = x + 1 THEN g[i] - g[x - 1] ELSE del[q[i]]
    <2>1. q[i] \in Range(q) \ {n}
      BY <1>3, <1>8, <1>9, <1>10
    <2>2. CASE i = x + 1
      <3>1. i \in 2 .. Len(q) /\ i - 1 = x
        BY <1>3, <1>4, <2>2
      <3>2. d[q[i]] = (del[q[i]] + del[n]) % Ticks
        BY <1>3, <2>1, <3>1
      <3>3. g[i] = g[x] + del[q[i]] /\ g[x] = g[x - 1] + del[n]
        BY <1>3, <1>7, <3>1
      <3>4. g[i] \in Tick /\ g[x] \in Tick /\ g[x - 1] \in Tick /\ del[q[i]] \in Tick /\ del[n] \in Tick
        <4>1. i \in 0 .. Len(q) /\ x \in 0 .. Len(q) /\ x - 1 \in 0 .. Len(q)
          BY <1>3, <1>4
        <4> QED BY <1>3, <1>6, <1>8, <4>1
      <3>5. del[q[i]] + del[n] = g[i] - g[x - 1] /\ g[i] - g[x - 1] \in Tick
        <4>1. /\ g[i] \in Nat /\ g[x] \in Nat /\ g[x - 1] \in Nat
              /\ del[q[i]] \in Nat /\ del[n] \in Nat
          BY <3>4, TickFacts
        <4>2. del[q[i]] + del[n] = g[i] - g[x - 1] /\ g[i] - g[x - 1] \in Nat
          <5>1. PICK top \in Nat, here \in Nat, low \in Nat, u \in Nat, w \in Nat :
                  /\ top = g[i] /\ here = g[x] /\ low = g[x - 1]
                  /\ u = del[q[i]] /\ w = del[n]
            BY <4>1
          <5>2. top = here + u /\ here = low + w
            BY <3>3, <5>1, Zenon
          <5>3. u + w = top - low /\ top - low \in Nat
            BY <5>2
          <5> QED BY <5>1, <5>3, Zenon
        <4>3. g[i] - g[x - 1] <= g[i] /\ g[i] \in 0 .. Ticks - 1
          BY <4>1, <3>4, TickFacts
        <4> QED BY <4>1, <4>2, <4>3, TickFacts
      <3>6. d[q[i]] = g[i] - g[x - 1]
        BY <3>2, <3>5, TickReduced, Zenon
      <3> QED BY <2>1, <2>2, <3>6
    <2>3. CASE i # x + 1
      <3>1. ASSUME NEW j \in 2 .. Len(q), q[j - 1] = n, q[j] = q[i] PROVE FALSE
        <4>1. j \in 1 .. Len(q) /\ j - 1 \in 1 .. Len(q)
          BY <1>4
        <4>2. j - 1 = x /\ j = i
          BY <1>3, <1>9, <3>1, <4>1
        <4> QED BY <2>3, <4>2, <1>3, <1>4
      <3> QED BY <2>1, <2>3, <3>1
    <2> QED BY <2>1, <2>2, <2>3
  <1>11. DOMAIN d = Range(q) \ {n} /\ d = [m \in Range(q) \ {n} |-> d[m]]
    OBVIOUS
  <1> HIDE DEF d
  <1>12. \A i \in 0 .. Len(q) - 1 : h[i] \in Tick
    <2> SUFFICES ASSUME NEW i \in 0 .. Len(q) - 1 PROVE h[i] \in Tick
      OBVIOUS
    <2>1. i \in 0 .. Len(q) /\ i + 1 \in 0 .. Len(q)
      BY <1>4
    <2> QED BY <1>6, <2>1
  <1>13. d \in [Range(p) -> Tick]
    <2>1. ASSUME NEW m \in Range(q) \ {n} PROVE d[m] \in Tick
      <3>1. PICK i \in 1 .. Len(q) : m = q[i] /\ i # x
        BY <1>3, ListFacts
      <3>2. i = x + 1 => g[i] - g[x - 1] \in Tick
        <4>1. i = x + 1 => i \in 0 .. Len(q) /\ x - 1 \in 0 .. Len(q) /\ x - 1 <= i
          BY <1>3, <1>4
        <4>2. i = x + 1 => g[x - 1] <= g[i]
          BY <1>2, <4>1, AddedOrdered
        <4> QED BY <1>6, <4>1, <4>2, TickFacts
      <3> QED BY <1>8, <1>10, <3>1, <3>2
    <2> QED BY <1>5, <1>11, <2>1
  <1>14. List(p, d)
    BY <1>5, <1>13 DEF List
  <1>15. Added(p, d, h)
    <2>1. h[0] = 0
      <3>1. 0 \in 0 .. Len(q) - 1 /\ 0 < x
        BY <1>3, <1>4
      <3> QED BY <1>2, <3>1 DEF Added
    <2>2. ASSUME NEW i \in 1 .. Len(q) - 1 PROVE h[i] = h[i - 1] + d[p[i]]
      <3>0. i \in 0 .. Len(q) - 1 /\ i - 1 \in 0 .. Len(q) - 1
        BY <1>4
      <3>1. CASE i < x
        <4>1. i \in 1 .. Len(q) /\ i # x /\ i # x + 1 /\ i - 1 < x
          BY <1>3, <1>4, <3>1
        <4>2. p[i] = q[i] /\ d[q[i]] = del[q[i]]
          BY <1>5, <1>10, <3>1, <4>1
        <4>3. h[i] = g[i] /\ h[i - 1] = g[i - 1]
          BY <3>0, <3>1, <4>1
        <4> QED BY <1>7, <4>1, <4>2, <4>3
      <3>2. CASE i >= x
        <4>1. PICK j \in 1 .. Len(q) : j = i + 1 /\ j - 1 = i /\ j # x
          BY <1>3, <1>4, <3>2
        <4>2. ~(i < x)
          BY <1>3, <3>2
        <4>3. p[i] = q[j] /\ h[i] = g[j]
          BY <1>5, <3>0, <4>1, <4>2
        <4>4. g[j] \in Nat /\ g[x - 1] \in Nat
          <5>1. j \in 0 .. Len(q) /\ x - 1 \in 0 .. Len(q)
            BY <1>3, <1>4
          <5> QED BY <1>6, <5>1, TickFacts
        <4>5. CASE i = x
          <5>1. i - 1 < x /\ i - 1 = x - 1 /\ j = x + 1
            BY <1>3, <4>1, <4>5
          <5>2. h[i - 1] = g[x - 1]
            BY <3>0, <5>1
          <5>3. d[q[j]] = g[j] - g[x - 1]
            BY <1>10, <4>1, <5>1
          <5> QED BY <4>3, <4>4, <5>2, <5>3
        <4>6. CASE i # x
          <5>1. ~(i - 1 < x) /\ (i - 1) + 1 = j - 1 /\ j # x + 1
            BY <1>3, <3>2, <4>1, <4>6
          <5>2. h[i - 1] = g[j - 1]
            BY <3>0, <5>1
          <5>3. d[q[j]] = del[q[j]]
            BY <1>10, <4>1, <5>1
          <5> QED BY <1>7, <4>1, <4>3, <5>2, <5>3
        <4> QED BY <4>5, <4>6
      <3> QED BY <1>3, <3>1, <3>2
    <2>3. h \in [0 .. Len(q) - 1 -> Tick]
      BY <1>12
    <2> HIDE DEF h
    <2> QED BY <1>5, <2>1, <2>2, <2>3 DEF Added
  <1>16. Fits(p, d)
    BY <1>14, <1>15, AddedFits
  <1>17. Times(p, d, b) = Without(Times(q, del, b), n)
    <2> DEFINE T == Times(q, del, b)
               U == Times(p, d, b)
    <2>1. DOMAIN T = Range(q) /\ \A i \in 1 .. Len(q) : T[q[i]] = b + g[i]
      BY <1>2, TimesAre
    <2>2. DOMAIN U = Range(p) /\ \A i \in 1 .. Len(q) - 1 : U[p[i]] = b + h[i]
      <3> HIDE DEF h
      <3>1. DOMAIN U = Range(p) /\ \A i \in 1 .. Len(p) : U[p[i]] = b + h[i]
        BY <1>14, <1>15, TimesAre
      <3> QED BY <1>5, <3>1
    <2>3. U = [y \in Range(p) |-> U[y]]
      BY DEF Times
    <2> HIDE DEF T, U
    <2>4. ASSUME NEW y \in Range(p) PROVE U[y] = T[y]
      <3>1. PICK i \in 1 .. Len(q) - 1 : y = p[i]
        <4>1. DOMAIN p = 1 .. Len(q) - 1
          BY <1>5, LenProperties
        <4> QED BY <4>1 DEF Range
      <3>2. i \in 0 .. Len(q) - 1
        BY <1>4
      <3>3. U[y] = b + h[i]
        BY <2>2, <3>1, Zenon
      <3>4. CASE i < x
        <4>1. y = q[i] /\ i \in 1 .. Len(q)
          BY <1>3, <1>4, <1>5, <3>1, <3>4
        <4> QED BY <2>1, <3>2, <3>3, <3>4, <4>1
      <3>5. CASE i >= x
        <4>1. PICK j \in 1 .. Len(q) : j = i + 1
          BY <1>4
        <4>2. y = q[j] /\ ~(i < x)
          BY <1>3, <1>5, <3>1, <3>5, <4>1
        <4> QED BY <2>1, <3>2, <3>3, <4>1, <4>2
      <3> QED BY <1>3, <3>4, <3>5
    <2>5. Without(T, n) = [y \in Range(p) |-> T[y]]
      BY <1>5, <2>1 DEF Without, Restrict
    <2>6. U = Without(T, n)
      BY <2>3, <2>4, <2>5
    <2> QED BY <2>6 DEF T, U
  <1> QED BY <1>1, <1>5, <1>14, <1>16, <1>17

-----------------------------------------------------------------------------
(* advance: the head fires, or waits for what is left.                     *)

LEMMA HeadIsFirst ==
  ASSUME NEW q, NEW del, List(q, del), Fits(q, del), q # <<>>, NEW b \in Int
  PROVE  /\ Head(q) \in Range(q) /\ Head(q) = q[1] /\ 1 \in 1 .. Len(q)
         /\ sums(q, del)[1] = del[Head(q)]
         /\ Times(q, del, b)[Head(q)] = b + del[Head(q)]
         /\ \A n \in Range(q) : Times(q, del, b)[Head(q)] <= Times(q, del, b)[n]
PROOF
  <1> DEFINE g == sums(q, del)
  <1>1. q \in Seq(Node) /\ Len(q) \in Nat
    BY ListFacts DEF List
  <1>2. Len(q) \in Nat \ {0}
    BY <1>1, EmptySeq
  <1>3. Head(q) = q[1] /\ 1 \in 1 .. Len(q) /\ q[1] \in Range(q)
    BY <1>1, <1>2, HeadTailProperties, ListFacts
  <1>4. Added(q, del, g)
    BY FitsAdded
  <1>5. \A i \in 1 .. Len(q) : Times(q, del, b)[q[i]] = b + g[i]
    BY <1>4, TimesAre
  <1>6. \A i \in 1 .. Len(q) : g[1] <= g[i]
    <2> SUFFICES ASSUME NEW i \in 1 .. Len(q) PROVE g[1] <= g[i]
      OBVIOUS
    <2>1. 1 \in 0 .. Len(q) /\ i \in 0 .. Len(q) /\ 1 <= i
      BY <1>2
    <2> QED BY <1>4, <2>1, AddedOrdered
  <1> HIDE DEF g
  <1>7. g[1] = g[0] + del[q[1]] /\ g[0] = 0 /\ del[q[1]] \in Nat
    <2>1. del[q[1]] \in Nat
      BY <1>3, ListFacts, TickFacts
    <2> QED BY <1>3, <1>4, <2>1 DEF Added
  <1>8. g[1] = del[Head(q)]
    BY <1>3, <1>7
  <1>9. \A i \in 1 .. Len(q) : g[i] \in Nat
    BY <1>4, TickFacts DEF Added
  <1>10. Times(q, del, b)[Head(q)] = b + g[1]
    BY <1>3, <1>5
  <1>11. ASSUME NEW n \in Range(q) PROVE Times(q, del, b)[Head(q)] <= Times(q, del, b)[n]
    <2>1. PICK i \in 1 .. Len(q) : n = q[i]
      BY ListFacts
    <2>2. Times(q, del, b)[n] = b + g[i]
      BY <1>5, <2>1
    <2>3. b + g[1] <= b + g[i]
      BY <1>3, <1>6, <1>9
    <2> QED BY <1>10, <2>2, <2>3
  <1> QED BY <1>3, <1>8, <1>10, <1>11 DEF g

\* When the head has fired, the others are due when they were, counting from
\* the time at which it was due.
LEMMA HeadFired ==
  ASSUME NEW q, NEW del, List(q, del), Fits(q, del), q # <<>>, NEW b \in Int
  PROVE  /\ List(Tail(q), Without(del, Head(q)))
         /\ Fits(Tail(q), Without(del, Head(q)))
         /\ Range(Tail(q)) = Range(q) \ {Head(q)}
         /\ Times(Tail(q), Without(del, Head(q)), b + del[Head(q)])
              = Without(Times(q, del, b), Head(q))
PROOF
  <1> DEFINE g == sums(q, del)
             n == Head(q)
             p == Tail(q)
             d == Without(del, n)
             h == [i \in 0 .. Len(q) - 1 |-> g[i + 1] - g[1]]
  <1>1. Added(q, del, g)
    BY FitsAdded
  <1>2. n \in Range(q) /\ n = q[1] /\ 1 \in 1 .. Len(q) /\ g[1] = del[n]
    BY HeadIsFirst
  <1>3. q \in Seq(Node) /\ IsInjective(q) /\ Len(q) \in Nat /\ DOMAIN del = Range(q)
    BY ListFacts DEF List
  <1>4. /\ p \in Seq(Node) /\ Len(p) = Len(q) - 1 /\ IsInjective(p)
        /\ Range(q) = Range(p) \cup {n} /\ n \notin Range(p)
    BY <1>3, PopFacts
  <1>5. \A i \in 1 .. Len(q) - 1 : p[i] = q[i + 1]
    BY <1>3, HeadTailProperties
  <1>6. Range(p) = Range(q) \ {n}
    BY <1>4
  <1>7. d = [m \in Range(p) |-> del[m]]
    BY <1>3, <1>6 DEF Without, Restrict
  <1>8. d \in [Range(p) -> Tick]
    BY <1>4, <1>7 DEF List
  <1> HIDE DEF g, n, p, d
  <1>9. List(p, d)
    BY <1>4, <1>8 DEF List
  <1>10. \A i \in 0 .. Len(q) : g[i] \in Nat /\ g[i] < Ticks
    BY <1>1, TickFacts DEF Added
  <1>11. ASSUME NEW i \in 0 .. Len(q) - 1 PROVE g[i + 1] - g[1] \in Tick
    <2>1. i + 1 \in 0 .. Len(q) /\ 1 \in 0 .. Len(q) /\ 1 <= i + 1
      BY <1>2, <1>3
    <2>2. g[1] <= g[i + 1]
      BY <1>1, <2>1, AddedOrdered
    <2>3. g[1] \in Nat /\ g[i + 1] \in Nat /\ g[i + 1] < Ticks
      BY <1>10, <2>1
    <2> QED BY <2>2, <2>3, TickFacts
  <1>12. Added(p, d, h)
    <2>1. h \in [0 .. Len(q) - 1 -> Tick]
      BY <1>11
    <2>2. h[0] = 0
      <3>1. 0 \in 0 .. Len(q) - 1 /\ 0 + 1 = 1 /\ g[1] \in Nat
        BY <1>2, <1>3, <1>10
      <3> QED BY <3>1
    <2>3. ASSUME NEW i \in 1 .. Len(q) - 1 PROVE h[i] = h[i - 1] + d[p[i]]
      <3>1. PICK j \in 1 .. Len(q) : j = i + 1 /\ j - 1 = i
        BY <1>3
      <3>2. i \in 0 .. Len(q) - 1 /\ i - 1 \in 0 .. Len(q) - 1 /\ (i - 1) + 1 = i
        BY <1>3
      <3>3. h[i] = g[j] - g[1] /\ h[i - 1] = g[i] - g[1]
        BY <3>1, <3>2
      <3>4. d[p[i]] = del[q[j]]
        <4>1. p[i] = q[j] /\ p[i] \in Range(p)
          BY <1>4, <1>5, <1>9, <3>1, ListFacts
        <4> QED BY <1>7, <4>1
      <3>5. g[j] = g[i] + del[q[j]] /\ del[q[j]] \in Nat
        <4>1. g[j] = g[j - 1] + del[q[j]]
          BY <1>1 DEF Added
        <4>2. del[q[j]] \in Nat
          BY ListFacts, TickFacts
        <4> QED BY <3>1, <4>1, <4>2
      <3>6. g[i] \in Nat /\ g[1] \in Nat
        <4>1. i \in 0 .. Len(q) /\ 1 \in 0 .. Len(q)
          BY <1>2, <1>3
        <4> QED BY <1>10, <4>1
      <3> HIDE DEF h
      <3> QED BY <3>3, <3>4, <3>5, <3>6
    <2> HIDE DEF h
    <2> QED BY <1>4, <2>1, <2>2, <2>3 DEF Added
  <1>13. Fits(p, d)
    BY <1>9, <1>12, AddedFits
  <1>14. Times(p, d, b + del[n]) = Without(Times(q, del, b), n)
    <2> DEFINE T == Times(q, del, b)
               U == Times(p, d, b + del[n])
    <2>1. DOMAIN T = Range(q) /\ \A i \in 1 .. Len(q) : T[q[i]] = b + g[i]
      BY <1>1, TimesAre
    <2>2. DOMAIN U = Range(p) /\ \A i \in 1 .. Len(q) - 1 : U[p[i]] = (b + del[n]) + h[i]
      <3> HIDE DEF h
      <3>1. DOMAIN U = Range(p) /\ \A i \in 1 .. Len(p) : U[p[i]] = (b + del[n]) + h[i]
        BY <1>9, <1>12, TimesAre
      <3> QED BY <1>4, <3>1
    <2>3. U = [y \in Range(p) |-> U[y]]
      BY DEF Times
    <2> HIDE DEF T, U
    <2>4. ASSUME NEW y \in Range(p) PROVE U[y] = T[y]
      <3>1. PICK i \in 1 .. Len(q) - 1 : y = p[i]
        <4>1. DOMAIN p = 1 .. Len(q) - 1
          BY <1>4, LenProperties
        <4> QED BY <4>1 DEF Range
      <3>2. PICK j \in 1 .. Len(q) : j = i + 1
        BY <1>3
      <3>3. y = q[j] /\ h[i] = g[j] - g[1]
        <4>1. i \in 0 .. Len(q) - 1
          BY <1>3
        <4> QED BY <1>5, <3>1, <3>2, <4>1
      <3>4. U[y] = (b + del[n]) + h[i]
        BY <2>2, <3>1, Zenon
      <3>5. T[y] = b + g[j]
        BY <2>1, <3>3
      <3>6. g[j] \in Nat /\ g[1] \in Nat
        <4>1. j \in 0 .. Len(q) /\ 1 \in 0 .. Len(q)
          BY <1>2, <1>3
        <4> QED BY <1>10, <4>1
      <3> HIDE DEF h
      <3> QED BY <1>2, <3>3, <3>4, <3>5, <3>6
    <2>5. Without(T, n) = [y \in Range(p) |-> T[y]]
      BY <1>6, <2>1 DEF Without, Restrict
    <2>6. U = Without(T, n)
      BY <2>3, <2>4, <2>5
    <2> QED BY <2>6 DEF T, U
  <1> QED BY <1>6, <1>9, <1>13, <1>14 DEF d, p, n

\* Taking from the head what it has waited moves no due time.
LEMMA HeadWaits ==
  ASSUME NEW q, NEW del, List(q, del), Fits(q, del), q # <<>>, NEW b \in Int,
         NEW e \in Nat, e <= del[Head(q)]
  PROVE  /\ List(q, [del EXCEPT ![Head(q)] = @ - e])
         /\ Fits(q, [del EXCEPT ![Head(q)] = @ - e])
         /\ Times(q, [del EXCEPT ![Head(q)] = @ - e], b + e) = Times(q, del, b)
PROOF
  <1> DEFINE g == sums(q, del)
             n == Head(q)
             d == [del EXCEPT ![n] = @ - e]
             h == [i \in 0 .. Len(q) |-> IF i = 0 THEN 0 ELSE g[i] - e]
  <1>1. Added(q, del, g)
    BY FitsAdded
  <1>2. n \in Range(q) /\ n = q[1] /\ 1 \in 1 .. Len(q) /\ g[1] = del[n]
    BY HeadIsFirst
  <1>3. q \in Seq(Node) /\ IsInjective(q) /\ Len(q) \in Nat /\ del \in [Range(q) -> Tick]
    BY ListFacts DEF List
  <1>4. del[n] \in Tick /\ del[n] - e \in Tick
    BY <1>2, <1>3, TickFacts
  <1>5. d \in [Range(q) -> Tick]
    BY <1>3, <1>4
  <1>6. d[n] = del[n] - e /\ \A m \in Range(q) : m # n => d[m] = del[m]
    BY <1>2, <1>3
  <1>7. e <= g[1]
    BY <1>2
  <1> HIDE DEF g, n, d
  <1>8. List(q, d)
    BY <1>3, <1>5 DEF List
  <1>9. \A i \in 0 .. Len(q) : g[i] \in Nat /\ g[i] < Ticks
    BY <1>1, TickFacts DEF Added
  <1>10. ASSUME NEW i \in 1 .. Len(q) PROVE g[i] - e \in Tick
    <2>1. i \in 0 .. Len(q) /\ 1 \in 0 .. Len(q) /\ 1 <= i
      BY <1>2, <1>3
    <2>2. g[1] <= g[i]
      BY <1>1, <2>1, AddedOrdered
    <2>3. g[1] \in Nat /\ g[i] \in Nat /\ g[i] < Ticks
      BY <1>9, <2>1
    <2> QED BY <1>7, <2>2, <2>3, TickFacts
  <1>11. Added(q, d, h)
    <2>1. h \in [0 .. Len(q) -> Tick]
      <3> SUFFICES ASSUME NEW i \in 0 .. Len(q) PROVE h[i] \in Tick
        OBVIOUS
      <3>1. i = 0 \/ i \in 1 .. Len(q)
        BY <1>3
      <3>2. 0 \in Tick
        BY TickFacts
      <3> QED BY <1>10, <3>1, <3>2
    <2>2. h[0] = 0
      BY <1>3
    <2>3. ASSUME NEW i \in 1 .. Len(q) PROVE h[i] = h[i - 1] + d[q[i]]
      <3>1. i \in 0 .. Len(q) /\ i - 1 \in 0 .. Len(q) /\ i # 0
        BY <1>3
      <3>2. h[i] = g[i] - e /\ h[i - 1] = IF i = 1 THEN 0 ELSE g[i - 1] - e
        BY <1>3, <3>1
      <3>3. g[i] = g[i - 1] + del[q[i]] /\ del[q[i]] \in Nat /\ g[0] = 0
        <4>1. del[q[i]] \in Nat
          BY ListFacts, TickFacts
        <4> QED BY <1>1, <4>1 DEF Added
      <3>4. d[q[i]] = IF i = 1 THEN del[q[i]] - e ELSE del[q[i]]
        <4>1. i # 1 => q[i] # n
          BY <1>2, ListFacts
        <4>2. q[i] \in Range(q)
          BY ListFacts
        <4> QED BY <1>2, <1>6, <4>1, <4>2
      <3>5. g[i] \in Nat /\ g[i - 1] \in Nat
        BY <1>9, <3>1
      <3> HIDE DEF h
      <3>6. CASE i = 1
        <4>1. i - 1 = 0
          BY <3>6
        <4> QED BY <3>2, <3>3, <3>4, <3>5, <3>6, <4>1
      <3>7. CASE i # 1
        BY <3>2, <3>3, <3>4, <3>5, <3>7
      <3> QED BY <3>6, <3>7
    <2> HIDE DEF h
    <2> QED BY <2>1, <2>2, <2>3 DEF Added
  <1>12. Fits(q, d)
    BY <1>8, <1>11, AddedFits
  <1>13. Times(q, d, b + e) = Times(q, del, b)
    <2> DEFINE T == Times(q, del, b)
               U == Times(q, d, b + e)
    <2>1. \A i \in 1 .. Len(q) : T[q[i]] = b + g[i]
      BY <1>1, TimesAre
    <2>2. \A i \in 1 .. Len(q) : U[q[i]] = (b + e) + h[i]
      <3> HIDE DEF h
      <3> QED BY <1>8, <1>11, TimesAre
    <2>3. U = [y \in Range(q) |-> U[y]] /\ T = [y \in Range(q) |-> T[y]]
      BY DEF Times
    <2> HIDE DEF T, U
    <2>4. ASSUME NEW y \in Range(q) PROVE U[y] = T[y]
      <3>1. PICK i \in 1 .. Len(q) : y = q[i]
        BY ListFacts
      <3>2. i \in 0 .. Len(q) /\ i # 0
        BY <1>3
      <3>3. h[i] = g[i] - e
        BY <3>2
      <3>4. U[y] = (b + e) + h[i] /\ T[y] = b + g[i]
        BY <2>1, <2>2, <3>1, Zenon
      <3>5. g[i] \in Nat
        BY <1>9, <3>2
      <3> HIDE DEF h
      <3> QED BY <3>3, <3>4, <3>5
    <2>5. U = T
      BY <2>3, <2>4
    <2> QED BY <2>5 DEF T, U
  <1> QED BY <1>8, <1>12, <1>13 DEF d, n

-----------------------------------------------------------------------------
(* The due times of a list of pending timers, next to the times they were   *)
(* asked for.                                                               *)

\* A timer due at T[n] was asked for a[n], up to MaxGap later.
Early(T, a) ==
  /\ T \in [DOMAIN T -> Nat] /\ a \in [DOMAIN T -> Nat]
  /\ \A n \in DOMAIN T : T[n] <= a[n] /\ a[n] <= T[n] + MaxGap

LEMMA EarlyWith ==
  ASSUME NEW T, NEW a, Early(T, a), NEW n, NEW b \in Nat, NEW c \in Nat, NEW key \in Nat,
         b <= c, c <= b + MaxGap
  PROVE  Early(With(T, n, b + key), With(a, n, c + key))
PROOF
  <1> DEFINE U == With(T, n, b + key)
             e == With(a, n, c + key)
  <1>1. /\ T \in [DOMAIN T -> Nat] /\ a \in [DOMAIN T -> Nat] /\ DOMAIN a = DOMAIN T
        /\ \A m \in DOMAIN T : T[m] \in Nat /\ a[m] \in Nat
        /\ \A m \in DOMAIN T : T[m] <= a[m] /\ a[m] <= T[m] + MaxGap
    BY DEF Early
  <1>2. DOMAIN U = DOMAIN T \cup {n} /\ DOMAIN e = DOMAIN T \cup {n}
    BY <1>1 DEF With
  <1>3. \A m \in DOMAIN T \cup {n} : /\ U[m] = IF m = n THEN b + key ELSE T[m]
                                     /\ e[m] = IF m = n THEN c + key ELSE a[m]
    BY <1>1 DEF With
  <1>4. U = [m \in DOMAIN T \cup {n} |-> U[m]] /\ e = [m \in DOMAIN T \cup {n} |-> e[m]]
    BY <1>1 DEF With
  <1> HIDE DEF U, e
  <1>5. ASSUME NEW m \in DOMAIN T \cup {n}
        PROVE  U[m] \in Nat /\ e[m] \in Nat /\ U[m] <= e[m] /\ e[m] <= U[m] + MaxGap
    BY <1>1, <1>3, TickFacts
  <1>6. U \in [DOMAIN U -> Nat] /\ e \in [DOMAIN U -> Nat]
    BY <1>2, <1>4, <1>5
  <1>7. Early(U, e)
    BY <1>2, <1>5, <1>6 DEF Early
  <1> QED BY <1>7 DEF U, e

LEMMA EarlyWithout ==
  ASSUME NEW T, NEW a, Early(T, a), NEW n
  PROVE  Early(Without(T, n), Without(a, n))
PROOF
  <1> DEFINE U == Without(T, n)
             e == Without(a, n)
  <1>1. /\ T \in [DOMAIN T -> Nat] /\ a \in [DOMAIN T -> Nat] /\ DOMAIN a = DOMAIN T
        /\ \A m \in DOMAIN T : T[m] \in Nat /\ a[m] \in Nat
        /\ \A m \in DOMAIN T : T[m] <= a[m] /\ a[m] <= T[m] + MaxGap
    BY DEF Early
  <1>2. /\ U = [m \in DOMAIN T \ {n} |-> T[m]]
        /\ e = [m \in DOMAIN T \ {n} |-> a[m]]
    BY <1>1 DEF Without, Restrict
  <1> HIDE DEF U, e
  <1>3. Early(U, e)
    BY <1>1, <1>2 DEF Early
  <1> QED BY <1>3 DEF U, e

\* A list of timers whose deltas add up to their due times, from b on.
Pending(q, del, b, a) == List(q, del) /\ Fits(q, del) /\ Early(Times(q, del, b), a)

LEMMA TimesDomain ==
  ASSUME NEW q, NEW del, NEW b
  PROVE  DOMAIN Times(q, del, b) = Range(q)
PROOF BY DEF Times

LEMMA PendingInsert ==
  ASSUME NEW q, NEW del, NEW b \in Nat, NEW a, Pending(q, del, b, a),
         NEW key \in Tick, NEW n \in Node, n \notin Range(q),
         NEW c \in Nat, b <= c, c <= b + MaxGap
  PROVE  /\ Pending(insert(q, del, key, n).queue, insert(q, del, key, n).delta,
                    b, With(a, n, c + key))
         /\ Times(insert(q, del, key, n).queue, insert(q, del, key, n).delta, b)
              = With(Times(q, del, b), n, b + key)
PROOF
  <1>1. List(q, del) /\ Fits(q, del) /\ Early(Times(q, del, b), a)
    BY DEF Pending
  <1>2. /\ List(insert(q, del, key, n).queue, insert(q, del, key, n).delta)
        /\ Fits(insert(q, del, key, n).queue, insert(q, del, key, n).delta)
        /\ Times(insert(q, del, key, n).queue, insert(q, del, key, n).delta, b)
              = With(Times(q, del, b), n, b + key)
    BY <1>1, InsertFacts
  <1>3. key \in Nat
    BY TickFacts
  <1>4. Early(With(Times(q, del, b), n, b + key), With(a, n, c + key))
    BY <1>1, <1>3, EarlyWith
  <1> QED BY <1>2, <1>4, Zenon DEF Pending

LEMMA PendingErase ==
  ASSUME NEW q, NEW del, NEW b \in Nat, NEW a, Pending(q, del, b, a), NEW n \in Range(q)
  PROVE  /\ Pending(erase(q, del, n).queue, erase(q, del, n).delta, b, Without(a, n))
         /\ Times(erase(q, del, n).queue, erase(q, del, n).delta, b)
              = Without(Times(q, del, b), n)
PROOF
  <1>1. List(q, del) /\ Fits(q, del) /\ Early(Times(q, del, b), a)
    BY DEF Pending
  <1>2. /\ List(erase(q, del, n).queue, erase(q, del, n).delta)
        /\ Fits(erase(q, del, n).queue, erase(q, del, n).delta)
        /\ Times(erase(q, del, n).queue, erase(q, del, n).delta, b)
              = Without(Times(q, del, b), n)
    BY <1>1, EraseFacts
  <1>3. Early(Without(Times(q, del, b), n), Without(a, n))
    BY <1>1, EarlyWithout
  <1> QED BY <1>2, <1>3, Zenon DEF Pending

\* The head, which is due first, leaves; the list counts from its due time then.
LEMMA PendingFired ==
  ASSUME NEW q, NEW del, NEW b \in Nat, NEW a, Pending(q, del, b, a), q # <<>>
  PROVE  /\ Head(q) \in Range(q) /\ del[Head(q)] \in Tick
         /\ Times(q, del, b)[Head(q)] = b + del[Head(q)]
         /\ \A n \in Range(q) : Times(q, del, b)[Head(q)] <= Times(q, del, b)[n]
         /\ Range(Tail(q)) = Range(q) \ {Head(q)}
         /\ Pending(Tail(q), Without(del, Head(q)), b + del[Head(q)], Without(a, Head(q)))
         /\ Times(Tail(q), Without(del, Head(q)), b + del[Head(q)])
              = Without(Times(q, del, b), Head(q))
PROOF
  <1>1. List(q, del) /\ Fits(q, del) /\ Early(Times(q, del, b), a) /\ b \in Int
    BY DEF Pending
  <1>2. /\ Head(q) \in Range(q)
        /\ Times(q, del, b)[Head(q)] = b + del[Head(q)]
        /\ \A n \in Range(q) : Times(q, del, b)[Head(q)] <= Times(q, del, b)[n]
    BY <1>1, HeadIsFirst
  <1>3. del[Head(q)] \in Tick
    BY <1>1, <1>2 DEF List
  <1>4. /\ List(Tail(q), Without(del, Head(q)))
        /\ Fits(Tail(q), Without(del, Head(q)))
        /\ Range(Tail(q)) = Range(q) \ {Head(q)}
        /\ Times(Tail(q), Without(del, Head(q)), b + del[Head(q)])
              = Without(Times(q, del, b), Head(q))
    BY <1>1, HeadFired
  <1>5. Early(Without(Times(q, del, b), Head(q)), Without(a, Head(q)))
    BY <1>1, EarlyWithout
  <1>6. Pending(Tail(q), Without(del, Head(q)), b + del[Head(q)], Without(a, Head(q)))
    BY <1>4, <1>5, Zenon DEF Pending
  <1> QED BY <1>2, <1>3, <1>4, <1>6

-----------------------------------------------------------------------------
(* The inductive invariant, and its steps.                                  *)

Clocks ==
  /\ prev \in Tick /\ elapsed \in Tick /\ running \in BOOLEAN
  /\ clock \in 0 .. MaxTime /\ prevTime \in 0 .. clock /\ until \in prevTime .. clock
  /\ ClockRead

Inv == Clocks /\ Pending(queue, delta, basis, asked)

LEMMA DueIsTimes ==
  Due = Times(queue, delta, basis)
PROOF BY DEF Due, DueAt, Times

LEMMA DueIsTimesNext ==
  Due' = Times(queue', delta', basis')
PROOF BY DEF Due, DueAt, Times

\* Service time lies between the last run and the true time.
LEMMA BasisFacts ==
  ASSUME Clocks
  PROVE  /\ basis \in Nat /\ clock \in Nat
         /\ basis <= clock /\ clock <= basis + MaxGap
         /\ running => basis + elapsed = until /\ elapsed \in Nat
PROOF
  <1>1. CASE running
    BY <1>1, TickFacts DEF Clocks, ClockRead, basis
  <1>2. CASE ~running
    BY <1>2, TickFacts DEF Clocks, ClockRead, basis
  <1> QED BY <1>1, <1>2

LEMMA InvImplies ==
  ASSUME Inv
  PROVE  IInv
PROOF
  <1>1. List(queue, delta) /\ Fits(queue, delta) /\ Early(Due, asked) /\ DOMAIN Due = Range(queue)
    BY DueIsTimes, TimesDomain DEF Inv, Pending
  <1>2. TypeOK
    BY <1>1 DEF Inv, Clocks, List, Early, TypeOK
  <1>3. NoOverflow
    BY <1>1 DEF Fits, NoOverflow
  <1>4. EarlyByAtMostTheGap
    BY <1>1 DEF Early, EarlyByAtMostTheGap
  <1> QED BY <1>2, <1>3, <1>4 DEF Inv, Clocks, IInv

LEMMA InitHolds ==
  ASSUME Init
  PROVE  Inv /\ A!Init
PROOF
  <1>1. queue = <<>> /\ delta = <<>> /\ asked = <<>> /\ basis = 0
    BY DEF Init, basis
  <1>2. Range(queue) = {} /\ Len(queue) = 0 /\ IsInjective(queue) /\ queue \in Seq(Node)
    BY <1>1 DEF Range, IsInjective
  <1>3. \A f : f = <<>> => f = [x \in {} |-> 0]
    OBVIOUS
  <1>4. delta \in [Range(queue) -> Tick] /\ asked \in [Range(queue) -> Nat]
    BY <1>1, <1>2, <1>3
  <1>5. List(queue, delta)
    BY <1>2, <1>4 DEF List
  <1>6. Fits(queue, delta)
    BY <1>2 DEF Fits
  <1>7. DOMAIN Due = {} /\ Due = [x \in {} |-> 0]
    BY <1>2 DEF Due
  <1>8. Early(Due, asked)
    BY <1>2, <1>4, <1>7 DEF Early
  <1>9. Clocks
    <2>1. 0 \in Tick /\ 0 % Ticks = 0
      BY TickFacts, TickReduced
    <2>2. prev = prevTime % Ticks
      BY <2>1, Zenon DEF Init
    <2>3. /\ prev = 0 /\ elapsed = 0 /\ running = FALSE
          /\ clock = 0 /\ prevTime = 0 /\ until = 0
      BY DEF Init
    <2>4. clock <= prevTime + MaxGap /\ elapsed <= until - prevTime
      BY <2>3, TickFacts
    <2>5. clock \in 0 .. MaxTime /\ prevTime \in 0 .. clock /\ until \in prevTime .. clock
      BY <2>3, TickFacts
    <2> QED BY <2>1, <2>2, <2>3, <2>4, <2>5 DEF Clocks, ClockRead
  <1>10. Due = <<>>
    BY <1>3, <1>7
  <1> QED BY <1>1, <1>5, <1>6, <1>8, <1>9, <1>10, DueIsTimes DEF Inv, Pending, A!Init

\* submit: the timer is due its duration after the time the service has got to.
LEMMA Submitted ==
  ASSUME Inv, NEW n \in Node, NEW d \in Tick, Submit(n, d)
  PROVE  Inv' /\ A!Submit(n, d)
PROOF
  <1>1. /\ ~running /\ n \notin Range(queue)
        /\ queue' = insert(queue, delta, d, n).queue
        /\ delta' = insert(queue, delta, d, n).delta
        /\ asked' = With(asked, n, clock + d)
        /\ UNCHANGED <<prev, running, elapsed, clock, prevTime, until>>
    BY DEF Submit, Queued, Takes
  <1>2. Clocks /\ Pending(queue, delta, basis, asked)
    BY DEF Inv
  <1>3. Clocks' /\ basis' = basis
    BY <1>1, <1>2 DEF Clocks, ClockRead, basis
  <1>4. basis \in Nat /\ clock \in Nat /\ basis <= clock /\ clock <= basis + MaxGap
    BY <1>2, BasisFacts
  <1>5. /\ Pending(queue', delta', basis, asked')
        /\ Times(queue', delta', basis) = With(Times(queue, delta, basis), n, basis + d)
    <2>1. /\ Pending(insert(queue, delta, d, n).queue, insert(queue, delta, d, n).delta,
                     basis, With(asked, n, clock + d))
          /\ Times(insert(queue, delta, d, n).queue, insert(queue, delta, d, n).delta, basis)
               = With(Times(queue, delta, basis), n, basis + d)
      BY <1>1, <1>2, <1>4, PendingInsert
    <2> QED BY <2>1, <1>1, Zenon
  <1>6. Due = Times(queue, delta, basis) /\ Due' = Times(queue', delta', basis')
    BY DueIsTimes, DueIsTimesNext
  <1>7. Due' = With(Due, n, basis + d) /\ DOMAIN Due = Range(queue)
    BY <1>3, <1>5, <1>6, TimesDomain
  <1>8. A!Submit(n, d)
    BY <1>1, <1>3, <1>7 DEF A!Submit, A!Pending, A!With, With
  <1>9. Inv'
    BY <1>3, <1>5 DEF Inv
  <1> QED BY <1>8, <1>9

\* cancel: no other timer moves.
LEMMA Cancelled ==
  ASSUME Inv, NEW n \in Node, Cancel(n)
  PROVE  Inv' /\ A!Cancel(n)
PROOF
  <1>1. /\ ~running /\ n \in Range(queue)
        /\ queue' = erase(queue, delta, n).queue
        /\ delta' = erase(queue, delta, n).delta
        /\ asked' = Without(asked, n)
        /\ UNCHANGED <<prev, running, elapsed, clock, prevTime, until>>
    BY DEF Cancel, Queued, Takes
  <1>2. Clocks /\ Pending(queue, delta, basis, asked)
    BY DEF Inv
  <1>3. Clocks' /\ basis' = basis
    BY <1>1, <1>2 DEF Clocks, ClockRead, basis
  <1>4. basis \in Nat
    BY <1>2, BasisFacts
  <1>5. /\ Pending(queue', delta', basis, asked')
        /\ Times(queue', delta', basis) = Without(Times(queue, delta, basis), n)
    <2>1. /\ Pending(erase(queue, delta, n).queue, erase(queue, delta, n).delta,
                     basis, Without(asked, n))
          /\ Times(erase(queue, delta, n).queue, erase(queue, delta, n).delta, basis)
               = Without(Times(queue, delta, basis), n)
      BY <1>1, <1>2, <1>4, PendingErase
    <2> QED BY <2>1, <1>1, Zenon
  <1>6. Due = Times(queue, delta, basis) /\ Due' = Times(queue', delta', basis')
    BY DueIsTimes, DueIsTimesNext
  <1>7. Due' = Without(Due, n) /\ DOMAIN Due = Range(queue)
    BY <1>3, <1>5, <1>6, TimesDomain
  <1>8. A!Cancel(n)
    BY <1>1, <1>3, <1>7 DEF A!Cancel, A!Pending, A!Without, Without, Restrict, A!Restrict
  <1>9. Inv'
    BY <1>3, <1>5 DEF Inv
  <1> QED BY <1>8, <1>9

\* A run that starts, and time that passes, change no due time.
LEMMA Begun ==
  ASSUME Inv, RunBegin
  PROVE  Inv' /\ UNCHANGED <<Due, basis>>
PROOF
  <1>1. /\ ~running /\ running' = TRUE /\ until' = clock
        /\ elapsed' = ((clock % Ticks) - prev) % Ticks
        /\ UNCHANGED <<queue, delta, prev, clock, prevTime, asked>>
    BY DEF RunBegin, elapsed_since, now
  <1>2. Clocks /\ Pending(queue, delta, basis, asked)
    BY DEF Inv
  <1>3. /\ clock \in 0 .. MaxTime /\ prevTime \in 0 .. clock /\ prev = prevTime % Ticks
        /\ clock <= prevTime + MaxGap /\ prev \in Tick
    BY <1>2, Zenon DEF Clocks, ClockRead
  <1>4. elapsed' = clock - prevTime
    <2>1. clock - prevTime \in 0 .. Ticks - 1 /\ clock \in Int /\ prevTime \in Int
      BY <1>3, TickFacts
    <2>2. ((clock % Ticks) - (prevTime % Ticks)) % Ticks = clock - prevTime
      BY <2>1, TickFacts, ReadingsApart
    <2> QED BY <1>1, <1>3, <2>2, Zenon
  <1>5. Clocks'
    <2>1. elapsed' \in Tick /\ elapsed' <= until' - prevTime'
      BY <1>1, <1>3, <1>4, TickFacts
    <2>2. /\ prev' = prevTime' % Ticks /\ prev' \in Tick /\ running' \in BOOLEAN
          /\ clock' \in 0 .. MaxTime /\ prevTime' \in 0 .. clock'
      BY <1>1, <1>3, Zenon
    <2>3. until' \in prevTime' .. clock' /\ clock' <= prevTime' + MaxGap
      BY <1>1, <1>3
    <2> QED BY <2>1, <2>2, <2>3 DEF Clocks, ClockRead
  <1>6. basis' = basis
    BY <1>1, <1>3, <1>4 DEF basis
  <1>7. Due' = Due
    BY <1>1, <1>6, DueIsTimes, DueIsTimesNext, Zenon
  <1>8. Pending(queue', delta', basis', asked')
    BY <1>1, <1>2, <1>6, Zenon
  <1> QED BY <1>5, <1>6, <1>7, <1>8 DEF Inv

LEMMA Passed ==
  ASSUME Inv, TimePasses
  PROVE  Inv' /\ UNCHANGED <<Due, basis>>
PROOF
  <1>1. /\ clock < MaxTime /\ clock < prevTime + MaxGap /\ clock' = clock + 1
        /\ UNCHANGED <<queue, delta, prev, running, elapsed, prevTime, until, asked>>
    BY DEF TimePasses, historyVars
  <1>2. Clocks /\ Pending(queue, delta, basis, asked)
    BY DEF Inv
  <1>3. Clocks'
    <2>1. /\ clock \in 0 .. MaxTime /\ prevTime \in 0 .. clock /\ until \in prevTime .. clock
          /\ prev = prevTime % Ticks
      BY <1>2 DEF Clocks, ClockRead
    <2>2. /\ clock' \in 0 .. MaxTime /\ prevTime' \in 0 .. clock'
          /\ until' \in prevTime' .. clock' /\ clock' <= prevTime' + MaxGap
      BY <1>1, <2>1, TickFacts
    <2>3. prev' = prevTime' % Ticks /\ prev' \in Tick /\ elapsed' \in Tick /\ running' \in BOOLEAN
      BY <1>1, <1>2, <2>1, Zenon DEF Clocks
    <2>4. elapsed' <= until' - prevTime'
      BY <1>1, <1>2 DEF Clocks, ClockRead
    <2> QED BY <2>2, <2>3, <2>4 DEF Clocks, ClockRead
  <1>4. basis' = basis
    BY <1>1 DEF basis
  <1>5. Due' = Due
    BY <1>1, <1>4, DueIsTimes, DueIsTimesNext, Zenon
  <1>6. Pending(queue', delta', basis', asked')
    BY <1>1, <1>2, <1>4, Zenon
  <1> QED BY <1>3, <1>4, <1>5, <1>6 DEF Inv

\* A timer fires when it is due and no other is due before it; one set by its
\* expiry counts from that time.
LEMMA Fired ==
  ASSUME Inv, Fire
  PROVE  Inv' /\ A!Expire(Head(queue)) /\ Head(queue) \in Node
PROOF
  <1> DEFINE h == Head(queue)
             rest == Tail(queue)
             others == Without(delta, h)
             askedOthers == Without(asked, h)
             b == basis + delta[h]
  <1>1. /\ running /\ queue # <<>> /\ delta[h] <= elapsed
        /\ elapsed' = elapsed - delta[h]
        /\ UNCHANGED <<prev, running, clock, prevTime, until>>
    BY DEF Fire, expired, left
  <1>2. \/ queue' = rest /\ delta' = others /\ asked' = askedOthers
        \/ \E m \in Node \ Range(rest), d \in Rearm :
             /\ queue' = insert(rest, others, d, m).queue
             /\ delta' = insert(rest, others, d, m).delta
             /\ asked' = With(askedOthers, m, clock + d)
        \/ \E m \in Range(rest) :
             /\ queue' = erase(rest, others, m).queue
             /\ delta' = erase(rest, others, m).delta
             /\ asked' = Without(askedOthers, m)
    BY DEF Fire, on_expire, Takes
  <1>3. Clocks /\ Pending(queue, delta, basis, asked)
    BY DEF Inv
  <1>4. /\ basis \in Nat /\ clock \in Nat /\ basis <= clock /\ clock <= basis + MaxGap
        /\ basis + elapsed = until /\ elapsed \in Nat
    BY <1>1, <1>3, BasisFacts
  <1>5. /\ h \in Range(queue) /\ delta[h] \in Tick
        /\ Times(queue, delta, basis)[h] = b
        /\ \A n \in Range(queue) : Times(queue, delta, basis)[h] <= Times(queue, delta, basis)[n]
        /\ Range(rest) = Range(queue) \ {h}
        /\ Pending(rest, others, b, askedOthers)
        /\ Times(rest, others, b) = Without(Times(queue, delta, basis), h)
    BY <1>1, <1>3, <1>4, PendingFired
  <1>6. h \in Node
    BY <1>3, <1>5, ListFacts DEF Pending
  <1>7. DOMAIN Due = Range(queue) /\ Due = Times(queue, delta, basis)
        /\ Due' = Times(queue', delta', basis')
    BY DueIsTimes, DueIsTimesNext, TimesDomain
  <1> HIDE DEF h
  <1>8. Clocks'
    <2>1. elapsed' \in Tick /\ elapsed' <= elapsed
      BY <1>1, <1>3, <1>5, TickFacts DEF Clocks
    <2>2. /\ prev' = prevTime' % Ticks /\ prev' \in Tick /\ running' \in BOOLEAN
          /\ clock' \in 0 .. MaxTime /\ prevTime' \in 0 .. clock' /\ until' \in prevTime' .. clock'
          /\ clock' <= prevTime' + MaxGap
      BY <1>1, <1>3, Zenon DEF Clocks, ClockRead
    <2>3. elapsed' <= until' - prevTime'
      <3>1. elapsed <= until - prevTime /\ until \in Int /\ prevTime \in Int
        BY <1>3 DEF Clocks, ClockRead
      <3>2. elapsed' \in Int /\ elapsed \in Int
        BY <1>4, <2>1, TickFacts
      <3> QED BY <1>1, <2>1, <3>1, <3>2
    <2> QED BY <2>1, <2>2, <2>3 DEF Clocks, ClockRead
  <1>9. basis' = b
    BY <1>1, <1>3, <1>4, <1>5, TickFacts DEF basis, Clocks
  <1>10. b \in Nat /\ b <= clock /\ clock <= b + MaxGap
    BY <1>1, <1>3, <1>4, <1>5, TickFacts DEF Clocks
  <1> HIDE DEF b, rest, others, askedOthers
  <1>11. Due[h] = b /\ h \in DOMAIN Due /\ \A n \in DOMAIN Due : Due[h] <= Due[n]
    BY <1>5, <1>7
  <1>12. DOMAIN A!Without(Due, h) = Range(rest) /\ Times(rest, others, b) = A!Without(Due, h)
    BY <1>5, <1>7, TimesDomain DEF Without, A!Without, Restrict, A!Restrict
  <1>13. CASE queue' = rest /\ delta' = others /\ asked' = askedOthers
    <2>1. Due' = A!Without(Due, h)
      BY <1>7, <1>9, <1>12, <1>13, Zenon
    <2>2. A!Expire(h)
      BY <1>9, <1>11, <2>1 DEF A!Expire, A!Pending
    <2>3. Pending(queue', delta', basis', asked')
      BY <1>5, <1>9, <1>13, Zenon
    <2> QED BY <1>6, <1>8, <2>2, <2>3 DEF Inv, h
  <1>14. ASSUME NEW m \in Node \ Range(rest), NEW d \in Rearm,
                queue' = insert(rest, others, d, m).queue,
                delta' = insert(rest, others, d, m).delta,
                asked' = With(askedOthers, m, clock + d)
         PROVE  Inv' /\ A!Expire(h)
    <2>1. d \in Tick
      BY TimerAssumption DEF TimerAssumption, Tick
    <2>2. /\ Pending(insert(rest, others, d, m).queue, insert(rest, others, d, m).delta,
                     b, With(askedOthers, m, clock + d))
          /\ Times(insert(rest, others, d, m).queue, insert(rest, others, d, m).delta, b)
               = With(Times(rest, others, b), m, b + d)
      BY <1>4, <1>5, <1>10, <2>1, PendingInsert
    <2>3. Due' = A!With(A!Without(Due, h), m, Due[h] + d)
      <3>1. Due' = With(A!Without(Due, h), m, Due[h] + d)
        BY <1>7, <1>9, <1>11, <1>12, <1>14, <2>2, Zenon
      <3> QED BY <3>1 DEF With, A!With
    <2>4. A!Expire(h)
      BY <1>9, <1>11, <1>12, <2>3 DEF A!Expire, A!Pending
    <2>5. Pending(queue', delta', basis', asked')
      BY <1>9, <1>14, <2>2, Zenon
    <2> QED BY <1>8, <2>4, <2>5 DEF Inv
  <1>15. ASSUME NEW m \in Range(rest),
                queue' = erase(rest, others, m).queue,
                delta' = erase(rest, others, m).delta,
                asked' = Without(askedOthers, m)
         PROVE  Inv' /\ A!Expire(h)
    <2>1. /\ Pending(erase(rest, others, m).queue, erase(rest, others, m).delta,
                     b, Without(askedOthers, m))
          /\ Times(erase(rest, others, m).queue, erase(rest, others, m).delta, b)
               = Without(Times(rest, others, b), m)
      BY <1>5, <1>10, PendingErase
    <2>2. Due' = A!Without(A!Without(Due, h), m)
      <3>1. Due' = Without(A!Without(Due, h), m)
        BY <1>7, <1>9, <1>12, <1>15, <2>1, Zenon
      <3> QED BY <3>1 DEF Without, A!Without, Restrict, A!Restrict
    <2>3. A!Expire(h)
      BY <1>9, <1>11, <1>12, <2>2 DEF A!Expire, A!Pending
    <2>4. Pending(queue', delta', basis', asked')
      BY <1>9, <1>15, <2>1, Zenon
    <2> QED BY <1>8, <2>3, <2>4 DEF Inv
  <1> QED BY <1>2, <1>6, <1>13, <1>14, <1>15 DEF h

\* The end of a run: every timer left is due later, and service time goes on to
\* the time the run read.
LEMMA Ended ==
  ASSUME Inv, RunEnd
  PROVE  /\ Inv' /\ A!Pass(until) /\ until \in basis .. basis'
         /\ queue' = queue /\ \A n \in Range(queue) : asked[n] > until
PROOF
  <1>1. /\ running /\ ~(queue # <<>> /\ delta[Head(queue)] <= elapsed)
        /\ delta' = rest_of_elapsed /\ prev' = until % Ticks /\ prevTime' = until
        /\ running' = FALSE /\ elapsed' = 0
        /\ UNCHANGED <<queue, clock, until, asked>>
    BY DEF RunEnd, expired
  <1>2. Clocks /\ Pending(queue, delta, basis, asked)
    BY DEF Inv
  <1>3. /\ basis \in Nat /\ clock \in Nat /\ basis <= clock /\ clock <= basis + MaxGap
        /\ basis + elapsed = until /\ elapsed \in Nat
    BY <1>1, <1>2, BasisFacts
  <1>4. basis' = until /\ until \in basis .. basis'
    BY <1>1, <1>3 DEF basis
  <1>5. List(queue, delta) /\ Fits(queue, delta) /\ Early(Times(queue, delta, basis), asked)
    BY <1>2 DEF Pending
  <1>6. DOMAIN Due = Range(queue) /\ Due = Times(queue, delta, basis)
        /\ Due' = Times(queue', delta', basis')
    BY DueIsTimes, DueIsTimesNext, TimesDomain
  <1>7. Early(Due, asked)
    BY <1>5, <1>6
  <1>8. /\ List(queue, delta') /\ Fits(queue, delta')
        /\ Times(queue, delta', until) = Times(queue, delta, basis)
        /\ \A n \in Range(queue) : Due[n] > until
    <2>1. CASE queue = <<>>
      <3>1. delta' = delta /\ Range(queue) = {}
        BY <1>1, <2>1 DEF rest_of_elapsed, Range
      <3>2. Times(queue, delta', until) = Times(queue, delta, basis)
        BY <3>1 DEF Times
      <3> QED BY <1>5, <3>1, <3>2
    <2>2. CASE queue # <<>>
      <3>1. /\ Head(queue) \in Range(queue)
            /\ Due[Head(queue)] = basis + delta[Head(queue)]
            /\ \A n \in Range(queue) : Due[Head(queue)] <= Due[n]
        BY <1>3, <1>5, <1>6, <2>2, HeadIsFirst
      <3>2. delta[Head(queue)] \in Nat /\ delta[Head(queue)] > elapsed
        BY <1>1, <1>3, <1>5, <2>2, <3>1, TickFacts DEF List
      <3>3. delta' = [delta EXCEPT ![Head(queue)] = @ - elapsed]
        BY <1>1, <2>2, Zenon DEF rest_of_elapsed
      <3>4. elapsed <= delta[Head(queue)] /\ basis \in Int
        BY <1>3, <3>2
      <3>5. /\ List(queue, delta') /\ Fits(queue, delta')
            /\ Times(queue, delta', basis + elapsed) = Times(queue, delta, basis)
        BY <1>3, <1>5, <2>2, <3>3, <3>4, HeadWaits
      <3>6. \A n \in Range(queue) : Due[n] \in Nat
        BY <1>6, <1>7 DEF Early
      <3>7. Due[Head(queue)] > until
        BY <1>3, <3>1, <3>2
      <3>8. until \in Int
        BY <1>3
      <3>9. \A n \in Range(queue) : Due[n] > until
        BY <3>1, <3>6, <3>7, <3>8
      <3> QED BY <1>3, <3>5, <3>9, Zenon
    <2> QED BY <2>1, <2>2
  <1>9. Due' = Due
    BY <1>1, <1>4, <1>6, <1>8, Zenon
  <1>10. A!Pass(until)
    BY <1>3, <1>4, <1>6, <1>8, <1>9 DEF A!Pass, A!Pending
  <1>11. \A n \in Range(queue) : asked[n] > until
    <2> SUFFICES ASSUME NEW n \in Range(queue) PROVE asked[n] > until
      OBVIOUS
    <2>1. Due[n] \in Nat /\ asked[n] \in Nat /\ Due[n] <= asked[n]
      BY <1>6, <1>7 DEF Early
    <2> QED BY <1>3, <1>8, <2>1
  <1>12. Clocks'
    <2>1. prev' = prevTime' % Ticks
      BY <1>1, Zenon
    <2>2. prev' \in Tick /\ elapsed' \in Tick
      BY <1>1, <1>3, TickFacts
    <2>3. /\ clock \in 0 .. MaxTime /\ prevTime \in 0 .. clock /\ until \in prevTime .. clock
          /\ clock <= prevTime + MaxGap
      BY <1>2, Zenon DEF Clocks, ClockRead
    <2>4. /\ clock' \in 0 .. MaxTime /\ prevTime' \in 0 .. clock' /\ until' \in prevTime' .. clock'
          /\ clock' <= prevTime' + MaxGap /\ elapsed' <= until' - prevTime'
      BY <1>1, <2>3, TickFacts
    <2> QED BY <1>1, <2>1, <2>2, <2>4 DEF Clocks, ClockRead
  <1>13. Pending(queue', delta', basis', asked')
    BY <1>1, <1>4, <1>5, <1>8, Zenon DEF Pending
  <1> QED BY <1>1, <1>4, <1>10, <1>11, <1>12, <1>13 DEF Inv

-----------------------------------------------------------------------------
(* The theorems.                                                            *)

LEMMA NextCases ==
  ASSUME Inv, Next
  PROVE  \/ \E n \in Node, d \in Tick :
              Submit(n, d) /\ d \in Duration \cup {ms_to_ticks(ms) : ms \in Millisecs}
         \/ \E n \in Node : Cancel(n)
         \/ RunBegin \/ Fire \/ RunEnd \/ TimePasses
PROOF
  <1>1. CASE \E n \in Node, d \in Duration : Submit(n, d)
    BY <1>1, TimerAssumption DEF TimerAssumption, Tick
  <1>2. CASE \E n \in Node, ms \in Millisecs : SubmitMs(n, ms)
    <2>1. PICK n \in Node, ms \in Millisecs : SubmitMs(n, ms)
      BY <1>2
    <2>2. ((ms * Freq) \div 1000) \in Int
      <3>1. PICK x \in Int : x = ms * Freq
        BY TimerAssumption DEF TimerAssumption
      <3> QED BY <3>1
    <2>3. PICK y \in Int : y = (ms * Freq) \div 1000
      BY <2>2
    <2>4. y % Ticks \in Tick
      BY TickFacts
    <2>5. ms_to_ticks(ms) \in Tick
      BY <2>3, <2>4, Zenon DEF ms_to_ticks
    <2> QED BY <2>1, <2>5 DEF SubmitMs
  <1>3. CASE \E n \in Node : Cancel(n)
    BY <1>3
  <1>4. CASE Run
    BY <1>4 DEF Run
  <1>5. CASE TimePasses
    BY <1>5
  <1> QED BY <1>1, <1>2, <1>3, <1>4, <1>5 DEF Next

\* What every step of the service keeps, and what it is to an alarm clock.
LEMMA Step ==
  ASSUME Inv, [Next]_vars
  PROVE  /\ Inv'
         /\ [A!Next]_<<Due, basis>>
         /\ running /\ ~running' => \A n \in Range(queue') : asked[n] > until
PROOF
  <1>1. CASE UNCHANGED vars
    <2>1. UNCHANGED <<queue, delta, prev, running, elapsed, clock, prevTime, until, asked>>
      BY <1>1 DEF vars, historyVars
    <2>2. basis' = basis
      BY <2>1 DEF basis
    <2>3. Due' = Due
      BY <2>1, <2>2, DueIsTimes, DueIsTimesNext, Zenon
    <2>4. Clocks'
      BY <2>1, Zenon DEF Inv, Clocks, ClockRead
    <2>5. Pending(queue', delta', basis', asked')
      BY <2>1, <2>2, Zenon DEF Inv
    <2> QED BY <2>1, <2>2, <2>3, <2>4, <2>5 DEF Inv
  <1>2. ASSUME NEW n \in Node, NEW d \in Tick, Submit(n, d),
               d \in Duration \cup {ms_to_ticks(ms) : ms \in Millisecs}
        PROVE  Inv' /\ A!Next /\ running' = running
    <2>1. Inv' /\ A!Submit(n, d)
      BY <1>2, Submitted
    <2>2. running' = running
      BY <1>2 DEF Submit
    <2>3. d \in Duration \cup Rearm \cup {ms_to_ticks(ms) : ms \in Millisecs}
      BY <1>2
    <2> QED BY <2>1, <2>2, <2>3 DEF A!Next
  <1>3. ASSUME NEW n \in Node, Cancel(n)
        PROVE  Inv' /\ A!Next /\ running' = running
    <2>1. Inv' /\ A!Cancel(n)
      BY <1>3, Cancelled
    <2>2. running' = running
      BY <1>3 DEF Cancel
    <2> QED BY <2>1, <2>2 DEF A!Next
  <1>4. CASE RunBegin
    BY <1>4, Begun DEF RunBegin
  <1>5. CASE Fire
    <2>1. Inv' /\ A!Expire(Head(queue)) /\ Head(queue) \in Node
      BY <1>5, Fired
    <2>2. running' = running
      BY <1>5 DEF Fire
    <2> QED BY <2>1, <2>2 DEF A!Next
  <1>6. CASE RunEnd
    <2>1. /\ Inv' /\ A!Pass(until) /\ until \in basis .. basis'
          /\ queue' = queue /\ \A n \in Range(queue) : asked[n] > until
      BY <1>6, Ended
    <2> QED BY <2>1 DEF A!Next
  <1>7. CASE TimePasses
    <2>1. Inv' /\ UNCHANGED <<Due, basis>> /\ running' = running
      BY <1>7, Passed DEF TimePasses
    <2> QED BY <2>1
  <1>8. Next \/ UNCHANGED vars
    OBVIOUS
  <1>9. CASE Next
    BY <1>9, <1>2, <1>3, <1>4, <1>5, <1>6, <1>7, NextCases
  <1> QED BY <1>1, <1>8, <1>9

\* The invariant in the form the steps are proved to keep.
LEMMA AlwaysInv == Spec => []Inv
PROOF
  <1>1. Init => Inv
    BY InitHolds
  <1>2. Inv /\ [Next]_vars => Inv'
    BY Step
  <1> QED BY <1>1, <1>2, PTL DEF Spec

\* The inductive invariant holds in every state of every behaviour.
THEOREM TimerInvariance == Spec => []IInv
PROOF BY InvImplies, AlwaysInv, PTL

\* Every variable keeps its type: no node is in the list twice, and the fields
\* of the nodes stay within the range of the tick counter.
THEOREM TimerTypeCorrect == Spec => []TypeOK
PROOF
  <1>1. IInv => TypeOK
    BY DEF IInv
  <1> QED BY <1>1, TimerInvariance, PTL

\* The deltas of the whole list add up to less than the range of the tick
\* counter: the reductions insert makes on the way never cut anything off.
THEOREM TimerNoOverflow == Spec => []NoOverflow
PROOF
  <1>1. IInv => NoOverflow
    BY DEF IInv
  <1> QED BY <1>1, TimerInvariance, PTL

\* A pending timer is due at the time it was asked for or earlier, and earlier
\* by no more than the longest time between two runs.
THEOREM TimerEarlyByAtMostTheGap == Spec => []EarlyByAtMostTheGap
PROOF
  <1>1. IInv => EarlyByAtMostTheGap
    BY DEF IInv
  <1> QED BY <1>1, TimerInvariance, PTL

\* When a run ends, no timer is left whose time had come when it began.
THEOREM TimerNothingOverdueAfterRun == Spec => NothingOverdueAfterRun
PROOF
  <1>1. Inv /\ [Next]_vars
          => [running /\ ~running' => \A n \in Range(queue') : asked[n] > until]_vars
    BY Step
  <1> QED BY <1>1, AlwaysInv, PTL DEF Spec, NothingOverdueAfterRun

\* Read as due times, the deltas are an alarm clock: timers fire in the order
\* they are due and none is passed over, for every width of the tick counter.
THEOREM TimerIsAlarmClock == Spec => ImplementsAlarmClock
PROOF
  <1>1. Init => A!Init
    BY InitHolds
  <1>2. Inv /\ [Next]_vars => [A!Next]_<<Due, basis>>
    BY Step
  <1>3. A!Spec <=> A!Init /\ [][A!Next]_<<Due, basis>>
    BY DEF A!Spec, A!vars
  <1> QED BY <1>1, <1>2, <1>3, AlwaysInv, PTL DEF Spec, ImplementsAlarmClock
==============================================================================
