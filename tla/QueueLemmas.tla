---------------------------- MODULE QueueLemmas ----------------------------
(***************************************************************************)
(* What the queue operations of the code do to the set of queued elements  *)
(* and to the absence of duplicates, for a queue that is a sequence; and   *)
(* what the library says neither of minima nor of recursion over 0 .. M.   *)
(***************************************************************************)
EXTENDS Integers, Sequences, Functions, SequenceTheorems,
        FiniteSetTheorems, TLAPS

\* push: one more element, and no duplicate unless it was already queued.
LEMMA PushFacts ==
  ASSUME NEW S, NEW q \in Seq(S), NEW e \in S
  PROVE  /\ Append(q, e) \in Seq(S)
         /\ Append(q, e) # <<>>
         /\ Range(Append(q, e)) = Range(q) \cup {e}
         /\ IsInjective(q) /\ e \notin Range(q) => IsInjective(Append(q, e))
PROOF
  <1>1. /\ Append(q, e) \in Seq(S)
        /\ Append(q, e) # <<>>
        /\ Len(Append(q, e)) = Len(q) + 1
        /\ \A i \in 1 .. Len(q) : Append(q, e)[i] = q[i]
        /\ Append(q, e)[Len(q) + 1] = e
    BY AppendProperties
  <1>2. DOMAIN q = 1 .. Len(q) /\ DOMAIN Append(q, e) = 1 .. Len(q) + 1 /\ Len(q) \in Nat
    BY <1>1, LenProperties
  <1>3. Range(Append(q, e)) = Range(q) \cup {e}
    BY <1>1, <1>2 DEF Range
  <1>4. IsInjective(q) /\ e \notin Range(q) => IsInjective(Append(q, e))
    BY <1>1, <1>2 DEF Range, IsInjective
  <1> QED BY <1>1, <1>3, <1>4

\* pop_front: the head leaves the queue, everything else stays.
LEMMA PopFacts ==
  ASSUME NEW S, NEW q \in Seq(S), q # <<>>
  PROVE  /\ Head(q) \in S
         /\ Head(q) \in Range(q)
         /\ Tail(q) \in Seq(S)
         /\ Len(Tail(q)) = Len(q) - 1
         /\ Range(q) = Range(Tail(q)) \cup {Head(q)}
         /\ IsInjective(q) => IsInjective(Tail(q)) /\ Head(q) \notin Range(Tail(q))
PROOF
  <1>1. /\ Head(q) \in S
        /\ Tail(q) \in Seq(S)
        /\ Len(Tail(q)) = Len(q) - 1
        /\ \A i \in 1 .. Len(Tail(q)) : Tail(q)[i] = q[i + 1]
        /\ Head(q) = q[1]
    BY HeadTailProperties
  <1>2. /\ DOMAIN q = 1 .. Len(q) /\ DOMAIN Tail(q) = 1 .. Len(q) - 1
        /\ Len(q) \in Nat /\ Len(q) >= 1
    BY <1>1, LenProperties, EmptySeq
  <1>3. Head(q) \in Range(q)
    BY <1>1, <1>2 DEF Range
  <1>4. Range(q) = Range(Tail(q)) \cup {Head(q)}
    <2>1. ASSUME NEW x \in Range(q) PROVE x \in Range(Tail(q)) \cup {Head(q)}
      <3>1. PICK i \in 1 .. Len(q) : x = q[i]
        BY <1>2 DEF Range
      <3>2. CASE i = 1
        BY <3>1, <3>2, <1>1
      <3>3. CASE i # 1
        <4>1. i - 1 \in DOMAIN Tail(q) /\ Tail(q)[i - 1] = q[i]
          BY <3>3, <1>1, <1>2
        <4> QED BY <4>1, <3>1 DEF Range
      <3> QED BY <3>2, <3>3
    <2>2. ASSUME NEW x \in Range(Tail(q)) PROVE x \in Range(q)
      BY <1>1, <1>2 DEF Range
    <2> QED BY <2>1, <2>2, <1>3
  <1>5. IsInjective(q) => IsInjective(Tail(q)) /\ Head(q) \notin Range(Tail(q))
    BY <1>1, <1>2 DEF Range, IsInjective
  <1> QED BY <1>1, <1>3, <1>4, <1>5

\* Pushing all of one queue behind another.
LEMMA ConcatFacts ==
  ASSUME NEW S, NEW p \in Seq(S), NEW q \in Seq(S)
  PROVE  /\ p \o q \in Seq(S)
         /\ Range(p \o q) = Range(p) \cup Range(q)
         /\ IsInjective(p) /\ IsInjective(q) /\ Range(p) \cap Range(q) = {}
              => IsInjective(p \o q)
PROOF
  <1>1. /\ p \o q \in Seq(S)
        /\ Len(p \o q) = Len(p) + Len(q)
        /\ \A i \in 1 .. Len(p) + Len(q) :
             (p \o q)[i] = IF i <= Len(p) THEN p[i] ELSE q[i - Len(p)]
    BY ConcatProperties
  <1>2. /\ DOMAIN p = 1 .. Len(p) /\ DOMAIN q = 1 .. Len(q)
        /\ DOMAIN (p \o q) = 1 .. Len(p) + Len(q)
        /\ Len(p) \in Nat /\ Len(q) \in Nat
    BY <1>1, LenProperties
  <1>3. Range(p \o q) = Range(p) \cup Range(q)
    <2>1. ASSUME NEW x \in Range(p \o q) PROVE x \in Range(p) \cup Range(q)
      BY <1>1, <1>2 DEF Range
    <2>2. ASSUME NEW x \in Range(p) PROVE x \in Range(p \o q)
      BY <1>1, <1>2 DEF Range
    <2>3. ASSUME NEW x \in Range(q) PROVE x \in Range(p \o q)
      <3>1. PICK i \in 1 .. Len(q) : x = q[i]
        BY <1>2 DEF Range
      <3>2. i + Len(p) \in DOMAIN (p \o q) /\ (p \o q)[i + Len(p)] = q[i]
        BY <1>1, <1>2
      <3> QED BY <3>1, <3>2 DEF Range
    <2> QED BY <2>1, <2>2, <2>3
  <1>4. ASSUME IsInjective(p), IsInjective(q), Range(p) \cap Range(q) = {}
        PROVE  IsInjective(p \o q)
    <2>1. ASSUME NEW i \in 1 .. Len(p) + Len(q), NEW j \in 1 .. Len(p) + Len(q),
                 (p \o q)[i] = (p \o q)[j]
          PROVE  i = j
      <3>1. CASE i <= Len(p) /\ j <= Len(p)
        BY <3>1, <2>1, <1>1, <1>2, <1>4 DEF IsInjective
      <3>2. CASE i > Len(p) /\ j > Len(p)
        <4>1. q[i - Len(p)] = q[j - Len(p)]
          BY <3>2, <2>1, <1>1, <1>2
        <4>2. i - Len(p) \in DOMAIN q /\ j - Len(p) \in DOMAIN q
          BY <3>2, <1>2
        <4> QED BY <4>1, <4>2, <1>2, <1>4 DEF IsInjective
      <3>3. CASE i <= Len(p) /\ j > Len(p)
        <4>1. p[i] = q[j - Len(p)] /\ i \in DOMAIN p /\ j - Len(p) \in DOMAIN q
          BY <3>3, <2>1, <1>1, <1>2
        <4> QED BY <4>1, <1>4 DEF Range
      <3>4. CASE i > Len(p) /\ j <= Len(p)
        <4>1. p[j] = q[i - Len(p)] /\ j \in DOMAIN p /\ i - Len(p) \in DOMAIN q
          BY <3>4, <2>1, <1>1, <1>2
        <4> QED BY <4>1, <1>4 DEF Range
      <3> QED BY <3>1, <3>2, <3>3, <3>4, <1>2
    <2> QED BY <2>1, <1>2 DEF IsInjective
  <1> QED BY <1>1, <1>3, <1>4

\* Writing one place of a sequence; a place it does not have changes nothing.
LEMMA SetFacts ==
  ASSUME NEW S, NEW q \in Seq(S), NEW i, NEW e \in S
  PROVE  [q EXCEPT ![i] = e] \in Seq(S) /\ Len([q EXCEPT ![i] = e]) = Len(q)
PROOF
  <1>1. CASE i \in 1 .. Len(q)
    BY <1>1, ExceptSeq
  <1>2. CASE i \notin 1 .. Len(q)
    <2>1. q \in [1 .. Len(q) -> S]
      BY LenProperties
    <2>2. [q EXCEPT ![i] = e] = q
      BY <1>2, <2>1
    <2> QED BY <2>2
  <1> QED BY <1>1, <1>2

\* Of two queues one behind the other: an element pushed to the second, or
\* moved from the second to the first.
LEMMA BehindFacts ==
  ASSUME NEW S, NEW p \in Seq(S), NEW q \in Seq(S), NEW e \in S
  PROVE  /\ p \o Append(q, e) = Append(p \o q, e)
         /\ q # <<>> => Append(p, Head(q)) \o Tail(q) = p \o q
         /\ q = <<>> => Append(p, e) \o q = Append(p \o q, e)
PROOF
  <1>1. p \o Append(q, e) = Append(p \o q, e)
    BY SMT
  <1>2. ASSUME q # <<>> PROVE Append(p, Head(q)) \o Tail(q) = p \o q
    BY <1>2, SMT
  <1>3. ASSUME q = <<>> PROVE Append(p, e) \o q = Append(p \o q, e)
    <2>1. Append(p, e) \in Seq(S)
      BY AppendProperties
    <2>2. Append(p, e) \o <<>> = Append(p, e) /\ p \o <<>> = p
      BY <2>1, ConcatEmptySeq
    <2> QED BY <1>3, <2>2
  <1> QED BY <1>1, <1>2, <1>3
\* A number below twice N is reduced by N at most once.
LEMMA ReducedOnce ==
  ASSUME NEW N \in Nat \ {0}, NEW x \in 0 .. 2 * N - 1
  PROVE  x % N = IF x < N THEN x ELSE x - N
PROOF BY SMT

\* A place of a ring of N, for a number below twice N.
OnRing(N, x) == IF x < N THEN x ELSE x - N

\* Going on i places from place h of a ring of N.
LEMMA RingPlace ==
  ASSUME NEW N \in Nat \ {0}, NEW h \in 0 .. N - 1, NEW i \in 0 .. N
  PROVE  /\ (h + i) % N = OnRing(N, h + i)
         /\ OnRing(N, h + i) \in 0 .. N - 1
         /\ (h + i) % N \in 0 .. N - 1
PROOF
  <1>1. PICK x \in 0 .. 2 * N - 1 : x = h + i
    OBVIOUS
  <1>2. x % N = OnRing(N, x)
    BY ReducedOnce DEF OnRing
  <1>3. OnRing(N, h + i) \in 0 .. N - 1
    BY DEF OnRing
  <1> QED BY <1>1, <1>2, <1>3, Zenon

\* One place on, and then i more; and all the way round.
LEMMA RingNext ==
  ASSUME NEW N \in Nat \ {0}, NEW h \in 0 .. N - 1, NEW i \in 0 .. N - 1
  PROVE  (((h + 1) % N) + i) % N = (h + (i + 1)) % N
PROOF
  <1>1. PICK g \in 0 .. N - 1 : g = OnRing(N, h + 1)
    BY DEF OnRing
  <1>2. PICK j \in 0 .. N : j = i + 1
    OBVIOUS
  <1>3. 1 \in 0 .. N /\ i \in 0 .. N
    OBVIOUS
  <1>4. (h + 1) % N = g
    BY <1>1, <1>3, RingPlace, Zenon
  <1>5. (g + i) % N = OnRing(N, g + i)
    BY <1>3, RingPlace, Zenon
  <1>6. (h + j) % N = OnRing(N, h + j)
    BY RingPlace, Zenon
  <1>7. OnRing(N, g + i) = OnRing(N, h + j)
    BY <1>1, <1>2 DEF OnRing
  <1> QED BY <1>2, <1>4, <1>5, <1>6, <1>7, Zenon

LEMMA RingNextOne ==
  ASSUME NEW N \in Nat \ {0}, NEW h \in 0 .. N - 1, NEW i \in 0 .. N - 1
  PROVE  (((h + i) % N) + 1) % N = (h + (i + 1)) % N
PROOF
  <1>0. OnRing(N, h + i) \in 0 .. N - 1
    BY DEF OnRing
  <1>1. PICK g \in 0 .. N - 1 : g = OnRing(N, h + i)
    BY <1>0
  <1>2. PICK j \in 0 .. N : j = i + 1
    OBVIOUS
  <1>3. 1 \in 0 .. N /\ i \in 0 .. N
    OBVIOUS
  <1>4. (h + i) % N = g
    BY <1>1, <1>3, RingPlace, Zenon
  <1>5. (g + 1) % N = OnRing(N, g + 1)
    BY <1>3, RingPlace, Zenon
  <1>6. (h + j) % N = OnRing(N, h + j)
    BY RingPlace, Zenon
  <1>7. OnRing(N, g + 1) = OnRing(N, h + j)
    BY <1>1, <1>2 DEF OnRing
  <1> QED BY <1>2, <1>4, <1>5, <1>6, <1>7, Zenon

LEMMA RingRound ==
  ASSUME NEW N \in Nat \ {0}, NEW h \in 0 .. N - 1
  PROVE  (h + N) % N = h /\ (h + 0) % N = h
PROOF
  <1>1. N \in 0 .. N /\ 0 \in 0 .. N
    OBVIOUS
  <1>2. OnRing(N, h + N) = h /\ OnRing(N, h + 0) = h
    BY DEF OnRing
  <1> QED BY <1>1, <1>2, RingPlace, Zenon

\* Different places of a ring.
LEMMA RingApart ==
  ASSUME NEW N \in Nat \ {0}, NEW h \in 0 .. N - 1,
         NEW i \in 0 .. N - 1, NEW j \in 0 .. N - 1, i # j
  PROVE  (h + i) % N # (h + j) % N
PROOF
  <1>1. i \in 0 .. N /\ j \in 0 .. N
    OBVIOUS
  <1>2. OnRing(N, h + i) # OnRing(N, h + j)
    BY DEF OnRing
  <1> QED BY <1>1, <1>2, RingPlace, Zenon
-----------------------------------------------------------------------------
\* Induction: a set with 0 and the successor of each of its numbers has every
\* number.  Were m not in it, neither would be its predecessor, and so on down:
\* these numbers would be mapped one to one to themselves without m.
LEMMA Induction ==
  ASSUME NEW S, 0 \in S, \A n \in Nat : n \in S => n + 1 \in S
  PROVE  Nat \subseteq S
PROOF
  <1> SUFFICES ASSUME NEW m \in Nat, m \notin S PROVE FALSE
    OBVIOUS
  <1> DEFINE C == {k \in 0 .. m : k \notin S}
             f == [k \in C |-> k - 1]
  <1>1. \A k \in C : k - 1 \in C \ {m}
    OBVIOUS
  <1>2. f \in Injection(C, C \ {m})
    BY <1>1 DEF Injection, IsInjective
  <1>3. IsFiniteSet(C) /\ m \in C
    <2>1. IsFiniteSet(0 .. m)
      BY FS_Interval
    <2>2. C \in SUBSET (0 .. m) /\ m \in C
      OBVIOUS
    <2> HIDE DEF C
    <2> QED BY <2>1, <2>2, FS_Subset
  <1> HIDE DEF C, f
  <1>4. IsFiniteSet(C \ {m}) /\ Cardinality(C \ {m}) = Cardinality(C) - 1
    BY <1>3, FS_RemoveElement
  <1>5. Cardinality(C) <= Cardinality(C \ {m})
    BY <1>2, <1>4, FS_Injection
  <1>6. Cardinality(C) \in Nat
    BY <1>3, FS_CardinalityType
  <1> QED BY <1>4, <1>5, <1>6

\* A multiple of N nearer to 0 than N is 0.
LEMMA Multiple ==
  ASSUME NEW N \in Nat \ {0}, NEW k \in Int, k * N < N, -N < k * N
  PROVE  k = 0
PROOF
  <1>1. k >= 1 => k * N >= N
    OBVIOUS
  <1>2. k <= -1 => k * N <= -N
    OBVIOUS
  <1> QED BY <1>1, <1>2

\* The remainder is the one number below N that a multiple of N away is x.
LEMMA Remainder ==
  ASSUME NEW N \in Nat \ {0}, NEW x \in Int, NEW k \in Int, NEW r \in 0 .. N - 1,
         x = k * N + r
  PROVE  x % N = r
PROOF
  <1>1. (x % N) \in 0 .. N - 1 /\ (x \div N) \in Int /\ x = (x \div N) * N + (x % N)
    OBVIOUS
  <1>2. PICK d \in Int, s \in 0 .. N - 1 : x = d * N + s /\ s = x % N
    BY <1>1
  <1>3. PICK p \in Int, q \in Int : p = d * N /\ q = k * N
    OBVIOUS
  <1>4. PICK m \in Int : m = d - k
    OBVIOUS
  <1>5. m * N = p - q
    BY <1>3, <1>4
  <1>6. p - q = r - s
    <2>1. x = p + s /\ x = q + r
      BY <1>2, <1>3
    <2> QED BY <2>1
  <1>7. m * N < N /\ -N < m * N
    <2>1. r - s < N /\ -N < r - s
      OBVIOUS
    <2> QED BY <2>1, <1>5, <1>6, Zenon
  <1>8. m = 0
    BY <1>7, Multiple
  <1>9. r = s
    BY <1>4, <1>8, <1>3, <1>6
  <1> QED BY <1>2, <1>9

\* Two readings of a counter modulo N give the time between them, if it is less than N.
LEMMA ReadingsApart ==
  ASSUME NEW N \in Nat \ {0}, NEW a \in Int, NEW b \in Int, a - b \in 0 .. N - 1
  PROVE  ((a % N) - (b % N)) % N = a - b
PROOF
  <1>1. /\ (a % N) \in Int /\ (a \div N) \in Int /\ a = (a \div N) * N + (a % N)
        /\ (b % N) \in Int /\ (b \div N) \in Int /\ b = (b \div N) * N + (b % N)
    OBVIOUS
  <1>2. PICK d \in Int, s \in Int : a = d * N + s /\ s = a % N
    BY <1>1
  <1>3. PICK e \in Int, t \in Int : b = e * N + t /\ t = b % N
    BY <1>1
  <1>4. PICK p \in Int, q \in Int : p = d * N /\ q = e * N
    OBVIOUS
  <1>5. PICK m \in Int : m = e - d
    OBVIOUS
  <1>6. m * N = q - p
    BY <1>4, <1>5
  <1>7. PICK c \in 0 .. N - 1 : c = a - b
    OBVIOUS
  <1>8. s - t = (q - p) + c
    <2>1. a = p + s /\ b = q + t
      BY <1>2, <1>3, <1>4
    <2> QED BY <2>1, <1>7
  <1>9. PICK x \in Int : x = s - t
    OBVIOUS
  <1>10. x = m * N + c
    BY <1>6, <1>8, <1>9, Zenon
  <1>11. x % N = c
    BY <1>10, Remainder
  <1> QED BY <1>2, <1>3, <1>7, <1>9, <1>11, Zenon

\* A set of naturals that is not empty has a least member.
LEMMA HasLeast ==
  ASSUME NEW S \in SUBSET Nat, S # {}
  PROVE  \E m \in S : \A y \in S : m <= y
PROOF
  <1> SUFFICES ASSUME \A m \in S : \E y \in S : ~(m <= y) PROVE FALSE
    OBVIOUS
  <1> DEFINE Low == {n \in Nat : \A y \in S : n < y}
  <1>1. 0 \in Low
    <2>1. 0 \notin S
      OBVIOUS
    <2> QED BY <2>1
  <1>2. ASSUME NEW n \in Nat, n \in Low PROVE n + 1 \in Low
    <2>1. \A y \in S : n + 1 <= y
      BY <1>2
    <2>2. n + 1 \notin S
      BY <2>1
    <2> QED BY <2>1, <2>2
  <1> HIDE DEF Low
  <1>3. Nat \subseteq Low
    BY <1>1, <1>2, Induction
  <1>4. PICK y \in S : TRUE
    OBVIOUS
  <1>5. y \in Low
    BY <1>3
  <1> QED BY <1>5 DEF Low

\* M steps of g from a, in X.
Iterates(X, a, g, M) ==
  \E f \in [0 .. M -> X] : f[0] = a /\ \A n \in 1 .. M : f[n] = g[f[n - 1]]

\* A function that a recursion over 0 .. M describes exists.
LEMMA Iteration ==
  ASSUME NEW X, NEW a \in X, NEW g \in [X -> X], NEW M \in Nat
  PROVE  Iterates(X, a, g, M)
PROOF
  <1> DEFINE Good(n, f) == f = [i \in 0 .. n |-> IF i = 0 THEN a ELSE g[f[i - 1]]]
             S == {n \in Nat : \E f \in [0 .. n -> X] : Good(n, f)}
  <1>1. 0 \in S
    <2> DEFINE f == [i \in 0 .. 0 |-> a]
    <2>1. f \in [0 .. 0 -> X] /\ Good(0, f)
      OBVIOUS
    <2> HIDE DEF f
    <2> QED BY <2>1
  <1>2. ASSUME NEW n \in Nat, n \in S PROVE n + 1 \in S
    <2>1. PICK f \in [0 .. n -> X] : Good(n, f)
      BY <1>2
    <2> DEFINE h == [i \in 0 .. n + 1 |-> IF i = n + 1 THEN g[f[n]] ELSE f[i]]
    <2>2. h \in [0 .. n + 1 -> X]
      <3>1. n \in 0 .. n
        OBVIOUS
      <3>2. f[n] \in X
        BY <3>1
      <3>3. g[f[n]] \in X
        BY <3>2
      <3>4. \A i \in 0 .. n + 1 : i # n + 1 => i \in 0 .. n
        OBVIOUS
      <3> QED BY <3>3, <3>4
    <2>3. ASSUME NEW i \in 0 .. n + 1
          PROVE  h[i] = IF i = 0 THEN a ELSE g[h[i - 1]]
      <3>1. CASE i = n + 1
        <4>1. i - 1 = n /\ i # 0 /\ n \in 0 .. n + 1 /\ n # n + 1
          BY <3>1
        <4>2. h[i] = g[f[n]] /\ h[n] = f[n]
          BY <3>1, <4>1
        <4> HIDE DEF h
        <4> QED BY <4>1, <4>2
      <3>2. CASE i # n + 1
        <4>1. i \in 0 .. n /\ (i # 0 => i - 1 \in 0 .. n /\ i - 1 \in 0 .. n + 1 /\ i - 1 # n + 1)
          BY <3>2
        <4>2. h[i] = f[i] /\ (i # 0 => h[i - 1] = f[i - 1])
          BY <3>2, <4>1
        <4>3. f[i] = IF i = 0 THEN a ELSE g[f[i - 1]]
          BY <2>1, <4>1
        <4> HIDE DEF h
        <4> QED BY <4>2, <4>3
      <3> QED BY <3>1, <3>2
    <2> HIDE DEF h
    <2>4. h = [i \in 0 .. n + 1 |-> h[i]]
      BY <2>2
    <2>5. Good(n + 1, h)
      BY <2>3, <2>4
    <2>6. n + 1 \in Nat
      OBVIOUS
    <2> QED BY <2>2, <2>5, <2>6
  <1> HIDE DEF S
  <1>3. Nat \subseteq S
    BY <1>1, <1>2, Induction
  <1>4. M \in S
    BY <1>3
  <1>5. PICK f \in [0 .. M -> X] : Good(M, f)
    BY <1>4 DEF S
  <1>6. 0 \in 0 .. M /\ \A n \in 1 .. M : n \in 0 .. M /\ n # 0
    OBVIOUS
  <1>7. \A n \in 0 .. M : f[n] = IF n = 0 THEN a ELSE g[f[n - 1]]
    BY <1>5
  <1>8. f[0] = a /\ \A n \in 1 .. M : f[n] = g[f[n - 1]]
    BY <1>6, <1>7
  <1> QED BY <1>5, <1>8 DEF Iterates
=============================================================================
