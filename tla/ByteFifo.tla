------------------------------ MODULE ByteFifo ------------------------------
(***************************************************************************)
(* What a byte ring promises: a FIFO of bounded size that takes and gives  *)
(* several bytes at a time.  A byte is its position in the stream, so the  *)
(* order of arrival can be read off the queue.                             *)
(***************************************************************************)
EXTENDS Naturals, Sequences

CONSTANT Bound       \* the most bytes it holds

VARIABLES queue,     \* the bytes held, oldest first
          pushed,    \* bytes put so far
          popped     \* bytes taken so far

vars == <<queue, pushed, popped>>

Init == queue = <<>> /\ pushed = 0 /\ popped = 0

\* n bytes enter together, behind all the others.
Put(n) ==
  /\ Len(queue) + n <= Bound
  /\ queue' = queue \o [i \in 1 .. n |-> pushed + i]
  /\ pushed' = pushed + n
  /\ UNCHANGED popped

\* The n oldest bytes leave together.
Get(n) ==
  /\ n <= Len(queue)
  /\ queue' = SubSeq(queue, n + 1, Len(queue))
  /\ popped' = popped + n
  /\ UNCHANGED pushed

Next == \E n \in 1 .. Bound : Put(n) \/ Get(n)

Spec == Init /\ [][Next]_vars
=============================================================================
