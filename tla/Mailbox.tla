------------------------------ MODULE Mailbox ------------------------------
(***************************************************************************)
(* What a channel promises the tasks that use it, with no tasks in sight:  *)
(* one queue of the values on offer, whether they sit in a buffer or with  *)
(* a suspended sender.  A value leaves it for a reader, in the order in    *)
(* which it was offered, or is withdrawn when the channel closes.          *)
(***************************************************************************)
EXTENDS Naturals, Sequences

CONSTANT Value

VARIABLES queue,      \* values offered and neither received nor withdrawn
          wanted,     \* readers that wait for a value
          received,   \* values received, in that order
          closed

vars == <<queue, wanted, received, closed>>

Init ==
  /\ queue = <<>>
  /\ wanted = 0
  /\ received = <<>>
  /\ closed = FALSE

\* A value is offered: a waiting reader gets it, else it queues.
Offer(v) ==
  /\ ~closed
  /\ IF wanted > 0
     THEN /\ received' = Append(received, v)
          /\ wanted' = wanted - 1
          /\ UNCHANGED queue
     ELSE /\ queue' = Append(queue, v)
          /\ UNCHANGED <<wanted, received>>
  /\ UNCHANGED closed

\* A reader takes the oldest value on offer.
Take ==
  /\ queue # <<>>
  /\ received' = Append(received, Head(queue))
  /\ queue' = Tail(queue)
  /\ UNCHANGED <<wanted, closed>>

\* A reader finds nothing on offer and waits.
Want ==
  /\ ~closed
  /\ queue = <<>>
  /\ wanted' = wanted + 1
  /\ UNCHANGED <<queue, received, closed>>

\* Closing ends every wait and withdraws the youngest values on offer.
Close ==
  /\ closed' = TRUE
  /\ wanted' = 0
  /\ \E n \in 0 .. Len(queue) : queue' = SubSeq(queue, 1, n)
  /\ UNCHANGED received

Next == (\E v \in Value : Offer(v)) \/ Take \/ Want \/ Close

Spec == Init /\ [][Next]_vars
=============================================================================
