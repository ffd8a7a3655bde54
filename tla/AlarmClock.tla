----------------------------- MODULE AlarmClock -----------------------------
(***************************************************************************)
(* What the timer service promises, in absolute time: each pending timer   *)
(* has a time at which it is due; service time advances from one due time  *)
(* to the next and never passes a pending timer without firing it.         *)
(***************************************************************************)
EXTENDS Naturals, Functions

CONSTANTS Node,       \* the timers
          Duration    \* the durations asked for

VARIABLES due,        \* due[n]: when the pending timer n is due
          time        \* how far the service has got

vars == <<due, time>>

Pending == DOMAIN due

Init == due = <<>> /\ time = 0

With(f, n, t) == [m \in DOMAIN f \cup {n} |-> IF m = n THEN t ELSE f[m]]
Without(f, n) == Restrict(f, DOMAIN f \ {n})

\* A timer is set, counting from the time the service has got to.
Submit(n, d) ==
  /\ n \notin Pending
  /\ due' = With(due, n, time + d)
  /\ UNCHANGED time

Cancel(n) ==
  /\ n \in Pending
  /\ due' = Without(due, n)
  /\ UNCHANGED time

\* The earliest timer fires.  What it runs may set or cancel one timer, and a
\* timer set then counts from the very time this one was due.
Expire(n) ==
  /\ n \in Pending
  /\ \A m \in Pending : due[n] <= due[m]
  /\ time' = due[n]
  /\ LET rest == Without(due, n) IN
     \/ due' = rest
     \/ \E m \in Node \ DOMAIN rest, d \in Duration : due' = With(rest, m, due[n] + d)
     \/ \E m \in DOMAIN rest : due' = Without(rest, m)

\* Time goes on to t, before which nothing is due.
Pass(t) ==
  /\ t >= time
  /\ \A m \in Pending : due[m] > t
  /\ time' = t
  /\ UNCHANGED due

Next ==
  \/ \E n \in Node, d \in Duration : Submit(n, d)
  \/ \E n \in Node : Cancel(n) \/ Expire(n)
  \/ \E t \in time .. time' : Pass(t)

Spec == Init /\ [][Next]_vars
=============================================================================
