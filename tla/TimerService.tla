---------------------------- MODULE TimerService ----------------------------
(***************************************************************************)
(* The timer service on its delta queue: a list of timers in which each    *)
(* node stores the ticks between its predecessor's expiry and its own, all *)
(* arithmetic modulo the range of the tick counter (2^32 in the code).     *)
(*                                                                         *)
(* The service runs on the main loop's thread.  Time passes whenever it    *)
(* likes; submit and cancel are called between two runs, or by a timer's   *)
(* on_expire while a run is under way.                                     *)
(***************************************************************************)
EXTENDS Integers, Sequences, SequencesExt

CONSTANTS Node,        \* the timer_node objects
          Ticks,       \* number of values of the tick counter
          Duration,    \* durations asked for between runs
          Millisecs,   \* durations asked for in milliseconds between runs
          Freq,        \* ticks per second of the tick source
          Rearm,       \* durations asked for by on_expire
          MaxGap,      \* longest time between the starts of two runs
          MaxTime      \* bound: when the clock stops

\* A run comes before the tick counter laps the previous one: elapsed is
\* computed modulo Ticks, so a longer gap could not be told from a short one.
\* A timer re-armed for 0 ticks by its own expiry would never let a run end.
ASSUME TimerAssumption ==
  /\ Ticks \in Nat \ {0} /\ MaxTime \in Nat
  /\ MaxGap \in 0 .. Ticks - 1
  /\ Duration \subseteq 0 .. Ticks - 1
  /\ Rearm \subseteq 1 .. Ticks - 1
  /\ Millisecs \subseteq Nat /\ Freq \in Nat \ {0}

VARIABLES
  queue,       \* delta_queue_: the nodes in list order
  delta,       \* delta[n]: the field of node n, while it is in the list
  prev,        \* prev_ts_tick_
  running,     \* run() is in its loop over expired timers
  elapsed,     \* its local variable elapsed, as advance decreases it
  clock,       \* true time; the tick source reads clock % Ticks
  prevTime,    \* history: the true time whose tick prev is
  until,       \* history: the true time whose tick run() read as now
  asked        \* history: the time n was submitted at plus its duration

historyVars == <<prevTime, until, asked>>
vars == <<queue, delta, prev, running, elapsed, clock, historyVars>>

Tick == 0 .. Ticks - 1

\* Every variable has its type; no node is in the list twice.
TypeOK ==
  /\ queue \in Seq(Node) /\ IsInjective(queue)
  /\ delta \in [Range(queue) -> Tick]
  /\ prev \in Tick /\ elapsed \in Tick /\ running \in BOOLEAN
  /\ clock \in 0 .. MaxTime /\ prevTime \in 0 .. clock /\ until \in prevTime .. clock
  /\ asked \in [Range(queue) -> Nat]

Init ==
  /\ queue = <<>>
  /\ delta = <<>>
  /\ prev = 0 /\ running = FALSE /\ elapsed = 0
  /\ clock = 0 /\ prevTime = 0 /\ until = 0
  /\ asked = <<>>

now == clock % Ticks

With(f, n, v) == [m \in DOMAIN f \cup {n} |-> IF m = n THEN v ELSE f[m]]
Without(f, n) == Restrict(f, DOMAIN f \ {n})

-----------------------------------------------------------------------------
(* delta_queue.                                                            *)

Queued(n) == n \in Range(queue)

\* sums[i]: what insert has accumulated after passing i nodes of q.
sums(q, del) ==
  LET sum[i \in 0 .. Len(q)] == IF i = 0 THEN 0 ELSE (sum[i - 1] + del[q[i]]) % Ticks
  IN  sum

\* How many nodes the loop of insert passes: all those due no later.
passed(q, del, key) ==
  CHOOSE k \in 0 .. Len(q) :
    /\ \A i \in 1 .. k : sums(q, del)[i] <= key
    /\ k < Len(q) => sums(q, del)[k + 1] > key

\* insert: the list and the deltas after it.
insert(q, del, key, n) ==
  LET k == passed(q, del, key)
      own == key - sums(q, del)[k]
  IN  [queue |-> InsertAt(q, k + 1, n),
       delta |-> [m \in Range(q) \cup {n} |->
                   IF m = n THEN own
                   ELSE IF k < Len(q) /\ m = q[k + 1] THEN (del[m] - own) % Ticks
                   ELSE del[m]]]

\* The place of a node in the list.
place(q, n) == CHOOSE i \in DOMAIN q : q[i] = n

\* Mutant: the successor does not inherit the ticks of the node taken out.
erase_keeps_deltas(q, del, n) ==
  [queue |-> RemoveAt(q, place(q, n)), delta |-> Restrict(del, Range(q) \ {n})]

\* erase of a node that is in the list; of another it changes nothing.
erase(q, del, n) ==
  [queue |-> RemoveAt(q, place(q, n)),
   delta |-> [m \in Range(q) \ {n} |->
               IF \E i \in 2 .. Len(q) : q[i - 1] = n /\ q[i] = m
               THEN (del[m] + del[n]) % Ticks ELSE del[m]]]

-----------------------------------------------------------------------------
(* Calls between two runs.                                                 *)

Takes(result) == queue' = result.queue /\ delta' = result.delta

\* submit.  A node is submitted when it is not pending: the list has no check.
Submit(n, duration) ==
  /\ ~running /\ ~Queued(n)
  /\ Takes(insert(queue, delta, duration, n))
  /\ asked' = With(asked, n, clock + duration)
  /\ UNCHANGED <<prev, running, elapsed, clock, prevTime, until>>

\* The 64-bit product is cut to the ticks' width.
ms_to_ticks(ms) == ((ms * Freq) \div 1000) % Ticks

SubmitMs(n, ms) == Submit(n, ms_to_ticks(ms))

Cancel(n) ==
  /\ ~running /\ Queued(n)
  /\ Takes(erase(queue, delta, n))
  /\ asked' = Without(asked, n)
  /\ UNCHANGED <<prev, running, elapsed, clock, prevTime, until>>

-----------------------------------------------------------------------------
(* run.                                                                    *)

\* now - prev_ts_tick_ in unsigned arithmetic.
elapsed_since == (now - prev) % Ticks

RunBegin ==
  /\ ~running
  /\ running' = TRUE
  /\ elapsed' = elapsed_since
  /\ until' = clock
  /\ UNCHANGED <<queue, delta, prev, clock, prevTime, asked>>

\* Mutant: a timer due exactly now is left for the next run.
expired_strictly == queue # <<>> /\ delta[Head(queue)] < elapsed

\* The condition of advance's loop.
expired == queue # <<>> /\ delta[Head(queue)] <= elapsed

\* on_expire of a node just taken out: it may arm one timer or cancel one.
on_expire(n) ==
  LET rest == Tail(queue)
      others == Without(delta, n)
      askedOthers == Without(asked, n)
  IN  \/ queue' = rest /\ delta' = others /\ asked' = askedOthers
      \/ \E m \in Node \ Range(rest), duration \in Rearm :
           /\ Takes(insert(rest, others, duration, m))
           /\ asked' = With(askedOthers, m, clock + duration)
      \/ \E m \in Range(rest) :
           /\ Takes(erase(rest, others, m))
           /\ asked' = Without(askedOthers, m)

\* Mutant: the ticks waited for a timer that fired count again for the next.
left_unchanged == elapsed

\* What is left of the elapsed time when the head has fired.
left == elapsed - delta[Head(queue)]

\* One turn of advance's loop, the callback included.
Fire ==
  /\ running /\ expired
  /\ elapsed' = left
  /\ on_expire(Head(queue))
  /\ UNCHANGED <<prev, running, clock, prevTime, until>>

\* Mutant: the rest of the elapsed time is not taken off the head.
rest_of_elapsed_lost == delta

\* The end of advance: the head has waited for the rest of the elapsed time.
rest_of_elapsed ==
  IF queue # <<>> THEN [delta EXCEPT ![Head(queue)] = @ - elapsed] ELSE delta

RunEnd ==
  /\ running /\ ~expired
  /\ delta' = rest_of_elapsed
  /\ prev' = until % Ticks
  /\ prevTime' = until
  /\ running' = FALSE /\ elapsed' = 0
  /\ UNCHANGED <<queue, clock, until, asked>>

\* Time passes, but a run starts, and ends, before the counter laps the last one.
TimePasses ==
  /\ clock < MaxTime /\ clock < prevTime + MaxGap
  /\ clock' = clock + 1
  /\ UNCHANGED <<queue, delta, prev, running, elapsed, historyVars>>

Run == RunBegin \/ Fire \/ RunEnd

Next ==
  \/ \E n \in Node, d \in Duration : Submit(n, d)
  \/ \E n \in Node, ms \in Millisecs : SubmitMs(n, ms)
  \/ \E n \in Node : Cancel(n)
  \/ Run
  \/ TimePasses

Spec == Init /\ [][Next]_vars

\* Time passes, and the main loop keeps calling run, which goes on to its end.
FairSpec == Spec /\ WF_vars(Run) /\ WF_vars(TimePasses)

-----------------------------------------------------------------------------
(* How far the service has got: prev between runs; during one, the due time *)
(* of the timer fired last.                                                *)
basis == IF running THEN until - elapsed ELSE prevTime

\* When the i-th timer of the list is due: the deltas add up.
DueAt(i) == basis + sums(queue, delta)[i]
Due == [n \in Range(queue) |-> DueAt(place(queue, n))]

A == INSTANCE AlarmClock WITH
       due <- Due, time <- basis,
       Duration <- Duration \cup Rearm \cup {ms_to_ticks(ms) : ms \in Millisecs}

\* Read as absolute times, the deltas are the due times of an alarm clock:
\* timers fire in the order they are due, submitting or cancelling one moves
\* no other, and the service passes none, at any value of the tick counter.
ImplementsAlarmClock == A!Spec

\* A run leaves nothing behind whose time had come when it read the clock.
NothingOverdueAfterRun ==
  [][running /\ ~running' => \A n \in Range(queue') : asked[n] > until]_vars

\* The service is early by no more than the time since it last ran, never late:
\* durations count from prev_ts_tick_, not from the time of the submit.
EarlyByAtMostTheGap ==
  \A n \in Range(queue) : Due[n] <= asked[n] /\ asked[n] <= Due[n] + MaxGap

\* The accumulated deltas never pass the range of the tick counter.
NoOverflow ==
  \A i \in 1 .. Len(queue) : sums(queue, delta)[i - 1] + delta[queue[i]] < Ticks

\* prev_ts_tick_ is the tick of prevTime, less than a lap ago; a run has no
\* more time to hand out than has passed since.
ClockRead ==
  /\ prev = prevTime % Ticks
  /\ clock <= prevTime + MaxGap
  /\ elapsed <= until - prevTime

\* The inductive invariant.
IInv == TypeOK /\ NoOverflow /\ ClockRead /\ EarlyByAtMostTheGap

\* A timer does not fire before the duration it was submitted with is over.
NeverEarly == [][Fire => clock >= asked[Head(queue)]]_vars

\* A run ends, whatever the callbacks submit.
RunEnds == running ~> ~running
=============================================================================
