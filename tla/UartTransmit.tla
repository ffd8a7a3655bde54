---------------------------- MODULE UartTransmit ----------------------------
(***************************************************************************)
(* The transmitting half of the UART service: requests of suspended tasks, *)
(* taken one at a time, sent in chunks by the device, ended by its         *)
(* interrupt, by a timeout or by stop().                                   *)
(*                                                                         *)
(* Three parties interleave: the main loop (tasks, service and timers, one *)
(* call at a time), the device, and the interrupt handler, which may come  *)
(* between any two accesses of the main loop to what they share.  The only *)
(* place where that shows is between start_transmit and the store that     *)
(* follows it, so process_write is split there.                            *)
(*                                                                         *)
(* A task stands for its awaiter; a length is a number of chunks.  Resumed *)
(* tasks are taken to run at once: from on_resume on, the buffer is theirs.*)
(***************************************************************************)
EXTENDS Naturals, Sequences, Functions, Errcode

CONSTANTS Task,       \* the tasks that transmit
          None,       \* no task
          Forever,    \* those whose requests have timeout_ms_ = wait_forever
          MaxChunks   \* bound: chunks in a request

ASSUME TransmitAssumption ==
  None \notin Task /\ Forever \subseteq Task /\ MaxChunks \in Nat

VARIABLES
  pendingWriters,   \* pending_writers_
  active,           \* active_write_awaiter_
  writeReady,       \* write_ready_
  timer,            \* the request for which tx_timer_ is pending, or None
  storing,          \* process_write is about to store false in write_ready_
  left,             \* left[t]: len_ - offset_ of t's awaiter, in chunks
  outcome,          \* outcome[t]: what await_resume returns, or "waiting"
  device,           \* "ready", "sending", or "sent" with its interrupt pending
  reading,          \* the task whose buffer the device reads from, or None
  irq,              \* the device's interrupt is enabled
  asked, sent       \* history: chunks of t's request, and those on the wire

serviceVars == <<pendingWriters, active, writeReady, timer, storing>>
taskVars == <<left, outcome, asked>>
deviceVars == <<device, reading, irq, sent>>
vars == <<serviceVars, taskVars, deviceVars>>

\* Every variable has its type.
TypeOK ==
  /\ pendingWriters \in Seq(Task)
  /\ active \in Task \cup {None} /\ timer \in Task \cup {None}
  /\ writeReady \in BOOLEAN /\ storing \in BOOLEAN /\ irq \in BOOLEAN
  /\ left \in [Task -> 0 .. MaxChunks]
  /\ outcome \in [Task -> {"waiting", "success", "timeout", "canceled", "unknown_hw_error"}]
  /\ device \in {"ready", "sending", "sent"}
  /\ reading \in Task \cup {None}
  /\ asked \in [Task -> 0 .. MaxChunks] /\ sent \in [Task -> 0 .. MaxChunks]

Init ==
  /\ pendingWriters = <<>> /\ active = None
  /\ writeReady = TRUE
  /\ timer = None /\ storing = FALSE
  /\ left = [t \in Task |-> 0]
  /\ outcome = [t \in Task |-> "success"]
  /\ device = "ready" /\ reading = None /\ irq = FALSE
  /\ asked = [t \in Task |-> 0] /\ sent = [t \in Task |-> 0]

Waiting(t) == outcome[t] = "waiting"

-----------------------------------------------------------------------------
(* The device, and its driver's calls.                                     *)

\* A transfer ends on the wire; its interrupt is pending from now on.
TransferEnds ==
  /\ device = "sending"
  /\ device' = "sent"
  /\ reading' = None
  /\ sent' = [sent EXCEPT ![reading] = @ + 1]
  /\ UNCHANGED <<serviceVars, taskVars, irq>>

\* The interrupt: the driver is ready for the next transfer, on_tx_complete.
OnTxComplete ==
  /\ device = "sent" /\ irq
  /\ device' = "ready"
  /\ writeReady' = TRUE
  /\ UNCHANGED <<pendingWriters, active, timer, storing, taskVars, reading, irq, sent>>

\* start_transmit returning 0: the driver accepts nothing while one is on.
start_transmit(t) ==
  /\ device = "ready"
  /\ device' = "sending"
  /\ reading' = t
  /\ UNCHANGED <<irq, sent>>

\* Mutant: the device goes on with the transfer.
abort_transmit_missing == UNCHANGED <<device, reading>>

abort_transmit == device' = "ready" /\ reading' = None

-----------------------------------------------------------------------------
(* Parts of the service.                                                   *)

\* Mutant: the timer of a request that ended stays pending.
cancel_timer_missing(armed) == armed

\* What is pending after tx_timer_ was cancelled.
cancel_timer(armed) == None

\* complete_active_write, "t" being active and "armed" its timer.
complete_active_write(t, armed, status) ==
  /\ timer' = cancel_timer(armed)
  /\ outcome' = [outcome EXCEPT ![t] = status]
  /\ active' = None

\* Arming the timer of a request that has just become active.
armed_for(t) == IF t \in Forever THEN None ELSE t

\* try_drain_transmitter returns a chunk.
has_more(t) == left[t] > 0

\* The rest of process_write for the active request t.
Proceed(t, armed) ==
  \/ /\ has_more(t)
     /\ left' = [left EXCEPT ![t] = @ - 1]
     /\ \/ /\ start_transmit(t)
           /\ active' = t /\ timer' = armed
           /\ storing' = TRUE
           /\ UNCHANGED outcome
        \/ \* start_transmit returns an error: the driver is busy, or the DMA
           /\ complete_active_write(t, armed, "unknown_hw_error")
           /\ UNCHANGED <<storing, deviceVars>>
  \/ /\ ~has_more(t)
     /\ complete_active_write(t, armed, "success")
     /\ UNCHANGED <<left, storing, deviceVars>>

-----------------------------------------------------------------------------
(* Steps of the main loop.                                                 *)

\* co_await transmit(data, n): it is never ready, so the awaiter is queued.
Transmit(t, n) ==
  /\ ~storing
  /\ ~Waiting(t)
  /\ pendingWriters' = Append(pendingWriters, t)
  /\ outcome' = [outcome EXCEPT ![t] = "waiting"]
  /\ left' = [left EXCEPT ![t] = n]
  /\ asked' = [asked EXCEPT ![t] = n]
  /\ sent' = [sent EXCEPT ![t] = 0]
  /\ UNCHANGED <<active, writeReady, timer, storing, device, reading, irq>>

\* process_write up to the store; without a request, or not ready, it does nothing.
ProcessWrite ==
  /\ ~storing
  /\ writeReady
  /\ \/ /\ active # None
        /\ Proceed(active, timer)
        /\ UNCHANGED pendingWriters
     \/ /\ active = None /\ pendingWriters # <<>>
        /\ pendingWriters' = Tail(pendingWriters)
        /\ Proceed(Head(pendingWriters), armed_for(Head(pendingWriters)))
  /\ UNCHANGED <<writeReady, asked>>

\* Mutant: the flag is left as it is.
ready_while_sending == TRUE

\* What process_write stores in write_ready_ once a transfer was started.
ready_after_start == FALSE

\* ... the store, even if the transfer has ended in between.
StoreNotReady ==
  /\ storing
  /\ storing' = FALSE
  /\ writeReady' = ready_after_start
  /\ UNCHANGED <<pendingWriters, active, timer, taskVars, deviceVars>>

\* Mutant: the flag stays as the aborted transfer left it.
ready_after_abort_missing == writeReady

\* What on_tx_timeout and stop store in write_ready_ after abort_transmit.
ready_after_abort == TRUE

\* The timer service fires tx_timer_ and calls on_tx_timeout, which does
\* nothing without an active request.
OnTxTimeout ==
  /\ ~storing
  /\ timer # None
  /\ IF active = None
     THEN timer' = None /\ UNCHANGED <<active, writeReady, outcome, device, reading>>
     ELSE /\ abort_transmit
          /\ writeReady' = ready_after_abort
          /\ complete_active_write(active, None, "timeout")
  /\ UNCHANGED <<pendingWriters, storing, left, asked, irq, sent>>

\* start, as far as transmitting goes.
Start ==
  /\ ~storing
  /\ irq' = TRUE
  /\ UNCHANGED <<serviceVars, taskVars, device, reading, sent>>

\* stop: every waiting request, then the active one, is canceled.
Stop ==
  /\ ~storing
  /\ irq' = FALSE
  /\ pendingWriters' = <<>>
  /\ IF active = None
     THEN UNCHANGED <<active, timer, writeReady, device, reading>>
     ELSE /\ abort_transmit
          /\ writeReady' = ready_after_abort
          /\ active' = None /\ timer' = cancel_timer(timer)
  /\ outcome' = [t \in Task |->
                  IF t \in Range(pendingWriters) \cup {active} THEN "canceled" ELSE outcome[t]]
  /\ UNCHANGED <<storing, left, asked, sent>>

Next ==
  \/ \E t \in Task, n \in 0 .. MaxChunks : Transmit(t, n)
  \/ ProcessWrite \/ StoreNotReady
  \/ OnTxTimeout
  \/ Start \/ Stop
  \/ TransferEnds \/ OnTxComplete

Spec == Init /\ [][Next]_vars

\* The main loop keeps calling the service and the timers.  Of the device
\* nothing is assumed: a transfer may never end, an interrupt never come.
FairSpec == Spec /\ WF_vars(ProcessWrite) /\ WF_vars(StoreNotReady) /\ WF_vars(OnTxTimeout)

-----------------------------------------------------------------------------
\* The device reads from the buffer of no task but the active one, which is
\* still suspended: on timeout and stop the transfer is aborted before the
\* task, and with it the buffer, is let go.
BufferOutlivesTransfer ==
  reading # None => reading = active /\ Waiting(reading)

\* A task that is told success has every chunk on the wire.
SuccessMeansSent ==
  \A t \in Task : outcome[t] = "success" => sent[t] = asked[t]

\* While write_ready_ is set no transfer is on, so start_transmit is not
\* refused as busy, except between start_transmit and the store after it.
ReadyMeansIdle == writeReady /\ ~storing => device = "ready"

\* The timer is pending for the active request, if that has a timeout, and for
\* no other: a timeout cannot end a request it was not armed for.
TimerIsForActive ==
  timer = IF active \in Task \ Forever THEN active ELSE None

\* What makes these invariants inductive: the chunks of the active request are
\* sent, being sent or left, a queued one has none sent, and a transfer or a
\* pending interrupt belongs to an active request.
Accounting ==
  /\ device = "sending" <=> reading # None
  /\ device # "ready" \/ storing => active # None
  /\ active # None =>
       /\ Waiting(active)
       /\ asked[active] = sent[active] + left[active] + (IF reading = None THEN 0 ELSE 1)
  /\ IsInjective(pendingWriters)
  /\ \A t \in Range(pendingWriters) :
       t # active /\ Waiting(t) /\ sent[t] = 0 /\ left[t] = asked[t]

IInv ==
  /\ TypeOK /\ Accounting
  /\ BufferOutlivesTransfer /\ SuccessMeansSent /\ ReadyMeansIdle /\ TimerIsForActive

\* A request ends in spite of transfers that hang, of interrupts lost in the
\* window before the store or never enabled; only a request without a timeout
\* can keep the service, and those behind it, from going on.
OnlyUntimedRequestsBlock ==
  \A t \in Task : Waiting(t) ~> ~Waiting(t) \/ active \in Forever
=============================================================================
