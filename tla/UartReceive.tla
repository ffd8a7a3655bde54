---------------------------- MODULE UartReceive ----------------------------
(***************************************************************************)
(* The receiving half of the UART service, once start() has armed it:      *)
(* interrupts put bytes into the ring and latch errors; the main loop      *)
(* gives the bytes to the requests of suspended tasks, one at a time, each *)
(* of which ends when it is full, on an error, a timeout or stop().        *)
(*                                                                         *)
(* The interrupts may come between any two accesses of the main loop to    *)
(* the ring and to hw_status_: one round of try_fill_receiver's loop is a  *)
(* step, as is each part of run().  The main loop itself does one thing at *)
(* a time: a task's await_ready, a run() or a timer is done before it goes *)
(* on to the next.                                                         *)
(*                                                                         *)
(* A task stands for its awaiter, a byte for its number in the order of    *)
(* arrival.  SpscRing shows that the ring is a sequence of bytes.          *)
(***************************************************************************)
EXTENDS Naturals, Sequences, Functions, Errcode

CONSTANTS Task,       \* the tasks that receive
          None,       \* no task
          Forever,    \* those whose requests have timeout_ms_ = wait_forever
          RingSize,   \* bytes the ring holds: its capacity less one
          MaxLen,     \* bound: length of a request
          MaxBytes    \* bound: bytes that arrive

ASSUME ReceiveAssumption ==
  /\ None \notin Task /\ Forever \subseteq Task
  /\ RingSize \in Nat \ {0} /\ MaxLen \in Nat /\ MaxBytes \in Nat

VARIABLES
  pendingReaders,   \* pending_readers_
  active,           \* active_read_awaiter_
  timer,            \* the request for which rx_timer_ is pending, or None
  run,              \* where run() is: "out", "fill" or "error"
  caller,           \* the task whose await_ready is under way, or None
  ring,             \* rx_ring_buffer_
  hwStatus,         \* hw_status_
  waiting,          \* waiting[t]: t's request is not over
  len, data,        \* len_ of t's awaiter, and the offset_ bytes it was given
  status,           \* status_ of t's awaiter
  arrived           \* history: how many bytes have arrived

readerVars == <<waiting, len, data, status>>
isrVars == <<ring, hwStatus, arrived>>
vars == <<pendingReaders, active, timer, run, caller, readerVars, isrVars>>

Byte == 1 .. MaxBytes

\* Every variable has its type; no reader gets more than it asked for.
TypeOK ==
  /\ pendingReaders \in Seq(Task)
  /\ active \in Task \cup {None} /\ timer \in Task \cup {None}
  /\ run \in {"out", "fill", "error"} /\ caller \in Task \cup {None}
  /\ ring \in Seq(Byte) /\ Len(ring) <= RingSize
  /\ hwStatus \in ErrCode
  /\ waiting \in [Task -> BOOLEAN]
  /\ len \in [Task -> 0 .. MaxLen]
  /\ data \in [Task -> Seq(Byte)] /\ \A t \in Task : Len(data[t]) <= len[t]
  /\ status \in [Task -> ErrCode]
  /\ arrived \in 0 .. MaxBytes

Init ==
  /\ pendingReaders = <<>> /\ active = None /\ timer = None
  /\ run = "out" /\ caller = None
  /\ ring = <<>> /\ hwStatus = ec_success
  /\ waiting = [t \in Task |-> FALSE]
  /\ len = [t \in Task |-> 0] /\ data = [t \in Task |-> <<>>]
  /\ status = [t \in Task |-> ec_success]
  /\ arrived = 0

Min2(a, b) == IF a <= b THEN a ELSE b

-----------------------------------------------------------------------------
(* Interrupts.                                                             *)

\* Mutant: what does not fit overwrites the oldest bytes.
stored_over_oldest(n) ==
  LET all == ring \o [i \in 1 .. n |-> arrived + i] IN
  [i \in 1 .. Min2(Len(all), RingSize) |->
     IF i + RingSize <= Len(all) THEN all[i + RingSize] ELSE all[i]]

\* The ring after a push of n bytes: what does not fit is dropped, silently.
stored(n) == ring \o [i \in 1 .. Min2(n, RingSize - Len(ring)) |-> arrived + i]

\* on_rx_idle or on_rx_complete with n new bytes.
OnRxBytes(n) ==
  /\ arrived + n <= MaxBytes
  /\ ring' = stored(n)
  /\ arrived' = arrived + n
  /\ UNCHANGED <<pendingReaders, active, timer, run, caller, hwStatus, readerVars>>

\* What get_and_clear_hw_error may return.
HwError == {ec_uart_dma, ec_uart_overflow, ec_uart_framing, ec_uart_parity, ec_uart_noise,
            ec_success}

\* on_rx_error: an error not yet looked at is overwritten.
OnRxError ==
  /\ hwStatus' \in HwError
  /\ UNCHANGED <<pendingReaders, active, timer, run, caller, readerVars, ring, arrived>>

-----------------------------------------------------------------------------
(* Parts of the service.                                                   *)

\* The rest of t's request: len_ - offset_.
want(t) == len[t] - Len(data[t])

\* One round of try_fill_receiver for t: move the bytes that are there.
moved(t) == Min2(want(t), Len(ring))
given(t) == [data EXCEPT ![t] = @ \o SubSeq(ring, 1, moved(t))]
ring_after(t) == SubSeq(ring, moved(t) + 1, Len(ring))

\* Then it returns true: never if the ring was empty, even for length 0.
filled(t) == ring # <<>> /\ moved(t) = want(t)

\* Or it returns false; but bytes that arrive after some were moved and before
\* the loop looks again make it go round again.
again(t) == moved(t) > 0 /\ ~filled(t)

\* Mutant: the timer of a request that ended stays pending.
cancel_timer_missing(armed) == armed

\* What is pending after rx_timer_ was cancelled.
cancel_timer(armed) == None

\* complete_active_read
complete_active_read(code) ==
  /\ timer' = cancel_timer(timer)
  /\ status' = [status EXCEPT ![active] = code]
  /\ waiting' = [waiting EXCEPT ![active] = FALSE]
  /\ active' = None

armed_for(t) == IF t \in Forever THEN None ELSE t

-----------------------------------------------------------------------------
(* Steps of the main loop.                                                 *)

Idle == run = "out" /\ caller = None

\* co_await receive(data, n) by a running task.
Receive(t, n) ==
  /\ Idle
  /\ ~waiting[t]
  /\ caller' = t
  /\ len' = [len EXCEPT ![t] = n]
  /\ data' = [data EXCEPT ![t] = <<>>]
  /\ status' = [status EXCEPT ![t] = ec_success]
  /\ waiting' = [waiting EXCEPT ![t] = TRUE]
  /\ UNCHANGED <<pendingReaders, active, timer, run, isrVars>>

\* await_ready already takes bytes, ahead of those who wait; if they are too
\* few, it keeps them and the task suspends.
AwaitReady ==
  /\ caller # None
  /\ data' = given(caller) /\ ring' = ring_after(caller)
  /\ \/ /\ filled(caller)
        /\ waiting' = [waiting EXCEPT ![caller] = FALSE]
        /\ caller' = None
        /\ UNCHANGED pendingReaders
     \/ /\ ~filled(caller)
        /\ pendingReaders' = Append(pendingReaders, caller)
        /\ caller' = None
        /\ UNCHANGED waiting
     \/ /\ again(caller)
        /\ UNCHANGED <<caller, pendingReaders, waiting>>
  /\ UNCHANGED <<active, timer, run, len, status, hwStatus, arrived>>

\* process_read, first half: the next request becomes active, if it is not
\* full at once.  Another round of its loop is as good as the second half.
ActivateReader ==
  /\ Idle
  /\ run' = "fill"
  /\ IF active = None /\ pendingReaders # <<>>
     THEN LET r == Head(pendingReaders) IN
          /\ pendingReaders' = Tail(pendingReaders)
          /\ data' = given(r) /\ ring' = ring_after(r)
          /\ IF filled(r)
             THEN /\ status' = [status EXCEPT ![r] = ec_success]
                  /\ waiting' = [waiting EXCEPT ![r] = FALSE]
                  /\ UNCHANGED <<active, timer>>
             ELSE /\ active' = r /\ timer' = armed_for(r)
                  /\ UNCHANGED <<waiting, status>>
     ELSE UNCHANGED <<pendingReaders, active, timer, ring, waiting, data, status>>
  /\ UNCHANGED <<caller, hwStatus, len, arrived>>

\* process_read, second half.
FillActive ==
  /\ run = "fill"
  /\ \/ /\ active = None
        /\ run' = "error"
        /\ UNCHANGED <<active, timer, ring, waiting, data, status>>
     \/ /\ active # None
        /\ data' = given(active) /\ ring' = ring_after(active)
        /\ \/ filled(active) /\ run' = "error" /\ complete_active_read(ec_success)
           \/ ~filled(active) /\ run' = "error" /\ UNCHANGED <<active, timer, waiting, status>>
           \/ again(active) /\ UNCHANGED <<run, active, timer, waiting, status>>
  /\ UNCHANGED <<pendingReaders, caller, hwStatus, len, arrived>>

\* Mutant: the code is not looked at.
is_error_always == TRUE

\* What process_error goes on for: by their values, ec_uart_dma is success.
is_error == hwStatus # ec_success

\* process_error: an error with nobody to tell is forgotten.
ProcessError ==
  /\ run = "error"
  /\ run' = "out"
  /\ hwStatus' = ec_success
  /\ IF is_error /\ active # None
     THEN complete_active_read(hwStatus)
     ELSE UNCHANGED <<active, timer, waiting, status>>
  /\ UNCHANGED <<pendingReaders, caller, ring, len, data, arrived>>

\* The timer service fires rx_timer_ and calls on_rx_timeout.
OnRxTimeout ==
  /\ Idle
  /\ timer # None
  /\ IF active = None
     THEN timer' = None /\ UNCHANGED <<active, waiting, status>>
     ELSE complete_active_read(ec_timeout)
  /\ UNCHANGED <<pendingReaders, run, caller, len, data, isrVars>>

\* Mutant: the requests in the queue are dropped, not resumed.
stop_releases_active == {active}

\* Those whom stop resumes.
stop_releases == {active} \cup Range(pendingReaders)

\* stop.  The bytes in the ring stay, and DMA transfers go on.
Stop ==
  /\ Idle
  /\ pendingReaders' = <<>>
  /\ active' = None
  /\ timer' = IF active = None THEN timer ELSE cancel_timer(timer)
  /\ status' = [t \in Task |-> IF t \in stop_releases THEN ec_canceled ELSE status[t]]
  /\ waiting' = [t \in Task |-> waiting[t] /\ t \notin stop_releases]
  /\ UNCHANGED <<run, caller, len, data, isrVars>>

Run == ActivateReader \/ FillActive \/ ProcessError

Next ==
  \/ \E n \in 1 .. MaxBytes : OnRxBytes(n)
  \/ OnRxError
  \/ \E t \in Task, n \in 0 .. MaxLen : Receive(t, n)
  \/ AwaitReady
  \/ Run
  \/ OnRxTimeout
  \/ Stop

Spec == Init /\ [][Next]_vars

\* The main loop comes round to run and to the timer service again and again,
\* whatever the tasks do in between.  Nothing is assumed of the line.
FairSpec == Spec /\ WF_vars(AwaitReady) /\ SF_vars(Run) /\ SF_vars(OnRxTimeout)

-----------------------------------------------------------------------------
\* A task that is told success has all the bytes it asked for.
SuccessMeansFilled ==
  \A t \in Task : ~waiting[t] /\ status[t] = ec_success => Len(data[t]) = len[t]

Increasing(s) == \A i \in 1 .. Len(s) - 1 : s[i] < s[i + 1]

\* Bytes go to the readers in the order of arrival and never twice: each reader's
\* bytes are in order, no two readers share one, and the ring holds later ones.
BytesOnceInOrder ==
  /\ Increasing(ring) /\ \A t \in Task : Increasing(data[t])
  /\ \A t, u \in Task : t # u => Range(data[t]) \cap Range(data[u]) = {}
  /\ \A t \in Task : \A b \in Range(data[t]), c \in Range(ring) : b < c

\* The timer is pending for the active request, if that has a timeout, and for
\* no other: a timeout cannot end a request it was not armed for.
TimerIsForActive ==
  timer = IF active \in Task \ Forever THEN active ELSE None

\* What makes these invariants inductive: whoever may still be given bytes is
\* suspended and in one place only,
Suspended ==
  /\ IsInjective(pendingReaders)
  /\ \A t \in Range(pendingReaders) : waiting[t] /\ t # active /\ t # caller
  /\ active # None => waiting[active] /\ active # caller
  /\ caller # None => waiting[caller]

\* and the bytes of the readers and of the ring are earlier ones of the line, as
\* a sequence at any distance, not only from one byte to the next.
Ascending(s) == \A i, j \in DOMAIN s : i < j => s[i] < s[j]

StreamSplit ==
  /\ Ascending(ring) /\ \A b \in Range(ring) : b <= arrived
  /\ \A t \in Task : Ascending(data[t]) /\ \A b \in Range(data[t]) : b <= arrived
  /\ \A t \in Task : \A b \in Range(data[t]), c \in Range(ring) : b < c
  /\ \A t, u \in Task : t # u => Range(data[t]) \cap Range(data[u]) = {}

IInv == TypeOK /\ Suspended /\ StreamSplit /\ SuccessMeansFilled /\ TimerIsForActive

\* Every suspended reader ends, whatever the line does; only an active request
\* without a timeout can keep those behind it waiting.
OnlyUntimedRequestsBlock ==
  \A t \in Task : waiting[t] ~> ~waiting[t] \/ active \in Forever
=============================================================================
