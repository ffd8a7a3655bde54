------------------------- MODULE UartTransmitProofs -------------------------
(***************************************************************************)
(* The transmitting service keeps hands off buffers it has given back, and *)
(* says success only of what was sent, for any number of tasks, any        *)
(* lengths and any order of interrupts, timeouts and stops.                *)
(***************************************************************************)
EXTENDS UartTransmit, QueueLemmas

LEMMA InitIInv == Init => IInv
PROOF
  <1> SUFFICES ASSUME Init PROVE IInv
    OBVIOUS
  <1> USE TransmitAssumption DEF Init
  <1>0. 0 \in 0 .. MaxChunks /\ <<>> \in Seq(Task)
    OBVIOUS
  <1>1. TypeOK
    BY <1>0 DEF TypeOK
  <1>2. Accounting
    BY DEF Accounting, Range, IsInjective
  <1>3. BufferOutlivesTransfer /\ SuccessMeansSent /\ ReadyMeansIdle /\ TimerIsForActive
    BY DEF BufferOutlivesTransfer, SuccessMeansSent, ReadyMeansIdle, TimerIsForActive
  <1> QED
    BY <1>1, <1>2, <1>3 DEF IInv

LEMMA TransmitKeeps ==
  ASSUME IInv, NEW t \in Task, NEW n \in 0 .. MaxChunks, Transmit(t, n)
  PROVE  IInv'
PROOF
  <1> USE TransmitAssumption
  <1>t. TypeOK
    BY DEF IInv
  <1>1. TypeOK'
    <2>1. pendingWriters' \in Seq(Task) /\ 0 \in 0 .. MaxChunks
      BY <1>t, PushFacts DEF TypeOK, Transmit
    <2> QED
      BY <1>t, <2>1 DEF TypeOK, Transmit
  <1>2. t # active /\ t \notin Range(pendingWriters) /\ reading # t
    BY DEF Transmit, IInv, Accounting, BufferOutlivesTransfer
  <1>3. /\ Range(pendingWriters') = Range(pendingWriters) \cup {t}
        /\ IsInjective(pendingWriters')
    BY <1>t, <1>2, PushFacts DEF TypeOK, Transmit, IInv, Accounting
  <1>4. /\ \A u \in Task \ {t} : /\ outcome'[u] = outcome[u] /\ left'[u] = left[u]
                                 /\ sent'[u] = sent[u] /\ asked'[u] = asked[u]
        /\ outcome'[t] = "waiting" /\ left'[t] = n /\ asked'[t] = n /\ sent'[t] = 0
    BY <1>t DEF TypeOK, Transmit
  <1>5. Range(pendingWriters) \subseteq Task
    BY <1>t DEF TypeOK, Range
  <1>6. Accounting'
    <2>1. active # None =>
            /\ Waiting(active)'
            /\ asked'[active] = sent'[active] + left'[active] + (IF reading = None THEN 0 ELSE 1)
      <3> SUFFICES ASSUME active # None
                   PROVE  /\ Waiting(active)'
                          /\ asked'[active] = sent'[active] + left'[active]
                                                + (IF reading = None THEN 0 ELSE 1)
        OBVIOUS
      <3>1. active \in Task \ {t} /\ active' = active
        BY <1>t, <1>2 DEF TypeOK, Transmit
      <3>2. Waiting(active)'
        BY <1>4, <3>1 DEF IInv, Accounting, Waiting
      <3>3. asked[active] = sent[active] + left[active] + (IF reading = None THEN 0 ELSE 1)
        BY DEF IInv, Accounting
      <3> QED
        BY <1>4, <3>1, <3>2, <3>3
    <2>2. \A u \in Range(pendingWriters') :
            u # active /\ Waiting(u)' /\ sent'[u] = 0 /\ left'[u] = asked'[u]
      <3> SUFFICES ASSUME NEW u \in Range(pendingWriters')
                   PROVE  u # active /\ Waiting(u)' /\ sent'[u] = 0 /\ left'[u] = asked'[u]
        OBVIOUS
      <3>1. CASE u = t
        BY <1>2, <1>4, <3>1 DEF Waiting
      <3>2. CASE u # t
        BY <1>3, <1>4, <1>5, <3>2 DEF IInv, Accounting, Waiting
      <3> QED
        BY <3>1, <3>2
    <2> QED
      BY <1>3, <2>1, <2>2 DEF Accounting, Transmit, IInv
  <1>7. BufferOutlivesTransfer'
    BY <1>t, <1>2, <1>4 DEF TypeOK, IInv, BufferOutlivesTransfer, Transmit, Waiting
  <1>8. SuccessMeansSent'
    BY <1>4 DEF IInv, SuccessMeansSent
  <1>9. ReadyMeansIdle' /\ TimerIsForActive'
    BY DEF IInv, ReadyMeansIdle, TimerIsForActive, Transmit
  <1> QED
    BY <1>1, <1>6, <1>7, <1>8, <1>9 DEF IInv

\* What process_write does once it has an active request: t was active with
\* its timer, or has just left the queue.
LEMMA ProceedKeeps ==
  ASSUME IInv, writeReady, ~storing, NEW t \in Task, reading = None,
         Waiting(t), asked[t] = sent[t] + left[t],
         pendingWriters' \in Seq(Task), IsInjective(pendingWriters'),
         Range(pendingWriters') \subseteq Range(pendingWriters) \ {t},
         active # None => active = t,
         Proceed(t, armed_for(t)), UNCHANGED <<writeReady, asked>>
  PROVE  IInv'
PROOF
  <1> USE TransmitAssumption
  <1>t. TypeOK
    BY DEF IInv
  <1>d. device = "ready"
    BY DEF IInv, ReadyMeansIdle
  <1>r. Range(pendingWriters') \subseteq Task
    BY DEF Range
  <1>p. \A u \in Range(pendingWriters') :
          u # t /\ Waiting(u) /\ sent[u] = 0 /\ left[u] = asked[u]
    BY DEF IInv, Accounting
  <1>n. /\ left[t] \in Nat /\ sent[t] \in Nat /\ asked[t] \in Nat /\ MaxChunks \in Nat
        /\ left[t] <= MaxChunks
    BY <1>t DEF TypeOK
  <1>1. CASE /\ has_more(t) /\ left' = [left EXCEPT ![t] = @ - 1]
             /\ start_transmit(t) /\ active' = t /\ timer' = armed_for(t)
             /\ storing' = TRUE /\ UNCHANGED outcome
    <2>1. left'[t] = left[t] - 1 /\ left'[t] \in 0 .. MaxChunks
      BY <1>1, <1>t, <1>n DEF TypeOK, has_more
    <2>2. \A u \in Task \ {t} : left'[u] = left[u]
      BY <1>1, <1>t DEF TypeOK
    <2>3. TypeOK'
      <3>1. left' \in [Task -> 0 .. MaxChunks]
        BY <1>1, <1>t, <2>1 DEF TypeOK
      <3> QED
        BY <1>1, <1>t, <3>1 DEF TypeOK, start_transmit, armed_for
    <2>4. Accounting'
      <3>1. asked'[t] = sent'[t] + left'[t] + 1
        BY <1>1, <1>n, <2>1 DEF start_transmit
      <3>2. \A u \in Range(pendingWriters') :
              u # t /\ Waiting(u)' /\ sent'[u] = 0 /\ left'[u] = asked'[u]
        BY <1>1, <1>p, <1>r, <2>2 DEF start_transmit, Waiting
      <3> QED
        BY <1>1, <3>1, <3>2 DEF Accounting, start_transmit, Waiting
    <2>5. BufferOutlivesTransfer' /\ ReadyMeansIdle' /\ TimerIsForActive'
      BY <1>1 DEF start_transmit, BufferOutlivesTransfer, ReadyMeansIdle, TimerIsForActive,
                  Waiting, armed_for
    <2>6. SuccessMeansSent'
      BY <1>1 DEF IInv, SuccessMeansSent, start_transmit
    <2> QED
      BY <2>3, <2>4, <2>5, <2>6 DEF IInv
  <1>2. ASSUME NEW s \in {"success", "unknown_hw_error"},
               complete_active_write(t, armed_for(t), s), UNCHANGED <<storing, deviceVars>>,
               left' \in [Task -> 0 .. MaxChunks], \A u \in Task \ {t} : left'[u] = left[u],
               s = "success" => left[t] = 0
        PROVE  IInv'
    <2>1. /\ \A u \in Task \ {t} : outcome'[u] = outcome[u]
          /\ outcome'[t] = s /\ active' = None /\ timer' = None
          /\ device' = device /\ reading' = None /\ sent' = sent /\ storing' = storing
      BY <1>2, <1>t DEF TypeOK, complete_active_write, cancel_timer, deviceVars
    <2>2. TypeOK'
      BY <1>2, <1>t DEF TypeOK, complete_active_write, cancel_timer, deviceVars
    <2>3. Accounting'
      <3>1. \A u \in Range(pendingWriters') :
              u # active' /\ Waiting(u)' /\ sent'[u] = 0 /\ left'[u] = asked'[u]
        BY <1>2, <1>p, <1>r, <2>1 DEF Waiting
      <3> QED
        BY <1>d, <2>1, <3>1 DEF Accounting
    <2>4. SuccessMeansSent'
      BY <1>2, <1>n, <2>1 DEF IInv, SuccessMeansSent
    <2>5. BufferOutlivesTransfer' /\ ReadyMeansIdle' /\ TimerIsForActive'
      BY <1>d, <2>1 DEF BufferOutlivesTransfer, ReadyMeansIdle, TimerIsForActive
    <2> QED
      BY <2>2, <2>3, <2>4, <2>5 DEF IInv
  <1>3. CASE /\ has_more(t) /\ left' = [left EXCEPT ![t] = @ - 1]
             /\ complete_active_write(t, armed_for(t), "unknown_hw_error")
             /\ UNCHANGED <<storing, deviceVars>>
    <2>1. left' \in [Task -> 0 .. MaxChunks]
      BY <1>3, <1>t, <1>n DEF TypeOK, has_more
    <2>2. \A u \in Task \ {t} : left'[u] = left[u]
      BY <1>3, <1>t DEF TypeOK
    <2> QED
      BY <1>2, <1>3, <2>1, <2>2
  <1>4. CASE /\ ~has_more(t) /\ complete_active_write(t, armed_for(t), "success")
             /\ UNCHANGED <<left, storing, deviceVars>>
    <2>1. left[t] = 0
      BY <1>4, <1>n DEF has_more
    <2> QED
      BY <1>2, <1>4, <1>t, <2>1 DEF TypeOK
  <1> QED
    BY <1>1, <1>3, <1>4 DEF Proceed

LEMMA ProcessWriteKeeps == IInv /\ ProcessWrite => IInv'
PROOF
  <1> SUFFICES ASSUME IInv, ProcessWrite PROVE IInv'
    OBVIOUS
  <1> USE TransmitAssumption
  <1>t. TypeOK
    BY DEF IInv
  <1>d. writeReady /\ ~storing /\ device = "ready" /\ reading = None
    BY DEF ProcessWrite, IInv, ReadyMeansIdle, Accounting
  <1>1. CASE active # None /\ Proceed(active, timer) /\ UNCHANGED pendingWriters
    <2>1. active \in Task /\ timer = armed_for(active)
      BY <1>1, <1>t DEF TypeOK, IInv, TimerIsForActive, armed_for
    <2>2. Waiting(active) /\ asked[active] = sent[active] + left[active]
      BY <1>1, <1>d, <1>t, <2>1 DEF TypeOK, IInv, Accounting
    <2>3. /\ pendingWriters' \in Seq(Task) /\ IsInjective(pendingWriters')
          /\ Range(pendingWriters') \subseteq Range(pendingWriters) \ {active}
      BY <1>1, <1>t DEF TypeOK, IInv, Accounting
    <2>4. UNCHANGED <<writeReady, asked>>
      BY DEF ProcessWrite
    <2> QED
      BY <1>1, <1>d, <2>1, <2>2, <2>3, <2>4, ProceedKeeps
  <1>2. CASE /\ active = None /\ pendingWriters # <<>>
             /\ pendingWriters' = Tail(pendingWriters)
             /\ Proceed(Head(pendingWriters), armed_for(Head(pendingWriters)))
    <2> DEFINE t == Head(pendingWriters)
    <2>1. /\ t \in Task /\ t \in Range(pendingWriters)
          /\ pendingWriters' \in Seq(Task) /\ IsInjective(pendingWriters')
          /\ Range(pendingWriters') \subseteq Range(pendingWriters) \ {t}
      BY <1>2, <1>t, PopFacts DEF TypeOK, IInv, Accounting
    <2>2. Waiting(t) /\ sent[t] = 0 /\ left[t] = asked[t]
      BY <2>1 DEF IInv, Accounting
    <2>3. asked[t] = sent[t] + left[t]
      BY <1>t, <2>1, <2>2 DEF TypeOK
    <2>4. UNCHANGED <<writeReady, asked>> /\ Proceed(t, armed_for(t))
      BY <1>2 DEF ProcessWrite
    <2> HIDE DEF t
    <2> QED
      BY <1>2, <1>d, <2>1, <2>2, <2>3, <2>4, ProceedKeeps
  <1> QED
    BY <1>1, <1>2 DEF ProcessWrite

\* The end of the active request by something else than process_write.
LEMMA EndKeeps ==
  ASSUME IInv, NEW status \in {"timeout", "canceled"}, device' = "ready", reading' = None,
         active' = None, timer' = None, TypeOK',
         UNCHANGED <<storing, left, asked, sent>>, ~storing,
         IsInjective(pendingWriters'), Range(pendingWriters') \subseteq Range(pendingWriters),
         \A t \in Task : outcome'[t] = outcome[t] \/ outcome'[t] = status,
         \A t \in Range(pendingWriters') : outcome'[t] = outcome[t]
  PROVE  IInv'
PROOF
  <1> USE TransmitAssumption
  <1>r. Range(pendingWriters') \subseteq Task
    BY DEF TypeOK, Range
  <1>1. Accounting'
    <2>1. \A t \in Range(pendingWriters') :
            t # None /\ Waiting(t)' /\ sent'[t] = 0 /\ left'[t] = asked'[t]
      BY <1>r DEF IInv, Accounting, Waiting
    <2> QED
      BY <2>1 DEF Accounting
  <1>2. SuccessMeansSent'
    BY DEF IInv, SuccessMeansSent
  <1>3. BufferOutlivesTransfer' /\ ReadyMeansIdle' /\ TimerIsForActive'
    BY DEF BufferOutlivesTransfer, ReadyMeansIdle, TimerIsForActive
  <1> QED
    BY <1>1, <1>2, <1>3 DEF IInv

LEMMA OnTxTimeoutKeeps == IInv /\ OnTxTimeout => IInv'
PROOF
  <1> SUFFICES ASSUME IInv, OnTxTimeout PROVE IInv'
    OBVIOUS
  <1> USE TransmitAssumption
  <1>t. TypeOK
    BY DEF IInv
  <1>1. active \in Task
    BY <1>t DEF OnTxTimeout, IInv, TimerIsForActive, TypeOK
  <1>2. /\ device' = "ready" /\ reading' = None /\ active' = None /\ timer' = None
        /\ outcome' = [outcome EXCEPT ![active] = "timeout"] /\ writeReady' = TRUE
        /\ UNCHANGED <<pendingWriters, storing, left, asked, irq, sent>> /\ ~storing
    BY <1>1 DEF OnTxTimeout, abort_transmit, complete_active_write, cancel_timer,
                ready_after_abort
  <1>3. TypeOK'
    BY <1>1, <1>2, <1>t DEF TypeOK
  <1>4. /\ \A t \in Task : outcome'[t] = outcome[t] \/ outcome'[t] = "timeout"
        /\ \A t \in Range(pendingWriters) : outcome'[t] = outcome[t]
    <2>1. Range(pendingWriters) \subseteq Task
      BY <1>t DEF TypeOK, Range
    <2> QED
      BY <1>2, <1>t, <2>1 DEF TypeOK, IInv, Accounting
  <1>5. IsInjective(pendingWriters') /\ Range(pendingWriters') \subseteq Range(pendingWriters)
    BY <1>2 DEF IInv, Accounting
  <1> QED
    BY <1>2, <1>3, <1>4, <1>5, EndKeeps

LEMMA StopKeeps == IInv /\ Stop => IInv'
PROOF
  <1> SUFFICES ASSUME IInv, Stop PROVE IInv'
    OBVIOUS
  <1> USE TransmitAssumption
  <1>t. TypeOK
    BY DEF IInv
  <1>1. device' = "ready" /\ reading' = None /\ active' = None /\ timer' = None
    <2>1. CASE active = None
      <3>1. device = "ready" /\ reading = None /\ timer = None
        BY <2>1 DEF IInv, Accounting, TimerIsForActive
      <3> QED
        BY <2>1, <3>1 DEF Stop
    <2>2. CASE active # None
      BY <2>2 DEF Stop, abort_transmit, cancel_timer
    <2> QED
      BY <2>1, <2>2
  <1>2. /\ pendingWriters' = <<>> /\ writeReady' \in BOOLEAN /\ irq' = FALSE
        /\ outcome' = [t \in Task |->
             IF t \in Range(pendingWriters) \cup {active} THEN "canceled" ELSE outcome[t]]
        /\ UNCHANGED <<storing, left, asked, sent>> /\ ~storing
    BY <1>t DEF Stop, ready_after_abort, TypeOK
  <1>3. TypeOK'
    <2>1. outcome' \in [Task -> {"waiting", "success", "timeout", "canceled",
                                  "unknown_hw_error"}]
      BY <1>2, <1>t DEF TypeOK
    <2>2. pendingWriters' \in Seq(Task)
      BY <1>2
    <2> QED
      BY <1>1, <1>2, <1>t, <2>1, <2>2 DEF TypeOK
  <1>4. IsInjective(pendingWriters') /\ Range(pendingWriters') = {}
    BY <1>2 DEF IsInjective, Range
  <1>5. \A t \in Task : outcome'[t] = outcome[t] \/ outcome'[t] = "canceled"
    BY <1>2
  <1> QED
    BY <1>1, <1>2, <1>3, <1>4, <1>5, EndKeeps

LEMMA DeviceKeeps ==
  IInv /\ (TransferEnds \/ OnTxComplete \/ StoreNotReady \/ Start) => IInv'
PROOF
  <1> SUFFICES ASSUME IInv, TransferEnds \/ OnTxComplete \/ StoreNotReady \/ Start
               PROVE  IInv'
    OBVIOUS
  <1> USE TransmitAssumption
  <1>t. TypeOK
    BY DEF IInv
  <1>1. CASE TransferEnds
    <2>1. reading \in Task /\ reading = active /\ Waiting(active)
      BY <1>1, <1>t DEF TransferEnds, TypeOK, IInv, Accounting, BufferOutlivesTransfer
    <2>2. /\ asked[active] = sent[active] + left[active] + 1
          /\ asked[active] \in 0 .. MaxChunks /\ sent[active] \in Nat /\ left[active] \in Nat
          /\ MaxChunks \in Nat
      BY <1>t, <2>1 DEF TypeOK, IInv, Accounting
    <2>3. /\ device' = "sent" /\ reading' = None
          /\ UNCHANGED <<serviceVars, taskVars, irq>>
          /\ sent' = [sent EXCEPT ![active] = @ + 1]
      BY <1>1, <2>1 DEF TransferEnds
    <2>4. sent'[active] = sent[active] + 1 /\ \A t \in Task \ {active} : sent'[t] = sent[t]
      BY <1>t, <2>1, <2>3 DEF TypeOK
    <2>5. sent[active] + 1 \in 0 .. MaxChunks
      BY <2>2
    <2>6. TypeOK'
      BY <1>t, <2>1, <2>3, <2>5 DEF TypeOK, serviceVars, taskVars
    <2>7. Accounting'
      <3>1. asked'[active] = sent'[active] + left'[active]
        BY <2>2, <2>3, <2>4 DEF taskVars
      <3>2. Range(pendingWriters) \subseteq Task
        BY <1>t DEF TypeOK, Range
      <3>3. \A t \in Range(pendingWriters) : t # active /\ sent'[t] = 0
        BY <2>4, <3>2 DEF IInv, Accounting
      <3>4. left'[active] \in Nat /\ sent'[active] \in Nat
        BY <2>2, <2>3, <2>4 DEF taskVars
      <3>5. asked'[active] = sent'[active] + left'[active] + (IF reading' = None THEN 0 ELSE 1)
        BY <2>3, <3>1, <3>4
      <3> QED
        BY <2>1, <2>3, <3>3, <3>5 DEF IInv, Accounting, Waiting, serviceVars, taskVars
    <2>8. SuccessMeansSent'
      BY <2>1, <2>3, <2>4 DEF IInv, SuccessMeansSent, Waiting, taskVars
    <2>9. BufferOutlivesTransfer' /\ ReadyMeansIdle' /\ TimerIsForActive'
      BY <1>1, <2>3 DEF IInv, BufferOutlivesTransfer, ReadyMeansIdle, TimerIsForActive,
                        TransferEnds, serviceVars
    <2> QED
      BY <2>6, <2>7, <2>8, <2>9 DEF IInv
  <1>2. CASE OnTxComplete
    <2>1. reading = None
      BY <1>2 DEF OnTxComplete, IInv, Accounting
    <2> QED
      BY <1>2, <1>t, <2>1 DEF IInv, TypeOK, Accounting, BufferOutlivesTransfer,
        SuccessMeansSent, ReadyMeansIdle, TimerIsForActive, OnTxComplete, Waiting, taskVars
  <1>3. CASE StoreNotReady
    BY <1>3, <1>t DEF IInv, TypeOK, Accounting, BufferOutlivesTransfer, SuccessMeansSent,
      ReadyMeansIdle, TimerIsForActive, StoreNotReady, ready_after_start, Waiting, taskVars,
      deviceVars
  <1>4. CASE Start
    BY <1>4, <1>t DEF IInv, TypeOK, Accounting, BufferOutlivesTransfer, SuccessMeansSent,
      ReadyMeansIdle, TimerIsForActive, Start, Waiting, taskVars, serviceVars
  <1> QED
    BY <1>1, <1>2, <1>3, <1>4

\* The inductive invariant holds in every state.
THEOREM Invariance == Spec => []IInv
PROOF
  <1>1. IInv /\ [Next]_vars => IInv'
    <2>1. IInv /\ UNCHANGED vars => IInv'
      BY DEF IInv, TypeOK, Accounting, BufferOutlivesTransfer, SuccessMeansSent,
        ReadyMeansIdle, TimerIsForActive, Waiting, vars, serviceVars, taskVars, deviceVars
    <2>2. IInv /\ (\E t \in Task, n \in 0 .. MaxChunks : Transmit(t, n)) => IInv'
      BY TransmitKeeps
    <2> QED
      BY <2>1, <2>2, ProcessWriteKeeps, OnTxTimeoutKeeps, StopKeeps, DeviceKeeps DEF Next
  <1> QED
    BY <1>1, InitIInv, PTL DEF Spec

\* Types, for any set of tasks and any bound on the length of requests.
THEOREM TypeCorrect == Spec => []TypeOK
  BY Invariance, PTL DEF IInv

\* The device reads only from the buffer of a task that is still suspended.
THEOREM BuffersSafe == Spec => []BufferOutlivesTransfer
  BY Invariance, PTL DEF IInv

\* Success is reported of requests that are on the wire whole.
THEOREM SuccessIsTrue == Spec => []SuccessMeansSent
  BY Invariance, PTL DEF IInv

\* write_ready_ is never set over a transfer, whenever the interrupt comes.
THEOREM NoOverlap == Spec => []ReadyMeansIdle
  BY Invariance, PTL DEF IInv

\* A timeout ends no request but the one it was armed for.
THEOREM TimeoutsHitTheirRequest == Spec => []TimerIsForActive
  BY Invariance, PTL DEF IInv
=============================================================================
