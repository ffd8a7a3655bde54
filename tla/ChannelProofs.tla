--------------------------- MODULE ChannelProofs ---------------------------
(***************************************************************************)
(* The channel and its scheduler never lose a task and never link a node   *)
(* twice, for every number of tasks, every capacity and every behaviour of *)
(* the tasks.  IInv is the inductive invariant.                            *)
(***************************************************************************)
EXTENDS Channel, QueueLemmas

USE ChannelAssumption DEF ChannelAssumption

LEMMA InitIInv == Init => IInv
PROOF
  <1> SUFFICES ASSUME Init PROVE IInv
    OBVIOUS
  <1>1. Range(<<>>) = {} /\ IsInjective(<<>>)
    BY DEF Range, IsInjective
  <1>2. /\ buffer \in Seq(Value) /\ Len(buffer) = 0
        /\ sends \in Seq(SendFate) /\ Len(sends) = 0
        /\ pendingReaders \in Seq(Task) /\ pendingWriters \in Seq(Task)
        /\ readyQueue \in Seq(Task) /\ delivered \in Seq(Value)
    BY EmptySeq DEF Init
  <1>3. TypeOK
    <2>1. /\ await \in [Task -> SuspensionPoint]
          /\ value \in [Task -> Value \cup {NoValue}]
          /\ status \in [Task -> ErrCode]
          /\ running \in Task \cup {NoTask} /\ closed \in BOOLEAN
      BY DEF Init, SuspensionPoint, ErrCode
    <2> QED BY <1>2, <2>1 DEF TypeOK
  <1>4. NodesLinkedOnce /\ QueuesMatchSuspension
    BY <1>1 DEF Init, NodesLinkedOnce, QueuesMatchSuspension
  <1>5. NoCrossWaiting /\ NoTaskForgotten
    BY DEF Init, NoCrossWaiting, NoTaskForgotten
  <1> QED BY <1>3, <1>4, <1>5 DEF IInv

-----------------------------------------------------------------------------
(* One lemma per action.  Each names the ranges of the queues after the    *)
(* step and reads the conjuncts of IInv off them.                          *)

LEMMA TrySendIInv == IInv /\ TrySend => IInv'
PROOF
  <1> SUFFICES ASSUME IInv, TrySend PROVE IInv'
    OBVIOUS
  <1> USE DEF IInv
  <1>1. NextValue \in Value /\ sends' \in Seq(SendFate) /\ Len(sends') = Len(sends) + 1
    <2>1. Len(sends) \in Nat /\ "prompt" \in SendFate
      BY LenProperties DEF TypeOK, SendFate
    <2>2. sends' = Append(sends, "prompt") /\ Len(sends) < MaxSends
      BY DEF TrySend
    <2> QED BY <2>1, <2>2, AppendProperties DEF TypeOK, NextValue, Value
  <1>2. CASE pendingReaders # <<>>
    <2> DEFINE r == Head(pendingReaders)
    <2>1. /\ ~closed /\ closed' = closed /\ buffer' = buffer /\ pendingWriters' = pendingWriters
          /\ value' = [value EXCEPT ![r] = NextValue]
          /\ delivered' = Append(delivered, NextValue)
          /\ pendingReaders' = Tail(pendingReaders)
          /\ status' = [status EXCEPT ![r] = ec_success]
          /\ readyQueue' = Append(readyQueue, r)
          /\ running' = running /\ await' = await
      BY <1>2 DEF TrySend, try_write, hand_to_reader, dequeue_pending_read, on_resume
    <2>2. /\ r \in Task /\ r \in Range(pendingReaders)
          /\ pendingReaders' \in Seq(Task)
          /\ Range(pendingReaders) = Range(pendingReaders') \cup {r}
          /\ IsInjective(pendingReaders') /\ r \notin Range(pendingReaders')
      BY <1>2, <2>1, PopFacts DEF TypeOK, NodesLinkedOnce
    <2>3. /\ readyQueue' \in Seq(Task)
          /\ Range(readyQueue') = Range(readyQueue) \cup {r}
          /\ IsInjective(readyQueue')
      <3>1. r \notin Range(readyQueue)
        BY <2>2 DEF NodesLinkedOnce
      <3> QED BY <2>1, <2>2, <3>1, PushFacts DEF TypeOK, NodesLinkedOnce
    <2>4. TypeOK'
      <3>1. delivered' \in Seq(Value)
        BY <1>1, <2>1, PushFacts DEF TypeOK
      <3>2. status' \in [Task -> ErrCode] /\ value' \in [Task -> Value \cup {NoValue}]
        BY <1>1, <2>1, <2>2 DEF TypeOK, ErrCode
      <3>3. Len(sends') <= MaxSends
        BY <1>1, LenProperties DEF TrySend, TypeOK
      <3> QED BY <1>1, <2>1, <2>2, <2>3, <3>1, <3>2, <3>3 DEF TypeOK
    <2>5. NodesLinkedOnce'
      BY <2>1, <2>2, <2>3 DEF NodesLinkedOnce, Linked
    <2>6. NoCrossWaiting'
      BY <1>2, <2>1 DEF NoCrossWaiting
    <2>7. NoTaskForgotten'
      BY <2>1, <2>2, <2>3 DEF NoTaskForgotten, Linked
    <2>8. QueuesMatchSuspension'
      BY <2>1, <2>2, <1>1 DEF QueuesMatchSuspension, NodesLinkedOnce, TypeOK
    <2> QED BY <2>4, <2>5, <2>6, <2>7, <2>8
  <1>3. CASE pendingReaders = <<>>
    <2>1. /\ ~closed /\ closed' = closed /\ has_room
          /\ buffer' = Append(buffer, NextValue)
          /\ pendingReaders' = <<>>
          /\ UNCHANGED <<pendingReaders, pendingWriters, readyQueue, running,
                         await, value, status, delivered>>
      BY <1>3 DEF TrySend, try_write
    <2>2. buffer' \in Seq(Value) /\ Len(buffer') <= Capacity
      BY <1>1, <2>1, LenProperties, AppendProperties DEF TypeOK, has_room
    <2>3. TypeOK'
      <3>1. Len(sends') <= MaxSends
        BY <1>1, LenProperties DEF TrySend, TypeOK
      <3> QED BY <1>1, <2>1, <2>2, <3>1 DEF TypeOK
    <2>4. NodesLinkedOnce' /\ NoTaskForgotten' /\ QueuesMatchSuspension'
      BY <2>1 DEF NodesLinkedOnce, NoTaskForgotten, QueuesMatchSuspension, Linked
    <2>5. NoCrossWaiting'
      BY <2>1 DEF NoCrossWaiting
    <2> QED BY <2>3, <2>4, <2>5
  <1> QED BY <1>2, <1>3

LEMMA TryReadIInv == IInv /\ TryRead => IInv'
PROOF
  <1> SUFFICES ASSUME IInv, TryRead PROVE IInv'
    OBVIOUS
  <1> USE DEF IInv
  <1>1. UNCHANGED <<closed, pendingReaders, value, running, await, sends>>
    BY DEF TryRead, try_read
  <1>2. buffer' \in Seq(Value) /\ Len(buffer') <= Capacity /\ (buffer = <<>> => buffer' = <<>>)
    <2>1. CASE buffer # <<>>
      <3>1. buffer' = Tail(buffer)
        BY <2>1 DEF TryRead, try_read, pop_front
      <3>2. Len(buffer) \in Nat
        BY LenProperties DEF TypeOK
      <3> QED BY <2>1, <3>1, <3>2, PopFacts DEF TypeOK
    <2>2. CASE buffer = <<>>
      BY <2>2 DEF TryRead, try_read, TypeOK
    <2> QED BY <2>1, <2>2
  <1>3. delivered' \in Seq(Value)
    <2>1. CASE buffer # <<>>
      <3>1. delivered' = Append(delivered, Head(buffer)) /\ Head(buffer) \in Value
        BY <2>1, PopFacts DEF TryRead, try_read, TypeOK
      <3> QED BY <3>1, PushFacts DEF TypeOK
    <2>2. CASE buffer = <<>>
      <3>1. /\ pendingWriters # <<>>
            /\ delivered' = Append(delivered, value[Head(pendingWriters)])
        BY <2>2 DEF TryRead, try_read
      <3>2. value[Head(pendingWriters)] \in Value
        BY <3>1, PopFacts DEF TypeOK, QueuesMatchSuspension
      <3> QED BY <3>1, <3>2, PushFacts DEF TypeOK
    <2> QED BY <2>1, <2>2
  <1>4. CASE pendingWriters # <<>>
    <2> DEFINE w == Head(pendingWriters)
    <2>1. /\ pendingWriters' = Tail(pendingWriters)
          /\ status' = [status EXCEPT ![w] = ec_success]
          /\ readyQueue' = Append(readyQueue, w)
      BY <1>4 DEF TryRead, try_read, dequeue_pending_write, on_resume
    <2>2. /\ w \in Task /\ w \in Range(pendingWriters)
          /\ pendingWriters' \in Seq(Task)
          /\ Range(pendingWriters) = Range(pendingWriters') \cup {w}
          /\ IsInjective(pendingWriters') /\ w \notin Range(pendingWriters')
      BY <1>4, <2>1, PopFacts DEF TypeOK, NodesLinkedOnce
    <2>3. /\ readyQueue' \in Seq(Task)
          /\ Range(readyQueue') = Range(readyQueue) \cup {w}
          /\ IsInjective(readyQueue')
      <3>1. w \notin Range(readyQueue)
        BY <2>2 DEF NodesLinkedOnce
      <3> QED BY <2>1, <2>2, <3>1, PushFacts DEF TypeOK, NodesLinkedOnce
    <2>4. TypeOK'
      <3>1. status' \in [Task -> ErrCode]
        BY <2>1, <2>2 DEF TypeOK, ErrCode
      <3> QED BY <1>1, <1>2, <1>3, <2>2, <2>3, <3>1 DEF TypeOK
    <2>5. NodesLinkedOnce'
      BY <1>1, <2>2, <2>3 DEF NodesLinkedOnce, Linked
    <2>6. NoCrossWaiting'
      BY <1>1, <1>2, <1>4 DEF NoCrossWaiting
    <2>7. NoTaskForgotten'
      BY <1>1, <2>2, <2>3 DEF NoTaskForgotten, Linked
    <2>8. QueuesMatchSuspension'
      BY <1>1, <2>2 DEF QueuesMatchSuspension
    <2> QED BY <2>4, <2>5, <2>6, <2>7, <2>8
  <1>5. CASE pendingWriters = <<>>
    <2>1. UNCHANGED <<pendingWriters, readyQueue, status>>
      BY <1>5 DEF TryRead, try_read
    <2>2. TypeOK'
      BY <1>1, <1>2, <1>3, <2>1 DEF TypeOK
    <2>3. NodesLinkedOnce' /\ NoTaskForgotten' /\ QueuesMatchSuspension'
      BY <1>1, <2>1 DEF NodesLinkedOnce, NoTaskForgotten, QueuesMatchSuspension, Linked
    <2>4. NoCrossWaiting'
      BY <1>1, <1>2, <2>1 DEF NoCrossWaiting
    <2> QED BY <2>2, <2>3, <2>4
  <1> QED BY <1>4, <1>5

LEMMA CloseIInv == IInv /\ Close => IInv'
PROOF
  <1> SUFFICES ASSUME IInv, Close PROVE IInv'
    OBVIOUS
  <1> USE DEF IInv
  <1>1. /\ closed' = TRUE /\ pendingWriters' = <<>> /\ pendingReaders' = <<>>
        /\ readyQueue' = readyQueue \o released
        /\ UNCHANGED <<buffer, running, await, value, sends, delivered>>
    BY DEF Close, history
  <1>2. /\ Range(<<>>) = {} /\ IsInjective(<<>>) /\ <<>> \in Seq(Task)
    BY EmptySeq DEF Range, IsInjective
  <1>3. /\ released \in Seq(Task) /\ IsInjective(released)
        /\ Range(released) = Range(pendingWriters) \cup Range(pendingReaders)
    BY ConcatFacts DEF released, TypeOK, NodesLinkedOnce
  <1>4. /\ readyQueue' \in Seq(Task) /\ IsInjective(readyQueue')
        /\ Range(readyQueue') = Range(readyQueue) \cup Range(released)
    <2>1. Range(readyQueue) \cap Range(released) = {}
      BY <1>3 DEF NodesLinkedOnce
    <2> QED BY <1>1, <1>3, <2>1, ConcatFacts DEF TypeOK, NodesLinkedOnce
  <1>5. TypeOK'
    <2>1. status' \in [Task -> ErrCode]
      BY DEF Close, TypeOK, ErrCode
    <2> QED BY <1>1, <1>2, <1>4, <2>1 DEF TypeOK
  <1>6. NodesLinkedOnce'
    BY <1>1, <1>2, <1>3, <1>4 DEF NodesLinkedOnce, Linked
  <1>7. NoCrossWaiting'
    BY <1>1 DEF NoCrossWaiting
  <1>8. NoTaskForgotten'
    BY <1>1, <1>3, <1>4 DEF NoTaskForgotten, Linked
  <1>9. QueuesMatchSuspension'
    BY <1>1, <1>2 DEF QueuesMatchSuspension
  <1> QED BY <1>5, <1>6, <1>7, <1>8, <1>9

LEMMA StartIInv == ASSUME NEW t \in Task PROVE IInv /\ Start(t) => IInv'
PROOF
  <1> SUFFICES ASSUME IInv, Start(t) PROVE IInv'
    OBVIOUS
  <1> USE DEF IInv
  <1>1. /\ await[t] = "initial" /\ t \notin Range(readyQueue)
        /\ readyQueue' = Append(readyQueue, t)
        /\ UNCHANGED <<buffer, closed, pendingReaders, pendingWriters, running,
                       await, value, status, sends, delivered>>
    BY DEF Start, channelVars, taskVars, history
  <1>2. /\ readyQueue' \in Seq(Task) /\ IsInjective(readyQueue')
        /\ Range(readyQueue') = Range(readyQueue) \cup {t}
    BY <1>1, PushFacts DEF TypeOK, NodesLinkedOnce
  <1>3. TypeOK'
    BY <1>1, <1>2 DEF TypeOK
  <1>4. NodesLinkedOnce'
    BY <1>1, <1>2 DEF NodesLinkedOnce, QueuesMatchSuspension, Linked
  <1>5. NoCrossWaiting' /\ NoTaskForgotten' /\ QueuesMatchSuspension'
    BY <1>1, <1>2 DEF NoCrossWaiting, NoTaskForgotten, QueuesMatchSuspension, Linked
  <1> QED BY <1>3, <1>4, <1>5

LEMMA RunOnceIInv == IInv /\ RunOnce => IInv'
PROOF
  <1> SUFFICES ASSUME IInv, RunOnce PROVE IInv'
    OBVIOUS
  <1> USE DEF IInv
  <1> DEFINE t == Head(readyQueue)
  <1>1. /\ running = NoTask /\ readyQueue # <<>>
        /\ running' = t
        /\ await' = [await EXCEPT ![t] = "none"]
        /\ status' = [status EXCEPT ![t] = ec_success]
        /\ value' = [value EXCEPT ![t] = NoValue]
        /\ sends' = IF await[t] = "send"
                    THEN [sends EXCEPT ![value[t]] = SendOutcome(t)] ELSE sends
        /\ readyQueue' = Tail(readyQueue)
        /\ UNCHANGED <<buffer, closed, pendingReaders, pendingWriters, delivered>>
    BY DEF RunOnce, channelVars
  <1>2. /\ t \in Task /\ t \in Range(readyQueue)
        /\ readyQueue' \in Seq(Task) /\ IsInjective(readyQueue')
        /\ Range(readyQueue) = Range(readyQueue') \cup {t}
        /\ t \notin Range(readyQueue')
    BY <1>1, PopFacts DEF TypeOK, NodesLinkedOnce
  <1>3. t \notin Range(pendingReaders) /\ t \notin Range(pendingWriters)
    BY <1>2 DEF NodesLinkedOnce
  <1>4. TypeOK'
    <2>1. sends' \in Seq(SendFate) /\ Len(sends') <= MaxSends
      <3>1. SendOutcome(t) \in SendFate /\ sends \in Seq(SendFate)
        BY DEF SendOutcome, SendFate, TypeOK
      <3>2. ASSUME NEW i, NEW e \in SendFate
            PROVE  /\ [sends EXCEPT ![i] = e] \in Seq(SendFate)
                   /\ Len([sends EXCEPT ![i] = e]) = Len(sends)
        BY <3>1, SetFacts
      <3>3. CASE await[t] = "send"
        <4>1. sends' = [sends EXCEPT ![value[t]] = SendOutcome(t)]
          BY <1>1, <3>3
        <4> QED BY <4>1, <3>1, <3>2 DEF TypeOK
      <3> QED BY <1>1, <3>3 DEF TypeOK
    <2>2. /\ await' \in [Task -> SuspensionPoint]
          /\ status' \in [Task -> ErrCode]
          /\ value' \in [Task -> Value \cup {NoValue}]
      BY <1>1, <1>2 DEF TypeOK, SuspensionPoint, ErrCode
    <2> QED BY <1>1, <1>2, <2>1, <2>2 DEF TypeOK
  <1>5. NodesLinkedOnce'
    BY <1>1, <1>2, <1>3 DEF NodesLinkedOnce, Linked
  <1>6. NoCrossWaiting'
    BY <1>1 DEF NoCrossWaiting
  <1>7. NoTaskForgotten'
    BY <1>1, <1>2 DEF NoTaskForgotten, Linked, TypeOK
  <1>8. QueuesMatchSuspension'
    <2>1. await'[t] = "none"
      BY <1>1, <1>2 DEF TypeOK
    <2>2. \A u \in Range(pendingReaders) \cup Range(pendingWriters) :
             await'[u] = await[u] /\ value'[u] = value[u]
      BY <1>1, <1>3 DEF TypeOK
    <2> QED BY <1>1, <2>1, <2>2 DEF QueuesMatchSuspension
  <1> QED BY <1>4, <1>5, <1>6, <1>7, <1>8

LEMMA SendSuspendsIInv == IInv /\ SendSuspends => IInv'
PROOF
  <1> SUFFICES ASSUME IInv, SendSuspends PROVE IInv'
    OBVIOUS
  <1> USE DEF IInv
  <1>1. /\ running # NoTask /\ ~closed /\ pendingReaders = <<>> /\ Len(sends) < MaxSends
        /\ pendingWriters' = Append(pendingWriters, running)
        /\ await' = [await EXCEPT ![running] = "send"]
        /\ value' = [value EXCEPT ![running] = NextValue]
        /\ running' = NoTask
        /\ sends' = Append(sends, "waiting")
        /\ UNCHANGED <<buffer, closed, pendingReaders, readyQueue, status, delivered>>
    BY DEF SendSuspends, try_write_full
  <1>2. running \in Task /\ ~Linked(running)
    BY <1>1 DEF TypeOK, NodesLinkedOnce
  <1>3. /\ NextValue \in Value /\ sends' \in Seq(SendFate) /\ Len(sends') <= MaxSends
    <2>1. Len(sends) \in Nat /\ "waiting" \in SendFate
      BY LenProperties DEF TypeOK, SendFate
    <2> QED BY <1>1, <2>1, AppendProperties DEF TypeOK, NextValue, Value
  <1>4. /\ pendingWriters' \in Seq(Task) /\ IsInjective(pendingWriters')
        /\ Range(pendingWriters') = Range(pendingWriters) \cup {running}
    BY <1>1, <1>2, PushFacts DEF TypeOK, NodesLinkedOnce, Linked
  <1>5. TypeOK'
    <2>1. await' \in [Task -> SuspensionPoint] /\ value' \in [Task -> Value \cup {NoValue}]
      BY <1>1, <1>2, <1>3 DEF TypeOK, SuspensionPoint
    <2> QED BY <1>1, <1>3, <1>4, <2>1 DEF TypeOK
  <1>6. NodesLinkedOnce'
    BY <1>1, <1>2, <1>4 DEF NodesLinkedOnce, Linked
  <1>7. NoCrossWaiting'
    BY <1>1 DEF NoCrossWaiting
  <1>8. NoTaskForgotten'
    BY <1>1, <1>2, <1>4 DEF NoTaskForgotten, Linked, TypeOK
  <1>9. QueuesMatchSuspension'
    <2>1. \A u \in Range(pendingWriters') : await'[u] = "send" /\ value'[u] \in Value
      BY <1>1, <1>2, <1>3, <1>4 DEF TypeOK, QueuesMatchSuspension
    <2>2. \A u \in Range(pendingReaders') : await'[u] = "receive"
      BY <1>1, <1>2 DEF TypeOK, QueuesMatchSuspension, Linked
    <2> QED BY <1>1, <2>1, <2>2 DEF QueuesMatchSuspension
  <1> QED BY <1>5, <1>6, <1>7, <1>8, <1>9

LEMMA ReceiveSuspendsIInv == IInv /\ ReceiveSuspends => IInv'
PROOF
  <1> SUFFICES ASSUME IInv, ReceiveSuspends PROVE IInv'
    OBVIOUS
  <1> USE DEF IInv
  <1>1. /\ running # NoTask /\ ~closed /\ buffer = <<>> /\ pendingWriters = <<>>
        /\ pendingReaders' = Append(pendingReaders, running)
        /\ await' = [await EXCEPT ![running] = "receive"]
        /\ running' = NoTask
        /\ UNCHANGED <<buffer, closed, pendingWriters, readyQueue, value, status,
                       sends, delivered>>
    BY DEF ReceiveSuspends, try_read_empty, history
  <1>2. running \in Task /\ ~Linked(running)
    BY <1>1 DEF TypeOK, NodesLinkedOnce
  <1>3. /\ pendingReaders' \in Seq(Task) /\ IsInjective(pendingReaders')
        /\ Range(pendingReaders') = Range(pendingReaders) \cup {running}
    BY <1>1, <1>2, PushFacts DEF TypeOK, NodesLinkedOnce, Linked
  <1>4. TypeOK'
    <2>1. await' \in [Task -> SuspensionPoint]
      BY <1>1, <1>2 DEF TypeOK, SuspensionPoint
    <2> QED BY <1>1, <1>3, <2>1 DEF TypeOK
  <1>5. NodesLinkedOnce'
    BY <1>1, <1>2, <1>3 DEF NodesLinkedOnce, Linked
  <1>6. NoCrossWaiting'
    BY <1>1 DEF NoCrossWaiting
  <1>7. NoTaskForgotten'
    BY <1>1, <1>2, <1>3 DEF NoTaskForgotten, Linked, TypeOK
  <1>8. QueuesMatchSuspension'
    <2>1. \A u \in Range(pendingReaders') : await'[u] = "receive"
      BY <1>1, <1>2, <1>3 DEF TypeOK, QueuesMatchSuspension
    <2>2. \A u \in Range(pendingWriters') : await'[u] = "send" /\ value'[u] \in Value
      BY <1>1, <1>2 DEF TypeOK, QueuesMatchSuspension, Linked
    <2> QED BY <1>1, <2>1, <2>2 DEF QueuesMatchSuspension
  <1> QED BY <1>4, <1>5, <1>6, <1>7, <1>8

LEMMA YieldIInv == IInv /\ Yield => IInv'
PROOF
  <1> SUFFICES ASSUME IInv, Yield PROVE IInv'
    OBVIOUS
  <1> USE DEF IInv
  <1>1. /\ running # NoTask /\ running' = NoTask
        /\ readyQueue' = Append(readyQueue, running)
        /\ await' = [await EXCEPT ![running] = "yield"]
        /\ UNCHANGED <<buffer, closed, pendingReaders, pendingWriters, value, status,
                       sends, delivered>>
    BY DEF Yield, channelVars, history
  <1>2. running \in Task /\ ~Linked(running)
    BY <1>1 DEF TypeOK, NodesLinkedOnce
  <1>3. /\ readyQueue' \in Seq(Task) /\ IsInjective(readyQueue')
        /\ Range(readyQueue') = Range(readyQueue) \cup {running}
    BY <1>1, <1>2, PushFacts DEF TypeOK, NodesLinkedOnce, Linked
  <1>4. TypeOK'
    <2>1. await' \in [Task -> SuspensionPoint]
      BY <1>1, <1>2 DEF TypeOK, SuspensionPoint
    <2> QED BY <1>1, <1>3, <2>1 DEF TypeOK
  <1>5. NodesLinkedOnce'
    BY <1>1, <1>2, <1>3 DEF NodesLinkedOnce, Linked
  <1>6. NoCrossWaiting'
    BY <1>1 DEF NoCrossWaiting
  <1>7. NoTaskForgotten'
    BY <1>1, <1>2, <1>3 DEF NoTaskForgotten, Linked, TypeOK
  <1>8. QueuesMatchSuspension'
    BY <1>1, <1>2 DEF TypeOK, QueuesMatchSuspension, Linked
  <1> QED BY <1>4, <1>5, <1>6, <1>7, <1>8

LEMMA ReturnIInv == IInv /\ Return => IInv'
PROOF
  <1> SUFFICES ASSUME IInv, Return PROVE IInv'
    OBVIOUS
  <1> USE DEF IInv
  <1>1. /\ running # NoTask /\ running' = NoTask
        /\ await' = [await EXCEPT ![running] = "final"]
        /\ UNCHANGED <<buffer, closed, pendingReaders, pendingWriters, readyQueue,
                       value, status, sends, delivered>>
    BY DEF Return, channelVars, history
  <1>2. running \in Task /\ ~Linked(running)
    BY <1>1 DEF TypeOK, NodesLinkedOnce
  <1>3. TypeOK'
    <2>1. await' \in [Task -> SuspensionPoint]
      BY <1>1, <1>2 DEF TypeOK, SuspensionPoint
    <2> QED BY <1>1, <2>1 DEF TypeOK
  <1>4. NodesLinkedOnce' /\ NoCrossWaiting'
    BY <1>1 DEF NodesLinkedOnce, NoCrossWaiting, Linked
  <1>5. NoTaskForgotten' /\ QueuesMatchSuspension'
    BY <1>1, <1>2 DEF TypeOK, NoTaskForgotten, QueuesMatchSuspension, Linked
  <1> QED BY <1>3, <1>4, <1>5

-----------------------------------------------------------------------------
LEMMA NextIInv == IInv /\ [Next]_vars => IInv'
PROOF
  <1> SUFFICES ASSUME IInv, [Next]_vars PROVE IInv'
    OBVIOUS
  <1>1. CASE TrySend
    BY <1>1, TrySendIInv
  <1>2. CASE TryRead
    BY <1>2, TryReadIInv
  <1>3. CASE Close
    BY <1>3, CloseIInv
  <1>4. CASE \E t \in Task : Start(t)
    BY <1>4, StartIInv
  <1>5. CASE RunOnce
    BY <1>5, RunOnceIInv
  <1>6. CASE GivesUpControl
    BY <1>6, SendSuspendsIInv, ReceiveSuspendsIInv, YieldIInv, ReturnIInv DEF GivesUpControl
  <1>7. CASE UNCHANGED vars
    BY <1>7 DEF vars, channelVars, schedVars, taskVars, history, IInv, TypeOK,
       NodesLinkedOnce, NoCrossWaiting, NoTaskForgotten, QueuesMatchSuspension, Linked
  <1> QED BY <1>1, <1>2, <1>3, <1>4, <1>5, <1>6, <1>7 DEF Next

\* The inductive invariant holds in every reachable state.
THEOREM Invariance == Spec => []IInv
PROOF
  <1> QED BY InitIInv, NextIInv, PTL DEF Spec

\* Every variable keeps its type, and the buffer its bound.
THEOREM TypeCorrect == Spec => []TypeOK
PROOF
  <1>1. IInv => TypeOK
    BY DEF IInv
  <1> QED BY <1>1, Invariance, PTL

\* No node is ever pushed while it is linked: the precondition under which the
\* intrusive queues of the scheduler and of the channel are sound.
THEOREM NoDoubleLink == Spec => []NodesLinkedOnce
PROOF
  <1>1. IInv => NodesLinkedOnce
    BY DEF IInv
  <1> QED BY <1>1, Invariance, PTL

\* No suspended task is lost: each is in a queue that will wake it.
THEOREM NoLostTask == Spec => []NoTaskForgotten
PROOF
  <1>1. IInv => NoTaskForgotten
    BY DEF IInv
  <1> QED BY <1>1, Invariance, PTL

\* Readers and writers never wait past each other, nor past close().
THEOREM NoMissedMeeting == Spec => []NoCrossWaiting
PROOF
  <1>1. IInv => NoCrossWaiting
    BY DEF IInv
  <1> QED BY <1>1, Invariance, PTL
-----------------------------------------------------------------------------
(* What becomes of the values.  The history invariants speak of two        *)
(* sequences: what has arrived, which is what was delivered and then what  *)
(* is buffered, and the fates of the sends.                                *)

\* The values of a arrived, s says what became of the sends: only what was
\* sent arrives, once; the prompt sends in order and all of them, the
\* canceled ones not.
Honest(a, s) ==
  /\ Range(a) \subseteq DOMAIN s
  /\ IsInjective(a)
  /\ \A v \in DOMAIN s : s[v] = "prompt" => v \in Range(a)
  /\ \A v \in DOMAIN s : s[v] = "canceled" => v \notin Range(a)
  /\ \A i, j \in DOMAIN a : i < j /\ s[a[i]] = "prompt" /\ s[a[j]] = "prompt" => a[i] < a[j]

\* What a step may do to them: a value arrives behind the others, the fate of
\* a waiting send is decided, a send is added.
OneMore(a, s, b, r) ==
  \E v \in Value : /\ b = Append(a, v) /\ v \notin Range(a) /\ v \in DOMAIN r
                   /\ r[v] # "canceled" /\ (r[v] = "prompt" => v > Len(s))

FatesKept(s, b, r) ==
  \A v \in DOMAIN s :
    \/ r[v] = s[v]
    \/ s[v] = "waiting" /\ r[v] # "prompt" /\ (r[v] = "canceled" => v \notin Range(b))

NewFates(s, b, r) ==
  \A v \in DOMAIN r \ DOMAIN s : r[v] # "canceled" /\ (r[v] = "prompt" => v \in Range(b))

LEMMA HonestyKept ==
  ASSUME NEW a \in Seq(Value), NEW b \in Seq(Value),
         NEW s \in Seq(SendFate), NEW r \in Seq(SendFate), DOMAIN s \subseteq DOMAIN r,
         b = a \/ OneMore(a, s, b, r), FatesKept(s, b, r), NewFates(s, b, r), Honest(a, s)
  PROVE  Honest(b, r)
PROOF
  <1>1. /\ DOMAIN s = 1 .. Len(s) /\ Len(s) \in Nat
        /\ DOMAIN a = 1 .. Len(a) /\ Len(a) \in Nat
        /\ \A i \in DOMAIN a : a[i] \in Range(a)
    BY LenProperties DEF Range
  <1>2. \A v \in DOMAIN s : r[v] = "prompt" <=> s[v] = "prompt"
    BY DEF FatesKept
  <1>3. CASE b = a
    <2>1. Range(b) \subseteq DOMAIN r /\ IsInjective(b)
      BY <1>3 DEF Honest
    <2>2. \A v \in DOMAIN r : r[v] = "prompt" => v \in Range(b)
      BY <1>2, <1>3 DEF Honest, NewFates
    <2>3. \A v \in DOMAIN r : r[v] = "canceled" => v \notin Range(b)
      BY <1>3 DEF Honest, NewFates, FatesKept
    <2>4. \A i, j \in DOMAIN b : i < j /\ r[b[i]] = "prompt" /\ r[b[j]] = "prompt" => b[i] < b[j]
      <3> SUFFICES ASSUME NEW i \in DOMAIN a, NEW j \in DOMAIN a, i < j,
                          r[a[i]] = "prompt", r[a[j]] = "prompt"
                   PROVE  a[i] < a[j]
        BY <1>3
      <3>1. a[i] \in DOMAIN s /\ a[j] \in DOMAIN s
        BY <1>1 DEF Honest
      <3> QED BY <1>2, <3>1 DEF Honest
    <2> QED BY <2>1, <2>2, <2>3, <2>4 DEF Honest
  <1>4. CASE OneMore(a, s, b, r)
    <2>1. PICK v \in Value : /\ b = Append(a, v) /\ v \notin Range(a) /\ v \in DOMAIN r
                             /\ r[v] # "canceled" /\ (r[v] = "prompt" => v > Len(s))
      BY <1>4 DEF OneMore
    <2>2. /\ Range(b) = Range(a) \cup {v} /\ IsInjective(b)
          /\ DOMAIN b = 1 .. Len(a) + 1 /\ b[Len(a) + 1] = v
          /\ \A i \in DOMAIN a : b[i] = a[i]
      <3>1. Range(b) = Range(a) \cup {v} /\ IsInjective(b)
        BY <2>1, PushFacts DEF Honest
      <3>2. /\ Len(b) = Len(a) + 1 /\ b[Len(a) + 1] = v
            /\ \A i \in 1 .. Len(a) : b[i] = a[i]
        BY <2>1, AppendProperties
      <3>3. DOMAIN b = 1 .. Len(b)
        BY LenProperties
      <3> QED BY <1>1, <3>1, <3>2, <3>3
    <2>3. Range(b) \subseteq DOMAIN r
      BY <2>1, <2>2 DEF Honest
    <2>4. \A u \in DOMAIN r : r[u] = "prompt" => u \in Range(b)
      BY <1>2, <2>2 DEF Honest, NewFates
    <2>5. \A u \in DOMAIN r : r[u] = "canceled" => u \notin Range(b)
      BY <2>1, <2>2 DEF Honest, NewFates, FatesKept
    <2>6. ASSUME NEW i \in DOMAIN b, NEW j \in DOMAIN b, i < j,
                 r[b[i]] = "prompt", r[b[j]] = "prompt"
          PROVE  b[i] < b[j]
      <3>1. i \in DOMAIN a /\ a[i] = b[i] /\ a[i] \in DOMAIN s
        <4>1. i \in DOMAIN a
          BY <1>1, <2>2, <2>6
        <4> QED BY <4>1, <1>1, <2>2 DEF Honest
      <3>2. CASE j \in DOMAIN a
        <4>1. a[j] = b[j] /\ a[j] \in DOMAIN s
          BY <1>1, <2>2, <3>2 DEF Honest
        <4>2. s[a[i]] = "prompt" /\ s[a[j]] = "prompt"
          BY <1>2, <2>6, <3>1, <4>1
        <4> QED BY <2>6, <3>1, <3>2, <4>1, <4>2 DEF Honest
      <3>3. CASE j \notin DOMAIN a
        <4>1. j = Len(a) + 1
          BY <1>1, <2>2, <3>3
        <4>2. b[j] = v /\ v > Len(s)
          BY <2>1, <2>2, <2>6, <4>1
        <4>3. b[i] <= Len(s) /\ b[i] \in Nat
          BY <1>1, <3>1
        <4> QED BY <1>1, <4>2, <4>3 DEF Value
      <3> QED BY <3>2, <3>3
    <2> QED BY <2>2, <2>3, <2>4, <2>5, <2>6 DEF Honest
  <1> QED BY <1>3, <1>4

-----------------------------------------------------------------------------
\* The values handed to a reader, then those that are buffered.
Arrived == delivered \o buffer

\* A send that waits holds a value of its own, whose fate is open, and which
\* has not arrived while the sender is queued or is to be told it failed.
SendersWait ==
  /\ \A t \in Task : await[t] = "send" =>
       /\ value[t] \in DOMAIN sends /\ sends[value[t]] = "waiting"
       /\ t \in Range(pendingWriters) \/ status[t] # ec_success => value[t] \notin Range(Arrived)
  /\ \A t, u \in Task : await[t] = "send" /\ await[u] = "send" /\ value[t] = value[u] => t = u

\* A waiting reader, and the task that runs, hold no value.
ReadersWait ==
  /\ \A t \in Range(pendingReaders) : value[t] = NoValue
  /\ running # NoTask => value[running] = NoValue

HInv == Honest(Arrived, sends) /\ SendersWait /\ ReadersWait /\ ReceiverGetsWhatItIsTold

LEMMA InitHInv == Init => HInv
PROOF
  <1> SUFFICES ASSUME Init PROVE HInv
    OBVIOUS
  <1>1. Range(<<>>) = {} /\ IsInjective(<<>>) /\ DOMAIN <<>> = {}
    BY DEF Range, IsInjective
  <1>2. Arrived = <<>> /\ sends = <<>>
    BY DEF Init, Arrived
  <1>3. Honest(Arrived, sends)
    BY <1>1, <1>2 DEF Honest
  <1>4. SendersWait /\ ReadersWait /\ ReceiverGetsWhatItIsTold
    BY <1>1 DEF Init, SendersWait, ReadersWait, ReceiverGetsWhatItIsTold
  <1> QED BY <1>3, <1>4 DEF HInv

LEMMA ArrivedType == IInv => Arrived \in Seq(Value) /\ Range(Arrived) = Range(delivered) \cup Range(buffer)
PROOF BY ConcatFacts DEF IInv, TypeOK, Arrived

LEMMA ArrivedTypeNext ==
  IInv' => Arrived' \in Seq(Value) /\ Range(Arrived') = Range(delivered') \cup Range(buffer')
PROOF BY ConcatFacts DEF IInv, TypeOK, Arrived

\* The sends of a step that adds one, with fate f.
LEMMA SendAdded ==
  ASSUME TypeOK, NEW f \in {"prompt", "waiting"}, sends' = Append(sends, f)
  PROVE  /\ NextValue \notin DOMAIN sends /\ NextValue > Len(sends)
         /\ DOMAIN sends' = DOMAIN sends \cup {NextValue}
         /\ sends'[NextValue] = f
         /\ \A v \in DOMAIN sends : sends'[v] = sends[v]
PROOF
  <1>1. DOMAIN sends = 1 .. Len(sends) /\ Len(sends) \in Nat /\ f \in SendFate
    BY LenProperties DEF TypeOK, SendFate
  <1>2. /\ Append(sends, f) \in Seq(SendFate) /\ Len(Append(sends, f)) = Len(sends) + 1
        /\ Append(sends, f)[Len(sends) + 1] = f
        /\ \A i \in 1 .. Len(sends) : Append(sends, f)[i] = sends[i]
    BY <1>1, AppendProperties DEF TypeOK
  <1>3. DOMAIN Append(sends, f) = 1 .. Len(sends) + 1
    BY <1>2, LenProperties
  <1> QED BY <1>1, <1>2, <1>3 DEF NextValue

-----------------------------------------------------------------------------
(* One lemma per action again, for the history.                            *)

LEMMA TrySendHInv == IInv /\ IInv' /\ HInv /\ TrySend => HInv'
PROOF
  <1> SUFFICES ASSUME IInv, IInv', HInv, TrySend PROVE HInv'
    OBVIOUS
  <1>1. /\ NextValue \in Value /\ NextValue \notin DOMAIN sends /\ NextValue > Len(sends)
        /\ DOMAIN sends' = DOMAIN sends \cup {NextValue} /\ sends'[NextValue] = "prompt"
        /\ \A v \in DOMAIN sends : sends'[v] = sends[v]
    <2>1. sends' = Append(sends, "prompt") /\ Len(sends) < MaxSends /\ TypeOK
      BY DEF TrySend, IInv
    <2>2. NextValue \in Value
      BY <2>1, LenProperties DEF TypeOK, NextValue, Value
    <2> QED BY <2>1, <2>2, SendAdded
  <1>2. UNCHANGED <<running, await, closed, pendingWriters>>
    BY DEF TrySend, try_write
  <1>3. /\ Arrived' = Append(Arrived, NextValue) /\ Arrived \in Seq(Value)
        /\ Range(Arrived') = Range(Arrived) \cup {NextValue}
        /\ Range(delivered) \subseteq Range(delivered')
    <2>1. /\ delivered \in Seq(Value) /\ buffer \in Seq(Value) /\ Arrived \in Seq(Value)
      BY ArrivedType DEF IInv, TypeOK
    <2>2. CASE pendingReaders # <<>>
      <3>1. /\ buffer = <<>> /\ buffer' = buffer
            /\ delivered' = Append(delivered, NextValue)
        BY <2>2 DEF TrySend, try_write, hand_to_reader, IInv, NoCrossWaiting
      <3> QED BY <1>1, <2>1, <3>1, BehindFacts, PushFacts DEF Arrived
    <2>3. CASE pendingReaders = <<>>
      <3>1. buffer' = Append(buffer, NextValue) /\ delivered' = delivered
        BY <2>3 DEF TrySend, try_write
      <3>2. delivered \o Append(buffer, NextValue) = Append(delivered \o buffer, NextValue)
        BY <1>1, <2>1, BehindFacts
      <3>3. Arrived' = Append(Arrived, NextValue)
        BY <3>1, <3>2 DEF Arrived
      <3> QED BY <1>1, <2>1, <3>1, <3>3, PushFacts
    <2> QED BY <2>2, <2>3
  <1>4. NextValue \notin Range(Arrived)
    BY <1>1 DEF HInv, Honest
  <1>5. Honest(Arrived', sends')
    <2>1. OneMore(Arrived, sends, Arrived', sends')
      BY <1>1, <1>3, <1>4 DEF OneMore
    <2>2. FatesKept(sends, Arrived', sends') /\ NewFates(sends, Arrived', sends')
      BY <1>1, <1>3 DEF FatesKept, NewFates
    <2>3. /\ Arrived' \in Seq(Value) /\ sends \in Seq(SendFate) /\ sends' \in Seq(SendFate)
      BY ArrivedTypeNext DEF IInv, TypeOK
    <2> QED BY <1>1, <1>3, <2>1, <2>2, <2>3, HonestyKept DEF HInv
  <1>6. CASE pendingReaders # <<>>
    <2> DEFINE r == Head(pendingReaders)
    <2>1. /\ value' = [value EXCEPT ![r] = NextValue]
          /\ delivered' = Append(delivered, NextValue)
          /\ pendingReaders' = Tail(pendingReaders)
          /\ status' = [status EXCEPT ![r] = ec_success]
          /\ readyQueue' = Append(readyQueue, r)
      BY <1>6 DEF TrySend, try_write, hand_to_reader, dequeue_pending_read, on_resume
    <2>2. /\ r \in Task /\ r \in Range(pendingReaders) /\ await[r] = "receive"
          /\ r \notin Range(pendingReaders') /\ r \notin Range(readyQueue) /\ running # r
          /\ Range(pendingReaders') \subseteq Range(pendingReaders)
          /\ Range(readyQueue') = Range(readyQueue) \cup {r}
      <3>1. /\ r \in Task /\ r \in Range(pendingReaders)
            /\ r \notin Range(pendingReaders')
            /\ Range(pendingReaders') \subseteq Range(pendingReaders)
        BY <1>6, <2>1, PopFacts DEF IInv, TypeOK, NodesLinkedOnce
      <3>2. await[r] = "receive" /\ r \notin Range(readyQueue) /\ running # r
        BY <3>1 DEF IInv, NodesLinkedOnce, QueuesMatchSuspension, Linked, TypeOK
      <3>3. Range(readyQueue') = Range(readyQueue) \cup {r}
        BY <2>1, <3>1, PushFacts DEF IInv, TypeOK
      <3> QED BY <3>1, <3>2, <3>3
    <2>3. \A t \in Task : t # r => value'[t] = value[t] /\ status'[t] = status[t]
      BY <2>1 DEF IInv, TypeOK
    <2>4. value'[r] = NextValue /\ status'[r] = ec_success
      BY <2>1, <2>2 DEF IInv, TypeOK
    <2>5. SendersWait'
      <3>1. ASSUME NEW t \in Task, await'[t] = "send"
            PROVE  /\ await[t] = "send" /\ value'[t] = value[t] /\ status'[t] = status[t]
                   /\ value[t] \in DOMAIN sends
        BY <1>2, <2>2, <2>3, <3>1 DEF HInv, SendersWait
      <3>2. ASSUME NEW t \in Task, await'[t] = "send"
            PROVE  /\ value'[t] \in DOMAIN sends' /\ sends'[value'[t]] = "waiting"
                   /\ t \in Range(pendingWriters') \/ status'[t] # ec_success
                        => value'[t] \notin Range(Arrived')
        BY <1>1, <1>2, <1>3, <3>1, <3>2 DEF HInv, SendersWait
      <3>3. ASSUME NEW t \in Task, NEW u \in Task,
                   await'[t] = "send", await'[u] = "send", value'[t] = value'[u]
            PROVE  t = u
        BY <3>1, <3>3 DEF HInv, SendersWait
      <3> QED BY <3>2, <3>3 DEF SendersWait
    <2>6. ReadersWait'
      <3>1. \A t \in Range(pendingReaders') : t \in Task /\ t # r
        <4>1. Range(pendingReaders) \subseteq Task
          BY DEF IInv, TypeOK, Range
        <4> QED BY <2>2, <4>1
      <3> QED BY <1>2, <2>2, <2>3, <3>1 DEF HInv, ReadersWait, IInv, TypeOK
    <2>7. ReceiverGetsWhatItIsTold'
      <3>1. NextValue \in Range(delivered')
        BY <1>1, <2>1, PushFacts DEF IInv, TypeOK
      <3>2. Range(readyQueue) \subseteq Task
        BY DEF IInv, TypeOK, Range
      <3> QED BY <1>2, <1>3, <2>2, <2>3, <2>4, <3>1, <3>2 DEF HInv, ReceiverGetsWhatItIsTold
    <2> QED BY <1>5, <2>5, <2>6, <2>7 DEF HInv
  <1>7. CASE pendingReaders = <<>>
    <2>1. UNCHANGED <<pendingReaders, readyQueue, value, status, delivered>>
      BY <1>7 DEF TrySend, try_write
    <2>2. SendersWait'
      BY <1>1, <1>2, <1>3, <2>1 DEF HInv, SendersWait
    <2>3. ReadersWait' /\ ReceiverGetsWhatItIsTold'
      BY <1>2, <2>1 DEF HInv, ReadersWait, ReceiverGetsWhatItIsTold
    <2> QED BY <1>5, <2>2, <2>3 DEF HInv
  <1> QED BY <1>6, <1>7

LEMMA TryReadHInv == IInv /\ IInv' /\ HInv /\ TryRead => HInv'
PROOF
  <1> SUFFICES ASSUME IInv, IInv', HInv, TryRead PROVE HInv'
    OBVIOUS
  <1>1. UNCHANGED <<closed, pendingReaders, value, running, await, sends>>
    BY DEF TryRead, try_read
  <1>2. /\ delivered \in Seq(Value) /\ buffer \in Seq(Value)
        /\ Arrived \in Seq(Value) /\ Arrived' \in Seq(Value) /\ sends \in Seq(SendFate)
    BY ArrivedType, ArrivedTypeNext DEF IInv, TypeOK
  <1>3. /\ FatesKept(sends, Arrived', sends') /\ NewFates(sends, Arrived', sends')
        /\ DOMAIN sends \subseteq DOMAIN sends'
    BY <1>1 DEF FatesKept, NewFates
  <1> DEFINE w == Head(pendingWriters)
  <1>4. ASSUME pendingWriters # <<>>
        PROVE  /\ w \in Task /\ w \in Range(pendingWriters) /\ await[w] = "send"
               /\ value[w] \in Value /\ value[w] \in DOMAIN sends
               /\ sends[value[w]] = "waiting" /\ value[w] \notin Range(Arrived)
    <2>1. w \in Task /\ w \in Range(pendingWriters)
      BY <1>4, PopFacts DEF IInv, TypeOK
    <2> QED BY <2>1 DEF IInv, QueuesMatchSuspension, HInv, SendersWait
  <1>5. CASE buffer # <<>>
    <2>1. buffer' = Tail(buffer) /\ delivered' = Append(delivered, Head(buffer))
      BY <1>5 DEF TryRead, try_read, pop_front
    <2>2. Arrived' = Arrived /\ Range(delivered) \subseteq Range(delivered')
      <3>1. Head(buffer) \in Value
        BY <1>2, <1>5, PopFacts
      <3> QED BY <1>2, <1>5, <2>1, <3>1, BehindFacts, PushFacts DEF Arrived
    <2>3. Honest(Arrived', sends')
      BY <1>1, <1>2, <1>3, <2>2, HonestyKept DEF HInv
    <2>4. CASE pendingWriters # <<>>
      <3>1. /\ pendingWriters' = Tail(pendingWriters)
            /\ status' = [status EXCEPT ![w] = ec_success]
            /\ readyQueue' = Append(readyQueue, w)
        BY <1>5, <2>4 DEF TryRead, try_read, dequeue_pending_write, on_resume
      <3>2. /\ Range(pendingWriters') \subseteq Range(pendingWriters)
            /\ w \notin Range(pendingWriters')
            /\ Range(readyQueue') = Range(readyQueue) \cup {w}
          <4>1. pendingWriters \in Seq(Task) /\ readyQueue \in Seq(Task) /\ IsInjective(pendingWriters)
            BY <1>4 DEF IInv, TypeOK, NodesLinkedOnce
          <4>2. /\ Range(pendingWriters) = Range(Tail(pendingWriters)) \cup {Head(pendingWriters)}
                /\ Head(pendingWriters) \notin Range(Tail(pendingWriters))
                /\ Head(pendingWriters) \in Task
            BY <2>4, <4>1, PopFacts
          <4>3. w \in Task => Range(Append(readyQueue, w)) = Range(readyQueue) \cup {w}
            BY <4>1, PushFacts
          <4> QED BY <1>4, <3>1, <4>2, <4>3
      <3>3. \A t \in Task : status'[t] = IF t = w THEN ec_success ELSE status[t]
        BY <3>1 DEF IInv, TypeOK
      <3>4. SendersWait'
        BY <1>1, <2>2, <3>2, <3>3 DEF HInv, SendersWait
      <3>5. ReadersWait'
        BY <1>1 DEF HInv, ReadersWait
      <3>6. ReceiverGetsWhatItIsTold'
        <4>1. Range(readyQueue) \subseteq Task
          BY DEF IInv, TypeOK, Range
        <4> QED BY <1>1, <1>4, <2>2, <2>4, <3>2, <3>3, <4>1 DEF HInv, ReceiverGetsWhatItIsTold
      <3> QED BY <2>3, <3>4, <3>5, <3>6 DEF HInv
    <2>5. CASE pendingWriters = <<>>
      <3>1. UNCHANGED <<pendingWriters, readyQueue, status>>
        BY <1>5, <2>5 DEF TryRead, try_read
      <3>2. SendersWait' /\ ReadersWait'
        BY <1>1, <2>2, <3>1 DEF HInv, SendersWait, ReadersWait
      <3>3. ReceiverGetsWhatItIsTold'
        BY <1>1, <2>2, <3>1 DEF HInv, ReceiverGetsWhatItIsTold
      <3> QED BY <2>3, <3>2, <3>3 DEF HInv
    <2> QED BY <2>4, <2>5
  <1>6. CASE buffer = <<>>
    <2>1. /\ pendingWriters # <<>> /\ buffer' = buffer
          /\ delivered' = Append(delivered, value[w])
          /\ pendingWriters' = Tail(pendingWriters)
          /\ status' = [status EXCEPT ![w] = ec_success]
          /\ readyQueue' = Append(readyQueue, w)
      BY <1>6 DEF TryRead, try_read, dequeue_pending_write, on_resume
    <2>2. /\ Arrived' = Append(Arrived, value[w])
          /\ Range(Arrived') = Range(Arrived) \cup {value[w]}
          /\ Range(delivered) \subseteq Range(delivered')
      BY <1>2, <1>4, <1>6, <2>1, BehindFacts, PushFacts DEF Arrived
    <2>3. Honest(Arrived', sends')
      <3>1. OneMore(Arrived, sends, Arrived', sends')
        BY <1>1, <1>4, <2>1, <2>2 DEF OneMore
      <3> QED BY <1>1, <1>2, <1>3, <3>1, HonestyKept DEF HInv
    <2>4. /\ Range(pendingWriters') \subseteq Range(pendingWriters)
          /\ w \notin Range(pendingWriters')
          /\ Range(readyQueue') = Range(readyQueue) \cup {w}
      BY <1>4, <2>1, PopFacts, PushFacts DEF IInv, TypeOK, NodesLinkedOnce
    <2>5. \A t \in Task : status'[t] = IF t = w THEN ec_success ELSE status[t]
      BY <2>1 DEF IInv, TypeOK
    <2>6. SendersWait'
      BY <1>1, <1>4, <2>1, <2>2, <2>4, <2>5 DEF HInv, SendersWait
    <2>7. ReadersWait'
      BY <1>1 DEF HInv, ReadersWait
    <2>8. ReceiverGetsWhatItIsTold'
      <3>1. Range(readyQueue) \subseteq Task
        BY DEF IInv, TypeOK, Range
      <3> QED BY <1>1, <1>4, <2>1, <2>2, <2>4, <2>5, <3>1 DEF HInv, ReceiverGetsWhatItIsTold
    <2> QED BY <2>3, <2>6, <2>7, <2>8 DEF HInv
  <1> QED BY <1>5, <1>6

LEMMA SendSuspendsHInv == IInv /\ IInv' /\ HInv /\ SendSuspends => HInv'
PROOF
  <1> SUFFICES ASSUME IInv, IInv', HInv, SendSuspends PROVE HInv'
    OBVIOUS
  <1>1. /\ running # NoTask /\ pendingReaders = <<>> /\ Len(sends) < MaxSends
        /\ pendingWriters' = Append(pendingWriters, running)
        /\ await' = [await EXCEPT ![running] = "send"]
        /\ value' = [value EXCEPT ![running] = NextValue]
        /\ running' = NoTask
        /\ UNCHANGED <<buffer, closed, pendingReaders, readyQueue, status, delivered>>
    BY DEF SendSuspends, try_write_full
  <1>2. running \in Task /\ ~Linked(running) /\ await[running] = "none"
    BY <1>1 DEF IInv, TypeOK, NodesLinkedOnce, QueuesMatchSuspension
  <1>3. /\ NextValue \notin DOMAIN sends
        /\ DOMAIN sends' = DOMAIN sends \cup {NextValue} /\ sends'[NextValue] = "waiting"
        /\ \A v \in DOMAIN sends : sends'[v] = sends[v]
    <2>1. sends' = Append(sends, "waiting") /\ TypeOK
      BY DEF SendSuspends, IInv
    <2> QED BY <2>1, SendAdded
  <1>4. Arrived' = Arrived
    BY <1>1 DEF Arrived
  <1>5. Honest(Arrived', sends')
    <2>1. FatesKept(sends, Arrived', sends') /\ NewFates(sends, Arrived', sends')
      BY <1>3 DEF FatesKept, NewFates
    <2>2. /\ Arrived \in Seq(Value) /\ Arrived' \in Seq(Value)
          /\ sends \in Seq(SendFate) /\ sends' \in Seq(SendFate)
      BY ArrivedType, ArrivedTypeNext DEF IInv, TypeOK
    <2> QED BY <1>3, <1>4, <2>1, <2>2, HonestyKept DEF HInv
  <1>6. \A t \in Task : /\ await'[t] = IF t = running THEN "send" ELSE await[t]
                        /\ value'[t] = IF t = running THEN NextValue ELSE value[t]
    BY <1>1, <1>2 DEF IInv, TypeOK
  <1>7. SendersWait'
    <2>1. Range(pendingWriters') = Range(pendingWriters) \cup {running}
      BY <1>1, <1>2, PushFacts DEF IInv, TypeOK
    <2>2. NextValue \notin Range(Arrived)
      BY <1>3 DEF HInv, Honest
    <2>3. ASSUME NEW t \in Task, await'[t] = "send"
          PROVE  /\ value'[t] \in DOMAIN sends' /\ sends'[value'[t]] = "waiting"
                 /\ t \in Range(pendingWriters') \/ status'[t] # ec_success
                      => value'[t] \notin Range(Arrived')
      <3>1. CASE t = running
        BY <1>3, <1>4, <1>6, <2>2, <3>1
      <3>2. CASE t # running
        BY <1>1, <1>3, <1>4, <1>6, <2>1, <2>3, <3>2 DEF HInv, SendersWait
      <3> QED BY <3>1, <3>2
    <2>4. ASSUME NEW t \in Task, NEW u \in Task,
                 await'[t] = "send", await'[u] = "send", value'[t] = value'[u]
          PROVE  t = u
      BY <1>3, <1>6, <2>4 DEF HInv, SendersWait
    <2> QED BY <2>3, <2>4 DEF SendersWait
  <1>8. ReadersWait'
    <2>1. Range(<<>>) = {}
      BY DEF Range
    <2> QED BY <1>1, <2>1 DEF ReadersWait
  <1>9. ReceiverGetsWhatItIsTold'
    <2>1. \A t \in Range(readyQueue) : t \in Task /\ t # running
      BY <1>2 DEF IInv, TypeOK, Range, Linked
    <2> QED BY <1>1, <1>6, <2>1 DEF HInv, ReceiverGetsWhatItIsTold
  <1> QED BY <1>5, <1>7, <1>8, <1>9 DEF HInv

\* Steps that touch no value: what they have in common.
LEMMA HonestyUntouched ==
  ASSUME UNCHANGED <<buffer, delivered, sends>>, Honest(Arrived, sends)
  PROVE  Honest(Arrived', sends') /\ Arrived' = Arrived
PROOF
  <1>1. Arrived' = Arrived
    BY DEF Arrived
  <1> QED BY <1>1

LEMMA ReceiveSuspendsHInv == IInv /\ IInv' /\ HInv /\ ReceiveSuspends => HInv'
PROOF
  <1> SUFFICES ASSUME IInv, IInv', HInv, ReceiveSuspends PROVE HInv'
    OBVIOUS
  <1>1. /\ running # NoTask
        /\ pendingReaders' = Append(pendingReaders, running)
        /\ await' = [await EXCEPT ![running] = "receive"]
        /\ running' = NoTask
        /\ UNCHANGED <<buffer, pendingWriters, readyQueue, value, status, sends, delivered>>
    BY DEF ReceiveSuspends, history
  <1>2. running \in Task /\ ~Linked(running) /\ value[running] = NoValue
    BY <1>1 DEF IInv, TypeOK, NodesLinkedOnce, HInv, ReadersWait
  <1>3. Honest(Arrived', sends') /\ Arrived' = Arrived
    BY <1>1, HonestyUntouched DEF HInv
  <1>4. \A t \in Task : await'[t] = IF t = running THEN "receive" ELSE await[t]
    BY <1>1, <1>2 DEF IInv, TypeOK
  <1>5. SendersWait'
    BY <1>1, <1>3, <1>4 DEF HInv, SendersWait
  <1>6. ReadersWait'
    <2>1. Range(pendingReaders') = Range(pendingReaders) \cup {running}
      BY <1>1, <1>2, PushFacts DEF IInv, TypeOK
    <2> QED BY <1>1, <1>2, <2>1 DEF HInv, ReadersWait
  <1>7. ReceiverGetsWhatItIsTold'
    <2>1. \A t \in Range(readyQueue) : t \in Task /\ t # running
      BY <1>2 DEF IInv, TypeOK, Range, Linked
    <2> QED BY <1>1, <1>4, <2>1 DEF HInv, ReceiverGetsWhatItIsTold
  <1> QED BY <1>3, <1>5, <1>6, <1>7 DEF HInv

LEMMA CloseHInv == IInv /\ IInv' /\ HInv /\ Close => HInv'
PROOF
  <1> SUFFICES ASSUME IInv, IInv', HInv, Close PROVE HInv'
    OBVIOUS
  <1>1. /\ pendingWriters' = <<>> /\ pendingReaders' = <<>>
        /\ readyQueue' = readyQueue \o released
        /\ status' = [t \in Task |-> IF t \in Range(released) THEN ec_canceled ELSE status[t]]
        /\ UNCHANGED <<buffer, running, await, value, sends, delivered>>
    BY DEF Close, history
  <1>2. /\ Range(released) = Range(pendingWriters) \cup Range(pendingReaders)
        /\ Range(readyQueue') = Range(readyQueue) \cup Range(released)
        /\ Range(<<>>) = {}
    <2>1. released \in Seq(Task) /\ Range(released) = Range(pendingWriters) \cup Range(pendingReaders)
      BY ConcatFacts DEF released, IInv, TypeOK
    <2>2. Range(readyQueue') = Range(readyQueue) \cup Range(released)
      BY <1>1, <2>1, ConcatFacts DEF IInv, TypeOK
    <2>3. Range(<<>>) = {}
      BY DEF Range
    <2> QED BY <2>1, <2>2, <2>3
  <1>3. Honest(Arrived', sends') /\ Arrived' = Arrived
    BY <1>1, HonestyUntouched DEF HInv
  <1>4. SendersWait'
    <2>1. \A t \in Task : t \in Range(released) /\ await[t] = "send" => t \in Range(pendingWriters)
      BY <1>2 DEF IInv, QueuesMatchSuspension
    <2> QED BY <1>1, <1>2, <1>3, <2>1 DEF HInv, SendersWait
  <1>5. ReadersWait'
    BY <1>1, <1>2 DEF HInv, ReadersWait
  <1>6. ReceiverGetsWhatItIsTold'
    <2>0. Range(readyQueue) \subseteq Task /\ Range(pendingReaders) \subseteq Task
      BY DEF IInv, TypeOK, Range
    <2>1. ASSUME NEW t \in Range(released), await[t] = "receive"
          PROVE  value[t] = NoValue /\ status'[t] = ec_canceled
      <3>1. t \in Range(pendingReaders) /\ t \in Task
        BY <1>2, <2>0, <2>1 DEF IInv, QueuesMatchSuspension
      <3> QED BY <1>1, <3>1 DEF HInv, ReadersWait
    <2>2. ASSUME NEW t \in Range(readyQueue) PROVE status'[t] = status[t]
      <3>1. t \notin Range(released) /\ t \in Task
        BY <1>2, <2>0 DEF IInv, NodesLinkedOnce
      <3> QED BY <1>1, <3>1
    <2>3. ec_canceled # ec_success
      BY DEF ec_canceled, ec_success
    <2> QED BY <1>1, <1>2, <2>1, <2>2, <2>3 DEF HInv, ReceiverGetsWhatItIsTold
  <1> QED BY <1>3, <1>4, <1>5, <1>6 DEF HInv

LEMMA StartHInv == ASSUME NEW t \in Task PROVE IInv /\ IInv' /\ HInv /\ Start(t) => HInv'
PROOF
  <1> SUFFICES ASSUME IInv, IInv', HInv, Start(t) PROVE HInv'
    OBVIOUS
  <1>1. /\ await[t] = "initial" /\ readyQueue' = Append(readyQueue, t)
        /\ UNCHANGED <<buffer, closed, pendingReaders, pendingWriters, running,
                       await, value, status, sends, delivered>>
    BY DEF Start, channelVars, taskVars, history
  <1>2. Range(readyQueue') = Range(readyQueue) \cup {t}
    BY <1>1, PushFacts DEF IInv, TypeOK
  <1>3. Honest(Arrived', sends') /\ Arrived' = Arrived
    BY <1>1, HonestyUntouched DEF HInv
  <1>4. SendersWait' /\ ReadersWait' /\ ReceiverGetsWhatItIsTold'
    BY <1>1, <1>2, <1>3 DEF HInv, SendersWait, ReadersWait, ReceiverGetsWhatItIsTold
  <1> QED BY <1>3, <1>4 DEF HInv

LEMMA RunOnceHInv == IInv /\ IInv' /\ HInv /\ RunOnce => HInv'
PROOF
  <1> SUFFICES ASSUME IInv, IInv', HInv, RunOnce PROVE HInv'
    OBVIOUS
  <1> DEFINE t == Head(readyQueue)
  <1>1. /\ readyQueue # <<>> /\ running' = t
        /\ await' = [await EXCEPT ![t] = "none"]
        /\ status' = [status EXCEPT ![t] = ec_success]
        /\ value' = [value EXCEPT ![t] = NoValue]
        /\ sends' = IF await[t] = "send"
                    THEN [sends EXCEPT ![value[t]] = SendOutcome(t)] ELSE sends
        /\ readyQueue' = Tail(readyQueue)
        /\ UNCHANGED <<buffer, closed, pendingReaders, pendingWriters, delivered>>
    BY DEF RunOnce, channelVars
  <1>2. /\ t \in Task /\ t \in Range(readyQueue) /\ t \notin Range(readyQueue')
        /\ Range(readyQueue') \subseteq Range(readyQueue)
        /\ t \notin Range(pendingReaders) /\ t \notin Range(pendingWriters)
    <2>1. /\ t \in Task /\ t \in Range(readyQueue) /\ t \notin Range(readyQueue')
          /\ Range(readyQueue') \subseteq Range(readyQueue)
      BY <1>1, PopFacts DEF IInv, TypeOK, NodesLinkedOnce
    <2> QED BY <2>1 DEF IInv, NodesLinkedOnce
  <1>3. \A u \in Task : /\ await'[u] = IF u = t THEN "none" ELSE await[u]
                        /\ status'[u] = IF u = t THEN ec_success ELSE status[u]
                        /\ value'[u] = IF u = t THEN NoValue ELSE value[u]
    BY <1>1, <1>2 DEF IInv, TypeOK
  <1>4. Arrived' = Arrived
    BY <1>1 DEF Arrived
  <1>5. /\ DOMAIN sends' = DOMAIN sends
        /\ \A v \in DOMAIN sends :
             sends'[v] = IF await[t] = "send" /\ v = value[t] THEN SendOutcome(t) ELSE sends[v]
    <2>1. sends \in [1 .. Len(sends) -> SendFate]
      BY LenProperties DEF IInv, TypeOK
    <2>2. CASE await[t] = "send"
      <3>1. sends' = [sends EXCEPT ![value[t]] = SendOutcome(t)]
        BY <1>1, <2>2
      <3> QED BY <2>1, <2>2, <3>1
    <2>3. CASE await[t] # "send"
      BY <1>1, <2>3
    <2> QED BY <2>2, <2>3
  <1>6. await[t] = "send" =>
          /\ sends[value[t]] = "waiting" /\ SendOutcome(t) # "prompt"
          /\ SendOutcome(t) = "canceled" => value[t] \notin Range(Arrived)
    BY <1>2 DEF HInv, SendersWait, SendOutcome
  <1>7. Honest(Arrived', sends')
    <2>1. FatesKept(sends, Arrived', sends')
      BY <1>4, <1>5, <1>6 DEF FatesKept
    <2>2. NewFates(sends, Arrived', sends')
      BY <1>5 DEF NewFates
    <2>3. /\ Arrived \in Seq(Value) /\ Arrived' \in Seq(Value)
          /\ sends \in Seq(SendFate) /\ sends' \in Seq(SendFate)
      BY ArrivedType, ArrivedTypeNext DEF IInv, TypeOK
    <2> QED BY <1>4, <1>5, <2>1, <2>2, <2>3, HonestyKept DEF HInv
  <1>8. SendersWait'
    <2>1. ASSUME NEW u \in Task, await'[u] = "send"
          PROVE  /\ u # t /\ await[u] = "send" /\ value'[u] = value[u] /\ status'[u] = status[u]
                 /\ value[u] \in DOMAIN sends /\ sends'[value[u]] = sends[value[u]]
      <3>1. u # t /\ await[u] = "send"
        BY <1>3, <2>1
      <3>2. value[u] \in DOMAIN sends /\ (await[t] = "send" => value[u] # value[t])
        BY <1>2, <3>1 DEF HInv, SendersWait
      <3> QED BY <1>3, <1>5, <3>1, <3>2
    <2>2. ASSUME NEW u \in Task, await'[u] = "send"
          PROVE  /\ value'[u] \in DOMAIN sends' /\ sends'[value'[u]] = "waiting"
                 /\ u \in Range(pendingWriters') \/ status'[u] # ec_success
                      => value'[u] \notin Range(Arrived')
      BY <1>1, <1>4, <1>5, <2>1, <2>2 DEF HInv, SendersWait
    <2>3. ASSUME NEW u \in Task, NEW x \in Task,
                 await'[u] = "send", await'[x] = "send", value'[u] = value'[x]
          PROVE  u = x
      BY <2>1, <2>3 DEF HInv, SendersWait
    <2> QED BY <2>2, <2>3 DEF SendersWait
  <1>9. ReadersWait'
    <2>1. Range(pendingReaders) \subseteq Task
      BY DEF IInv, TypeOK, Range
    <2> QED BY <1>1, <1>2, <1>3, <2>1 DEF HInv, ReadersWait
  <1>10. ReceiverGetsWhatItIsTold'
    <2>0. Range(readyQueue) \subseteq Task
      BY DEF IInv, TypeOK, Range
    <2>1. \A u \in Range(readyQueue') : u \in Task /\ u # t /\ u \in Range(readyQueue)
      BY <1>2, <2>0
    <2> QED BY <1>1, <1>3, <2>1 DEF HInv, ReceiverGetsWhatItIsTold
  <1> QED BY <1>7, <1>8, <1>9, <1>10 DEF HInv

LEMMA YieldOrReturnHInv == IInv /\ IInv' /\ HInv /\ (Yield \/ Return) => HInv'
PROOF
  <1> SUFFICES ASSUME IInv, IInv', HInv, Yield \/ Return PROVE HInv'
    OBVIOUS
  <1>1. /\ running # NoTask /\ running' = NoTask
        /\ \E e \in {"yield", "final"} : await' = [await EXCEPT ![running] = e]
        /\ readyQueue' = Append(readyQueue, running) \/ readyQueue' = readyQueue
        /\ UNCHANGED <<buffer, closed, pendingReaders, pendingWriters, value, status,
                       sends, delivered>>
    BY DEF Yield, Return, channelVars, history
  <1>2. running \in Task /\ ~Linked(running)
    BY <1>1 DEF IInv, TypeOK, NodesLinkedOnce
  <1>3. Honest(Arrived', sends') /\ Arrived' = Arrived
    BY <1>1, HonestyUntouched DEF HInv
  <1>4. \A t \in Task : /\ t # running => await'[t] = await[t]
                        /\ await'[running] \notin {"send", "receive"}
    BY <1>1, <1>2 DEF IInv, TypeOK
  <1>5. SendersWait'
    BY <1>1, <1>2, <1>3, <1>4 DEF HInv, SendersWait
  <1>6. ReadersWait'
    BY <1>1 DEF HInv, ReadersWait
  <1>7. ReceiverGetsWhatItIsTold'
    <2>1. Range(readyQueue') \subseteq Range(readyQueue) \cup {running}
      <3>1. Range(Append(readyQueue, running)) = Range(readyQueue) \cup {running}
        BY <1>2, PushFacts DEF IInv, TypeOK
      <3> QED BY <1>1, <3>1
    <2>2. Range(readyQueue) \subseteq Task
      BY DEF IInv, TypeOK, Range
    <2> QED BY <1>1, <1>2, <1>4, <2>1, <2>2 DEF HInv, ReceiverGetsWhatItIsTold
  <1> QED BY <1>3, <1>5, <1>6, <1>7 DEF HInv

LEMMA NextHInv == IInv /\ IInv' /\ HInv /\ [Next]_vars => HInv'
PROOF
  <1> SUFFICES ASSUME IInv, IInv', HInv, [Next]_vars PROVE HInv'
    OBVIOUS
  <1>1. CASE TrySend \/ TryRead \/ Close \/ RunOnce
    BY <1>1, TrySendHInv, TryReadHInv, CloseHInv, RunOnceHInv
  <1>2. CASE \E t \in Task : Start(t)
    BY <1>2, StartHInv
  <1>3. CASE GivesUpControl
    BY <1>3, SendSuspendsHInv, ReceiveSuspendsHInv, YieldOrReturnHInv DEF GivesUpControl
  <1>4. CASE UNCHANGED vars
    BY <1>4 DEF vars, channelVars, schedVars, taskVars, history, HInv, Arrived, SendersWait,
       ReadersWait, ReceiverGetsWhatItIsTold
  <1> QED BY <1>1, <1>2, <1>3, <1>4 DEF Next

\* The history invariant holds in every reachable state.
THEOREM HistoryInvariance == Spec => []HInv
PROOF
  <1> QED BY InitHInv, NextHInv, Invariance, PTL DEF Spec

\* A receive that resumes with success has a value the channel handed over;
\* one that was canceled has none.
THEOREM ReceiversAreToldTheTruth == Spec => []ReceiverGetsWhatItIsTold
PROOF
  <1>1. HInv => ReceiverGetsWhatItIsTold
    BY DEF HInv
  <1> QED BY <1>1, HistoryInvariance, PTL

\* No value is received twice, nor received while it is still buffered.
THEOREM NothingTwice == Spec => []AtMostOnce
PROOF
  <1>1. HInv => AtMostOnce
    BY DEF HInv, Honest, AtMostOnce, Arrived
  <1> QED BY <1>1, HistoryInvariance, PTL

\* A send that succeeded without suspending is never lost, not even when the
\* channel is closed.
THEOREM PromptIsNotLost == Spec => []PromptSendsArrive
PROOF
  <1>1. HInv => PromptSendsArrive
    BY DEF HInv, Honest, PromptSendsArrive, Arrived
  <1> QED BY <1>1, HistoryInvariance, PTL

\* The value of a send that was told it was canceled is not in the channel.
THEOREM CanceledIsNotSent == Spec => []CanceledNeverArrives
PROOF
  <1>1. HInv => CanceledNeverArrives
    BY DEF HInv, Honest, CanceledNeverArrives, Arrived
  <1> QED BY <1>1, HistoryInvariance, PTL

\* Sends that did not wait come out in the order in which they were made.
THEOREM PromptKeepsOrder == Spec => []PromptSendsInOrder
PROOF
  <1>1. HInv => PromptSendsInOrder
    BY DEF HInv, Honest, PromptSendsInOrder, InOrder, Arrived
  <1> QED BY <1>1, HistoryInvariance, PTL

-----------------------------------------------------------------------------
(* A channel without storage: there a writer that is woken with success    *)
(* has met its reader, so that every status is honest, and the channel is  *)
(* the abstract mailbox.                                                   *)

\* A send that was told it succeeded, or is about to be, has arrived.
GrantedArrive ==
  /\ \A v \in DOMAIN sends : sends[v] = "granted" => v \in Range(Arrived)
  /\ \A t \in Range(readyQueue) :
       await[t] = "send" /\ status[t] = ec_success => value[t] \in Range(Arrived)

UInv == Capacity = 0 => GrantedArrive

LEMMA EmptyStorage == IInv /\ Capacity = 0 => buffer = <<>>
PROOF
  <1> SUFFICES ASSUME IInv, Capacity = 0 PROVE buffer = <<>>
    OBVIOUS
  <1>1. buffer \in Seq(Value) /\ Len(buffer) <= 0
    BY DEF IInv, TypeOK
  <1>2. Len(buffer) = 0
    BY <1>1, LenProperties
  <1> QED BY <1>1, <1>2, EmptySeq

LEMMA NextUInv == IInv /\ IInv' /\ HInv /\ UInv /\ [Next]_vars => UInv'
PROOF
  <1> SUFFICES ASSUME IInv, IInv', HInv, GrantedArrive, Capacity = 0, [Next]_vars
               PROVE  GrantedArrive'
    BY DEF UInv
  <1>1. /\ buffer = <<>> /\ Range(readyQueue) \subseteq Task
        /\ delivered \in Seq(Value) /\ buffer \in Seq(Value)
    BY EmptyStorage DEF IInv, TypeOK, Range
  <1>2. CASE TrySend
    <2> DEFINE r == Head(pendingReaders)
    <2>1. /\ sends' = Append(sends, "prompt") /\ Len(sends) < MaxSends /\ await' = await
          /\ pendingReaders # <<>> /\ buffer' = buffer
          /\ value' = [value EXCEPT ![r] = NextValue]
          /\ delivered' = Append(delivered, NextValue)
          /\ status' = [status EXCEPT ![r] = ec_success]
          /\ readyQueue' = Append(readyQueue, r)
      <3>1. pendingReaders # <<>>
        BY <1>1, <1>2, EmptySeq DEF TrySend, try_write, has_room
      <3> QED BY <1>2, <3>1 DEF TrySend, try_write, hand_to_reader, on_resume
    <2>2. /\ r \in Task /\ await[r] = "receive"
          /\ Range(readyQueue') = Range(readyQueue) \cup {r}
      <3>1. r \in Task /\ r \in Range(pendingReaders) /\ readyQueue \in Seq(Task)
        BY <2>1, PopFacts DEF IInv, TypeOK
      <3>2. Range(readyQueue') = Range(readyQueue) \cup {r}
        BY <2>1, <3>1, PushFacts
      <3>3. await[r] = "receive"
        BY <3>1 DEF IInv, QueuesMatchSuspension
      <3> QED BY <3>1, <3>2, <3>3
    <2>3. /\ NextValue \notin DOMAIN sends
          /\ DOMAIN sends' = DOMAIN sends \cup {NextValue} /\ sends'[NextValue] = "prompt"
          /\ \A v \in DOMAIN sends : sends'[v] = sends[v]
      BY <2>1, SendAdded DEF IInv
    <2>4. Range(Arrived) \subseteq Range(Arrived')
      <3>1. NextValue \in Value
        BY <2>1, LenProperties DEF IInv, TypeOK, NextValue, Value
      <3>2. Range(delivered) \subseteq Range(delivered')
        BY <1>1, <2>1, <3>1, PushFacts
      <3> QED BY <2>1, <3>2, ArrivedType, ArrivedTypeNext
    <2>5. \A t \in Task : t # r => value'[t] = value[t] /\ status'[t] = status[t]
      BY <2>1 DEF IInv, TypeOK
    <2> QED BY <1>1, <2>1, <2>2, <2>3, <2>4, <2>5 DEF GrantedArrive
  <1>3. CASE TryRead
    <2> DEFINE w == Head(pendingWriters)
    <2>1. /\ pendingWriters # <<>> /\ buffer' = buffer
          /\ delivered' = Append(delivered, value[w])
          /\ status' = [status EXCEPT ![w] = ec_success]
          /\ readyQueue' = Append(readyQueue, w)
          /\ UNCHANGED <<value, await, sends>>
      BY <1>1, <1>3 DEF TryRead, try_read, on_resume
    <2>2. /\ w \in Task /\ value[w] \in Value
          /\ Range(readyQueue') = Range(readyQueue) \cup {w}
      <3>1. w \in Task /\ w \in Range(pendingWriters)
        BY <2>1, PopFacts DEF IInv, TypeOK
      <3>2. Range(readyQueue') = Range(readyQueue) \cup {w}
        BY <2>1, <3>1, PushFacts DEF IInv, TypeOK
      <3> QED BY <3>1, <3>2 DEF IInv, QueuesMatchSuspension
    <2>3. Range(Arrived') = Range(Arrived) \cup {value[w]}
      <3>1. Range(delivered') = Range(delivered) \cup {value[w]}
        BY <1>1, <2>1, <2>2, PushFacts
      <3> QED BY <2>1, <3>1, ArrivedType, ArrivedTypeNext
    <2>4. \A t \in Task : t # w => status'[t] = status[t]
      BY <2>1 DEF IInv, TypeOK
    <2> QED BY <1>1, <2>1, <2>2, <2>3, <2>4 DEF GrantedArrive
  <1>4. CASE Close
    <2>1. /\ readyQueue' = readyQueue \o released
          /\ status' = [t \in Task |-> IF t \in Range(released) THEN ec_canceled ELSE status[t]]
          /\ UNCHANGED <<buffer, delivered, sends, await, value>>
      BY <1>4 DEF Close, history
    <2>2. /\ Range(readyQueue') = Range(readyQueue) \cup Range(released)
          /\ Range(released) \subseteq Task
      <3>1. released \in Seq(Task)
        BY ConcatFacts DEF released, IInv, TypeOK
      <3>2. Range(released) \subseteq Task
        BY <3>1 DEF Range
      <3> QED BY <2>1, <3>1, <3>2, ConcatFacts DEF IInv, TypeOK
    <2>3. Arrived' = Arrived /\ ec_canceled # ec_success
      BY <2>1 DEF Arrived, ec_canceled, ec_success
    <2> QED BY <1>1, <2>1, <2>2, <2>3 DEF GrantedArrive
  <1>5. CASE \E t \in Task : Start(t)
    <2>1. PICK t \in Task : Start(t)
      BY <1>5
    <2>2. /\ await[t] = "initial" /\ readyQueue' = Append(readyQueue, t)
          /\ UNCHANGED <<buffer, await, value, status, sends, delivered>>
      BY <2>1 DEF Start, channelVars, taskVars, history
    <2>3. Range(readyQueue') = Range(readyQueue) \cup {t}
      BY <2>2, PushFacts DEF IInv, TypeOK
    <2> QED BY <2>2, <2>3 DEF GrantedArrive, Arrived
  <1>6. CASE RunOnce
    <2> DEFINE t == Head(readyQueue)
    <2>1. /\ readyQueue # <<>> /\ readyQueue' = Tail(readyQueue)
          /\ await' = [await EXCEPT ![t] = "none"]
          /\ status' = [status EXCEPT ![t] = ec_success]
          /\ value' = [value EXCEPT ![t] = NoValue]
          /\ sends' = IF await[t] = "send"
                      THEN [sends EXCEPT ![value[t]] = SendOutcome(t)] ELSE sends
          /\ UNCHANGED <<buffer, delivered>>
      BY <1>6 DEF RunOnce, channelVars
    <2>2. /\ t \in Range(readyQueue) /\ t \notin Range(readyQueue')
          /\ Range(readyQueue') \subseteq Range(readyQueue)
      BY <2>1, PopFacts DEF IInv, TypeOK, NodesLinkedOnce
    <2>3. \A u \in Task : u # t => /\ await'[u] = await[u] /\ status'[u] = status[u]
                                   /\ value'[u] = value[u]
      BY <2>1 DEF IInv, TypeOK
    <2>4. Arrived' = Arrived
      BY <2>1 DEF Arrived
    <2>5. \A v \in DOMAIN sends' : sends'[v] = "granted" => v \in Range(Arrived)
      <3>1. sends \in [1 .. Len(sends) -> SendFate]
        BY LenProperties DEF IInv, TypeOK
      <3>2. CASE await[t] = "send"
        <4>1. /\ DOMAIN sends' = DOMAIN sends
              /\ \A v \in DOMAIN sends :
                   sends'[v] = IF v = value[t] THEN SendOutcome(t) ELSE sends[v]
          BY <2>1, <3>1, <3>2
        <4>2. SendOutcome(t) = "granted" => value[t] \in Range(Arrived)
          BY <2>2, <3>2 DEF SendOutcome, GrantedArrive
        <4> QED BY <4>1, <4>2 DEF GrantedArrive
      <3>3. CASE await[t] # "send"
        BY <2>1, <3>3 DEF GrantedArrive
      <3> QED BY <3>2, <3>3
    <2>6. \A u \in Range(readyQueue') : u \in Task /\ u \in Range(readyQueue) /\ u # t
      BY <1>1, <2>2
    <2> QED BY <2>3, <2>4, <2>5, <2>6 DEF GrantedArrive
  <1>7. CASE SendSuspends
    <2>1. /\ running # NoTask /\ sends' = Append(sends, "waiting")
          /\ await' = [await EXCEPT ![running] = "send"]
          /\ value' = [value EXCEPT ![running] = NextValue]
          /\ UNCHANGED <<buffer, readyQueue, status, delivered>>
      BY <1>7 DEF SendSuspends
    <2>2. running \notin Range(readyQueue)
      BY <2>1 DEF IInv, NodesLinkedOnce, Linked
    <2>3. /\ NextValue \notin DOMAIN sends
          /\ DOMAIN sends' = DOMAIN sends \cup {NextValue} /\ sends'[NextValue] = "waiting"
          /\ \A v \in DOMAIN sends : sends'[v] = sends[v]
      BY <2>1, SendAdded DEF IInv
    <2>4. \A t \in Range(readyQueue) : await'[t] = await[t] /\ value'[t] = value[t]
      BY <1>1, <2>1, <2>2 DEF IInv, TypeOK
    <2>5. Arrived' = Arrived
      BY <2>1 DEF Arrived
    <2> QED BY <2>1, <2>3, <2>4, <2>5 DEF GrantedArrive
  <1>8. CASE ReceiveSuspends \/ Yield \/ Return
    <2>1. /\ running # NoTask
          /\ \E e \in {"receive", "yield", "final"} : await' = [await EXCEPT ![running] = e]
          /\ readyQueue' = Append(readyQueue, running) \/ readyQueue' = readyQueue
          /\ UNCHANGED <<buffer, value, status, sends, delivered>>
      BY <1>8 DEF ReceiveSuspends, Yield, Return, channelVars, history
    <2>2. running \in Task /\ running \notin Range(readyQueue)
      BY <2>1 DEF IInv, TypeOK, NodesLinkedOnce, Linked
    <2>3. Range(readyQueue') \subseteq Range(readyQueue) \cup {running}
      <3>1. Range(Append(readyQueue, running)) = Range(readyQueue) \cup {running}
        BY <2>2, PushFacts DEF IInv, TypeOK
      <3> QED BY <2>1, <3>1
    <2>4. /\ \A t \in Range(readyQueue) : await'[t] = await[t]
          /\ await'[running] # "send"
      BY <1>1, <2>1, <2>2 DEF IInv, TypeOK
    <2>5. Arrived' = Arrived
      BY <2>1 DEF Arrived
    <2> QED BY <2>1, <2>3, <2>4, <2>5 DEF GrantedArrive
  <1>9. CASE UNCHANGED vars
    BY <1>9 DEF vars, channelVars, schedVars, taskVars, history, GrantedArrive, Arrived
  <1> QED BY <1>2, <1>3, <1>4, <1>5, <1>6, <1>7, <1>8, <1>9 DEF Next, GivesUpControl

LEMMA InitUInv == Init => UInv
PROOF
  <1> SUFFICES ASSUME Init PROVE UInv
    OBVIOUS
  <1>1. Range(<<>>) = {} /\ DOMAIN <<>> = {}
    BY DEF Range
  <1> QED BY <1>1 DEF Init, UInv, GrantedArrive

\* Without storage no send that was told it succeeded is ever lost; with
\* storage that is not so (a writer woken by a reader of the buffer).
THEOREM UnbufferedIsHonest == Spec => [](Capacity = 0 => SuccessMeansDelivered)
PROOF
  <1>1. HInv /\ UInv => (Capacity = 0 => SuccessMeansDelivered)
    BY DEF HInv, Honest, UInv, GrantedArrive, SuccessMeansDelivered, Arrived
  <1>2. Spec => []UInv
    BY InitUInv, NextUInv, Invariance, HistoryInvariance, PTL DEF Spec
  <1> QED BY <1>1, <1>2, HistoryInvariance, PTL

-----------------------------------------------------------------------------
(* The refinement: the values on offer are those of the writers that wait. *)

Holding == Value \cup {NoValue}

\* What the writers of the queue q hold.
Held(q, val) == [i \in DOMAIN q |-> val[q[i]]]

LEMMA HeldIsSeq ==
  ASSUME NEW q \in Seq(Task), NEW val \in [Task -> Holding]
  PROVE  /\ Held(q, val) \in Seq(Holding) /\ Len(Held(q, val)) = Len(q)
         /\ \A i \in 1 .. Len(q) : Held(q, val)[i] = val[q[i]]
         /\ q = <<>> => Held(q, val) = <<>>
PROOF
  <1>1. DOMAIN q = 1 .. Len(q) /\ Len(q) \in Nat /\ \A i \in 1 .. Len(q) : q[i] \in Task
    BY LenProperties
  <1>2. Held(q, val) \in [1 .. Len(q) -> Holding]
    BY <1>1 DEF Held
  <1>3. Held(q, val) \in Seq(Holding) /\ Len(Held(q, val)) = Len(q)
    BY <1>1, <1>2, SeqDef
  <1>4. q = <<>> => Held(q, val) = <<>>
    BY <1>3, EmptySeq
  <1> QED BY <1>1, <1>3, <1>4 DEF Held

\* What others hold does not matter.
LEMMA HeldSame ==
  ASSUME NEW q \in Seq(Task), NEW val, NEW other, \A t \in Range(q) : val[t] = other[t]
  PROVE  Held(q, val) = Held(q, other)
PROOF BY DEF Held, Range

\* A writer joins the queue with the value it holds from now on.
LEMMA HeldGrows ==
  ASSUME NEW q \in Seq(Task), NEW t \in Task, t \notin Range(q), NEW e \in Holding,
         NEW val \in [Task -> Holding], NEW after \in [Task -> Holding],
         after[t] = e, \A u \in Range(q) : after[u] = val[u]
  PROVE  Held(Append(q, t), after) = Append(Held(q, val), e)
PROOF
  <1>1. /\ Append(q, t) \in Seq(Task) /\ Len(Append(q, t)) = Len(q) + 1
        /\ \A i \in 1 .. Len(q) : Append(q, t)[i] = q[i]
        /\ Append(q, t)[Len(q) + 1] = t /\ Len(q) \in Nat
        /\ \A i \in 1 .. Len(q) : q[i] \in Range(q) /\ q[i] \in Task
    BY AppendProperties, LenProperties DEF Range
  <1>2. /\ Held(Append(q, t), after) \in Seq(Holding)
        /\ Len(Held(Append(q, t), after)) = Len(q) + 1
        /\ \A i \in 1 .. Len(q) + 1 : Held(Append(q, t), after)[i] = after[Append(q, t)[i]]
    <2>1. ASSUME NEW p \in Seq(Task)
          PROVE  /\ Held(p, after) \in Seq(Holding) /\ Len(Held(p, after)) = Len(p)
                 /\ \A i \in 1 .. Len(p) : Held(p, after)[i] = after[p[i]]
      BY HeldIsSeq
    <2> QED BY <1>1, <2>1
  <1>3. /\ Held(q, val) \in Seq(Holding) /\ Len(Held(q, val)) = Len(q)
        /\ \A i \in 1 .. Len(q) : Held(q, val)[i] = val[q[i]]
    BY HeldIsSeq
  <1>4. /\ Append(Held(q, val), e) \in Seq(Holding) /\ Len(Append(Held(q, val), e)) = Len(q) + 1
        /\ \A i \in 1 .. Len(q) : Append(Held(q, val), e)[i] = Held(q, val)[i]
        /\ Append(Held(q, val), e)[Len(q) + 1] = e
    BY <1>3, AppendProperties
  <1>5. ASSUME NEW i \in 1 .. Len(q) + 1
        PROVE  Held(Append(q, t), after)[i] = Append(Held(q, val), e)[i]
    <2>1. CASE i = Len(q) + 1
      BY <1>1, <1>2, <1>4, <2>1
    <2>2. CASE i # Len(q) + 1
      <3>1. i \in 1 .. Len(q)
        BY <1>1, <2>2
      <3>2. after[q[i]] = val[q[i]]
        BY <1>1, <3>1
      <3> QED BY <1>1, <1>2, <1>3, <1>4, <3>1, <3>2
    <2> QED BY <2>1, <2>2
  <1> QED BY <1>2, <1>4, <1>5, SeqEqual

\* The first writer leaves.
LEMMA HeldShrinks ==
  ASSUME NEW q \in Seq(Task), q # <<>>, NEW val \in [Task -> Holding]
  PROVE  /\ Held(q, val) # <<>>
         /\ Head(Held(q, val)) = val[Head(q)]
         /\ Tail(Held(q, val)) = Held(Tail(q), val)
PROOF
  <1>1. /\ Held(q, val) \in Seq(Holding) /\ Len(Held(q, val)) = Len(q)
        /\ \A i \in 1 .. Len(q) : Held(q, val)[i] = val[q[i]]
    BY HeldIsSeq
  <1>2. Len(q) \in Nat /\ Len(q) >= 1
    BY LenProperties, EmptySeq
  <1>3. Held(q, val) # <<>>
    BY <1>1, <1>2, EmptySeq
  <1>4. /\ Head(q) = q[1] /\ Tail(q) \in Seq(Task) /\ Len(Tail(q)) = Len(q) - 1
        /\ \A i \in 1 .. Len(Tail(q)) : Tail(q)[i] = q[i + 1]
    BY HeadTailProperties
  <1>5. /\ Head(Held(q, val)) = Held(q, val)[1] /\ Tail(Held(q, val)) \in Seq(Holding)
        /\ Len(Tail(Held(q, val))) = Len(q) - 1
        /\ \A i \in 1 .. Len(q) - 1 : Tail(Held(q, val))[i] = Held(q, val)[i + 1]
    BY <1>1, <1>3, HeadTailProperties
  <1>6. /\ Held(Tail(q), val) \in Seq(Holding) /\ Len(Held(Tail(q), val)) = Len(q) - 1
        /\ \A i \in 1 .. Len(q) - 1 : Held(Tail(q), val)[i] = val[Tail(q)[i]]
    <2>1. ASSUME NEW p \in Seq(Task)
          PROVE  /\ Held(p, val) \in Seq(Holding) /\ Len(Held(p, val)) = Len(p)
                 /\ \A i \in 1 .. Len(p) : Held(p, val)[i] = val[p[i]]
      BY HeldIsSeq
    <2> QED BY <1>4, <2>1
  <1>7. \A i \in 1 .. Len(q) - 1 : Tail(Held(q, val))[i] = Held(Tail(q), val)[i]
    <2>1. \A i \in 1 .. Len(q) - 1 : i + 1 \in 1 .. Len(q)
      BY <1>2
    <2> QED BY <1>1, <1>4, <1>5, <1>6, <2>1
  <1>8. Tail(Held(q, val)) = Held(Tail(q), val)
    BY <1>5, <1>6, <1>7, SeqEqual
  <1> QED BY <1>1, <1>2, <1>3, <1>4, <1>5, <1>8

OfferTold == Capacity = 0 => OnOffer = Held(pendingWriters, value)

LEMMA OfferIsHeld == IInv => OfferTold
PROOF
  <1> SUFFICES ASSUME IInv, Capacity = 0 PROVE OnOffer = Held(pendingWriters, value)
    BY DEF OfferTold
  <1>1. buffer = <<>>
    BY EmptyStorage
  <1>2. Held(pendingWriters, value) \in Seq(Holding)
    BY HeldIsSeq DEF IInv, TypeOK, Holding
  <1>3. <<>> \o Held(pendingWriters, value) = Held(pendingWriters, value)
    BY <1>2, ConcatEmptySeq
  <1> QED BY <1>1, <1>3 DEF OnOffer, Held

LEMMA OfferIsHeldNext == IInv' => OfferTold'
PROOF BY OfferIsHeld, PTL

LEMMA StepIsMailboxStep ==
  IInv /\ IInv' /\ [Next]_vars => (Capacity = 0 => [M!Next]_(M!vars))
PROOF
  <1> SUFFICES ASSUME IInv, IInv', Capacity = 0, [Next]_vars PROVE [M!Next]_(M!vars)
    OBVIOUS
  <1>1. /\ OnOffer = Held(pendingWriters, value)
        /\ OnOffer' = Held(pendingWriters', value')
    BY OfferIsHeld, OfferIsHeldNext DEF OfferTold
  <1>2. /\ pendingWriters \in Seq(Task) /\ pendingReaders \in Seq(Task)
        /\ Range(pendingWriters) \subseteq Task
        /\ value \in [Task -> Holding]
        /\ value' \in [Task -> Holding]
    BY DEF IInv, TypeOK, Range, Holding
  <1>3. /\ pendingReaders = <<>> <=> Len(pendingReaders) = 0
        /\ Len(pendingReaders) \in Nat
    BY <1>2, EmptySeq, LenProperties
  <1>4. buffer = <<>>
    BY EmptyStorage
  <1>5. CASE TrySend
    <2> DEFINE r == Head(pendingReaders)
    <2>1. pendingReaders # <<>>
      BY <1>4, <1>5, EmptySeq DEF TrySend, try_write, has_room
    <2>2. /\ ~closed /\ closed' = closed /\ pendingWriters' = pendingWriters
          /\ value' = [value EXCEPT ![r] = NextValue]
          /\ delivered' = Append(delivered, NextValue)
          /\ pendingReaders' = Tail(pendingReaders)
          /\ Len(sends) < MaxSends
      BY <1>5, <2>1 DEF TrySend, try_write, hand_to_reader, dequeue_pending_read
    <2>3. r \notin Range(pendingWriters) /\ Len(pendingReaders') = Len(pendingReaders) - 1
      <3>1. r \in Range(pendingReaders) /\ Len(pendingReaders') = Len(pendingReaders) - 1
        BY <1>2, <2>1, <2>2, PopFacts
      <3> QED BY <3>1 DEF IInv, NodesLinkedOnce
    <2>4. OnOffer' = OnOffer
      <3>1. \A t \in Range(pendingWriters) : value'[t] = value[t]
        BY <1>2, <2>2, <2>3
      <3> QED BY <1>1, <1>2, <2>2, <3>1, HeldSame
    <2>5. NextValue \in Value
      BY <2>2, LenProperties DEF IInv, TypeOK, NextValue, Value
    <2>6. M!Offer(NextValue)
      <3>1. Len(pendingReaders) > 0
        BY <1>3, <2>1
      <3>2. /\ ~closed /\ closed' = closed /\ delivered' = Append(delivered, NextValue)
            /\ Len(pendingReaders') = Len(pendingReaders) - 1
        BY <2>2, <2>3
      <3> QED BY <2>4, <3>1, <3>2 DEF M!Offer
    <2> QED BY <2>5, <2>6 DEF M!Next
  <1>6. CASE TryRead
    <2>1. /\ pendingWriters # <<>> /\ closed' = closed
          /\ delivered' = Append(delivered, value[Head(pendingWriters)])
          /\ pendingWriters' = Tail(pendingWriters)
          /\ UNCHANGED <<pendingReaders, value>>
      BY <1>4, <1>6 DEF TryRead, try_read, dequeue_pending_write
    <2>2. /\ OnOffer # <<>> /\ Head(OnOffer) = value[Head(pendingWriters)]
          /\ Tail(OnOffer) = OnOffer'
      BY <1>1, <1>2, <2>1, HeldShrinks
    <2>3. M!Take
      BY <2>1, <2>2 DEF M!Take
    <2> QED BY <2>3 DEF M!Next
  <1>7. CASE Close
    <2>1. /\ closed' = TRUE /\ pendingReaders' = <<>> /\ pendingWriters' = <<>>
          /\ delivered' = delivered
      BY <1>7 DEF Close, history
    <2>2. OnOffer' = <<>> /\ OnOffer \in Seq(Holding)
      <3>1. OnOffer \in Seq(Holding)
        BY <1>1, <1>2, HeldIsSeq
      <3>2. Held(<<>>, value') = <<>>
        <4>1. <<>> \in Seq(Task)
          BY EmptySeq
        <4> QED BY <1>2, <4>1, HeldIsSeq
      <3> QED BY <1>1, <2>1, <3>1, <3>2
    <2>3. SubSeq(OnOffer, 1, 0) = <<>> /\ 0 \in 0 .. Len(OnOffer)
      BY <2>2, LenProperties
    <2>4. Len(pendingReaders') = 0
      BY <2>1
    <2>5. M!Close
      BY <2>1, <2>2, <2>3, <2>4 DEF M!Close
    <2> QED BY <2>5 DEF M!Next
  <1>8. CASE SendSuspends
    <2>1. /\ running # NoTask /\ Len(sends) < MaxSends
          /\ ~closed /\ pendingReaders = <<>>
          /\ pendingWriters' = Append(pendingWriters, running)
          /\ value' = [value EXCEPT ![running] = NextValue]
          /\ UNCHANGED <<closed, pendingReaders, delivered>>
      BY <1>8 DEF SendSuspends, try_write_full
    <2>2. running \in Task /\ running \notin Range(pendingWriters)
      BY <2>1 DEF IInv, TypeOK, NodesLinkedOnce, Linked
    <2>3. NextValue \in Value
      BY <2>1, LenProperties DEF IInv, TypeOK, NextValue, Value
    <2>4. OnOffer' = Append(OnOffer, NextValue)
      <3>1. NextValue \in Holding
        BY <2>3 DEF Holding
      <3>2. /\ value'[running] = NextValue
            /\ \A u \in Range(pendingWriters) : value'[u] = value[u]
        BY <1>2, <2>1, <2>2
      <3>3. Held(Append(pendingWriters, running), value') = Append(Held(pendingWriters, value), NextValue)
        BY <1>2, <2>2, <3>1, <3>2, HeldGrows
      <3> QED BY <1>1, <2>1, <3>3
    <2>5. M!Offer(NextValue)
      BY <1>3, <2>1, <2>4 DEF M!Offer
    <2> QED BY <2>3, <2>5 DEF M!Next
  <1>9. CASE ReceiveSuspends
    <2>1. /\ running # NoTask /\ ~closed /\ pendingWriters = <<>>
          /\ pendingReaders' = Append(pendingReaders, running)
          /\ UNCHANGED <<closed, pendingWriters, value, delivered>>
      BY <1>9 DEF ReceiveSuspends, try_read_empty, history
    <2>2. OnOffer = <<>> /\ OnOffer' = OnOffer
      BY <1>1, <1>2, <2>1, HeldIsSeq
    <2>3. Len(pendingReaders') = Len(pendingReaders) + 1
      <3>1. running \in Task
        BY <2>1 DEF IInv, TypeOK
      <3> QED BY <1>2, <2>1, <3>1, AppendProperties
    <2>4. M!Want
      BY <2>1, <2>2, <2>3 DEF M!Want
    <2> QED BY <2>4 DEF M!Next
  <1>10. CASE \/ UNCHANGED <<closed, pendingReaders, pendingWriters, value, delivered>>
              \/ RunOnce
    <2>1. UNCHANGED <<closed, pendingReaders, pendingWriters, delivered>>
      BY <1>10 DEF RunOnce, channelVars
    <2>2. \A t \in Range(pendingWriters) : value'[t] = value[t]
      <3>1. CASE RunOnce
        <4>1. readyQueue # <<>> /\ value' = [value EXCEPT ![Head(readyQueue)] = NoValue]
          BY <3>1 DEF RunOnce
        <4>2. Head(readyQueue) \notin Range(pendingWriters)
          <5>1. Head(readyQueue) \in Range(readyQueue)
            BY <4>1, PopFacts DEF IInv, TypeOK
          <5> QED BY <5>1 DEF IInv, NodesLinkedOnce
        <4> QED BY <1>2, <4>1, <4>2
      <3> QED BY <1>10, <3>1
    <2>3. OnOffer' = OnOffer
      BY <1>1, <1>2, <2>1, <2>2, HeldSame
    <2> QED BY <2>1, <2>3 DEF M!vars
  <1>11. CASE \/ \E t \in Task : Start(t)
              \/ Yield \/ Return \/ UNCHANGED vars
    <2>1. UNCHANGED <<closed, pendingReaders, pendingWriters, value, delivered>>
      BY <1>11 DEF Start, Yield, Return, vars, channelVars, taskVars, history
    <2> QED BY <2>1, <1>10
  <1> QED BY <1>5, <1>6, <1>7, <1>8, <1>9, <1>10, <1>11 DEF Next, GivesUpControl

LEMMA InitIsMailboxInit == Init => (Capacity = 0 => M!Init)
PROOF
  <1> SUFFICES ASSUME Init, Capacity = 0 PROVE M!Init
    OBVIOUS
  <1>1. OnOffer = Held(pendingWriters, value)
    BY InitIInv, OfferIsHeld DEF OfferTold
  <1>2. /\ pendingWriters = <<>> /\ pendingReaders = <<>> /\ delivered = <<>> /\ closed = FALSE
        /\ pendingWriters \in Seq(Task) /\ value \in [Task -> Holding]
    BY InitIInv DEF Init, IInv, TypeOK, Holding
  <1>3. OnOffer = <<>> /\ Len(pendingReaders) = 0
    BY <1>1, <1>2, HeldIsSeq
  <1> QED BY <1>2, <1>3 DEF M!Init

\* A channel without storage is the abstract mailbox, step by step, for any
\* number of tasks: values leave in the order in which they were offered, each
\* for one reader, and nobody waits past a value.
THEOREM UnbufferedIsMailbox == ASSUME Capacity = 0 PROVE Spec => ImplementsMailbox
PROOF
  <1>1. Init => M!Init
    BY InitIsMailboxInit
  <1>2. IInv /\ IInv' /\ [Next]_vars => [M!Next]_(M!vars)
    BY StepIsMailboxStep
  <1> QED BY <1>1, <1>2, Invariance, PTL DEF Spec, ImplementsMailbox, M!Spec
=============================================================================
