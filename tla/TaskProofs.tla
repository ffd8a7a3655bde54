----------------------------- MODULE TaskProofs -----------------------------
(***************************************************************************)
(* What is proved of the coroutine runtime, and of the console that runs   *)
(* on it.                                                                  *)
(*                                                                         *)
(* No queue, timer, continuation or task object ever refers to a frame     *)
(* that is gone, for any number of frames of either kind and whatever the  *)
(* tasks and the main program do: IInv is the inductive invariant.  And    *)
(* the coroutine runtime implements threads with call stacks: TaskLife     *)
(* refines Threads, by LInv, in the second half.                           *)
(*                                                                         *)
(* The console is a program on this runtime: with respect to frames and    *)
(* queues it does what TaskLife allows, so that what is proved of every    *)
(* such program holds of the console, its commands and the tasks beside    *)
(* it.  What is printed leaves in order: the write buffer is a queue of    *)
(* bytes, whatever its size and wherever its copies wrap.  And the         *)
(* arguments of a command are the first words of the line, as long as the  *)
(* command runs.                                                           *)
(***************************************************************************)
EXTENDS Console, QueueLemmas

USE TaskAssumption DEF TaskAssumption

-----------------------------------------------------------------------------
(* control as a stack, and the frames that hang on a frame.                *)

\* The last element leaves; everything else stays.
LEMMA FrontFacts ==
  ASSUME NEW S, NEW q \in Seq(S), q # <<>>
  PROVE  /\ Last(q) \in S
         /\ Front(q) \in Seq(S)
         /\ Range(q) = Range(Front(q)) \cup {Last(q)}
         /\ IsInjective(q) => IsInjective(Front(q)) /\ Last(q) \notin Range(Front(q))
PROOF
  <1>1. Len(q) \in Nat /\ Len(q) >= 1 /\ DOMAIN q = 1 .. Len(q)
        /\ \A i \in 1 .. Len(q) : q[i] \in S
    BY EmptySeq, LenProperties, ElementOfSeq
  <1>2. /\ Front(q) \in Seq(S)
        /\ DOMAIN Front(q) = 1 .. Len(q) - 1
        /\ \A i \in 1 .. Len(q) - 1 : Front(q)[i] = q[i]
    BY <1>1, SubSeqProperties, LenProperties DEF Front
  <1>3. Last(q) \in S
    BY <1>1 DEF Last
  <1>4. Range(q) = Range(Front(q)) \cup {Last(q)}
    BY <1>1, <1>2 DEF Range, Last
  <1>5. IsInjective(q) => IsInjective(Front(q)) /\ Last(q) \notin Range(Front(q))
    BY <1>1, <1>2 DEF Range, Last, IsInjective
  <1> QED BY <1>2, <1>3, <1>4, <1>5

\* The top of control is exchanged for a frame that is not in it.
LEMMA TransferFacts ==
  ASSUME NEW S, NEW q \in Seq(S), q # <<>>, IsInjective(q), NEW e \in S,
         e \notin Range(q)
  PROVE  /\ Append(Front(q), e) \in Seq(S)
         /\ IsInjective(Append(Front(q), e))
         /\ Range(Append(Front(q), e)) = (Range(q) \ {Last(q)}) \cup {e}
PROOF
  <1>1. /\ Front(q) \in Seq(S) /\ IsInjective(Front(q))
        /\ Range(Front(q)) = Range(q) \ {Last(q)}
    BY FrontFacts
  <1> QED BY <1>1, PushFacts

\* What hangs on f: f, whatever a frame among them holds, and nothing else.
LEMMA BelowFacts ==
  ASSUME NEW f \in Frame
  PROVE  /\ f \in Below(f) /\ Below(f) \subseteq Frame
         /\ \A h \in Frame : holder[h] \in Below(f) => h \in Below(f)
         /\ \A g \in Below(f) \ {f} : holder[g] \in Below(f)
         /\ (\A h \in Frame : holder[h] # f) => Below(f) = {f}
PROOF
  <1> DEFINE Closed(S) == f \in S /\ \A h \in Frame : holder[h] \in S => h \in S
  <1>1. \A g \in Frame : g \in Below(f) <=> \A S \in SUBSET Frame : Closed(S) => g \in S
    BY DEF Below
  <1>2. Below(f) \subseteq Frame
    BY DEF Below
  <1>3. f \in Below(f)
    BY <1>1
  <1>4. \A h \in Frame : holder[h] \in Below(f) => h \in Below(f)
    <2> TAKE h \in Frame
    <2> HAVE holder[h] \in Below(f)
    <2>1. ASSUME NEW S \in SUBSET Frame, Closed(S) PROVE h \in S
      BY <1>1, <1>2, <2>1
    <2> QED BY <1>1, <2>1
  <1>5. ASSUME NEW g \in Below(f), g # f, holder[g] \notin Below(f) PROVE FALSE
    <2> DEFINE S == Below(f) \ {g}
    <2>1. Closed(S) /\ S \in SUBSET Frame
      BY <1>2, <1>3, <1>4, <1>5
    <2>2. g \in S
      BY <1>1, <1>2, <1>5, <2>1
    <2> QED BY <2>2
  <1>6. ASSUME \A h \in Frame : holder[h] # f PROVE Below(f) = {f}
    <2>1. Closed({f}) /\ {f} \in SUBSET Frame
      BY <1>6
    <2> QED BY <1>1, <1>2, <1>3, <2>1
  <1> QED BY <1>2, <1>3, <1>4, <1>5, <1>6

\* Who runs is at the top of control, and only then.
LEMMA RunningFacts ==
  ASSUME IInv
  PROVE  /\ running \in Frame =>
              control # <<>> /\ running = Last(control) /\ running \in Range(control)
              /\ point[running] = "running"
         /\ running = App => control = <<>>
PROOF
  <1>1. control \in Seq(Frame) /\ ControlRuns
    BY DEF IInv, TypeOK
  <1>2. control # <<>> => Last(control) \in Frame /\ Last(control) \in Range(control)
    BY <1>1, FrontFacts
  <1> QED BY <1>1, <1>2 DEF running, ControlRuns

LEMMA InitIInv == Init => IInv
PROOF
  <1> SUFFICES ASSUME Init PROVE IInv
    OBVIOUS
  <1>1. Range(<<>>) = {} /\ IsInjective(<<>>)
    BY DEF Range, IsInjective
  <1>2. control \in Seq(Frame) /\ readyQueue \in Seq(Frame \ Plain)
    BY EmptySeq DEF Init
  <1>3. TypeOK
    BY <1>2 DEF Init, TypeOK, Point
  <1>4. NothingDangles
    BY <1>1 DEF Init, NothingDangles, QueuesHoldSuspended, HoldersExist, AwaitedByOne,
                Exists, done
  <1>5. ControlRuns /\ UnstartedHoldNothing
    BY <1>1 DEF Init, ControlRuns, UnstartedHoldNothing
  <1> QED BY <1>3, <1>4, <1>5 DEF IInv

-----------------------------------------------------------------------------
(* One lemma per action.  What a step does to the queues and to control is *)
(* said in terms of their ranges; the conjuncts of IInv are read off that. *)

LEMMA CreateIInv ==
  ASSUME IInv, NEW x \in Frame \cup {App}, NEW f \in Frame, Create(x, f) PROVE IInv'
PROOF
  <1>1. /\ TypeOK /\ QueuesHoldSuspended /\ HoldersExist /\ AwaitedByOne
        /\ ControlRuns /\ UnstartedHoldNothing
    BY DEF IInv, NothingDangles
  <1>2. /\ point[f] = "absent" /\ \A h \in Frame : holder[h] # f
        /\ x \in Frame => point[x] = "running"
    BY <1>1, RunningFacts DEF Create, HoldersExist, Exists
  <1>3. TypeOK'
    BY <1>1 DEF Create, queueVars, TypeOK, Point
  <1>4. QueuesHoldSuspended'
    BY <1>1, <1>2 DEF Create, queueVars, TypeOK, QueuesHoldSuspended
  <1>5. HoldersExist'
    BY <1>1, <1>2 DEF Create, TypeOK, HoldersExist, Exists, done
  <1>6. AwaitedByOne'
    BY <1>1, <1>2 DEF Create, TypeOK, AwaitedByOne, HoldersExist, Exists
  <1>7. ControlRuns' /\ UnstartedHoldNothing'
    BY <1>1, <1>2 DEF Create, TypeOK, ControlRuns, UnstartedHoldNothing
  <1> QED BY <1>3, <1>4, <1>5, <1>6, <1>7 DEF IInv, NothingDangles

\* A frame that does not move is put at the end of the ready queue, where it
\* was not: start, and the end of a wait.
LEMMA PostFacts ==
  ASSUME TypeOK, QueuesHoldSuspended, NEW f \in Frame \ Plain, f \notin Range(readyQueue),
         post(f)
  PROVE  /\ readyQueue' \in Seq(Frame \ Plain) /\ IsInjective(readyQueue')
         /\ Range(readyQueue') = Range(readyQueue) \cup {f}
PROOF
  BY PushFacts DEF TypeOK, QueuesHoldSuspended, post

LEMMA StartIInv ==
  ASSUME IInv, NEW x \in Frame \cup {App}, NEW f \in Frame, Start(x, f) PROVE IInv'
PROOF
  <1>1. TypeOK /\ QueuesHoldSuspended
    BY DEF IInv, NothingDangles
  <1>2. /\ readyQueue' \in Seq(Frame \ Plain) /\ IsInjective(readyQueue')
        /\ Range(readyQueue') = Range(readyQueue) \cup {f}
    BY <1>1, PostFacts DEF Start, fresh
  <1>3. TypeOK' /\ QueuesHoldSuspended'
    BY <1>1, <1>2 DEF Start, fresh, frameVars, TypeOK, QueuesHoldSuspended
  <1>4. HoldersExist' /\ AwaitedByOne' /\ ControlRuns' /\ UnstartedHoldNothing'
    BY DEF Start, frameVars, IInv, NothingDangles, HoldersExist, AwaitedByOne, ControlRuns,
           UnstartedHoldNothing, Exists, done
  <1> QED BY <1>3, <1>4 DEF IInv, NothingDangles

LEMMA StartPlainIInv ==
  ASSUME IInv, NEW x \in Frame \cup {App}, NEW f \in Frame, StartPlain(x, f) PROVE IInv'
PROOF
  <1>1. /\ TypeOK /\ QueuesHoldSuspended /\ HoldersExist /\ AwaitedByOne
        /\ ControlRuns /\ UnstartedHoldNothing
    BY DEF IInv, NothingDangles
  <1>2. /\ point[f] = "initial" /\ f \notin Range(readyQueue)
        /\ f \notin Range(control)
    BY <1>1 DEF StartPlain, fresh, ControlRuns
  <1>3. /\ control' \in Seq(Frame) /\ IsInjective(control')
        /\ Range(control') = Range(control) \cup {f}
    BY <1>1, <1>2, PushFacts DEF StartPlain, TypeOK, ControlRuns
  <1>4. TypeOK'
    BY <1>1, <1>3 DEF StartPlain, queueVars, TypeOK, Point
  <1>5. QueuesHoldSuspended'
    BY <1>1, <1>2 DEF StartPlain, queueVars, TypeOK, QueuesHoldSuspended
  <1>6. HoldersExist' /\ UnstartedHoldNothing'
    BY <1>1, <1>2 DEF StartPlain, TypeOK, HoldersExist, UnstartedHoldNothing, Exists, done
  <1>7. AwaitedByOne'
    BY <1>1, <1>2 DEF StartPlain, TypeOK, AwaitedByOne, Exists
  <1>8. ControlRuns'
    BY <1>1, <1>3 DEF StartPlain, TypeOK, ControlRuns
  <1> QED BY <1>4, <1>5, <1>6, <1>7, <1>8 DEF IInv, NothingDangles

LEMMA RunOnceIInv ==
  ASSUME IInv, RunOnce PROVE IInv'
PROOF
  <1> DEFINE f == Head(readyQueue)
  <1>1. /\ TypeOK /\ QueuesHoldSuspended /\ HoldersExist /\ AwaitedByOne
        /\ ControlRuns /\ UnstartedHoldNothing
    BY DEF IInv, NothingDangles
  <1>2. /\ f \in Frame \ Plain /\ f \in Range(readyQueue)
        /\ readyQueue' \in Seq(Frame \ Plain) /\ IsInjective(readyQueue')
        /\ Range(readyQueue') = Range(readyQueue) \ {f}
    BY <1>1, PopFacts DEF RunOnce, TypeOK, QueuesHoldSuspended
  <1>3. /\ point[f] \in {"initial", "yield", "sleep", "wait"}
        /\ f \notin timers /\ f \notin waiting
    BY <1>1, <1>2 DEF QueuesHoldSuspended
  <1>4. /\ Range(control) = {}
        /\ control' \in Seq(Frame) /\ IsInjective(control') /\ Range(control') = {f}
    <2>1. control = <<>>
      BY RunningFacts DEF RunOnce
    <2>2. control' = <<f>> /\ DOMAIN <<f>> = {1}
      BY DEF RunOnce
    <2> QED BY <2>1, <2>2, <1>2 DEF Range, IsInjective
  <1>5. /\ point' = [point EXCEPT ![f] = "running"]
        /\ started' = [started EXCEPT ![f] = TRUE]
        /\ UNCHANGED <<continuation, holder, timers, waiting>>
    BY DEF RunOnce
  <1> HIDE DEF f
  <1>6. TypeOK'
    BY <1>1, <1>2, <1>4, <1>5 DEF TypeOK, Point
  <1>7. QueuesHoldSuspended'
    BY <1>1, <1>2, <1>3, <1>5 DEF TypeOK, QueuesHoldSuspended
  <1>8. HoldersExist' /\ UnstartedHoldNothing'
    BY <1>1, <1>2, <1>3, <1>5 DEF TypeOK, HoldersExist, UnstartedHoldNothing, Exists, done
  <1>9. AwaitedByOne'
    BY <1>1, <1>2, <1>3, <1>5 DEF TypeOK, AwaitedByOne, Exists
  <1>10. ControlRuns'
    BY <1>1, <1>2, <1>4, <1>5 DEF TypeOK, ControlRuns
  <1> QED BY <1>6, <1>7, <1>8, <1>9, <1>10 DEF IInv, NothingDangles

LEMMA AwaitIInv ==
  ASSUME IInv, NEW f \in Frame, NEW g \in Frame, Await(f, g) PROVE IInv'
PROOF
  <1>1. /\ TypeOK /\ QueuesHoldSuspended /\ HoldersExist /\ AwaitedByOne
        /\ ControlRuns /\ UnstartedHoldNothing
    BY DEF IInv, NothingDangles
  <1>2. /\ point[f] = "running" /\ f = Last(control) /\ control # <<>>
        /\ point[g] = "initial" /\ g \notin Range(readyQueue) /\ holder[g] = f /\ f # g
        /\ g \notin Range(control)
    BY <1>1, RunningFacts DEF Await, fresh, ControlRuns
  <1>3. /\ control' \in Seq(Frame) /\ IsInjective(control')
        /\ Range(control') = (Range(control) \ {f}) \cup {g}
    BY <1>1, <1>2, TransferFacts DEF Await, transfer, TypeOK, ControlRuns
  <1>4. /\ point' = [point EXCEPT ![f] = "await", ![g] = "running"]
        /\ started' = [started EXCEPT ![g] = TRUE]
        /\ continuation' = [continuation EXCEPT ![g] = f]
        /\ UNCHANGED <<holder, readyQueue, timers, waiting>>
    BY DEF Await, continues_with, queueVars
  <1>5. TypeOK'
    BY <1>1, <1>3, <1>4 DEF TypeOK, Point
  <1>6. QueuesHoldSuspended'
    BY <1>1, <1>2, <1>4 DEF TypeOK, QueuesHoldSuspended
  <1>7. HoldersExist' /\ UnstartedHoldNothing'
    BY <1>1, <1>2, <1>4 DEF TypeOK, HoldersExist, UnstartedHoldNothing, Exists, done
  <1>8. AwaitedByOne'
    <2>1. \A h \in Frame : continuation[h] # f
      BY <1>1, <1>2 DEF AwaitedByOne
    <2>2. \A h \in Frame : continuation[h] # g
      BY <1>1, <1>2 DEF AwaitedByOne
    <2>3. ASSUME NEW h \in Frame, continuation'[h] # NoFrame
          PROVE  /\ point'[h] # "absent" /\ holder'[h] = continuation'[h]
                 /\ point'[continuation'[h]] = "await"
      BY <2>3, <2>2, <1>1, <1>2, <1>4 DEF TypeOK, AwaitedByOne, Exists
    <2>4. ASSUME NEW c \in Frame, point'[c] = "await"
          PROVE  \E d \in Frame : \A h \in Frame : continuation'[h] = c <=> h = d
      <3>1. CASE c = f
        BY <3>1, <2>1, <1>1, <1>4 DEF TypeOK
      <3>2. CASE c # f
        <4>1. point[c] = "await" /\ c # g
          BY <3>2, <2>4, <1>1, <1>4 DEF TypeOK
        <4>2. PICK d \in Frame : \A h \in Frame : continuation[h] = c <=> h = d
          BY <4>1, <1>1 DEF AwaitedByOne
        <4>3. d # g
          BY <4>1, <4>2, <3>2, <1>1, <1>2 DEF AwaitedByOne
        <4> QED BY <4>2, <4>3, <3>2, <1>1, <1>4 DEF TypeOK
      <3> QED BY <3>1, <3>2
    <2> QED BY <2>3, <2>4 DEF AwaitedByOne, Exists
  <1>9. ControlRuns'
    BY <1>1, <1>2, <1>3, <1>4 DEF TypeOK, ControlRuns
  <1> QED BY <1>5, <1>6, <1>7, <1>8, <1>9 DEF IInv, NothingDangles

\* What Yield, Sleep and Wait have in common, given the queues after them.
LEMMA SuspendIInv ==
  ASSUME IInv, NEW f \in Frame, NEW where \in {"yield", "sleep", "wait"},
         suspend(f, where), TypeOK', QueuesHoldSuspended'
  PROVE  IInv'
PROOF
  <1>1. /\ TypeOK /\ HoldersExist /\ AwaitedByOne /\ ControlRuns /\ UnstartedHoldNothing
    BY DEF IInv, NothingDangles
  <1>2. point[f] = "running" /\ f = Last(control) /\ control # <<>>
    BY RunningFacts DEF suspend
  <1>3. /\ point' = [point EXCEPT ![f] = where]
        /\ control' = Front(control)
        /\ UNCHANGED <<started, continuation, holder>>
    BY DEF suspend
  <1>4. IsInjective(control') /\ Range(control') = Range(control) \ {f}
    BY <1>1, <1>2, <1>3, FrontFacts DEF TypeOK, ControlRuns
  <1>5. HoldersExist' /\ UnstartedHoldNothing'
    BY <1>1, <1>2, <1>3 DEF TypeOK, HoldersExist, UnstartedHoldNothing, Exists, done
  <1>6. AwaitedByOne'
    BY <1>1, <1>2, <1>3 DEF TypeOK, AwaitedByOne, Exists
  <1>7. ControlRuns'
    BY <1>1, <1>3, <1>4 DEF TypeOK, ControlRuns
  <1> QED BY <1>5, <1>6, <1>7 DEF IInv, NothingDangles

\* The frame's own part of the types after a suspension.
LEMMA SuspendTypes ==
  ASSUME TypeOK, ControlRuns, NEW f \in Frame, NEW where \in {"yield", "sleep", "wait"},
         suspend(f, where), running = f, control # <<>>
  PROVE  /\ point' \in [Frame -> Point] /\ control' \in Seq(Frame)
         /\ started' \in [Frame -> BOOLEAN]
         /\ continuation' \in [Frame -> Frame \cup {NoFrame}]
         /\ holder' \in [Frame -> Frame \cup {App, NoFrame}]
PROOF
  <1>1. control' \in Seq(Frame)
    BY FrontFacts DEF suspend, TypeOK
  <1> QED BY <1>1 DEF suspend, TypeOK, Point

LEMMA YieldIInv ==
  ASSUME IInv, NEW f \in Frame, Yield(f) PROVE IInv'
PROOF
  <1>1. TypeOK /\ QueuesHoldSuspended /\ ControlRuns
    BY DEF IInv, NothingDangles
  <1>2. f \notin Plain /\ point[f] = "running" /\ running = f /\ control # <<>>
        /\ suspend(f, "yield") /\ point' = [point EXCEPT ![f] = "yield"]
    BY RunningFacts DEF Yield, suspend
  <1>3. /\ readyQueue' \in Seq(Frame \ Plain) /\ IsInjective(readyQueue')
        /\ Range(readyQueue') = Range(readyQueue) \cup {f}
    BY <1>1, <1>2, PostFacts DEF Yield, QueuesHoldSuspended
  <1>4. TypeOK'
    BY <1>1, <1>2, <1>3, SuspendTypes DEF Yield, TypeOK
  <1>5. QueuesHoldSuspended'
    BY <1>1, <1>2, <1>3 DEF Yield, TypeOK, QueuesHoldSuspended
  <1> QED BY <1>2, <1>4, <1>5, SuspendIInv

LEMMA SleepIInv ==
  ASSUME IInv, NEW f \in Frame, Sleep(f) PROVE IInv'
PROOF
  <1>1. TypeOK /\ QueuesHoldSuspended /\ ControlRuns
    BY DEF IInv, NothingDangles
  <1>2. f \notin Plain /\ point[f] = "running" /\ running = f /\ control # <<>>
        /\ suspend(f, "sleep") /\ point' = [point EXCEPT ![f] = "sleep"]
    BY RunningFacts DEF Sleep, suspend
  <1>3. TypeOK'
    BY <1>1, <1>2, SuspendTypes DEF Sleep, TypeOK
  <1>4. QueuesHoldSuspended'
    BY <1>1, <1>2 DEF Sleep, TypeOK, QueuesHoldSuspended
  <1> QED BY <1>2, <1>3, <1>4, SuspendIInv

LEMMA WaitIInv ==
  ASSUME IInv, NEW f \in Frame, Wait(f) PROVE IInv'
PROOF
  <1>1. TypeOK /\ QueuesHoldSuspended /\ ControlRuns
    BY DEF IInv, NothingDangles
  <1>2. f \notin Plain /\ point[f] = "running" /\ running = f /\ control # <<>>
        /\ suspend(f, "wait") /\ point' = [point EXCEPT ![f] = "wait"]
    BY RunningFacts DEF Wait, suspend
  <1>3. TypeOK'
    BY <1>1, <1>2, SuspendTypes DEF Wait, TypeOK
  <1>4. QueuesHoldSuspended'
    BY <1>1, <1>2 DEF Wait, TypeOK, QueuesHoldSuspended
  <1> QED BY <1>2, <1>3, <1>4, SuspendIInv

LEMMA ExpireIInv ==
  ASSUME IInv, NEW f \in Frame, Expire(f) PROVE IInv'
PROOF
  <1>1. TypeOK /\ QueuesHoldSuspended
    BY DEF IInv, NothingDangles
  <1>2. f \in Frame \ Plain /\ point[f] = "sleep" /\ f \notin Range(readyQueue)
    BY <1>1 DEF Expire, TypeOK, QueuesHoldSuspended
  <1>3. /\ readyQueue' \in Seq(Frame \ Plain) /\ IsInjective(readyQueue')
        /\ Range(readyQueue') = Range(readyQueue) \cup {f}
    BY <1>1, <1>2, PostFacts DEF Expire, woken
  <1>4. TypeOK' /\ QueuesHoldSuspended'
    BY <1>1, <1>2, <1>3 DEF Expire, frameVars, TypeOK, QueuesHoldSuspended
  <1>5. HoldersExist' /\ AwaitedByOne' /\ ControlRuns' /\ UnstartedHoldNothing'
    BY DEF Expire, frameVars, IInv, NothingDangles, HoldersExist, AwaitedByOne, ControlRuns,
           UnstartedHoldNothing, Exists, done
  <1> QED BY <1>4, <1>5 DEF IInv, NothingDangles

LEMMA WakeIInv ==
  ASSUME IInv, NEW f \in Frame, Wake(f) PROVE IInv'
PROOF
  <1>1. TypeOK /\ QueuesHoldSuspended
    BY DEF IInv, NothingDangles
  <1>2. f \in Frame \ Plain /\ point[f] = "wait" /\ f \notin Range(readyQueue)
    BY <1>1 DEF Wake, TypeOK, QueuesHoldSuspended
  <1>3. /\ readyQueue' \in Seq(Frame \ Plain) /\ IsInjective(readyQueue')
        /\ Range(readyQueue') = Range(readyQueue) \cup {f}
    BY <1>1, <1>2, PostFacts DEF Wake
  <1>4. TypeOK' /\ QueuesHoldSuspended'
    BY <1>1, <1>2, <1>3 DEF Wake, frameVars, TypeOK, QueuesHoldSuspended
  <1>5. HoldersExist' /\ AwaitedByOne' /\ ControlRuns' /\ UnstartedHoldNothing'
    BY DEF Wake, frameVars, IInv, NothingDangles, HoldersExist, AwaitedByOne, ControlRuns,
           UnstartedHoldNothing, Exists, done
  <1> QED BY <1>4, <1>5 DEF IInv, NothingDangles

-----------------------------------------------------------------------------
(* The end of frames.                                                      *)

\* A task that is done or was never started holds nothing and is in no queue.
LEMMA IdleFacts ==
  ASSUME IInv, NEW g \in Frame, done(g) \/ fresh(g)
  PROVE  /\ \A h \in Frame : holder[h] # g
         /\ \A h \in Frame : continuation[h] # g
         /\ g \notin Range(readyQueue) \cup timers \cup waiting \cup Range(control)
PROOF
  <1>1. /\ QueuesHoldSuspended /\ HoldersExist /\ AwaitedByOne
        /\ ControlRuns /\ UnstartedHoldNothing
    BY DEF IInv, NothingDangles
  <1>2. point[g] \in {"initial", "final"} /\ g \notin Range(readyQueue)
    BY <1>1 DEF done, fresh, QueuesHoldSuspended
  <1> QED BY <1>1, <1>2 DEF QueuesHoldSuspended, HoldersExist, AwaitedByOne, ControlRuns,
                            UnstartedHoldNothing, done

\* Frames D go, with everything they hold; those that stay are not in D's
\* awaits.  Nothing else changes but the timers.
LEMMA GoneIInv ==
  ASSUME IInv, NEW D \in SUBSET Frame,
         \A h \in Frame : holder[h] \in D => h \in D,
         \A h \in D : continuation[h] \in D \cup {NoFrame},
         D \cap Range(readyQueue) = {}, D \cap waiting = {}, D \cap Range(control) = {},
         point' = without(point, D, "absent"),
         holder' = without(holder, D, NoFrame),
         continuation' = without(continuation, D, NoFrame),
         started' = without(started, D, FALSE),
         timers' = timers \ D,
         UNCHANGED <<control, readyQueue, waiting>>
  PROVE  IInv'
PROOF
  <1>1. /\ TypeOK /\ QueuesHoldSuspended /\ HoldersExist /\ AwaitedByOne
        /\ ControlRuns /\ UnstartedHoldNothing
    BY DEF IInv, NothingDangles
  <1>2. TypeOK'
    BY <1>1 DEF TypeOK, Point, without
  <1>3. \A h \in Frame :
          /\ point'[h] = IF h \in D THEN "absent" ELSE point[h]
          /\ holder'[h] = IF h \in D THEN NoFrame ELSE holder[h]
          /\ continuation'[h] = IF h \in D THEN NoFrame ELSE continuation[h]
    BY DEF without
  <1>4. QueuesHoldSuspended'
    BY <1>1, <1>3 DEF QueuesHoldSuspended
  <1>5. HoldersExist' /\ UnstartedHoldNothing'
    BY <1>1, <1>3 DEF TypeOK, HoldersExist, UnstartedHoldNothing, Exists, done
  <1>6. AwaitedByOne'
    <2>1. \A h \in Frame : continuation[h] \in D => h \in D
      BY <1>1 DEF AwaitedByOne
    <2>2. ASSUME NEW h \in Frame, continuation'[h] # NoFrame
          PROVE  /\ point'[h] # "absent" /\ holder'[h] = continuation'[h]
                 /\ point'[continuation'[h]] = "await"
      BY <2>1, <2>2, <1>1, <1>3 DEF TypeOK, AwaitedByOne, Exists
    <2>3. ASSUME NEW c \in Frame, point'[c] = "await"
          PROVE  \E d \in Frame : \A h \in Frame : continuation'[h] = c <=> h = d
      <3>1. c \notin D /\ point[c] = "await"
        BY <2>3, <1>3
      <3>2. PICK d \in Frame : \A h \in Frame : continuation[h] = c <=> h = d
        BY <3>1, <1>1 DEF AwaitedByOne
      <3>3. d \notin D
        BY <3>1, <3>2
      <3> QED BY <3>2, <3>3, <1>3
    <2> QED BY <2>2, <2>3 DEF AwaitedByOne, Exists
  <1>7. ControlRuns'
    BY <1>1, <1>3 DEF ControlRuns
  <1> QED BY <1>2, <1>4, <1>5, <1>6, <1>7 DEF IInv, NothingDangles

\* What goes with f is in no queue but the timers, and not on control.
LEMMA DestroyedFacts ==
  ASSUME IInv, NEW x \in Frame \cup {App}, NEW f \in Frame, Destroy(x, f)
  PROVE  /\ Below(f) \cap Range(readyQueue) = {} /\ Below(f) \cap waiting = {}
         /\ Below(f) \cap Range(control) = {}
PROOF
  <1>1. CASE done(f) \/ fresh(f)
    BY <1>1, BelowFacts, IdleFacts
  <1>2. CASE x = App /\ readyQueue = <<>> /\ Below(f) \cap waiting = {}
    <2>1. control = <<>>
      BY <1>2, RunningFacts DEF Destroy
    <2> QED BY <1>2, <2>1 DEF Range
  <1> QED BY <1>1, <1>2 DEF Destroy, MayDestroy

LEMMA DestroyIInv ==
  ASSUME IInv, NEW x \in Frame \cup {App}, NEW f \in Frame, Destroy(x, f) PROVE IInv'
PROOF
  <1> DEFINE D == Below(f)
  <1>1. TypeOK /\ AwaitedByOne
    BY DEF IInv, NothingDangles
  <1>2. /\ f \in D /\ D \subseteq Frame
        /\ \A h \in Frame : holder[h] \in D => h \in D
        /\ \A g \in D \ {f} : holder[g] \in D
    BY BelowFacts
  <1>3. D \cap Range(readyQueue) = {} /\ D \cap waiting = {} /\ D \cap Range(control) = {}
    BY DestroyedFacts
  <1>4. \A h \in D : continuation[h] \in D \cup {NoFrame}
    <2>1. continuation[f] = NoFrame
      <3>1. holder[f] = x /\ (x \in Frame => point[x] = "running")
        BY RunningFacts DEF Destroy
      <3> QED BY <3>1, <1>1 DEF AwaitedByOne, TypeOK
    <2>2. ASSUME NEW h \in D \ {f}, continuation[h] # NoFrame PROVE continuation[h] \in D
      BY <2>2, <1>1, <1>2 DEF AwaitedByOne
    <2> QED BY <2>1, <2>2
  <1>5. /\ point' = without(point, D, "absent")
        /\ holder' = without(holder, D, NoFrame)
        /\ continuation' = without(continuation, D, NoFrame)
        /\ started' = without(started, D, FALSE)
        /\ timers' = timers \ D
        /\ UNCHANGED <<control, readyQueue, waiting>>
    BY DEF Destroy, canceled
  <1> HIDE DEF D
  <1> QED BY <1>2, <1>3, <1>4, <1>5, GoneIInv

\* The tasks that are destroyed with the locals of f: they are idle, and no
\* continuation leads from them.
LEMMA LocalsFacts ==
  ASSUME IInv, NEW f \in Frame, BodyEnds(f)
  PROVE  /\ \A g \in Locals(f) :
              /\ \A h \in Frame : holder[h] # g
              /\ \A h \in Frame : continuation[h] # g
              /\ g \notin Range(readyQueue) \cup timers \cup waiting \cup Range(control)
              /\ continuation[g] = NoFrame
         /\ point[f] = "running" /\ f = Last(control) /\ control # <<>>
         /\ f \in Range(control) /\ f \notin Locals(f)
         /\ f \notin Range(readyQueue) \cup timers \cup waiting
PROOF
  <1>1. QueuesHoldSuspended /\ AwaitedByOne
    BY DEF IInv, NothingDangles
  <1>2. /\ point[f] = "running" /\ f = Last(control) /\ control # <<>>
        /\ f \in Range(control)
    BY RunningFacts DEF BodyEnds
  <1>3. f \notin Range(readyQueue) \cup timers \cup waiting
    BY <1>1, <1>2 DEF QueuesHoldSuspended
  <1>4. ASSUME NEW g \in Locals(f)
        PROVE  /\ \A h \in Frame : holder[h] # g
               /\ \A h \in Frame : continuation[h] # g
               /\ g \notin Range(readyQueue) \cup timers \cup waiting \cup Range(control)
               /\ continuation[g] = NoFrame
    <2>1. g \in Frame /\ holder[g] = f /\ (done(g) \/ fresh(g))
      BY DEF Locals, BodyEnds, MayDestroy
    <2>2. continuation[g] = NoFrame
      BY <2>1, <1>1, <1>2 DEF AwaitedByOne
    <2> QED BY <2>1, <2>2, IdleFacts
  <1> QED BY <1>2, <1>3, <1>4

LEMMA ReturnToResumerIInv ==
  ASSUME IInv, NEW f \in Frame, ReturnToResumer(f) PROVE IInv'
PROOF
  <1> DEFINE D == Locals(f)
  <1>1. /\ TypeOK /\ QueuesHoldSuspended /\ HoldersExist /\ AwaitedByOne
        /\ ControlRuns /\ UnstartedHoldNothing
    BY DEF IInv, NothingDangles
  <1>2. /\ \A g \in D : /\ \A h \in Frame : holder[h] # g
                        /\ \A h \in Frame : continuation[h] # g
                        /\ g \notin Range(readyQueue) \cup timers \cup waiting \cup Range(control)
                        /\ continuation[g] = NoFrame
        /\ point[f] = "running" /\ f = Last(control) /\ control # <<>> /\ f \notin D
        /\ f \notin Range(readyQueue) \cup timers \cup waiting
    BY LocalsFacts DEF ReturnToResumer
  <1>3. /\ D \subseteq Frame /\ \A h \in Frame \ D : holder[h] # f
    BY DEF Locals
  <1>4. /\ control' \in Seq(Frame) /\ IsInjective(control')
        /\ Range(control') = Range(control) \ {f}
    BY <1>1, <1>2, FrontFacts DEF ReturnToResumer, TypeOK, ControlRuns
  <1>5. /\ point' = [without(point, D, "absent") EXCEPT ![f] = "final"]
        /\ holder' = without(holder, D, NoFrame)
        /\ started' = without(started, D, FALSE)
        /\ UNCHANGED <<continuation, readyQueue, timers, waiting>>
    BY DEF ReturnToResumer, queueVars
  <1> HIDE DEF D
  <1>6. \A h \in Frame :
          /\ point'[h] = IF h \in D THEN "absent" ELSE IF h = f THEN "final" ELSE point[h]
          /\ holder'[h] = IF h \in D THEN NoFrame ELSE holder[h]
    BY <1>2, <1>5 DEF without
  <1>7. TypeOK'
    BY <1>1, <1>4, <1>5 DEF TypeOK, Point, without
  <1>8. QueuesHoldSuspended'
    BY <1>1, <1>2, <1>5, <1>6 DEF QueuesHoldSuspended
  <1>9. HoldersExist' /\ UnstartedHoldNothing'
    BY <1>1, <1>2, <1>3, <1>6 DEF TypeOK, HoldersExist, UnstartedHoldNothing, Exists, done
  <1>10. AwaitedByOne'
    <2>1. ASSUME NEW h \in Frame, continuation'[h] # NoFrame
          PROVE  /\ point'[h] # "absent" /\ holder'[h] = continuation'[h]
                 /\ point'[continuation'[h]] = "await"
      BY <2>1, <1>1, <1>2, <1>5, <1>6 DEF TypeOK, AwaitedByOne, Exists
    <2>2. ASSUME NEW c \in Frame, point'[c] = "await"
          PROVE  \E d \in Frame : \A h \in Frame : continuation'[h] = c <=> h = d
      <3>1. point[c] = "await"
        BY <2>2, <1>6
      <3> QED BY <3>1, <1>1, <1>5 DEF AwaitedByOne
    <2> QED BY <2>1, <2>2 DEF AwaitedByOne, Exists
  <1>11. ControlRuns'
    BY <1>1, <1>2, <1>4, <1>6 DEF ControlRuns
  <1> QED BY <1>7, <1>8, <1>9, <1>10, <1>11 DEF IInv, NothingDangles

LEMMA ReturnToParentIInv ==
  ASSUME IInv, NEW f \in Frame, ReturnToParent(f) PROVE IInv'
PROOF
  <1> DEFINE D == buried(f)
             c == continuation[f]
  <1>1. /\ TypeOK /\ QueuesHoldSuspended /\ HoldersExist /\ AwaitedByOne
        /\ ControlRuns /\ UnstartedHoldNothing
    BY DEF IInv, NothingDangles
  <1>2. /\ \A g \in Locals(f) :
             /\ \A h \in Frame : holder[h] # g
             /\ \A h \in Frame : continuation[h] # g
             /\ g \notin Range(readyQueue) \cup timers \cup waiting \cup Range(control)
             /\ continuation[g] = NoFrame
        /\ point[f] = "running" /\ f = Last(control) /\ control # <<>>
        /\ f \in Range(control) /\ f \notin Locals(f)
        /\ f \notin Range(readyQueue) \cup timers \cup waiting
    BY LocalsFacts DEF ReturnToParent
  <1>3. c \in Frame /\ holder[f] = c /\ point[c] = "await" /\ c # f /\ c \notin Range(control)
    BY <1>1, <1>2 DEF ReturnToParent, TypeOK, AwaitedByOne, ControlRuns
  <1>4. D \subseteq Frame /\ f \in D /\ \A h \in Frame : holder[h] = f => h \in D
    BY DEF Locals, buried
  <1>5. /\ \A g \in D : \A h \in Frame : holder[h] = g => h \in D
        /\ \A g \in D : \A h \in Frame : continuation[h] # g
        /\ \A g \in D \ {f} : continuation[g] = NoFrame /\ g \notin Range(control)
        /\ D \cap (Range(readyQueue) \cup timers \cup waiting) = {}
    BY <1>1, <1>2, <1>4 DEF buried, AwaitedByOne
  <1>6. c \notin D
    BY <1>3, <1>5
  <1>7. /\ control' \in Seq(Frame) /\ IsInjective(control')
        /\ Range(control') = (Range(control) \ {f}) \cup {c}
    BY <1>1, <1>2, <1>3, TransferFacts DEF ReturnToParent, transfer, TypeOK, ControlRuns
  <1>8. /\ point' = [without(point, D, "absent") EXCEPT ![c] = "running"]
        /\ holder' = without(holder, D, NoFrame)
        /\ continuation' = without(continuation, D, NoFrame)
        /\ started' = without(started, D, FALSE)
        /\ UNCHANGED <<readyQueue, timers, waiting>>
    BY DEF ReturnToParent, queueVars
  <1> HIDE DEF D, c
  <1>9. \A h \in Frame :
          /\ point'[h] = IF h \in D THEN "absent" ELSE IF h = c THEN "running" ELSE point[h]
          /\ holder'[h] = IF h \in D THEN NoFrame ELSE holder[h]
          /\ continuation'[h] = IF h \in D THEN NoFrame ELSE continuation[h]
    BY <1>6, <1>8 DEF without
  <1>10. TypeOK'
    BY <1>1, <1>3, <1>7, <1>8 DEF TypeOK, Point, without
  <1>11. QueuesHoldSuspended'
    BY <1>1, <1>3, <1>5, <1>8, <1>9 DEF QueuesHoldSuspended
  <1>12. HoldersExist' /\ UnstartedHoldNothing'
    BY <1>1, <1>3, <1>5, <1>9 DEF TypeOK, HoldersExist, UnstartedHoldNothing, Exists, done
  <1>13. AwaitedByOne'
    <2>1. ASSUME NEW h \in Frame, continuation'[h] # NoFrame
          PROVE  /\ point'[h] # "absent" /\ holder'[h] = continuation'[h]
                 /\ point'[continuation'[h]] = "await"
      <3>1. h \notin D /\ continuation'[h] = continuation[h] /\ continuation[h] \in Frame
        BY <2>1, <1>1, <1>9 DEF TypeOK
      <3>2. /\ point[h] # "absent" /\ holder[h] = continuation[h]
            /\ point[continuation[h]] = "await" /\ continuation[h] \notin D
        BY <2>1, <3>1, <1>1, <1>5 DEF AwaitedByOne, Exists
      <3>3. continuation[h] # c
        <4>1. \E d \in Frame : \A g \in Frame : continuation[g] = c <=> g = d
          BY <1>1, <1>3 DEF AwaitedByOne
        <4>2. h # f /\ continuation[f] = c
          BY <3>1, <1>4 DEF c
        <4> QED BY <4>1, <4>2
      <3> QED BY <3>1, <3>2, <3>3, <1>9
    <2>2. ASSUME NEW p \in Frame, point'[p] = "await"
          PROVE  \E d \in Frame : \A h \in Frame : continuation'[h] = p <=> h = d
      <3>1. p # c /\ p \notin D /\ point[p] = "await"
        BY <2>2, <1>9
      <3>2. PICK d \in Frame : \A h \in Frame : continuation[h] = p <=> h = d
        BY <3>1, <1>1 DEF AwaitedByOne
      <3>3. d \notin D
        <4>1. continuation[d] = p
          BY <3>2
        <4>2. d # f
          BY <4>1, <3>1 DEF c
        <4> QED BY <4>1, <4>2, <1>5
      <3> QED BY <3>2, <3>3, <1>9
    <2> QED BY <2>1, <2>2 DEF AwaitedByOne, Exists
  <1>14. ControlRuns'
    BY <1>1, <1>3, <1>4, <1>5, <1>6, <1>7, <1>9 DEF ControlRuns
  <1> QED BY <1>10, <1>11, <1>12, <1>13, <1>14 DEF IInv, NothingDangles

-----------------------------------------------------------------------------
LEMMA NextIInv == IInv /\ [Next]_taskVars => IInv'
PROOF
  <1> SUFFICES ASSUME IInv, [Next]_taskVars PROVE IInv'
    OBVIOUS
  <1>1. CASE RunOnce
    BY <1>1, RunOnceIInv
  <1>2. ASSUME NEW f \in Frame,
               Yield(f) \/ Sleep(f) \/ Wait(f) \/ Expire(f) \/ Wake(f) \/ Return(f)
        PROVE  IInv'
    BY <1>2, YieldIInv, SleepIInv, WaitIInv, ExpireIInv, WakeIInv, ReturnToResumerIInv,
       ReturnToParentIInv DEF Return
  <1>3. ASSUME NEW x \in Frame \cup {App}, NEW f \in Frame,
               Create(x, f) \/ Start(x, f) \/ StartPlain(x, f) \/ Destroy(x, f)
        PROVE  IInv'
    BY <1>3, CreateIInv, StartIInv, StartPlainIInv, DestroyIInv
  <1>4. ASSUME NEW f \in Frame, NEW g \in Frame, Await(f, g) PROVE IInv'
    BY <1>4, AwaitIInv
  <1>5. CASE UNCHANGED taskVars
    BY <1>5 DEF taskVars, frameVars, queueVars, IInv, TypeOK, NothingDangles,
                QueuesHoldSuspended, HoldersExist, AwaitedByOne, ControlRuns,
                UnstartedHoldNothing, Exists, done
  <1> QED BY <1>1, <1>2, <1>3, <1>4, <1>5 DEF Next

\* The inductive invariant holds of every program on the coroutine runtime
\* that destroys only what it may.
THEOREM Invariance == Spec => []IInv
PROOF
  BY InitIInv, NextIInv, PTL DEF Spec

\* Every variable keeps its type: plain tasks are never in the scheduler's
\* queue, at a timer or at another queue.
THEOREM TypeCorrect == Spec => []TypeOK
PROOF
  <1>1. IInv => TypeOK
    BY DEF IInv
  <1> QED BY <1>1, Invariance, PTL

\* The queues, timers, continuations and task objects only refer to frames
\* that exist and are where they are expected to be, however tasks await one
\* another, sleep, finish and are destroyed.
THEOREM NoDanglingPointer == Spec => []NothingDangles
PROOF
  <1>1. IInv => NothingDangles
    BY DEF IInv
  <1> QED BY <1>1, Invariance, PTL

-----------------------------------------------------------------------------
(* Threads.  What is needed beyond IInv is the shape of control.  A plain  *)
(* task that is started from within resume() opens a new level on top of   *)
(* the one it is called from; awaiting and finishing exchange the top of a *)
(* level.  The frames of a level are its top and those that wait for it,   *)
(* one for another: a set defined by closure, about which Levels speaks.   *)

\* e, the one that awaits e, the one that awaits that one, and so on.
Awaiters(cont, e) ==
  {g \in Frame : \A S \in SUBSET Frame :
     (e \in S /\ \A h \in S : cont[h] \in Frame => cont[h] \in S) => g \in S}

\* Who is under level i of the stack s.
under(s, i) == IF i = 1 THEN App ELSE s[i - 1]

\* Only the lowest level is of other than plain tasks, a level that a plain
\* task opened has the task's holder under it, and every plain task that was
\* started and has not finished is of a level.
Levels ==
  /\ \A i \in 1 .. Len(control) : \A h \in Awaiters(continuation, control[i]) :
       /\ h \in Plain \/ i = 1
       /\ h \in Plain /\ continuation[h] = NoFrame => holder[h] = under(control, i)
  /\ \A h \in Plain : point[h] \in {"running", "await"} =>
       \E i \in 1 .. Len(control) : h \in Awaiters(continuation, control[i])

PlainAwaitPlain == \A h \in Frame : continuation[h] \in Plain => h \in Plain

UnstartedNotStarted == \A f \in Frame : point[f] = "initial" => ~started[f]

\* The strengthened invariant.
LInv == IInv /\ Levels /\ PlainAwaitPlain /\ UnstartedNotStarted

-----------------------------------------------------------------------------
(* The closure.                                                            *)

LEMMA AwaitersClosed ==
  ASSUME NEW cont, NEW e \in Frame
  PROVE  /\ e \in Awaiters(cont, e) /\ Awaiters(cont, e) \subseteq Frame
         /\ \A h \in Awaiters(cont, e) : cont[h] \in Frame => cont[h] \in Awaiters(cont, e)
         /\ \A S \in SUBSET Frame :
              (e \in S /\ \A h \in S : cont[h] \in Frame => cont[h] \in S)
                => Awaiters(cont, e) \subseteq S
PROOF
  <1> DEFINE Closed(S) == e \in S /\ \A h \in S : cont[h] \in Frame => cont[h] \in S
  <1>1. \A g \in Frame : g \in Awaiters(cont, e) <=> \A S \in SUBSET Frame : Closed(S) => g \in S
    BY DEF Awaiters
  <1>2. Awaiters(cont, e) \subseteq Frame
    BY DEF Awaiters
  <1>3. e \in Awaiters(cont, e)
    BY <1>1
  <1>4. ASSUME NEW h \in Awaiters(cont, e), cont[h] \in Frame PROVE cont[h] \in Awaiters(cont, e)
    <2>1. ASSUME NEW S \in SUBSET Frame, Closed(S) PROVE cont[h] \in S
      BY <1>1, <1>2, <1>4, <2>1
    <2> QED BY <1>1, <1>4, <2>1
  <1>5. ASSUME NEW S \in SUBSET Frame, Closed(S) PROVE Awaiters(cont, e) \subseteq S
    BY <1>1, <1>2, <1>5
  <1> QED BY <1>2, <1>3, <1>4, <1>5

LEMMA AwaitersStep ==
  ASSUME NEW cont, NEW e \in Frame
  PROVE  /\ cont[e] \in Frame => Awaiters(cont, e) = {e} \cup Awaiters(cont, cont[e])
         /\ cont[e] \notin Frame => Awaiters(cont, e) = {e}
PROOF
  <1>1. ASSUME cont[e] \in Frame
        PROVE  Awaiters(cont, e) = {e} \cup Awaiters(cont, cont[e])
    <2> DEFINE S == {e} \cup Awaiters(cont, cont[e])
    <2>1. /\ S \in SUBSET Frame /\ e \in S
          /\ \A h \in S : cont[h] \in Frame => cont[h] \in S
      BY <1>1, AwaitersClosed
    <2>2. Awaiters(cont, e) \subseteq S
      <3> HIDE DEF S
      <3> QED BY <2>1, AwaitersClosed
    <2>3. Awaiters(cont, cont[e]) \subseteq Awaiters(cont, e) /\ e \in Awaiters(cont, e)
      <3>1. /\ cont[e] \in Awaiters(cont, e) /\ e \in Awaiters(cont, e)
            /\ Awaiters(cont, e) \in SUBSET Frame
            /\ \A h \in Awaiters(cont, e) : cont[h] \in Frame => cont[h] \in Awaiters(cont, e)
        BY <1>1, AwaitersClosed
      <3> QED BY <1>1, <3>1, AwaitersClosed
    <2> QED BY <2>2, <2>3
  <1>2. ASSUME cont[e] \notin Frame PROVE Awaiters(cont, e) = {e}
    <2>1. {e} \in SUBSET Frame /\ \A h \in {e} : cont[h] \in Frame => cont[h] \in {e}
      BY <1>2
    <2> QED BY <2>1, AwaitersClosed
  <1> QED BY <1>1, <1>2

\* A change outside a set that continuations do not lead out of.
LEMMA AwaitersStable ==
  ASSUME NEW c1, NEW c2, NEW S \in SUBSET Frame, NEW e \in S,
         \A h \in S : c1[h] \in Frame => c1[h] \in S,
         \A h \in S : c2[h] = c1[h]
  PROVE  Awaiters(c2, e) = Awaiters(c1, e) /\ Awaiters(c1, e) \subseteq S
PROOF
  <1>1. Awaiters(c1, e) \subseteq S /\ Awaiters(c2, e) \subseteq S
    BY AwaitersClosed
  <1>2. /\ e \in Awaiters(c1, e) /\ e \in Awaiters(c2, e)
        /\ \A h \in Awaiters(c1, e) : c1[h] \in Frame => c1[h] \in Awaiters(c1, e)
        /\ \A h \in Awaiters(c2, e) : c2[h] \in Frame => c2[h] \in Awaiters(c2, e)
    BY AwaitersClosed
  <1>3. Awaiters(c2, e) \subseteq Awaiters(c1, e)
    <2>1. \A h \in Awaiters(c1, e) : c2[h] \in Frame => c2[h] \in Awaiters(c1, e)
      BY <1>1, <1>2
    <2>2. Awaiters(c1, e) \in SUBSET Frame
      BY <1>1
    <2> QED BY <1>2, <2>1, <2>2, AwaitersClosed
  <1>4. Awaiters(c1, e) \subseteq Awaiters(c2, e)
    <2>1. \A h \in Awaiters(c2, e) : c1[h] \in Frame => c1[h] \in Awaiters(c2, e)
      BY <1>1, <1>2
    <2>2. Awaiters(c2, e) \in SUBSET Frame
      BY <1>1
    <2> QED BY <1>2, <2>1, <2>2, AwaitersClosed
  <1> QED BY <1>1, <1>3, <1>4

-----------------------------------------------------------------------------
(* control as a sequence of levels.                                        *)

LEMMA PushedFacts ==
  ASSUME NEW S, NEW q \in Seq(S), NEW e \in S
  PROVE  /\ Len(q) \in Nat /\ Len(Append(q, e)) = Len(q) + 1
         /\ \A i \in 1 .. Len(q) : Append(q, e)[i] = q[i] /\ q[i] \in S
         /\ Append(q, e)[Len(q) + 1] = e
PROOF
  BY AppendProperties, LenProperties, ElementOfSeq

LEMMA PoppedFacts ==
  ASSUME NEW S, NEW q \in Seq(S), q # <<>>
  PROVE  /\ Len(q) \in Nat \ {0} /\ Front(q) \in Seq(S) /\ Len(Front(q)) = Len(q) - 1
         /\ \A i \in 1 .. Len(q) - 1 : Front(q)[i] = q[i]
PROOF
  <1>1. /\ Len(q) \in Nat /\ Len(q) >= 1
        /\ \A i \in 1 .. Len(q) : q[i] \in S
    BY EmptySeq, LenProperties, ElementOfSeq
  <1>2. /\ SubSeq(q, 1, Len(q) - 1) \in Seq(S)
        /\ Len(SubSeq(q, 1, Len(q) - 1)) = Len(q) - 1
        /\ \A i \in 1 .. Len(q) - 1 : SubSeq(q, 1, Len(q) - 1)[i] = q[i]
    <2>1. PICK n \in Nat : n = Len(q) - 1
      BY <1>1
    <2>2. /\ SubSeq(q, 1, n) \in Seq(S)
          /\ Len(SubSeq(q, 1, n)) = IF 1 <= n THEN n - 1 + 1 ELSE 0
          /\ \A i \in 1 .. n - 1 + 1 : SubSeq(q, 1, n)[i] = q[1 + i - 1]
      BY <1>1, <2>1, SubSeqProperties
    <2>3. Len(SubSeq(q, 1, n)) = n /\ \A i \in 1 .. n : SubSeq(q, 1, n)[i] = q[i]
      BY <2>2
    <2> QED BY <2>1, <2>2, <2>3
  <1> QED BY <1>1, <1>2 DEF Front

LEMMA ExchangedFacts ==
  ASSUME NEW S, NEW q \in Seq(S), q # <<>>, NEW e \in S
  PROVE  /\ Len(q) \in Nat \ {0} /\ Len(Append(Front(q), e)) = Len(q)
         /\ \A i \in 1 .. Len(q) - 1 : Append(Front(q), e)[i] = q[i]
         /\ Append(Front(q), e)[Len(q)] = e
PROOF
  <1>1. /\ Len(q) \in Nat \ {0} /\ Front(q) \in Seq(S) /\ Len(Front(q)) = Len(q) - 1
        /\ \A i \in 1 .. Len(q) - 1 : Front(q)[i] = q[i]
    BY PoppedFacts
  <1>2. /\ Len(Append(Front(q), e)) = Len(Front(q)) + 1
        /\ \A i \in 1 .. Len(Front(q)) : Append(Front(q), e)[i] = Front(q)[i]
        /\ Append(Front(q), e)[Len(Front(q)) + 1] = e
    BY <1>1, PushedFacts
  <1> QED BY <1>1, <1>2

-----------------------------------------------------------------------------
(* The invariant, action by action.                                        *)

LEMMA InitLInv == Init => LInv
PROOF
  <1> SUFFICES ASSUME Init PROVE LInv
    OBVIOUS
  <1>1. Levels
    <2>1. Len(control) = 0
      BY DEF Init
    <2> QED BY <2>1 DEF Init, Levels
  <1>2. PlainAwaitPlain /\ UnstartedNotStarted
    BY DEF Init, PlainAwaitPlain, UnstartedNotStarted
  <1> QED BY <1>1, <1>2, InitIInv DEF LInv

\* A step that leaves control alone, and changes only frames that are in no
\* level and stay out of them.
LEMMA LevelsKept ==
  ASSUME IInv, Levels, NEW D \in SUBSET Frame,
         control' = control, Range(control) \cap D = {},
         \A h \in Frame \ D : /\ continuation[h] \notin D
                              /\ continuation'[h] = continuation[h]
                              /\ holder'[h] = holder[h]
                              /\ point'[h] = point[h],
         \A h \in D : point'[h] \notin {"running", "await"}
  PROVE  Levels'
PROOF
  <1> DEFINE S == Frame \ D
  <1>1. /\ Len(control) \in Nat /\ \A i \in 1 .. Len(control) : control[i] \in S
    <2>1. control \in Seq(Frame)
      BY DEF IInv, TypeOK
    <2>2. Len(control) \in Nat /\ DOMAIN control = 1 .. Len(control)
          /\ \A i \in 1 .. Len(control) : control[i] \in Frame
      BY <2>1, LenProperties, ElementOfSeq
    <2> QED BY <2>2 DEF Range
  <1>2. \A i \in 1 .. Len(control) :
          /\ Awaiters(continuation', control[i]) = Awaiters(continuation, control[i])
          /\ Awaiters(continuation, control[i]) \subseteq S
    <2> TAKE i \in 1 .. Len(control)
    <2>1. /\ S \in SUBSET Frame /\ control[i] \in S
          /\ \A h \in S : continuation[h] \in Frame => continuation[h] \in S
          /\ \A h \in S : continuation'[h] = continuation[h]
      BY <1>1
    <2> HIDE DEF S
    <2> QED BY <2>1, AwaitersStable
  <1>3. ASSUME NEW i \in 1 .. Len(control'), NEW h \in Awaiters(continuation', control'[i])
        PROVE  /\ h \in Plain \/ i = 1
               /\ h \in Plain /\ continuation'[h] = NoFrame => holder'[h] = under(control', i)
    <2>1. h \in S /\ h \in Awaiters(continuation, control[i])
      BY <1>2, <1>3
    <2>2. under(control', i) = under(control, i)
      OBVIOUS
    <2> QED BY <2>1, <2>2 DEF Levels
  <1>4. ASSUME NEW h \in Plain, point'[h] \in {"running", "await"}
        PROVE  \E i \in 1 .. Len(control') : h \in Awaiters(continuation', control'[i])
    <2>1. h \in S /\ point'[h] = point[h]
      BY <1>4
    <2> QED BY <2>1, <1>2, <1>4 DEF Levels
  <1> QED BY <1>3, <1>4 DEF Levels

LEMMA CreateLInv ==
  ASSUME LInv, NEW x \in Frame \cup {App}, NEW f \in Frame, Create(x, f) PROVE LInv'
PROOF
  <1>1. /\ IInv /\ Levels /\ PlainAwaitPlain /\ UnstartedNotStarted
        /\ TypeOK /\ ControlRuns /\ AwaitedByOne
    BY DEF LInv, IInv, NothingDangles
  <1>2. /\ f \notin Range(control) /\ \A h \in Frame : continuation[h] # f
    BY <1>1 DEF Create, Exists, ControlRuns, AwaitedByOne
  <1>3. Levels'
    <2>1. {f} \in SUBSET Frame /\ Range(control) \cap {f} = {} /\ control' = control
      BY <1>2 DEF Create
    <2>2. \A h \in Frame \ {f} : /\ continuation[h] \notin {f}
                                 /\ continuation'[h] = continuation[h]
                                 /\ holder'[h] = holder[h]
                                 /\ point'[h] = point[h]
      BY <1>1, <1>2 DEF Create, TypeOK
    <2>3. \A h \in {f} : point'[h] \notin {"running", "await"}
      BY <1>1 DEF Create, TypeOK
    <2> QED BY <1>1, <2>1, <2>2, <2>3, LevelsKept
  <1>4. PlainAwaitPlain' /\ UnstartedNotStarted'
    BY <1>1 DEF Create, TypeOK, PlainAwaitPlain, UnstartedNotStarted
  <1> QED BY <1>1, <1>3, <1>4, CreateIInv DEF LInv

\* start and the ends of waits only touch the queues.
LEMMA QueueStepLInv ==
  ASSUME LInv, IInv', UNCHANGED <<frameVars, control>> PROVE LInv'
PROOF
  <1>1. IInv /\ Levels /\ PlainAwaitPlain /\ UnstartedNotStarted
    BY DEF LInv
  <1>2. Levels'
    <2>1. /\ {} \in SUBSET Frame /\ Range(control) \cap {} = {} /\ control' = control
          /\ \A h \in Frame \ {} : /\ continuation[h] \notin {}
                                   /\ continuation'[h] = continuation[h]
                                   /\ holder'[h] = holder[h]
                                   /\ point'[h] = point[h]
          /\ \A h \in {} : point'[h] \notin {"running", "await"}
      BY DEF frameVars
    <2> QED BY <1>1, <2>1, LevelsKept
  <1>3. PlainAwaitPlain' /\ UnstartedNotStarted'
    BY <1>1 DEF frameVars, PlainAwaitPlain, UnstartedNotStarted
  <1> QED BY <1>2, <1>3 DEF LInv

LEMMA DestroyLInv ==
  ASSUME LInv, NEW x \in Frame \cup {App}, NEW f \in Frame, Destroy(x, f) PROVE LInv'
PROOF
  <1> DEFINE D == Below(f)
  <1>1. /\ IInv /\ Levels /\ PlainAwaitPlain /\ UnstartedNotStarted
        /\ TypeOK /\ ControlRuns /\ AwaitedByOne
    BY DEF LInv, IInv, NothingDangles
  <1>2. /\ D \in SUBSET Frame /\ \A h \in Frame : holder[h] \in D => h \in D
    BY BelowFacts
  <1>3. Range(control) \cap D = {}
    BY <1>1, DestroyedFacts
  <1>4. /\ point' = without(point, D, "absent")
        /\ holder' = without(holder, D, NoFrame)
        /\ continuation' = without(continuation, D, NoFrame)
        /\ started' = without(started, D, FALSE)
        /\ UNCHANGED control
    BY DEF Destroy
  <1> HIDE DEF D
  <1>5. \A h \in Frame \ D : /\ continuation[h] \notin D
                             /\ continuation'[h] = continuation[h]
                             /\ holder'[h] = holder[h]
                             /\ point'[h] = point[h]
    BY <1>1, <1>2, <1>4 DEF AwaitedByOne, without
  <1>6. \A h \in D : point'[h] \notin {"running", "await"}
    BY <1>2, <1>4 DEF without
  <1>7. Levels'
    BY <1>1, <1>2, <1>3, <1>4, <1>5, <1>6, LevelsKept
  <1>8. PlainAwaitPlain' /\ UnstartedNotStarted'
    BY <1>1, <1>4 DEF without, PlainAwaitPlain, UnstartedNotStarted
  <1> QED BY <1>1, <1>7, <1>8, DestroyIInv DEF LInv

\* Plain tasks await plain tasks, so nothing plain waits for one that is not.
LEMMA NoPlainAwaiters ==
  ASSUME TypeOK, PlainAwaitPlain, NEW f \in Frame \ Plain
  PROVE  Awaiters(continuation, f) \cap Plain = {}
PROOF
  <1> DEFINE S == Frame \ Plain
  <1>1. /\ S \in SUBSET Frame /\ f \in S /\ S \cap Plain = {}
        /\ \A h \in S : continuation[h] \in Frame => continuation[h] \in S
    BY DEF PlainAwaitPlain
  <1> HIDE DEF S
  <1>2. Awaiters(continuation, f) \subseteq S
    BY <1>1, AwaitersClosed
  <1> QED BY <1>1, <1>2

\* The top of control is of the highest level.
LEMMA TopFacts ==
  ASSUME LInv, NEW f \in Frame, running = f
  PROVE  /\ control \in Seq(Frame) /\ control # <<>> /\ Len(control) \in Nat \ {0}
         /\ f = control[Len(control)] /\ point[f] = "running"
         /\ f \in Awaiters(continuation, control[Len(control)])
         /\ f \notin Plain => Len(control) = 1
         /\ \A i \in 1 .. Len(control) : control[i] \in Frame /\ point[control[i]] = "running"
         /\ \A i \in 1 .. Len(control) - 1 : control[i] # f
         /\ \A h \in Frame : continuation[h] # f
PROOF
  <1>1. IInv /\ Levels /\ control \in Seq(Frame) /\ ControlRuns /\ AwaitedByOne
    BY DEF LInv, IInv, TypeOK, NothingDangles
  <1>2. control # <<>> /\ f = Last(control) /\ point[f] = "running"
    BY <1>1, RunningFacts
  <1>3. /\ Len(control) \in Nat \ {0} /\ DOMAIN control = 1 .. Len(control)
        /\ \A i \in 1 .. Len(control) : control[i] \in Frame
    BY <1>1, <1>2, EmptySeq, LenProperties, ElementOfSeq
  <1>4. f = control[Len(control)] /\ f \in Awaiters(continuation, control[Len(control)])
    BY <1>2, <1>3, AwaitersClosed DEF Last
  <1>5. f \notin Plain => Len(control) = 1
    BY <1>1, <1>3, <1>4 DEF Levels
  <1>6. /\ \A i \in 1 .. Len(control) : point[control[i]] = "running"
        /\ \A i \in 1 .. Len(control) - 1 : control[i] # f
    BY <1>1, <1>3, <1>4 DEF ControlRuns, Range, IsInjective
  <1>7. \A h \in Frame : continuation[h] # f
    BY <1>1, <1>2 DEF AwaitedByOne
  <1> QED BY <1>1, <1>2, <1>3, <1>4, <1>5, <1>6, <1>7

\* Nobody else than the one that holds it awaits a task, and that one is
\* suspended: a task held by who runs is awaited by nobody.
LEMMA HeldByRunning ==
  ASSUME IInv, NEW x \in Frame \cup {App}, running = x, NEW f \in Frame, holder[f] = x
  PROVE  continuation[f] = NoFrame
PROOF
  BY RunningFacts DEF IInv, TypeOK, NothingDangles, AwaitedByOne

LEMMA StartPlainLInv ==
  ASSUME LInv, NEW x \in Frame \cup {App}, NEW f \in Frame, StartPlain(x, f) PROVE LInv'
PROOF
  <1> DEFINE n == Len(control)
  <1>1. /\ IInv /\ Levels /\ PlainAwaitPlain /\ UnstartedNotStarted
        /\ TypeOK /\ control \in Seq(Frame)
    BY DEF LInv, IInv, TypeOK
  <1>2. /\ running = x /\ holder[f] = x /\ f \in Plain /\ continuation[f] = NoFrame
    BY <1>1, HeldByRunning DEF StartPlain
  <1>3. /\ n \in Nat /\ Len(control') = n + 1 /\ control'[n + 1] = f
        /\ \A i \in 1 .. n : control'[i] = control[i]
    BY <1>1, PushedFacts DEF StartPlain
  <1>4. Awaiters(continuation, f) = {f}
    BY <1>2, AwaitersStep
  <1>5. holder[f] = under(control', n + 1)
    <2>1. CASE n = 0
      <3>1. x = App
        BY <2>1, <1>1, <1>2, EmptySeq DEF running
      <3> QED BY <2>1, <3>1, <1>2 DEF under
    <2>2. CASE n # 0
      <3>1. x = control[n]
        BY <2>2, <1>1, <1>2 DEF running, Last
      <3> QED BY <2>2, <3>1, <1>2, <1>3 DEF under
    <2> QED BY <2>1, <2>2
  <1>6. /\ continuation' = continuation /\ holder' = holder
        /\ point' = [point EXCEPT ![f] = "running"]
        /\ started' = [started EXCEPT ![f] = TRUE]
    BY DEF StartPlain
  <1>7. ASSUME NEW i \in 1 .. Len(control'), NEW h \in Awaiters(continuation', control'[i])
        PROVE  /\ h \in Plain \/ i = 1
               /\ h \in Plain /\ continuation'[h] = NoFrame => holder'[h] = under(control', i)
    <2>1. CASE i = n + 1
      BY <2>1, <1>2, <1>3, <1>4, <1>5, <1>6, <1>7
    <2>2. CASE i \in 1 .. n
      <3>1. h \in Awaiters(continuation, control[i]) /\ under(control', i) = under(control, i)
        BY <2>2, <1>3, <1>6, <1>7 DEF under
      <3> QED BY <2>2, <3>1, <1>1, <1>6 DEF Levels
    <2> QED BY <2>1, <2>2, <1>3
  <1>8. ASSUME NEW h \in Plain, point'[h] \in {"running", "await"}
        PROVE  \E i \in 1 .. Len(control') : h \in Awaiters(continuation', control'[i])
    <2>1. CASE h = f
      BY <2>1, <1>3, <1>4, <1>6
    <2>2. CASE h # f
      <3>1. PICK i \in 1 .. n : h \in Awaiters(continuation, control[i])
        BY <2>2, <1>1, <1>6, <1>8 DEF Levels, TypeOK
      <3> QED BY <3>1, <1>3, <1>6
    <2> QED BY <2>1, <2>2
  <1>9. Levels'
    BY <1>7, <1>8 DEF Levels
  <1>10. PlainAwaitPlain' /\ UnstartedNotStarted'
    BY <1>1, <1>6 DEF TypeOK, PlainAwaitPlain, UnstartedNotStarted
  <1> QED BY <1>1, <1>9, <1>10, StartPlainIInv DEF LInv

LEMMA RunOnceLInv ==
  ASSUME LInv, RunOnce PROVE LInv'
PROOF
  <1> DEFINE f == Head(readyQueue)
  <1>1. /\ IInv /\ Levels /\ PlainAwaitPlain /\ UnstartedNotStarted
        /\ TypeOK /\ readyQueue # <<>>
    BY DEF LInv, IInv, RunOnce
  <1>2. f \in Frame \ Plain
    BY <1>1, PopFacts DEF TypeOK
  <1>3. /\ Len(control) = 0 /\ Len(control') = 1 /\ control'[1] = f
    BY <1>1, RunningFacts DEF RunOnce
  <1>4. /\ continuation' = continuation /\ holder' = holder
        /\ point' = [point EXCEPT ![f] = "running"]
        /\ started' = [started EXCEPT ![f] = TRUE]
    BY DEF RunOnce
  <1> HIDE DEF f
  <1>5. Awaiters(continuation, f) \cap Plain = {}
    BY <1>1, <1>2, NoPlainAwaiters
  <1>6. Levels'
    <2>1. \A h \in Plain : point'[h] \notin {"running", "await"}
      BY <1>1, <1>2, <1>3, <1>4 DEF Levels, TypeOK
    <2> QED BY <2>1, <1>3, <1>4, <1>5 DEF Levels
  <1>7. PlainAwaitPlain' /\ UnstartedNotStarted'
    BY <1>1, <1>4 DEF TypeOK, PlainAwaitPlain, UnstartedNotStarted
  <1> QED BY <1>1, <1>6, <1>7, RunOnceIInv DEF LInv

LEMMA SuspendLInv ==
  ASSUME LInv, IInv', NEW f \in Frame, NEW where \in {"yield", "sleep", "wait"},
         suspend(f, where)
  PROVE  LInv'
PROOF
  <1>1. /\ IInv /\ Levels /\ PlainAwaitPlain /\ UnstartedNotStarted /\ TypeOK
    BY DEF LInv, IInv
  <1>2. /\ f \notin Plain /\ running = f /\ control' = Front(control)
        /\ point' = [point EXCEPT ![f] = where]
        /\ UNCHANGED <<started, continuation, holder>>
    BY DEF suspend
  <1>3. /\ control \in Seq(Frame) /\ control # <<>> /\ Len(control) = 1 /\ control[1] = f
    BY <1>2, TopFacts
  <1>4. Len(control') = 0
    BY <1>2, <1>3, PoppedFacts
  <1>5. Awaiters(continuation, f) \cap Plain = {}
    BY <1>1, <1>2, NoPlainAwaiters
  <1>6. Levels'
    <2>1. \A h \in Plain : point'[h] \notin {"running", "await"}
      BY <1>1, <1>2, <1>3, <1>5 DEF Levels, TypeOK
    <2> QED BY <2>1, <1>4 DEF Levels
  <1>7. PlainAwaitPlain' /\ UnstartedNotStarted'
    BY <1>1, <1>2 DEF TypeOK, PlainAwaitPlain, UnstartedNotStarted
  <1> QED BY <1>6, <1>7 DEF LInv

LEMMA AwaitLInv ==
  ASSUME LInv, NEW f \in Frame, NEW g \in Frame, Await(f, g) PROVE LInv'
PROOF
  <1> DEFINE n == Len(control)
             S == Frame \ {g}
  <1>1. /\ IInv /\ Levels /\ PlainAwaitPlain /\ UnstartedNotStarted /\ TypeOK
    BY DEF LInv, IInv
  <1>2. /\ control \in Seq(Frame) /\ control # <<>> /\ n \in Nat \ {0} /\ f = control[n]
        /\ point[f] = "running" /\ (f \notin Plain => n = 1)
        /\ \A i \in 1 .. n : control[i] \in Frame /\ point[control[i]] = "running"
    BY TopFacts DEF Await
  <1>3. /\ point[g] = "initial" /\ (f \in Plain => g \in Plain)
        /\ \A h \in Frame : continuation[h] # g
    BY <1>1, IdleFacts DEF Await, fresh
  <1>4. /\ Len(control') = n /\ control'[n] = g
        /\ \A i \in 1 .. n - 1 : control'[i] = control[i]
    BY <1>2, ExchangedFacts DEF Await, transfer
  <1>5. /\ point' = [point EXCEPT ![f] = "await", ![g] = "running"]
        /\ started' = [started EXCEPT ![g] = TRUE]
        /\ continuation' = [continuation EXCEPT ![g] = f]
        /\ holder' = holder
    BY DEF Await, continues_with
  <1>6. /\ S \in SUBSET Frame
        /\ \A h \in S : continuation[h] \in Frame => continuation[h] \in S
        /\ \A h \in S : continuation'[h] = continuation[h]
        /\ \A i \in 1 .. n : control[i] \in S
    <2>1. S \in SUBSET Frame /\ \A i \in 1 .. n : control[i] \in S
      BY <1>2, <1>3
    <2>2. \A h \in S : continuation[h] \in Frame => continuation[h] \in S
      BY <1>3
    <2>3. \A h \in S : continuation'[h] = continuation[h]
      BY <1>1, <1>5 DEF TypeOK
    <2> QED BY <2>1, <2>2, <2>3
  <1> HIDE DEF S
  <1>7. \A e \in S : Awaiters(continuation', e) = Awaiters(continuation, e)
                     /\ Awaiters(continuation, e) \subseteq S
    <2>1. /\ S \in SUBSET Frame
          /\ \A h \in S : continuation[h] \in Frame => continuation[h] \in S
          /\ \A h \in S : continuation'[h] = continuation[h]
      BY <1>6
    <2>2. ASSUME NEW e \in S
          PROVE  Awaiters(continuation', e) = Awaiters(continuation, e)
                 /\ Awaiters(continuation, e) \subseteq S
      BY <2>1, AwaitersStable
    <2> QED BY <2>2
  <1>8. /\ Awaiters(continuation', g) = {g} \cup Awaiters(continuation, f)
        /\ continuation'[g] = f /\ g \notin S /\ f \in S
    <2>1. continuation'[g] = f /\ f \in S /\ g \notin S
      BY <1>1, <1>2, <1>5, <1>6 DEF TypeOK, S
    <2> QED BY <2>1, <1>7, AwaitersStep
  <1>9. \A i \in 1 .. n : under(control', i) = under(control, i)
    BY <1>2, <1>4 DEF under
  <1>10. ASSUME NEW i \in 1 .. Len(control'), NEW h \in Awaiters(continuation', control'[i])
         PROVE  /\ h \in Plain \/ i = 1
                /\ h \in Plain /\ continuation'[h] = NoFrame => holder'[h] = under(control', i)
    <2>1. i \in 1 .. n
      BY <1>4
    <2>2. CASE h = g
      <3>1. i = n
        BY <2>1, <2>2, <1>2, <1>4, <1>6, <1>7, <1>8, <1>10
      <3> QED BY <2>2, <3>1, <1>2, <1>3, <1>8
    <2>3. CASE h # g
      <3>1. h \in Awaiters(continuation, control[i])
        BY <2>1, <2>3, <1>2, <1>4, <1>6, <1>7, <1>8, <1>10
      <3>2. h \in S
        BY <2>1, <3>1, <1>6, <1>7
      <3>3. continuation'[h] = continuation[h] /\ holder'[h] = holder[h]
            /\ under(control', i) = under(control, i)
        BY <2>1, <3>2, <1>5, <1>6, <1>9
      <3>4. /\ h \in Plain \/ i = 1
            /\ h \in Plain /\ continuation[h] = NoFrame => holder[h] = under(control, i)
        BY <2>1, <3>1, <1>1 DEF Levels
      <3> QED BY <3>3, <3>4
    <2> QED BY <2>2, <2>3
  <1>11. ASSUME NEW h \in Plain, point'[h] \in {"running", "await"}
         PROVE  \E i \in 1 .. Len(control') : h \in Awaiters(continuation', control'[i])
    <2>1. CASE h = g
      BY <2>1, <1>2, <1>4, <1>8
    <2>2. CASE h # g
      <3>1. point[h] \in {"running", "await"}
        BY <2>2, <1>1, <1>2, <1>5, <1>11 DEF TypeOK
      <3>2. PICK i \in 1 .. n : h \in Awaiters(continuation, control[i])
        BY <3>1, <1>1 DEF Levels
      <3> QED BY <3>2, <1>2, <1>4, <1>6, <1>7, <1>8
    <2> QED BY <2>1, <2>2
  <1>12. Levels'
    BY <1>10, <1>11 DEF Levels
  <1>13. PlainAwaitPlain'
    BY <1>1, <1>3, <1>5 DEF TypeOK, PlainAwaitPlain
  <1>14. UnstartedNotStarted'
    BY <1>1, <1>5 DEF TypeOK, UnstartedNotStarted
  <1> QED BY <1>1, <1>12, <1>13, <1>14, AwaitIInv DEF LInv

LEMMA ReturnToResumerLInv ==
  ASSUME LInv, NEW f \in Frame, ReturnToResumer(f) PROVE LInv'
PROOF
  <1> DEFINE n == Len(control)
             D == Locals(f)
             S == Frame \ D
  <1>1. /\ IInv /\ Levels /\ PlainAwaitPlain /\ UnstartedNotStarted /\ TypeOK
    BY DEF LInv, IInv
  <1>2. /\ control \in Seq(Frame) /\ control # <<>> /\ n \in Nat \ {0} /\ f = control[n]
        /\ \A i \in 1 .. n : control[i] \in Frame
    BY TopFacts DEF ReturnToResumer, BodyEnds
  <1>3. /\ D \subseteq Frame
        /\ \A g \in D : (\A h \in Frame : continuation[h] # g) /\ g \notin Range(control)
    BY <1>1, LocalsFacts DEF ReturnToResumer, Locals
  <1>4. /\ Len(control') = n - 1
        /\ \A i \in 1 .. n - 1 : control'[i] = control[i]
    BY <1>2, PoppedFacts DEF ReturnToResumer
  <1>5. /\ point' = [without(point, D, "absent") EXCEPT ![f] = "final"]
        /\ started' = without(started, D, FALSE)
        /\ continuation' = continuation
        /\ holder' = without(holder, D, NoFrame)
    BY DEF ReturnToResumer
  <1>6. Awaiters(continuation, f) = {f}
    BY AwaitersStep DEF ReturnToResumer
  <1> HIDE DEF D
  <1>7. \A h \in Frame : /\ point'[h] = IF h = f THEN "final"
                                         ELSE IF h \in D THEN "absent" ELSE point[h]
                         /\ h \notin D => holder'[h] = holder[h]
    BY <1>5 DEF without
  <1>8. \A i \in 1 .. n : Awaiters(continuation, control[i]) \subseteq S
    <2>1. /\ S \in SUBSET Frame
          /\ \A h \in S : continuation[h] \in Frame => continuation[h] \in S
      BY <1>3
    <2>2. DOMAIN control = 1 .. n
      BY <1>2, LenProperties
    <2>3. \A i \in 1 .. n : control[i] \in S
      BY <2>2, <1>2, <1>3 DEF Range
    <2> HIDE DEF S
    <2> QED BY <2>1, <2>3, AwaitersClosed
  <1>9. ASSUME NEW i \in 1 .. Len(control'), NEW h \in Awaiters(continuation', control'[i])
        PROVE  /\ h \in Plain \/ i = 1
               /\ h \in Plain /\ continuation'[h] = NoFrame => holder'[h] = under(control', i)
    <2>1. i \in 1 .. n /\ i \in 1 .. n - 1 /\ h \in Awaiters(continuation, control[i])
      BY <1>2, <1>4, <1>5, <1>9
    <2>2. h \in Frame /\ h \notin D
      BY <2>1, <1>8
    <2>3. under(control', i) = under(control, i)
      BY <2>1, <1>2, <1>4 DEF under
    <2> QED BY <2>1, <2>2, <2>3, <1>1, <1>5, <1>7 DEF Levels
  <1>10. ASSUME NEW h \in Plain, point'[h] \in {"running", "await"}
         PROVE  \E i \in 1 .. Len(control') : h \in Awaiters(continuation', control'[i])
    <2>1. h # f /\ point[h] \in {"running", "await"}
      BY <1>7, <1>10
    <2>2. PICK i \in 1 .. n : h \in Awaiters(continuation, control[i])
      BY <2>1, <1>1 DEF Levels
    <2>3. i # n
      BY <2>1, <2>2, <1>2, <1>6
    <2> QED BY <2>2, <2>3, <1>2, <1>4, <1>5
  <1>11. Levels'
    BY <1>9, <1>10 DEF Levels
  <1>12. PlainAwaitPlain' /\ UnstartedNotStarted'
    <2>1. \A h \in Frame : point'[h] = "initial" => ~started'[h]
      BY <1>1, <1>5, <1>7 DEF UnstartedNotStarted, without
    <2> QED BY <2>1, <1>1, <1>5 DEF PlainAwaitPlain, UnstartedNotStarted
  <1> QED BY <1>1, <1>11, <1>12, ReturnToResumerIInv DEF LInv

LEMMA ReturnToParentLInv ==
  ASSUME LInv, NEW f \in Frame, ReturnToParent(f) PROVE LInv'
PROOF
  <1> DEFINE n == Len(control)
             D == buried(f)
             c == continuation[f]
             S == Frame \ D
  <1>1. /\ IInv /\ Levels /\ PlainAwaitPlain /\ UnstartedNotStarted /\ TypeOK
    BY DEF LInv, IInv
  <1>2. /\ control \in Seq(Frame) /\ control # <<>> /\ n \in Nat \ {0} /\ f = control[n]
        /\ \A i \in 1 .. n : control[i] \in Frame
        /\ \A i \in 1 .. n - 1 : control[i] # f
        /\ \A h \in Frame : continuation[h] # f
    BY TopFacts DEF ReturnToParent, BodyEnds
  <1>3. /\ D \subseteq Frame /\ f \in D
        /\ \A g \in D : \A h \in Frame : continuation[h] # g
        /\ \A g \in D \ {f} : g \notin Range(control)
    BY <1>1, <1>2, LocalsFacts DEF ReturnToParent, Locals, buried
  <1>4. c \in Frame /\ c \notin D
    BY <1>1, <1>3 DEF ReturnToParent, TypeOK
  <1>5. /\ Len(control') = n /\ control'[n] = c
        /\ \A i \in 1 .. n - 1 : control'[i] = control[i]
    BY <1>2, <1>4, ExchangedFacts DEF ReturnToParent, transfer
  <1>6. /\ point' = [without(point, D, "absent") EXCEPT ![c] = "running"]
        /\ started' = without(started, D, FALSE)
        /\ continuation' = without(continuation, D, NoFrame)
        /\ holder' = without(holder, D, NoFrame)
    BY DEF ReturnToParent
  <1>7. Awaiters(continuation, f) = {f} \cup Awaiters(continuation, c)
    BY <1>4, AwaitersStep
  <1> HIDE DEF D, c
  <1>8. \A h \in Frame :
          /\ point'[h] = IF h = c THEN "running" ELSE IF h \in D THEN "absent" ELSE point[h]
          /\ h \notin D => holder'[h] = holder[h] /\ continuation'[h] = continuation[h]
    BY <1>6 DEF without
  <1>9. /\ \A e \in S : /\ Awaiters(continuation', e) = Awaiters(continuation, e)
                        /\ Awaiters(continuation, e) \subseteq S
        /\ c \in S /\ \A i \in 1 .. n - 1 : control[i] \in S
    <2>1. /\ S \in SUBSET Frame
          /\ \A h \in S : continuation[h] \in Frame => continuation[h] \in S
          /\ \A h \in S : continuation'[h] = continuation[h]
      BY <1>3, <1>8
    <2>2. DOMAIN control = 1 .. n
      BY <1>2, LenProperties
    <2>3. c \in S /\ \A i \in 1 .. n - 1 : control[i] \in S
      BY <2>2, <1>2, <1>3, <1>4 DEF Range
    <2> HIDE DEF S
    <2>4. ASSUME NEW e \in S
          PROVE  /\ Awaiters(continuation', e) = Awaiters(continuation, e)
                 /\ Awaiters(continuation, e) \subseteq S
      BY <2>1, AwaitersStable
    <2> QED BY <2>3, <2>4
  <1>10. ASSUME NEW i \in 1 .. Len(control'), NEW h \in Awaiters(continuation', control'[i])
         PROVE  /\ h \in Plain \/ i = 1
                /\ h \in Plain /\ continuation'[h] = NoFrame => holder'[h] = under(control', i)
    <2>1. i \in 1 .. n /\ control'[i] \in S /\ h \in Awaiters(continuation, control[i])
      BY <1>2, <1>5, <1>7, <1>9, <1>10
    <2>2. h \in Frame /\ h \notin D
      <3>1. h \in S
        BY <2>1, <1>9, <1>10
      <3> QED BY <3>1
    <2>3. under(control', i) = under(control, i)
      BY <2>1, <1>2, <1>5 DEF under
    <2> QED BY <2>1, <2>2, <2>3, <1>1, <1>8 DEF Levels
  <1>11. ASSUME NEW h \in Plain, point'[h] \in {"running", "await"}
         PROVE  \E i \in 1 .. Len(control') : h \in Awaiters(continuation', control'[i])
    <2>1. CASE h = c
      BY <2>1, <1>2, <1>4, <1>5, AwaitersClosed
    <2>2. CASE h # c
      <3>1. h # f /\ point[h] \in {"running", "await"}
        BY <2>2, <1>3, <1>8, <1>11
      <3>2. PICK i \in 1 .. n : h \in Awaiters(continuation, control[i])
        BY <3>1, <1>1 DEF Levels
      <3>3. CASE i = n
        BY <3>1, <3>2, <3>3, <1>2, <1>5, <1>7, <1>9
      <3>4. CASE i # n
        BY <3>2, <3>4, <1>2, <1>5, <1>9
      <3> QED BY <3>3, <3>4
    <2> QED BY <2>1, <2>2
  <1>12. Levels'
    BY <1>10, <1>11 DEF Levels
  <1>13. PlainAwaitPlain'
    BY <1>1, <1>6 DEF PlainAwaitPlain, without
  <1>14. UnstartedNotStarted'
    BY <1>1, <1>6, <1>8 DEF UnstartedNotStarted, without
  <1> QED BY <1>1, <1>12, <1>13, <1>14, ReturnToParentIInv DEF LInv

LEMMA NextLInv == LInv /\ [Next]_taskVars => LInv'
PROOF
  <1> SUFFICES ASSUME LInv, [Next]_taskVars PROVE LInv'
    OBVIOUS
  <1>1. IInv'
    BY NextIInv DEF LInv
  <1>2. CASE RunOnce
    BY <1>2, RunOnceLInv
  <1>3. ASSUME NEW f \in Frame,
               Yield(f) \/ Sleep(f) \/ Wait(f) \/ Expire(f) \/ Wake(f) \/ Return(f)
        PROVE  LInv'
    <2>1. CASE Yield(f) \/ Sleep(f) \/ Wait(f)
      BY <2>1, <1>1, SuspendLInv DEF Yield, Sleep, Wait
    <2>2. CASE Expire(f) \/ Wake(f)
      BY <2>2, <1>1, QueueStepLInv DEF Expire, Wake
    <2>3. CASE Return(f)
      BY <2>3, ReturnToResumerLInv, ReturnToParentLInv DEF Return
    <2> QED BY <1>3, <2>1, <2>2, <2>3
  <1>4. ASSUME NEW x \in Frame \cup {App}, NEW f \in Frame,
               Create(x, f) \/ Start(x, f) \/ StartPlain(x, f) \/ Destroy(x, f)
        PROVE  LInv'
    <2>1. CASE Start(x, f)
      BY <2>1, <1>1, QueueStepLInv DEF Start
    <2> QED BY <2>1, <1>4, CreateLInv, StartPlainLInv, DestroyLInv
  <1>5. ASSUME NEW f \in Frame, NEW g \in Frame, Await(f, g) PROVE LInv'
    BY <1>5, AwaitLInv
  <1>6. CASE UNCHANGED taskVars
    BY <1>6, <1>1, QueueStepLInv DEF taskVars
  <1> QED BY <1>2, <1>3, <1>4, <1>5, <1>6 DEF Next

\* control is a stack of levels, of which only the lowest has other than
\* plain tasks: the shape that lets plain tasks be calls of the one below.
THEOREM LevelInvariance == Spec => []LInv
PROOF
  BY InitLInv, NextLInv, PTL DEF Spec

-----------------------------------------------------------------------------
(* The refinement.                                                         *)

\* A task is open once it runs or is posted, until it finishes.
isOpen(p, q, f) ==
  p[f] \notin {"absent", "final"} /\ (p[f] = "initial" => f \in Range(q))

\* Who called f, of the tasks with these continuations and holders.
calledBy(cont, hold, f) ==
  IF f \in Plain \/ cont[f] # NoFrame THEN hold[f] ELSE App

LEMMA CallerFacts ==
  ASSUME UnstartedNotStarted
  PROVE  /\ DOMAIN caller = {f \in Frame : isOpen(point, readyQueue, f)}
         /\ caller = [f \in DOMAIN caller |-> caller[f]]
         /\ \A f \in DOMAIN caller : caller[f] = calledBy(continuation, holder, f)
PROOF
  <1>1. caller = [f \in {g \in Frame : Open(g)} |-> calledBy(continuation, holder, f)]
    BY DEF caller, calledBy, Open, fresh, Exists, done
  <1>2. \A f \in Frame : Open(f) <=> isOpen(point, readyQueue, f)
    BY DEF UnstartedNotStarted, Open, Exists, fresh, done, isOpen
  <1>3. {g \in Frame : Open(g)} = {f \in Frame : isOpen(point, readyQueue, f)}
    BY <1>2
  <1> DEFINE O == {f \in Frame : isOpen(point, readyQueue, f)}
  <1>4. caller = [f \in O |-> calledBy(continuation, holder, f)]
    BY <1>1, <1>3
  <1> HIDE DEF O
  <1>5. DOMAIN caller = O
    BY <1>4
  <1> QED BY <1>4, <1>5 DEF O

LEMMA CallerNextFacts ==
  ASSUME UnstartedNotStarted'
  PROVE  /\ DOMAIN caller' = {f \in Frame : isOpen(point', readyQueue', f)}
         /\ caller' = [f \in DOMAIN caller' |-> caller'[f]]
         /\ \A f \in DOMAIN caller' : caller'[f] = calledBy(continuation', holder', f)
PROOF
  <1>1. caller' = [f \in {g \in Frame : Open(g)'} |-> calledBy(continuation', holder', f)]
    BY DEF caller, calledBy, Open, fresh, Exists, done
  <1>2. \A f \in Frame : Open(f)' <=> isOpen(point', readyQueue', f)
    BY DEF UnstartedNotStarted, Open, Exists, fresh, done, isOpen
  <1>3. {g \in Frame : Open(g)'} = {f \in Frame : isOpen(point', readyQueue', f)}
    BY <1>2
  <1> DEFINE O == {f \in Frame : isOpen(point', readyQueue', f)}
  <1>4. caller' = [f \in O |-> calledBy(continuation', holder', f)]
    BY <1>1, <1>3
  <1> HIDE DEF O
  <1>5. DOMAIN caller' = O
    BY <1>4
  <1> QED BY <1>4, <1>5 DEF O

\* The calls before and after a step, in terms of point and readyQueue.
LEMMA StepFacts ==
  ASSUME LInv, LInv'
  PROVE  /\ DOMAIN caller = {f \in Frame : isOpen(point, readyQueue, f)}
         /\ caller = [f \in DOMAIN caller |-> caller[f]]
         /\ \A f \in DOMAIN caller : caller[f] = calledBy(continuation, holder, f)
         /\ DOMAIN caller' = {f \in Frame : isOpen(point', readyQueue', f)}
         /\ caller' = [f \in DOMAIN caller' |-> caller'[f]]
         /\ \A f \in DOMAIN caller' : caller'[f] = calledBy(continuation', holder', f)
PROOF
  <1>1. UnstartedNotStarted /\ UnstartedNotStarted'
    BY DEF LInv
  <1> QED BY <1>1, CallerFacts, CallerNextFacts

\* The same calls are open after the step, called by the same.
LEMMA CallerKept ==
  ASSUME LInv, LInv',
         \A f \in Frame : /\ isOpen(point', readyQueue', f) <=> isOpen(point, readyQueue, f)
                          /\ isOpen(point, readyQueue, f) =>
                               calledBy(continuation', holder', f) = calledBy(continuation, holder, f)
  PROVE  caller' = caller
PROOF
  <1>1. DOMAIN caller' = DOMAIN caller
    BY StepFacts
  <1>2. \A f \in DOMAIN caller : caller'[f] = caller[f]
    BY <1>1, StepFacts
  <1>3. caller' = [f \in DOMAIN caller |-> caller[f]]
    BY <1>1, <1>2, StepFacts
  <1> QED BY <1>3, StepFacts

\* One more call is open after the step.
LEMMA CallerWith ==
  ASSUME LInv, LInv', NEW e \in Frame, NEW c,
         ~isOpen(point, readyQueue, e), isOpen(point', readyQueue', e),
         calledBy(continuation', holder', e) = c,
         \A f \in Frame \ {e} :
           /\ isOpen(point', readyQueue', f) <=> isOpen(point, readyQueue, f)
           /\ isOpen(point, readyQueue, f) =>
                calledBy(continuation', holder', f) = calledBy(continuation, holder, f)
  PROVE  caller' = T!With(e, c) /\ e \in DOMAIN caller' \ DOMAIN caller
PROOF
  <1>1. DOMAIN caller' = DOMAIN caller \cup {e} /\ e \notin DOMAIN caller
    BY StepFacts
  <1>2. \A f \in DOMAIN caller \cup {e} : caller'[f] = IF f = e THEN c ELSE caller[f]
    BY <1>1, StepFacts
  <1>3. caller' = [f \in DOMAIN caller \cup {e} |-> IF f = e THEN c ELSE caller[f]]
    BY <1>1, <1>2, StepFacts
  <1> QED BY <1>1, <1>3 DEF T!With, T!Open

\* The calls in D are no longer open.
LEMMA CallerWithout ==
  ASSUME LInv, LInv', NEW D,
         \A f \in D \cap Frame : ~isOpen(point', readyQueue', f),
         \A f \in Frame \ D :
           /\ isOpen(point', readyQueue', f) <=> isOpen(point, readyQueue, f)
           /\ isOpen(point, readyQueue, f) =>
                calledBy(continuation', holder', f) = calledBy(continuation, holder, f)
  PROVE  /\ caller' = T!Restrict(caller, DOMAIN caller \ D)
         /\ DOMAIN caller' = DOMAIN caller \ D
PROOF
  <1>1. DOMAIN caller' = DOMAIN caller \ D
    BY StepFacts
  <1>2. \A f \in DOMAIN caller \ D : caller'[f] = caller[f]
    BY <1>1, StepFacts
  <1>3. caller' = [f \in DOMAIN caller \ D |-> caller[f]]
    BY <1>1, <1>2, StepFacts
  <1> QED BY <1>1, <1>3 DEF T!Restrict

\* Whoever sleeps or waits, or is on top of control, called nobody.
LEMMA InnermostFacts ==
  ASSUME LInv, NEW f \in Frame, isOpen(point, readyQueue, f), point[f] # "await",
         point[f] # "running" \/ f = running
  PROVE  T!Innermost(f)
PROOF
  <1>1. /\ IInv /\ Levels /\ TypeOK /\ QueuesHoldSuspended /\ AwaitedByOne /\ ControlRuns
        /\ UnstartedNotStarted
    BY DEF LInv, IInv, NothingDangles
  <1>2. DOMAIN caller = {h \in Frame : isOpen(point, readyQueue, h)}
    BY <1>1, CallerFacts
  <1>3. ASSUME NEW h \in DOMAIN caller, caller[h] = f PROVE FALSE
    <2>1. h \in Frame /\ isOpen(point, readyQueue, h) /\ calledBy(continuation, holder, h) = f
      BY <1>1, <1>2, <1>3, CallerFacts
    <2>2. holder[h] = f /\ h \in Plain /\ continuation[h] = NoFrame
      BY <2>1, <1>1 DEF calledBy, AwaitedByOne
    <2>3. point[h] \in {"running", "await"}
      <3>1. h \notin Range(readyQueue) /\ h \notin timers /\ h \notin waiting
        <4>1. Range(readyQueue) \subseteq Frame \ Plain
          BY <1>1, RangeOfSeq DEF TypeOK
        <4> QED BY <4>1, <2>2, <1>1 DEF TypeOK
      <3> QED BY <3>1, <2>1, <1>1 DEF isOpen, QueuesHoldSuspended, TypeOK, Point
    <2>4. PICK i \in 1 .. Len(control) : h \in Awaiters(continuation, control[i])
      BY <2>2, <2>3, <1>1 DEF Levels
    <2>5. f = under(control, i)
      BY <2>2, <2>4, <1>1 DEF Levels
    <2>6. control \in Seq(Frame) /\ Len(control) \in Nat /\ DOMAIN control = 1 .. Len(control)
      BY <1>1, LenProperties DEF TypeOK
    <2>7. i # 1 /\ i - 1 \in 1 .. Len(control) - 1 /\ f = control[i - 1]
      BY <2>5, <2>6 DEF under
    <2>8. f \in Range(control)
      BY <2>6, <2>7 DEF Range
    <2>9. f = running
      BY <2>8, <1>1 DEF ControlRuns
    <2>10. \A j \in 1 .. Len(control) - 1 : control[j] # f
      BY <2>9, TopFacts
    <2> QED BY <2>7, <2>10
  <1> QED BY <1>2, <1>3 DEF T!Innermost, T!Open, T!Range

\* The parts of the invariant that the steps rely on.
LEMMA LInvFacts ==
  ASSUME LInv
  PROVE  /\ IInv /\ TypeOK /\ QueuesHoldSuspended /\ HoldersExist /\ AwaitedByOne
         /\ ControlRuns /\ UnstartedHoldNothing /\ UnstartedNotStarted /\ Levels
         /\ Range(readyQueue) \subseteq Frame \ Plain
PROOF
  <1>1. IInv /\ TypeOK
    BY DEF LInv, IInv
  <1>2. Range(readyQueue) \subseteq Frame \ Plain
    BY <1>1, RangeOfSeq DEF TypeOK
  <1> QED BY <1>1, <1>2 DEF LInv, IInv, NothingDangles

LEMMA CreateRefines ==
  ASSUME LInv, LInv', NEW x \in Frame \cup {App}, NEW f \in Frame, Create(x, f)
  PROVE  UNCHANGED T!vars
PROOF
  <1>1. /\ TypeOK /\ point[f] = "absent" /\ f \notin Range(readyQueue)
    BY LInvFacts DEF Create, Exists, QueuesHoldSuspended
  <1>2. /\ point' = [point EXCEPT ![f] = "initial"]
        /\ continuation' = [continuation EXCEPT ![f] = NoFrame]
        /\ holder' = [holder EXCEPT ![f] = x]
        /\ UNCHANGED <<control, readyQueue>>
    BY DEF Create, queueVars
  <1>3. \A h \in Frame : isOpen(point', readyQueue', h) <=> isOpen(point, readyQueue, h)
    BY <1>1, <1>2 DEF isOpen, TypeOK
  <1>4. \A h \in Frame : isOpen(point, readyQueue, h) =>
          calledBy(continuation', holder', h) = calledBy(continuation, holder, h)
    BY <1>1, <1>2 DEF isOpen, calledBy, TypeOK
  <1>5. caller' = caller
    BY <1>3, <1>4, CallerKept
  <1> QED BY <1>2, <1>5 DEF T!vars, running

LEMMA StartRefines ==
  ASSUME LInv, LInv', NEW x \in Frame \cup {App}, NEW f \in Frame, Start(x, f)
  PROVE  T!Begin(f) /\ f \in DOMAIN caller' \ DOMAIN caller
PROOF
  <1>1. /\ IInv /\ TypeOK /\ f \notin Plain /\ point[f] = "initial"
        /\ f \notin Range(readyQueue)
        /\ readyQueue' = Append(readyQueue, f)
        /\ UNCHANGED <<point, continuation, holder, control>>
    BY LInvFacts DEF Start, fresh, post, frameVars
  <1>2. Range(readyQueue') = Range(readyQueue) \cup {f}
    <2>1. readyQueue \in Seq(Frame \ Plain) /\ f \in Frame \ Plain
      BY <1>1 DEF TypeOK
    <2> QED BY <2>1, <1>1, PushFacts
  <1>3. continuation[f] = NoFrame
    BY <1>1, HeldByRunning DEF Start
  <1>4. ~isOpen(point, readyQueue, f) /\ isOpen(point', readyQueue', f)
    BY <1>1, <1>2 DEF isOpen
  <1>5. calledBy(continuation', holder', f) = App
    BY <1>1, <1>3 DEF calledBy
  <1>6. \A h \in Frame \ {f} :
          /\ isOpen(point', readyQueue', h) <=> isOpen(point, readyQueue, h)
          /\ isOpen(point, readyQueue, h) =>
               calledBy(continuation', holder', h) = calledBy(continuation, holder, h)
    BY <1>1, <1>2 DEF isOpen, calledBy
  <1>7. caller' = T!With(f, App) /\ f \in DOMAIN caller' \ DOMAIN caller
    BY <1>4, <1>5, <1>6, CallerWith
  <1> QED BY <1>1, <1>7 DEF T!Begin, T!Open, running

LEMMA StartPlainRefines ==
  ASSUME LInv, LInv', NEW x \in Frame \cup {App}, NEW f \in Frame, StartPlain(x, f)
  PROVE  T!Call(f) /\ f \in DOMAIN caller' \ DOMAIN caller
PROOF
  <1>1. /\ TypeOK /\ f \in Plain /\ point[f] = "initial" /\ f \notin Range(readyQueue)
        /\ point' = [point EXCEPT ![f] = "running"]
        /\ control' = Append(control, f)
        /\ running = x /\ holder[f] = x
        /\ UNCHANGED <<continuation, holder, readyQueue>>
    BY LInvFacts DEF StartPlain, fresh, queueVars
  <1>2. running' = f
    <2>1. Append(control, f) # <<>> /\ Last(Append(control, f)) = f
      <3>1. control \in Seq(Frame)
        BY <1>1 DEF TypeOK
      <3> QED BY <3>1, PushedFacts, PushFacts DEF Last
    <2> QED BY <2>1, <1>1 DEF running
  <1>3. ~isOpen(point, readyQueue, f) /\ isOpen(point', readyQueue', f)
    BY <1>1 DEF isOpen, TypeOK
  <1>4. calledBy(continuation', holder', f) = running
    BY <1>1 DEF calledBy
  <1>5. \A h \in Frame \ {f} :
          /\ isOpen(point', readyQueue', h) <=> isOpen(point, readyQueue, h)
          /\ isOpen(point, readyQueue, h) =>
               calledBy(continuation', holder', h) = calledBy(continuation, holder, h)
    BY <1>1 DEF isOpen, calledBy, TypeOK
  <1>6. caller' = T!With(f, running) /\ f \in DOMAIN caller' \ DOMAIN caller
    BY <1>3, <1>4, <1>5, CallerWith
  <1> QED BY <1>1, <1>2, <1>6 DEF T!Call, T!Open

LEMMA AwaitRefines ==
  ASSUME LInv, LInv', NEW f \in Frame, NEW g \in Frame, Await(f, g)
  PROVE  T!Call(g) /\ g \in DOMAIN caller' \ DOMAIN caller
PROOF
  <1>1. /\ TypeOK /\ running = f /\ holder[g] = f
        /\ point[g] = "initial" /\ g \notin Range(readyQueue)
        /\ point' = [point EXCEPT ![f] = "await", ![g] = "running"]
        /\ continuation' = [continuation EXCEPT ![g] = f]
        /\ control' = Append(Front(control), g)
        /\ UNCHANGED <<holder, readyQueue>>
    BY LInvFacts DEF Await, fresh, queueVars, continues_with, transfer
  <1>2. point[f] = "running" /\ control \in Seq(Frame) /\ control # <<>> /\ f # g
    BY <1>1, TopFacts
  <1>3. running' = g
    <2>1. Front(control) \in Seq(Frame)
      BY <1>2, FrontFacts
    <2>2. Append(Front(control), g) # <<>> /\ Last(Append(Front(control), g)) = g
      BY <2>1, PushedFacts, PushFacts DEF Last
    <2> QED BY <2>2, <1>1 DEF running
  <1>4. ~isOpen(point, readyQueue, g) /\ isOpen(point', readyQueue', g)
    BY <1>1, <1>2 DEF isOpen, TypeOK
  <1>5. calledBy(continuation', holder', g) = running
    BY <1>1 DEF calledBy, TypeOK
  <1>6. \A h \in Frame \ {g} :
          /\ isOpen(point', readyQueue', h) <=> isOpen(point, readyQueue, h)
          /\ isOpen(point, readyQueue, h) =>
               calledBy(continuation', holder', h) = calledBy(continuation, holder, h)
    BY <1>1, <1>2 DEF isOpen, calledBy, TypeOK
  <1>7. caller' = T!With(g, running) /\ g \in DOMAIN caller' \ DOMAIN caller
    BY <1>4, <1>5, <1>6, CallerWith
  <1> QED BY <1>1, <1>3, <1>7 DEF T!Call, T!Open

LEMMA RunOnceRefines ==
  ASSUME LInv, LInv', RunOnce PROVE T!Resume
PROOF
  <1> DEFINE f == Head(readyQueue)
  <1>1. /\ TypeOK /\ QueuesHoldSuspended /\ running = App /\ readyQueue # <<>>
        /\ readyQueue' = Tail(readyQueue)
        /\ point' = [point EXCEPT ![f] = "running"]
        /\ control' = <<f>>
        /\ UNCHANGED <<continuation, holder>>
    BY LInvFacts DEF RunOnce
  <1>2. /\ f \in Frame /\ f \in Range(readyQueue)
        /\ Range(readyQueue) = Range(readyQueue') \cup {f}
    BY <1>1, PopFacts DEF TypeOK
  <1>3. running' = f
    <2>1. control' # <<>> /\ Last(control') = f
      BY <1>1 DEF Last
    <2> QED BY <2>1 DEF running
  <1>4. point[f] \in {"initial", "yield", "sleep", "wait"}
    BY <1>1, <1>2 DEF QueuesHoldSuspended
  <1> HIDE DEF f
  <1>5. \A h \in Frame : isOpen(point', readyQueue', h) <=> isOpen(point, readyQueue, h)
    BY <1>1, <1>2, <1>4 DEF isOpen, TypeOK
  <1>6. \A h \in Frame :
          calledBy(continuation', holder', h) = calledBy(continuation, holder, h)
    BY <1>1 DEF calledBy
  <1>7. caller' = caller
    BY <1>5, <1>6, CallerKept
  <1> QED BY <1>1, <1>3, <1>7 DEF T!Resume, f

LEMMA SuspendRefines ==
  ASSUME LInv, LInv', NEW f \in Frame, Yield(f) \/ Sleep(f) \/ Wait(f) PROVE T!Yield
PROOF
  <1>1. /\ TypeOK /\ running = f /\ control' = Front(control) /\ f \notin Plain
        /\ UNCHANGED <<continuation, holder>>
        /\ readyQueue' = readyQueue \/ readyQueue' = Append(readyQueue, f)
    BY LInvFacts DEF Yield, Sleep, Wait, suspend, post
  <1>2. PICK where \in {"yield", "sleep", "wait"} : point' = [point EXCEPT ![f] = where]
    BY DEF Yield, Sleep, Wait, suspend
  <1>3. /\ point[f] = "running" /\ control \in Seq(Frame) /\ control # <<>>
        /\ Len(control) = 1
    BY <1>1, TopFacts
  <1>4. running' = App
    <2>1. Len(control') = 0 /\ control' \in Seq(Frame)
      BY <1>1, <1>3, PoppedFacts
    <2>2. control' = <<>>
      BY <2>1, EmptySeq
    <2> QED BY <2>2 DEF running
  <1>5. \A h \in Frame \ {f} : h \in Range(readyQueue') <=> h \in Range(readyQueue)
    <2>1. readyQueue \in Seq(Frame \ Plain) /\ f \in Frame \ Plain
      BY <1>1 DEF TypeOK
    <2>2. Range(Append(readyQueue, f)) = Range(readyQueue) \cup {f}
      BY <2>1, PushFacts
    <2> QED BY <2>2, <1>1
  <1>6. \A h \in Frame : isOpen(point', readyQueue', h) <=> isOpen(point, readyQueue, h)
    BY <1>1, <1>2, <1>3, <1>5 DEF isOpen, TypeOK
  <1>7. \A h \in Frame :
          calledBy(continuation', holder', h) = calledBy(continuation, holder, h)
    BY <1>1 DEF calledBy
  <1>8. caller' = caller
    BY <1>6, <1>7, CallerKept
  <1>9. running # App
    BY <1>1
  <1> QED BY <1>1, <1>4, <1>8, <1>9 DEF T!Yield

LEMMA WakeRefines ==
  ASSUME LInv, LInv', NEW f \in Frame, Expire(f) \/ Wake(f)
  PROVE  T!Wake(f) /\ f \in T!Open
PROOF
  <1>1. /\ TypeOK /\ QueuesHoldSuspended /\ IInv
        /\ readyQueue' = Append(readyQueue, f) /\ f \in timers \cup waiting
        /\ UNCHANGED <<point, continuation, holder, control>>
    BY LInvFacts DEF Expire, Wake, woken, post, frameVars
  <1>2. point[f] \in {"sleep", "wait"} /\ f \notin Range(readyQueue) /\ f \notin Plain
    BY <1>1 DEF QueuesHoldSuspended, TypeOK
  <1>3. f # running
    BY <1>1, <1>2, RunningFacts
  <1>4. Range(readyQueue') = Range(readyQueue) \cup {f}
    BY <1>1, <1>2, PushFacts DEF TypeOK
  <1>5. isOpen(point, readyQueue, f)
    BY <1>2 DEF isOpen
  <1>6. T!Innermost(f)
    BY <1>2, <1>5, InnermostFacts
  <1>7. caller' = caller
    <2>1. \A h \in Frame : isOpen(point', readyQueue', h) <=> isOpen(point, readyQueue, h)
      BY <1>1, <1>2, <1>4 DEF isOpen
    <2>2. \A h \in Frame :
            calledBy(continuation', holder', h) = calledBy(continuation, holder, h)
      BY <1>1 DEF calledBy
    <2> QED BY <2>1, <2>2, CallerKept
  <1>8. running' = running
    BY <1>1 DEF running
  <1>9. T!Blocked(f)
    BY <1>2, <1>3 DEF T!Blocked, T!Range, Range
  <1> QED BY <1>1, <1>6, <1>7, <1>8, <1>9 DEF T!Wake, T!Innermost

LEMMA DestroyRefines ==
  ASSUME LInv, LInv', NEW x \in Frame \cup {App}, NEW f \in Frame, Destroy(x, f)
  PROVE  T!Kill(T!Open \ DOMAIN caller')
PROOF
  <1> DEFINE D == Below(f)
  <1>1. /\ TypeOK /\ HoldersExist /\ UnstartedHoldNothing /\ IInv
        /\ \A h \in Frame : holder[h] \in D => h \in D
    BY LInvFacts, BelowFacts
  <1>2. D \cap Range(readyQueue) = {} /\ D \cap Range(control) = {}
    BY <1>1, DestroyedFacts
  <1>3. /\ point' = without(point, D, "absent")
        /\ holder' = without(holder, D, NoFrame)
        /\ continuation' = without(continuation, D, NoFrame)
        /\ UNCHANGED <<control, readyQueue>>
    BY DEF Destroy
  <1> HIDE DEF D
  <1>4. \A h \in D \cap Frame : ~isOpen(point', readyQueue', h)
    BY <1>3 DEF without, isOpen
  <1>5. \A h \in Frame \ D :
          /\ isOpen(point', readyQueue', h) <=> isOpen(point, readyQueue, h)
          /\ isOpen(point, readyQueue, h) =>
               calledBy(continuation', holder', h) = calledBy(continuation, holder, h)
    BY <1>3 DEF without, isOpen, calledBy
  <1>6. /\ caller' = T!Restrict(caller, DOMAIN caller \ D)
        /\ DOMAIN caller' = DOMAIN caller \ D
    BY <1>4, <1>5, CallerWithout
  <1>7. \A h \in T!Open \ DOMAIN caller' : T!Blocked(h)
    <2>1. \A h \in D : h # running /\ h \notin Range(readyQueue)
      <3>1. running \in Frame => running \in Range(control)
        BY <1>1, RunningFacts
      <3>2. D \subseteq Frame
        BY BelowFacts DEF D
      <3> QED BY <3>1, <3>2, <1>2
    <2> QED BY <2>1, <1>6 DEF T!Open, T!Blocked, T!Range, Range
  <1>8. T!Range(caller') \subseteq DOMAIN caller' \cup {App}
    <2>1. ASSUME NEW h \in DOMAIN caller', caller'[h] # App
          PROVE  caller'[h] \in DOMAIN caller'
      <3>1. /\ h \in Frame \ D /\ isOpen(point, readyQueue, h)
            /\ caller'[h] = calledBy(continuation', holder', h)
        BY <2>1, <1>6, StepFacts
      <3>2. caller'[h] = holder[h] /\ holder[h] # App
        BY <2>1, <3>1, <1>5 DEF calledBy, without
      <3>3. holder[h] \in Frame \ D
        BY <3>1, <3>2, <1>1 DEF HoldersExist, Exists, isOpen, TypeOK
      <3>4. isOpen(point, readyQueue, holder[h])
        BY <3>1, <3>3, <1>1 DEF HoldersExist, UnstartedHoldNothing, Exists, done, isOpen
      <3>5. holder[h] \in DOMAIN caller
        BY <3>3, <3>4, StepFacts
      <3> QED BY <3>2, <3>3, <3>5, <1>6
    <2> QED BY <2>1 DEF T!Range
  <1>9. caller' = T!Restrict(caller, T!Open \ (T!Open \ DOMAIN caller'))
    <2>1. T!Open \ (T!Open \ DOMAIN caller') = DOMAIN caller \ D
      BY <1>6 DEF T!Open
    <2> QED BY <2>1, <1>6
  <1>10. UNCHANGED <<readyQueue, running>>
    BY <1>3 DEF running
  <1> QED BY <1>7, <1>8, <1>9, <1>10 DEF T!Kill

\* Whoever ends destroys locals that are not open: those that are done, or
\* that nobody started.
LEMMA LocalsNotOpen ==
  ASSUME NEW f \in Frame, BodyEnds(f), f # App
  PROVE  \A g \in Locals(f) : ~isOpen(point, readyQueue, g)
PROOF
  BY DEF Locals, BodyEnds, MayDestroy, done, fresh, isOpen

LEMMA ReturnToResumerRefines ==
  ASSUME LInv, LInv', NEW f \in Frame, ReturnToResumer(f) PROVE T!Return
PROOF
  <1> DEFINE D == Locals(f)
             n == Len(control)
  <1>1. /\ TypeOK /\ IInv /\ Levels /\ running = f /\ continuation[f] = NoFrame
        /\ control' = Front(control) /\ BodyEnds(f)
        /\ UNCHANGED <<continuation, readyQueue>>
    BY LInvFacts DEF ReturnToResumer, BodyEnds, queueVars
  <1>2. /\ control \in Seq(Frame) /\ control # <<>> /\ n \in Nat \ {0}
        /\ point[f] = "running"
        /\ f \in Awaiters(continuation, control[n])
        /\ f \notin Plain => n = 1
    BY <1>1, TopFacts
  <1>3. \A g \in D : ~isOpen(point, readyQueue, g)
    BY <1>1, LocalsNotOpen
  <1>4. /\ point' = [without(point, D, "absent") EXCEPT ![f] = "final"]
        /\ holder' = without(holder, D, NoFrame)
    BY DEF ReturnToResumer
  <1>5. f \notin D
    BY <1>1, LocalsFacts
  <1> HIDE DEF D
  <1>6. \A h \in Frame :
          /\ point'[h] = IF h = f THEN "final" ELSE IF h \in D THEN "absent" ELSE point[h]
          /\ h \notin D => holder'[h] = holder[h]
    BY <1>4 DEF without
  <1>7. \A h \in {f} \cap Frame : ~isOpen(point', readyQueue', h)
    BY <1>6 DEF isOpen
  <1>8. \A h \in Frame \ {f} :
          /\ isOpen(point', readyQueue', h) <=> isOpen(point, readyQueue, h)
          /\ isOpen(point, readyQueue, h) =>
               calledBy(continuation', holder', h) = calledBy(continuation, holder, h)
    <2> TAKE h \in Frame \ {f}
    <2>1. CASE h \in D
      BY <2>1, <1>3, <1>6 DEF isOpen
    <2>2. CASE h \notin D
      BY <2>2, <1>1, <1>6 DEF isOpen, calledBy
    <2> QED BY <2>1, <2>2
  <1>9. caller' = T!Restrict(caller, T!Open \ {running})
    BY <1>1, <1>7, <1>8, CallerWithout DEF T!Open
  <1>10. isOpen(point, readyQueue, f)
    BY <1>2 DEF isOpen
  <1>11. T!Innermost(running)
    BY <1>1, <1>2, <1>10, InnermostFacts
  <1>12. caller[f] = calledBy(continuation, holder, f)
    BY <1>10, StepFacts
  <1>13. /\ Front(control) \in Seq(Frame) /\ Len(Front(control)) = n - 1
         /\ \A i \in 1 .. n - 1 : Front(control)[i] = control[i]
    BY <1>2, PoppedFacts
  <1>14. running' = under(control, n)
    <2>1. CASE n = 1
      <3>1. Front(control) = <<>>
        BY <2>1, <1>13, EmptySeq
      <3> QED BY <2>1, <3>1, <1>1 DEF running, under
    <2>2. CASE n # 1
      <3>1. /\ Front(control) # <<>> /\ n - 1 \in 1 .. n - 1
            /\ Last(Front(control)) = control[n - 1]
        BY <2>2, <1>2, <1>13 DEF Last
      <3> QED BY <2>2, <3>1, <1>1 DEF running, under
    <2> QED BY <2>1, <2>2
  <1>15. under(control, n) = calledBy(continuation, holder, f)
    <2>1. CASE f \in Plain
      <3>1. n \in 1 .. Len(control)
        BY <1>2
      <3> QED BY <2>1, <3>1, <1>1, <1>2 DEF Levels, calledBy
    <2>2. CASE f \notin Plain
      BY <2>2, <1>1, <1>2 DEF under, calledBy
    <2> QED BY <2>1, <2>2
  <1>16. running' = caller[running]
    BY <1>1, <1>12, <1>14, <1>15
  <1> QED BY <1>1, <1>9, <1>11, <1>16 DEF T!Return

LEMMA ReturnToParentRefines ==
  ASSUME LInv, LInv', NEW f \in Frame, ReturnToParent(f) PROVE T!Return
PROOF
  <1> DEFINE D == Locals(f)
             c == continuation[f]
  <1>1. /\ TypeOK /\ IInv /\ AwaitedByOne /\ running = f /\ c # NoFrame
        /\ control' = Append(Front(control), c) /\ BodyEnds(f)
        /\ UNCHANGED readyQueue
    BY LInvFacts DEF ReturnToParent, BodyEnds, queueVars, transfer
  <1>2. /\ control \in Seq(Frame) /\ control # <<>>
        /\ point[f] = "running" /\ c \in Frame
        /\ holder[f] = c /\ point[c] = "await" /\ c # f
    BY <1>1, TopFacts DEF AwaitedByOne, TypeOK
  <1>3. \A g \in D : ~isOpen(point, readyQueue, g)
    BY <1>1, LocalsNotOpen
  <1>4. /\ point' = [without(point, D \cup {f}, "absent") EXCEPT ![c] = "running"]
        /\ holder' = without(holder, D \cup {f}, NoFrame)
        /\ continuation' = without(continuation, D \cup {f}, NoFrame)
    BY DEF ReturnToParent, buried
  <1>5. c \notin D
    BY <1>2, <1>3 DEF isOpen
  <1> HIDE DEF D, c
  <1>6. \A h \in Frame \ {f} :
          /\ point'[h] = IF h = c THEN "running" ELSE IF h \in D THEN "absent" ELSE point[h]
          /\ h \notin D => holder'[h] = holder[h] /\ continuation'[h] = continuation[h]
    BY <1>4 DEF without
  <1>7. \A h \in {f} \cap Frame : ~isOpen(point', readyQueue', h)
    BY <1>2, <1>4 DEF isOpen, without
  <1>8. \A h \in Frame \ {f} :
          /\ isOpen(point', readyQueue', h) <=> isOpen(point, readyQueue, h)
          /\ isOpen(point, readyQueue, h) =>
               calledBy(continuation', holder', h) = calledBy(continuation, holder, h)
    <2> TAKE h \in Frame \ {f}
    <2>1. CASE h \in D
      BY <2>1, <1>3, <1>5, <1>6 DEF isOpen
    <2>2. CASE h \notin D
      BY <2>2, <1>1, <1>2, <1>6 DEF isOpen, calledBy
    <2> QED BY <2>1, <2>2
  <1>9. caller' = T!Restrict(caller, T!Open \ {running})
    BY <1>1, <1>7, <1>8, CallerWithout DEF T!Open
  <1>10. isOpen(point, readyQueue, f)
    BY <1>2 DEF isOpen
  <1>11. T!Innermost(running)
    BY <1>1, <1>2, <1>10, InnermostFacts
  <1>12. caller[f] = c
    <2>1. caller[f] = calledBy(continuation, holder, f)
      BY <1>10, StepFacts
    <2> QED BY <2>1, <1>1, <1>2 DEF calledBy, c
  <1>13. running' = c
    <2>1. Front(control) \in Seq(Frame)
      BY <1>2, FrontFacts
    <2>2. Append(Front(control), c) # <<>> /\ Last(Append(Front(control), c)) = c
      BY <2>1, <1>2, PushedFacts, PushFacts DEF Last
    <2> QED BY <2>2, <1>1 DEF running
  <1> QED BY <1>1, <1>9, <1>11, <1>12, <1>13 DEF T!Return

LEMMA InitRefines == Init => T!Init
PROOF
  <1> SUFFICES ASSUME Init PROVE T!Init
    OBVIOUS
  <1>1. UnstartedNotStarted
    BY InitLInv DEF LInv
  <1>2. DOMAIN caller = {} /\ caller = [f \in DOMAIN caller |-> caller[f]]
    BY <1>1, CallerFacts DEF Init, isOpen
  <1>3. caller = <<>>
    BY <1>2
  <1> QED BY <1>3 DEF Init, T!Init, running

LEMMA StepRefines == LInv /\ LInv' /\ [Next]_taskVars => [T!Next]_T!vars
PROOF
  <1> SUFFICES ASSUME LInv, LInv', [Next]_taskVars PROVE [T!Next]_T!vars
    OBVIOUS
  <1>1. CASE RunOnce
    BY <1>1, RunOnceRefines DEF T!Next
  <1>2. ASSUME NEW f \in Frame,
               Yield(f) \/ Sleep(f) \/ Wait(f) \/ Expire(f) \/ Wake(f) \/ Return(f)
        PROVE  [T!Next]_T!vars
    <2>1. CASE Yield(f) \/ Sleep(f) \/ Wait(f)
      BY <2>1, SuspendRefines DEF T!Next
    <2>2. CASE Expire(f) \/ Wake(f)
      BY <2>2, WakeRefines DEF T!Next
    <2>3. CASE Return(f)
      BY <2>3, ReturnToResumerRefines, ReturnToParentRefines DEF Return, T!Next
    <2> QED BY <1>2, <2>1, <2>2, <2>3
  <1>3. ASSUME NEW x \in Frame \cup {App}, NEW f \in Frame,
               Create(x, f) \/ Start(x, f) \/ StartPlain(x, f) \/ Destroy(x, f)
        PROVE  [T!Next]_T!vars
    <2>1. CASE Create(x, f)
      BY <2>1, CreateRefines
    <2>2. CASE Start(x, f)
      BY <2>2, StartRefines DEF T!Next, T!Open
    <2>3. CASE StartPlain(x, f)
      BY <2>3, StartPlainRefines DEF T!Next, T!Open
    <2>4. CASE Destroy(x, f)
      BY <2>4, DestroyRefines DEF T!Next
    <2> QED BY <1>3, <2>1, <2>2, <2>3, <2>4
  <1>4. ASSUME NEW f \in Frame, NEW g \in Frame, Await(f, g) PROVE [T!Next]_T!vars
    BY <1>4, AwaitRefines DEF T!Next, T!Open
  <1>5. CASE UNCHANGED taskVars
    <2>1. caller' = caller
      <3>1. UNCHANGED <<point, readyQueue, continuation, holder>>
        BY <1>5 DEF taskVars, frameVars, queueVars
      <3> QED BY <3>1, CallerKept
    <2> QED BY <2>1, <1>5 DEF T!vars, running, taskVars, queueVars
  <1> QED BY <1>1, <1>2, <1>3, <1>4, <1>5 DEF Next

\* Started tasks behave as threads, each with a call stack, however many
\* frames there are and whichever of them are plain: every step of the
\* coroutine runtime is one step of such threads, or none.
THEOREM TasksAreThreads == Spec => ImplementsThreads
PROOF
  <1>1. Spec => []LInv
    BY LevelInvariance
  <1> QED BY <1>1, InitRefines, StepRefines, PTL DEF Spec, ImplementsThreads, T!Spec

-----------------------------------------------------------------------------
(* The console as a program of tasks.                                      *)

LEMMA ConsoleStepIsTaskStep == ConsoleStep => [Next]_taskVars
PROOF
  <1> SUFFICES ASSUME ConsoleStep PROVE [Next]_taskVars
    OBVIOUS
  <1>1. con \in Frame /\ disp \in Frame /\ cmd \in Frame
    BY ConsoleAssumption DEF ConsoleAssumption
  <1>2. CASE CallRun \/ EnterCommand \/ CallHandler
    <2>1. \E x \in Frame \cup {App}, f \in Frame : Create(x, f)
      BY <1>1, <1>2 DEF CallRun, EnterCommand, CallHandler
    <2> QED BY <2>1 DEF Next
  <1>3. CASE ReceiveSuspends \/ Flush
    BY <1>1, <1>3 DEF ReceiveSuspends, Flush, Next
  <1>4. CASE FlushEnds
    BY <1>1, <1>4 DEF FlushEnds, Next
  <1>5. CASE AwaitDispatch \/ AwaitHandler
    BY <1>1, <1>5 DEF AwaitDispatch, AwaitHandler, Next
  <1>6. CASE DispatchReturns
    BY <1>1, <1>6 DEF DispatchReturns, Next
  <1>7. CASE ReceiveFails \/ EnterEmpty \/ Dispatched \/ Backspace
    BY <1>7 DEF ReceiveFails, EnterEmpty, Dispatched, Backspace
  <1>8. CASE \E c \in Letter \cup {Blank, NUL} : Type(c)
    BY <1>8 DEF Type
  <1>9. CASE \E n \in Message : Lookup(n)
    BY <1>9 DEF Lookup
  <1> QED BY <1>2, <1>3, <1>4, <1>5, <1>6, <1>7, <1>8, <1>9 DEF ConsoleStep

LEMMA OtherStepIsTaskStep == OtherStep => Next
PROOF
  <1> SUFFICES ASSUME OtherStep PROVE Next
    OBVIOUS
  <1>1. Other \subseteq Frame
    BY DEF Other
  <1>2. CASE RunOnce
    BY <1>2 DEF Next
  <1>3. CASE \E f \in Frame : Expire(f) \/ Wake(f)
    BY <1>3 DEF Next
  <1>4. CASE \E f \in Other : Yield(f) \/ Sleep(f) \/ Wait(f) \/ Return(f)
    BY <1>1, <1>4 DEF Next
  <1>5. CASE \E x \in Other \cup {App}, f \in Frame :
               \/ <<x, f>> \in Calls /\ Create(x, f)
               \/ Start(x, f) \/ StartPlain(x, f) \/ Destroy(x, f)
    BY <1>1, <1>5 DEF Next
  <1>6. CASE \E f, g \in Other : Await(f, g)
    BY <1>1, <1>6 DEF Next
  <1> QED BY <1>2, <1>3, <1>4, <1>5, <1>6 DEF OtherStep

\* Whatever the console and its commands do is something a program of
\* coroutines may do: the console never destroys, awaits or starts a task
\* other than TaskLife allows.
THEOREM ConsoleIsTaskProgram == ConsoleSpec => Spec
PROOF
  <1>1. ConsoleInit => Init
    BY DEF ConsoleInit
  <1>2. [ConsoleNext]_vars => [Next]_taskVars
    <2> SUFFICES ASSUME [ConsoleNext]_vars PROVE [Next]_taskVars
      OBVIOUS
    <2>1. CASE ConsoleStep
      BY <2>1, ConsoleStepIsTaskStep
    <2>2. CASE OtherStep
      BY <2>2, OtherStepIsTaskStep
    <2>3. CASE \E n \in Message : SomeonePrints(n)
      BY <2>3 DEF SomeonePrints
    <2>4. CASE UNCHANGED vars
      BY <2>4 DEF vars
    <2> QED BY <2>1, <2>2, <2>3, <2>4 DEF ConsoleNext
  <1> QED BY <1>1, <1>2, PTL DEF ConsoleSpec, Spec

\* With the console running, whatever its commands do and however many tasks
\* there are, no queue, continuation or task object refers to a frame that is
\* gone.
THEOREM ConsoleDanglesNot == ConsoleSpec => []NothingDangles
PROOF
  BY ConsoleIsTaskProgram, NoDanglingPointer, PTL

\* The console, its commands and the tasks beside it run as threads do.
THEOREM ConsoleTasksAreThreads == ConsoleSpec => ImplementsThreads
PROOF
  BY ConsoleIsTaskProgram, TasksAreThreads, PTL

-----------------------------------------------------------------------------
(* The write buffer.                                                       *)

LEMMA Sizes ==
  /\ WriteBufferSize \in Nat /\ WriteBufferSize > 1
  /\ Stamps \in Nat /\ Stamps > 0
  /\ PrintSize \in Nat \ {0} /\ ChunkSize \in Nat \ {0} /\ Message \subseteq Nat
PROOF BY ConsoleAssumption DEF ConsoleAssumption

LEMMA MinOfTwo ==
  ASSUME NEW a \in Int, NEW b \in Int
  PROVE  Min({a, b}) = IF a <= b THEN a ELSE b
PROOF
  <1> DEFINE m == IF a <= b THEN a ELSE b
  <1>1. m \in {a, b} /\ \A y \in {a, b} : m <= y
    OBVIOUS
  <1>2. \A x \in {a, b} : (\A y \in {a, b} : x <= y) => x = m
    OBVIOUS
  <1> HIDE DEF m
  <1>3. Min({a, b}) = m
    BY <1>1, <1>2 DEF Min
  <1> QED BY <1>3 DEF m

LEMMA MinOfThree ==
  ASSUME NEW a \in Int, NEW b \in Int, NEW c \in Int
  PROVE  Min({a, b, c}) = Min({c, Min({a, b})})
PROOF
  <1>1. Min({a, b}) = IF a <= b THEN a ELSE b
    BY MinOfTwo
  <1>2. Min({a, b}) \in Int
    BY <1>1
  <1>3. Min({c, Min({a, b})}) = IF c <= Min({a, b}) THEN c ELSE Min({a, b})
    BY <1>2, MinOfTwo
  <1> DEFINE m == Min({c, Min({a, b})})
  <1>4. m \in {a, b, c} /\ \A y \in {a, b, c} : m <= y
    BY <1>1, <1>3
  <1>5. \A x \in {a, b, c} : (\A y \in {a, b, c} : x <= y) => x = m
    BY <1>1, <1>3
  <1> HIDE DEF m
  <1>6. Min({a, b, c}) = m
    BY <1>4, <1>5 DEF Min
  <1> QED BY <1>6 DEF m

\* The types of the write buffer.
BufferTyped ==
  head \in Slot /\ tail \in Slot /\ buff \in [Slot -> Nat] /\ accepted \in Nat

\* The slot p places from a slot, or from the end of the storage.
around(p) == IF p < WriteBufferSize THEN p ELSE p - WriteBufferSize

\* size and room, in terms of the indices.
SizeTold ==
  /\ size = IF head <= tail THEN tail - head ELSE tail - head + WriteBufferSize
  /\ size \in 0 .. WriteBufferSize - 1
  /\ room = WriteBufferSize - 1 - size

LEMMA SizeFacts == BufferTyped => SizeTold
PROOF
  <1> SUFFICES ASSUME BufferTyped PROVE SizeTold
    OBVIOUS
  <1>0. /\ head \in 0 .. WriteBufferSize - 1 /\ tail \in 0 .. WriteBufferSize - 1
        /\ WriteBufferSize \in Nat \ {0}
    BY Sizes DEF BufferTyped, Slot
  <1>1. PICK x \in 0 .. 2 * WriteBufferSize - 1 : x = tail - head + WriteBufferSize
    BY <1>0
  <1>2. PICK y \in 0 .. 2 * WriteBufferSize - 1 : y = head - tail - 1 + WriteBufferSize
    BY <1>0
  <1>3. /\ x % WriteBufferSize = IF x < WriteBufferSize THEN x ELSE x - WriteBufferSize
        /\ y % WriteBufferSize = IF y < WriteBufferSize THEN y ELSE y - WriteBufferSize
    BY <1>0, ReducedOnce
  <1>4. /\ size = IF x < WriteBufferSize THEN x ELSE x - WriteBufferSize
        /\ room = IF y < WriteBufferSize THEN y ELSE y - WriteBufferSize
    BY <1>1, <1>2, <1>3 DEF size, room
  <1> QED BY <1>0, <1>1, <1>2, <1>4 DEF SizeTold

\* content, in terms of the storage.
ContentTold ==
  /\ content \in Seq(Nat) /\ Len(content) = size
  /\ \A i \in 1 .. size : content[i] = buff[around(head + i - 1)]

LEMMA ContentFacts == BufferTyped => ContentTold
PROOF
  <1> SUFFICES ASSUME BufferTyped PROVE ContentTold
    OBVIOUS
  <1>1. /\ size \in 0 .. WriteBufferSize - 1 /\ head \in 0 .. WriteBufferSize - 1
        /\ WriteBufferSize \in Nat \ {0}
    BY Sizes, SizeFacts DEF BufferTyped, Slot, SizeTold
  <1>2. ASSUME NEW i \in 1 .. size
        PROVE  /\ (head + i - 1) % WriteBufferSize = around(head + i - 1)
               /\ around(head + i - 1) \in Slot
    <2>1. PICK x \in 0 .. 2 * WriteBufferSize - 1 : x = head + i - 1
      BY <1>1
    <2>2. x % WriteBufferSize = IF x < WriteBufferSize THEN x ELSE x - WriteBufferSize
      BY <1>1, ReducedOnce
    <2>3. around(x) \in Slot
      BY <1>1 DEF around, Slot
    <2> QED BY <2>1, <2>2, <2>3 DEF around
  <1>3. content = [i \in 1 .. size |-> buff[around(head + i - 1)]]
    BY <1>2 DEF content
  <1>4. \A i \in 1 .. size : buff[around(head + i - 1)] \in Nat
    BY <1>2 DEF BufferTyped
  <1>5. content \in Seq(Nat) /\ Len(content) = size
    BY <1>1, <1>3, <1>4
  <1> QED BY <1>3, <1>5 DEF ContentTold

LEMMA BufferAfterwards == BufferTyped' => SizeTold' /\ ContentTold'
PROOF
  <1>1. BufferTyped => SizeTold /\ ContentTold
    BY SizeFacts, ContentFacts
  <1> QED BY <1>1, PTL

\* push appends as much of data as there is room for.
LEMMA PushAppends ==
  ASSUME BufferTyped, NEW data \in Seq(Nat), push(data)
  PROVE  LET n == Min({room, Len(data)}) IN
         /\ BufferTyped'
         /\ n \in 0 .. Len(data)
         /\ content' = content \o [i \in 1 .. n |-> data[i]]
PROOF
  <1> DEFINE n == Min({room, Len(data)})
             first == Min({n, WriteBufferSize - tail})
             taken == [i \in 1 .. n |-> data[i]]
  <1>d. Len(data) \in Nat /\ \A i \in 1 .. Len(data) : data[i] \in Nat
    BY LenProperties
  <1>0. /\ head \in 0 .. WriteBufferSize - 1 /\ tail \in 0 .. WriteBufferSize - 1
        /\ size \in 0 .. WriteBufferSize - 1 /\ room = WriteBufferSize - 1 - size
        /\ size = IF head <= tail THEN tail - head ELSE tail - head + WriteBufferSize
        /\ WriteBufferSize \in Nat \ {0}
    BY Sizes, SizeFacts DEF BufferTyped, Slot, SizeTold
  <1>1. n = (IF room <= Len(data) THEN room ELSE Len(data))
        /\ n \in Nat /\ size + n < WriteBufferSize /\ n <= Len(data)
    <2>1. room \in Int /\ Len(data) \in Int
      BY <1>0, <1>d
    <2>2. n = IF room <= Len(data) THEN room ELSE Len(data)
      BY <2>1, MinOfTwo
    <2> QED BY <1>0, <1>d, <2>2
  <1>2. first = (IF n <= WriteBufferSize - tail THEN n ELSE WriteBufferSize - tail)
    <2>1. PICK m \in Int : m = WriteBufferSize - tail
      BY <1>0
    <2>2. n \in Int
      BY <1>1
    <2>3. Min({n, m}) = IF n <= m THEN n ELSE m
      BY <2>2, MinOfTwo
    <2> QED BY <2>1, <2>3
  <1>3. /\ buff' = [i \in Slot |->
                      IF i \in tail .. tail + first - 1 THEN data[i - tail + 1]
                      ELSE IF i < n - first THEN data[first + i + 1]
                      ELSE buff[i]]
        /\ tail' = (tail + n) % WriteBufferSize
        /\ accepted' = (accepted + n) % Stamps
        /\ head' = head
    BY DEF push
  <1> HIDE DEF n, first
  \* What arithmetic needs to know.
  <1>a. /\ head \in Nat /\ tail \in Nat /\ size \in Nat /\ n \in Nat /\ first \in Nat
        /\ WriteBufferSize \in Nat
        /\ head < WriteBufferSize /\ tail < WriteBufferSize /\ size + n < WriteBufferSize
        /\ n <= Len(data) /\ Len(data) \in Nat
        /\ size = IF head <= tail THEN tail - head ELSE tail - head + WriteBufferSize
        /\ first = IF n <= WriteBufferSize - tail THEN n ELSE WriteBufferSize - tail
    <2>1. /\ head \in Nat /\ tail \in Nat /\ size \in Nat /\ WriteBufferSize \in Nat
          /\ head < WriteBufferSize /\ tail < WriteBufferSize
      BY <1>0
    <2>2. n \in Nat
      BY <1>1
    <2>3. first \in Nat
      BY <1>2, <2>1, <2>2
    <2>4. size = IF head <= tail THEN tail - head ELSE tail - head + WriteBufferSize
      BY <1>0
    <2>5. size + n < WriteBufferSize /\ n <= Len(data)
      BY <1>1
    <2>6. Len(data) \in Nat
      BY <1>d
    <2> QED BY <1>2, <2>1, <2>2, <2>3, <2>4, <2>5, <2>6
  <1>4. tail' = around(tail + n)
    <2>1. PICK x \in 0 .. 2 * WriteBufferSize - 1 : x = tail + n
      BY <1>a
    <2>2. x % WriteBufferSize = IF x < WriteBufferSize THEN x ELSE x - WriteBufferSize
      BY <1>0, ReducedOnce
    <2> QED BY <1>3, <2>1, <2>2 DEF around
  <1>h. head' = head
    BY <1>3
  <1>5. BufferTyped'
    <2>1. tail' \in Slot /\ head' \in Slot
      BY <1>a, <1>4, <1>h DEF around, Slot
    <2>2. ASSUME NEW i \in Slot PROVE buff'[i] \in Nat
      <3>1. i \in tail .. tail + first - 1 => i - tail + 1 \in 1 .. Len(data)
        BY <1>a DEF Slot
      <3>2. i < n - first => first + i + 1 \in 1 .. Len(data)
        BY <1>a DEF Slot
      <3> QED BY <1>d, <1>3, <3>1, <3>2 DEF BufferTyped
    <2>3. buff' \in [Slot -> Nat]
      BY <1>3, <2>2
    <2>4. accepted' \in Nat
      <3>1. accepted + n \in Nat /\ Stamps \in Nat \ {0}
        BY <1>1, <1>0, Sizes DEF BufferTyped
      <3>2. (accepted + n) % Stamps \in Nat
        BY <3>1
      <3> QED BY <1>3, <3>2
    <2> QED BY <2>1, <2>3, <2>4 DEF BufferTyped
  <1>6. size' = size + n
    <2>1. size' = IF head' <= tail' THEN tail' - head' ELSE tail' - head' + WriteBufferSize
      BY <1>5, BufferAfterwards DEF SizeTold
    <2> QED BY <1>a, <1>4, <1>h, <2>1 DEF around
  <1>7. /\ content' \in Seq(Nat) /\ Len(content') = size + n
        /\ \A i \in 1 .. size + n : content'[i] = buff'[around(head + i - 1)]
    <2>1. /\ content' \in Seq(Nat) /\ Len(content') = size'
          /\ \A i \in 1 .. size' : content'[i] = buff'[around(head' + i - 1)]
      BY <1>5, BufferAfterwards DEF ContentTold
    <2> QED BY <1>h, <1>6, <2>1
  <1>8. /\ content \in Seq(Nat) /\ Len(content) = size
        /\ \A i \in 1 .. size : content[i] = buff[around(head + i - 1)]
    BY ContentFacts DEF ContentTold
  <1>9. taken \in Seq(Nat) /\ Len(taken) = n /\ \A i \in 1 .. n : taken[i] = data[i]
    BY <1>d, <1>a
  <1> HIDE DEF taken
  <1>10. /\ content \o taken \in Seq(Nat) /\ Len(content \o taken) = size + n
         /\ \A i \in 1 .. size + n : (content \o taken)[i] =
              IF i <= size THEN content[i] ELSE taken[i - size]
    <2>1. /\ content \o taken \in Seq(Nat)
          /\ Len(content \o taken) = Len(content) + Len(taken)
          /\ \A i \in 1 .. Len(content) + Len(taken) : (content \o taken)[i] =
               IF i <= Len(content) THEN content[i] ELSE taken[i - Len(content)]
      BY <1>8, <1>9, ConcatProperties
    <2> QED BY <1>8, <1>9, <2>1
  <1> HIDE DEF content, size
  <1>11. ASSUME NEW i \in 1 .. size + n PROVE content'[i] = (content \o taken)[i]
    <2>1. CASE i <= size
      <3> DEFINE s == around(head + i - 1)
      <3>1. s \in Slot /\ ~(s \in tail .. tail + first - 1) /\ ~(s < n - first)
        BY <1>a, <1>11, <2>1 DEF around, Slot
      <3> HIDE DEF s
      <3>2. buff'[s] = buff[s]
        BY <1>3, <3>1
      <3>3. i \in 1 .. size
        BY <1>a, <1>11, <2>1
      <3> QED BY <1>7, <1>8, <1>10, <2>1, <3>2, <3>3 DEF s
    <2>2. CASE i > size
      <3> DEFINE s == around(head + i - 1)
      <3>0. i - size \in 1 .. n
        BY <1>a, <1>11, <2>2
      <3>7. content'[i] = buff'[around(head + i - 1)]
        BY <1>7, <1>11
      <3>t. (content \o taken)[i] = data[i - size]
        <4>0. ~(i <= size)
          BY <1>a, <1>11, <2>2
        <4>1. (content \o taken)[i] = taken[i - size]
          BY <1>10, <1>11, <4>0
        <4> QED BY <1>9, <3>0, <4>1
      <3>1. CASE i - size <= first
        <4>1. s \in Slot /\ s \in tail .. tail + first - 1 /\ s - tail + 1 = i - size
          BY <1>a, <1>11, <3>0, <3>1 DEF around, Slot
        <4> HIDE DEF s
        <4>2. buff'[s] = data[i - size]
          BY <1>3, <4>1
        <4> QED BY <1>11, <3>t, <3>7, <4>2 DEF s
      <3>2. CASE i - size > first
        <4>1. /\ s \in Slot /\ ~(s \in tail .. tail + first - 1) /\ s < n - first
              /\ first + s + 1 = i - size
          BY <1>a, <1>11, <3>0, <3>2 DEF around, Slot
        <4> HIDE DEF s
        <4>2. buff'[s] = data[i - size]
          BY <1>3, <4>1
        <4> QED BY <1>11, <3>t, <3>7, <4>2 DEF s
      <3>3. i - size <= first \/ i - size > first
        BY <1>a, <1>11
      <3> QED BY <3>1, <3>2, <3>3
    <2>3. i <= size \/ i > size
      BY <1>a, <1>11
    <2> QED BY <2>1, <2>2, <2>3
  <1>12. content' = content \o taken
    BY <1>7, <1>10, <1>11, SeqEqual
  <1> QED BY <1>a, <1>5, <1>12 DEF n, taken

\* pop_front takes the oldest bytes, at least one if there are any.
LEMMA PopTakes ==
  ASSUME BufferTyped, NEW max_len \in Nat \ {0}, pop_front(max_len), size # 0
  PROVE  BufferTyped' /\ content = chunk' \o content' /\ chunk' # <<>>
PROOF
  <1> DEFINE n == Min({size, max_len})
             first == Min({n, WriteBufferSize - head})
  <1>0. /\ head \in 0 .. WriteBufferSize - 1 /\ tail \in 0 .. WriteBufferSize - 1
        /\ size \in 0 .. WriteBufferSize - 1
        /\ size = IF head <= tail THEN tail - head ELSE tail - head + WriteBufferSize
        /\ WriteBufferSize \in Nat \ {0}
    BY Sizes, SizeFacts DEF BufferTyped, Slot, SizeTold
  <1>1. n \in Nat /\ n # 0 /\ n <= size
    <2>1. size \in Int /\ max_len \in Int
      BY <1>0
    <2>2. n = IF size <= max_len THEN size ELSE max_len
      BY <2>1, MinOfTwo
    <2>3. size \in Nat \ {0}
      BY <1>0
    <2> QED BY <2>2, <2>3
  <1>2. first = (IF n <= WriteBufferSize - head THEN n ELSE WriteBufferSize - head)
    <2>1. PICK m \in Int : m = WriteBufferSize - head
      BY <1>0
    <2>2. n \in Int
      BY <1>1
    <2>3. Min({n, m}) = IF n <= m THEN n ELSE m
      BY <2>2, MinOfTwo
    <2> QED BY <2>1, <2>3
  <1>3. /\ chunk' = [i \in 1 .. n |->
                       IF i <= first THEN buff[head + i - 1] ELSE buff[i - first - 1]]
        /\ head' = (head + n) % WriteBufferSize
        /\ UNCHANGED <<buff, tail, accepted>>
    BY DEF pop_front, front
  <1> HIDE DEF n, first
  <1>a. /\ head \in Nat /\ tail \in Nat /\ size \in Nat /\ n \in Nat /\ first \in Nat
        /\ WriteBufferSize \in Nat
        /\ head < WriteBufferSize /\ tail < WriteBufferSize /\ n <= size
        /\ size < WriteBufferSize
        /\ size = IF head <= tail THEN tail - head ELSE tail - head + WriteBufferSize
        /\ first = IF n <= WriteBufferSize - head THEN n ELSE WriteBufferSize - head
    <2>1. /\ head \in Nat /\ tail \in Nat /\ size \in Nat /\ WriteBufferSize \in Nat
          /\ head < WriteBufferSize /\ tail < WriteBufferSize /\ size < WriteBufferSize
      BY <1>0
    <2>2. n \in Nat /\ n <= size
      BY <1>1
    <2>3. first \in Nat
      BY <1>2, <2>1, <2>2
    <2>4. size = IF head <= tail THEN tail - head ELSE tail - head + WriteBufferSize
      BY <1>0
    <2> QED BY <1>2, <2>1, <2>2, <2>3, <2>4
  <1>4. head' = around(head + n)
    <2>1. PICK x \in 0 .. 2 * WriteBufferSize - 1 : x = head + n
      BY <1>a
    <2>2. x % WriteBufferSize = IF x < WriteBufferSize THEN x ELSE x - WriteBufferSize
      BY <1>0, ReducedOnce
    <2> QED BY <1>3, <2>1, <2>2 DEF around
  <1>t. tail' = tail /\ buff' = buff /\ accepted' = accepted
    BY <1>3
  <1>5. BufferTyped'
    <2>1. head' \in Slot
      BY <1>a, <1>4 DEF around, Slot
    <2> QED BY <1>t, <2>1 DEF BufferTyped
  <1>6. size' = size - n
    <2>1. size' = IF head' <= tail' THEN tail' - head' ELSE tail' - head' + WriteBufferSize
      BY <1>5, BufferAfterwards DEF SizeTold
    <2> QED BY <1>a, <1>4, <1>t, <2>1 DEF around
  <1>7. /\ content' \in Seq(Nat) /\ Len(content') = size - n
        /\ \A i \in 1 .. size - n : content'[i] = buff[around(head' + i - 1)]
    <2>1. /\ content' \in Seq(Nat) /\ Len(content') = size'
          /\ \A i \in 1 .. size' : content'[i] = buff'[around(head' + i - 1)]
      BY <1>5, BufferAfterwards DEF ContentTold
    <2> QED BY <1>t, <1>6, <2>1
  <1>8. /\ content \in Seq(Nat) /\ Len(content) = size
        /\ \A i \in 1 .. size : content[i] = buff[around(head + i - 1)]
    BY ContentFacts DEF ContentTold
  <1>9. ASSUME NEW i \in 1 .. n PROVE chunk'[i] = content[i]
    <2>0. i \in 1 .. size
      BY <1>a
    <2>1. CASE i <= first
      <3>1. around(head + i - 1) = head + i - 1
        BY <1>a, <2>1 DEF around
      <3> QED BY <1>3, <1>8, <2>0, <2>1, <3>1
    <2>2. CASE ~(i <= first)
      <3>1. around(head + i - 1) = i - first - 1
        BY <1>a, <2>2 DEF around
      <3> QED BY <1>3, <1>8, <2>0, <2>2, <3>1
    <2> QED BY <2>1, <2>2
  <1>10. chunk' \in Seq(Nat) /\ Len(chunk') = n
    <2>1. \A i \in 1 .. n : chunk'[i] \in Nat
      <3> SUFFICES ASSUME NEW i \in 1 .. n PROVE chunk'[i] \in Nat
        OBVIOUS
      <3>1. i \in 1 .. Len(content)
        BY <1>8, <1>a
      <3>2. content[i] \in Nat
        BY <1>8, <3>1, LenProperties
      <3> QED BY <1>9, <3>2
    <2>2. chunk' \in [1 .. n -> Nat]
      BY <1>3, <2>1
    <2> QED BY <1>a, <2>2
  <1>11. /\ chunk' \o content' \in Seq(Nat) /\ Len(chunk' \o content') = size
         /\ \A i \in 1 .. size : (chunk' \o content')[i] =
              IF i <= n THEN chunk'[i] ELSE content'[i - n]
    <2>1. /\ chunk' \o content' \in Seq(Nat)
          /\ Len(chunk' \o content') = Len(chunk') + Len(content')
          /\ \A i \in 1 .. Len(chunk') + Len(content') : (chunk' \o content')[i] =
               IF i <= Len(chunk') THEN chunk'[i] ELSE content'[i - Len(chunk')]
      BY <1>7, <1>10, ConcatProperties
    <2>2. Len(chunk') + Len(content') = size
      BY <1>a, <1>7, <1>10
    <2> QED BY <1>10, <2>1, <2>2
  <1>12. ASSUME NEW i \in 1 .. size PROVE content[i] = (chunk' \o content')[i]
    <2>1. CASE i <= n
      <3>1. i \in 1 .. n
        BY <1>a, <2>1
      <3> QED BY <1>9, <1>11, <2>1, <3>1
    <2>2. CASE ~(i <= n)
      <3>1. i - n \in 1 .. size - n
        BY <1>a, <2>2
      <3>2. around(head' + (i - n) - 1) = around(head + i - 1)
        BY <1>a, <1>4, <1>12, <2>2 DEF around
      <3>3. content'[i - n] = buff[around(head' + (i - n) - 1)]
        BY <1>7, <3>1
      <3>4. (chunk' \o content')[i] = content'[i - n]
        BY <1>11, <2>2
      <3> QED BY <1>8, <3>2, <3>3, <3>4
    <2> QED BY <2>1, <2>2
  <1>13. content = chunk' \o content'
    BY <1>8, <1>11, <1>12, SeqEqual
  <1>14. chunk' # <<>>
    BY <1>1, <1>10
  <1> QED BY <1>5, <1>13, <1>14

\* What a step may do to the write buffer and the chunk being sent.
Orderly ==
  \/ UNCHANGED content /\ chunk' \in {chunk, <<>>}
  \/ /\ UNCHANGED chunk
     /\ \E n \in Message :
          content' = content \o stamps(Min({n, PrintSize - 1,
                                            WriteBufferSize - 1 - Len(content)}))
  \/ content = chunk' \o content' /\ chunk' # <<>>

LEMMA PrintAppends ==
  ASSUME BufferTyped, NEW n \in Message, print(n), UNCHANGED chunk
  PROVE  BufferTyped' /\ Orderly
PROOF
  <1> DEFINE k == Min({n, PrintSize - 1})
             m == Min({room, Len(stamps(k))})
  <1>1. n \in Nat /\ PrintSize - 1 \in Nat
    BY Sizes
  <1>2. k = IF n <= PrintSize - 1 THEN n ELSE PrintSize - 1
    <2>1. PICK p \in Int : p = PrintSize - 1
      BY <1>1
    <2>2. Min({n, p}) = IF n <= p THEN n ELSE p
      BY <1>1, MinOfTwo
    <2> QED BY <2>1, <2>2
  <1>3. k \in Nat
    BY <1>1, <1>2
  <1>4. push(stamps(k))
    BY DEF print
  <1> HIDE DEF k
  <1>5. ASSUME NEW j \in Nat
        PROVE  stamps(j) \in Seq(Nat) /\ Len(stamps(j)) = j
    <2>1. \A i \in 1 .. j : (accepted + i) % Stamps \in Nat
      <3> SUFFICES ASSUME NEW i \in 1 .. j PROVE (accepted + i) % Stamps \in Nat
        OBVIOUS
      <3>1. accepted + i \in Nat /\ Stamps \in Nat \ {0}
        BY Sizes DEF BufferTyped
      <3> QED BY <3>1
    <2> QED BY <2>1 DEF stamps
  <1>6. /\ BufferTyped' /\ m \in 0 .. k
        /\ content' = content \o [i \in 1 .. m |-> stamps(k)[i]]
    BY <1>3, <1>4, <1>5, PushAppends
  <1>7. [i \in 1 .. m |-> stamps(k)[i]] = stamps(m)
    <2> HIDE DEF m
    <2>1. \A i \in 1 .. m : i \in 1 .. k
      BY <1>3, <1>6
    <2>2. \A i \in 1 .. m : stamps(k)[i] = (accepted + i) % Stamps
      BY <2>1 DEF stamps
    <2> QED BY <2>2 DEF stamps
  <1>8. m = Min({n, PrintSize - 1, WriteBufferSize - 1 - Len(content)})
    <2>1. room \in Int /\ room = WriteBufferSize - 1 - Len(content)
      BY Sizes, SizeFacts, ContentFacts DEF SizeTold, ContentTold
    <2>2. PICK p \in Int : p = PrintSize - 1
      BY <1>1
    <2>3. Min({n, p, room}) = Min({room, Min({n, p})})
      BY <1>1, <2>1, <2>2, MinOfThree
    <2>4. m = Min({room, k})
      BY <1>3, <1>5
    <2> QED BY <2>1, <2>2, <2>3, <2>4 DEF k
  <1> QED BY <1>6, <1>7, <1>8 DEF Orderly

LEMMA SameBuffer == UNCHANGED bufferVars => (BufferTyped => BufferTyped') /\ UNCHANGED content
PROOF
  <1> SUFFICES ASSUME UNCHANGED bufferVars
               PROVE  (BufferTyped => BufferTyped') /\ UNCHANGED content
    OBVIOUS
  <1>1. UNCHANGED <<buff, head, tail, accepted>>
    BY DEF bufferVars
  <1>2. size' = size
    BY <1>1 DEF size
  <1> QED BY <1>1, <1>2 DEF BufferTyped, content

LEMMA StepIsOrderly == BufferTyped /\ [ConsoleNext]_vars => BufferTyped' /\ Orderly
PROOF
  <1> SUFFICES ASSUME BufferTyped, [ConsoleNext]_vars PROVE BufferTyped' /\ Orderly
    OBVIOUS
  <1>1. CASE UNCHANGED <<bufferVars, chunk>>
    BY <1>1, SameBuffer DEF Orderly
  <1>2. CASE UNCHANGED vars
    BY <1>1, <1>2 DEF vars
  <1>3. CASE OtherStep
    BY <1>1, <1>3 DEF OtherStep, consoleVars
  <1>4. CASE \E n \in Message : SomeonePrints(n)
    BY <1>4, PrintAppends DEF SomeonePrints
  <1>5. CASE \E n \in Message : Lookup(n)
    BY <1>5, PrintAppends DEF Lookup
  <1>6. CASE Flush
    BY <1>6, Sizes, PopTakes DEF Flush, Orderly
  <1>7. CASE FlushEnds
    BY <1>7, SameBuffer DEF FlushEnds, Orderly
  <1>8. CASE CallRun \/ ReceiveSuspends \/ ReceiveFails \/ Backspace
    BY <1>1, <1>8 DEF CallRun, ReceiveSuspends, ReceiveFails, Backspace
  <1>9. CASE EnterCommand \/ EnterEmpty \/ AwaitDispatch \/ Dispatched
    BY <1>1, <1>9 DEF EnterCommand, EnterEmpty, AwaitDispatch, Dispatched
  <1>10. CASE CallHandler \/ AwaitHandler \/ DispatchReturns
    BY <1>1, <1>10 DEF CallHandler, AwaitHandler, DispatchReturns
  <1>11. CASE \E c \in Letter \cup {Blank, NUL} : Type(c)
    BY <1>1, <1>11 DEF Type
  <1> QED BY <1>2, <1>3, <1>4, <1>5, <1>6, <1>7, <1>8, <1>9, <1>10, <1>11
          DEF ConsoleNext, ConsoleStep

\* What is printed leaves for the UART in order, each byte once, whoever prints
\* while a chunk is being sent and wherever in the storage a copy wraps.
THEOREM OutputLeavesInOrder == ConsoleSpec => OutputInOrder
PROOF
  <1>1. ConsoleInit => BufferTyped
    <2> SUFFICES ASSUME ConsoleInit PROVE BufferTyped
      OBVIOUS
    <2>1. 0 \in Slot
      BY Sizes DEF Slot
    <2> QED BY <2>1 DEF ConsoleInit, BufferTyped
  <1>2. BufferTyped /\ [ConsoleNext]_vars => BufferTyped' /\ Orderly
    BY StepIsOrderly
  <1>3. ConsoleSpec => [][Orderly]_<<content, chunk>>
    BY <1>1, <1>2, PTL DEF ConsoleSpec
  <1> QED BY <1>3 DEF Orderly, OutputInOrder

-----------------------------------------------------------------------------
(* The arguments of a command.                                             *)

\* What words are made of, with the blanks between them.
Char == Letter \cup {Blank}

\* The sizes of the line, and the marks apart from the letters.
LEMMA LineFacts ==
  /\ LineSize \in Nat \ {0} /\ MaxArgs \in Nat /\ Index = 0 .. LineSize - 1
  /\ NUL \notin Char /\ NUL \notin Letter /\ Blank \notin Letter /\ NUL # Blank
PROOF BY ConsoleAssumption DEF ConsoleAssumption, Index, Char, NUL, Blank

\* The minimum of a set that is known to have one.
LEMMA MinIs ==
  ASSUME NEW S \in SUBSET Nat, NEW m \in S, \A y \in S : m <= y
  PROVE  Min(S) = m
PROOF
  <1>1. \A x \in S : (\A y \in S : x <= y) => x = m
    OBVIOUS
  <1> QED BY <1>1 DEF Min

\* The line editor holds what C takes for the text s.
Shows(l, s) ==
  /\ l \in [Index -> Char \cup {NUL}] /\ s \in Seq(Char) /\ Len(s) < LineSize
  /\ \A i \in 1 .. Len(s) : l[i - 1] = s[i]
  /\ l[Len(s)] = NUL

\* What lies at position i of the line, until the parser comes there.
LEMMA ShownAt ==
  ASSUME NEW l, NEW s, Shows(l, s), NEW i \in 0 .. Len(s)
  PROVE  /\ Len(s) \in Nat /\ i \in Index
         /\ i < Len(s) => l[i] = s[i + 1] /\ s[i + 1] \in Char /\ l[i] # NUL
         /\ i = Len(s) => l[i] = NUL
PROOF
  <1>1. Len(s) \in Nat /\ i \in Index
    BY LenProperties, LineFacts DEF Shows
  <1>2. ASSUME i < Len(s) PROVE l[i] = s[i + 1] /\ s[i + 1] \in Char
    <2>1. i + 1 \in 1 .. Len(s) /\ (i + 1) - 1 = i
      BY <1>1, <1>2
    <2>2. s[i + 1] \in Char
      BY <2>1, ElementOfSeq DEF Shows
    <2> QED BY <2>1, <2>2 DEF Shows
  <1> QED BY <1>1, <1>2, LineFacts DEF Shows

\* The k-th argument is a word that the parser has passed.
ArgumentIs(l, s, ln, p, at_k) ==
  \E a, b \in 1 .. Len(s) :
    /\ IsWord(s, a, b) /\ at_k = a - 1 /\ b <= p /\ ln[b] = NUL
    /\ \A i \in a - 1 .. b - 1 : ln[i] = l[i]

\* How far the parser has got with the text s in the line l: it is at p, at a
\* border of words, and has the arguments av; after p the line is as it was.
Parsed(l, s, ln, av, p) ==
  /\ ln \in [Index -> Char \cup {NUL}] /\ av \in Seq(Index) /\ p \in 0 .. Len(s)
  /\ \A i \in Index : i >= p => ln[i] = l[i]
  /\ p > 0 /\ p < Len(s) => s[p] = Blank
  /\ Len(av) <= MaxArgs
  /\ \A k \in 1 .. Len(av) : ArgumentIs(l, s, ln, p, av[k])
  /\ \A j, k \in 1 .. Len(av) : j < k => av[j] < av[k]
  /\ \A a, b \in 1 .. Len(s) : IsWord(s, a, b) /\ a - 1 < p => \E k \in 1 .. Len(av) : av[k] = a - 1

\* Nothing is left to parse.
NoneLeft(s, p) == \A a, b \in 1 .. Len(s) : IsWord(s, a, b) => a - 1 < p

\* next_in finds the first position with a character of C.
LEMMA NextIn ==
  ASSUME NEW ln, NEW p \in Nat, NEW C, NEW e \in p .. LineSize - 1, ln[e] \in C
  PROVE  /\ next_in(ln, p, C) \in p .. e
         /\ ln[next_in(ln, p, C)] \in C
         /\ \A i \in p .. next_in(ln, p, C) - 1 : ln[i] \notin C
PROOF
  <1> DEFINE S == {i \in p .. LineSize - 1 : ln[i] \in C}
  <1>1. S \in SUBSET Nat /\ e \in S
    BY LineFacts
  <1>2. PICK m \in S : \A y \in S : m <= y
    BY <1>1, HasLeast
  <1>3. Min(S) = m
    BY <1>1, <1>2, MinIs
  <1>4. next_in(ln, p, C) = m
    BY <1>3 DEF next_in
  <1>5. m \in p .. e /\ ln[m] \in C
    BY <1>1, <1>2
  <1>6. ASSUME NEW i \in p .. m - 1 PROVE ln[i] \notin C
    <2>1. i \in p .. LineSize - 1 /\ ~(m <= i)
      BY <1>5, LineFacts
    <2> QED BY <2>1, <1>2
  <1> QED BY <1>4, <1>5, <1>6

\* What one turn of parse's loop does: it finds a word that begins where the
\* parser is or later, or it changes nothing, since there is none or since it
\* has as many arguments as it takes.
LEMMA TokenParses ==
  ASSUME NEW l, NEW s, Shows(l, s), NEW ln, NEW av, NEW p, Parsed(l, s, ln, av, p)
  PROVE  LET x == [line |-> ln, argv |-> av, p |-> p]
             y == token(x)
         IN  \/ /\ y = x
                /\ NoneLeft(s, p) \/ Len(av) = MaxArgs
             \/ /\ y = [line |-> y.line, argv |-> y.argv, p |-> y.p]
                /\ Parsed(l, s, y.line, y.argv, y.p)
                /\ Len(y.argv) = Len(av) + 1 /\ Len(av) < MaxArgs
                /\ ~NoneLeft(s, p)
PROOF
  <1> DEFINE x == [line |-> ln, argv |-> av, p |-> p]
             begin == next_in(ln, p, Letter \cup {NUL})
             end == next_in(ln, begin, {Blank, NUL})
             N == Len(s)
             next == IF ln[end] = NUL THEN end ELSE end + 1
             out == [ln EXCEPT ![end] = NUL]
  <1>1. /\ N \in Nat /\ N \in Index /\ p \in 0 .. N /\ N \in p .. LineSize - 1 /\ p \in Nat
        /\ ln \in [Index -> Char \cup {NUL}] /\ av \in Seq(Index)
        /\ Len(av) \in Nat /\ Len(av) <= MaxArgs
    <2>1. N \in Nat /\ N \in Index
      BY ShownAt, LenProperties DEF Shows
    <2>2. /\ p \in 0 .. N /\ ln \in [Index -> Char \cup {NUL}] /\ av \in Seq(Index)
          /\ Len(av) <= MaxArgs
      BY DEF Parsed
    <2>3. Len(av) \in Nat
      BY <2>2, LenProperties
    <2> QED BY <2>1, <2>2, <2>3, LineFacts
  \* From p on the line is as it was.
  <1>2. ASSUME NEW i \in p .. N
        PROVE  /\ i \in Index /\ ln[i] = l[i]
               /\ i < N => ln[i] = s[i + 1] /\ s[i + 1] \in Char /\ ln[i] # NUL
               /\ i = N => ln[i] = NUL
    <2>1. i \in 0 .. N /\ i >= p
      BY <1>1
    <2>2. i \in Index
      BY <2>1, ShownAt
    <2>3. ln[i] = l[i]
      BY <2>1, <2>2 DEF Parsed
    <2> QED BY <2>1, <2>2, <2>3, ShownAt
  <1>3. /\ begin \in p .. N /\ ln[begin] \in Letter \cup {NUL}
        /\ \A i \in p .. begin - 1 : ln[i] \notin Letter \cup {NUL}
    <2>1. N \in p .. N
      BY <1>1
    <2>2. ln[N] \in Letter \cup {NUL}
      BY <1>2, <2>1
    <2> QED BY <1>1, <2>2, NextIn
  <1>4. ASSUME NEW i \in p .. begin - 1
        PROVE  s[i + 1] = Blank
    <2>1. i \in p .. N /\ i < N
      BY <1>1, <1>3
    <2>2. ln[i] \in Char /\ ln[i] \notin Letter
      BY <1>2, <1>3, <2>1
    <2> QED BY <1>2, <2>1, <2>2 DEF Char
  <1>5. CASE ln[begin] = NUL
    <2>1. begin = N
      BY <1>1, <1>2, <1>3, <1>5
    <2>2. NoneLeft(s, p)
      <3> SUFFICES ASSUME NEW a \in 1 .. N, NEW b \in 1 .. N, IsWord(s, a, b), ~(a - 1 < p)
                   PROVE  FALSE
        BY DEF NoneLeft
      <3>1. a - 1 \in p .. begin - 1 /\ (a - 1) + 1 = a
        BY <1>1, <2>1
      <3>2. s[a] = Blank
        BY <1>4, <3>1
      <3>3. a \in a .. b /\ a <= b
        BY DEF IsWord
      <3> QED BY <3>2, <3>3 DEF IsWord
    <2>3. token(x) = x
      BY <1>5 DEF token
    <2> QED BY <2>2, <2>3
  <1>6. CASE ln[begin] # NUL /\ Len(av) >= MaxArgs
    <2>1. token(x) = x
      BY <1>6 DEF token
    <2>2. Len(av) = MaxArgs
      BY <1>1, <1>6, LineFacts
    <2> QED BY <2>1, <2>2
  <1>7. CASE ln[begin] # NUL /\ ~(Len(av) >= MaxArgs)
    <2>1. begin < N /\ ln[begin] \in Letter /\ Len(av) < MaxArgs
      BY <1>1, <1>2, <1>3, <1>7, LineFacts
    <2>2. token(x) = [line |-> out, argv |-> Append(av, begin), p |-> next]
      BY <1>7 DEF token
    <2>3. /\ end \in begin .. N /\ ln[end] \in {Blank, NUL}
          /\ \A i \in begin .. end - 1 : ln[i] \notin {Blank, NUL}
      <3>1. N \in begin .. LineSize - 1 /\ begin \in Nat /\ N \in p .. N
        BY <1>1, <1>3
      <3>2. ln[N] \in {Blank, NUL}
        BY <1>2, <3>1
      <3> QED BY <3>1, <3>2, NextIn
    <2>4. /\ end \in begin + 1 .. N /\ begin \in 0 .. N - 1 /\ begin \in Nat /\ end \in Nat
          /\ end \in p .. N /\ p <= begin
      <3>1. end # begin
        BY <2>1, <2>3, LineFacts
      <3> QED BY <1>1, <1>3, <2>1, <2>3, <3>1
    <2>5. ASSUME NEW i \in begin + 1 .. end
          PROVE  s[i] # Blank
      <3>1. i - 1 \in begin .. end - 1 /\ i - 1 \in p .. N /\ i - 1 < N /\ (i - 1) + 1 = i
        BY <1>1, <2>4
      <3> QED BY <1>2, <2>3, <3>1
    <2>6. ln[end] = NUL <=> end = N
      BY <1>1, <1>2, <2>4
    <2>7. end < N => s[end + 1] = Blank
      BY <1>1, <1>2, <2>3, <2>4, <2>6
    <2> HIDE DEF begin, end, x
    <2>8. IsWord(s, begin + 1, end)
      <3>1. begin + 1 > 1 => s[(begin + 1) - 1] = Blank
        <4>1. CASE begin = p
          <5>1. (begin + 1) - 1 = p /\ (begin + 1 > 1 => p > 0) /\ p < N
            BY <1>1, <2>4, <4>1
          <5> QED BY <5>1 DEF Parsed
        <4>2. CASE begin # p
          <5>1. begin - 1 \in p .. begin - 1 /\ (begin - 1) + 1 = begin /\ (begin + 1) - 1 = begin
            BY <1>1, <2>4, <4>2
          <5> QED BY <1>4, <5>1
        <4> QED BY <4>1, <4>2
      <3>2. begin + 1 <= end
        BY <2>4
      <3> QED BY <2>5, <2>7, <3>1, <3>2 DEF IsWord
    <2>9. begin + 1 \in 1 .. N /\ end \in 1 .. N
      BY <1>1, <2>4
    <2>10. ~NoneLeft(s, p)
      <3>1. ~((begin + 1) - 1 < p)
        BY <1>1, <2>4
      <3> QED BY <2>8, <2>9, <3>1 DEF NoneLeft
    <2>11. next \in 0 .. N /\ next \in end .. end + 1 /\ (next = end => end = N)
      BY <1>1, <2>4, <2>6
    <2> HIDE DEF next
    <2>12. /\ out \in [Index -> Char \cup {NUL}]
           /\ end \in Index /\ out[end] = NUL
           /\ \A i \in Index : i # end => out[i] = ln[i]
      <3>1. end \in Index
        BY <1>2, <2>4
      <3> QED BY <1>1, <3>1
    <2> HIDE DEF out
    <2>13. /\ Append(av, begin) \in Seq(Index)
           /\ Len(Append(av, begin)) = Len(av) + 1
           /\ \A k \in 1 .. Len(av) : Append(av, begin)[k] = av[k]
           /\ Append(av, begin)[Len(av) + 1] = begin
      <3>1. begin \in Index
        BY <1>2, <1>3
      <3> QED BY <1>1, <3>1, AppendProperties
    <2> DEFINE aw == Append(av, begin)
    <2> HIDE DEF aw
    <2>14. \A i \in Index : i >= next => out[i] = l[i]
      <3> SUFFICES ASSUME NEW i \in Index, i >= next
                   PROVE  out[i] = l[i]
        OBVIOUS
      <3>1. i \in Nat
        BY LineFacts
      <3>2. CASE i = end
        <4>1. end = N
          BY <2>4, <2>11, <3>1, <3>2
        <4>2. N \in p .. N /\ ln[N] = l[N] /\ ln[N] = NUL
          BY <1>1, <1>2
        <4> QED BY <2>12, <3>2, <4>1, <4>2
      <3>3. CASE i # end
        <4>1. i >= p
          BY <1>1, <2>4, <2>11, <3>1
        <4>2. ln[i] = l[i]
          BY <4>1 DEF Parsed
        <4> QED BY <2>12, <3>3, <4>2
      <3> QED BY <3>2, <3>3
    <2>15. next > 0 /\ next < N => s[next] = Blank
      <3> SUFFICES ASSUME next < N PROVE s[next] = Blank
        OBVIOUS
      <3>1. next = end + 1 /\ end < N
        BY <1>1, <2>4, <2>11
      <3> QED BY <2>7, <3>1
    <2>16. ASSUME NEW k \in 1 .. Len(av)
           PROVE  ArgumentIs(l, s, out, next, av[k]) /\ av[k] < begin /\ av[k] \in Nat
      <3>1. PICK a \in 1 .. N, b \in 1 .. N :
              /\ IsWord(s, a, b) /\ av[k] = a - 1 /\ b <= p /\ ln[b] = NUL
              /\ \A i \in a - 1 .. b - 1 : ln[i] = l[i]
        BY DEF Parsed, ArgumentIs
      <3>2. a <= b
        BY <3>1 DEF IsWord
      <3>3. b <= next /\ b # end /\ b \in Index /\ av[k] < begin /\ av[k] \in Nat
        BY <1>1, <2>4, <2>11, <3>1, <3>2, LineFacts
      <3>4. out[b] = NUL
        BY <2>12, <3>1, <3>3
      <3>5. ASSUME NEW i \in a - 1 .. b - 1 PROVE out[i] = l[i]
        <4>1. i \in Index /\ i # end
          BY <1>1, <2>4, <3>1, <3>3, LineFacts
        <4> QED BY <2>12, <3>1, <4>1
      <3> QED BY <3>1, <3>3, <3>4, <3>5 DEF ArgumentIs
    <2>17. ArgumentIs(l, s, out, next, begin)
      <3>1. end <= next /\ (begin + 1) - 1 = begin
        BY <2>4, <2>11
      <3>2. ASSUME NEW i \in begin .. end - 1 PROVE out[i] = l[i]
        <4>1. i \in p .. N /\ i # end
          BY <1>1, <2>4
        <4>2. i \in Index /\ ln[i] = l[i]
          BY <1>2, <4>1
        <4> QED BY <2>12, <4>1, <4>2
      <3>3. \A i \in (begin + 1) - 1 .. end - 1 : out[i] = l[i]
        BY <3>1, <3>2
      <3> QED BY <2>8, <2>9, <2>12, <3>1, <3>3 DEF ArgumentIs
    <2>18. \A k \in 1 .. Len(aw) : ArgumentIs(l, s, out, next, aw[k])
      <3> SUFFICES ASSUME NEW k \in 1 .. Len(aw)
                   PROVE  ArgumentIs(l, s, out, next, aw[k])
        OBVIOUS
      <3>1. k \in 1 .. Len(av) \/ k = Len(av) + 1
        BY <1>1, <2>13 DEF aw
      <3>2. CASE k \in 1 .. Len(av)
        BY <2>13, <2>16, <3>2 DEF aw
      <3>3. CASE k = Len(av) + 1
        BY <2>13, <2>17, <3>3 DEF aw
      <3> QED BY <3>1, <3>2, <3>3
    <2>19. \A j, k \in 1 .. Len(aw) : j < k => aw[j] < aw[k]
      <3> SUFFICES ASSUME NEW j \in 1 .. Len(aw), NEW k \in 1 .. Len(aw), j < k
                   PROVE  aw[j] < aw[k]
        OBVIOUS
      <3>1. j \in 1 .. Len(av) /\ (k \in 1 .. Len(av) \/ k = Len(av) + 1)
        BY <1>1, <2>13 DEF aw
      <3>2. CASE k \in 1 .. Len(av)
        <4>1. aw[j] = av[j] /\ aw[k] = av[k]
          BY <2>13, <3>1, <3>2 DEF aw
        <4>2. av[j] < av[k]
          BY <3>1, <3>2 DEF Parsed
        <4> QED BY <4>1, <4>2
      <3>3. CASE k = Len(av) + 1
        <4>1. aw[j] = av[j] /\ aw[k] = begin
          BY <2>13, <3>1, <3>3 DEF aw
        <4> QED BY <2>16, <3>1, <4>1
      <3> QED BY <3>1, <3>2, <3>3
    <2>20. ASSUME NEW a \in 1 .. N, NEW b \in 1 .. N, IsWord(s, a, b), a - 1 < next
           PROVE  \E k \in 1 .. Len(aw) : aw[k] = a - 1
      <3>1. CASE a - 1 < p
        <4>1. PICK k \in 1 .. Len(av) : av[k] = a - 1
          BY <2>20, <3>1 DEF Parsed
        <4>2. k \in 1 .. Len(aw) /\ aw[k] = a - 1
          BY <1>1, <2>13, <4>1 DEF aw
        <4> QED BY <4>2
      <3>2. CASE a - 1 = begin
        <4>1. Len(av) + 1 \in 1 .. Len(aw) /\ aw[Len(av) + 1] = a - 1
          BY <1>1, <2>13, <3>2 DEF aw
        <4> QED BY <4>1
      <3>3. CASE ~(a - 1 < p) /\ a - 1 < begin
        <4>1. a - 1 \in p .. begin - 1 /\ (a - 1) + 1 = a
          BY <1>1, <2>4, <3>3
        <4>2. s[a] = Blank
          BY <1>4, <4>1
        <4>3. a \in a .. b
          BY <2>20 DEF IsWord
        <4> QED BY <2>20, <4>2, <4>3 DEF IsWord
      <3>4. CASE a - 1 > begin
        <4>1. a - 1 \in begin + 1 .. end /\ a > 1
          BY <2>4, <2>11, <2>20, <3>4
        <4>2. s[a - 1] = Blank
          BY <2>20, <4>1 DEF IsWord
        <4> QED BY <2>5, <4>1, <4>2
      <3> QED BY <1>1, <2>4, <3>1, <3>2, <3>3, <3>4
    <2>21. Parsed(l, s, out, aw, next)
      <3>1. Len(aw) <= MaxArgs
        BY <1>1, <2>1, <2>13, LineFacts DEF aw
      <3>2. aw \in Seq(Index)
        BY <2>13 DEF aw
      <3> QED BY <2>11, <2>12, <2>14, <2>15, <2>18, <2>19, <2>20, <3>1, <3>2 DEF Parsed
    <2>22. token(x).line = out /\ token(x).argv = aw /\ token(x).p = next
      BY <2>2 DEF aw
    <2>23. Len(aw) = Len(av) + 1
      BY <2>13 DEF aw
    <2>24. token(x) = [line |-> token(x).line, argv |-> token(x).argv, p |-> token(x).p]
      BY <2>2, <2>22 DEF aw
    <2>25. Parsed(l, s, token(x).line, token(x).argv, token(x).p)
      BY <2>21, <2>22
    <2>26. Len(token(x).argv) = Len(av) + 1
      BY <2>22, <2>23
    <2> QED BY <2>1, <2>10, <2>24, <2>25, <2>26 DEF x
  <1> QED BY <1>5, <1>6, <1>7

\* The states of the parser, and what holds after n turns.
States(l, s) ==
  {x \in [line : [Index -> Char \cup {NUL}], argv : Seq(Index), p : 0 .. Len(s)] :
     Parsed(l, s, x.line, x.argv, x.p)}

\* The whole of parse: it ends where nothing is left, or with all the
\* arguments it takes.
LEMMA ParseEnds ==
  ASSUME NEW l, NEW s, Shows(l, s)
  PROVE  \E p : /\ Parsed(l, s, parse(l).line, parse(l).argv, p)
                /\ NoneLeft(s, p) \/ Len(parse(l).argv) = MaxArgs
PROOF
  <1> DEFINE X == States(l, s)
             a == [line |-> l, argv |-> <<>>, p |-> 0]
             g == [x \in X |-> token(x)]
             Progress(n, x) == NoneLeft(s, x.p) \/ Len(x.argv) = n
  <1>0. Len(s) \in Nat /\ 0 \in 0 .. Len(s) /\ MaxArgs \in Nat
    BY LineFacts, LenProperties DEF Shows
  <1>1. a \in X
    <2>1. Parsed(l, s, l, <<>>, 0)
      <3>1. l \in [Index -> Char \cup {NUL}] /\ <<>> \in Seq(Index) /\ Len(<<>>) = 0
        BY DEF Shows
      <3>2. \A b \in 1 .. Len(s) : ~(b - 1 < 0)
        BY <1>0
      <3> QED BY <1>0, <3>1, <3>2 DEF Parsed
    <2>2. l \in [Index -> Char \cup {NUL}] /\ <<>> \in Seq(Index)
      BY DEF Shows
    <2>3. a \in [line : [Index -> Char \cup {NUL}], argv : Seq(Index), p : 0 .. Len(s)]
      BY <1>0, <2>2
    <2>4. Parsed(l, s, a.line, a.argv, a.p)
      BY <2>1
    <2> HIDE DEF a
    <2> QED BY <2>3, <2>4 DEF States
  <1>2. ASSUME NEW x \in X
        PROVE  /\ token(x) \in X
               /\ x.argv \in Seq(Index) /\ Len(x.argv) \in Nat
               /\ \A n \in 0 .. MaxArgs - 1 : Progress(n, x) => Progress(n + 1, token(x))
    <2>1. /\ x = [line |-> x.line, argv |-> x.argv, p |-> x.p] /\ x.argv \in Seq(Index)
          /\ Parsed(l, s, x.line, x.argv, x.p)
      BY DEF States
    <2>2. Len(x.argv) \in Nat
      BY <2>1, LenProperties
    <2>3. \/ /\ token(x) = x
             /\ NoneLeft(s, x.p) \/ Len(x.argv) = MaxArgs
          \/ /\ token(x) = [line |-> token(x).line, argv |-> token(x).argv, p |-> token(x).p]
             /\ Parsed(l, s, token(x).line, token(x).argv, token(x).p)
             /\ Len(token(x).argv) = Len(x.argv) + 1 /\ Len(x.argv) < MaxArgs
             /\ ~NoneLeft(s, x.p)
      <3> DEFINE w == [line |-> x.line, argv |-> x.argv, p |-> x.p]
      <3>1. \/ /\ token(w) = w
               /\ NoneLeft(s, x.p) \/ Len(x.argv) = MaxArgs
            \/ /\ token(w) = [line |-> token(w).line, argv |-> token(w).argv, p |-> token(w).p]
               /\ Parsed(l, s, token(w).line, token(w).argv, token(w).p)
               /\ Len(token(w).argv) = Len(x.argv) + 1 /\ Len(x.argv) < MaxArgs
               /\ ~NoneLeft(s, x.p)
        BY <2>1, TokenParses
      <3>2. w = x
        BY <2>1
      <3> HIDE DEF w
      <3> QED BY <3>1, <3>2
    <2>4. CASE token(x) = x /\ (NoneLeft(s, x.p) \/ Len(x.argv) = MaxArgs)
      <3>1. \A n \in 0 .. MaxArgs - 1 : Progress(n, x) => NoneLeft(s, x.p)
        BY <1>0, <2>4
      <3> QED BY <2>1, <2>2, <2>4, <3>1
    <2>5. CASE /\ token(x) = [line |-> token(x).line, argv |-> token(x).argv, p |-> token(x).p]
               /\ Parsed(l, s, token(x).line, token(x).argv, token(x).p)
               /\ Len(token(x).argv) = Len(x.argv) + 1 /\ ~NoneLeft(s, x.p)
      <3>1. /\ token(x).line \in [Index -> Char \cup {NUL}] /\ token(x).argv \in Seq(Index)
            /\ token(x).p \in 0 .. Len(s)
        BY <2>5 DEF Parsed
      <3> DEFINE y == token(x)
      <3>2. y.line \in [Index -> Char \cup {NUL}] /\ y.argv \in Seq(Index) /\ y.p \in 0 .. Len(s)
            /\ y = [line |-> y.line, argv |-> y.argv, p |-> y.p]
            /\ Parsed(l, s, y.line, y.argv, y.p)
        BY <2>5, <3>1
      <3> HIDE DEF y
      <3>3. y \in [line : [Index -> Char \cup {NUL}], argv : Seq(Index), p : 0 .. Len(s)]
        BY <3>2
      <3>4. y \in X
        BY <3>2, <3>3 DEF States
      <3>5. \A n \in 0 .. MaxArgs - 1 : Progress(n, x) => Len(x.argv) = n
        BY <2>5
      <3>6. \A n \in 0 .. MaxArgs - 1 : Progress(n, x) => Len(y.argv) = n + 1
        BY <2>5, <3>5 DEF y
      <3> QED BY <2>1, <2>2, <3>4, <3>6 DEF y
    <2> QED BY <2>3, <2>4, <2>5
  <1> HIDE DEF X, a
  <1>3. g \in [X -> X]
    BY <1>2
  <1>4. \A x \in X : g[x] = token(x)
    OBVIOUS
  <1> HIDE DEF g
  <1> DEFINE Is(f) == f = [n \in 0 .. MaxArgs |-> IF n = 0 THEN a ELSE token(f[n - 1])]
             t == CHOOSE f : Is(f)
  <1>5. \E f \in [0 .. MaxArgs -> X] : Is(f)
    <2>1. PICK f \in [0 .. MaxArgs -> X] :
            f[0] = a /\ \A n \in 1 .. MaxArgs : f[n] = g[f[n - 1]]
      <3>1. Iterates(X, a, g, MaxArgs)
        BY <1>0, <1>1, <1>3, Iteration
      <3> QED BY <3>1 DEF Iterates
    <2>2. \A n \in 0 .. MaxArgs : f[n] = IF n = 0 THEN a ELSE token(f[n - 1])
      <3> SUFFICES ASSUME NEW n \in 0 .. MaxArgs
                   PROVE  f[n] = IF n = 0 THEN a ELSE token(f[n - 1])
        OBVIOUS
      <3>1. CASE n = 0
        BY <2>1, <3>1
      <3>2. CASE n # 0
        <4>1. n \in 1 .. MaxArgs /\ n - 1 \in 0 .. MaxArgs
          BY <1>0, <3>2
        <4>2. f[n - 1] \in X
          BY <4>1
        <4> QED BY <1>4, <2>1, <3>2, <4>1, <4>2
      <3> QED BY <3>1, <3>2
    <2>3. f = [n \in 0 .. MaxArgs |-> f[n]]
      OBVIOUS
    <2>4. Is(f)
      BY <2>2, <2>3
    <2> QED BY <2>4
  <1>6. Is(t)
    <2>1. \E f : Is(f)
      BY <1>5
    <2> HIDE DEF Is
    <2> QED BY <2>1
  <1>7. parse(l) = t[MaxArgs]
    BY DEF parse, a
  <1> HIDE DEF t
  <1>8. t[0] = a /\ \A n \in 1 .. MaxArgs : t[n] = token(t[n - 1])
    <2>1. 0 \in 0 .. MaxArgs /\ \A n \in 1 .. MaxArgs : n \in 0 .. MaxArgs /\ n # 0
      BY <1>0
    <2>2. \A n \in 0 .. MaxArgs : t[n] = IF n = 0 THEN a ELSE token(t[n - 1])
      BY <1>6
    <2> QED BY <2>1, <2>2
  <1> DEFINE S == {n \in Nat : n <= MaxArgs => t[n] \in X /\ Progress(n, t[n])}
  <1>9. 0 \in S
    <2>1. Progress(0, a)
      BY DEF a
    <2> QED BY <1>1, <1>8, <2>1
  <1>10. ASSUME NEW n \in Nat, n \in S PROVE n + 1 \in S
    <2> SUFFICES ASSUME n + 1 <= MaxArgs
                 PROVE  t[n + 1] \in X /\ Progress(n + 1, t[n + 1])
      OBVIOUS
    <2>1. n <= MaxArgs /\ n \in 0 .. MaxArgs - 1 /\ n + 1 \in 1 .. MaxArgs /\ (n + 1) - 1 = n
      BY <1>0
    <2>2. t[n] \in X /\ Progress(n, t[n])
      BY <1>10, <2>1
    <2>3. t[n + 1] = token(t[n])
      BY <1>8, <2>1
    <2> QED BY <1>2, <2>1, <2>2, <2>3
  <1> HIDE DEF S
  <1>11. Nat \subseteq S
    BY <1>9, <1>10, Induction
  <1>12. parse(l) \in X /\ Progress(MaxArgs, parse(l))
    BY <1>0, <1>7, <1>11 DEF S
  <1>13. Parsed(l, s, parse(l).line, parse(l).argv, parse(l).p)
    BY <1>12 DEF X, States
  <1> QED BY <1>12, <1>13

\* parse finds the first words of the text, and leaves them as C strings.
LEMMA ParseFinds ==
  ASSUME NEW l, NEW s, Shows(l, s)
  PROVE  /\ FirstWords(parse(l).line, parse(l).argv, s)
         /\ parse(l).line \in [Index -> Char \cup {NUL}]
PROOF
  <1>1. PICK p : /\ Parsed(l, s, parse(l).line, parse(l).argv, p)
                 /\ NoneLeft(s, p) \/ Len(parse(l).argv) = MaxArgs
    BY ParseEnds
  <1>2. PICK ln, av : ln = parse(l).line /\ av = parse(l).argv
    OBVIOUS
  <1>3. Parsed(l, s, ln, av, p) /\ (NoneLeft(s, p) \/ Len(av) = MaxArgs)
    BY <1>1, <1>2
  <1>4. /\ Len(s) \in Nat /\ Len(s) < LineSize /\ s \in Seq(Char) /\ p \in 0 .. Len(s)
        /\ ln \in [Index -> Char \cup {NUL}] /\ Len(av) <= MaxArgs
    BY <1>3, LenProperties DEF Shows, Parsed
  <1>5. ASSUME NEW k \in 1 .. Len(av)
        PROVE  \E a, b \in 1 .. Len(s) :
                 /\ IsWord(s, a, b) /\ av[k] = a - 1 /\ c_str(ln, av[k]) = SubSeq(s, a, b)
                 /\ av[k] < p
    <2>1. PICK a \in 1 .. Len(s), b \in 1 .. Len(s) :
            /\ IsWord(s, a, b) /\ av[k] = a - 1 /\ b <= p /\ ln[b] = NUL
            /\ \A i \in a - 1 .. b - 1 : ln[i] = l[i]
      BY <1>3 DEF Parsed, ArgumentIs
    <2>2. a <= b /\ a - 1 \in Nat /\ b \in a - 1 .. LineSize - 1 /\ b \in Nat /\ a \in Nat
      BY <1>4, <2>1, LineFacts DEF IsWord
    <2>3. \A i \in a - 1 .. b - 1 : ln[i] = s[i + 1] /\ s[i + 1] \in Char /\ ln[i] # NUL
      <3> SUFFICES ASSUME NEW i \in a - 1 .. b - 1
                   PROVE  ln[i] = s[i + 1] /\ s[i + 1] \in Char /\ ln[i] # NUL
        OBVIOUS
      <3>1. i \in 0 .. Len(s) /\ i < Len(s)
        BY <1>4, <2>2
      <3>2. l[i] = s[i + 1] /\ s[i + 1] \in Char /\ l[i] # NUL
        BY <3>1, ShownAt
      <3> QED BY <2>1, <3>2
    <2>4. next_in(ln, a - 1, {NUL}) = b
      <3>1. /\ next_in(ln, a - 1, {NUL}) \in a - 1 .. b
            /\ ln[next_in(ln, a - 1, {NUL})] \in {NUL}
        BY <2>1, <2>2, NextIn
      <3> QED BY <2>2, <2>3, <3>1
    <2>5. c_str(ln, av[k]) = [i \in 1 .. b - (a - 1) |-> ln[(a - 1) + i - 1]]
      BY <2>1, <2>4 DEF c_str
    <2>6. SubSeq(s, a, b) = [i \in 1 .. b - (a - 1) |-> ln[(a - 1) + i - 1]]
      <3>1. \A i \in a .. b : s[i] \in Char
        <4>1. \A i \in a .. b : i - 1 \in a - 1 .. b - 1 /\ (i - 1) + 1 = i
          BY <2>2
        <4> QED BY <2>3, <4>1
      <3>2. /\ SubSeq(s, a, b) \in Seq(Char) /\ Len(SubSeq(s, a, b)) = b - a + 1
            /\ \A i \in 1 .. b - a + 1 : SubSeq(s, a, b)[i] = s[a + i - 1]
        BY <2>2, <3>1, SubSeqProperties
      <3>3. PICK m \in Nat : m = b - a + 1 /\ m = b - (a - 1)
        BY <2>2
      <3>4. SubSeq(s, a, b) = [i \in 1 .. m |-> SubSeq(s, a, b)[i]]
        BY <3>2, <3>3, LenProperties
      <3>5. \A i \in 1 .. m : SubSeq(s, a, b)[i] = ln[(a - 1) + i - 1]
        <4> SUFFICES ASSUME NEW i \in 1 .. m
                     PROVE  SubSeq(s, a, b)[i] = ln[(a - 1) + i - 1]
          OBVIOUS
        <4>1. PICK q \in a - 1 .. b - 1 : q = (a - 1) + i - 1 /\ q + 1 = a + i - 1
          BY <2>2, <3>3
        <4>2. ln[q] = s[q + 1]
          BY <2>3
        <4>3. SubSeq(s, a, b)[i] = s[a + i - 1]
          BY <3>2, <3>3
        <4> QED BY <4>1, <4>2, <4>3, Zenon
      <3> QED BY <3>3, <3>4, <3>5
    <2>7. av[k] < p
      BY <1>4, <2>1, <2>2
    <2> QED BY <2>1, <2>5, <2>6, <2>7
  <1>6. ASSUME NEW a \in 1 .. Len(s), NEW b \in 1 .. Len(s), IsWord(s, a, b)
        PROVE  \/ \E k \in 1 .. Len(av) : av[k] = a - 1
               \/ Len(av) = MaxArgs /\ \A k \in 1 .. Len(av) : av[k] < a - 1
    <2>1. CASE a - 1 < p
      BY <1>3, <1>6, <2>1 DEF Parsed
    <2>2. CASE ~(a - 1 < p)
      <3>1. Len(av) = MaxArgs
        BY <1>3, <1>6, <2>2 DEF NoneLeft
      <3>2. ASSUME NEW k \in 1 .. Len(av) PROVE av[k] < a - 1
        <4>1. PICK c \in 1 .. Len(s) : av[k] = c - 1 /\ av[k] < p
          BY <1>5
        <4> QED BY <1>4, <2>2, <4>1
      <3> QED BY <3>1, <3>2
    <2> QED BY <2>1, <2>2
  <1>7. \A j, k \in 1 .. Len(av) : j < k => av[j] < av[k]
    BY <1>3 DEF Parsed
  <1>8. \A k \in 1 .. Len(av) : \E a, b \in 1 .. Len(s) :
          IsWord(s, a, b) /\ av[k] = a - 1 /\ c_str(ln, av[k]) = SubSeq(s, a, b)
    BY <1>5
  <1>9. FirstWords(ln, av, s)
    BY <1>4, <1>6, <1>7, <1>8 DEF FirstWords
  <1> QED BY <1>2, <1>4, <1>9

-----------------------------------------------------------------------------
(* What a step does to one frame.                                          *)

\* What tasks do that neither creates d nor awaits it.
StepBeside(d) ==
  \/ RunOnce
  \/ \E f \in Frame :
       Yield(f) \/ Sleep(f) \/ Wait(f) \/ Expire(f) \/ Wake(f) \/ Return(f)
  \/ \E x \in Frame \cup {App}, f \in Frame :
       \/ f # d /\ Create(x, f)
       \/ Start(x, f) \/ StartPlain(x, f) \/ Destroy(x, f)
  \/ \E f, g \in Frame : g # d /\ Await(f, g)

\* Such a step may end d; if it does not, who awaits d does so afterwards.
LEMMA KeptBeside ==
  ASSUME IInv, NEW d \in Frame, StepBeside(d), Exists(d)'
  PROVE  Exists(d) /\ continuation'[d] = continuation[d]
PROOF
  <1>1. /\ TypeOK /\ QueuesHoldSuspended /\ HoldersExist /\ AwaitedByOne /\ ControlRuns
        /\ point \in [Frame -> Point] /\ continuation \in [Frame -> Frame \cup {NoFrame}]
        /\ point'[d] # "absent"
    BY DEF IInv, NothingDangles, TypeOK, Exists
  <1>2. CASE RunOnce
    <2>1. readyQueue \in Seq(Frame \ Plain) /\ readyQueue # <<>>
      BY <1>1, <1>2 DEF RunOnce, TypeOK
    <2>2. Head(readyQueue) \in Range(readyQueue)
      <3>1. 1 \in DOMAIN readyQueue /\ Head(readyQueue) = readyQueue[1]
        BY <2>1, HeadTailProperties, LenProperties, EmptySeq
      <3> QED BY <3>1 DEF Range
    <2>3. \A h \in Frame : h \in Range(readyQueue) => point[h] # "absent"
      BY <1>1 DEF QueuesHoldSuspended
    <2> QED BY <1>1, <1>2, <2>2, <2>3 DEF RunOnce, Exists
  <1>3. CASE \E f \in Frame : Yield(f) \/ Sleep(f) \/ Wait(f)
    <2>1. PICK f \in Frame : running = f /\ continuation' = continuation
                             /\ \E w \in Point : point' = [point EXCEPT ![f] = w]
      BY <1>3 DEF Yield, Sleep, Wait, suspend, Point
    <2>2. point[f] = "running"
      BY <2>1, RunningFacts
    <2> QED BY <1>1, <2>1, <2>2 DEF Exists
  <1>4. CASE \E f \in Frame : Expire(f) \/ Wake(f)
    BY <1>1, <1>4 DEF Expire, Wake, frameVars, Exists
  <1>5. CASE \E f \in Frame : ReturnToResumer(f)
    <2>1. PICK f \in Frame : ReturnToResumer(f)
      BY <1>5
    <2>2. point[f] = "running"
      BY <2>1, RunningFacts DEF ReturnToResumer, BodyEnds
    <2>3. point'[d] = IF d = f THEN "final" ELSE IF d \in Locals(f) THEN "absent" ELSE point[d]
      BY <2>1 DEF ReturnToResumer, without
    <2> QED BY <1>1, <2>1, <2>2, <2>3 DEF ReturnToResumer, Exists
  <1>6. CASE \E f \in Frame : ReturnToParent(f)
    <2>1. PICK f \in Frame : ReturnToParent(f)
      BY <1>6
    <2>2. point[f] = "running"
      BY <2>1, RunningFacts DEF ReturnToParent, BodyEnds
    <2> DEFINE c == continuation[f]
    <2>3. c \in Frame /\ point[c] = "await"
      BY <1>1, <2>1 DEF ReturnToParent, AwaitedByOne
    <2>4. c \notin buried(f)
      <3>1. c # f
        BY <2>2, <2>3
      <3>2. \A g \in Locals(f) : done(g) \/ fresh(g)
        BY <2>1, TaskAssumption DEF TaskAssumption, ReturnToParent, BodyEnds, MayDestroy, Locals
      <3> QED BY <2>3, <3>1, <3>2 DEF buried, done, fresh
    <2>5. /\ point'[d] = IF d = c THEN "running" ELSE IF d \in buried(f) THEN "absent" ELSE point[d]
          /\ continuation'[d] = IF d \in buried(f) THEN NoFrame ELSE continuation[d]
      BY <2>1 DEF ReturnToParent, without
    <2> HIDE DEF c
    <2> QED BY <1>1, <2>3, <2>4, <2>5 DEF Exists
  <1>7. CASE \E x \in Frame \cup {App}, f \in Frame : f # d /\ Create(x, f)
    BY <1>1, <1>7 DEF Create, Exists
  <1>8. CASE \E x \in Frame \cup {App}, f \in Frame : Start(x, f)
    BY <1>1, <1>8 DEF Start, frameVars, Exists
  <1>9. CASE \E x \in Frame \cup {App}, f \in Frame : StartPlain(x, f)
    BY <1>1, <1>9 DEF StartPlain, fresh, Exists
  <1>10. CASE \E x \in Frame \cup {App}, f \in Frame : Destroy(x, f)
    BY <1>1, <1>10 DEF Destroy, without, Exists
  <1>11. CASE \E f, g \in Frame : g # d /\ Await(f, g)
    <2>1. PICK f \in Frame, g \in Frame : g # d /\ Await(f, g)
      BY <1>11
    <2>2. point[f] = "running" /\ point[g] = "initial"
      BY <2>1, RunningFacts DEF Await, fresh
    <2> QED BY <1>1, <2>1, <2>2 DEF Await, continues_with, Exists
  <1> QED BY <1>2, <1>3, <1>4, <1>5, <1>6, <1>7, <1>8, <1>9, <1>10, <1>11 DEF StepBeside, Return

\* While dispatch exists, the console is about to await it or awaits it.
DispatchAwaited ==
  Exists(disp) => \/ pc = "dispatch"
                  \/ pc = "dispatched" /\ continuation[disp] = con

\* What the console itself does beside calling dispatch and awaiting it, and
\* what everyone else does, is beside dispatch.
LEMMA BesideDispatch ==
  ASSUME [ConsoleNext]_vars, ~EnterCommand, ~AwaitDispatch
  PROVE  StepBeside(disp) \/ UNCHANGED taskVars
PROOF
  <1>1. /\ con \in Frame /\ disp \in Frame /\ cmd \in Frame /\ con # disp /\ cmd # disp
        /\ Calls \subseteq ((Frame \ Plain) \cup {App}) \X (Frame \ {con, disp, cmd})
    BY ConsoleAssumption DEF ConsoleAssumption
  <1>2. CASE CallRun \/ CallHandler
    <2>1. \E x \in Frame \cup {App}, f \in Frame : f # disp /\ Create(x, f)
      BY <1>1, <1>2 DEF CallRun, CallHandler
    <2> QED BY <2>1 DEF StepBeside
  <1>3. CASE ReceiveSuspends \/ Flush
    BY <1>1, <1>3 DEF ReceiveSuspends, Flush, StepBeside
  <1>4. CASE FlushEnds
    BY <1>1, <1>4 DEF FlushEnds, StepBeside
  <1>5. CASE AwaitHandler
    BY <1>1, <1>5 DEF AwaitHandler, StepBeside
  <1>6. CASE DispatchReturns
    BY <1>1, <1>6 DEF DispatchReturns, StepBeside
  <1>7. CASE ReceiveFails \/ EnterEmpty \/ Dispatched \/ Backspace
    BY <1>7 DEF ReceiveFails, EnterEmpty, Dispatched, Backspace
  <1>8. CASE \E c \in Letter \cup {Blank, NUL} : Type(c)
    BY <1>8 DEF Type
  <1>9. CASE \E n \in Message : Lookup(n)
    BY <1>9 DEF Lookup
  <1>10. CASE \E n \in Message : SomeonePrints(n)
    BY <1>10 DEF SomeonePrints
  <1>11. CASE OtherStep
    <2>1. Other \subseteq Frame /\ disp \notin Other
      BY DEF Other
    <2>2. CASE RunOnce \/ \E f \in Frame : Expire(f) \/ Wake(f)
      BY <2>2 DEF StepBeside
    <2>3. CASE \E f \in Other : Yield(f) \/ Sleep(f) \/ Wait(f) \/ Return(f)
      BY <2>1, <2>3 DEF StepBeside
    <2>4. CASE \E x \in Other \cup {App}, f \in Frame : <<x, f>> \in Calls /\ Create(x, f)
      <3>1. \E x \in Frame \cup {App}, f \in Frame : f # disp /\ Create(x, f)
        BY <1>1, <2>1, <2>4
      <3> QED BY <3>1 DEF StepBeside
    <2>5. CASE \E x \in Other \cup {App}, f \in Frame :
                  Start(x, f) \/ StartPlain(x, f) \/ Destroy(x, f)
      BY <2>1, <2>5 DEF StepBeside
    <2>6. CASE \E f, g \in Other : Await(f, g)
      BY <2>1, <2>6 DEF StepBeside
    <2> QED BY <1>11, <2>2, <2>3, <2>4, <2>5, <2>6 DEF OtherStep
  <1>12. CASE UNCHANGED vars
    BY <1>12 DEF vars
  <1> QED BY <1>2, <1>3, <1>4, <1>5, <1>6, <1>7, <1>8, <1>9, <1>10, <1>11, <1>12
          DEF ConsoleNext, ConsoleStep

\* When the console goes on after dispatch, dispatch is gone.
LEMMA GoneWhenDispatched ==
  ASSUME IInv, DispatchAwaited, running = con, pc \in {"dispatched", "receive", "received", "none"}
  PROVE  ~Exists(disp)
PROOF
  <1>1. con \in Frame /\ disp \in Frame /\ con # NoFrame
    BY ConsoleAssumption, TaskAssumption DEF ConsoleAssumption, TaskAssumption
  <1>2. point[con] = "running"
    BY <1>1, RunningFacts
  <1>3. AwaitedByOne
    BY DEF IInv, NothingDangles
  <1>4. continuation[disp] # con
    BY <1>1, <1>2, <1>3 DEF AwaitedByOne
  <1> QED BY <1>4 DEF DispatchAwaited

\* The line editor holds the keys s: NULs may be among them.
Holds(l, s) ==
  /\ l \in [Index -> Char \cup {NUL}] /\ s \in Seq(Char \cup {NUL}) /\ Len(s) < LineSize
  /\ \A i \in 1 .. Len(s) : l[i - 1] = s[i]
  /\ l[Len(s)] = NUL

\* Up to the first NUL the line shows the text.
LEMMA HeldIsShown ==
  ASSUME NEW l, NEW s, Holds(l, s)
  PROVE  Shows(l, string(s))
PROOF
  <1> DEFINE N == Len(s)
             S == {i \in 1 .. N + 1 : i = N + 1 \/ s[i] = NUL}
  <1>1. /\ N \in Nat /\ N < LineSize /\ s \in Seq(Char \cup {NUL})
        /\ \A i \in 1 .. N : s[i] \in Char \cup {NUL} /\ l[i - 1] = s[i]
        /\ l[N] = NUL /\ l \in [Index -> Char \cup {NUL}]
    <2>1. s \in Seq(Char \cup {NUL})
      BY DEF Holds
    <2>2. N \in Nat /\ \A i \in 1 .. N : s[i] \in Char \cup {NUL}
      BY <2>1, LenProperties, ElementOfSeq
    <2> QED BY <2>1, <2>2 DEF Holds
  <1>2. S \in SUBSET Nat /\ S # {}
    <2>1. N + 1 \in S
      BY <1>1
    <2> QED BY <1>1, <2>1
  <1>3. PICK m \in S : \A y \in S : m <= y
    BY <1>2, HasLeast
  <1>4. Min(S) = m
    BY <1>2, <1>3, MinIs
  <1>5. m \in 1 .. N + 1 /\ (m = N + 1 \/ s[m] = NUL) /\ m - 1 \in 0 .. N /\ m \in Nat
    BY <1>1, <1>3
  <1>6. ASSUME NEW i \in 1 .. m - 1 PROVE i \in 1 .. N /\ s[i] \in Char
    <2>1. i \in 1 .. N /\ i \in 1 .. N + 1 /\ ~(m <= i)
      BY <1>1, <1>5
    <2>2. s[i] # NUL
      BY <1>3, <2>1
    <2> QED BY <1>1, <2>1, <2>2
  <1>7. string(s) = SubSeq(s, 1, m - 1)
    BY <1>4 DEF string
  <1> HIDE DEF N, S
  <1> DEFINE k == m - 1
             t == SubSeq(s, 1, k)
  <1>8. k \in Nat /\ \A i \in 1 .. k : s[i] \in Char
    BY <1>5, <1>6
  <1> HIDE DEF k
  <1>9. t \in Seq(Char) /\ Len(t) = k /\ \A i \in 1 .. k : t[i] = s[i]
    <2>1. /\ t \in Seq(Char)
          /\ Len(t) = IF 1 <= k THEN k - 1 + 1 ELSE 0
          /\ \A i \in 1 .. k - 1 + 1 : t[i] = s[1 + i - 1]
      BY <1>8, SubSeqProperties
    <2> HIDE DEF t
    <2>2. k - 1 + 1 = k /\ \A i \in 1 .. k : 1 + i - 1 = i
      BY <1>8
    <2> QED BY <1>8, <2>1, <2>2
  <1> HIDE DEF t
  <1>10. \A i \in 1 .. k : l[i - 1] = t[i]
    BY <1>1, <1>6, <1>9 DEF k
  <1>11. l[k] = NUL
    <2>1. CASE m = N + 1
      <3>1. k = N
        BY <1>1, <2>1 DEF k
      <3> QED BY <1>1, <3>1
    <2>2. CASE m # N + 1
      <3>1. m \in 1 .. N /\ s[m] = NUL
        BY <1>1, <1>5, <2>2
      <3> QED BY <1>1, <3>1 DEF k
    <2> QED BY <2>1, <2>2
  <1>12. k < LineSize
    BY <1>1, <1>5, LineFacts DEF k
  <1>13. Shows(l, t)
    BY <1>1, <1>9, <1>10, <1>11, <1>12 DEF Shows
  <1> QED BY <1>7, <1>13 DEF t, k

\* The line holds the text while it is edited; the arguments are the first
\* words of the text as long as dispatch exists.
LineTyped ==
  /\ line \in [Index -> Char \cup {NUL}]
  /\ pc \notin {"dispatch", "dispatched"} => Holds(line, text) /\ pos = Len(text)

ArgumentsInv == DispatchAwaited /\ LineTyped /\ ArgumentsAsTyped

\* A line that is edited goes on to hold its text.
LEMMA EditHolds ==
  ASSUME Holds(line, text), pos = Len(text)
  PROVE  /\ \A c \in Char \cup {NUL} : Type(c) => Holds(line', text') /\ pos' = Len(text')
         /\ Backspace => Holds(line', text') /\ pos' = Len(text')
PROOF
  <1> DEFINE N == Len(text)
  <1>1. /\ line \in [Index -> Char \cup {NUL}] /\ text \in Seq(Char \cup {NUL}) /\ N < LineSize
        /\ N \in Nat /\ pos = N
        /\ line[N] = NUL /\ \A i \in 1 .. N : line[i - 1] = text[i] /\ text[i] \in Char \cup {NUL}
    <2>1. text \in Seq(Char \cup {NUL})
      BY DEF Holds
    <2>2. N \in Nat /\ \A i \in 1 .. N : text[i] \in Char \cup {NUL}
      BY <2>1, LenProperties, ElementOfSeq
    <2> QED BY <2>1, <2>2 DEF Holds
  <1>2. LineSize \in Nat /\ Index = 0 .. LineSize - 1
    BY LineFacts
  <1> HIDE DEF N
  <1>3. ASSUME NEW c \in Char \cup {NUL}, Type(c) PROVE Holds(line', text') /\ pos' = Len(text')
    <2>1. CASE N >= LineSize - 1
      <3>1. line' = line /\ pos' = pos /\ text' = text
        BY <1>1, <1>2, <1>3, <2>1 DEF Type, append, N
      <3> QED BY <3>1
    <2>2. CASE ~(N >= LineSize - 1)
      <3>1. /\ line' = [line EXCEPT ![N] = c, ![N + 1] = NUL] /\ pos' = N + 1
            /\ text' = Append(text, c)
        BY <1>1, <1>2, <1>3, <2>2 DEF Type, append, N
      <3>2. N \in Index /\ N + 1 \in Index /\ N + 1 < LineSize /\ N # N + 1
        BY <1>1, <1>2, <2>2
      <3>3. /\ line' \in [Index -> Char \cup {NUL}] /\ line'[N] = c /\ line'[N + 1] = NUL
            /\ \A i \in Index : i # N /\ i # N + 1 => line'[i] = line[i]
        BY <1>1, <3>1, <3>2
      <3>4. /\ text' \in Seq(Char \cup {NUL}) /\ Len(text') = N + 1 /\ text'[N + 1] = c
            /\ \A i \in 1 .. N : text'[i] = text[i]
        BY <1>1, <1>3, <3>1, AppendProperties DEF N
      <3>5. ASSUME NEW i \in 1 .. N + 1 PROVE line'[i - 1] = text'[i]
        <4>1. CASE i = N + 1
          <5>1. i - 1 = N
            BY <1>1, <4>1
          <5> QED BY <3>3, <3>4, <4>1, <5>1
        <4>2. CASE i # N + 1
          <5>1. i \in 1 .. N /\ i - 1 \in Index /\ i - 1 # N /\ i - 1 # N + 1
            BY <1>1, <1>2, <3>2, <4>2
          <5> QED BY <1>1, <3>3, <3>4, <5>1
        <4> QED BY <4>1, <4>2
      <3> QED BY <3>1, <3>2, <3>3, <3>4, <3>5 DEF Holds
    <2> QED BY <2>1, <2>2
  <1>4. ASSUME Backspace PROVE Holds(line', text') /\ pos' = Len(text')
    <2>1. CASE N = 0
      <3>1. text = <<>>
        BY <1>1, <2>1, EmptySeq, LenProperties DEF N
      <3>2. line' = line /\ pos' = pos /\ text' = text
        BY <1>1, <1>4, <2>1, <3>1 DEF Backspace, backspace
      <3> QED BY <3>2
    <2>2. CASE N # 0
      <3>1. text # <<>>
        BY <1>1, <2>2, EmptySeq DEF N
      <3>2. line' = [line EXCEPT ![N - 1] = NUL] /\ pos' = N - 1 /\ text' = Front(text)
        BY <1>1, <1>4, <2>2, <3>1 DEF Backspace, backspace
      <3>3. N - 1 \in Index /\ N - 1 \in Nat /\ N - 1 < LineSize
        BY <1>1, <1>2, <2>2
      <3>4. /\ text' \in Seq(Char \cup {NUL}) /\ Len(text') = N - 1
            /\ \A i \in 1 .. N - 1 : text'[i] = text[i]
        <4>1. Front(text) = SubSeq(text, 1, N - 1)
          BY DEF Front, N
        <4>2. \A i \in 1 .. N - 1 : text[i] \in Char \cup {NUL}
          BY <1>1
        <4>3. /\ SubSeq(text, 1, N - 1) \in Seq(Char \cup {NUL})
              /\ Len(SubSeq(text, 1, N - 1)) = IF 1 <= N - 1 THEN N - 1 - 1 + 1 ELSE 0
              /\ \A i \in 1 .. N - 1 - 1 + 1 : SubSeq(text, 1, N - 1)[i] = text[1 + i - 1]
          BY <1>1, <4>2, SubSeqProperties
        <4> QED BY <1>1, <2>2, <3>2, <4>1, <4>3
      <3>5. /\ line' \in [Index -> Char \cup {NUL}] /\ line'[N - 1] = NUL
            /\ \A i \in Index : i # N - 1 => line'[i] = line[i]
        BY <1>1, <3>2, <3>3
      <3>6. ASSUME NEW i \in 1 .. N - 1 PROVE line'[i - 1] = text'[i]
        <4>1. i \in 1 .. N /\ i - 1 \in Index /\ i - 1 # N - 1
          BY <1>1, <1>2
        <4> QED BY <1>1, <3>4, <3>5, <4>1
      <3> QED BY <3>2, <3>3, <3>4, <3>5, <3>6 DEF Holds
    <2> QED BY <2>1, <2>2
  <1> QED BY <1>3, <1>4

\* An empty line holds the empty text.
LEMMA ClearHolds ==
  ASSUME NEW l \in [Index -> Char \cup {NUL}]
  PROVE  Holds([l EXCEPT ![0] = NUL], <<>>)
PROOF
  <1>1. 0 \in Index /\ 0 < LineSize
    BY LineFacts
  <1>2. <<>> \in Seq(Char \cup {NUL}) /\ Len(<<>>) = 0
    BY EmptySeq
  <1> QED BY <1>1, <1>2 DEF Holds

LEMMA InitArguments == ConsoleInit => ArgumentsInv
PROOF
  <1> SUFFICES ASSUME ConsoleInit PROVE ArgumentsInv
    OBVIOUS
  <1>1. ~Exists(disp)
    BY ConsoleAssumption DEF ConsoleInit, Init, Exists, ConsoleAssumption
  <1>2. PICK c \in Letter : line = [i \in Index |-> IF i = 0 THEN NUL ELSE c]
    BY DEF ConsoleInit
  <1>3. line \in [Index -> Char \cup {NUL}] /\ line = [line EXCEPT ![0] = NUL]
    BY <1>2, LineFacts DEF Char
  <1>4. Holds(line, <<>>)
    BY <1>3, ClearHolds
  <1>5. text = <<>> /\ pos = 0 /\ Len(<<>>) = 0
    BY EmptySeq DEF ConsoleInit
  <1> QED BY <1>1, <1>3, <1>4, <1>5 DEF ArgumentsInv, DispatchAwaited, LineTyped, ArgumentsAsTyped

\* The arguments are set when dispatch is called; no step changes them, or the
\* line they are in, until dispatch is gone.
LEMMA StepArguments == IInv /\ ArgumentsInv /\ [ConsoleNext]_vars => ArgumentsInv'
PROOF
  <1> SUFFICES ASSUME IInv, ArgumentsInv, [ConsoleNext]_vars PROVE ArgumentsInv'
    OBVIOUS
  <1>1. /\ DispatchAwaited /\ ArgumentsAsTyped
        /\ line \in [Index -> Char \cup {NUL}]
        /\ pc \notin {"dispatch", "dispatched"} => Holds(line, text) /\ pos = Len(text)
    BY DEF ArgumentsInv, LineTyped
  <1>2. con \in Frame /\ disp \in Frame /\ con # disp
    BY ConsoleAssumption DEF ConsoleAssumption
  <1>3. CASE EnterCommand
    <2>1. Shows(line, string(text))
      <3>1. Holds(line, text)
        BY <1>1, <1>3 DEF EnterCommand, KeyRead, at
      <3> QED BY <3>1, HeldIsShown
    <2>2. /\ line' = parse(line).line /\ argv' = parse(line).argv
          /\ UNCHANGED text /\ pc' = "dispatch"
      BY <1>3 DEF EnterCommand
    <2>3. /\ FirstWords(parse(line).line, parse(line).argv, string(text))
          /\ parse(line).line \in [Index -> Char \cup {NUL}]
      BY <2>1, ParseFinds
    <2>4. line' \in [Index -> Char \cup {NUL}] /\ FirstWords(line', argv', string(text'))
      BY <2>2, <2>3
    <2> QED BY <2>2, <2>4 DEF ArgumentsInv, DispatchAwaited, LineTyped, ArgumentsAsTyped
  <1>4. CASE AwaitDispatch
    <2>1. /\ continuation' = [continuation EXCEPT ![disp] = con] /\ Exists(disp)
          /\ pc' = "dispatched" /\ UNCHANGED lineVars
      BY <1>4 DEF AwaitDispatch, Await, fresh, continues_with, Exists
    <2>2. continuation \in [Frame -> Frame \cup {NoFrame}]
      BY DEF IInv, TypeOK
    <2>3. continuation'[disp] = con
      BY <1>2, <2>1, <2>2
    <2>4. FirstWords(line, argv, string(text))
      BY <1>1, <2>1 DEF ArgumentsAsTyped
    <2>5. FirstWords(line', argv', string(text')) /\ line' \in [Index -> Char \cup {NUL}]
      BY <1>1, <2>1, <2>4 DEF lineVars
    <2> QED BY <2>1, <2>3, <2>5 DEF ArgumentsInv, DispatchAwaited, LineTyped, ArgumentsAsTyped
  <1>5. CASE ~EnterCommand /\ ~AwaitDispatch
    <2>1. Exists(disp)' => Exists(disp) /\ continuation'[disp] = continuation[disp]
      <3>1. StepBeside(disp) \/ UNCHANGED taskVars
        BY <1>5, BesideDispatch
      <3>2. CASE UNCHANGED taskVars
        BY <3>2 DEF taskVars, frameVars, Exists
      <3> QED BY <1>2, <3>1, <3>2, KeptBeside
    <2>2. CASE \E c \in Letter \cup {Blank, NUL} : Type(c)
      <3>1. PICK c \in Char \cup {NUL} : Type(c)
        BY <2>2 DEF Char
      <3>2. /\ running = con /\ pc \in {"receive", "received"} /\ pc' = "flush"
        BY <3>1 DEF Type, KeyRead, at
      <3>3. Holds(line', text') /\ pos' = Len(text')
        BY <1>1, <3>1, <3>2, EditHolds
      <3>4. ~Exists(disp)'
        BY <1>1, <2>1, <3>2, GoneWhenDispatched
      <3> QED BY <3>3, <3>4 DEF ArgumentsInv, DispatchAwaited, LineTyped, ArgumentsAsTyped, Holds
    <2>3. CASE Backspace
      <3>1. /\ running = con /\ pc \in {"receive", "received"} /\ pc' = "flush"
        BY <2>3 DEF Backspace, KeyRead, at
      <3>2. Holds(line', text') /\ pos' = Len(text')
        BY <1>1, <2>3, <3>1, EditHolds
      <3>3. ~Exists(disp)'
        BY <1>1, <2>1, <3>1, GoneWhenDispatched
      <3> QED BY <3>2, <3>3 DEF ArgumentsInv, DispatchAwaited, LineTyped, ArgumentsAsTyped, Holds
    <2>4. CASE EnterEmpty \/ Dispatched
      <3>1. /\ running = con /\ pc \in {"receive", "received", "dispatched"} /\ pc' = "flush"
            /\ line' = [line EXCEPT ![0] = NUL] /\ pos' = 0 /\ text' = <<>>
        BY <2>4 DEF EnterEmpty, Dispatched, KeyRead, at, clear
      <3>2. Holds(line', text')
        BY <1>1, <3>1, ClearHolds
      <3>3. pos' = Len(text')
        BY <3>1, EmptySeq
      <3>4. ~Exists(disp)'
        BY <1>1, <2>1, <3>1, GoneWhenDispatched
      <3> QED BY <3>2, <3>3, <3>4
              DEF ArgumentsInv, DispatchAwaited, LineTyped, ArgumentsAsTyped, Holds
    <2>5. CASE /\ UNCHANGED lineVars
               /\ \/ UNCHANGED pc
                  \/ running = con /\ pc \in {"none", "receive", "received"}
                     /\ pc' \notin {"dispatch", "dispatched"}
                  \/ pc = "none" /\ pc' = "receive"
                  \/ pc = "flush" /\ pc' = "receive"
      <3>1. line' = line /\ argv' = argv /\ text' = text /\ pos' = pos
        BY <2>5 DEF lineVars
      <3>2. LineTyped'
        <4>1. Holds(line, text) => Holds(line', text')
          BY <3>1
        <4>2. pos' = Len(text') <=> pos = Len(text)
          BY <3>1
        <4>3. pc' \notin {"dispatch", "dispatched"} => pc \notin {"dispatch", "dispatched"}
          BY <2>5
        <4> QED BY <1>1, <3>1, <4>1, <4>2, <4>3 DEF LineTyped
      <3>3. DispatchAwaited'
        <4>1. CASE UNCHANGED pc
          BY <1>1, <2>1, <4>1 DEF DispatchAwaited
        <4>2. CASE pc \in {"none", "flush"} \/ pc \in {"receive", "received"}
          BY <1>1, <2>1, <4>2 DEF DispatchAwaited
        <4> QED BY <2>5, <4>1, <4>2
      <3>4. ArgumentsAsTyped'
        <4>1. FirstWords(line, argv, string(text)) => FirstWords(line', argv', string(text'))
          BY <3>1
        <4> QED BY <1>1, <2>1, <4>1 DEF ArgumentsAsTyped
      <3> QED BY <3>2, <3>3, <3>4 DEF ArgumentsInv
    <2>6. CASE CallRun
      BY <2>5, <2>6 DEF CallRun
    <2>7. CASE ReceiveSuspends \/ ReceiveFails
      BY <2>5, <2>7 DEF ReceiveSuspends, ReceiveFails, at
    <2>8. CASE Flush \/ FlushEnds
      BY <2>5, <2>8 DEF Flush, FlushEnds, at
    <2>9. CASE (\E n \in Message : Lookup(n)) \/ CallHandler \/ AwaitHandler \/ DispatchReturns
      BY <2>5, <2>9 DEF Lookup, CallHandler, AwaitHandler, DispatchReturns
    <2>10. CASE OtherStep \/ \E n \in Message : SomeonePrints(n)
      BY <2>5, <2>10 DEF OtherStep, SomeonePrints, consoleVars
    <2>11. CASE UNCHANGED vars
      BY <2>5, <2>11 DEF vars
    <2> QED BY <1>5, <2>2, <2>3, <2>4, <2>6, <2>7, <2>8, <2>9, <2>10, <2>11
            DEF ConsoleNext, ConsoleStep
  <1> QED BY <1>3, <1>4, <1>5

\* Whatever is typed, however large the line and the number of arguments, and
\* whatever commands and other tasks do: a command has as its arguments the
\* first words of the line, from its start to its end or to the first NUL in it.
THEOREM ArgumentsStay == ConsoleSpec => []ArgumentsAsTyped
PROOF
  <1>1. ArgumentsInv => ArgumentsAsTyped
    BY DEF ArgumentsInv
  <1>2. ConsoleSpec => []IInv
    BY ConsoleIsTaskProgram, Invariance, PTL
  <1> QED BY <1>1, <1>2, InitArguments, StepArguments, PTL DEF ConsoleSpec
=============================================================================
