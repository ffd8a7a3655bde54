------------------------------ MODULE TaskLife ------------------------------
(***************************************************************************)
(* The life of coroutine frames: task and schedulable_task are created,    *)
(* started, await one another, yield, sleep, finish and are destroyed, by  *)
(* the main program or by each other, on the scheduler and the timer       *)
(* service, whose queues hold pointers into the frames.                    *)
(*                                                                         *)
(* All of it happens on one thread.  A frame is identified with its        *)
(* promise, with its schedulable_node and with the one awaiter it is       *)
(* suspended in; the intrusive queues are sequences or sets of frames.     *)
(* When timers fire is the subject of TimerService; here a pending timer   *)
(* fires at any time.                                                      *)
(***************************************************************************)
EXTENDS Naturals, Sequences, SequencesExt

CONSTANTS Frame,      \* the coroutine frames a program may have at once
          Plain,      \* those of task<T>, which has no schedulable_node
          App,        \* the main program: whatever is not a coroutine
          NoFrame

ASSUME TaskAssumption ==
  /\ Plain \subseteq Frame
  /\ App \notin Frame /\ NoFrame \notin Frame /\ App # NoFrame

VARIABLES
  point,         \* point[f]: where f's coroutine is suspended; "absent": no frame
  started,       \* promise_base::started
  continuation,  \* promise_base::continuation
  holder,        \* who has the task object: App, or the frame it is a local of
  control,       \* the coroutines inside resume(), the one that runs last
  readyQueue,    \* scheduler::ready_queue_
  timers,        \* the frames whose timer_node_ is pending
  waiting        \* the frames whose awaiter is queued at a channel or the UART

frameVars == <<point, started, continuation, holder>>
queueVars == <<readyQueue, timers, waiting>>
taskVars == <<frameVars, control, queueVars>>

Point == {"absent", "initial", "running", "await", "yield", "sleep", "wait", "final"}

\* Every variable has its type; plain tasks are in no queue.
TypeOK ==
  /\ point \in [Frame -> Point]
  /\ started \in [Frame -> BOOLEAN]
  /\ continuation \in [Frame -> Frame \cup {NoFrame}]
  /\ holder \in [Frame -> Frame \cup {App, NoFrame}]
  /\ control \in Seq(Frame)
  /\ readyQueue \in Seq(Frame \ Plain)
  /\ timers \subseteq Frame \ Plain /\ waiting \subseteq Frame \ Plain

Init ==
  /\ point = [f \in Frame |-> "absent"]
  /\ started = [f \in Frame |-> FALSE]
  /\ continuation = [f \in Frame |-> NoFrame]
  /\ holder = [f \in Frame |-> NoFrame]
  /\ control = <<>>
  /\ readyQueue = <<>>
  /\ timers = {} /\ waiting = {}

\* Who runs: the coroutine resumed last, or the main program.
running == IF control = <<>> THEN App ELSE Last(control)

Exists(f) == point[f] # "absent"

\* A task nobody has started.  The asserts test only started, which the first
\* resumption sets; that a task is not posted twice, nor awaited once it is
\* posted, is up to the caller.
fresh(f) == point[f] = "initial" /\ ~started[f] /\ f \notin Range(readyQueue)

done(f) == point[f] = "final"

-----------------------------------------------------------------------------
(* Creation and start.                                                     *)

\* A call of a coroutine function: get_return_object, initial_suspend.
Create(x, f) ==
  /\ running = x /\ ~Exists(f)
  /\ point' = [point EXCEPT ![f] = "initial"]
  /\ started' = [started EXCEPT ![f] = FALSE]
  /\ continuation' = [continuation EXCEPT ![f] = NoFrame]
  /\ holder' = [holder EXCEPT ![f] = x]
  /\ UNCHANGED <<control, queueVars>>

post(f) == readyQueue' = Append(readyQueue, f)

\* execution::start of a schedulable task, by who can keep it until it is
\* done: not by a plain task, whose locals end before the scheduler runs.
Start(x, f) ==
  /\ running = x /\ x \notin Plain /\ holder[f] = x
  /\ f \notin Plain /\ fresh(f)
  /\ post(f)
  /\ UNCHANGED <<frameVars, control, timers, waiting>>

\* resumable::start of a plain task: it is resumed at once, inside its caller.
StartPlain(x, f) ==
  /\ running = x /\ holder[f] = x
  /\ f \in Plain /\ fresh(f)
  /\ point' = [point EXCEPT ![f] = "running"]
  /\ started' = [started EXCEPT ![f] = TRUE]
  /\ control' = Append(control, f)
  /\ UNCHANGED <<continuation, holder, queueVars>>

\* run_once: the oldest node's coroutine is resumed.
RunOnce ==
  /\ running = App /\ readyQueue # <<>>
  /\ readyQueue' = Tail(readyQueue)
  /\ point' = [point EXCEPT ![Head(readyQueue)] = "running"]
  /\ started' = [started EXCEPT ![Head(readyQueue)] = TRUE]
  /\ control' = <<Head(readyQueue)>>
  /\ UNCHANGED <<continuation, holder, timers, waiting>>

-----------------------------------------------------------------------------
(* Suspension.                                                             *)

\* The coroutine at the top of control is exchanged for another, which runs
\* in its place: symmetric transfer.
transfer(f) == control' = Append(Front(control), f)

continues_with(g, f) == continuation' = [continuation EXCEPT ![g] = f]

\* f awaits g: resumable_awaiter, which holds g from now on.  A plain task
\* may await plain tasks only.
Await(f, g) ==
  /\ running = f /\ holder[g] = f
  /\ fresh(g) /\ (f \in Plain => g \in Plain)
  /\ continues_with(g, f)
  /\ point' = [point EXCEPT ![f] = "await", ![g] = "running"]
  /\ started' = [started EXCEPT ![g] = TRUE]
  /\ transfer(g)
  /\ UNCHANGED <<holder, queueVars>>

suspend(f, where) ==
  /\ running = f /\ f \notin Plain
  /\ point' = [point EXCEPT ![f] = where]
  /\ control' = Front(control)
  /\ UNCHANGED <<started, continuation, holder>>

\* yield_awaiter
Yield(f) ==
  /\ suspend(f, "yield")
  /\ post(f)
  /\ UNCHANGED <<timers, waiting>>

\* timer_awaiter with a duration above 0; with 0 it does not suspend.
Sleep(f) ==
  /\ suspend(f, "sleep")
  /\ timers' = timers \cup {f}
  /\ UNCHANGED <<readyQueue, waiting>>

\* An awaiter of a channel or of the UART service that is not ready.
Wait(f) ==
  /\ suspend(f, "wait")
  /\ waiting' = waiting \cup {f}
  /\ UNCHANGED <<readyQueue, timers>>

\* Mutant: it is the task that awaits the sleeper whose node is posted.
woken_caller(f) == IF continuation[f] # NoFrame THEN continuation[f] ELSE f

\* The task of the schedulable_node that await_suspend noted: f's own.
woken(f) == f

\* on_expire, called by timer_service::run.
Expire(f) ==
  /\ running = App /\ f \in timers
  /\ timers' = timers \ {f}
  /\ post(woken(f))
  /\ UNCHANGED <<frameVars, control, waiting>>

\* on_resume of an awaiter that waits elsewhere.
Wake(f) ==
  /\ f \in waiting
  /\ waiting' = waiting \ {f}
  /\ post(f)
  /\ UNCHANGED <<frameVars, control, timers>>

-----------------------------------------------------------------------------
(* The end of a frame.                                                     *)

\* f with all that hangs on it: the task objects held in the frame, as locals
\* or in the awaiter it is suspended in, and so on.
Below(f) ==
  {g \in Frame : \A S \in SUBSET Frame :
     (f \in S /\ \A h \in Frame : holder[h] \in S => h \in S) => g \in S}

\* Mutant: the destructor of timer_awaiter does not cancel.
canceled_not(D) == UNCHANGED timers

\* ~timer_awaiter, in the frames that go.
canceled(D) == timers' = timers \ D

without(f, D, v) == [g \in Frame |-> IF g \in D THEN v ELSE f[g]]

\* Nothing in the code keeps a program from destroying a task that a queue
\* points into.  What it may do is up to it: a task that is done, or that it
\* never started; or, from the main program, one that sleeps, when nothing
\* is ready.  It cannot see whether a sleeper's timer has expired already.
MayDestroy(x, f) ==
  \/ done(f)
  \/ fresh(f)
  \/ x = App /\ readyQueue = <<>> /\ Below(f) \cap waiting = {}

\* ~resumable_base, or the assignment of another task to the object.
Destroy(x, f) ==
  /\ running = x /\ holder[f] = x
  /\ MayDestroy(x, f)
  /\ point' = without(point, Below(f), "absent")
  /\ holder' = without(holder, Below(f), NoFrame)
  /\ continuation' = without(continuation, Below(f), NoFrame)
  /\ canceled(Below(f))
  /\ started' = without(started, Below(f), FALSE)
  /\ UNCHANGED <<control, readyQueue, waiting>>

\* The body of f ends, and its locals with it; a task among them must be one
\* that f may destroy.
BodyEnds(f) ==
  /\ running = f
  /\ \A g \in Frame : holder[g] = f => MayDestroy(f, g)

Locals(f) == {g \in Frame : holder[g] = f}

\* final_suspend of a task nobody awaits: control goes back to resume().
ReturnToResumer(f) ==
  /\ BodyEnds(f) /\ continuation[f] = NoFrame
  /\ point' = [without(point, Locals(f), "absent") EXCEPT ![f] = "final"]
  /\ holder' = without(holder, Locals(f), NoFrame)
  /\ started' = without(started, Locals(f), FALSE)
  /\ control' = Front(control)
  /\ UNCHANGED <<continuation, queueVars>>

\* The frames that are gone when the parent's co_await is over.
buried(f) == Locals(f) \cup {f}

\* final_suspend of a task that is awaited: symmetric transfer to the parent,
\* where the end of the co_await destroys the awaiter, and f with it.
ReturnToParent(f) ==
  /\ BodyEnds(f) /\ continuation[f] # NoFrame
  /\ point' = [without(point, buried(f), "absent") EXCEPT ![continuation[f]] = "running"]
  /\ holder' = without(holder, buried(f), NoFrame)
  /\ continuation' = without(continuation, buried(f), NoFrame)
  /\ started' = without(started, buried(f), FALSE)
  /\ transfer(continuation[f])
  /\ UNCHANGED queueVars

Return(f) == ReturnToResumer(f) \/ ReturnToParent(f)

-----------------------------------------------------------------------------
Next ==
  \/ RunOnce
  \/ \E f \in Frame :
       Yield(f) \/ Sleep(f) \/ Wait(f) \/ Expire(f) \/ Wake(f) \/ Return(f)
  \/ \E x \in Frame \cup {App}, f \in Frame :
       Create(x, f) \/ Start(x, f) \/ StartPlain(x, f) \/ Destroy(x, f)
  \/ \E f, g \in Frame : Await(f, g)

Spec == Init /\ [][Next]_taskVars

-----------------------------------------------------------------------------
\* A queue holds a frame at most once, and only a frame that exists and is
\* suspended in what put it there; one that is suspended so is in its queue.
QueuesHoldSuspended ==
  /\ IsInjective(readyQueue)
  /\ \A f \in Frame :
       /\ f \in Range(readyQueue) => point[f] \in {"initial", "yield", "sleep", "wait"}
       /\ f \in timers <=> point[f] = "sleep" /\ f \notin Range(readyQueue)
       /\ f \in waiting <=> point[f] = "wait" /\ f \notin Range(readyQueue)
       /\ point[f] = "yield" => f \in Range(readyQueue)

\* A frame exists as long as somebody who exists holds its task object.
HoldersExist ==
  \A f \in Frame :
    /\ Exists(f) <=> holder[f] # NoFrame
    /\ holder[f] \in Frame => Exists(holder[f]) /\ ~done(holder[f])

\* The frame that a finished task continues with exists, awaits this task and
\* no other, and holds it.
AwaitedByOne ==
  \A f \in Frame :
    /\ continuation[f] # NoFrame =>
         Exists(f) /\ holder[f] = continuation[f] /\ point[continuation[f]] = "await"
    /\ point[f] = "await" =>
         \E g \in Frame : \A h \in Frame : continuation[h] = f <=> h = g

\* Nothing refers to a frame that is gone, or that is elsewhere: neither the
\* scheduler, a timer or another queue, nor a task object or a continuation,
\* whoever is destroyed, with all that hangs on it, and wherever it sleeps.
NothingDangles == QueuesHoldSuspended /\ HoldersExist /\ AwaitedByOne

\* Whoever is inside resume() runs or waits for a plain task that it started,
\* and is there once.
ControlRuns ==
  /\ IsInjective(control)
  /\ \A f \in Frame : f \in Range(control) <=> point[f] = "running"

UnstartedHoldNothing ==
  \A f \in Frame : holder[f] \in Frame => point[holder[f]] # "initial"

\* The inductive invariant.
IInv == TypeOK /\ NothingDangles /\ ControlRuns /\ UnstartedHoldNothing

-----------------------------------------------------------------------------
\* A task that was started, and has not finished.
Open(f) == Exists(f) /\ ~fresh(f) /\ ~done(f)

\* A task is called by the one that awaits it or, if it is plain, starts it:
\* that one has the task object.
caller ==
  [f \in {g \in Frame : Open(g)} |->
     IF f \in Plain \/ continuation[f] # NoFrame THEN holder[f] ELSE App]

T == INSTANCE Threads WITH Main <- App, ready <- readyQueue

\* Started tasks behave as threads, each with a call stack: whoever is woken
\* is the innermost call of its thread and posted once, and a task that
\* finishes gives control back to the one that awaits or started it.
ImplementsThreads == T!Spec
=============================================================================
