------------------------------ MODULE Channel ------------------------------
(***************************************************************************)
(* A channel shared by coroutine tasks, and the scheduler that runs them.  *)
(*                                                                         *)
(* Everything happens on one thread: a task runs until it suspends, so an  *)
(* action is one call into the channel or the scheduler, whole.  What is   *)
(* concurrent is the order in which tasks, and the main loop between two   *)
(* calls of run_once, make those calls.                                    *)
(*                                                                         *)
(* A task is identified with its schedulable_node and with the one awaiter *)
(* its frame can hold; a queue of nodes is a sequence of tasks (FifoQueue  *)
(* shows that the intrusive list is such a sequence while no node is       *)
(* pushed twice, which is what NodesLinkedOnce below says).  A value is    *)
(* the number of the send that offered it, so that every value is told     *)
(* apart from every other.                                                 *)
(***************************************************************************)
EXTENDS Naturals, Sequences, Functions, Errcode

CONSTANTS Task,       \* the schedulable tasks of the program
          NoTask,     \* "running" when the main loop has control
          Capacity,   \* entries of the storage; 0 for the unbuffered constructor
          MaxSends    \* bound: how many values are offered in a behaviour

ASSUME ChannelAssumption ==
  /\ NoTask \notin Task
  /\ Capacity \in Nat
  /\ MaxSends \in Nat

VARIABLES
  buffer,           \* buffer_: the values in the ring queue, oldest first
  closed,           \* closed_
  pendingReaders,   \* pending_readers_
  pendingWriters,   \* pending_writers_
  readyQueue,       \* scheduler::ready_queue_
  running,          \* the task whose coroutine is being resumed, or NoTask
  await,            \* await[t]: the suspension point of t's coroutine
  value,            \* value[t]: what t's awaiter's value_ points to, 0 if unset
  status,           \* status[t]: status_ of t's awaiter
  sends,            \* history: sends[v] is what became of the send of value v
  delivered         \* history: the values handed to a reader, in that order

channelVars == <<buffer, closed, pendingReaders, pendingWriters>>
schedVars == <<readyQueue, running>>
taskVars == <<await, value, status>>
history == <<sends, delivered>>
vars == <<channelVars, schedVars, taskVars, history>>

Value == 1 .. MaxSends
NoValue == 0

SuspensionPoint == {"initial", "none", "yield", "send", "receive", "final"}
SendFate == {"prompt", "waiting", "granted", "canceled"}

(***************************************************************************)
(* Typing of every variable; the buffer never holds more than the storage. *)
(***************************************************************************)
TypeOK ==
  /\ buffer \in Seq(Value) /\ Len(buffer) <= Capacity
  /\ closed \in BOOLEAN
  /\ pendingReaders \in Seq(Task)
  /\ pendingWriters \in Seq(Task)
  /\ readyQueue \in Seq(Task)
  /\ running \in Task \cup {NoTask}
  /\ await \in [Task -> SuspensionPoint]
  /\ value \in [Task -> Value \cup {NoValue}]
  /\ status \in [Task -> ErrCode]
  /\ sends \in Seq(SendFate) /\ Len(sends) <= MaxSends
  /\ delivered \in Seq(Value)

Init ==
  /\ buffer = <<>>
  /\ closed = FALSE
  /\ pendingReaders = <<>>
  /\ pendingWriters = <<>>
  /\ readyQueue = <<>>
  /\ running = NoTask
  /\ await = [t \in Task |-> "initial"]
  /\ value = [t \in Task |-> NoValue]
  /\ status = [t \in Task |-> ec_success]
  /\ sends = <<>>
  /\ delivered = <<>>

-----------------------------------------------------------------------------
(* The parts of the channel's operations.                                  *)

\* on_resume: leave the code in the awaiter, post its task.
on_resume(t, code) ==
  /\ status' = [status EXCEPT ![t] = code]
  /\ readyQueue' = Append(readyQueue, t)

\* capacity() > 0 && !full()
has_room == Len(buffer) < Capacity

\* Mutant: the reader is served but stays in the pending queue.
dequeue_pending_read_peeks == pendingReaders' = pendingReaders

dequeue_pending_read == pendingReaders' = Tail(pendingReaders)

dequeue_pending_write == pendingWriters' = Tail(pendingWriters)

\* Mutant: the reader is woken, but the value is not copied to it.
hand_to_reader_no_copy(v) ==
  /\ UNCHANGED value
  /\ delivered' = Append(delivered, v)

\* memcpy to the value_ of the reader at the head of the queue.
hand_to_reader(v) ==
  /\ value' = [value EXCEPT ![Head(pendingReaders)] = v]
  /\ delivered' = Append(delivered, v)

\* try_write returning success: to a waiting reader, else to the buffer.
try_write(v) ==
  /\ ~closed
  /\ \/ /\ pendingReaders # <<>>
        /\ hand_to_reader(v)
        /\ dequeue_pending_read
        /\ on_resume(Head(pendingReaders), ec_success)
        /\ UNCHANGED buffer
     \/ /\ pendingReaders = <<>>
        /\ has_room
        /\ buffer' = Append(buffer, v)
        /\ UNCHANGED <<pendingReaders, readyQueue, value, status, delivered>>
  /\ UNCHANGED <<closed, pendingWriters>>

\* Mutant: the check for a waiting reader is lost.
try_write_full_ignores_readers == ~closed /\ ~has_room

\* try_write returning full; it returns closed iff closed_, changing nothing.
try_write_full == ~closed /\ pendingReaders = <<>> /\ ~has_room

\* Mutant: a value read from the buffer stays there.
pop_front_keeps == buffer' = buffer

pop_front == buffer' = Tail(buffer)

\* try_read returning success: from the buffer, after which one writer is
\* told it succeeded although its value is not stored; else, if the channel
\* is open, straight from the first waiting writer.
try_read ==
  /\ \/ /\ buffer # <<>>
        /\ pop_front
        /\ delivered' = Append(delivered, Head(buffer))
        /\ IF pendingWriters # <<>>
           THEN /\ dequeue_pending_write
                /\ on_resume(Head(pendingWriters), ec_success)
           ELSE UNCHANGED <<pendingWriters, readyQueue, status>>
     \/ /\ buffer = <<>>
        /\ ~closed
        /\ pendingWriters # <<>>
        /\ delivered' = Append(delivered, value[Head(pendingWriters)])
        /\ dequeue_pending_write
        /\ on_resume(Head(pendingWriters), ec_success)
        /\ UNCHANGED buffer
  /\ UNCHANGED <<closed, pendingReaders, value>>

\* Mutant: a reader queues without looking at the waiting writers.
try_read_empty_ignores_writers == ~closed /\ buffer = <<>>

\* Mutant: a reader queues without looking at the buffer.
try_read_empty_ignores_buffer == ~closed /\ pendingWriters = <<>>

\* try_read returning empty; it returns closed iff closed_ and nothing is
\* buffered, changing nothing.
try_read_empty == ~closed /\ buffer = <<>> /\ pendingWriters = <<>>

\* The loops of close(): every waiting writer, then every waiting reader.
released == pendingWriters \o pendingReaders

-----------------------------------------------------------------------------
(* The calls.  "running" is the caller; NoTask stands for code outside any  *)
(* task.  A call that returns an error at once (closed, or full and empty   *)
(* for the try_ variants) changes nothing and is a stuttering step.         *)

NextValue == Len(sends) + 1

\* try_send that succeeds, or co_await send whose await_ready completes it.
TrySend ==
  /\ Len(sends) < MaxSends
  /\ try_write(NextValue)
  /\ sends' = Append(sends, "prompt")
  /\ UNCHANGED <<running, await>>

\* try_read that succeeds, or co_await receive whose await_ready completes it.
TryRead ==
  /\ try_read
  /\ UNCHANGED <<running, await, sends>>

\* co_await send finds the channel full: await_suspend queues the awaiter.
SendSuspends ==
  /\ running # NoTask
  /\ Len(sends) < MaxSends
  /\ try_write_full
  /\ pendingWriters' = Append(pendingWriters, running)
  /\ await' = [await EXCEPT ![running] = "send"]
  /\ value' = [value EXCEPT ![running] = NextValue]
  /\ running' = NoTask
  /\ sends' = Append(sends, "waiting")
  /\ UNCHANGED <<buffer, closed, pendingReaders, readyQueue, status, delivered>>

\* co_await receive finds the channel empty.
ReceiveSuspends ==
  /\ running # NoTask
  /\ try_read_empty
  /\ pendingReaders' = Append(pendingReaders, running)
  /\ await' = [await EXCEPT ![running] = "receive"]
  /\ running' = NoTask
  /\ UNCHANGED <<buffer, closed, pendingWriters, readyQueue, value, status, history>>

\* Mutant: readers are left waiting.
Close_forgets_readers ==
  /\ closed' = TRUE
  /\ pendingWriters' = <<>>
  /\ readyQueue' = readyQueue \o pendingWriters
  /\ status' = [t \in Task |->
                 IF t \in Range(pendingWriters) THEN ec_canceled ELSE status[t]]
  /\ UNCHANGED <<buffer, pendingReaders, running, await, value, history>>

\* Mutant: waiters are woken with the status a fresh awaiter has.
Close_without_status ==
  /\ closed' = TRUE
  /\ pendingWriters' = <<>>
  /\ pendingReaders' = <<>>
  /\ readyQueue' = readyQueue \o released
  /\ UNCHANGED <<buffer, running, await, value, status, history>>

\* Mutant: what is buffered is discarded.
Close_discards_buffer ==
  /\ closed' = TRUE
  /\ buffer' = <<>>
  /\ pendingWriters' = <<>>
  /\ pendingReaders' = <<>>
  /\ readyQueue' = readyQueue \o released
  /\ status' = [t \in Task |->
                 IF t \in Range(released) THEN ec_canceled ELSE status[t]]
  /\ UNCHANGED <<running, await, value, history>>

\* Mutant: the oldest waiting value is stored if there is room, its sender
\* canceled all the same.
Close_stores_canceled ==
  /\ closed' = TRUE
  /\ buffer' = IF has_room /\ pendingWriters # <<>>
               THEN Append(buffer, value[Head(pendingWriters)]) ELSE buffer
  /\ pendingWriters' = <<>>
  /\ pendingReaders' = <<>>
  /\ readyQueue' = readyQueue \o released
  /\ status' = [t \in Task |->
                 IF t \in Range(released) THEN ec_canceled ELSE status[t]]
  /\ UNCHANGED <<running, await, value, history>>

Close ==
  /\ closed' = TRUE
  /\ pendingWriters' = <<>>
  /\ pendingReaders' = <<>>
  /\ readyQueue' = readyQueue \o released
  /\ status' = [t \in Task |->
                 IF t \in Range(released) THEN ec_canceled ELSE status[t]]
  /\ UNCHANGED <<buffer, running, await, value, history>>

-----------------------------------------------------------------------------
(* The scheduler and the tasks' other suspension points.                   *)

\* execution::start.  A task is handed to it once; its assert tests "started",
\* which only the first resumption sets.
Start(t) ==
  /\ await[t] = "initial"
  /\ t \notin Range(readyQueue)
  /\ readyQueue' = Append(readyQueue, t)
  /\ UNCHANGED <<channelVars, running, taskVars, history>>

\* What await_resume of a send reports, seen by the task as it resumes.
SendOutcome(t) == IF status[t] = ec_success THEN "granted" ELSE "canceled"

\* run_once, and one turn of the loop in run.  The awaiter dies as the task
\* goes on, and a later one starts with status_ success and its own value_.
RunOnce ==
  /\ running = NoTask
  /\ readyQueue # <<>>
  /\ LET t == Head(readyQueue) IN
     /\ running' = t
     /\ await' = [await EXCEPT ![t] = "none"]
     /\ status' = [status EXCEPT ![t] = ec_success]
     /\ value' = [value EXCEPT ![t] = NoValue]
     /\ sends' = IF await[t] = "send"
                 THEN [sends EXCEPT ![value[t]] = SendOutcome(t)]
                 ELSE sends
  /\ readyQueue' = Tail(readyQueue)
  /\ UNCHANGED <<channelVars, delivered>>

\* Mutant: the yielding task suspends without posting itself.
Yield_without_post ==
  /\ running # NoTask
  /\ await' = [await EXCEPT ![running] = "yield"]
  /\ running' = NoTask
  /\ UNCHANGED <<channelVars, readyQueue, value, status, history>>

\* Mutant: a yielding task goes to the front of the ready queue.
Yield_to_front ==
  /\ running # NoTask
  /\ readyQueue' = <<running>> \o readyQueue
  /\ await' = [await EXCEPT ![running] = "yield"]
  /\ running' = NoTask
  /\ UNCHANGED <<channelVars, value, status, history>>

\* co_await yield: the task posts itself and suspends.
Yield ==
  /\ running # NoTask
  /\ readyQueue' = Append(readyQueue, running)
  /\ await' = [await EXCEPT ![running] = "yield"]
  /\ running' = NoTask
  /\ UNCHANGED <<channelVars, value, status, history>>

\* co_return: final_suspend with no continuation gives control back.
Return ==
  /\ running # NoTask
  /\ await' = [await EXCEPT ![running] = "final"]
  /\ running' = NoTask
  /\ UNCHANGED <<channelVars, readyQueue, value, status, history>>

GivesUpControl == SendSuspends \/ ReceiveSuspends \/ Yield \/ Return

Next ==
  \/ TrySend \/ TryRead \/ Close
  \/ \E t \in Task : Start(t)
  \/ RunOnce
  \/ GivesUpControl

Spec == Init /\ [][Next]_vars

\* The main loop keeps calling run_once, and no task keeps control forever:
\* the two things a cooperative program owes its scheduler.
FairSpec == Spec /\ WF_vars(RunOnce) /\ WF_vars(GivesUpControl)

-----------------------------------------------------------------------------
(* Safety.                                                                 *)

\* The task's node or awaiter is linked in some queue.
Linked(t) == t \in Range(readyQueue) \cup Range(pendingReaders) \cup Range(pendingWriters)

\* No node or awaiter is in two queues, or twice in one, and the task that
\* runs is in none: pushing a linked node would corrupt the intrusive lists,
\* and no code checks for it.
NodesLinkedOnce ==
  /\ IsInjective(readyQueue) /\ IsInjective(pendingReaders) /\ IsInjective(pendingWriters)
  /\ Range(readyQueue) \cap Range(pendingReaders) = {}
  /\ Range(readyQueue) \cap Range(pendingWriters) = {}
  /\ Range(pendingReaders) \cap Range(pendingWriters) = {}
  /\ running # NoTask => ~Linked(running)

\* A suspended coroutine that has not finished can be resumed by someone: it
\* is queued, unless it was never started.
NoTaskForgotten ==
  \A t \in Task : await[t] \in {"yield", "send", "receive"} => Linked(t)

\* Nobody waits for what is there: while a reader waits nothing is buffered
\* and no writer waits, and a closed channel keeps nobody waiting.
NoCrossWaiting ==
  /\ pendingReaders # <<>> => buffer = <<>> /\ pendingWriters = <<>>
  /\ closed => pendingReaders = <<>> /\ pendingWriters = <<>>

\* A receive about to resume with success has a value in its destination, one
\* the channel really handed over; one that was canceled has none.
ReceiverGetsWhatItIsTold ==
  \A t \in Range(readyQueue) :
    await[t] = "receive" =>
      IF status[t] = ec_success THEN value[t] \in Range(delivered) ELSE value[t] = NoValue

\* No value is duplicated: each is delivered once, or still buffered once.
AtMostOnce == IsInjective(delivered \o buffer)

\* A send that completed without suspending is never lost.
PromptSendsArrive ==
  \A v \in DOMAIN sends : sends[v] = "prompt" => v \in Range(delivered \o buffer)

\* A send told it was canceled has not slipped its value in.
CanceledNeverArrives ==
  \A v \in DOMAIN sends : sends[v] = "canceled" => v \notin Range(delivered \o buffer)

\* What the status of a send promises: told success, the value is in the
\* channel or was received.
SuccessMeansDelivered ==
  \A v \in DOMAIN sends :
    sends[v] \in {"prompt", "granted"} => v \in Range(delivered \o buffer)

\* The values of S that have been delivered or are buffered are in order.
InOrder(S) ==
  LET q == delivered \o buffer IN
  \A i, j \in DOMAIN q : i < j /\ q[i] \in S /\ q[j] \in S => q[i] < q[j]

\* The values of sends that did not have to wait come out in the order in
\* which they were sent.
PromptSendsInOrder == InOrder({v \in DOMAIN sends : sends[v] = "prompt"})

\* What makes the two invariants above inductive: a queue holds tasks suspended
\* at its kind of co_await, a waiting writer holds a value, and the task that
\* runs is suspended nowhere.
QueuesMatchSuspension ==
  /\ \A t \in Range(pendingReaders) : await[t] = "receive"
  /\ \A t \in Range(pendingWriters) : await[t] = "send" /\ value[t] \in Value
  /\ running # NoTask => await[running] = "none"

IInv == TypeOK /\ NodesLinkedOnce /\ NoCrossWaiting /\ NoTaskForgotten /\ QueuesMatchSuspension

-----------------------------------------------------------------------------
(* Refinement: the values on offer are those in the buffer, then those the *)
(* suspended senders hold.                                                 *)

OnOffer == buffer \o [i \in DOMAIN pendingWriters |-> value[pendingWriters[i]]]

M == INSTANCE Mailbox WITH
       queue <- OnOffer, wanted <- Len(pendingReaders), received <- delivered

\* Every step of the channel is a step of the mailbox.  True of a channel with
\* no buffer; with one, try_read drops a value that is on offer.
ImplementsMailbox == M!Spec

-----------------------------------------------------------------------------
(* Liveness, under FairSpec.                                               *)

\* A task in the ready queue is resumed, however often others yield.
ReadyTaskRuns == \A t \in Task : t \in Range(readyQueue) ~> running = t

\* Closing ends every wait: no task stays suspended in the channel.
CloseReleases ==
  \A t \in Task : closed /\ await[t] \in {"send", "receive"} ~> await[t] = "none"
=============================================================================
