# TLA+ models of the RIZ embedded platform

The platform is a C++20 library for bare-metal programs: coroutine tasks on a
cooperative scheduler, channels between them, timers on a delta queue, a UART
service fed by interrupts, a console, and the containers these rest on. This
directory holds TLA+ models of its core, TLC runs that check them on small
instances, and TLAPS proofs for every value of the constants. Paths below are
relative to the repository root (`src/` in `PROJECT.json`).

## 1. Inventory

Two kinds of concurrency exist. Everything in *thread mode* is one thread: tasks
run until they suspend, and the application's main loop calls
`scheduler::run_once`, `timer_service::run` and `uart_service::run` in turn.
*Interrupt handlers* call `uart_service::on_*` between any two instructions of
that thread; they share with it one flag, one status code and one lock-free ring.
Nothing is persisted, so there is no crash recovery to speak of.

| Component | State | Operations | Interacts with | Hard behaviour |
|---|---|---|---|---|
| channel (`coro/channel`) | ring of values, closed flag, queues of suspended readers and writers | `send`, `receive`, `try_send`, `try_read`, `close` | wakes tasks through the scheduler | order of calls of many tasks, wake-ups with the right status, values of suspended senders |
| scheduler (`coro/execution`) | ready queue | `post`, `run_once`, `run`, `start`, `yield` | every awaiter posts to it | a node linked twice, starvation, a task nobody resumes |
| tasks and promises (`coro/promise`, `coro/resumable`): plain `task`s, which run inside their caller, and `schedulable_task`s | frame, continuation, `started` | create, start, suspend, resume, await another task, finish, destroy | scheduler | destroying a queued task, continuations, nested `resume` |
| timer awaiter, sleep | timer node in the frame | `await_suspend`, expiry, destructor | timer service, scheduler | destruction while asleep, whose node is posted |
| intrusive FIFO | head, tail, size; link in each node | `push`, `pop_front` | under channels, scheduler, UART service | stale tail or link, node in two lists |
| delta queue, timer service | list of deltas, last tick | `submit`, `cancel`, `run` with callbacks | tick source, UART timeouts, sleep | wrap-around, callbacks that change the list, time base |
| lock-free byte ring | storage, two atomic indices | `push`, `pop_front`, `size` | interrupt on one side, main loop on the other | publication order, wrap-around, stale loads |
| UART service, transmitting | queue, active request, `write_ready_`, timer | `transmit`, `process_write`, `on_tx_complete`, `on_tx_timeout`, `start`, `stop` | driver, timer service, scheduler | interrupt against main loop, timeout against completion, who owns the buffer |
| UART service, receiving | queue, active request, ring, latched error, timer | `receive`, `process_read`, `process_error`, `on_rx_*`, `stop` | the same | bytes to the right reader once, lost or aliased errors |
| HAL driver, tick sources | the device | `start_transmit`, `abort_transmit`, ... | vendor library | external |
| ring queue, byte ring buffer | storage and indices | `push`, `pop_front`, `clear` | channel, console | overwriting, empty storage, copies that wrap |
| console | line, arguments, write buffer | `run`, `print`, `dispatch`, the commands' handlers | UART service, tasks | arguments that point into the line, printing while a chunk is sent, truncation, dropped output |
| error codes | - | - | everyone | values that coincide |

What makes each correct: a channel loses, duplicates and reorders nothing and
tells every task the truth; the scheduler forgets and starves nobody; a queue
gives back what was put in, in order; a timer fires when due, never before a
pending earlier one, and submitting or cancelling one moves no other; the ring is
a bounded FIFO without data races; a transmission's buffer outlives the transfer;
a request ends exactly once, with the status that belongs to it; nothing but a
request that asked to wait for ever can block the others; started tasks behave as
threads with call stacks, and nothing refers to a frame that is gone; a command's
arguments stay what was typed while it runs, and output leaves in order.

`PROJECT.json` lists each part with its status and each hazard with its line and
the properties that watch it.

## 2. Modules

| Module | Models | State and actions |
|---|---|---|
| `Errcode` | `errcode.h` | the enumeration's values: `uart_dma` really is 0, like `success` |
| `Channel` | channel + scheduler + tasks, composed | one action per call that changes state: `TrySend`, `TryRead`, `SendSuspends`, `ReceiveSuspends`, `Close`, `Start`, `RunOnce`, `Yield`, `Return` |
| `Mailbox` | abstract: one queue of values on offer | refined by `Channel` when `Capacity = 0` |
| `FifoQueue` | `intrusive/fifo_queue` | pointers `head`, `tail`, `next` of several queues over shared nodes; `push`, `pop_front`; `content` is history |
| `SpscRing` | `lockfree/spsc_raw_byte_ring_buffer` | one action per memory access: `PushBegin`, `PushByte`, `PushStore`, `Size`, `PopBegin`, `PopByte`, `PopStore` |
| `ByteFifo` | abstract: bounded FIFO of bytes | refined by `SpscRing` |
| `TimerService` | `timer_service` + `intrusive/delta_queue` | `Submit`, `Cancel`, `RunBegin`, `Fire` (one turn of `advance`, callback included), `RunEnd`, `TimePasses` |
| `AlarmClock` | abstract: due times in absolute time | refined by `TimerService` |
| `UartTransmit` | transmitting half of `uart_service`, driver, device | `Transmit`, `ProcessWrite`, `StoreNotReady`, `OnTxTimeout`, `Start`, `Stop`, `TransferEnds`, `OnTxComplete` |
| `UartRxDma` | `on_rx_idle`, `on_rx_complete` and `start` on the driver's receive buffer, in both transfer modes | `ByteArrives`, `LineIdle`, `ReceptionAborted` (device), `ByteInterrupt` (mode `it`), `OnRxComplete`, `OnRxIdle` and `OnRxIdleForwards` (handlers), `ServiceStart`, `ServiceStop` |
| `RingQueue` | `raw_ring_queue`, `ring_queue` | `push`, `pop_front`, `clear`, `move` on several objects |
| `RecentQueue` | abstract: bounded queue that forgets its oldest entry | refined by `RingQueue` |
| `UartReceive` | receiving half of `uart_service` after `start` | `Receive`, `AwaitReady`, `ActivateReader`, `FillActive`, `ProcessError`, `OnRxTimeout`, `Stop`, `OnRxBytes`, `OnRxError` |
| `TaskLife` | `promise_base`, both promises and tasks, `resumable_base`, the awaiters and the scheduler, as seen by frames | where each coroutine is suspended, who holds its task object, who continues after it, the stack of coroutines inside `resume()`; `Create`, `Start`, `StartPlain`, `RunOnce`, `Await`, `Yield`, `Sleep`, `Wait`, `Expire`, `Wake`, `Destroy`, `ReturnToResumer`, `ReturnToParent` |
| `Threads` | abstract: threads with call stacks | refined by `TaskLife`, and so by `Console` |
| `Console` | `console`, line editor, argument parser, byte ring buffer, composed with `TaskLife` | one action per `co_await` or branch of `run` and `dispatch`; commands and other tasks are arbitrary coroutines of `TaskLife` that print |
| `MCConsole` | - | values of `Console`'s constants for TLC |
| `QueueLemmas` | - | lemmas: sequences, rings, remainders, induction |
| `ChannelProofs`, `SpscRingProofs`, `UartTransmitProofs`, `RingQueueProofs` | - | the proofs about the module of that name |
| `IntrusiveProofs` | - | the proofs about `FifoQueue` and `TimerService` |
| `UartReceiveProofs` | - | the proofs about `UartReceive` and `UartRxDma` |
| `TaskProofs` | - | the proofs about `TaskLife` and `Console` |

Definitions keep the source's names; `PROJECT.json` maps each to its lines. In
each module a definition that starts with the comment "Mutant" is a plausible bug,
used only to show that a property can fail. Where one proof module extends two
components, one of them has a prefix on what both would define (`FifoInit`, `FifoSpec`,
`DmaInit`, `DmaSpec`, `DmaTypeOK`, ...).

How the modules fit together. `Channel` and the UART modules treat the intrusive
lists as sequences of tasks. That is justified by `FifoQueue`, whose `push` needs a
node that no queue holds, and by `NodesLinkedOnce` of `Channel`, which discharges
that need. `UartReceive` treats the lock-free ring as a sequence of bytes and its
`push` and `pop_front` as single steps; `SpscRing` refines `ByteFifo`, where they
are, and `SizeIsKept` covers the code that calls `size` first. `TimerIsForActive`
in both UART modules shows that a timer is never submitted while pending, which
is `Submit`'s guard in `TimerService`. `Console` extends `TaskLife`: its steps
with respect to frames and queues are those of `TaskLife`, which `TaskProofs` shows,
so what is proved of every task program holds of the console.

What is abstracted:

- A value sent through a channel is the number of the send; a byte is its
  position in the stream; a transmission is counted in 64-byte chunks.
- `Channel` gives a task one awaiter at a time, which is what a coroutine frame
  holds while it is suspended. Calls that return an error at once change nothing
  and are stuttering.
- `SpscRing`: a side's own index is exact; the other side's is the value last
  seen, which may lag arbitrarily but never goes back (coherence). Release and
  acquire make the bytes behind an index visible with it, so one array stands for
  the storage as long as no slot is accessed by both sides, which is an invariant.
- `TimerService`: `Ticks` values stand for 2^32. A run is assumed to come before
  the counter laps the last one (`MaxGap < Ticks`), and re-arming callbacks ask
  for at least one tick; the code needs both and checks neither.
- `UartTransmit`: a resumed task is taken to run at once, the worst case for its
  buffer. Interrupts matter only between `start_transmit` and the store to
  `write_ready_`, so `process_write` is split there. `abort_transmit` succeeds.
- `UartReceive`: interrupts come between any two accesses to ring and error
  status. How bytes get from the DMA buffer to the ring is `UartRxDma`'s subject;
  here any number of the next bytes may be pushed, which `ForwardedInOrder`
  justifies.
- `UartRxDma`: the initial state chooses the transfer mode. In mode `dma` the
  channel is circular, so that reception goes on past the end of the buffer and the
  service never starts it again; in mode `it` each byte has its interrupt, the last
  one ends the transfer and calls `on_rx_complete`. The handlers do not nest (equal
  priority), and are served before the DMA overwrites a byte they have still to
  fetch (`InTime`): both are up to the application and the code relies on both.
- `TaskLife`: a frame, its promise, its `schedulable_node` and the one awaiter it is
  suspended in are one thing. A pending timer expires at any time the main program
  runs, and any other awaiter is resumed at any time. Nothing in the code stops a
  program from destroying a task that a queue points into, or from starting one
  twice; `MayDestroy` and `fresh` name what a program may do. Moving a task object
  changes no frame, and a result moves with the return.
- `Console`: the UART service is what its awaiters promise: a receive gives a key or
  fails, at once or later; a transmit takes its time. Anyone may print at any time he
  runs. A byte of output is its number modulo `Stamps`, which is enough to tell those
  in the buffer apart; a key is a letter, a blank, NUL, backspace or
  enter, where letters stand for every other byte: `append` stores a NUL from the wire
  like any character. The length of a formatted message stands for the message.
- `RingQueue`: `push` needs a storage (the code divides by `capacity_`).

## 3. Runs

| Run | Bounds | What it checks |
|---|---|---|
| `channel_rendezvous` | 3 tasks, no storage, 4 values | `NodesLinkedOnce`, `NoTaskForgotten`, `ReceiverGetsWhatItIsTold`, `SuccessMeansDelivered`, `ImplementsMailbox`, `CloseReleases` |
| `channel_buffered` | 3 tasks, 1 entry, 4 values | `NoCrossWaiting`, `AtMostOnce`, `PromptSendsArrive`, `CanceledNeverArrives`, `PromptSendsInOrder`, `ReadyTaskRuns` |
| `channel_loss` (violation) | 2 tasks, 1 entry, 2 values | `SuccessMeansDelivered` |
| `fifo_queue` | 2 queues, 4 nodes, arbitrary initial links | `WellLinked` |
| `ring_queue` | 2 queues, storages of 0 to 3 entries, 2 values | `TypeOK` (with head, tail and count in agreement, storages apart), `ImplementsRecentQueue` |
| `spsc_ring` | 4 slots, requests up to 5, 12 bytes | `NoDataRace`, `InOrder`, `SizeIsKept`, `ImplementsFifo`, `EveryByteArrives` |
| `timer_service` | 3 timers, 5 tick values, 6 time units, gap 2; 3 ms at 1000 ticks a second, truncated to 5 values | `EarlyByAtMostTheGap`, `ImplementsAlarmClock`, `NothingOverdueAfterRun`, `RunEnds` |
| `timer_early` (violation) | 1 timer | `NeverEarly` |
| `uart_rx_dma` | both modes, buffer of 3, 7 bytes | `ForwardedInOrder`, `EveryByteForwarded` |
| `uart_transmit` | 3 tasks, one without timeout, 2 chunks | `BufferOutlivesTransfer`, `SuccessMeansSent`, `ReadyMeansIdle`, `TimerIsForActive`, `OnlyUntimedRequestsBlock` |
| `uart_receive` | 2 tasks, one without timeout, ring of 2, 3 bytes | `SuccessMeansFilled`, `BytesOnceInOrder`, `TimerIsForActive`, `OnlyUntimedRequestsBlock` |
| `console` | 5 frames (console, dispatch, handler, a schedulable and a plain task), line of 4, 2 arguments, write buffer of 3, messages of 4 cut to 3, chunks of 2 | `NothingDangles`, `ImplementsThreads`, `ArgumentsAsTyped`, `OutputInOrder`, `OutputDrains` |

Why the bounds are enough. Three tasks give a reader, a writer and a third party
(a second waiter, or a closer), while the main loop can call the channel too; one
entry of storage makes full, empty and in between all occur, with up to three
senders waiting behind it. Twelve bytes take both indices of a ring of four around it
three times and let copies wrap at every offset; requests longer than the ring
are cut short. The clock of `timer_service` passes the wrap of the tick counter,
timers can be due together, and callbacks re-arm or cancel. In the UART runs one
request is active while others wait, requests end by completion, error, timeout
and stop, and the ring overflows; the DMA of `uart_rx_dma` wraps twice, with idle lines,
aborts and restarts anywhere. In `console` (209,426 states) a command's handler runs
a plain task and a schedulable one, which may also await, sleep, wait, outlive their
creator's turn and be destroyed; the line is edited to its limit and cut into as many
words as there are arguments (that more words change nothing is part of the proof); the
write buffer wraps, fills up while a chunk is sent, and messages are cut by each of the
two limits; keys include NULs, which end the line before what was typed behind them. The type
invariants, but for that of `RingQueue`, are proved for every value of the constants
and need no run. Bounded counters (`MaxSends`, `MaxBytes`,
`MaxTime`, `MaxChunks`, `MaxLen`) only appear in guards or quantifiers. The runs of
`Channel`, `SpscRing` and `TimerService` do not check for deadlock: there the bound
is reached and, in `Channel`, all tasks may have finished. The others do.

### What the violations show

- **A suspended sender's value is lost** (`channel_loss`). When a receive pops
  the buffer, `try_read` (`src/coro/channel/basic_channel.cpp:29`) wakes the oldest
  suspended sender with `success` but never stores its value. The
  comment at `tests/coro/channel_test.cpp:370` says the sender "gets flushed", and
  the test below it sends the same value twice and receives once, so it passes.
  Without storage the promise holds (`channel_rendezvous`), and with storage it
  holds for senders that did not suspend (`PromptSendsArrive`).
- **Timers can fire early** (`timer_early`). `submit`
  (`src/timer/timer_service.cpp:12`) inserts the duration as if counted from the
  last `run`; ticks since then are taken off. The test
  `TimerDoesNotFireBeforeExpiry` (`tests/timer/timer_service_test.cpp:73`) only
  submits right after the service was up to date. `EarlyByAtMostTheGap` bounds the
  error by the time between the starts of two runs; a timer is never late.

### Weaknesses the properties are worded around

- A transmit interrupt in the window between `start_transmit`
  (`src/io/uart_service.cpp:107`) and the store at line 109 is lost. A request with
  a timeout then ends by timeout; one with `wait_forever`, as the console makes,
  stays active and blocks those behind it. `OnlyUntimedRequestsBlock` makes just
  this exception, and `ReadyMeansIdle` excludes the window.
- `uart_dma` equals `success` and `uart_parity` equals `canceled`; an unread error
  is overwritten by the next, even by one that reads as 0. What remains true is
  that success is never reported for a short read (`SuccessMeansFilled`).
- An idle interrupt served while a wrap of the DMA is still to be served is
  consumed by the early return at `src/io/uart_service.cpp:187`: bytes of the new lap
  stay in the DMA buffer until more arrive. `start()` after an aborted reception
  keeps the old `rx_read_offset_`, so as many bytes of the new transfer are passed
  over. In mode `it` the transfer ends with the buffer; an idle line after its last
  byte, before the next `start`, forwards the whole buffer again and leaves the
  offset at its end, so that the next transfer is passed over until it completes.
  `EveryByteForwarded` and `ForwardedInOrder` make just these exceptions.
- `await_ready` of a receive takes bytes ahead of readers that wait, and a reader
  that times out keeps what it was given. Bytes are still given out once and in
  order.
- A task may be started twice before it first runs, or awaited after `start`: the
  asserts test `started`, which only the first resumption sets. A task destroyed
  while the scheduler, a channel or the UART service has its node leaves a dangling
  pointer; only `timer_awaiter` cancels. `fresh` and `MayDestroy` are the discipline
  under which `NothingDangles` holds.
- The output of a command waits for the command to end, since only the console's own
  loop flushes; `OutputDrains` makes this exception. And the console's transmit has no
  timeout, so the window of the first item can hold it up for ever.

## 4. Fairness

- `Channel`: `WF(RunOnce)`, the main loop keeps calling `run_once`, and
  `WF(GivesUpControl)`, a task gives up control at some time. Both are what
  cooperative scheduling demands of the application. No task is assumed to send,
  receive or close.
- `SpscRing`: a push that has begun ends, a store becomes visible in the end, and
  the consumer polls. The producer need not push.
- `TimerService`: `WF(Run)`, the main loop calls `run` and `run` goes on; `WF` on
  time, which no property needs but which no clock lacks.
- `UartTransmit`: the service and the timers are run again and again. Nothing is
  assumed of the device: transfers may hang, interrupts may never come.
- `UartRxDma`: pending interrupts are served and the line is idle at some time, so
  that what is written there is about the handlers, not about a line that never rests.
- `Console`: `WF(ConsoleStep)`, the console and `dispatch` go on when they run;
  `SF(RunOnce)`, the main loop comes round to the scheduler although it prints and
  starts tasks in between; `SF` of giving up control for every other schedulable task
  and `WF` of the return of plain ones, which is cooperative scheduling; `WF(Wake(con))`,
  the UART answers the console (what `UartTransmit` denies for one lost interrupt). No
  key is assumed to come.
- `UartReceive`: strong fairness of `Run` and of the timeout, because tasks that
  call `receive` in between disable both for a moment again and again, while the
  main loop does come round to them; nothing is assumed of the line.

## 5. Proofs

Each `*Proofs` module proves, for each of its components, that an inductive
invariant always holds (`Spec => []IInv`), action by action, and the properties as
corollaries, assuming only the named assumption on the constants in the component's
module. Every invariant and every action property that a passing run checks, and every
refinement, is a theorem.

`QueueLemmas` holds what several proofs need: ranges and injectivity after `Append`,
`Tail` and concatenation; the slots of a ring and what a push or a pop does to them
(`OnRing`); remainders; and `Induction`, on the members of a set of naturals. The
library's induction theorems take an operator as a parameter, which no installed prover
can instantiate; this one is about sets and rests on the finiteness of an interval. From
it follow `HasLeast`, that a set of naturals has a minimum, and `Iteration`, that a
recursion over 0 .. M defines a function.

- `ChannelProofs`, any set of tasks, capacity and number of sends: `TypeOK`,
  `NodesLinkedOnce`, `NoTaskForgotten`, `NoCrossWaiting`. These are inductive only
  with `QueuesMatchSuspension`: without it a waiting reader could be suspended
  elsewhere and be posted twice, and a waiting writer might hold no value. The second
  half is about the history: `HInv` accounts for every send by what was delivered
  followed by the buffer, which a buffered send extends at the end and a receive only
  moves the border in (`BehindFacts`). From it follow `ReceiverGetsWhatItIsTold`,
  `AtMostOnce`, `PromptSendsArrive`, `CanceledNeverArrives` and `PromptSendsInOrder`; and
  when `Capacity = 0`, `SuccessMeansDelivered` and the refinement of `Mailbox`.
- `IntrusiveProofs`, any nodes and queues: `WellLinked`, `PopsInOrder`. The links
  survive a push to another queue only because a node has `OnePlace`. The second part is
  about timers, for any nodes, durations, callbacks, frequency, gap and range of the
  tick counter: `EarlyByAtMostTheGap`, `NothingOverdueAfterRun`, and that the delta queue
  implements `AlarmClock`. `IInv` of `TimerService` says what makes that true:
  `NoOverflow`, the deltas of the whole list add up within the counter's range, so no sum
  wraps although every operation is modular; and `ClockRead`, a run has no more ticks to
  hand out than have passed, which is less than a lap. The due times of the list are
  prefix sums; the proof says of each operation how they change (an insert puts one in
  and moves none, an erase takes one out) and never unfolds them twice.
- `RingQueueProofs`, any number of queues, storages of any size: `TypeOK`, which says
  that the indices agree with the count and that no two queues write to one storage,
  and the refinement of `RecentQueue` by each of them, moves included.
- `SpscRingProofs`, any capacity above 1: `TypeOK`, `NoDataRace`, `InOrder`,
  `SizeIsKept`. The invariant replaces indices by unbounded counts
  (`IndexIsCount`): each index is a count modulo the capacity, `WithinRing` keeps
  the counts within one turn of each other, stale views included, and
  `BytesInPlace` says which byte each slot holds. Two counts less than a turn
  apart never share a slot, which is the absence of races. The module proves the
  facts of modular arithmetic it uses. `RingIsFifo` is the refinement of `ByteFifo`:
  the published stretch of the stream is the queue, the store of an index is the step,
  and every other access is a stutter.
- `UartTransmitProofs`, any tasks and chunks: `TypeOK`, `BufferOutlivesTransfer`,
  `SuccessMeansSent`, `ReadyMeansIdle`, `TimerIsForActive`. `Accounting` is the
  strengthening: the chunks of the active request are sent, being sent or left,
  queued requests have sent nothing, and no transfer is on without an active
  request.
- `UartReceiveProofs`, a buffer of any size in either mode: `ForwardedInOrder`, which is
  far from inductive. `DmaInv` adds what the slots hold, of this lap up to `pos` and of
  the one before while a wrap is pending (`BufferHolds`); which byte may be forwarded next
  in each of these cases (`NextFollows`); and that what `on_rx_idle` has found is still
  there when it pushes it (`FoundIsKept`). And the service, any tasks, ring and lengths: `TypeOK`, `SuccessMeansFilled`,
  `TimerIsForActive`, `BytesOnceInOrder`. `Suspended` says that whoever may still be
  given bytes has not been told the end and is in one place only; `StreamSplit` that
  the bytes of the readers and of the ring are ascending, disjoint and all arrived.
  Adjacent order alone is not inductive: a piece cut from the front of the ring has
  to be compared with what a reader got rounds ago.
- `TaskProofs`, any frames of either kind: `TypeOK` and `NothingDangles` from `IInv`,
  which adds `ControlRuns` (the stack inside `resume()` is exactly those running) and
  `UnstartedHoldNothing` (so that a task destroyed before its start takes nothing
  along). The second half proves `ImplementsThreads`. It needs the shape of the stack,
  `Levels`: a plain task that is started opens a level on top of its caller's, and the
  frames of a level are its top and those that wait for it, one for another, a set
  defined by closure (`Awaiters`); plus `PlainAwaitPlain` and `UnstartedNotStarted`.
  Then the console: every step of the console, of a command and of the tasks beside
  them is a step of `TaskLife` or leaves frames and queues alone; so `NothingDangles`
  and `ImplementsThreads` hold of them for any constants. And `OutputInOrder`: for any
  size of the write buffer, a push appends what there is room for (`PushAppends`) and
  a pop takes the oldest bytes (`PopTakes`), whichever of the two copies wraps. Last,
  `ArgumentsAsTyped`, for a line of any size, any number of arguments and any keys. One
  half is the parser: the line is a C string that ends at the first NUL typed
  (`HeldIsShown`), so that what stands behind it is lost, as the property says; a turn
  of the parser's loop finds the next word (`TokenParses`), all turns together the first
  words, each ended by a NUL and otherwise as typed (`Parsed`, `ParseFinds`).
  The other half is time: `DispatchAwaited` says that as long as `dispatch` exists the
  console is suspended in it, so that no key is read and the line is not touched; that
  rests on `AwaitedByOne` and `ControlRuns`, which hold of the console since it is a
  program of `TaskLife`.

The invariants `IInv` of `TimerService` and `DmaInv` were checked by TLC, as INVARIANTs
of the runs `timer_service` and `uart_rx_dma`, before they were proved.

Only model-checked: the liveness properties (`CloseReleases`, `ReadyTaskRuns`,
`EveryByteArrives`, `RunEnds`, `OnlyUntimedRequestsBlock` of both UART modules,
`EveryByteForwarded`, `OutputDrains`), which are out of TLAPS's reach, as is `ENABLED`. The
two properties of the violation runs are false of the code.

## 6. Not modelled

- Handlers that nest. `on_rx_complete` and `on_rx_idle` both push to a ring that
  admits one producer; with interrupts of different priorities they could interleave.
  Their priorities are set by the application, and the models take them to be equal.
- An abort that fails. `abort_transmit`'s result is ignored, and the device would go on
  reading a buffer that was let go; when that happens is the vendor library's affair.
- What comes after `scheduler::run`: it returns only when no task is ready, so an
  application whose tasks yield for ever has to call `run_once` instead.
- The vendor library below the HAL driver, the three tick sources' registers and the
  host's clock are external: a counter that wraps stands for them.
- `singleton`, `constraints.h` and `bitmask_enum.h` have no behaviour of their own.
  Logging and formatting are left out, but for the lengths of what the console prints.

## 7. Plan

Done: the core (`Channel` with `Mailbox`, `FifoQueue`, `SpscRing` with `ByteFifo`,
`TimerService` with `AlarmClock`, `UartTransmit`, `UartReceive`, `UartRxDma` in both
modes, `RingQueue` with `RecentQueue`); `TaskLife` with `Threads`; `Console` on top of
it; the proofs of section 5.

Left, in this order:

1. A theorem that joins `UartRxDma` and `UartReceive`: what the handlers of the one
   forward is a `push` of the other, so that the readers' bytes are those of the line.
2. `UartRxDma` with nested handlers, to find how much priorities matter.
3. `UartTransmit` with an abort that fails, should the service come to look at its
   result.
