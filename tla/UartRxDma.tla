------------------------------ MODULE UartRxDma ------------------------------
(***************************************************************************)
(* How received bytes get from the buffer of the driver to the receive     *)
(* ring of the UART service, in either transfer mode of the driver.        *)
(*                                                                         *)
(* In mode dma the DMA fills rx_buffer_ round and round (a circular        *)
(* channel, so that reception goes on past the end of the buffer); two     *)
(* interrupts forward what it wrote: idle line, from the UART, and         *)
(* transfer complete, from the DMA at each wrap.  The DMA writes while a   *)
(* handler runs, so on_rx_idle is split where it has read the transfer     *)
(* counter.  The handlers do not nest: they are taken to have the same     *)
(* priority, which their pushes to a ring with one producer need.  They    *)
(* are served before the DMA overwrites a byte they still have to fetch    *)
(* (InTime): a longer delay loses bytes whatever the code does.            *)
(*                                                                         *)
(* In mode it the UART's interrupt stores each byte, and ends the transfer *)
(* with on_rx_complete at the last.                                        *)
(*                                                                         *)
(* A byte is its number in the order of arrival; one that the device does  *)
(* not store has none.                                                     *)
(***************************************************************************)
EXTENDS Integers, Sequences, SequencesExt

CONSTANTS BufferSize,    \* rx_buffer_size_
          NotRead,       \* on_rx_idle is not under way
          DmaBytes       \* bound: bytes that arrive

ASSUME RxDmaAssumption ==
  BufferSize \in Nat \ {0} /\ NotRead \notin 0 .. BufferSize /\ DmaBytes \in Nat

VARIABLES
  mode,           \* mode_ of the driver, a constant: "dma" or "it"
  rxBuffer,       \* rx_buffer_
  readOffset,     \* rx_read_offset_
  writePos,       \* on_rx_idle's local variable write_pos, or NotRead
  stream,         \* the bytes given to rx_ring_buffer_.push, in that order
  receiving,      \* the driver has a transfer on
  pos,            \* where the next byte goes: BufferSize less the counter
  complete,       \* the transfer-complete interrupt is pending
  idle,           \* the idle flag of the UART
  irq,            \* the UART's interrupt is enabled
  busy,           \* a byte has come since the line was last idle
  received,       \* history: how many bytes have arrived
  restarts,       \* history: how many had when a later transfer was started
  missed          \* history: an idle line was not acted upon

serviceVars == <<readOffset, writePos, stream>>
deviceVars == <<rxBuffer, receiving, pos, complete, idle, irq, busy>>
historyVars == <<received, restarts, missed>>
dmaVars == <<mode, serviceVars, deviceVars, historyVars>>

Slot == 0 .. BufferSize - 1

\* Positions in the buffer; in mode it, the end of it too.
Position == IF mode = "it" THEN 0 .. BufferSize ELSE Slot

\* Every variable has its type; in mode dma the offset is never the end.
DmaTypeOK ==
  /\ mode \in {"dma", "it"}
  /\ rxBuffer \in [Slot -> 0 .. DmaBytes]
  /\ readOffset \in Position /\ pos \in Position /\ writePos \in Position \cup {NotRead}
  /\ stream \in Seq(1 .. DmaBytes)
  /\ receiving \in BOOLEAN /\ complete \in BOOLEAN /\ idle \in BOOLEAN
  /\ irq \in BOOLEAN /\ busy \in BOOLEAN /\ missed \in BOOLEAN
  /\ received \in 0 .. DmaBytes /\ restarts \subseteq 1 .. DmaBytes

DmaInit ==
  /\ mode \in {"dma", "it"}
  /\ rxBuffer = [s \in Slot |-> 0]
  /\ readOffset = 0 /\ pos = 0 /\ writePos = NotRead
  /\ stream = <<>>
  /\ receiving = FALSE /\ complete = FALSE /\ idle = FALSE
  /\ irq = FALSE /\ busy = FALSE /\ missed = FALSE
  /\ received = 0 /\ restarts = {}

-----------------------------------------------------------------------------
(* The device.                                                             *)

\* The bytes in the slots of a buffer from "first" up to "end".
slots(b, first, end) == [i \in 1 .. end - first |-> b[first + i - 1]]

\* The slot the DMA writes next holds no byte that is still to be fetched.
InTime == complete => pos < readOffset

Stored ==
  /\ receiving /\ received < DmaBytes
  /\ received' = received + 1
  /\ rxBuffer' = [rxBuffer EXCEPT ![pos] = received + 1]
  /\ busy' = TRUE
  /\ UNCHANGED <<mode, writePos, idle, irq, restarts, missed>>

ByteArrives ==
  /\ mode = "dma" /\ InTime
  /\ Stored
  /\ pos' = (pos + 1) % BufferSize
  /\ complete' = (complete \/ pos' = 0)
  /\ UNCHANGED <<readOffset, stream, receiving>>

\* What on_rx_complete stores in rx_read_offset_.
offset_after_complete == 0

\* on_rx_complete, with the buffer as it is then.
on_rx_complete(b) ==
  /\ stream' = stream \o slots(b, readOffset, BufferSize)
  /\ readOffset' = offset_after_complete

\* The UART's interrupt for a byte; with the last one the transfer is over.
ByteInterrupt ==
  /\ mode = "it" /\ irq /\ writePos = NotRead
  /\ Stored
  /\ pos' = pos + 1
  /\ receiving' = (pos' # BufferSize)
  /\ IF receiving' THEN UNCHANGED <<stream, readOffset>> ELSE on_rx_complete(rxBuffer')
  /\ UNCHANGED complete

LineIdle ==
  /\ busy
  /\ busy' = FALSE
  /\ idle' = TRUE
  /\ UNCHANGED <<mode, serviceVars, rxBuffer, receiving, pos, complete, irq, historyVars>>

\* On a reception error the driver ends the transfer; the service hears of the
\* error only, and starts no other.
ReceptionAborted ==
  /\ receiving
  /\ receiving' = FALSE
  /\ complete' \in {complete, FALSE}
  /\ UNCHANGED <<mode, serviceVars, rxBuffer, pos, idle, irq, busy, historyVars>>

-----------------------------------------------------------------------------
(* The driver's calls.                                                     *)

\* start_receive: refused, which the service ignores, while a transfer is on.
start_receive ==
  IF receiving
  THEN UNCHANGED <<receiving, pos, complete, restarts>>
  ELSE /\ receiving' = TRUE
       /\ pos' = 0 /\ complete' = FALSE
       /\ restarts' = IF received = 0 THEN restarts ELSE restarts \cup {received}

\* enable_irq clears the idle flag first.
enable_irq ==
  /\ irq' = TRUE
  /\ idle' = FALSE
  /\ missed' = (missed \/ idle)

\* get_rx_transfer_remaining: the DMA's counter is reloaded when it comes to 0;
\* the driver's, in mode it, stays there until the next start_receive.
get_rx_transfer_remaining == BufferSize - pos

-----------------------------------------------------------------------------
(* The service.                                                            *)

\* start, which leaves rx_read_offset_ as it is.
ServiceStart ==
  /\ writePos = NotRead
  /\ start_receive
  /\ enable_irq
  /\ UNCHANGED <<mode, serviceVars, rxBuffer, busy, received>>

\* stop, as far as receiving from the device goes: the UART's interrupt is
\* disabled; in mode dma the transfer and the DMA's interrupt go on.
ServiceStop ==
  /\ writePos = NotRead
  /\ irq' = FALSE
  /\ UNCHANGED <<mode, serviceVars, rxBuffer, receiving, pos, complete, idle, busy, historyVars>>

OnRxComplete ==
  /\ complete /\ writePos = NotRead
  /\ complete' = FALSE
  /\ on_rx_complete(rxBuffer)
  /\ UNCHANGED <<mode, writePos, rxBuffer, receiving, pos, idle, irq, busy, historyVars>>

\* on_rx_idle, first half: the flag is cleared, the counter read.
OnRxIdle ==
  /\ idle /\ irq /\ writePos = NotRead
  /\ idle' = FALSE
  /\ writePos' = BufferSize - get_rx_transfer_remaining
  /\ UNCHANGED <<mode, readOffset, stream, rxBuffer, receiving, pos, complete, irq, busy, historyVars>>

\* Mutant: a position behind the offset is not recognised.
nothing_new_if_equal == writePos = readOffset

\* Mutant: a single new byte is not worth a push.
nothing_new_if_one == writePos <= readOffset + 1

\* The early return: the DMA has written nothing more, or has wrapped.
nothing_new == writePos <= readOffset

\* on_rx_idle, second half.
OnRxIdleForwards ==
  /\ writePos # NotRead
  /\ writePos' = NotRead
  /\ IF nothing_new
     THEN /\ missed' = (missed \/ complete)
          /\ UNCHANGED <<readOffset, stream>>
     ELSE /\ stream' = stream \o slots(rxBuffer, readOffset, writePos)
          /\ readOffset' = writePos
          /\ UNCHANGED missed
  /\ UNCHANGED <<mode, deviceVars, received, restarts>>

Handlers == OnRxComplete \/ OnRxIdle \/ OnRxIdleForwards

DmaNext ==
  \/ ByteArrives \/ ByteInterrupt \/ LineIdle \/ ReceptionAborted
  \/ ServiceStart \/ ServiceStop
  \/ Handlers

DmaSpec == DmaInit /\ [][DmaNext]_dmaVars

\* Pending interrupts are served, and the line is idle at some time.
DmaFairSpec ==
  /\ DmaSpec /\ WF_dmaVars(LineIdle)
  /\ WF_dmaVars(OnRxComplete) /\ WF_dmaVars(OnRxIdle) /\ WF_dmaVars(OnRxIdleForwards)

-----------------------------------------------------------------------------
\* The byte forwarded last.
lastForwarded == IF stream = <<>> THEN 0 ELSE Last(stream)

\* Whether b may be forwarded right after a: it came later, and what came
\* between did so before a later transfer was started.  One repetition exists:
\* in mode it, an idle line after the last byte of the buffer forwards the
\* whole buffer again.
MayFollow(a, b) ==
  /\ a >= b => mode = "it" /\ b + BufferSize = a + 1
  /\ a + 1 < b => \E r \in restarts : a <= r /\ r < b

\* The bytes forwarded are in the order of arrival, none twice, whatever the
\* order of the two interrupts, and none is left out, but for the exceptions
\* of MayFollow.
ForwardedInOrder ==
  LET s == <<0>> \o stream IN \A i \in 1 .. Len(s) - 1 : MayFollow(s[i], s[i + 1])

\* How many bytes had arrived when the buffer was last begun.
lap == received - pos

\* The slots up to pos hold the bytes of this lap; while the interrupt of the
\* wrap is pending, the others still hold those of the lap before.
BufferHolds ==
  /\ pos <= received
  /\ \A s \in Slot : rxBuffer[s] <= received
  /\ \A s \in Slot : s < pos => rxBuffer[s] = lap + s + 1
  /\ complete =>
       /\ mode = "dma" /\ pos <= readOffset /\ lap >= BufferSize
       /\ \A s \in Slot : s >= pos => rxBuffer[s] = lap - BufferSize + s + 1
  /\ mode = "it" /\ receiving => pos < BufferSize

\* The next byte to be forwarded, in the buffer or still to come, is one that
\* may follow.  After an error nothing more comes into the buffer; in mode it,
\* an offset at the end of the buffer makes a transfer begin again at 0.
NextFollows ==
  /\ lastForwarded <= received /\ (readOffset > 0 => received > 0)
  /\ ~complete /\ (receiving \/ pos > readOffset) =>
       MayFollow(lastForwarded, lap + readOffset + 1)
  /\ complete => MayFollow(lastForwarded, lap - BufferSize + readOffset + 1)
  /\ mode = "it" /\ receiving /\ readOffset = BufferSize => MayFollow(lastForwarded, lap + 1)

\* What on_rx_idle has found to forward stays in the buffer until it has: the
\* DMA is past it, or stopped by InTime in front of it.
FoundIsKept ==
  writePos # NotRead /\ writePos > readOffset =>
    /\ \A s \in readOffset .. writePos - 1 :
         rxBuffer[s] = rxBuffer[readOffset] + (s - readOffset)
    /\ rxBuffer[readOffset] > 0 /\ MayFollow(lastForwarded, rxBuffer[readOffset])
    /\ receiving /\ ~complete => writePos <= pos

\* The inductive invariant.
DmaInv == DmaTypeOK /\ ForwardedInOrder /\ BufferHolds /\ NextFollows /\ FoundIsKept

\* A byte does not stay behind in the DMA's buffer, unless reception was
\* aborted or stopped, or an idle line was not acted upon: its flag cleared by
\* start, or served while a wrap of the DMA was still to be served.
EveryByteForwarded ==
  \A n \in 1 .. DmaBytes :
    received >= n ~> n \in ToSet(stream) \/ ~receiving \/ ~irq \/ missed \/ restarts # {}
=============================================================================
