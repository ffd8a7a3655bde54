------------------------------ MODULE SpscRing ------------------------------
(***************************************************************************)
(* The lock-free byte ring between one producer and one consumer, one      *)
(* memory access per step.  In the UART driver the producer is an          *)
(* interrupt handler and the consumer the main loop, or the reverse.       *)
(*                                                                         *)
(* A byte is its position in the stream of accepted bytes: 1, 2, 3, ...    *)
(*                                                                         *)
(* Memory: each side owns one index and loads the other's with acquire     *)
(* from a release store.  An acquire load may return an older value than   *)
(* the last store, but no older than the last it returned; headSeen and    *)
(* tailSeen are those values, and catch up at any time (HeadArrives,       *)
(* TailArrives).  What a side did before the store it sees is visible to   *)
(* it, so the bytes themselves can live in one memory as long as no byte   *)
(* is accessed by both at once, which is NoDataRace.                       *)
(***************************************************************************)
EXTENDS Integers, Sequences

CONSTANTS Capacity,   \* capacity_: slots of the storage, one of which stays free
          MaxLen,     \* bound: longest push or pop asked for
          MaxBytes    \* bound: bytes accepted in a behaviour

ASSUME SpscAssumption ==
  /\ Capacity \in Nat \ {0, 1}
  /\ MaxLen \in Nat \ {0}
  /\ MaxBytes \in Nat

VARIABLES
  buff, head, tail,             \* the object
  headSeen, tailSeen,           \* head_ as the producer, tail_ as the consumer sees it
  pPc, toWrite, written,        \* push: where it is, to_write, bytes copied
  cPc, toRead, out, atLeast,    \* pop_front: the same, with the bytes copied out;
                                \*   atLeast is what size() last returned
  pushed, popped,               \* history: bytes accepted, bytes taken
  pushedSeen, poppedSeen        \* history: the same when the index seen was stored

producerVars == <<pPc, toWrite, written>>
consumerVars == <<cPc, toRead, out, atLeast>>
historyVars == <<pushed, popped, pushedSeen, poppedSeen>>
vars == <<buff, head, tail, headSeen, tailSeen, producerVars, consumerVars, historyVars>>

Index == 0 .. Capacity - 1

\* Every variable has its type, and no copy runs over its length.
TypeOK ==
  /\ buff \in [Index -> Nat]
  /\ head \in Index /\ tail \in Index /\ headSeen \in Index /\ tailSeen \in Index
  /\ pPc \in {"idle", "copy"} /\ cPc \in {"idle", "copy"}
  /\ toWrite \in 0 .. Capacity - 1 /\ written \in 0 .. toWrite
  /\ toRead \in 0 .. Capacity - 1 /\ out \in Seq(Nat) /\ Len(out) <= toRead
  /\ atLeast \in 0 .. Capacity - 1
  /\ pushed \in Nat /\ popped \in Nat /\ pushedSeen \in Nat /\ poppedSeen \in Nat

Init ==
  /\ buff = [i \in Index |-> 0]
  /\ head = 0 /\ tail = 0 /\ headSeen = 0 /\ tailSeen = 0
  /\ pPc = "idle" /\ toWrite = 0 /\ written = 0
  /\ cPc = "idle" /\ toRead = 0 /\ out = <<>> /\ atLeast = 0
  /\ pushed = 0 /\ popped = 0 /\ pushedSeen = 0 /\ poppedSeen = 0

Min2(a, b) == IF a <= b THEN a ELSE b

-----------------------------------------------------------------------------
(* Index arithmetic of both operations.                                    *)

\* Mutant: no slot is kept free, so a full ring looks empty.
free_all_slots(h, t) == IF h = t THEN Capacity ELSE (h - t + Capacity) % Capacity

free(h, t) == (h - t - 1 + Capacity) % Capacity

\* Mutant: a wrapped tail looks like an empty ring.
available_no_wrap(h, t) == IF t >= h THEN t - h ELSE 0

available(h, t) == (t - h + Capacity) % Capacity

\* Mutant: beyond the end of the storage every byte lands in the last slot.
slot_no_wrap(start, n, i) ==
  LET first == Min2(n, Capacity - start) IN
  IF i < first THEN start + i ELSE first - 1

\* The slot of byte i of n, from "start": two memcpys, the second from buff_[0].
slot(start, n, i) ==
  LET first == Min2(n, Capacity - start) IN
  IF i < first THEN start + i ELSE i - first

advance(index, n) == (index + n) % Capacity

-----------------------------------------------------------------------------
(* push, called by the producer.                                           *)

\* Both indices are loaded; nothing to write ends the call.
PushBegin(len) ==
  /\ pPc = "idle"
  /\ pushed + len <= MaxBytes
  /\ toWrite' = Min2(free(headSeen, tail), len)
  /\ toWrite' > 0
  /\ written' = 0
  /\ pPc' = "copy"
  /\ UNCHANGED <<buff, head, tail, headSeen, tailSeen, consumerVars, historyVars>>

PushByte ==
  /\ pPc = "copy" /\ written < toWrite
  /\ buff' = [buff EXCEPT ![slot(tail, toWrite, written)] = pushed + written + 1]
  /\ written' = written + 1
  /\ UNCHANGED <<head, tail, headSeen, tailSeen, pPc, toWrite, consumerVars, historyVars>>

\* Mutant: the index is published while bytes are still being copied.
copied_early == pPc = "copy" /\ written > 0

copied == pPc = "copy" /\ written = toWrite

\* The release store of tail_.
PushStore ==
  /\ copied
  /\ tail' = advance(tail, toWrite)
  /\ pushed' = pushed + toWrite
  /\ pPc' = "idle" /\ toWrite' = 0 /\ written' = 0
  /\ UNCHANGED <<buff, head, headSeen, tailSeen, consumerVars, popped, pushedSeen, poppedSeen>>

-----------------------------------------------------------------------------
(* size and pop_front, called by the consumer.                             *)

\* Mutant: the size is one too many.
size_off_by_one == Min2(available(head, tailSeen) + 1, Capacity - 1)

size == available(head, tailSeen)

Size ==
  /\ cPc = "idle"
  /\ atLeast' = size
  /\ UNCHANGED <<buff, head, tail, headSeen, tailSeen, producerVars, cPc, toRead, out,
                 historyVars>>

\* With nothing to read the code goes on and stores head_ as it was: no change.
PopBegin(max_len) ==
  /\ cPc = "idle"
  /\ toRead' = Min2(available(head, tailSeen), max_len)
  /\ toRead' > 0
  /\ out' = <<>>
  /\ cPc' = "copy"
  /\ UNCHANGED <<buff, head, tail, headSeen, tailSeen, producerVars, atLeast, historyVars>>

PopByte ==
  /\ cPc = "copy" /\ Len(out) < toRead
  /\ out' = Append(out, buff[slot(head, toRead, Len(out))])
  /\ UNCHANGED <<buff, head, tail, headSeen, tailSeen, producerVars, cPc, toRead, atLeast,
                 historyVars>>

\* The release store of head_.
PopStore ==
  /\ cPc = "copy" /\ Len(out) = toRead
  /\ head' = advance(head, toRead)
  /\ popped' = popped + toRead
  /\ cPc' = "idle" /\ toRead' = 0 /\ out' = <<>> /\ atLeast' = 0
  /\ UNCHANGED <<buff, tail, headSeen, tailSeen, producerVars, pushed, pushedSeen, poppedSeen>>

-----------------------------------------------------------------------------
\* The consumer's last store becomes visible to the producer.
HeadArrives ==
  /\ headSeen # head \/ poppedSeen # popped
  /\ headSeen' = head
  /\ poppedSeen' = popped
  /\ UNCHANGED <<buff, head, tail, tailSeen, producerVars, consumerVars, pushed, popped,
                 pushedSeen>>

\* The producer's last store becomes visible to the consumer.
TailArrives ==
  /\ tailSeen # tail \/ pushedSeen # pushed
  /\ tailSeen' = tail
  /\ pushedSeen' = pushed
  /\ UNCHANGED <<buff, head, tail, headSeen, producerVars, consumerVars, pushed, popped,
                 poppedSeen>>

Producer == PushByte \/ PushStore \/ \E len \in 1 .. MaxLen : PushBegin(len)
Pop == PopByte \/ PopStore \/ \E max_len \in 1 .. MaxLen : PopBegin(max_len)

Next == Producer \/ Size \/ Pop \/ HeadArrives \/ TailArrives

Spec == Init /\ [][Next]_vars

\* A push that has begun ends, a store becomes visible, and the consumer keeps
\* polling.  Nothing makes the producer push.
FairSpec ==
  Spec /\ WF_vars(PushByte \/ PushStore) /\ WF_vars(TailArrives) /\ WF_vars(Pop)

-----------------------------------------------------------------------------
\* The slots a side still has to access in the copy it is making.
WriteSet ==
  IF pPc = "copy" THEN {slot(tail, toWrite, i) : i \in written .. toWrite - 1} ELSE {}
ReadSet ==
  IF cPc = "copy" THEN {slot(head, toRead, i) : i \in Len(out) .. toRead - 1} ELSE {}

\* Producer and consumer never have the same slot to access: the memcpys,
\* which are plain accesses, do not race.
NoDataRace == WriteSet \cap ReadSet = {}

\* The consumer copies out exactly the next bytes of the stream.
InOrder == \A i \in 1 .. Len(out) : out[i] = popped + i

\* Between size() and the pop_front it guards, the ring does not shrink: the
\* service that finds enough bytes may rely on getting them.
SizeIsKept == atLeast <= pushed - popped

\* The inductive invariant behind the three above: each index is a count of
\* bytes modulo the capacity, each side runs behind the other within the ring,
\* and every slot between the counts holds the byte that belongs there.
IndexIsCount ==
  /\ head = popped % Capacity /\ headSeen = poppedSeen % Capacity
  /\ tail = pushed % Capacity /\ tailSeen = pushedSeen % Capacity

WithinRing ==
  /\ poppedSeen <= popped /\ pushedSeen <= pushed
  /\ pushed + toWrite <= poppedSeen + Capacity - 1
  /\ popped + toRead <= pushedSeen /\ popped + atLeast <= pushedSeen
  /\ pPc = "idle" => toWrite = 0 /\ written = 0

BytesInPlace == \A p \in popped .. pushed + written - 1 : buff[p % Capacity] = p + 1

IInv == TypeOK /\ IndexIsCount /\ WithinRing /\ BytesInPlace /\ InOrder

-----------------------------------------------------------------------------
\* The bytes in the ring, from head_ up to tail_.
Contents == [i \in 1 .. available(head, tail) |-> buff[advance(head, i - 1)]]

F == INSTANCE ByteFifo WITH queue <- Contents, Bound <- Capacity - 1

\* The ring is a FIFO: a push takes effect at its store of tail_, a pop at its
\* store of head_, and no other step is visible.
ImplementsFifo == F!Spec

\* What was accepted is received.
EveryByteArrives == \A n \in 1 .. MaxBytes : pushed >= n ~> popped >= n
=============================================================================
