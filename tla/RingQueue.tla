------------------------------ MODULE RingQueue ------------------------------
(***************************************************************************)
(* The ring queue: entries in a storage the caller owns, an index for each *)
(* end and a count.  The channel keeps its values in one.  A queue object  *)
(* can be moved to another, so the model has several.                      *)
(***************************************************************************)
EXTENDS Naturals, Sequences

CONSTANTS Queue,       \* the raw_ring_queue objects
          NULL,        \* the null pointer
          Capacity,    \* bound: entries of the longest storage
          Value

ASSUME RingQueueAssumption == NULL \notin Queue /\ Capacity \in Nat

VARIABLES
  buffer,         \* buffer_, a storage named by the queue it was made for, or NULL
  capacity,       \* capacity_
  head, tail,     \* head_, tail_
  size,           \* size_
  storage         \* storage[b]: the entries of storage b

vars == <<buffer, capacity, head, tail, size, storage>>

Position == 0 .. Capacity - 1

Init ==
  /\ capacity \in [Queue -> 0 .. Capacity]
  /\ buffer = [q \in Queue |-> IF capacity[q] = 0 THEN NULL ELSE q]
  /\ head = [q \in Queue |-> 0] /\ tail = [q \in Queue |-> 0]
  /\ size = [q \in Queue |-> 0]
  /\ \E v \in Value : storage = [b \in Queue |-> [p \in Position |-> v]]

full(q) == size[q] = capacity[q]

\* Mutant: the end of the array is taken for the end of the ring.
next_position_in_array(q, p) == (p + 1) % Capacity

next_position(q, p) == (p + 1) % capacity[q]

\* push, of a queue with a storage: the oldest entry of a full queue is overwritten.
push(q, v) ==
  /\ capacity[q] > 0
  /\ storage' = [storage EXCEPT ![buffer[q]][tail[q]] = v]
  /\ tail' = [tail EXCEPT ![q] = next_position(q, @)]
  /\ IF full(q)
     THEN head' = [head EXCEPT ![q] = next_position(q, @)] /\ UNCHANGED size
     ELSE size' = [size EXCEPT ![q] = @ + 1] /\ UNCHANGED head
  /\ UNCHANGED <<buffer, capacity>>

\* pop_front; of an empty queue it changes nothing.
pop_front(q) ==
  /\ size[q] > 0
  /\ head' = [head EXCEPT ![q] = next_position(q, @)]
  /\ size' = [size EXCEPT ![q] = @ - 1]
  /\ UNCHANGED <<buffer, capacity, tail, storage>>

clear(q) ==
  /\ head' = [head EXCEPT ![q] = 0] /\ tail' = [tail EXCEPT ![q] = 0]
  /\ size' = [size EXCEPT ![q] = 0]
  /\ UNCHANGED <<buffer, capacity, storage>>

\* Mutant: the object moved from keeps its storage.
exchanged_buffer_kept(q, r) == [buffer EXCEPT ![r] = buffer[q]]

exchanged_buffer(q, r) == [buffer EXCEPT ![r] = buffer[q], ![q] = NULL]

\* r = std::move(q): q is left as a queue made without storage.
move(q, r) ==
  /\ q # r
  /\ buffer' = exchanged_buffer(q, r)
  /\ capacity' = [capacity EXCEPT ![r] = capacity[q], ![q] = 0]
  /\ head' = [head EXCEPT ![r] = head[q], ![q] = 0]
  /\ tail' = [tail EXCEPT ![r] = tail[q], ![q] = 0]
  /\ size' = [size EXCEPT ![r] = size[q], ![q] = 0]
  /\ UNCHANGED storage

Next ==
  \/ \E q \in Queue : pop_front(q) \/ clear(q) \/ \E v \in Value : push(q, v)
  \/ \E q, r \in Queue : move(q, r)

Spec == Init /\ [][Next]_vars

-----------------------------------------------------------------------------
\* The tail is "size" entries after the head, both within the storage.
WellFormed(q) ==
  /\ capacity[q] \in 0 .. Capacity /\ size[q] \in 0 .. capacity[q]
  /\ capacity[q] = 0 => buffer[q] = NULL /\ head[q] = 0 /\ tail[q] = 0
  /\ capacity[q] > 0 =>
       /\ buffer[q] # NULL
       /\ head[q] \in 0 .. capacity[q] - 1
       /\ tail[q] = (head[q] + size[q]) % capacity[q]

\* Each variable has its type, each queue is well formed, and no two queues
\* write to the same storage.
TypeOK ==
  /\ buffer \in [Queue -> Queue \cup {NULL}]
  /\ storage \in [Queue -> [Position -> Value]]
  /\ capacity \in [Queue -> Nat] /\ size \in [Queue -> Nat]
  /\ head \in [Queue -> Nat] /\ tail \in [Queue -> Nat]
  /\ \A q \in Queue : WellFormed(q)
  /\ \A q, r \in Queue : q # r /\ buffer[q] # NULL => buffer[q] # buffer[r]

\* The entries of a queue from its head on.
Contents(q) ==
  [i \in 1 .. size[q] |-> storage[buffer[q]][(head[q] + (i - 1)) % capacity[q]]]

R == INSTANCE RecentQueue WITH
       Holder <- Queue, content <- [q \in Queue |-> Contents(q)], bound <- capacity

\* The ring is a queue of bounded length that keeps the latest entries, also
\* when it overwrites, wraps, or is moved from one object to another.
ImplementsRecentQueue == R!Spec
=============================================================================
