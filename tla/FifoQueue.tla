------------------------------ MODULE FifoQueue ------------------------------
(***************************************************************************)
(* The intrusive FIFO on which the scheduler and the channels queue their  *)
(* nodes: a singly linked list with a pointer to its last node, the links  *)
(* stored in the nodes.  A program has several queues (the waiting readers *)
(* and writers of each channel, the ready tasks of each scheduler), and    *)
(* nothing ties a node to one of them: the model lets a node that was      *)
(* popped from one be pushed to another.                                   *)
(***************************************************************************)
EXTENDS Naturals, Sequences, Functions

CONSTANTS FifoNode,  \* the nodes, owned by the callers
          Queue,     \* the fifo_queue objects
          NULL       \* the null pointer

ASSUME FifoAssumption == NULL \notin FifoNode

VARIABLES
  head, tail,     \* head_ and tail_ of each queue
  size,           \* size_ of each queue
  next,           \* the field of each node
  content         \* history: the nodes each queue should hold, oldest first

fifoVars == <<head, tail, size, next, content>>

Pointer == FifoNode \cup {NULL}

\* Every variable has its type.
FifoTypeOK ==
  /\ head \in [Queue -> Pointer] /\ tail \in [Queue -> Pointer]
  /\ size \in [Queue -> Nat]
  /\ next \in [FifoNode -> Pointer]
  /\ content \in [Queue -> Seq(FifoNode)]

\* The field of a node that was never queued is not initialised.
FifoInit ==
  /\ head = [q \in Queue |-> NULL] /\ tail = [q \in Queue |-> NULL]
  /\ size = [q \in Queue |-> 0]
  /\ next \in [FifoNode -> Pointer]
  /\ content = [q \in Queue |-> <<>>]

\* The callers push no node that some queue still holds: push does not check.
Free(n) == \A q \in Queue : n \notin Range(content[q])

-----------------------------------------------------------------------------
(* push and pop_front.                                                     *)

\* Mutant: the link of the new node is left as it was.
linked_stale(q, n) == IF tail[q] = NULL THEN next ELSE [next EXCEPT ![tail[q]] = n]

\* The links after push: the last node points to n, and n to nothing.
linked(q, n) ==
  [m \in FifoNode |-> IF m = n THEN NULL ELSE IF m = tail[q] THEN n ELSE next[m]]

push(q, n) ==
  /\ Free(n)
  /\ head' = [head EXCEPT ![q] = IF tail[q] = NULL THEN n ELSE @]
  /\ next' = linked(q, n)
  /\ tail' = [tail EXCEPT ![q] = n]
  /\ size' = [size EXCEPT ![q] = @ + 1]
  /\ content' = [content EXCEPT ![q] = Append(@, n)]

\* Mutant: the tail is not reset when the last node leaves.
tail_kept(q) == tail

\* The tail after pop_front: reset when the last node leaves.
tail_after_pop(q) == IF next[head[q]] = NULL THEN [tail EXCEPT ![q] = NULL] ELSE tail

\* pop_front; of an empty queue it changes nothing.
pop_front(q) ==
  /\ head[q] # NULL
  /\ head' = [head EXCEPT ![q] = next[head[q]]]
  /\ tail' = tail_after_pop(q)
  /\ size' = [size EXCEPT ![q] = @ - 1]
  /\ content' = [content EXCEPT ![q] = Tail(@)]
  /\ UNCHANGED next

FifoNext == \E q \in Queue : pop_front(q) \/ \E n \in FifoNode : push(q, n)

FifoSpec == FifoInit /\ [][FifoNext]_fifoVars

-----------------------------------------------------------------------------
\* A queue's pointers agree with what was pushed and not yet popped: head_ is
\* the oldest node, tail_ the newest, next leads from each node to the one
\* pushed after it, whatever happens to the other queues.
WellLinked ==
  \A q \in Queue :
    LET c == content[q] IN
    /\ size[q] = Len(c)
    /\ c = <<>> => head[q] = NULL /\ tail[q] = NULL
    /\ c # <<>> => head[q] = c[1] /\ tail[q] = c[Len(c)] /\ next[c[Len(c)]] = NULL
    /\ \A i \in 1 .. Len(c) - 1 : next[c[i]] = c[i + 1]

\* Popping gives the nodes back in the order they were pushed, and an empty
\* queue is one that gave every node back.
PopsInOrder ==
  [][\A q \in Queue :
       /\ pop_front(q) => head[q] = Head(content[q])
       /\ head'[q] = NULL <=> content'[q] = <<>>]_fifoVars

\* A node is in one queue, and in one place of it.
OnePlace ==
  /\ \A q, r \in Queue : q # r => Range(content[q]) \cap Range(content[r]) = {}
  /\ \A q \in Queue : \A i, j \in DOMAIN content[q] : content[q][i] = content[q][j] => i = j
=============================================================================
