----------------------------- MODULE RecentQueue -----------------------------
(***************************************************************************)
(* What the ring queue promises: a queue of bounded length that forgets    *)
(* its oldest entry rather than refuse a new one.  The contents and the    *)
(* bound of a holder can be moved to another, which leaves it with none.   *)
(***************************************************************************)
EXTENDS Naturals, Sequences

CONSTANTS Holder, Value

VARIABLES content, bound

vars == <<content, bound>>

Init ==
  /\ content = [h \in Holder |-> <<>>]
  /\ bound \in [Holder -> Nat]

Put(h, v) ==
  /\ bound[h] > 0
  /\ content' = [content EXCEPT ![h] =
                  IF Len(@) < bound[h] THEN Append(@, v) ELSE Append(Tail(@), v)]
  /\ UNCHANGED bound

Take(h) ==
  /\ content[h] # <<>>
  /\ content' = [content EXCEPT ![h] = Tail(@)]
  /\ UNCHANGED bound

Discard(h) == content' = [content EXCEPT ![h] = <<>>] /\ UNCHANGED bound

Move(h, g) ==
  /\ h # g
  /\ content' = [content EXCEPT ![g] = content[h], ![h] = <<>>]
  /\ bound' = [bound EXCEPT ![g] = bound[h], ![h] = 0]

Next ==
  \/ \E h \in Holder : Take(h) \/ Discard(h) \/ \E v \in Value : Put(h, v)
  \/ \E h, g \in Holder : Move(h, g)

Spec == Init /\ [][Next]_vars
=============================================================================
