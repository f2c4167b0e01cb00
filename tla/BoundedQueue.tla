---------------------------- MODULE BoundedQueue ----------------------------
(***************************************************************************)
(* What SyncQueue<T> promises to one pushing and one popping thread: a     *)
(* FIFO of at most Bound values.  A push is refused only when the queue is *)
(* full, a pop finds nothing only when it is empty, and a batch is a       *)
(* prefix of what is queued.  Every operation is one step.                 *)
(***************************************************************************)
EXTENDS Integers, Sequences

CONSTANTS
    Values,     \* what can be queued
    Bound,      \* how many values fit
    MaxBatch    \* the largest batch a popBatch may ask for

VARIABLES
    items,      \* the queued values, oldest first
    accepted,   \* did the last push store its value?
    out         \* what the last pop, popWait or popBatch returned

vars == <<items, accepted, out>>

Init ==
    /\ items = <<>>
    /\ accepted = TRUE
    /\ out = <<>>

Put(v) ==
    /\ Len(items) < Bound
    /\ items' = Append(items, v)
    /\ accepted' = TRUE
    /\ UNCHANGED out

Refuse ==
    /\ Len(items) = Bound
    /\ accepted' = FALSE
    /\ UNCHANGED <<items, out>>

Take(n) ==
    /\ n <= Len(items)
    /\ out' = SubSeq(items, 1, n)
    /\ items' = SubSeq(items, n + 1, Len(items))
    /\ UNCHANGED accepted

TakeNothing ==
    /\ items = <<>>
    /\ out' = <<>>
    /\ UNCHANGED <<items, accepted>>

Next ==
    \/ \E v \in Values : Put(v)
    \/ Refuse
    \/ \E n \in 1..MaxBatch : Take(n)
    \/ TakeNothing

Spec == Init /\ [][Next]_vars
=============================================================================
