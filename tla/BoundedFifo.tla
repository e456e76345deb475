---------------------------- MODULE BoundedFifo ----------------------------
(***************************************************************************)
(* What the circular buffers of the repository (C, Rust and Python)        *)
(* promise their caller: a first-in first-out queue of at most Capacity    *)
(* items.  A push on a full queue and a pop on an empty one are refused    *)
(* and change nothing but the reported success flag.                       *)
(***************************************************************************)
EXTENDS Naturals, Sequences

CONSTANTS Capacity, Item

VARIABLES queue,   \* the items inside, oldest first
          ok,      \* did the last operation succeed
          data     \* the item the last successful pop handed out

vars == <<queue, ok, data>>

Init == queue = <<>> /\ ok \in BOOLEAN /\ data \in Item

Push(x) ==
  /\ IF Len(queue) < Capacity
       THEN queue' = Append(queue, x) /\ ok' = TRUE
       ELSE queue' = queue /\ ok' = FALSE
  /\ data' = data

Pop ==
  IF queue # <<>>
    THEN data' = Head(queue) /\ queue' = Tail(queue) /\ ok' = TRUE
    ELSE UNCHANGED <<queue, data>> /\ ok' = FALSE

Next == Pop \/ \E x \in Item : Push(x)

Spec == Init /\ [][Next]_vars
=============================================================================
