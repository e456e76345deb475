--------------------------- MODULE CircularBuffer ---------------------------
(***************************************************************************)
(* The circular buffer written three times in the repository:              *)
(* hello-c/da-basizz/circular-buffer.c, hello-rust/circular-buffer.rs and  *)
(* hello-python/circular-buffer.py.  The three agree on every index        *)
(* computation; they differ in what a pop leaves in the slot it emptied    *)
(* (C leaves the old byte, Rust and Python put None there), which is the   *)
(* constant ClearsOnPop.                                                   *)
(***************************************************************************)
EXTENDS Naturals, Sequences

CONSTANTS
  Capacity,       \* BUFFER_SIZE, N, capacity
  Item,           \* the items a caller may push
  Vacant,         \* None: the content of a slot Rust and Python cleared
  ClearsOnPop,    \* TRUE for Rust and Python, FALSE for C
  BitAnd(_, _)    \* the & operator of the three languages

\* The capacity check of the Rust and Python constructors.
ASSUME CapacityAssumption ==
  Capacity \in Nat \ {0} /\ BitAnd(Capacity, Capacity - 1) = 0

\* The comment at circular-buffer.c:37: masking with BUFFER_SIZE - 1 is the
\* remainder of the division by it, on the values an index plus one takes.
ASSUME MaskAssumption ==
  \A i \in 1..Capacity : BitAnd(i, Capacity - 1) = i % Capacity

ASSUME ItemAssumption ==
  Item # {} /\ Vacant \notin Item /\ ClearsOnPop \in BOOLEAN

VARIABLES
  buffer, head, tail, count,
  ok,     \* what the last push or pop returned
  data    \* the item the last successful pop handed out

vars == <<buffer, head, tail, count, ok, data>>

Slot == 0..(Capacity - 1)
Advance(i) == BitAnd(i + 1, Capacity - 1)

IsFull == count = Capacity
IsEmpty == count = 0

\* cb_init leaves the C array uninitialised; Rust and Python fill it with None.
Init ==
  /\ buffer \in [Slot -> IF ClearsOnPop THEN {Vacant} ELSE Item]
  /\ head = 0 /\ tail = 0 /\ count = 0
  /\ ok \in BOOLEAN /\ data \in Item

PushRefused ==
  /\ IsFull
  /\ ok' = FALSE
  /\ UNCHANGED <<buffer, head, tail, count, data>>

Push(x) ==
  /\ ~IsFull
  /\ buffer' = [buffer EXCEPT ![head] = x]
  /\ head' = Advance(head)
  /\ count' = count + 1
  /\ ok' = TRUE
  /\ UNCHANGED <<tail, data>>

PopRefused ==
  /\ IsEmpty
  /\ ok' = FALSE
  /\ UNCHANGED <<buffer, head, tail, count, data>>

\* Mutant: the slot keeps its item in every language.
Emptied_Keeps == buffer

\* The buffer after the slot at tail was popped.
Emptied == IF ClearsOnPop THEN [buffer EXCEPT ![tail] = Vacant] ELSE buffer

\* Mutant: a pop does not count.
Pop_KeepsCount ==
  /\ ~IsEmpty
  /\ data' = buffer[tail]
  /\ buffer' = Emptied
  /\ tail' = Advance(tail)
  /\ ok' = TRUE
  /\ UNCHANGED <<head, count>>

\* Mutant: a pop takes the item at head.
Pop_AtHead ==
  /\ ~IsEmpty
  /\ data' = buffer[head]
  /\ buffer' = Emptied
  /\ tail' = Advance(tail)
  /\ count' = count - 1
  /\ ok' = TRUE
  /\ UNCHANGED head

Pop ==
  /\ ~IsEmpty
  /\ data' = buffer[tail]
  /\ buffer' = Emptied
  /\ tail' = Advance(tail)
  /\ count' = count - 1
  /\ ok' = TRUE
  /\ UNCHANGED head

Next == PushRefused \/ PopRefused \/ Pop \/ \E x \in Item : Push(x)

Spec == Init /\ [][Next]_vars
-----------------------------------------------------------------------------
\* The slot a distance i from slot 0, around the ring.
Wrap(i) == i % Capacity

\* The Python __str__ walks the buffer from tail: the items, oldest first.
Contents == [i \in 1..count |-> buffer[Wrap(tail + i - 1)]]

\* The slots that hold an item, as a distance from tail.
Occupied(s) == Wrap(s + Capacity - tail) < count

TypeOK ==
  /\ buffer \in [Slot -> Item \union {Vacant}]
  /\ head \in Slot /\ tail \in Slot
  /\ count \in 0..Capacity
  /\ ok \in BOOLEAN /\ data \in Item

\* head, tail and count are three records of two facts: whatever the sequence
\* of pushes and pops, head is count slots after tail, around the end of the
\* array.  A wrap that any one of the operations gets wrong breaks it only
\* after the buffer has been filled and emptied across the end.
RingConsistent == head = Wrap(tail + count)

\* No operation ever hands out, or keeps inside the window, a slot nobody
\* pushed to: every occupied slot holds an item.
OccupiedSlotsHoldItems == \A i \in 1..count : Contents[i] \in Item

\* In Rust and Python a popped item is released: a slot outside the window
\* holds None, so the buffer keeps no item alive.
FreedSlotsVacant == ClearsOnPop => \A s \in Slot : ~Occupied(s) => buffer[s] = Vacant

\* Every push and pop is the push or pop of the bounded queue.
Fifo == INSTANCE BoundedFifo WITH queue <- Contents
FifoSpec == Fifo!Spec
=============================================================================
