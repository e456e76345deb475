------------------------ MODULE CircularBufferProofs ------------------------
(***************************************************************************)
(* Proofs about CircularBuffer, for every capacity and every set of items: *)
(* the indices stay consistent, a released slot stays released, and the    *)
(* buffer implements the bounded FIFO queue.                               *)
(***************************************************************************)
EXTENDS CircularBuffer, Integers, SequenceTheorems, TLAPS

\* The inductive invariant: RingConsistent alone is not inductive, because a
\* push needs the slot at head to lie outside the window, and the queue it
\* maps to is a sequence of items only if the window holds items.
IInv == TypeOK /\ RingConsistent /\ OccupiedSlotsHoldItems

\* Below twice the capacity the remainder is at most one subtraction.
LEMMA WrapOnce ==
  ASSUME NEW x \in 0..(2 * Capacity - 1)
  PROVE  Wrap(x) = IF x < Capacity THEN x ELSE x - Capacity
BY CapacityAssumption DEF Wrap

\* The masked increment is the step to the next slot around the ring.
LEMMA AdvanceWraps ==
  ASSUME NEW i \in Slot
  PROVE  /\ Advance(i) \in Slot
         /\ Advance(i) = IF i + 1 = Capacity THEN 0 ELSE i + 1
<1>1. Advance(i) = Wrap(i + 1) /\ i + 1 \in 0..(2 * Capacity - 1)
  BY CapacityAssumption, MaskAssumption DEF Advance, Wrap, Slot
<1>. QED BY <1>1, WrapOnce, CapacityAssumption DEF Slot

\* Starting one slot later is the same as going one slot further.
LEMMA WrapAdvance ==
  ASSUME NEW i \in Slot, NEW k \in 0..(Capacity - 1)
  PROVE  Wrap(Advance(i) + k) = Wrap(i + 1 + k)
<1>1. i + 1 + k \in 0..(2 * Capacity - 1) /\ k \in 0..(2 * Capacity - 1)
  BY CapacityAssumption DEF Slot
<1>2. CASE i + 1 = Capacity
  <2>1. Advance(i) + k = k /\ i + 1 + k = Capacity + k
    BY <1>2, AdvanceWraps, CapacityAssumption
  <2>. QED BY <2>1, <1>1, WrapOnce, CapacityAssumption
<1>3. CASE i + 1 # Capacity
  BY <1>3, AdvanceWraps
<1>. QED BY <1>2, <1>3

\* The i-th oldest item lies in a slot, and it is not the slot at head.
LEMMA WindowSlot ==
  ASSUME TypeOK, RingConsistent, NEW i \in 1..count
  PROVE  /\ Wrap(tail + i - 1) \in Slot
         /\ count < Capacity => Wrap(tail + i - 1) # head
         /\ i > 1 => Wrap(tail + i - 1) # tail
<1>1. tail + i - 1 \in 0..(2 * Capacity - 1) /\ tail + count \in 0..(2 * Capacity - 1)
  BY CapacityAssumption DEF TypeOK, Slot
<1>. QED BY <1>1, WrapOnce, CapacityAssumption DEF TypeOK, Slot, RingConsistent

\* The constructors (cb_init, new, __init__) establish the invariant.
LEMMA InitInv == Init => IInv
<1>1. Wrap(0) = 0
  BY WrapOnce, CapacityAssumption
<1>. QED BY <1>1, CapacityAssumption, ItemAssumption
         DEF Init, IInv, TypeOK, RingConsistent, OccupiedSlotsHoldItems, Slot

\* The indices after a push and after a pop.
LEMMA PushRing ==
  ASSUME TypeOK, RingConsistent, NEW x \in Item, Push(x)
  PROVE  TypeOK' /\ RingConsistent'
<1>1. TypeOK'
  BY AdvanceWraps, CapacityAssumption DEF TypeOK, Push, IsFull, Slot
<1>2. tail + count \in 0..(2 * Capacity - 1) /\ tail + count + 1 \in 0..(2 * Capacity - 1)
  BY CapacityAssumption DEF TypeOK, Push, IsFull, Slot
<1>3. RingConsistent'
  BY SMTT(30), <1>2, WrapOnce, AdvanceWraps, CapacityAssumption
     DEF TypeOK, RingConsistent, Push, IsFull, Slot
<1>. QED BY <1>1, <1>3

\* A pop keeps the indices consistent.
LEMMA PopRing ==
  ASSUME TypeOK, RingConsistent, OccupiedSlotsHoldItems, Pop
  PROVE  TypeOK' /\ RingConsistent' /\ data' = Contents[1] /\ data' \in Item
<1>1. 1 \in 1..count /\ Contents[1] = buffer[tail] /\ Contents[1] \in Item
  <2>1. tail + 1 - 1 = tail /\ Wrap(tail) = tail
    BY WrapOnce, CapacityAssumption DEF TypeOK, Slot
  <2>. QED BY SMTT(30), <2>1 DEF TypeOK, Pop, IsEmpty, Contents, OccupiedSlotsHoldItems
<1>2. TypeOK'
  BY <1>1, AdvanceWraps, CapacityAssumption, ItemAssumption DEF TypeOK, Pop, Emptied, IsEmpty, Slot
<1>3. count - 1 \in 0..(Capacity - 1) /\ tail + 1 + (count - 1) = tail + count
  BY CapacityAssumption DEF TypeOK, Pop, IsEmpty, Slot
<1>4. Wrap(Advance(tail) + (count - 1)) = Wrap(tail + count)
  BY <1>3, WrapAdvance DEF TypeOK
<1>5. RingConsistent'
  BY <1>4 DEF RingConsistent, Pop
<1>. QED BY <1>1, <1>2, <1>5 DEF Pop

\* What the window holds after a push: the old items, and the new one last.
LEMMA PushContents ==
  ASSUME TypeOK, RingConsistent, OccupiedSlotsHoldItems, NEW x \in Item, Push(x)
  PROVE  /\ Contents \in Seq(Item) /\ Len(Contents) = count
         /\ Contents' = Append(Contents, x)
         /\ OccupiedSlotsHoldItems'
<1>1. Contents \in Seq(Item) /\ Len(Contents) = count
  BY DEF Contents, OccupiedSlotsHoldItems, TypeOK
<1>2. ASSUME NEW i \in 1..(count + 1)
      PROVE  Contents'[i] = IF i = count + 1 THEN x ELSE Contents[i]
  <2>1. CASE i = count + 1
    BY <2>1, CapacityAssumption DEF Contents, Push, RingConsistent, TypeOK, IsFull
  <2>2. CASE i \in 1..count
    BY <2>2, WindowSlot, CapacityAssumption DEF Contents, Push, TypeOK, IsFull
  <2>. QED BY <2>1, <2>2 DEF TypeOK
<1>3. /\ \A i \in 1..(count + 1) : Contents'[i] \in Item
      /\ Contents' \in Seq(Item) /\ Len(Contents') = count + 1
  <2>1. \A i \in 1..(count + 1) : Contents'[i] \in Item
    BY <1>2 DEF OccupiedSlotsHoldItems, TypeOK
  <2>2. Contents' = [i \in 1..(count + 1) |-> Contents'[i]]
    BY DEF Contents, Push
  <2>. QED BY <2>1, <2>2 DEF TypeOK
<1>4. Append(Contents, x) \in Seq(Item) /\ Len(Append(Contents, x)) = count + 1
      /\ \A i \in 1..(count + 1) :
           Append(Contents, x)[i] = IF i = count + 1 THEN x ELSE Contents[i]
  BY <1>1, AppendProperties DEF TypeOK
<1>5. Contents' = Append(Contents, x)
  BY <1>2, <1>3, <1>4, SeqEqual
<1>6. OccupiedSlotsHoldItems'
  BY <1>3 DEF OccupiedSlotsHoldItems, Push
<1>. QED BY <1>1, <1>5, <1>6

\* What the window holds after a pop: everything but the oldest item.
LEMMA PopContents ==
  ASSUME TypeOK, RingConsistent, OccupiedSlotsHoldItems, Pop
  PROVE  /\ Contents \in Seq(Item) /\ Contents # <<>>
         /\ Contents' = Tail(Contents)
         /\ OccupiedSlotsHoldItems'
<1>1. Contents \in Seq(Item) /\ Len(Contents) = count /\ count # 0
  BY DEF Contents, OccupiedSlotsHoldItems, TypeOK, Pop, IsEmpty
<1>2. ASSUME NEW i \in 1..(count - 1)
      PROVE  Contents'[i] = Contents[i + 1]
  <2>1. i + 1 \in 1..count /\ Wrap(Advance(tail) + i - 1) = Wrap(tail + (i + 1) - 1)
    <3>1. i - 1 \in 0..(Capacity - 1) /\ i + 1 \in 1..count
          /\ Advance(tail) + (i - 1) = Advance(tail) + i - 1
          /\ tail + 1 + (i - 1) = tail + (i + 1) - 1
      BY AdvanceWraps, CapacityAssumption DEF TypeOK, Slot
    <3>. QED BY <3>1, WrapAdvance DEF TypeOK
  <2>2. Wrap(tail + (i + 1) - 1) \in Slot /\ Wrap(tail + (i + 1) - 1) # tail
    BY <2>1, WindowSlot DEF TypeOK
  <2>3. buffer'[Wrap(tail + (i + 1) - 1)] = buffer[Wrap(tail + (i + 1) - 1)]
    BY <2>2 DEF Pop, Emptied, TypeOK
  <2>. QED BY <2>1, <2>3 DEF Contents, Pop, Emptied
<1>3. /\ \A i \in 1..(count - 1) : Contents'[i] \in Item
      /\ Contents' \in Seq(Item) /\ Len(Contents') = count - 1
  <2>1. \A i \in 1..(count - 1) : Contents'[i] \in Item
    BY <1>2 DEF OccupiedSlotsHoldItems, TypeOK
  <2>2. Contents' = [i \in 1..(count - 1) |-> Contents'[i]]
    BY DEF Contents, Pop, Emptied
  <2>. QED BY <1>1, <2>1, <2>2 DEF TypeOK
<1>4. Tail(Contents) \in Seq(Item) /\ Len(Tail(Contents)) = count - 1
      /\ \A i \in 1..(count - 1) : Tail(Contents)[i] = Contents[i + 1]
  BY <1>1, HeadTailProperties, EmptySeq
<1>5. Contents' = Tail(Contents)
  BY <1>2, <1>3, <1>4, SeqEqual
<1>6. OccupiedSlotsHoldItems'
  BY <1>3 DEF OccupiedSlotsHoldItems, Pop, Emptied
<1>. QED BY <1>1, <1>5, <1>6, EmptySeq

\* Every push and pop, accepted or refused, keeps the invariant.
LEMMA NextInv == IInv /\ [Next]_vars => IInv'
<1>. SUFFICES ASSUME IInv, [Next]_vars PROVE IInv'
  OBVIOUS
<1>. USE DEF IInv
<1>1. CASE UNCHANGED vars \/ PushRefused \/ PopRefused
  BY <1>1 DEF vars, PushRefused, PopRefused, TypeOK, RingConsistent,
              OccupiedSlotsHoldItems, Contents, Slot
<1>2. ASSUME NEW x \in Item, Push(x) PROVE IInv'
  BY <1>2, PushRing, PushContents
<1>3. CASE Pop
  BY <1>3, PopRing, PopContents
<1>. QED BY <1>1, <1>2, <1>3 DEF Next

\* Every reachable state satisfies the inductive invariant.
THEOREM Invariance == Spec => []IInv
BY InitInv, NextInv, PTL DEF Spec

\* head, tail and count never contradict each other.
THEOREM IndicesConsistent == Spec => []RingConsistent
<1>1. IInv => RingConsistent
  BY DEF IInv
<1>. QED BY <1>1, Invariance, PTL
-----------------------------------------------------------------------------
\* A step of the buffer is the same step of the queue its window holds.
LEMMA StepSimulates == IInv /\ [Next]_vars => [Fifo!Next]_(Fifo!vars)
<1>. SUFFICES ASSUME IInv, [Next]_vars PROVE [Fifo!Next]_(Fifo!vars)
  OBVIOUS
<1>. USE DEF IInv
<1>1. Contents \in Seq(Item) /\ Len(Contents) = count
  BY DEF Contents, OccupiedSlotsHoldItems, TypeOK
<1>2. CASE UNCHANGED vars
  BY <1>2 DEF vars, Fifo!vars, Contents
<1>3. CASE PushRefused
  <2>1. Contents' = Contents
    BY <1>3 DEF PushRefused, Contents
  <2>2. PICK x \in Item : TRUE
    BY ItemAssumption
  <2>3. Fifo!Push(x)
    BY <1>1, <1>3, <2>1, CapacityAssumption DEF PushRefused, IsFull, Fifo!Push
  <2>. QED BY <2>3 DEF Fifo!Next
<1>4. CASE PopRefused
  <2>1. Contents' = Contents /\ Contents = <<>>
    BY <1>1, <1>4, EmptySeq DEF PopRefused, IsEmpty, Contents
  <2>2. Fifo!Pop
    BY <1>4, <2>1 DEF PopRefused, Fifo!Pop
  <2>. QED BY <2>2 DEF Fifo!Next
<1>5. ASSUME NEW x \in Item, Push(x) PROVE [Fifo!Next]_(Fifo!vars)
  <2>1. Contents' = Append(Contents, x)
    BY <1>5, PushContents
  <2>2. Fifo!Push(x)
    BY <1>1, <1>5, <2>1, CapacityAssumption DEF Push, IsFull, TypeOK, Fifo!Push
  <2>. QED BY <2>2 DEF Fifo!Next
<1>6. CASE Pop
  <2>1. Contents' = Tail(Contents) /\ Contents # <<>> /\ data' = Head(Contents)
    BY <1>1, <1>6, PopContents, PopRing
  <2>2. Fifo!Pop
    BY <1>6, <2>1 DEF Pop, Fifo!Pop
  <2>. QED BY <2>2 DEF Fifo!Next
<1>. QED BY <1>2, <1>3, <1>4, <1>5, <1>6 DEF Next

\* The circular buffer implements the bounded first-in first-out queue.
THEOREM ImplementsFifo == Spec => FifoSpec
<1>1. Init => Fifo!Init
  BY EmptySeq DEF Init, Fifo!Init, Contents
<1>. QED BY <1>1, InitInv, NextInv, StepSimulates, PTL DEF Spec, FifoSpec, Fifo!Spec
-----------------------------------------------------------------------------
\* In Rust and Python no slot outside the window keeps an item alive.
LEMMA FreedStep == IInv /\ FreedSlotsVacant /\ [Next]_vars => FreedSlotsVacant'
<1>. SUFFICES ASSUME IInv, FreedSlotsVacant, [Next]_vars, ClearsOnPop,
                     NEW s \in Slot, ~Occupied(s)'
              PROVE  buffer'[s] = Vacant
  BY DEF FreedSlotsVacant
<1>. USE DEF IInv
<1>0. \A t \in Slot : /\ s + Capacity - t \in 0..(2 * Capacity - 1)
                      /\ Wrap(s + Capacity - t) = IF s >= t THEN s - t ELSE s + Capacity - t
  BY WrapOnce, CapacityAssumption DEF Slot
<1>1. CASE UNCHANGED vars \/ PushRefused \/ PopRefused
  BY <1>1 DEF vars, PushRefused, PopRefused, FreedSlotsVacant, Occupied
<1>2. ASSUME NEW x \in Item, Push(x) PROVE buffer'[s] = Vacant
  <2>1. ~Occupied(s) /\ s # head
    <3>1. tail + count \in 0..(2 * Capacity - 1)
      BY CapacityAssumption DEF TypeOK, Slot
    <3>2. Wrap(tail + count) = IF tail + count < Capacity THEN tail + count ELSE tail + count - Capacity
      BY <3>1, WrapOnce, CapacityAssumption DEF TypeOK, Slot
    <3>. QED BY SMTT(30), <1>0, <1>2, <3>2, CapacityAssumption
             DEF Occupied, Push, IsFull, TypeOK, Slot, RingConsistent
  <2>. QED BY <1>2, <2>1 DEF FreedSlotsVacant, Push, TypeOK
<1>3. CASE Pop
  <2>1. CASE s = tail
    BY <1>3, <2>1 DEF Pop, Emptied, TypeOK
  <2>2. CASE s # tail
    <3>1. ~Occupied(s)
      <4>1. ~(Wrap(s + Capacity - Advance(tail)) < count - 1) /\ Advance(tail) \in Slot
        BY <1>3, AdvanceWraps DEF Occupied, Pop, Emptied, TypeOK
      <4>2. Wrap(s + Capacity - tail) = IF s >= tail THEN s - tail ELSE s + Capacity - tail
        BY <1>0 DEF TypeOK
      <4>3. Wrap(s + Capacity - Advance(tail))
              = IF s >= Advance(tail) THEN s - Advance(tail) ELSE s + Capacity - Advance(tail)
        BY <1>0, <4>1
      <4>4. Advance(tail) = IF tail + 1 = Capacity THEN 0 ELSE tail + 1
        BY AdvanceWraps DEF TypeOK
      <4>5. Wrap(s + Capacity - tail) = Wrap(s + Capacity - Advance(tail)) + 1
        BY <4>2, <4>3, <4>4, <2>2, CapacityAssumption DEF TypeOK, Slot
      <4>6. Wrap(s + Capacity - Advance(tail)) \in Nat
        BY <4>1, <4>3, CapacityAssumption DEF Slot
      <4>. QED BY <4>1, <4>5, <4>6 DEF Occupied, TypeOK
    <3>. QED BY <1>3, <2>2, <3>1 DEF FreedSlotsVacant, Pop, Emptied, TypeOK
  <2>. QED BY <2>1, <2>2
<1>. QED BY <1>1, <1>2, <1>3 DEF Next

\* A slot outside the window holds no item: in Rust and Python (pop) a popped item is
\* released, so the buffer keeps nothing alive.
THEOREM PoppedItemsReleased == Spec => []FreedSlotsVacant
<1>1. Init => FreedSlotsVacant
  BY DEF Init, FreedSlotsVacant
<1>. QED BY <1>1, FreedStep, InitInv, NextInv, PTL DEF Spec
=============================================================================
