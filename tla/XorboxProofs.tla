---------------------------- MODULE XorboxProofs ----------------------------
(***************************************************************************)
(* Proofs about XorboxDevice for every set of processes, every ring and    *)
(* chunk size and whatever the uninitialised bytes_read holds: the types,  *)
(* the ring indices, the lock discipline, the bounds of the loops, and that *)
(* the chunk loops implement XorPipe, each call one step.                  *)
(***************************************************************************)
EXTENDS XorboxDevice, SequenceTheorems, TLAPS

\* Only reads and writes run a loop, and a write's loop stays inside the bytes
\* the caller handed over.
LoopCalls ==
  \A p \in Proc : pc[p] = "copy" =>
    /\ op[p].kind \in {"read", "write"}
    /\ op[p].kind = "write" => todo[p] <= Len(op[p].buf)

\* RingConsistent needs LoopWithinRing (a chunk never overruns the window),
\* which needs LockHeldInLoop (nobody else moves data_len meanwhile).
IInv == TypeOK /\ RingConsistent /\ LockHeldInLoop /\ LoopWithinRing /\ LoopCalls

\* Below twice the size of the ring the remainder is at most one subtraction.
LEMMA WrapOnce ==
  ASSUME NEW x \in 0..(2 * BufferSize - 1)
  PROVE  /\ Wrap(x) = IF x < BufferSize THEN x ELSE x - BufferSize
         /\ Wrap(x) \in Slot
BY SizeAssumption DEF Wrap, Slot

\* Going n slots further from a slot already wrapped.
LEMMA WrapFurther ==
  ASSUME NEW x \in 0..(2 * BufferSize - 1), NEW n \in Nat, x + n < 2 * BufferSize
  PROVE  Wrap(Wrap(x) + n) = Wrap(x + n)
<1>1. x + n \in 0..(2 * BufferSize - 1)
  BY SizeAssumption
<1>2. Wrap(x) + n \in 0..(2 * BufferSize - 1)
  BY WrapOnce, SizeAssumption
<1>. QED BY <1>1, <1>2, WrapOnce, SizeAssumption

\* What the fields of a call hold.
LEMMA CallFields ==
  ASSUME NEW r \in Calls \union {NoCall}
  PROVE  /\ r.kind \in {"none", "read", "write", "set_key", "bad_ioctl"}
         /\ r.kind = "read" => r.len \in Nat
         /\ r.kind = "write" => r.buf \in Seq(Byte) /\ Len(r.buf) \in Nat
         /\ r.kind = "set_key" => r.arg \in Byte
<1>1. CASE r \in [kind : {"read"}, len : ReadLen]
  BY <1>1, InputAssumption
<1>2. CASE r \in [kind : {"write"}, buf : Data]
  BY <1>2, InputAssumption
<1>3. CASE r \in [kind : {"set_key"}, arg : KeyArg]
  BY <1>3, InputAssumption
<1>4. CASE r \in [kind : {"bad_ioctl"}]
  BY <1>4
<1>5. CASE r = NoCall
  BY <1>5 DEF NoCall
<1>. QED BY <1>1, <1>2, <1>3, <1>4, <1>5 DEF Calls

\* xorbox_init leaves an empty ring and a free mutex.
LEMMA InitInv == Init => IInv
<1>. SUFFICES ASSUME Init PROVE IInv
  OBVIOUS
<1>1. Wrap(0) = 0
  BY WrapOnce, SizeAssumption
<1>2. <<>> \in Seq(Byte \union {Untouched})
  OBVIOUS
<1>3. TypeOK
  BY <1>2, SizeAssumption, InputAssumption DEF Init, TypeOK, Slot
<1>. QED BY <1>1, <1>3, InputAssumption
         DEF Init, IInv, RingConsistent, LockHeldInLoop, LoopWithinRing, LoopCalls

\* A call that ends without having taken the mutex, or having freed it.
LEMMA QuietStep ==
  ASSUME IInv, NEW p \in Proc, NEW v \in Int, Finish(p, v),
         UNCHANGED <<buffer, head, tail, data_len, ubuf>>, key' \in Byte,
         lock' = lock, pc[p] = "lock"
  PROVE  IInv'
<1>. USE DEF IInv, TypeOK, Finish
<1>1. TypeOK'
  OBVIOUS
<1>2. RingConsistent'
  BY DEF RingConsistent, Wrap
<1>3. LockHeldInLoop'
  BY DEF LockHeldInLoop
<1>4. LoopWithinRing' /\ LoopCalls'
  BY DEF LoopWithinRing, LoopCalls
<1>. QED BY <1>1, <1>2, <1>3, <1>4

\* A loop that ends and unlocks, the ring as its last chunk left it.
LEMMA EndStep ==
  ASSUME IInv, NEW p \in Proc, NEW v \in Int, Finish(p, v),
         UNCHANGED <<buffer, head, tail, data_len, key, ubuf>>,
         lock' = NoProc, pc[p] = "copy"
  PROVE  IInv'
<1>. USE DEF IInv, TypeOK, Finish
<1>1. TypeOK'
  OBVIOUS
<1>2. RingConsistent'
  BY DEF RingConsistent, Wrap
<1>3. \A q \in Proc : pc'[q] # "copy"
  BY DEF LockHeldInLoop
<1>. QED BY <1>1, <1>2, <1>3, InputAssumption DEF LockHeldInLoop, LoopWithinRing, LoopCalls

\* Taking the mutex and entering a loop with a bound the ring allows.
LEMMA EnterStep ==
  ASSUME IInv, NEW p \in Proc, NEW n \in Nat, NEW from \in Nat,
         EnterLoop(p, n, from), pc[p] = "lock", lock = NoProc,
         op[p].kind \in {"read", "write"},
         n <= IF op[p].kind = "read" THEN data_len ELSE BufferSize - data_len,
         op[p].kind = "write" => n <= Len(op[p].buf)
  PROVE  IInv'
<1>. USE DEF IInv, TypeOK, EnterLoop, dev
<1>1. TypeOK'
  OBVIOUS
<1>2. RingConsistent'
  BY DEF RingConsistent, Wrap
<1>3. LockHeldInLoop'
  BY InputAssumption DEF LockHeldInLoop
<1>4. LoopWithinRing'
  <2>. SUFFICES ASSUME NEW q \in Proc, pc'[q] = "copy", moved'[q] < todo'[q]
       PROVE  todo'[q] - moved'[q] <=
                IF op[q].kind = "read" THEN data_len ELSE BufferSize - data_len
    BY DEF LoopWithinRing
  <2>1. q = p
    BY InputAssumption DEF LockHeldInLoop
  <2>. QED BY <2>1, SizeAssumption
<1>5. LoopCalls'
  BY DEF LoopCalls
<1>. QED BY <1>1, <1>2, <1>3, <1>4, <1>5

\* A chunk is no longer than what the loop has left, and not empty.
LEMMA ChunkBounds ==
  ASSUME IInv, NEW p \in Proc, pc[p] = "copy", moved[p] < todo[p]
  PROVE  /\ Chunk(p) \in 1..BufferSize
         /\ Chunk(p) <= todo[p] - moved[p]
         /\ op[p].kind = "read" => Chunk(p) <= data_len
         /\ op[p].kind = "write" => Chunk(p) <= BufferSize - data_len
         /\ op[p].kind = "write" => moved[p] + Chunk(p) <= Len(op[p].buf)
<1>. DEFINE left == todo[p] - moved[p]
<1>1. /\ todo[p] \in Nat /\ moved[p] \in Nat /\ left \in Nat \ {0}
      /\ data_len \in 0..BufferSize
  BY DEF IInv, TypeOK
<1>2. /\ op[p].kind \in {"read", "write"}
      /\ left <= IF op[p].kind = "read" THEN data_len ELSE BufferSize - data_len
      /\ op[p].kind = "write" => todo[p] <= Len(op[p].buf)
  BY DEF IInv, LoopWithinRing, LoopCalls
<1>3. op[p] \in Calls \union {NoCall}
  BY DEF IInv, TypeOK
<1>4. op[p].kind = "write" => Len(op[p].buf) \in Nat
  BY <1>3, CallFields
<1>5. Chunk(p) \in 1..left
  BY <1>1, SizeAssumption DEF Chunk, AtMost
<1>. HIDE DEF left
<1>6. Chunk(p) <= left /\ Chunk(p) \in Nat \ {0}
  BY <1>5, <1>1
<1>7. moved[p] + left = todo[p]
  BY <1>1 DEF left
<1>. QED BY SMTT(30), <1>1, <1>2, <1>4, <1>6, <1>7, SizeAssumption DEF left

\* What a chunk copied to user memory leaves there.
LEMMA DeliveredType ==
  ASSUME IInv, NEW p \in Proc, NEW n \in 0..BufferSize
  PROVE  /\ Delivered(p, n) \in Seq(Byte \union {Untouched})
         /\ \A i \in DOMAIN ubuf[p] : Delivered(p, n)[i] # Untouched <=>
              (i > moved[p] /\ i <= moved[p] + n) \/ ubuf[p][i] # Untouched
<1>. DEFINE m == Byte \union {Untouched}
<1>1. ubuf[p] \in Seq(m) /\ moved[p] \in Nat /\ tail \in Slot /\ key \in Byte
      /\ buffer \in [Slot -> Byte]
  BY DEF IInv, TypeOK
<1>2. DOMAIN ubuf[p] = 1..Len(ubuf[p]) /\ Len(ubuf[p]) \in Nat
  BY <1>1
<1>3. ASSUME NEW i \in DOMAIN ubuf[p]
      PROVE  /\ Delivered(p, n)[i] \in m
             /\ Delivered(p, n)[i] # Untouched <=>
                  (i > moved[p] /\ i <= moved[p] + n) \/ ubuf[p][i] # Untouched
  <2>1. CASE i > moved[p] /\ i <= moved[p] + n
    <3>1. i - moved[p] \in 1..n /\ tail + (i - moved[p]) - 1 \in 0..(2 * BufferSize - 1)
      BY SMTT(30), <1>1, <1>2, <2>1, SizeAssumption DEF Slot
    <3>2. Window(tail, n)[i - moved[p]] \in Byte
      BY <3>1, <1>1, WrapOnce DEF Window
    <3>3. ByteXor(Window(tail, n)[i - moved[p]], key) \in Byte
      BY <3>2, <1>1, ByteXorAssumption
    <3>4. Delivered(p, n)[i] = ByteXor(Window(tail, n)[i - moved[p]], key)
      BY <2>1 DEF Delivered
    <3>. QED BY <2>1, <3>3, <3>4, InputAssumption
  <2>2. CASE ~(i > moved[p] /\ i <= moved[p] + n)
    BY <1>1, <1>2, <2>2 DEF Delivered
  <2>. QED BY <2>1, <2>2
<1>4. Delivered(p, n) = [i \in 1..Len(ubuf[p]) |-> Delivered(p, n)[i]]
  BY <1>2 DEF Delivered
<1>. HIDE DEF m
<1>5. \A i \in 1..Len(ubuf[p]) : Delivered(p, n)[i] \in m
  BY <1>2, <1>3
<1>6. Delivered(p, n) \in Seq(Byte \union {Untouched})
  BY SMTT(30), <1>2, <1>4, <1>5 DEF m
<1>. QED BY <1>3, <1>6

\* Taking no more than the ring holds keeps head data_len slots after tail.
LEMMA TakeRing ==
  ASSUME TypeOK, RingConsistent, NEW n \in Nat, n <= data_len, TakeBytes(n)
  PROVE  /\ tail' \in Slot /\ data_len' \in 0..BufferSize
         /\ head' = Wrap(tail' + data_len')
<1>1. /\ tail + n \in 0..(2 * BufferSize - 1) /\ data_len - n \in Nat
      /\ tail + n + (data_len - n) = tail + data_len
      /\ tail + data_len < 2 * BufferSize
  BY SizeAssumption DEF TypeOK, Slot
<1>2. Wrap(Wrap(tail + n) + (data_len - n)) = Wrap(tail + data_len)
  BY <1>1, WrapFurther
<1>3. tail' = Wrap(tail + n) /\ data_len' = data_len - n /\ head' = head
  BY DEF TakeBytes
<1>4. data_len - n \in 0..BufferSize
  BY <1>1, SizeAssumption DEF TypeOK
<1>5. Wrap(tail + n) \in Slot
  BY <1>1, WrapOnce
<1>. QED BY <1>2, <1>3, <1>4, <1>5 DEF RingConsistent

\* A chunk of dev_read.
LEMMA ReadChunkStep ==
  ASSUME IInv, NEW p \in Proc, ReadChunk(p)
  PROVE  IInv'
<1>1. /\ pc[p] = "copy" /\ op[p].kind = "read" /\ moved[p] < todo[p]
      /\ lock = p /\ Chunk(p) \in 1..BufferSize /\ Chunk(p) <= todo[p] - moved[p]
      /\ Chunk(p) <= data_len
  BY ChunkBounds DEF ReadChunk, Copying, IInv, LockHeldInLoop
<1>2. Delivered(p, Chunk(p)) \in Seq(Byte \union {Untouched})
  BY <1>1, DeliveredType
<1>3. Chunk(p) \in Nat /\ TakeBytes(Chunk(p)) /\ TypeOK /\ RingConsistent
  BY <1>1 DEF ReadChunk, IInv
<1>4. tail' \in Slot /\ data_len' \in 0..BufferSize /\ RingConsistent'
  BY <1>1, <1>3, TakeRing DEF RingConsistent, Wrap
<1>5. TypeOK'
  BY SMTT(30), <1>1, <1>2, <1>4 DEF IInv, TypeOK, ReadChunk, TakeBytes
<1>6. LockHeldInLoop'
  BY DEF IInv, LockHeldInLoop, ReadChunk
<1>7. LoopWithinRing'
  <2>. SUFFICES ASSUME NEW q \in Proc, pc[q] = "copy", moved'[q] < todo[q]
       PROVE  todo[q] - moved'[q] <=
                IF op[q].kind = "read" THEN data_len' ELSE BufferSize - data_len'
    BY DEF LoopWithinRing, ReadChunk
  <2>1. q = p
    BY <1>1 DEF IInv, LockHeldInLoop
  <2>2. moved'[p] = moved[p] + Chunk(p) /\ data_len' = data_len - Chunk(p)
    BY DEF ReadChunk, TakeBytes, IInv, TypeOK
  <2>3. todo[p] - moved[p] <= data_len
    BY <1>1 DEF IInv, LoopWithinRing
  <2>. HIDE DEF Chunk
  <2>. QED BY <1>1, <2>1, <2>2, <2>3 DEF IInv, TypeOK
<1>8. LoopCalls'
  BY DEF IInv, LoopCalls, ReadChunk
<1>. QED BY <1>4, <1>5, <1>6, <1>7, <1>8 DEF IInv

\* The -EFAULT path: the chunk is gone from the ring and the mutex is free.
LEMMA ReadFaultStep ==
  ASSUME IInv, NEW p \in Proc, ReadFault(p)
  PROVE  IInv'
<1>1. /\ pc[p] = "copy" /\ op[p].kind = "read" /\ moved[p] < todo[p]
      /\ lock = p /\ Chunk(p) \in 1..BufferSize /\ Chunk(p) <= data_len
  BY ChunkBounds DEF ReadFault, Copying, IInv, LockHeldInLoop
<1>2. ubuf' \in [Proc -> Seq(Byte \union {Untouched})]
  <2>1. PICK n \in 0..(Chunk(p) - 1) : ubuf' = [ubuf EXCEPT ![p] = Delivered(p, n)]
    BY DEF ReadFault
  <2>2. n \in 0..BufferSize
    BY <1>1, <2>1, SizeAssumption
  <2>3. Delivered(p, n) \in Seq(Byte \union {Untouched})
    BY <2>2, DeliveredType
  <2>. QED BY <2>1, <2>3 DEF IInv, TypeOK
<1>3. Chunk(p) \in Nat /\ TakeBytes(Chunk(p)) /\ TypeOK /\ RingConsistent
  BY <1>1 DEF ReadFault, IInv
<1>4. tail' \in Slot /\ data_len' \in 0..BufferSize /\ RingConsistent'
  BY <1>1, <1>3, TakeRing DEF RingConsistent, Wrap
<1>5. TypeOK'
  <2>1. /\ pc' \in [Proc -> {"idle", "lock", "copy", "done"}]
        /\ ret' \in [Proc -> Int] /\ op' \in [Proc -> Calls \union {NoCall}]
        /\ todo' \in [Proc -> Nat] /\ moved' \in [Proc -> Nat] /\ start' \in [Proc -> Nat]
    BY DEF IInv, TypeOK, ReadFault, Finish, EFAULT
  <2>2. buffer' \in [Slot -> Byte] /\ head' \in Slot /\ key' \in Byte
    BY <1>3 DEF TypeOK, TakeBytes
  <2>3. lock' \in Proc \union {NoProc}
    BY DEF ReadFault
  <2>. QED BY <1>2, <1>4, <2>1, <2>2, <2>3 DEF TypeOK
<1>6. \A q \in Proc : pc'[q] # "copy"
  BY <1>1 DEF IInv, LockHeldInLoop, TypeOK, ReadFault, Finish
<1>7. LockHeldInLoop'
  BY <1>6, InputAssumption DEF LockHeldInLoop, ReadFault
<1>. QED BY <1>4, <1>5, <1>6, <1>7 DEF IInv, LoopWithinRing, LoopCalls

\* A byte of the ring after a chunk was stored: a new one or the one it had.
LEMMA StoredBytes ==
  ASSUME IInv, NEW p \in Proc, WriteChunk(p)
  PROVE  buffer' \in [Slot -> Byte]
<1>1. /\ Chunk(p) \in 1..BufferSize /\ moved[p] + Chunk(p) <= Len(op[p].buf)
      /\ op[p].kind = "write" /\ op[p] \in Calls \union {NoCall}
  BY ChunkBounds DEF WriteChunk, Copying, IInv, TypeOK
<1>2. op[p].buf \in Seq(Byte) /\ Len(op[p].buf) \in Nat /\ moved[p] \in Nat
  BY <1>1, CallFields DEF IInv, TypeOK
<1>3. ASSUME NEW s \in Slot, Within(s, head, Chunk(p))
      PROVE  ByteXor(op[p].buf[moved[p] + Wrap(s + BufferSize - head) + 1], key) \in Byte
  <2>1. s + BufferSize - head \in 0..(2 * BufferSize - 1)
    BY SizeAssumption DEF IInv, TypeOK, Slot
  <2>2. Wrap(s + BufferSize - head) \in Nat /\ Wrap(s + BufferSize - head) < Chunk(p)
    BY <1>3, <2>1, WrapOnce, SizeAssumption DEF Within, Slot
  <2>3. moved[p] + Wrap(s + BufferSize - head) + 1 \in 1..Len(op[p].buf)
    BY <1>1, <1>2, <2>2
  <2>4. op[p].buf[moved[p] + Wrap(s + BufferSize - head) + 1] \in Byte
    BY <1>2, <2>3
  <2>. QED BY <2>4, ByteXorAssumption DEF IInv, TypeOK
<1>4. buffer \in [Slot -> Byte]
  BY DEF IInv, TypeOK
<1>. QED BY <1>3, <1>4 DEF WriteChunk

\* A chunk of dev_write.
LEMMA WriteChunkStep ==
  ASSUME IInv, NEW p \in Proc, WriteChunk(p)
  PROVE  IInv'
<1>1. /\ pc[p] = "copy" /\ op[p].kind = "write" /\ moved[p] < todo[p]
      /\ lock = p /\ Chunk(p) \in 1..BufferSize /\ Chunk(p) <= todo[p] - moved[p]
      /\ Chunk(p) <= BufferSize - data_len
  BY ChunkBounds DEF WriteChunk, Copying, IInv, LockHeldInLoop
<1>2. /\ tail + data_len \in 0..(2 * BufferSize - 1)
      /\ data_len + Chunk(p) \in 0..BufferSize
      /\ tail + data_len + Chunk(p) < 2 * BufferSize
      /\ tail + data_len + Chunk(p) = tail + (data_len + Chunk(p))
      /\ tail + data_len + Chunk(p) \in 0..(2 * BufferSize - 1)
      /\ Chunk(p) \in Nat
  <2>. DEFINE c == Chunk(p)
  <2>1. c \in 1..BufferSize /\ c <= BufferSize - data_len
    BY <1>1
  <2>2. tail \in 0..(BufferSize - 1) /\ data_len \in 0..BufferSize
    BY DEF IInv, TypeOK, Slot
  <2>. HIDE DEF c
  <2>3. /\ tail + data_len \in 0..(2 * BufferSize - 1)
        /\ data_len + c \in 0..BufferSize /\ tail + data_len + c < 2 * BufferSize
        /\ tail + data_len + c = tail + (data_len + c)
        /\ tail + data_len + c \in 0..(2 * BufferSize - 1) /\ c \in Nat
    BY <2>1, <2>2, SizeAssumption
  <2>. QED BY <2>3 DEF c
<1>3. Wrap(head + Chunk(p)) = Wrap(tail + (data_len + Chunk(p)))
  BY <1>2, WrapFurther DEF IInv, RingConsistent
<1>4. RingConsistent' /\ head' \in Slot /\ data_len' \in 0..BufferSize
  BY <1>2, <1>3, WrapOnce DEF RingConsistent, WriteChunk, Wrap
<1>5. TypeOK'
  <2>1. moved' \in [Proc -> Nat]
    <3>1. moved' = [moved EXCEPT ![p] = moved[p] + Chunk(p)] /\ moved \in [Proc -> Nat]
      BY DEF IInv, TypeOK, WriteChunk
    <3>2. moved[p] + Chunk(p) \in Nat
      BY <1>2, <3>1
    <3>. QED BY <3>1, <3>2
  <2>2. /\ tail' \in Slot /\ key' \in Byte /\ lock' \in Proc \union {NoProc}
        /\ pc' \in [Proc -> {"idle", "lock", "copy", "done"}]
        /\ op' \in [Proc -> Calls \union {NoCall}] /\ todo' \in [Proc -> Nat]
        /\ start' \in [Proc -> Nat]
        /\ ubuf' \in [Proc -> Seq(Byte \union {Untouched})] /\ ret' \in [Proc -> Int]
    BY DEF IInv, TypeOK, WriteChunk
  <2>. QED BY <1>4, <2>1, <2>2, StoredBytes DEF TypeOK
<1>6. LockHeldInLoop'
  BY DEF IInv, LockHeldInLoop, WriteChunk
<1>7. LoopWithinRing'
  <2>. SUFFICES ASSUME NEW q \in Proc, pc[q] = "copy", moved'[q] < todo[q]
       PROVE  todo[q] - moved'[q] <=
                IF op[q].kind = "read" THEN data_len' ELSE BufferSize - data_len'
    BY DEF LoopWithinRing, WriteChunk
  <2>1. q = p
    BY <1>1 DEF IInv, LockHeldInLoop
  <2>2. moved'[p] = moved[p] + Chunk(p) /\ data_len' = data_len + Chunk(p)
    BY DEF WriteChunk, IInv, TypeOK
  <2>3. todo[p] - moved[p] <= BufferSize - data_len
    BY <1>1 DEF IInv, LoopWithinRing
  <2>. QED BY SMTT(30), <1>1, <2>1, <2>2, <2>3, SizeAssumption DEF IInv, TypeOK
<1>8. LoopCalls'
  BY DEF IInv, LoopCalls, WriteChunk
<1>. QED BY <1>4, <1>5, <1>6, <1>7, <1>8 DEF IInv

\* Every step of every process keeps the invariant.
LEMMA NextInv ==
  ASSUME IInv, NEW p \in Proc, Locking(p) \/ InLoop(p)
  PROVE  IInv'
<1>0. op[p] \in Calls \union {NoCall} /\ ubuf \in [Proc -> Seq(Byte \union {Untouched})]
      /\ key \in Byte /\ data_len \in 0..BufferSize
  BY DEF IInv, TypeOK
<1>1. CASE ReadEmpty(p)
  <2>1. /\ UNCHANGED <<buffer, head, tail, data_len, ubuf>> /\ key' \in Byte
        /\ lock' = lock /\ pc[p] = "lock" /\ Finish(p, 0) /\ 0 \in Int
    BY <1>0, <1>1 DEF ReadEmpty, Waiting, dev
  <2>. QED BY <1>0, <2>1, QuietStep
<1>2. CASE ReadEnter(p)
  <2>1. PICK from \in StackValue : EnterLoop(p, AtMost(op[p].len, data_len), from)
    BY <1>2 DEF ReadEnter
  <2>2. /\ AtMost(op[p].len, data_len) \in Nat /\ AtMost(op[p].len, data_len) <= data_len
        /\ op[p].kind = "read" /\ pc[p] = "lock" /\ lock = NoProc
    BY <1>0, <1>2, CallFields DEF ReadEnter, Waiting, AtMost
  <2>3. from \in Nat
    BY <2>1, InputAssumption
  <2>. QED BY <2>1, <2>2, <2>3, EnterStep
<1>3. CASE WriteFull(p)
  <2>1. /\ UNCHANGED <<buffer, head, tail, data_len, ubuf>> /\ key' \in Byte
        /\ lock' = lock /\ pc[p] = "lock" /\ Finish(p, -ENOSPC) /\ -ENOSPC \in Int
    BY <1>0, <1>3 DEF WriteFull, Waiting, dev, ENOSPC
  <2>. QED BY <1>0, <2>1, QuietStep
<1>4. CASE WriteEnter(p)
  <2>. DEFINE n == AtMost(Len(op[p].buf), BufferSize - data_len)
  <2>1. EnterLoop(p, n, 0) /\ op[p].kind = "write" /\ pc[p] = "lock" /\ lock = NoProc
    BY <1>4 DEF WriteEnter, Waiting
  <2>2. Len(op[p].buf) \in Nat /\ BufferSize - data_len \in Nat
    BY <1>0, <2>1, CallFields, SizeAssumption
  <2>3. n \in Nat /\ n <= BufferSize - data_len /\ n <= Len(op[p].buf)
    BY <2>2 DEF AtMost
  <2>. HIDE DEF n
  <2>. QED BY <2>1, <2>3, EnterStep
<1>5. CASE SetKey(p)
  <2>1. /\ UNCHANGED <<buffer, head, tail, data_len, ubuf>> /\ key' \in Byte
        /\ lock' = lock /\ pc[p] = "lock" /\ Finish(p, 0) /\ 0 \in Int
    BY <1>0, <1>5, CallFields DEF SetKey, Waiting
  <2>. QED BY <1>0, <2>1, QuietStep
<1>6. CASE ReadChunk(p)
  BY <1>6, ReadChunkStep
<1>7. CASE ReadFault(p)
  BY <1>7, ReadFaultStep
<1>8. CASE ReadDone(p)
  <2>1. /\ UNCHANGED <<buffer, head, tail, data_len, key, ubuf>> /\ moved[p] \in Int
        /\ lock' = NoProc /\ pc[p] = "copy" /\ Finish(p, moved[p])
    BY <1>8 DEF ReadDone, Copying, dev, IInv, TypeOK
  <2>. QED BY <2>1, EndStep
<1>9. CASE WriteChunk(p)
  BY <1>9, WriteChunkStep
<1>10. CASE WriteFault(p)
  BY <1>10, EndStep DEF WriteFault, Copying, dev, EFAULT
<1>11. CASE WriteDone(p)
  <2>1. /\ UNCHANGED <<buffer, head, tail, data_len, key, ubuf>> /\ moved[p] \in Int
        /\ lock' = NoProc /\ pc[p] = "copy" /\ Finish(p, moved[p])
    BY <1>11 DEF WriteDone, Copying, dev, IInv, TypeOK
  <2>. QED BY <2>1, EndStep
<1>. QED BY <1>1, <1>2, <1>3, <1>4, <1>5, <1>6, <1>7, <1>8, <1>9, <1>10, <1>11
         DEF Locking, InLoop

\* The steps that make and leave a call.
LEMMA EdgeInv ==
  ASSUME IInv, NEW p \in Proc,
         \/ \E r \in Calls : Call(p, r)
         \/ Interrupted(p) \/ SetKeyFault(p) \/ BadIoctl(p) \/ Return(p)
  PROVE  IInv'
<1>0. ubuf \in [Proc -> Seq(Byte \union {Untouched})] /\ key \in Byte
  BY DEF IInv, TypeOK
<1>1. CASE \E r \in Calls : Call(p, r)
  <2>1. PICK r \in Calls : Call(p, r)
    BY <1>1
  <2>2. r.kind = "read" => [i \in 1..r.len |-> Untouched] \in Seq(Byte \union {Untouched})
    BY CallFields
  <2>3. ubuf' \in [Proc -> Seq(Byte \union {Untouched})]
    BY <1>0, <2>1, <2>2 DEF Call
  <2>4. TypeOK'
    BY <2>1, <2>3 DEF IInv, TypeOK, Call, dev
  <2>5. RingConsistent' /\ LockHeldInLoop'
    BY <2>1, InputAssumption
       DEF IInv, TypeOK, RingConsistent, Wrap, LockHeldInLoop, Call, dev
  <2>6. \A q \in Proc : pc'[q] = "copy" => q # p /\ pc[q] = "copy" /\ op'[q] = op[q]
    BY <2>1 DEF Call, IInv, TypeOK
  <2>7. LoopWithinRing' /\ LoopCalls'
    BY <2>1, <2>6 DEF IInv, LoopWithinRing, LoopCalls, Call, dev
  <2>. QED BY <2>4, <2>5, <2>7 DEF IInv
<1>2. CASE Interrupted(p)
  <2>1. /\ UNCHANGED <<buffer, head, tail, data_len, ubuf>> /\ key' \in Byte
        /\ lock' = lock /\ pc[p] = "lock" /\ Finish(p, -ERESTARTSYS) /\ -ERESTARTSYS \in Int
    BY <1>0, <1>2 DEF Interrupted, dev, ERESTARTSYS
  <2>. QED BY <1>0, <2>1, QuietStep
<1>3. CASE SetKeyFault(p)
  <2>1. /\ UNCHANGED <<buffer, head, tail, data_len, ubuf>> /\ key' \in Byte
        /\ lock' = lock /\ pc[p] = "lock" /\ Finish(p, -EFAULT) /\ -EFAULT \in Int
    BY <1>0, <1>3 DEF SetKeyFault, dev, EFAULT
  <2>. QED BY <1>0, <2>1, QuietStep
<1>4. CASE BadIoctl(p)
  <2>1. /\ UNCHANGED <<buffer, head, tail, data_len, ubuf>> /\ key' \in Byte
        /\ lock' = lock /\ pc[p] = "lock" /\ Finish(p, -ENOTTY) /\ -ENOTTY \in Int
    BY <1>0, <1>4 DEF BadIoctl, dev, ENOTTY
  <2>. QED BY <1>0, <2>1, QuietStep
<1>5. CASE Return(p)
  <2>1. TypeOK'
    BY SMTT(30), <1>5 DEF IInv, TypeOK, Return, dev
  <2>2. RingConsistent' /\ LockHeldInLoop'
    BY <1>5, InputAssumption
       DEF IInv, TypeOK, RingConsistent, Wrap, LockHeldInLoop, Return, dev
  <2>3. \A q \in Proc : pc'[q] = "copy" => q # p /\ pc[q] = "copy" /\ op'[q] = op[q]
    BY <1>5 DEF Return, IInv, TypeOK
  <2>4. LoopWithinRing' /\ LoopCalls'
    BY <1>5, <2>3 DEF IInv, LoopWithinRing, LoopCalls, Return, dev
  <2>. QED BY <2>1, <2>2, <2>4 DEF IInv
<1>. QED BY <1>1, <1>2, <1>3, <1>4, <1>5

\* A step that changes nothing keeps the invariant.
LEMMA StutterInv == IInv /\ UNCHANGED vars => IInv'
BY DEF IInv, TypeOK, RingConsistent, Wrap, LockHeldInLoop, LoopWithinRing, LoopCalls, vars

\* Whatever calls interleave and wherever they fail, the ring indices stay
\* consistent, the mutex is held exactly in the loops, and no loop overruns.
THEOREM Invariance == Spec => []IInv
<1>1. IInv /\ [Next]_vars => IInv'
  <2>. SUFFICES ASSUME IInv, [Next]_vars PROVE IInv'
    OBVIOUS
  <2>1. CASE Next
    BY <2>1, NextInv, EdgeInv DEF Next
  <2>. QED BY <2>1, StutterInv
<1>. QED BY <1>1, InitInv, PTL DEF Spec

\* head stays data_len slots after tail (xorbox.c:79, :126), -EFAULT included.
THEOREM RingStaysConsistent == Spec => []RingConsistent
BY Invariance, PTL DEF IInv

\* Every path that locks the mutex of the device unlocks it.
THEOREM LockDiscipline == Spec => []LockHeldInLoop
BY Invariance, PTL DEF IInv

\* A chunk never takes bytes the ring lacks nor fills room it does not have.
THEOREM NoOverrun == Spec => []LoopWithinRing
BY Invariance, PTL DEF IInv
-----------------------------------------------------------------------------
(* Each call is one step of the pipe.  The steps of a loop leave both the  *)
(* pipe and its clients as they were; the step that ends the call is the   *)
(* one the pipe takes, and finds in user memory or in the ring what the    *)
(* loop has put there meanwhile.                                           *)

\* The n bytes that begin m slots before slot t of the ring b, under key k.
Decoded(b, t, k, n, m) ==
  [i \in 1..n |-> ByteXor(b[Wrap(t + BufferSize - m + i - 1)], k)]

\* The memory of a call before anything reached it.
Blank(r) == IF r.kind = "read" THEN [i \in 1..r.len |-> Untouched] ELSE <<>>

\* The bytes a read under way has taken out of the ring.
Took(p) == moved[p] - start[p]

\* A read under way has copied the first bytes of the pipe, and those are still
\* where they were in the ring; a write has appended the first bytes of its own.
Loading(p) ==
  /\ pc[p] = "lock" => op[p] \in Calls /\ ubuf[p] = Blank(op[p])
  /\ pc[p] = "copy" /\ op[p].kind = "read" =>
       /\ start[p] \in StackValue /\ start[p] <= moved[p]
       /\ todo[p] = AtMost(op[p].len, data_len + Took(p)) /\ data_len + Took(p) # 0
       /\ moved[p] <= todo[p] \/ moved[p] = start[p]
       /\ data_len + Took(p) <= BufferSize
       /\ ubuf[p] = [i \in 1..op[p].len |->
                       IF start[p] < i /\ i <= moved[p] THEN Pending[i - start[p]] ELSE Untouched]
  /\ pc[p] = "copy" /\ op[p].kind = "write" =>
       /\ ubuf[p] = <<>>
       /\ moved[p] <= todo[p] /\ moved[p] <= data_len
       /\ todo[p] = AtMost(Len(op[p].buf), BufferSize - (data_len - moved[p]))
       /\ BufferSize - (data_len - moved[p]) # 0
       /\ \A i \in 1..moved[p] :
            ByteXor(buffer[Wrap(tail + (data_len - moved[p]) + i - 1)], key) = op[p].buf[i]

LInv == IInv /\ \A p \in Proc : Loading(p)

\* Below three times the size of the ring.
LEMMA WrapTwice ==
  ASSUME NEW x \in 0..(3 * BufferSize - 1)
  PROVE  /\ Wrap(x) = IF x < BufferSize THEN x
                      ELSE IF x < 2 * BufferSize THEN x - BufferSize ELSE x - 2 * BufferSize
         /\ Wrap(x) \in Slot
BY SizeAssumption DEF Wrap, Slot

\* A whole turn ends in the slot it began in.
LEMMA WrapTurn ==
  ASSUME NEW x \in 0..(2 * BufferSize - 1)
  PROVE  Wrap(x + BufferSize) = Wrap(x)
<1>1. x + BufferSize \in 0..(3 * BufferSize - 1)
  BY SizeAssumption
<1>. QED BY <1>1, WrapOnce, WrapTwice, SizeAssumption

\* Bytes of the ring, in the order of the ring.
LEMMA DecodedBytes ==
  ASSUME NEW b \in [Slot -> Byte], NEW t \in Slot, NEW k \in Byte,
         NEW n \in 0..BufferSize, NEW m \in 0..BufferSize
  PROVE  /\ Decoded(b, t, k, n, m) \in Seq(Byte)
         /\ Len(Decoded(b, t, k, n, m)) = n
         /\ \A i \in 1..n :
              Decoded(b, t, k, n, m)[i] = ByteXor(b[Wrap(t + BufferSize - m + i - 1)], k)
<1>1. ASSUME NEW i \in 1..n
      PROVE  ByteXor(b[Wrap(t + BufferSize - m + i - 1)], k) \in Byte
  <2>1. t + BufferSize - m + i - 1 \in 0..(3 * BufferSize - 1)
    BY SizeAssumption DEF Slot
  <2>. QED BY <2>1, WrapTwice, ByteXorAssumption
<1>2. n \in Nat
  BY SizeAssumption
<1>. QED BY <1>1, <1>2 DEF Decoded

\* The pipe while nobody is in a loop.
LEMMA PendingFree ==
  /\ lock = NoProc /\ data_len \in Nat =>
       Pending = Decoded(buffer, tail, key, data_len, 0)
  /\ lock' = NoProc /\ data_len' \in Nat =>
       Pending' = Decoded(buffer', tail', key', data_len', 0)
BY DEF Pending, Taken, Added, Decoded, Wrap

\* The pipe while a read is under way: what it took is still in it.
LEMMA PendingRead ==
  ASSUME NEW p \in Proc
  PROVE  /\ lock = p /\ op[p].kind = "read" /\ data_len \in Nat /\ Took(p) \in Nat =>
              Pending = Decoded(buffer, tail, key, data_len + Took(p), Took(p))
         /\ lock' = p /\ op'[p].kind = "read" /\ data_len' \in Nat /\ Took(p)' \in Nat =>
              Pending' = Decoded(buffer', tail', key', data_len' + Took(p)', Took(p)')
BY InputAssumption DEF Pending, Taken, Added, Decoded, Wrap, Took

\* And a write: what it added is not in it yet.
LEMMA PendingWrite ==
  ASSUME NEW p \in Proc
  PROVE  /\ lock = p /\ op[p].kind = "write" /\ data_len \in Nat /\ moved[p] \in Nat =>
              Pending = Decoded(buffer, tail, key, data_len - moved[p], 0)
         /\ lock' = p /\ op'[p].kind = "write" /\ data_len' \in Nat /\ moved'[p] \in Nat =>
              Pending' = Decoded(buffer', tail', key', data_len' - moved'[p], 0)
BY InputAssumption DEF Pending, Taken, Added, Decoded, Wrap

\* What a client sees of one process.
Seen(at, call, value, memory) ==
  CASE at = "idle" -> [kind |-> "idle"]
    [] at \in {"lock", "copy"} -> call
    [] at = "done" -> [kind |-> "result", value |-> value, memory |-> memory]

\* The clients of XorPipe, before and after a step, process by process.
LEMMA ClientSeen ==
  /\ Client = [p \in Proc |-> Seen(pc[p], op[p], ret[p], ubuf[p])]
  /\ Client' = [p \in Proc |-> Seen(pc'[p], op'[p], ret'[p], ubuf'[p])]
BY DEF Client, Seen

\* What a caller sees of a call that is idle, under way or has returned.
LEMMA SeenAs ==
  ASSUME NEW o, NEW v, NEW m
  PROVE  /\ Seen("idle", o, v, m) = Pipe!Idle
         /\ Seen("lock", o, v, m) = o /\ Seen("copy", o, v, m) = o
         /\ Seen("done", o, v, m) = Pipe!Result(v, m)
BY DEF Seen, Pipe!Idle, Pipe!Result

\* Another turn of the same loop shows its clients nothing.
LEMMA ClientSame ==
  ASSUME UNCHANGED op, NEW p \in Proc, pc[p] \in {"lock", "copy"}, pc'[p] \in {"lock", "copy"},
         \A q \in Proc \ {p} : pc'[q] = pc[q] /\ ret'[q] = ret[q] /\ ubuf'[q] = ubuf[q]
  PROVE  Client' = Client
<1>1. ASSUME NEW q \in Proc
      PROVE  Seen(pc'[q], op'[q], ret'[q], ubuf'[q]) = Seen(pc[q], op[q], ret[q], ubuf[q])
  <2>1. CASE q = p
    BY <2>1, SeenAs
  <2>2. CASE q # p
    BY <2>2
  <2>. QED BY <2>1, <2>2
<1>. QED BY <1>1, ClientSeen

\* What one process shows when the others show what they did.
LEMMA ClientChange ==
  ASSUME NEW p \in Proc, NEW c, Seen(pc'[p], op'[p], ret'[p], ubuf'[p]) = c,
         \A q \in Proc \ {p} : /\ pc'[q] = pc[q] /\ op'[q] = op[q]
                               /\ ret'[q] = ret[q] /\ ubuf'[q] = ubuf[q]
  PROVE  Client' = [Client EXCEPT ![p] = c]
<1>1. ASSUME NEW q \in Proc
      PROVE  Client'[q] = IF q = p THEN c ELSE Client[q]
  <2>1. CASE q = p
    BY <2>1, ClientSeen
  <2>2. CASE q # p
    BY <2>2, ClientSeen
  <2>. QED BY <2>1, <2>2
<1>2. /\ Client' = [q \in Proc |-> Client'[q]]
      /\ [Client EXCEPT ![p] = c] = [q \in Proc |-> IF q = p THEN c ELSE Client[q]]
  BY ClientSeen
<1>. QED BY <1>1, <1>2

\* A call that ends shows its result.
LEMMA ClientFinish ==
  ASSUME IInv, NEW p \in Proc, NEW v, Finish(p, v),
         \A q \in Proc \ {p} : ubuf'[q] = ubuf[q]
  PROVE  Client' = [Client EXCEPT ![p] = Pipe!Result(v, ubuf'[p])]
<1>1. \A q \in Proc \ {p} : pc'[q] = pc[q] /\ ret'[q] = ret[q] /\ op'[q] = op[q]
  BY DEF Finish, IInv, TypeOK
<1>2. pc'[p] = "done" /\ ret'[p] = v
  BY DEF Finish, IInv, TypeOK
<1>3. Seen(pc'[p], op'[p], ret'[p], ubuf'[p]) = Pipe!Result(v, ubuf'[p])
  BY <1>2, SeenAs
<1>. QED BY <1>1, <1>3, ClientChange

\* Moving tail over c bytes leaves the pipe as it is if c more of them are
\* counted as taken.
LEMMA TakenStay ==
  ASSUME NEW b, NEW t \in Slot, NEW k, NEW n \in 0..BufferSize,
         NEW m \in 0..BufferSize, NEW c \in 0..BufferSize, m + c <= BufferSize
  PROVE  Decoded(b, Wrap(t + c), k, n, m + c) = Decoded(b, t, k, n, m)
<1>1. ASSUME NEW i \in 1..n
      PROVE  Wrap(Wrap(t + c) + BufferSize - (m + c) + i - 1) = Wrap(t + BufferSize - m + i - 1)
  <2>1. t + c \in 0..(2 * BufferSize - 1) /\ t + BufferSize - m + i - 1 \in 0..(3 * BufferSize - 1)
    BY SizeAssumption DEF Slot
  <2>2. Wrap(t + c) = IF t + c < BufferSize THEN t + c ELSE t + c - BufferSize
    BY <2>1, WrapOnce, SizeAssumption DEF Slot
  <2>3. Wrap(t + c) + BufferSize - (m + c) + i - 1 \in 0..(3 * BufferSize - 1)
    BY <2>2, SizeAssumption DEF Slot
  <2>. DEFINE x == t + BufferSize - m + i - 1
  <2>4. CASE t + c < BufferSize
    BY <2>2, <2>4, SizeAssumption DEF Slot
  <2>5. CASE t + c >= BufferSize
    <3>1. Wrap(t + c) + BufferSize - (m + c) + i - 1 = x - BufferSize
      BY <2>2, <2>5, SizeAssumption DEF Slot
    <3>2. x - BufferSize \in 0..(2 * BufferSize - 1) /\ x \in 0..(3 * BufferSize - 1)
      BY <2>1, <2>3, <3>1, SizeAssumption
    <3>. HIDE DEF x
    <3>3. Wrap((x - BufferSize) + BufferSize) = Wrap(x - BufferSize)
      BY <3>2, WrapTurn
    <3>4. (x - BufferSize) + BufferSize = x
      BY <3>2, SizeAssumption
    <3>. QED BY <3>1, <3>3, <3>4 DEF x
  <2>. QED BY <2>1, <2>4, <2>5, SizeAssumption DEF Slot
<1>. QED BY <1>1 DEF Decoded

\* d entries of a sequence, after its first n.
Dropped(s, n, d) == [i \in 1..d |-> s[i + n]]

\* The pipe without the m bytes taken and c more.
LEMMA TakenGone ==
  ASSUME NEW b, NEW t \in Slot, NEW k, NEW d \in Nat, NEW m \in 0..BufferSize,
         NEW c \in 0..BufferSize, NEW n \in 0..BufferSize, NEW x \in Nat,
         x = m + c, n = x + d
  PROVE  Dropped(Decoded(b, t, k, n, m), x, d) = Decoded(b, Wrap(t + c), k, d, 0)
<1>1. ASSUME NEW i \in 1..d
      PROVE  /\ Decoded(b, t, k, n, m)[i + x] = ByteXor(b[Wrap(t + c + i - 1 + BufferSize)], k)
             /\ Wrap(Wrap(t + c) + BufferSize - 0 + i - 1) = Wrap(t + c + i - 1 + BufferSize)
  <2>1. /\ i + x \in 1..n /\ d <= BufferSize
        /\ t + BufferSize - m + (i + x) - 1 = t + c + i - 1 + BufferSize
        /\ t + c \in 0..(2 * BufferSize - 1) /\ t + c + i - 1 \in 0..(2 * BufferSize - 1)
    BY SizeAssumption DEF Slot
  <2>2. Wrap(t + c) = IF t + c < BufferSize THEN t + c ELSE t + c - BufferSize
    BY <2>1, WrapOnce, SizeAssumption DEF Slot
  <2>3. CASE t + c < BufferSize
    <3>1. Wrap(t + c) + BufferSize - 0 + i - 1 = t + c + i - 1 + BufferSize
      BY <2>2, <2>3, SizeAssumption DEF Slot
    <3>. QED BY <2>1, <3>1 DEF Decoded
  <2>4. CASE t + c >= BufferSize
    <3>1. Wrap(t + c) + BufferSize - 0 + i - 1 = t + c + i - 1
      BY <2>2, <2>4, SizeAssumption DEF Slot
    <3>2. Wrap(t + c + i - 1 + BufferSize) = Wrap(t + c + i - 1)
      BY <2>1, WrapTurn
    <3>. QED BY <2>1, <3>1, <3>2 DEF Decoded
  <2>. QED BY <2>1, <2>3, <2>4, SizeAssumption DEF Slot
<1>. QED BY <1>1 DEF Decoded, Dropped

\* And the pipe without just those.
LEMMA TakenAll ==
  ASSUME NEW b, NEW t \in Slot, NEW k, NEW d \in Nat, NEW m \in 0..BufferSize
  PROVE  Dropped(Decoded(b, t, k, d + m, m), m, d) = Decoded(b, t, k, d, 0)
<1>1. ASSUME NEW i \in 1..d
      PROVE  i + m \in 1..(d + m) /\ t + BufferSize - m + (i + m) - 1 = t + BufferSize - 0 + i - 1
  BY SizeAssumption DEF Slot
<1>. QED BY <1>1 DEF Decoded, Dropped

\* Where slots lie around a chunk that is being stored at head: e slots after it,
\* or before it if e is negative.
LEMMA AroundHead ==
  ASSUME NEW t \in Slot, NEW d \in 0..BufferSize, NEW n \in 1..BufferSize, d + n <= BufferSize,
         NEW e \in (-d)..(n - 1)
  PROVE  /\ t + d + e \in 0..(2 * BufferSize - 1)
         /\ Within(Wrap(t + d + e), Wrap(t + d), n) <=> e >= 0
         /\ e >= 0 => Wrap(Wrap(t + d + e) + BufferSize - Wrap(t + d)) = e
<1>. DEFINE h == Wrap(t + d)
            s == Wrap(t + d + e)
<1>1. t + d \in 0..(2 * BufferSize - 1) /\ t + d + e \in 0..(2 * BufferSize - 1)
  BY SizeAssumption DEF Slot
<1>2. /\ h = IF t + d < BufferSize THEN t + d ELSE t + d - BufferSize
      /\ s = IF t + d + e < BufferSize THEN t + d + e ELSE t + d + e - BufferSize
      /\ h \in Slot /\ s \in Slot
  BY <1>1, WrapOnce, SizeAssumption DEF Slot
<1>. HIDE DEF h, s
<1>3. s + BufferSize - h \in 0..(2 * BufferSize - 1)
  BY <1>2, SizeAssumption DEF Slot
<1>4. Wrap(s + BufferSize - h) = IF s < h THEN s + BufferSize - h ELSE s - h
  BY <1>2, <1>3, WrapOnce, SizeAssumption DEF Slot
<1>5. CASE e >= 0
  <2>1. Wrap(s + BufferSize - h) = e
    BY <1>1, <1>2, <1>4, <1>5, SizeAssumption DEF Slot
  <2>. QED BY <1>1, <1>5, <2>1 DEF Within, h, s
<1>6. CASE e < 0
  <2>1. Wrap(s + BufferSize - h) = e + BufferSize
    BY <1>1, <1>2, <1>4, <1>6, SizeAssumption DEF Slot
  <2>2. ~(e + BufferSize < n)
    BY <1>6, SizeAssumption
  <2>. QED BY <1>1, <1>6, <2>1, <2>2 DEF Within, h, s
<1>. QED BY <1>5, <1>6

\* The ring, the key and a call, as an invariant leaves them.
LEMMA Typing ==
  ASSUME IInv, NEW p \in Proc
  PROVE  /\ buffer \in [Slot -> Byte] /\ head \in Slot /\ tail \in Slot /\ key \in Byte
         /\ data_len \in 0..BufferSize /\ data_len \in Nat
         /\ moved[p] \in Nat /\ todo[p] \in Nat /\ start[p] \in Nat
         /\ op[p] \in Calls \union {NoCall}
         /\ op[p].kind = "read" => op[p].len \in Nat
         /\ op[p].kind = "write" => op[p].buf \in Seq(Byte) /\ Len(op[p].buf) \in Nat
         /\ op[p].kind = "set_key" => op[p].arg \in Byte
<1>1. op[p] \in Calls \union {NoCall}
  BY DEF IInv, TypeOK
<1>. QED BY <1>1, CallFields, SizeAssumption DEF IInv, TypeOK

\* The pipe a read in its loop works on.
LEMMA ReadingPipe ==
  ASSUME LInv, NEW p \in Proc, pc[p] = "copy", op[p].kind = "read"
  PROVE  /\ lock = p
         /\ Pending = Decoded(buffer, tail, key, data_len + Took(p), Took(p))
         /\ data_len + Took(p) \in 1..BufferSize /\ Took(p) \in 0..BufferSize
         /\ Took(p) \in Nat /\ moved[p] = start[p] + Took(p)
         /\ Pending \in Seq(Byte) /\ Len(Pending) = data_len + Took(p)
         /\ start[p] \in StackValue /\ start[p] \in Nat
         /\ todo[p] = AtMost(op[p].len, Len(Pending))
         /\ moved[p] <= todo[p] \/ moved[p] = start[p]
         /\ todo[p] <= op[p].len /\ todo[p] <= data_len + Took(p) /\ op[p].len \in Nat
<1>1. /\ lock = p /\ data_len \in Nat /\ moved[p] \in Nat /\ start[p] \in Nat
      /\ start[p] <= moved[p] /\ start[p] \in StackValue /\ op[p].len \in Nat
      /\ data_len + Took(p) <= BufferSize /\ data_len + Took(p) # 0
  BY Typing DEF LInv, Loading, IInv, LockHeldInLoop
<1>2. Took(p) \in Nat /\ moved[p] = start[p] + Took(p)
  BY <1>1 DEF Took
<1>3. Pending = Decoded(buffer, tail, key, data_len + Took(p), Took(p))
  BY <1>1, <1>2, PendingRead
<1>4. data_len + Took(p) \in 0..BufferSize /\ Took(p) \in 0..BufferSize
  BY <1>1, <1>2, SizeAssumption
<1>5. Pending \in Seq(Byte) /\ Len(Pending) = data_len + Took(p)
  BY <1>3, <1>4, Typing, DecodedBytes DEF LInv
<1>6. /\ todo[p] = AtMost(op[p].len, data_len + Took(p))
      /\ moved[p] <= todo[p] \/ moved[p] = start[p]
  BY DEF LInv, Loading
<1>7. todo[p] <= op[p].len /\ todo[p] <= data_len + Took(p)
  BY <1>1, <1>2, <1>6 DEF AtMost
<1>8. data_len + Took(p) \in 1..BufferSize
  BY <1>1, <1>2, <1>4, SizeAssumption
<1>. QED BY <1>1, <1>2, <1>3, <1>4, <1>5, <1>6, <1>7, <1>8

\* copy_to_user delivers the next bytes of the pipe.
LEMMA DeliveredNext ==
  ASSUME LInv, NEW p \in Proc, pc[p] = "copy", op[p].kind = "read",
         NEW n \in Nat, moved[p] + n <= todo[p]
  PROVE  Delivered(p, n) =
           [i \in 1..op[p].len |->
              IF start[p] < i /\ i <= moved[p] + n THEN Pending[i - start[p]] ELSE Untouched]
<1>. DEFINE t == Took(p)
            k == start[p]
<1>1. /\ Pending = Decoded(buffer, tail, key, data_len + t, t)
      /\ data_len + t \in 0..BufferSize /\ t \in 0..BufferSize /\ t \in Nat /\ k \in Nat
      /\ moved[p] = k + t /\ moved[p] + n <= data_len + t /\ moved[p] + n <= op[p].len
      /\ moved[p] \in Nat /\ op[p].len \in Nat /\ data_len \in Nat /\ tail \in Slot
  <2>1. /\ todo[p] <= op[p].len /\ todo[p] <= data_len + t /\ data_len + t \in 1..BufferSize
        /\ t \in Nat /\ moved[p] = k + t /\ k \in Nat
        /\ moved[p] \in Nat /\ op[p].len \in Nat /\ data_len \in Nat /\ todo[p] \in Nat
    BY ReadingPipe, Typing DEF LInv
  <2>2. /\ moved[p] + n <= data_len + t /\ moved[p] + n <= op[p].len
        /\ data_len + t \in 0..BufferSize
    BY <2>1, SizeAssumption
  <2>. QED BY <2>1, <2>2, ReadingPipe, Typing DEF LInv
<1>2. ubuf[p] = [i \in 1..op[p].len |->
                   IF k < i /\ i <= moved[p] THEN Pending[i - k] ELSE Untouched]
  BY DEF LInv, Loading
<1>. HIDE DEF t, k
<1>3. ASSUME NEW i \in 1..op[p].len, i > moved[p], i <= moved[p] + n
      PROVE  ByteXor(Window(tail, n)[i - moved[p]], key) = Pending[i - k]
  <2>1. /\ i - moved[p] \in 1..n /\ i - k \in 1..(data_len + t)
        /\ tail + (i - moved[p]) - 1 \in 0..(2 * BufferSize - 1)
        /\ tail + BufferSize - t + (i - k) - 1 = (tail + (i - moved[p]) - 1) + BufferSize
    BY SMTT(30), <1>1, <1>3, SizeAssumption DEF Slot
  <2>2. Window(tail, n)[i - moved[p]] = buffer[Wrap(tail + (i - moved[p]) - 1)]
    BY <2>1 DEF Window
  <2>3. Wrap(tail + BufferSize - t + (i - k) - 1) = Wrap(tail + (i - moved[p]) - 1)
    BY <2>1, WrapTurn
  <2>4. Pending[i - k] = ByteXor(buffer[Wrap(tail + BufferSize - t + (i - k) - 1)], key)
    BY <1>1, <2>1 DEF Decoded
  <2>. QED BY <2>2, <2>3, <2>4
<1>4. ASSUME NEW i \in 1..op[p].len
      PROVE  (IF i > moved[p] /\ i <= moved[p] + n
                THEN ByteXor(Window(tail, n)[i - moved[p]], key) ELSE ubuf[p][i])
               = IF k < i /\ i <= moved[p] + n THEN Pending[i - k] ELSE Untouched
  <2>1. CASE i > moved[p] /\ i <= moved[p] + n
    <3>1. k < i
      BY <1>1, <2>1
    <3>. QED BY <1>3, <2>1, <3>1
  <2>2. CASE ~(i > moved[p] /\ i <= moved[p] + n)
    <3>1. i <= moved[p] <=> i <= moved[p] + n
      BY <1>1, <2>2
    <3>. QED BY <1>2, <2>2, <3>1
  <2>. QED BY <2>1, <2>2
<1>5. DOMAIN ubuf[p] = 1..op[p].len
  BY <1>2
<1>. QED BY <1>4, <1>5 DEF Delivered, k

\* The pipe a write in its loop works on.
LEMMA WritingPipe ==
  ASSUME LInv, NEW p \in Proc, pc[p] = "copy", op[p].kind = "write"
  PROVE  /\ lock = p
         /\ Pending = Decoded(buffer, tail, key, data_len - moved[p], 0)
         /\ data_len - moved[p] \in 0..BufferSize /\ moved[p] \in 0..BufferSize
         /\ Pending \in Seq(Byte) /\ Len(Pending) = data_len - moved[p]
         /\ todo[p] = AtMost(Len(op[p].buf), BufferSize - Len(Pending)) /\ moved[p] <= todo[p]
         /\ todo[p] <= Len(op[p].buf) /\ BufferSize - Len(Pending) # 0
<1>1. lock = p /\ data_len \in 0..BufferSize /\ moved[p] \in Nat /\ moved[p] <= data_len
      /\ Len(op[p].buf) \in Nat
  BY Typing DEF LInv, Loading, IInv, LockHeldInLoop
<1>2. Pending = Decoded(buffer, tail, key, data_len - moved[p], 0)
  BY <1>1, PendingWrite
<1>3. data_len - moved[p] \in 0..BufferSize /\ moved[p] \in 0..BufferSize /\ 0 \in 0..BufferSize
  BY <1>1, SizeAssumption
<1>4. Pending \in Seq(Byte) /\ Len(Pending) = data_len - moved[p]
  BY <1>2, <1>3, Typing, DecodedBytes DEF LInv
<1>5. /\ todo[p] = AtMost(Len(op[p].buf), BufferSize - (data_len - moved[p]))
      /\ moved[p] <= todo[p] /\ BufferSize - (data_len - moved[p]) # 0
  BY DEF LInv, Loading
<1>6. todo[p] <= Len(op[p].buf)
  BY <1>1, <1>3, <1>5, SizeAssumption DEF AtMost
<1>. QED BY <1>1, <1>2, <1>3, <1>4, <1>5, <1>6

\* What a write has stored is, once it ends, at the end of the pipe.
LEMMA AppendedBytes ==
  ASSUME LInv, NEW p \in Proc, pc[p] = "copy", op[p].kind = "write"
  PROVE  Decoded(buffer, tail, key, data_len, 0) = Pending \o SubSeq(op[p].buf, 1, moved[p])
<1>. DEFINE d == data_len - moved[p]
            w == SubSeq(op[p].buf, 1, moved[p])
            new == Decoded(buffer, tail, key, data_len, 0)
<1>1. /\ Pending = Decoded(buffer, tail, key, d, 0) /\ Pending \in Seq(Byte) /\ Len(Pending) = d
      /\ d \in Nat /\ moved[p] \in Nat /\ data_len = d + moved[p] /\ data_len \in 0..BufferSize
      /\ moved[p] <= Len(op[p].buf) /\ op[p].buf \in Seq(Byte) /\ Len(op[p].buf) \in Nat
      /\ tail \in Slot
  <2>1. /\ moved[p] <= todo[p] /\ todo[p] <= Len(op[p].buf) /\ todo[p] \in Nat
        /\ moved[p] \in Nat /\ Len(op[p].buf) \in Nat /\ data_len \in 0..BufferSize
        /\ d \in 0..BufferSize
    BY WritingPipe, Typing DEF LInv
  <2>. QED BY <2>1, WritingPipe, Typing, SizeAssumption DEF LInv
<1>2. \A i \in 1..moved[p] :
        ByteXor(buffer[Wrap(tail + d + i - 1)], key) = op[p].buf[i]
  BY DEF LInv, Loading
<1>3. new \in Seq(Byte) /\ Len(new) = data_len
  <2>1. /\ buffer \in [Slot -> Byte] /\ tail \in Slot /\ key \in Byte
        /\ data_len \in 0..BufferSize /\ 0 \in 0..BufferSize
    BY <1>1, Typing, SizeAssumption DEF LInv
  <2>2. /\ Decoded(buffer, tail, key, data_len, 0) \in Seq(Byte)
        /\ Len(Decoded(buffer, tail, key, data_len, 0)) = data_len
    <3>. HIDE DEF d, w, new
    <3>. QED BY <2>1, DecodedBytes
  <2>. QED BY <2>2
<1>. HIDE DEF d
<1>4. w \in Seq(Byte) /\ Len(w) = moved[p] /\ \A i \in 1..moved[p] : w[i] = op[p].buf[i]
  <2>1. \A i \in 1..moved[p] : op[p].buf[i] \in Byte
    BY <1>1, ElementOfSeq
  <2>2. /\ w \in Seq(Byte)
        /\ Len(w) = IF 1 <= moved[p] THEN moved[p] - 1 + 1 ELSE 0
        /\ \A i \in 1..(moved[p] - 1 + 1) : w[i] = op[p].buf[1 + i - 1]
    BY <1>1, <2>1, SubSeqProperties
  <2>. QED BY <1>1, <2>2
<1>. HIDE DEF w, new
<1>5. /\ Pending \o w \in Seq(Byte) /\ Len(Pending \o w) = d + moved[p]
      /\ \A i \in 1..(d + moved[p]) : (Pending \o w)[i] = IF i <= d THEN Pending[i] ELSE w[i - d]
  BY <1>1, <1>4, ConcatProperties
<1>6. ASSUME NEW i \in 1..data_len PROVE new[i] = (Pending \o w)[i]
  <2>1. new[i] = ByteXor(buffer[Wrap(tail + BufferSize - 0 + i - 1)], key)
    BY DEF new, Decoded
  <2>2. CASE i <= d
    <3>1. Pending[i] = ByteXor(buffer[Wrap(tail + BufferSize - 0 + i - 1)], key)
      BY <1>1, <2>2 DEF Decoded
    <3>. QED BY <1>1, <1>5, <2>1, <2>2, <3>1
  <2>3. CASE ~(i <= d)
    <3>1. /\ i - d \in 1..moved[p] /\ tail + d + (i - d) - 1 \in 0..(2 * BufferSize - 1)
          /\ tail + BufferSize - 0 + i - 1 = (tail + d + (i - d) - 1) + BufferSize
      BY <1>1, <2>3, SizeAssumption DEF Slot
    <3>2. Wrap(tail + BufferSize - 0 + i - 1) = Wrap(tail + d + (i - d) - 1)
      BY <3>1, WrapTurn
    <3>3. new[i] = op[p].buf[i - d]
      BY <1>2, <2>1, <3>1, <3>2
    <3>. QED BY <1>1, <1>4, <1>5, <2>3, <3>1, <3>3
  <2>. QED BY <2>2, <2>3
<1>7. new = Pending \o w
  <2>1. Len(new) = Len(Pending \o w)
    BY <1>1, <1>3, <1>5
  <2>2. \A i \in 1..Len(new) : new[i] = (Pending \o w)[i]
    BY <1>3, <1>6
  <2>. QED BY <1>3, <1>5, <2>1, <2>2, SeqEqual
<1>. QED BY <1>7 DEF new, w
\* A process that takes no step is as far as it was, provided the ring stays as
\* it is while the process is in its loop.
LEMMA LoadingOthers ==
  ASSUME NEW q \in Proc, Loading(q),
         pc'[q] = pc[q], op'[q] = op[q], todo'[q] = todo[q], moved'[q] = moved[q],
         start'[q] = start[q],
         ubuf'[q] = ubuf[q],
         pc[q] = "copy" => UNCHANGED dev /\ Pending' = Pending
  PROVE  Loading(q)'
<1>1. CASE pc[q] = "copy"
  BY <1>1 DEF Loading, Blank, dev, Wrap, Took
<1>2. CASE pc[q] # "copy"
  BY <1>2 DEF Loading, Blank
<1>. QED BY <1>1, <1>2

\* What one process does to the loops of the others while it has the mutex or
\* while nobody has it: nothing.
LEMMA LoadingWithLock ==
  ASSUME LInv, NEW p \in Proc, lock \in {p, NoProc},
         \A q \in Proc \ {p} : /\ pc'[q] = pc[q] /\ op'[q] = op[q] /\ todo'[q] = todo[q]
                               /\ moved'[q] = moved[q] /\ start'[q] = start[q] /\ ubuf'[q] = ubuf[q],
         Loading(p)'
  PROVE  \A q \in Proc : Loading(q)'
<1>. SUFFICES ASSUME NEW q \in Proc \ {p} PROVE Loading(q)'
  OBVIOUS
<1>1. pc[q] # "copy"
  BY InputAssumption DEF LInv, IInv, LockHeldInLoop
<1>. QED BY <1>1, LoadingOthers DEF LInv

\* A step outside the loops that leaves the ring and the mutex alone leaves the
\* pipe alone, and the loop of whoever has the mutex.
LEMMA QuietPipe ==
  ASSUME LInv, NEW p \in Proc, pc[p] # "copy", pc'[p] # "copy",
         UNCHANGED dev, lock' = lock,
         \A q \in Proc \ {p} : /\ pc'[q] = pc[q] /\ op'[q] = op[q] /\ todo'[q] = todo[q]
                               /\ moved'[q] = moved[q] /\ start'[q] = start[q] /\ ubuf'[q] = ubuf[q],
         pc'[p] = "lock" => op'[p] \in Calls /\ ubuf'[p] = Blank(op'[p])
  PROVE  Pending' = Pending /\ \A q \in Proc : Loading(q)'
<1>1. lock # p /\ lock \in Proc \union {NoProc}
  BY DEF LInv, IInv, TypeOK, LockHeldInLoop
<1>2. Taken' = Taken /\ Added' = Added
  BY <1>1 DEF Taken, Added
<1>3. Pending' = Pending
  BY <1>2 DEF Pending, dev, Wrap
<1>4. Loading(p)'
  BY DEF Loading, Blank
<1>. QED BY <1>3, <1>4, LoadingOthers DEF LInv
\* A call that ends answers its process.
LEMMA Answering ==
  ASSUME LInv, NEW p \in Proc, NEW v, Finish(p, v), pc[p] \in {"lock", "copy"},
         \A q \in Proc \ {p} : ubuf'[q] = ubuf[q]
  PROVE  Client[p] = op[p] /\ Pipe!Answer(p, v, ubuf'[p])
<1>1. Client[p] = op[p]
  BY ClientSeen, SeenAs
<1>. QED BY <1>1, ClientFinish DEF LInv, Pipe!Answer

\* A call that ends before it has the mutex.
LEMMA QuietAnswer ==
  ASSUME LInv, NEW p \in Proc, NEW v, Finish(p, v), pc[p] = "lock",
         UNCHANGED <<dev, lock, ubuf>>
  PROVE  /\ Client[p] = op[p] /\ Pipe!Answer(p, v, Blank(op[p]))
         /\ Pending' = Pending /\ \A q \in Proc : Loading(q)'
<1>1. ubuf'[p] = Blank(op[p])
  BY DEF LInv, Loading
<1>2. Client[p] = op[p] /\ Pipe!Answer(p, v, ubuf'[p])
  BY Answering
<1>3. /\ pc'[p] = "done"
      /\ \A q \in Proc \ {p} : /\ pc'[q] = pc[q] /\ op'[q] = op[q] /\ todo'[q] = todo[q]
                               /\ moved'[q] = moved[q] /\ start'[q] = start[q] /\ ubuf'[q] = ubuf[q]
  BY DEF Finish, LInv, IInv, TypeOK
<1>4. Pending' = Pending /\ \A q \in Proc : Loading(q)'
  BY <1>3, QuietPipe
<1>. QED BY <1>1, <1>2, <1>4

\* A signal, a bad argument or an unknown command.
LEMMA RefusedMaps ==
  ASSUME LInv, NEW p \in Proc, Interrupted(p) \/ SetKeyFault(p) \/ BadIoctl(p)
  PROVE  Pipe!Refused(p) /\ \A q \in Proc : Loading(q)'
<1>1. CASE Interrupted(p)
  <2>1. /\ Client[p] = op[p] /\ Pipe!Answer(p, -ERESTARTSYS, Blank(op[p]))
        /\ Pending' = Pending /\ \A q \in Proc : Loading(q)'
    BY <1>1, QuietAnswer DEF Interrupted
  <2>2. op[p].kind \in {"read", "write", "set_key"}
    <3>1. op[p] \in Calls /\ op[p].kind # "bad_ioctl"
      BY <1>1 DEF Interrupted, LInv, Loading
    <3>. QED BY <3>1 DEF Calls
  <2>3. Pipe!Unfilled(p) = Blank(op[p])
    BY <2>1 DEF Pipe!Unfilled, Blank
  <2>. QED BY <1>1, <2>1, <2>2, <2>3
           DEF Interrupted, dev, Pipe!Refused, ERESTARTSYS, Pipe!ERESTARTSYS
<1>2. CASE SetKeyFault(p)
  <2>1. /\ Client[p] = op[p] /\ Pipe!Answer(p, -EFAULT, Blank(op[p]))
        /\ Pending' = Pending /\ \A q \in Proc : Loading(q)'
    BY <1>2, QuietAnswer DEF SetKeyFault
  <2>. QED BY <1>2, <2>1 DEF SetKeyFault, dev, Pipe!Refused, Blank, EFAULT, Pipe!EFAULT
<1>3. CASE BadIoctl(p)
  <2>1. /\ Client[p] = op[p] /\ Pipe!Answer(p, -ENOTTY, Blank(op[p]))
        /\ Pending' = Pending /\ \A q \in Proc : Loading(q)'
    BY <1>3, QuietAnswer DEF BadIoctl
  <2>. QED BY <1>3, <2>1 DEF BadIoctl, dev, Pipe!Refused, Blank, ENOTTY, Pipe!ENOTTY
<1>. QED BY <1>1, <1>2, <1>3

\* The pipe while the mutex is free.
LEMMA FreePipe ==
  ASSUME LInv, lock = NoProc
  PROVE  /\ Pending = Decoded(buffer, tail, key, data_len, 0)
         /\ Pending \in Seq(Byte) /\ Len(Pending) = data_len
         /\ \A p \in Proc : pc[p] # "copy"
<1>1. /\ buffer \in [Slot -> Byte] /\ tail \in Slot /\ key \in Byte
      /\ data_len \in 0..BufferSize /\ data_len \in Nat /\ 0 \in 0..BufferSize
  BY SizeAssumption DEF LInv, IInv, TypeOK
<1>2. Pending = Decoded(buffer, tail, key, data_len, 0)
  BY <1>1, PendingFree
<1>3. \A p \in Proc : pc[p] # "copy"
  BY InputAssumption DEF LInv, IInv, LockHeldInLoop
<1>. QED BY <1>1, <1>2, <1>3, DecodedBytes

\* An empty ring answers 0.
LEMMA ReadEmptyMaps ==
  ASSUME LInv, NEW p \in Proc, ReadEmpty(p)
  PROVE  Pipe!ReadNothing(p) /\ \A q \in Proc : Loading(q)'
<1>1. /\ Client[p] = op[p] /\ Pipe!Answer(p, 0, Blank(op[p]))
      /\ Pending' = Pending /\ \A q \in Proc : Loading(q)'
  BY QuietAnswer DEF ReadEmpty, Waiting
<1>2. op[p].kind = "read" /\ key' = key
  BY DEF ReadEmpty, Waiting, dev
<1>3. Pending = <<>>
  BY FreePipe, EmptySeq DEF ReadEmpty, Waiting
<1>4. Pipe!Unfilled(p) = Blank(op[p])
  BY <1>1 DEF Pipe!Unfilled, Blank
<1>. QED BY <1>1, <1>2, <1>3, <1>4 DEF Pipe!ReadNothing

\* A full ring refuses the write.
LEMMA WriteFullMaps ==
  ASSUME LInv, NEW p \in Proc, WriteFull(p)
  PROVE  Pipe!WriteRefused(p) /\ \A q \in Proc : Loading(q)'
<1>1. /\ Client[p] = op[p] /\ Pipe!Answer(p, -ENOSPC, Blank(op[p]))
      /\ Pending' = Pending /\ \A q \in Proc : Loading(q)'
  BY QuietAnswer DEF WriteFull, Waiting
<1>2. Len(Pending) = data_len /\ op[p].kind = "write"
  BY FreePipe DEF WriteFull, Waiting
<1>3. BufferSize - data_len = 0 /\ key' = key
  BY DEF WriteFull, dev
<1>. QED BY <1>1, <1>2, <1>3 DEF Pipe!WriteRefused, Pipe!Room, Blank, ENOSPC, Pipe!ENOSPC
\* Another turn of a loop, or entering it: the process waits as before.
Waits(p) ==
  /\ UNCHANGED op /\ pc[p] \in {"lock", "copy"} /\ pc'[p] = "copy"
  /\ \A q \in Proc \ {p} : /\ pc'[q] = pc[q] /\ ret'[q] = ret[q] /\ ubuf'[q] = ubuf[q]
                           /\ todo'[q] = todo[q] /\ moved'[q] = moved[q]
                           /\ start'[q] = start[q] /\ op'[q] = op[q]

\* dev_read takes the mutex, and has taken nothing whatever its count begins with.
LEMMA ReadEnterMaps ==
  ASSUME LInv, NEW p \in Proc, ReadEnter(p)
  PROVE  UNCHANGED <<Pending, key, Client>> /\ \A q \in Proc : Loading(q)'
<1>1. PICK from \in StackValue : EnterLoop(p, AtMost(op[p].len, data_len), from)
  BY DEF ReadEnter
<1>2. /\ lock = NoProc /\ lock' = p /\ UNCHANGED <<dev, op, ubuf, ret>> /\ Waits(p)
      /\ todo'[p] = AtMost(op[p].len, data_len) /\ moved'[p] = from /\ start'[p] = from
      /\ pc'[p] = "copy" /\ op[p].kind = "read" /\ ubuf[p] = Blank(op[p]) /\ data_len # 0
  BY <1>1 DEF ReadEnter, EnterLoop, Waiting, Waits, LInv, Loading, IInv, TypeOK
<1>3. /\ data_len \in Nat /\ data_len <= BufferSize /\ op[p].len \in Nat /\ from \in Nat
      /\ data_len + 0 = data_len
  BY <1>2, Typing, SizeAssumption, InputAssumption DEF LInv
<1>4. Client' = Client
  BY <1>2, ClientSame DEF Waits
<1>5. Took(p)' = 0
  BY <1>2, <1>3 DEF Took
<1>6. Pending' = Pending
  <2>1. Pending' = Decoded(buffer', tail', key', data_len' + 0, 0)
    BY <1>2, <1>3, <1>5, PendingRead DEF dev
  <2>. QED BY <1>2, <1>3, <2>1, FreePipe DEF dev
<1>7. Loading(p)'
  <2>1. AtMost(op[p].len, data_len) \in Nat
    BY <1>3 DEF AtMost
  <2>2. ubuf[p] = [i \in 1..op[p].len |->
                     IF from < i /\ i <= from THEN Pending[i - from] ELSE Untouched]
    BY <1>2, <1>3 DEF Blank
  <2>. QED BY <1>2, <1>3, <1>5, <1>6, <2>1, <2>2 DEF Loading, AtMost, dev
<1>8. \A q \in Proc : Loading(q)'
  BY <1>2, <1>7, LoadingWithLock DEF Waits
<1>. QED BY <1>2, <1>4, <1>6, <1>8 DEF dev

\* dev_write takes the mutex.
LEMMA WriteEnterMaps ==
  ASSUME LInv, NEW p \in Proc, WriteEnter(p)
  PROVE  UNCHANGED <<Pending, key, Client>> /\ \A q \in Proc : Loading(q)'
<1>1. /\ EnterLoop(p, AtMost(Len(op[p].buf), BufferSize - data_len), 0)
      /\ Waiting(p, "write") /\ BufferSize - data_len # 0
  BY DEF WriteEnter
<1>2. /\ lock = NoProc /\ lock' = p /\ UNCHANGED <<dev, op, ubuf, ret>> /\ Waits(p)
      /\ todo'[p] = AtMost(Len(op[p].buf), BufferSize - data_len) /\ moved'[p] = 0
      /\ pc'[p] = "copy" /\ op[p].kind = "write" /\ ubuf[p] = Blank(op[p])
  BY <1>1 DEF EnterLoop, Waiting, Waits, LInv, Loading, IInv, TypeOK
<1>3. data_len \in Nat /\ data_len <= BufferSize /\ Len(op[p].buf) \in Nat
  BY <1>2, Typing, SizeAssumption DEF LInv
<1>4. Client' = Client
  BY <1>2, ClientSame DEF Waits
<1>5. Pending' = Pending
  <2>1. Pending' = Decoded(buffer', tail', key', data_len' - 0, 0)
    BY <1>2, <1>3, PendingWrite DEF dev
  <2>. QED BY <1>2, <1>3, <2>1, FreePipe DEF dev
<1>6. Loading(p)'
  <2>1. AtMost(Len(op[p].buf), BufferSize - data_len) \in Nat /\ data_len - 0 = data_len
    BY <1>3, SizeAssumption DEF AtMost
  <2>. QED BY <1>1, <1>2, <1>3, <2>1 DEF Loading, AtMost, dev, Blank
<1>7. \A q \in Proc : Loading(q)'
  BY <1>2, <1>6, LoadingWithLock DEF Waits
<1>. QED BY <1>2, <1>4, <1>5, <1>7 DEF dev

\* A new key decodes the bytes inside to what they were under the old one and
\* both.
LEMMA SetKeyMaps ==
  ASSUME LInv, NEW p \in Proc, SetKey(p)
  PROVE  Pipe!SetKey(p) /\ \A q \in Proc : Loading(q)'
<1>1. /\ lock = NoProc /\ lock' = NoProc /\ pc[p] = "lock" /\ op[p].kind = "set_key"
      /\ UNCHANGED <<buffer, head, tail, data_len, ubuf, op>> /\ key' = op[p].arg
      /\ Finish(p, 0) /\ ubuf[p] = Blank(op[p])
  BY DEF SetKey, Waiting, Finish, LInv, Loading
<1>2. Client[p] = op[p] /\ Pipe!Answer(p, 0, <<>>)
  BY <1>1, Answering DEF Blank
<1>3. /\ buffer \in [Slot -> Byte] /\ tail \in Slot /\ key \in Byte
      /\ data_len \in 0..BufferSize /\ data_len \in Nat /\ 0 \in 0..BufferSize
  BY Typing, SizeAssumption DEF LInv
<1>4. Pending = Decoded(buffer, tail, key, data_len, 0)
      /\ Pending' = Decoded(buffer, tail, key', data_len, 0)
  BY <1>1, <1>3, FreePipe, PendingFree
<1>5. ASSUME NEW i \in 1..data_len
      PROVE  ByteXor(Pending[i], key) = buffer[Wrap(tail + BufferSize - 0 + i - 1)]
  <2>1. tail + BufferSize - 0 + i - 1 \in 0..(3 * BufferSize - 1)
    BY <1>3, SizeAssumption DEF Slot
  <2>2. buffer[Wrap(tail + BufferSize - 0 + i - 1)] \in Byte
    BY <1>3, <2>1, WrapTwice
  <2>. QED BY <1>3, <1>4, <2>2, ByteXorAssumption DEF Decoded
<1>6. Pending' = [i \in DOMAIN Pending |-> ByteXor(ByteXor(Pending[i], key), key')]
  <2>1. DOMAIN Pending = 1..data_len
    BY <1>4 DEF Decoded
  <2>. QED BY <1>4, <1>5, <2>1 DEF Decoded
<1>7. \A q \in Proc : Loading(q)'
  <2>1. /\ pc'[p] = "done"
        /\ \A q \in Proc \ {p} : /\ pc'[q] = pc[q] /\ op'[q] = op[q] /\ todo'[q] = todo[q]
                                 /\ moved'[q] = moved[q] /\ start'[q] = start[q] /\ ubuf'[q] = ubuf[q]
    BY <1>1 DEF Finish, LInv, IInv, TypeOK
  <2>2. Loading(p)'
    BY <2>1 DEF Loading
  <2>. QED BY <1>1, <2>1, <2>2, LoadingWithLock
<1>. QED BY <1>1, <1>2, <1>6, <1>7 DEF Pipe!SetKey

\* A process makes a call.
LEMMA CallMaps ==
  ASSUME LInv, NEW p \in Proc, NEW r \in Calls, Call(p, r)
  PROVE  Pipe!Call(p, r) /\ \A q \in Proc : Loading(q)'
<1>1. /\ pc[p] = "idle" /\ pc'[p] = "lock" /\ op'[p] = r /\ ubuf'[p] = Blank(r)
      /\ UNCHANGED <<dev, lock>>
      /\ \A q \in Proc \ {p} : /\ pc'[q] = pc[q] /\ op'[q] = op[q] /\ ret'[q] = ret[q]
                               /\ todo'[q] = todo[q] /\ moved'[q] = moved[q] /\ start'[q] = start[q]
                               /\ ubuf'[q] = ubuf[q]
  BY DEF Call, LInv, IInv, TypeOK, Blank
<1>2. Pending' = Pending /\ \A q \in Proc : Loading(q)'
  BY <1>1, QuietPipe
<1>3. Client[p] = Pipe!Idle
  BY <1>1, ClientSeen, SeenAs
<1>4. Client' = [Client EXCEPT ![p] = r]
  <2>1. Seen(pc'[p], op'[p], ret'[p], ubuf'[p]) = r
    BY <1>1, SeenAs
  <2>. QED BY <1>1, <2>1, ClientChange
<1>. QED BY <1>1, <1>2, <1>3, <1>4 DEF Pipe!Call, dev

\* It takes its result and forgets it.
LEMMA ReturnMaps ==
  ASSUME LInv, NEW p \in Proc, Return(p)
  PROVE  Pipe!Return(p) /\ \A q \in Proc : Loading(q)'
<1>1. /\ pc[p] = "done" /\ pc'[p] = "idle" /\ UNCHANGED <<dev, lock>>
      /\ \A q \in Proc \ {p} : /\ pc'[q] = pc[q] /\ op'[q] = op[q] /\ ret'[q] = ret[q]
                               /\ todo'[q] = todo[q] /\ moved'[q] = moved[q] /\ start'[q] = start[q]
                               /\ ubuf'[q] = ubuf[q]
  BY DEF Return, LInv, IInv, TypeOK
<1>2. Pending' = Pending /\ \A q \in Proc : Loading(q)'
  BY <1>1, QuietPipe
<1>3. Client[p] = Pipe!Result(ret[p], ubuf[p])
  BY <1>1, ClientSeen, SeenAs
<1>4. Client' = [Client EXCEPT ![p] = Pipe!Idle]
  <2>1. Seen(pc'[p], op'[p], ret'[p], ubuf'[p]) = Pipe!Idle
    BY <1>1, SeenAs
  <2>. QED BY <1>1, <2>1, ClientChange
<1>. QED BY <1>1, <1>2, <1>3, <1>4 DEF Pipe!Return, Pipe!Result, dev
\* A chunk of a read: taken from the ring, delivered, and still in the pipe.
LEMMA ReadChunkMaps ==
  ASSUME LInv, NEW p \in Proc, ReadChunk(p)
  PROVE  UNCHANGED <<Pending, key, Client>> /\ \A q \in Proc : Loading(q)'
<1>. DEFINE c == Chunk(p)
            t == Took(p)
<1>1. /\ pc[p] = "copy" /\ op[p].kind = "read" /\ moved[p] < todo[p]
      /\ c \in 1..BufferSize /\ c <= todo[p] - moved[p] /\ c <= data_len
  BY ChunkBounds DEF LInv, ReadChunk, Copying
<1>2. /\ moved'[p] = moved[p] + c /\ ubuf'[p] = Delivered(p, c) /\ todo' = todo
      /\ start' = start /\ tail' = Wrap(tail + c) /\ data_len' = data_len - c
      /\ UNCHANGED <<buffer, head, key, lock, op, pc>> /\ Waits(p)
  BY <1>1 DEF LInv, IInv, TypeOK, ReadChunk, TakeBytes, Waits
<1>. HIDE DEF c
<1>3. /\ lock = p /\ data_len \in Nat /\ moved[p] \in Nat /\ c \in Nat /\ tail \in Slot
      /\ data_len + t \in 1..BufferSize /\ t \in 0..BufferSize /\ t \in Nat
      /\ moved[p] = start[p] + t /\ start[p] \in Nat /\ start[p] \in StackValue
      /\ todo[p] <= data_len + t
      /\ c \in 0..BufferSize /\ todo[p] \in Nat
      /\ Pending = Decoded(buffer, tail, key, data_len + t, t)
  BY <1>1, ReadingPipe, Typing, SizeAssumption DEF LInv
<1>4. Took(p)' = t + c
  BY <1>2, <1>3 DEF Took
<1>. HIDE DEF t
<1>5. /\ t + c \in Nat /\ t + c <= BufferSize /\ (data_len - c) + (t + c) = data_len + t
      /\ data_len - c \in Nat /\ data_len + t \in 0..BufferSize
  BY <1>1, <1>3, SizeAssumption
<1>6. Client' = Client
  BY <1>1, <1>2, ClientSame DEF Waits
<1>7. Pending' = Pending
  <2>1. Pending' = Decoded(buffer, Wrap(tail + c), key, data_len + t, t + c)
    <3>1. data_len' \in Nat /\ Took(p)' \in Nat /\ data_len' + Took(p)' = data_len + t
      BY <1>2, <1>4, <1>5
    <3>. QED BY <1>1, <1>2, <1>3, <1>4, <3>1, PendingRead
  <2>2. Decoded(buffer, Wrap(tail + c), key, data_len + t, t + c)
          = Decoded(buffer, tail, key, data_len + t, t)
    BY <1>3, <1>5, TakenStay
  <2>. QED BY <1>3, <2>1, <2>2
<1>8. Loading(p)'
  <2>1. Delivered(p, c) =
          [i \in 1..op[p].len |->
             IF start[p] < i /\ i <= moved[p] + c THEN Pending[i - start[p]] ELSE Untouched]
    <3>1. moved[p] + c <= todo[p]
      BY <1>1, <1>3
    <3>. QED BY <1>1, <1>3, <3>1, DeliveredNext
  <2>2. /\ data_len' + Took(p)' = data_len + t /\ moved'[p] <= todo[p]
        /\ data_len' + Took(p)' <= BufferSize /\ data_len' + Took(p)' # 0
        /\ start[p] <= moved'[p]
    BY <1>1, <1>2, <1>3, <1>4, <1>5, SizeAssumption
  <2>3. todo[p] = AtMost(op[p].len, data_len' + Took(p)')
    BY <1>1, <2>2 DEF LInv, Loading, t
  <2>. QED BY <1>1, <1>2, <1>3, <1>7, <2>1, <2>2, <2>3 DEF Loading, AtMost
<1>9. \A q \in Proc : Loading(q)'
  BY <1>2, <1>3, <1>8, LoadingWithLock DEF Waits
<1>. QED BY <1>2, <1>6, <1>7, <1>9

\* A loop that ends lets everyone be as far as they were.
LEMMA EndLoading ==
  ASSUME LInv, NEW p \in Proc, NEW v, Finish(p, v), pc[p] = "copy",
         \A q \in Proc \ {p} : ubuf'[q] = ubuf[q]
  PROVE  \A q \in Proc : Loading(q)'
<1>1. /\ pc'[p] = "done"
      /\ \A q \in Proc \ {p} : /\ pc'[q] = pc[q] /\ op'[q] = op[q] /\ todo'[q] = todo[q]
                               /\ moved'[q] = moved[q] /\ start'[q] = start[q] /\ ubuf'[q] = ubuf[q]
  BY DEF Finish, LInv, IInv, TypeOK
<1>2. Loading(p)' /\ lock = p
  BY <1>1 DEF Loading, LInv, IInv, LockHeldInLoop
<1>. QED BY <1>1, <1>2, LoadingWithLock

\* A chunk of c bytes, of which k were copied, at the end of a read that had taken t.
LEMMA CopyStops ==
  ASSUME NEW size \in Nat, NEW len \in Nat, NEW t \in Nat, NEW m \in Nat, NEW from \in Nat,
         NEW end \in Nat, NEW c \in 1..size, NEW k \in 0..(c - 1),
         c <= len, c <= end - m, len + t <= size, m = from + t
  PROVE  /\ c \in Nat /\ k \in Nat /\ k < c /\ len - c \in Nat /\ c \in 0..size
         /\ t + c \in Nat /\ len + t = (t + c) + (len - c)
         /\ m + k <= end /\ len + t \in 0..size
         /\ m + k = from + (t + k) /\ t + c \in 1..(end - from) /\ t + k \in 0..(t + c - 1)
OBVIOUS

\* A copy that fails: the chunk is gone from the pipe, its prefix delivered.
LEMMA ReadFaultMaps ==
  ASSUME LInv, NEW p \in Proc, ReadFault(p)
  PROVE  Pipe!ReadFault(p) /\ \A q \in Proc : Loading(q)'
<1>. DEFINE c == Chunk(p)
            t == Took(p)
<1>1. /\ pc[p] = "copy" /\ op[p].kind = "read" /\ moved[p] < todo[p]
      /\ c \in 1..BufferSize /\ c <= todo[p] - moved[p] /\ c <= data_len
  BY ChunkBounds DEF LInv, ReadFault, Copying
<1>2. PICK k \in 0..(c - 1) : ubuf' = [ubuf EXCEPT ![p] = Delivered(p, k)]
  BY DEF ReadFault
<1>3. /\ tail' = Wrap(tail + c) /\ data_len' = data_len - c
      /\ UNCHANGED <<buffer, key>> /\ lock' = NoProc /\ Finish(p, -EFAULT)
  BY DEF ReadFault, TakeBytes
<1>. HIDE DEF c
<1>4. /\ data_len \in Nat /\ moved[p] \in Nat /\ tail \in Slot /\ todo[p] \in Nat
      /\ data_len + t \in 1..BufferSize /\ t \in 0..BufferSize /\ t \in Nat
      /\ moved[p] = start[p] + t /\ start[p] \in Nat /\ start[p] \in StackValue
      /\ op[p].len \in Nat /\ Len(Pending) = data_len + t
      /\ Pending = Decoded(buffer, tail, key, data_len + t, t)
      /\ todo[p] = AtMost(op[p].len, Len(Pending))
  BY <1>1, ReadingPipe, Typing DEF LInv
<1>. HIDE DEF t
<1>5. /\ c \in Nat /\ k \in Nat /\ k < c /\ data_len - c \in Nat /\ c \in 0..BufferSize
      /\ t + c \in Nat /\ data_len + t = (t + c) + (data_len - c)
      /\ moved[p] + k <= todo[p] /\ data_len + t \in 0..BufferSize
      /\ moved[p] + k = start[p] + (t + k) /\ t + c \in 1..(todo[p] - start[p])
      /\ t + k \in 0..(t + c - 1)
  <2>. DEFINE len == data_len
              m == moved[p]
              from == start[p]
              end == todo[p]
              size == BufferSize
  <2>1. /\ size \in Nat /\ len \in Nat /\ m \in Nat /\ from \in Nat /\ end \in Nat /\ t \in Nat
        /\ c \in 1..size /\ k \in 0..(c - 1) /\ c <= len /\ c <= end - m
        /\ len + t <= size /\ m = from + t
    BY <1>1, <1>2, <1>4, SizeAssumption
  <2>. HIDE DEF len, m, from, end, size
  <2>2. /\ c \in Nat /\ k \in Nat /\ k < c /\ len - c \in Nat /\ c \in 0..size
        /\ t + c \in Nat /\ len + t = (t + c) + (len - c)
        /\ m + k <= end /\ len + t \in 0..size
        /\ m + k = from + (t + k) /\ t + c \in 1..(end - from) /\ t + k \in 0..(t + c - 1)
    BY <2>1, CopyStops
  <2>. QED BY <2>2 DEF len, m, from, end, size
<1>6. ubuf'[p] = Delivered(p, k) /\ \A q \in Proc \ {p} : ubuf'[q] = ubuf[q]
  BY <1>2 DEF LInv, IInv, TypeOK
<1>7. Client[p] = op[p] /\ Pipe!Answer(p, -EFAULT, Delivered(p, k))
  BY <1>1, <1>3, <1>6, Answering
<1>8. Delivered(p, k) = Pipe!Filled(op[p].len, start[p], t + k)
  <2>1. Delivered(p, k) =
          [i \in 1..op[p].len |->
             IF start[p] < i /\ i <= moved[p] + k THEN Pending[i - start[p]] ELSE Untouched]
    BY <1>1, <1>5, DeliveredNext
  <2>. QED BY <1>5, <2>1 DEF Pipe!Filled
<1>9. Pending' = Pipe!Remaining(t + c)
  <2>1. Pending' = Decoded(buffer, Wrap(tail + c), key, data_len - c, 0)
    BY <1>3, <1>5, PendingFree
  <2>2. Dropped(Decoded(buffer, tail, key, data_len + t, t), t + c, data_len - c)
          = Decoded(buffer, Wrap(tail + c), key, data_len - c, 0)
    <3>. DEFINE d == data_len - c
                x == t + c
                n == data_len + t
    <3>1. /\ d \in Nat /\ c \in 0..BufferSize /\ n \in 0..BufferSize /\ x \in Nat
          /\ x = t + c /\ n = x + d /\ tail \in Slot /\ t \in 0..BufferSize
      BY <1>4, <1>5
    <3>. HIDE DEF d, x, n
    <3>2. Dropped(Decoded(buffer, tail, key, n, t), x, d)
            = Decoded(buffer, Wrap(tail + c), key, d, 0)
      BY <3>1, TakenGone
    <3>. QED BY <3>2 DEF d, x, n
  <2>3. Len(Pending) - (t + c) = data_len - c
    BY <1>4, <1>5
  <2>4. Pipe!Remaining(t + c) = Dropped(Pending, t + c, data_len - c)
    BY <2>3 DEF Pipe!Remaining, Dropped
  <2>. QED BY <1>4, <2>1, <2>2, <2>4
<1>10. t + c \in 1..(Pipe!AtMost(op[p].len, Len(Pending)) - start[p])
  <2>1. Pipe!AtMost(op[p].len, Len(Pending)) = todo[p]
    BY <1>4 DEF Pipe!AtMost, AtMost
  <2>. QED BY <1>5, <2>1
<1>11. Pipe!ReadFault(p)
  <2>1. Pipe!Answer(p, -Pipe!EFAULT, Pipe!Filled(Client[p].len, start[p], t + k))
    BY <1>7, <1>8 DEF EFAULT, Pipe!EFAULT
  <2>2. Client[p].kind = "read" /\ key' = key
    BY <1>1, <1>3, <1>7
  <2>3. \E skip \in StackValue :
          \E lost \in 1..(Pipe!AtMost(Client[p].len, Len(Pending)) - skip) :
            \E got \in 0..(lost - 1) :
              /\ Pipe!Answer(p, -Pipe!EFAULT, Pipe!Filled(Client[p].len, skip, got))
              /\ Pending' = Pipe!Remaining(lost)
    <3>. DEFINE lost == t + c
                got == t + k
    <3>1. lost \in 1..(Pipe!AtMost(Client[p].len, Len(Pending)) - start[p])
      BY <1>7, <1>10
    <3>2. got \in 0..(lost - 1)
      BY <1>4, <1>5
    <3>3. /\ Pipe!Answer(p, -Pipe!EFAULT, Pipe!Filled(Client[p].len, start[p], got))
          /\ Pending' = Pipe!Remaining(lost)
      BY <1>9, <2>1
    <3>. HIDE DEF lost, got
    <3>. QED BY <1>4, <3>1, <3>2, <3>3
  <2>. QED BY <2>2, <2>3 DEF Pipe!ReadFault
<1>. QED BY <1>1, <1>3, <1>6, <1>11, EndLoading

\* The last chunk of a read was taken: the pipe lets go of all it delivered.
LEMMA ReadDoneMaps ==
  ASSUME LInv, NEW p \in Proc, ReadDone(p)
  PROVE  Pipe!Read(p) /\ \A q \in Proc : Loading(q)'
<1>. DEFINE t == Took(p)
            most == Pipe!AtMost(op[p].len, Len(Pending))
<1>1. /\ pc[p] = "copy" /\ op[p].kind = "read" /\ moved[p] >= todo[p]
      /\ UNCHANGED <<buffer, tail, data_len, key, ubuf>> /\ lock' = NoProc
      /\ Finish(p, moved[p])
  BY DEF ReadDone, Copying, dev
<1>2. /\ data_len \in Nat /\ moved[p] \in Nat /\ tail \in Slot /\ todo[p] \in Nat
      /\ data_len + t \in 1..BufferSize /\ t \in 0..BufferSize /\ t \in Nat
      /\ moved[p] = start[p] + t /\ start[p] \in Nat /\ start[p] \in StackValue
      /\ op[p].len \in Nat /\ Len(Pending) = data_len + t
      /\ Pending = Decoded(buffer, tail, key, data_len + t, t)
      /\ todo[p] = AtMost(op[p].len, Len(Pending))
      /\ moved[p] <= todo[p] \/ moved[p] = start[p]
  BY <1>1, ReadingPipe, Typing DEF LInv
<1>3. Client[p] = op[p] /\ Pipe!Answer(p, moved[p], ubuf[p])
  BY <1>1, Answering
<1>. HIDE DEF t
<1>4. ubuf[p] = Pipe!Filled(op[p].len, start[p], t)
  <2>1. ubuf[p] = [i \in 1..op[p].len |-> IF start[p] < i /\ i <= moved[p]
                                          THEN Pending[i - start[p]] ELSE Untouched]
    BY <1>1 DEF LInv, Loading
  <2>. QED BY <1>2, <2>1 DEF Pipe!Filled
<1>5. Pending' = Pipe!Remaining(t)
  <2>1. Pending' = Decoded(buffer, tail, key, data_len, 0)
    BY <1>1, <1>2, PendingFree
  <2>2. Dropped(Decoded(buffer, tail, key, data_len + t, t), t, data_len)
          = Decoded(buffer, tail, key, data_len, 0)
    BY <1>2, TakenAll
  <2>3. Len(Pending) - t = data_len
    BY <1>2
  <2>4. Pipe!Remaining(t) = Dropped(Pending, t, data_len)
    BY <2>3 DEF Pipe!Remaining, Dropped
  <2>. QED BY <1>2, <2>1, <2>2, <2>4
<1>6. most = todo[p]
  BY <1>2 DEF Pipe!AtMost, AtMost
<1>. HIDE DEF most
<1>7. t = IF start[p] < most THEN most - start[p] ELSE 0
  BY <1>1, <1>2, <1>6
<1>8. Pending # <<>>
  BY <1>2, SizeAssumption
<1>9. Pipe!Read(p)
  <2>. DEFINE n(skip) == IF skip < most THEN most - skip ELSE 0
  <2>1. n(start[p]) = t
    BY <1>7
  <2>2. \E skip \in StackValue :
          /\ Pipe!Answer(p, skip + n(skip), Pipe!Filled(Client[p].len, skip, n(skip)))
          /\ Pending' = Pipe!Remaining(n(skip))
    <3>1. /\ Pipe!Answer(p, start[p] + n(start[p]),
                         Pipe!Filled(Client[p].len, start[p], n(start[p])))
          /\ Pending' = Pipe!Remaining(n(start[p]))
      BY <1>2, <1>3, <1>4, <1>5, <2>1
    <3>. HIDE DEF n
    <3>. QED BY <1>2, <3>1
  <2>3. Client[p].kind = "read" /\ key' = key /\ Pipe!AtMost(Client[p].len, Len(Pending)) = most
    BY <1>1, <1>3 DEF most
  <2>. QED BY <1>8, <2>2, <2>3 DEF Pipe!Read
<1>. QED BY <1>1, <1>9, EndLoading

\* A chunk is stored from head on; the slots before it keep their bytes.
LEMMA WrittenByte ==
  ASSUME LInv, NEW p \in Proc, WriteChunk(p), NEW e \in (-data_len)..(Chunk(p) - 1)
  PROVE  /\ Wrap(tail + data_len + e) \in Slot
         /\ e < 0 => buffer'[Wrap(tail + data_len + e)] = buffer[Wrap(tail + data_len + e)]
         /\ e >= 0 => ByteXor(buffer'[Wrap(tail + data_len + e)], key) = op[p].buf[moved[p] + e + 1]
<1>. DEFINE c == Chunk(p)
            s == Wrap(tail + data_len + e)
<1>1. /\ pc[p] = "copy" /\ op[p].kind = "write" /\ moved[p] < todo[p]
      /\ c \in 1..BufferSize /\ c <= BufferSize - data_len /\ moved[p] + c <= Len(op[p].buf)
  BY ChunkBounds DEF LInv, WriteChunk, Copying
<1>2. buffer' = [x \in Slot |->
         IF Within(x, head, c)
           THEN ByteXor(op[p].buf[moved[p] + Wrap(x + BufferSize - head) + 1], key)
           ELSE buffer[x]]
  BY DEF WriteChunk
<1>3. /\ tail \in Slot /\ data_len \in 0..BufferSize /\ key \in Byte /\ moved[p] \in Nat
      /\ op[p].buf \in Seq(Byte) /\ Len(op[p].buf) \in Nat /\ head = Wrap(tail + data_len)
  BY <1>1, Typing DEF LInv, IInv, RingConsistent
<1>4. e \in (-data_len)..(c - 1)
  OBVIOUS
<1>. HIDE DEF c
<1>5. data_len + c <= BufferSize
  BY <1>1, <1>3, SizeAssumption
<1>6. /\ tail + data_len + e \in 0..(2 * BufferSize - 1)
      /\ Within(s, head, c) <=> e >= 0
      /\ e >= 0 => Wrap(s + BufferSize - head) = e
  BY <1>1, <1>3, <1>4, <1>5, AroundHead
<1>7. s \in Slot
  BY <1>6, WrapOnce
<1>. HIDE DEF s
<1>8. CASE e < 0
  BY <1>2, <1>4, <1>6, <1>7, <1>8 DEF s
<1>9. CASE e >= 0
  <2>1. buffer'[s] = ByteXor(op[p].buf[moved[p] + e + 1], key)
    BY <1>2, <1>6, <1>7, <1>9
  <2>2. moved[p] + e + 1 \in 1..Len(op[p].buf)
    BY SMTT(30), <1>1, <1>3, <1>4, <1>9, SizeAssumption
  <2>3. op[p].buf[moved[p] + e + 1] \in Byte
    BY <1>3, <2>2, ElementOfSeq
  <2>4. ByteXor(buffer'[s], key) = op[p].buf[moved[p] + e + 1]
    BY <1>3, <2>1, <2>3, ByteXorAssumption
  <2>. QED BY <1>7, <1>9, <2>4 DEF s
<1>. QED BY <1>1, <1>3, <1>4, <1>8, <1>9, SizeAssumption

\* A chunk of a write: in the ring, and not yet in the pipe.
LEMMA WriteChunkMaps ==
  ASSUME LInv, NEW p \in Proc, WriteChunk(p)
  PROVE  UNCHANGED <<Pending, key, Client>> /\ \A q \in Proc : Loading(q)'
<1>. DEFINE c == Chunk(p)
            d == data_len - moved[p]
<1>1. /\ pc[p] = "copy" /\ op[p].kind = "write" /\ moved[p] < todo[p]
      /\ c \in 1..BufferSize /\ c <= todo[p] - moved[p] /\ c <= BufferSize - data_len
  BY ChunkBounds DEF LInv, WriteChunk, Copying
<1>2. /\ moved'[p] = moved[p] + c /\ data_len' = data_len + c /\ todo' = todo
      /\ UNCHANGED <<tail, key, lock, op, pc, ubuf>> /\ Waits(p)
  BY <1>1 DEF LInv, IInv, TypeOK, WriteChunk, Waits
<1>3. \A e \in (-data_len)..(c - 1) :
        /\ e < 0 => buffer'[Wrap(tail + data_len + e)] = buffer[Wrap(tail + data_len + e)]
        /\ e >= 0 => ByteXor(buffer'[Wrap(tail + data_len + e)], key) = op[p].buf[moved[p] + e + 1]
  BY WrittenByte
<1>. HIDE DEF c
<1>4. /\ lock = p /\ data_len \in 0..BufferSize /\ moved[p] \in Nat /\ c \in Nat /\ tail \in Slot
      /\ d \in Nat /\ d \in 0..BufferSize /\ todo[p] \in Nat /\ data_len \in Nat
      /\ data_len' \in Nat /\ moved'[p] \in Nat /\ data_len' - moved'[p] = d
      /\ Pending = Decoded(buffer, tail, key, d, 0) /\ data_len = d + moved[p]
  <2>1. /\ lock = p /\ data_len \in 0..BufferSize /\ moved[p] \in Nat /\ c \in Nat
        /\ tail \in Slot /\ d \in 0..BufferSize /\ todo[p] \in Nat /\ data_len \in Nat
        /\ Pending = Decoded(buffer, tail, key, d, 0)
    BY <1>1, WritingPipe, Typing DEF LInv
  <2>. QED BY <1>2, <2>1, SizeAssumption
<1>5. Client' = Client
  BY <1>1, <1>2, ClientSame DEF Waits
<1>. HIDE DEF d
<1>6. ASSUME NEW i \in 1..(d + moved[p] + c)
      PROVE  /\ i <= d + moved[p] => buffer'[Wrap(tail + i - 1)] = buffer[Wrap(tail + i - 1)]
             /\ i > d + moved[p] =>
                  ByteXor(buffer'[Wrap(tail + i - 1)], key) = op[p].buf[i - d]
  <2>. DEFINE e == i - 1 - data_len
  <2>1. /\ e \in (-data_len)..(c - 1) /\ tail + data_len + e = tail + i - 1
        /\ moved[p] + e + 1 = i - d /\ (e < 0 <=> i <= d + moved[p])
        /\ (e >= 0 <=> i > d + moved[p])
    BY <1>4 DEF Slot
  <2>. HIDE DEF e
  <2>. QED BY <1>3, <2>1
<1>7. Pending' = Pending
  <2>1. Pending' = Decoded(buffer', tail, key, d, 0)
    BY <1>1, <1>2, <1>4, PendingWrite
  <2>2. ASSUME NEW i \in 1..d
        PROVE  buffer'[Wrap(tail + BufferSize - 0 + i - 1)] = buffer[Wrap(tail + BufferSize - 0 + i - 1)]
    <3>1. /\ tail + i - 1 \in 0..(2 * BufferSize - 1) /\ i \in 1..(d + moved[p] + c)
          /\ tail + BufferSize - 0 + i - 1 = (tail + i - 1) + BufferSize /\ i <= d + moved[p]
      BY <1>4, SizeAssumption DEF Slot
    <3>2. Wrap(tail + BufferSize - 0 + i - 1) = Wrap(tail + i - 1)
      BY <3>1, WrapTurn
    <3>. QED BY <1>6, <3>1, <3>2
  <2>. QED BY <1>4, <2>1, <2>2 DEF Decoded
<1>8. ASSUME NEW i \in 1..(moved[p] + c)
      PROVE  ByteXor(buffer'[Wrap(tail + d + i - 1)], key) = op[p].buf[i]
  <2>1. /\ d + i \in 1..(d + moved[p] + c) /\ (d + i) - d = i
        /\ tail + (d + i) - 1 = tail + d + i - 1
        /\ (d + i > d + moved[p] <=> i > moved[p]) /\ (d + i <= d + moved[p] <=> i <= moved[p])
    BY <1>4 DEF Slot
  <2>2. CASE i > moved[p]
    BY <1>6, <2>1, <2>2
  <2>3. CASE i <= moved[p]
    <3>1. i \in 1..moved[p]
      BY <1>4, <2>3
    <3>2. ByteXor(buffer[Wrap(tail + d + i - 1)], key) = op[p].buf[i]
      BY <1>1, <3>1 DEF LInv, Loading, d
    <3>. QED BY <1>6, <2>1, <2>3, <3>2
  <2>. QED BY <1>4, <2>2, <2>3
<1>9. Loading(p)'
  <2>1. /\ ubuf[p] = <<>> /\ todo[p] = AtMost(Len(op[p].buf), BufferSize - d)
        /\ BufferSize - d # 0
    BY <1>1 DEF LInv, Loading, d
  <2>2. moved'[p] <= todo[p] /\ moved'[p] <= data_len'
    BY <1>1, <1>2, <1>4
  <2>. QED BY <1>1, <1>2, <1>4, <1>8, <2>1, <2>2 DEF Loading, AtMost, Wrap
<1>10. \A q \in Proc : Loading(q)'
  BY <1>2, <1>4, <1>9, LoadingWithLock DEF Waits
<1>. QED BY <1>2, <1>5, <1>7, <1>10
\* A write that ends, one way or the other: what it stored is in the pipe.
LEMMA WriteEnds ==
  ASSUME LInv, NEW p \in Proc, NEW v, pc[p] = "copy", op[p].kind = "write",
         lock' = NoProc, Finish(p, v), UNCHANGED <<dev, ubuf>>
  PROVE  /\ Client[p] = op[p] /\ Pipe!Answer(p, v, <<>>) /\ key' = key
         /\ Pending' = Pending \o SubSeq(op[p].buf, 1, moved[p])
         /\ todo[p] = Pipe!AtMost(Len(op[p].buf), Pipe!Room) /\ Pipe!Room # 0
         /\ moved[p] \in Nat /\ todo[p] \in Nat /\ moved[p] <= todo[p]
         /\ \A q \in Proc : Loading(q)'
<1>1. UNCHANGED <<buffer, tail, data_len, key>> /\ data_len \in Nat
  BY Typing DEF LInv, dev
<1>2. ubuf'[p] = <<>>
  BY DEF LInv, Loading
<1>3. Client[p] = op[p] /\ Pipe!Answer(p, v, <<>>)
  BY <1>2, Answering
<1>4. Pending' = Pending \o SubSeq(op[p].buf, 1, moved[p])
  BY <1>1, PendingFree, AppendedBytes
<1>5. todo[p] = Pipe!AtMost(Len(op[p].buf), Pipe!Room) /\ Pipe!Room # 0
  BY WritingPipe DEF Pipe!AtMost, AtMost, Pipe!Room
<1>6. moved[p] \in Nat /\ todo[p] \in Nat /\ moved[p] <= todo[p]
  BY WritingPipe, Typing DEF LInv
<1>7. \A q \in Proc : Loading(q)'
  BY EndLoading
<1>. QED BY <1>1, <1>3, <1>4, <1>5, <1>6, <1>7

\* The last chunk of a write was stored.
LEMMA WriteDoneMaps ==
  ASSUME LInv, NEW p \in Proc, WriteDone(p)
  PROVE  Pipe!Write(p) /\ \A q \in Proc : Loading(q)'
<1>1. /\ pc[p] = "copy" /\ op[p].kind = "write" /\ moved[p] >= todo[p] /\ lock' = NoProc
      /\ Finish(p, moved[p]) /\ UNCHANGED <<dev, ubuf>>
  BY DEF WriteDone, Copying
<1>2. /\ Client[p] = op[p] /\ Pipe!Answer(p, moved[p], <<>>) /\ key' = key
      /\ Pending' = Pending \o SubSeq(op[p].buf, 1, moved[p])
      /\ todo[p] = Pipe!AtMost(Len(op[p].buf), Pipe!Room) /\ Pipe!Room # 0
      /\ moved[p] \in Nat /\ todo[p] \in Nat /\ moved[p] <= todo[p]
      /\ \A q \in Proc : Loading(q)'
  BY <1>1, WriteEnds
<1>3. moved[p] = todo[p]
  BY <1>1, <1>2
<1>. QED BY <1>1, <1>2, <1>3 DEF Pipe!Write

\* A copy from user memory that fails keeps the chunks before it.
LEMMA WriteFaultMaps ==
  ASSUME LInv, NEW p \in Proc, WriteFault(p)
  PROVE  Pipe!WriteFault(p) /\ \A q \in Proc : Loading(q)'
<1>1. /\ pc[p] = "copy" /\ op[p].kind = "write" /\ moved[p] < todo[p] /\ lock' = NoProc
      /\ Finish(p, -EFAULT) /\ UNCHANGED <<dev, ubuf>>
  BY DEF WriteFault, Copying
<1>2. /\ Client[p] = op[p] /\ Pipe!Answer(p, -EFAULT, <<>>) /\ key' = key
      /\ Pending' = Pending \o SubSeq(op[p].buf, 1, moved[p])
      /\ todo[p] = Pipe!AtMost(Len(op[p].buf), Pipe!Room)
      /\ moved[p] \in Nat /\ todo[p] \in Nat
      /\ \A q \in Proc : Loading(q)'
  BY <1>1, WriteEnds
<1>3. moved[p] \in 0..(todo[p] - 1)
  BY <1>1, <1>2
<1>4. \E n \in 0..(Pipe!AtMost(Len(op[p].buf), Pipe!Room) - 1) :
        Pending' = Pending \o SubSeq(op[p].buf, 1, n)
  BY <1>2, <1>3
<1>. QED BY <1>1, <1>2, <1>4 DEF Pipe!WriteFault, EFAULT, Pipe!EFAULT

\* An empty ring, idle clients and a free mutex are the empty pipe.
LEMMA InitMaps == Init => Pipe!Init /\ LInv
<1>. SUFFICES ASSUME Init PROVE Pipe!Init /\ LInv
  OBVIOUS
<1>1. Pending = <<>>
  BY DEF Init, Pending, Taken, Added
<1>2. Client = [p \in Proc |-> Pipe!Idle]
  BY ClientSeen, SeenAs DEF Init
<1>3. \A p \in Proc : Loading(p)
  BY DEF Init, Loading
<1>. QED BY <1>1, <1>2, <1>3, InitInv DEF Init, Pipe!Init, LInv

\* Nothing happens to either.
LEMMA StutterMaps == LInv /\ UNCHANGED vars => UNCHANGED Pipe!vars /\ LInv'
<1>. SUFFICES ASSUME LInv, UNCHANGED vars PROVE UNCHANGED Pipe!vars /\ LInv'
  OBVIOUS
<1>1. Taken' = Taken /\ Added' = Added
  BY DEF vars, Taken, Added
<1>2. Pending' = Pending
  BY <1>1 DEF vars, Pending, Wrap
<1>3. Client' = Client
  BY ClientSeen DEF vars
<1>4. \A q \in Proc : Loading(q)'
  BY <1>2, LoadingOthers DEF vars, dev, LInv
<1>. QED BY <1>2, <1>3, <1>4, StutterInv DEF vars, Pipe!vars, LInv

\* Every step of a process is a step of the pipe, or none.
LEMMA StepMaps ==
  ASSUME LInv, Next
  PROVE  (Pipe!Next \/ UNCHANGED Pipe!vars) /\ \A q \in Proc : Loading(q)'
<1>1. PICK p \in Proc :
        \/ \E r \in Calls : Call(p, r)
        \/ Locking(p) \/ InLoop(p)
        \/ Interrupted(p) \/ SetKeyFault(p) \/ BadIoctl(p)
        \/ Return(p)
  BY DEF Next
<1>2. CASE \E r \in Calls : Call(p, r)
  BY <1>2, CallMaps DEF Pipe!Next
<1>3. CASE Return(p)
  BY <1>3, ReturnMaps DEF Pipe!Next
<1>4. CASE Interrupted(p) \/ SetKeyFault(p) \/ BadIoctl(p)
  BY <1>4, RefusedMaps DEF Pipe!Next
<1>5. CASE ReadEmpty(p) \/ ReadDone(p)
  BY <1>5, ReadEmptyMaps, ReadDoneMaps DEF Pipe!Next
<1>6. CASE ReadFault(p)
  BY <1>6, ReadFaultMaps DEF Pipe!Next
<1>7. CASE WriteFull(p)
  BY <1>7, WriteFullMaps DEF Pipe!Next
<1>8. CASE WriteDone(p)
  BY <1>8, WriteDoneMaps DEF Pipe!Next
<1>9. CASE WriteFault(p)
  BY <1>9, WriteFaultMaps DEF Pipe!Next
<1>10. CASE SetKey(p)
  BY <1>10, SetKeyMaps DEF Pipe!Next
<1>11. CASE ReadEnter(p) \/ ReadChunk(p) \/ WriteEnter(p) \/ WriteChunk(p)
  BY <1>11, ReadEnterMaps, ReadChunkMaps, WriteEnterMaps, WriteChunkMaps DEF Pipe!vars
<1>. QED BY <1>1, <1>2, <1>3, <1>4, <1>5, <1>6, <1>7, <1>8, <1>9, <1>10, <1>11
         DEF Locking, InLoop

\* The driver implements the pipe, whatever bytes_read (xorbox.c:58, not initialised)
\* holds: each read, write and ioctl happens at one instant, however its chunks,
\* faults and signals interleave with the calls of others.
THEOREM ImplementsPipe == Spec => PipeSpec
<1>1. Init => Pipe!Init /\ LInv
  BY InitMaps
<1>2. LInv /\ [Next]_vars => LInv' /\ [Pipe!Next]_(Pipe!vars)
  <2>. SUFFICES ASSUME LInv, [Next]_vars PROVE LInv' /\ [Pipe!Next]_(Pipe!vars)
    OBVIOUS
  <2>1. CASE Next
    <3>1. IInv'
      BY <2>1, NextInv, EdgeInv DEF Next, LInv
    <3>. QED BY <2>1, <3>1, StepMaps DEF LInv
  <2>2. CASE UNCHANGED vars
    BY <2>2, StutterMaps
  <2>. QED BY <2>1, <2>2
<1>. QED BY <1>1, <1>2, PTL DEF Spec, PipeSpec, Pipe!Spec
=============================================================================
