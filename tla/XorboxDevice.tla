---------------------------- MODULE XorboxDevice ----------------------------
(***************************************************************************)
(* The file operations of the xorbox character device                      *)
(* (hello-linux/practices/xorbox/xorbox.c): a ring buffer of bytes, stored *)
(* XOR-ed with a key, shared by every process that opened /dev/xorbox and  *)
(* guarded by one mutex.                                                   *)
(*                                                                         *)
(* A process makes one system call at a time.  A call waits for the mutex, *)
(* moves its bytes in chunks of the size of its stack buffer, and fails    *)
(* with -EFAULT when the copy from or to user memory of a chunk fails.     *)
(* The mutex is held from the first chunk to the last, so one chunk (copy  *)
(* and byte loop) is one step.                                             *)
(***************************************************************************)
EXTENDS Integers, Sequences, FiniteSets

CONSTANTS
  Proc,          \* the processes that have the device open
  Byte,          \* the values of a char
  ByteXor(_, _),     \* the ^ operator on bytes
  InitKey,       \* 0x5A
  BufferSize,    \* cur_dev->buffer_size, 4096 in the driver
  ChunkSize,     \* sizeof(kbuf), 128 in the driver
  StackValue,    \* what the uninitialised bytes_read of dev_read may hold
  Data,          \* the byte sequences a process may write
  ReadLen,       \* the lengths a process may ask to read
  KeyArg,        \* the keys a process may set
  Untouched,     \* a byte of user memory the driver has not written
  NoProc

ASSUME ByteXorAssumption ==
  \A b, k \in Byte : ByteXor(b, k) \in Byte /\ ByteXor(ByteXor(b, k), k) = b

ASSUME SizeAssumption ==
  BufferSize \in Nat \ {0} /\ ChunkSize \in Nat \ {0}

ASSUME InputAssumption ==
  /\ InitKey \in Byte /\ KeyArg \subseteq Byte /\ Untouched \notin Byte
  /\ Data \subseteq Seq(Byte) /\ ReadLen \subseteq Nat /\ StackValue \subseteq Nat
  /\ NoProc \notin Proc

VARIABLES
  buffer, head, tail, data_len, key,   \* struct xorbox_dev
  lock,    \* the process holding dev->lock
  pc,      \* idle, lock (waiting), copy (in the chunk loop), done
  op,      \* the call a process is making
  todo,    \* bytes_to_read, bytes_to_write
  moved,   \* bytes_read, bytes_written
  start,   \* what bytes_read held when the loop was entered (nothing in the code looks at it)
  ubuf,    \* the user memory a read fills
  ret      \* what the call returned

dev == <<buffer, head, tail, data_len, key>>
vars == <<buffer, head, tail, data_len, key, lock, pc, op, todo, moved, start, ubuf, ret>>

EFAULT == 14
ENOTTY == 25
ENOSPC == 28
ERESTARTSYS == 512

Slot == 0..(BufferSize - 1)
Wrap(i) == i % BufferSize
AtMost(m, n) == IF m < n THEN m ELSE n

\* The slot lies less than n slots after from, around the ring.
Within(s, from, n) == Wrap(s + BufferSize - from) < n

\* The n cipher bytes that start at slot from.
Window(from, n) == [i \in 1..n |-> buffer[Wrap(from + i - 1)]]

NoCall == [kind |-> "none"]
Calls ==
  [kind : {"read"}, len : ReadLen] \union [kind : {"write"}, buf : Data]
    \union [kind : {"set_key"}, arg : KeyArg] \union [kind : {"bad_ioctl"}]

\* kmalloc does not clear the buffer.
Init ==
  /\ buffer \in [Slot -> Byte]
  /\ head = 0 /\ tail = 0 /\ data_len = 0 /\ key = InitKey
  /\ lock = NoProc
  /\ pc = [p \in Proc |-> "idle"]
  /\ op = [p \in Proc |-> NoCall]
  /\ todo = [p \in Proc |-> 0]
  /\ moved = [p \in Proc |-> 0]
  /\ start = [p \in Proc |-> 0]
  /\ ubuf = [p \in Proc |-> <<>>]
  /\ ret = [p \in Proc |-> 0]

Call(p, r) ==
  /\ pc[p] = "idle"
  /\ pc' = [pc EXCEPT ![p] = "lock"]
  /\ op' = [op EXCEPT ![p] = r]
  /\ ubuf' = [ubuf EXCEPT ![p] =
       IF r.kind = "read" THEN [i \in 1..r.len |-> Untouched] ELSE <<>>]
  /\ UNCHANGED <<dev, lock, todo, moved, start, ret>>

\* The call ends with value v; the locals of its stack frame are gone.
Finish(p, v) ==
  /\ pc' = [pc EXCEPT ![p] = "done"]
  /\ ret' = [ret EXCEPT ![p] = v]
  /\ todo' = [todo EXCEPT ![p] = 0]
  /\ moved' = [moved EXCEPT ![p] = 0]
  /\ start' = [start EXCEPT ![p] = 0]
  /\ op' = op

\* The process goes back to user code; its result is forgotten.
Return(p) ==
  /\ pc[p] = "done"
  /\ pc' = [pc EXCEPT ![p] = "idle"]
  /\ op' = [op EXCEPT ![p] = NoCall]
  /\ ubuf' = [ubuf EXCEPT ![p] = <<>>]
  /\ ret' = [ret EXCEPT ![p] = 0]
  /\ UNCHANGED <<dev, lock, todo, moved, start>>

\* mutex_lock_interruptible gives up on a signal while another process holds
\* the mutex; the calls that reach it are read, write and XORBOX_SET_KEY.
Interrupted(p) ==
  /\ pc[p] = "lock" /\ op[p].kind # "bad_ioctl"
  /\ lock # NoProc
  /\ Finish(p, -ERESTARTSYS)
  /\ UNCHANGED <<dev, lock, ubuf>>

\* The process takes the mutex and enters its chunk loop, having counted from.
EnterLoop(p, n, from) ==
  /\ lock' = p
  /\ pc' = [pc EXCEPT ![p] = "copy"]
  /\ todo' = [todo EXCEPT ![p] = n]
  /\ moved' = [moved EXCEPT ![p] = from]
  /\ start' = [start EXCEPT ![p] = from]
  /\ UNCHANGED <<dev, op, ubuf, ret>>

Waiting(p, kind) == pc[p] = "lock" /\ op[p].kind = kind /\ lock = NoProc
Copying(p, kind) == pc[p] = "copy" /\ op[p].kind = kind
-----------------------------------------------------------------------------
(* dev_read *)

ReadEmpty(p) ==
  /\ Waiting(p, "read") /\ data_len = 0
  /\ Finish(p, 0)
  /\ UNCHANGED <<dev, lock, ubuf>>

\* Mutant: the loop takes what was asked for, not the smaller of that and the
\* bytes inside.
ReadEnter_NoMin(p) ==
  /\ Waiting(p, "read") /\ data_len # 0
  /\ \E from \in StackValue : EnterLoop(p, op[p].len, from)

\* bytes_read is not initialised: the loop counts from what the stack held.
ReadEnter(p) ==
  /\ Waiting(p, "read") /\ data_len # 0
  /\ \E from \in StackValue : EnterLoop(p, AtMost(op[p].len, data_len), from)

\* Mutant: tail moves by the size of the stack buffer whatever the chunk.
TakeBytes_FullChunk(n) ==
  /\ tail' = Wrap(tail + ChunkSize)
  /\ data_len' = data_len - n
  /\ UNCHANGED <<buffer, head, key>>

\* The byte loop takes n bytes out of the ring before they are copied out.
TakeBytes(n) ==
  /\ tail' = Wrap(tail + n)
  /\ data_len' = data_len - n
  /\ UNCHANGED <<buffer, head, key>>

\* User memory after the first n bytes of the chunk reached it.
Delivered(p, n) ==
  [i \in DOMAIN ubuf[p] |->
     IF i > moved[p] /\ i <= moved[p] + n
       THEN ByteXor(Window(tail, n)[i - moved[p]], key) ELSE ubuf[p][i]]

Chunk(p) == AtMost(todo[p] - moved[p], ChunkSize)

ReadChunk(p) ==
  /\ Copying(p, "read") /\ moved[p] < todo[p]
  /\ TakeBytes(Chunk(p))
  /\ ubuf' = [ubuf EXCEPT ![p] = Delivered(p, Chunk(p))]
  /\ moved' = [moved EXCEPT ![p] = moved[p] + Chunk(p)]
  /\ UNCHANGED <<lock, pc, op, todo, start, ret>>

\* Mutant: the fault path of dev_read returns without unlocking.
ReadFault_KeepsLock(p) ==
  /\ Copying(p, "read") /\ moved[p] < todo[p]
  /\ TakeBytes(Chunk(p))
  /\ \E n \in 0..(Chunk(p) - 1) : ubuf' = [ubuf EXCEPT ![p] = Delivered(p, n)]
  /\ lock' = lock
  /\ Finish(p, -EFAULT)

\* copy_to_user stops at an unmapped page: part of the chunk was copied.
ReadFault(p) ==
  /\ Copying(p, "read") /\ moved[p] < todo[p]
  /\ TakeBytes(Chunk(p))
  /\ \E n \in 0..(Chunk(p) - 1) : ubuf' = [ubuf EXCEPT ![p] = Delivered(p, n)]
  /\ lock' = NoProc
  /\ Finish(p, -EFAULT)

ReadDone(p) ==
  /\ Copying(p, "read") /\ moved[p] >= todo[p]
  /\ lock' = NoProc
  /\ Finish(p, moved[p])
  /\ UNCHANGED <<dev, ubuf>>
-----------------------------------------------------------------------------
(* dev_write *)

\* Mutant: the -ENOSPC path returns with the mutex held.
WriteFull_KeepsLock(p) ==
  /\ Waiting(p, "write") /\ BufferSize - data_len = 0
  /\ lock' = p
  /\ Finish(p, -ENOSPC)
  /\ UNCHANGED <<dev, ubuf>>

WriteFull(p) ==
  /\ Waiting(p, "write") /\ BufferSize - data_len = 0
  /\ Finish(p, -ENOSPC)
  /\ UNCHANGED <<dev, lock, ubuf>>

WriteEnter(p) ==
  /\ Waiting(p, "write") /\ BufferSize - data_len # 0
  /\ EnterLoop(p, AtMost(Len(op[p].buf), BufferSize - data_len), 0)

WriteChunk(p) ==
  /\ Copying(p, "write") /\ moved[p] < todo[p]
  /\ buffer' = [s \in Slot |->
       IF Within(s, head, Chunk(p))
         THEN ByteXor(op[p].buf[moved[p] + Wrap(s + BufferSize - head) + 1], key)
         ELSE buffer[s]]
  /\ head' = Wrap(head + Chunk(p))
  /\ data_len' = data_len + Chunk(p)
  /\ moved' = [moved EXCEPT ![p] = moved[p] + Chunk(p)]
  /\ UNCHANGED <<tail, key, lock, pc, op, todo, start, ubuf, ret>>

\* The chunks stored before the fault stay in the ring.
WriteFault(p) ==
  /\ Copying(p, "write") /\ moved[p] < todo[p]
  /\ lock' = NoProc
  /\ Finish(p, -EFAULT)
  /\ UNCHANGED <<dev, ubuf>>

WriteDone(p) ==
  /\ Copying(p, "write") /\ moved[p] >= todo[p]
  /\ lock' = NoProc
  /\ Finish(p, moved[p])
  /\ UNCHANGED <<dev, ubuf>>
-----------------------------------------------------------------------------
(* dev_unlocked_ioctl *)

\* The key is copied in before the mutex is taken.
SetKeyFault(p) ==
  /\ pc[p] = "lock" /\ op[p].kind = "set_key"
  /\ Finish(p, -EFAULT)
  /\ UNCHANGED <<dev, lock, ubuf>>

\* Mutant: the key is set without taking the mutex.
SetKey_Unlocked(p) ==
  /\ pc[p] = "lock" /\ op[p].kind = "set_key"
  /\ key' = op[p].arg
  /\ Finish(p, 0)
  /\ UNCHANGED <<buffer, head, tail, data_len, lock, ubuf>>

SetKey(p) ==
  /\ Waiting(p, "set_key")
  /\ key' = op[p].arg
  /\ Finish(p, 0)
  /\ UNCHANGED <<buffer, head, tail, data_len, lock, ubuf>>

BadIoctl(p) ==
  /\ pc[p] = "lock" /\ op[p].kind = "bad_ioctl"
  /\ Finish(p, -ENOTTY)
  /\ UNCHANGED <<dev, lock, ubuf>>
-----------------------------------------------------------------------------
\* A step of the driver on behalf of p, once p has the mutex or needs none.
InLoop(p) ==
  \/ ReadChunk(p) \/ ReadFault(p) \/ ReadDone(p)
  \/ WriteChunk(p) \/ WriteFault(p) \/ WriteDone(p)

\* A step that needs the mutex to be free.
Locking(p) ==
  \/ ReadEmpty(p) \/ ReadEnter(p) \/ WriteFull(p) \/ WriteEnter(p) \/ SetKey(p)

Next ==
  \E p \in Proc :
    \/ \E r \in Calls : Call(p, r)
    \/ Locking(p) \/ InLoop(p)
    \/ Interrupted(p) \/ SetKeyFault(p) \/ BadIoctl(p)
    \/ Return(p)

Spec == Init /\ [][Next]_vars

\* A process in the driver keeps running, and the kernel mutex hands itself
\* over to a waiter it has passed by, so a waiter is not overtaken for ever.
Fairness ==
  \A p \in Proc : WF_vars(InLoop(p)) /\ WF_vars(BadIoctl(p)) /\ SF_vars(Locking(p))

FairSpec == Spec /\ Fairness
-----------------------------------------------------------------------------
TypeOK ==
  /\ buffer \in [Slot -> Byte]
  /\ head \in Slot /\ tail \in Slot
  /\ data_len \in 0..BufferSize
  /\ key \in Byte
  /\ lock \in Proc \union {NoProc}
  /\ pc \in [Proc -> {"idle", "lock", "copy", "done"}]
  /\ op \in [Proc -> Calls \union {NoCall}]
  /\ todo \in [Proc -> Nat] /\ moved \in [Proc -> Nat] /\ start \in [Proc -> Nat]
  /\ ubuf \in [Proc -> Seq(Byte \union {Untouched})]
  /\ ret \in [Proc -> Int]

\* Three fields record two facts: whatever calls interleave, and wherever a
\* copy fails (xorbox.c:84 and :118 return in the middle of the loop), head is
\* data_len slots after tail.
RingConsistent == head = Wrap(tail + data_len)

\* Every path out of dev_read, dev_write and the ioctl unlocks, the -EFAULT
\* ones included, and none touches the ring without the mutex.
LockHeldInLoop == \A p \in Proc : lock = p <=> pc[p] = "copy"

\* The loop never asks the ring for bytes it does not hold nor for room it does
\* not have: the bound computed on entry stays true because the mutex is held.
LoopWithinRing ==
  \A p \in Proc : pc[p] = "copy" /\ moved[p] < todo[p] =>
    todo[p] - moved[p] <= IF op[p].kind = "read" THEN data_len ELSE BufferSize - data_len

\* A read that succeeds returns the number of bytes it put in user memory
\* (xorbox.c:93 logs it as the bytes "Read and decrypted").
ReportedBytesDelivered ==
  \A p \in Proc : pc[p] = "done" /\ op[p].kind = "read" /\ ret[p] >= 0 =>
    ret[p] = Cardinality({i \in DOMAIN ubuf[p] : ubuf[p][i] # Untouched})

\* The bytes a loop under way has taken from, or added to, the ring.
Taken == IF lock # NoProc /\ op[lock].kind = "read" THEN moved[lock] - start[lock] ELSE 0
Added == IF lock # NoProc /\ op[lock].kind = "write" THEN moved[lock] ELSE 0

\* What is in the pipe, the loop under way not having happened yet.
Pending ==
  [i \in 1..(data_len + Taken - Added) |->
     ByteXor(buffer[Wrap(tail + BufferSize - Taken + i - 1)], key)]

Client ==
  [p \in Proc |->
     CASE pc[p] = "idle" -> [kind |-> "idle"]
       [] pc[p] \in {"lock", "copy"} -> op[p]
       [] pc[p] = "done" -> [kind |-> "result", value |-> ret[p], memory |-> ubuf[p]]]

\* Although a call moves its bytes chunk by chunk, fails half way and competes
\* with others, each call is one step of the pipe XorPipe specifies; a read passes
\* over as much of user memory as its bytes_read happened to hold.
Pipe == INSTANCE XorPipe WITH contents <- Pending, client <- Client, Skip <- StackValue
PipeSpec == Pipe!Spec

\* Every call that reached the driver is answered, although others keep calling
\* and the mutex may be lost to them many times.
EveryCallAnswered == \A p \in Proc : pc[p] = "lock" ~> pc[p] = "done"
=============================================================================
