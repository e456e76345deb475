----------------------------- MODULE PacketSlot -----------------------------
(***************************************************************************)
(* The two devices under hello-linux/practices that keep one packet and    *)
(* its length: simple-driver/simple-driver.c ("simple") and                *)
(* vpn-driver/tun_custom_char.c ("tun"), with vpn-driver/vpn_app.c, which  *)
(* reads a packet, transforms it and writes it back.  There is no lock:    *)
(* the bytes of two copies, and the uses of the length, interleave.  turns *)
(* says that the programs make one call at a time all the same.            *)
(***************************************************************************)
EXTENDS Integers, Sequences

CONSTANTS
  Proc,        \* the processes, each with the device open
  Byte, Zero, ByteXor(_, _), Key,
  Size,        \* buffer_size, BUF_SIZE
  Garbage,     \* a byte of the buffer that nobody wrote
  Data,        \* the byte sequences a process may write
  ReadLen      \* the lengths it may ask to read

ASSUME SlotAssumption ==
  /\ Size \in Nat \ {0} /\ Data \subseteq Seq(Byte) /\ ReadLen \subseteq Nat
  /\ Zero \in Byte /\ Garbage \notin Byte
  /\ \A b \in Byte : ByteXor(b, Key) \in Byte /\ ByteXor(ByteXor(b, Key), Key) = b

VARIABLES
  program,   \* simple or tun
  turns,     \* the programs take turns
  buffer,    \* kernel_buffer, packet_buffer
  length,    \* data_length, packet_size
  f_pos,     \* the position of each file, which only simple looks at
  pc,        \* idle, call, clip, adjust, load, store, wipe, done
  op,        \* the call a process is making
  len,       \* its length after the adjustment
  mem,       \* the user memory a read has filled, or the bytes a write has stored
  ret,       \* what the call returned
  seen       \* the packet when the last call that changed it had ended

vars == <<program, turns, buffer, length, f_pos, pc, op, len, mem, ret, seen>>
dev == <<program, turns, buffer, length, f_pos, seen>>

EFAULT == 14
NoCall == [kind |-> "idle"]
Calls == [kind : {"read"}, len : ReadLen] \union [kind : {"write"}, buf : Data]
Slots == 1..Size
AtMost(m, n) == IF m < n THEN m ELSE n

\* simple has its buffer from kmalloc, tun in its zeroed data section; nobody
\* wrote it in either.
Init ==
  /\ program \in {"simple", "tun"} /\ turns \in BOOLEAN
  /\ buffer = [i \in Slots |-> Garbage] /\ length = 0 /\ seen = <<>>
  /\ f_pos = [p \in Proc |-> 0]
  /\ pc = [p \in Proc |-> "idle"] /\ op = [p \in Proc |-> NoCall]
  /\ len = [p \in Proc |-> 0] /\ mem = [p \in Proc |-> <<>>]
  /\ ret = [p \in Proc |-> 0]

MyTurn == turns => \A p \in Proc : pc[p] \in {"idle", "done"}

Start(p, r) ==
  /\ pc' = [pc EXCEPT ![p] = "call"]
  /\ op' = [op EXCEPT ![p] = r]
  /\ mem' = [mem EXCEPT ![p] = <<>>]
  /\ ret' = [ret EXCEPT ![p] = 0]
  /\ UNCHANGED <<dev, len>>

Call(p, r) == MyTurn /\ pc[p] = "idle" /\ Start(p, r)

\* Mutant: vpn_app transforms the packet once.
Transformed_Once(s) == [i \in DOMAIN s |-> ByteXor(s[i], Key)]

\* The two loops of vpn_app, which stand for a way out and a way back.
Transformed(s) == [i \in DOMAIN s |-> ByteXor(ByteXor(s[i], Key), Key)]

\* vpn_app got a packet from its read and writes it back.
Reinject(p) ==
  /\ MyTurn /\ pc[p] = "done" /\ op[p].kind = "read" /\ ret[p] > 0
  /\ Start(p, [kind |-> "write", buf |-> Transformed(mem[p])])

Return(p) ==
  /\ pc[p] = "done"
  /\ pc' = [pc EXCEPT ![p] = "idle"]
  /\ op' = [op EXCEPT ![p] = NoCall]
  /\ mem' = [mem EXCEPT ![p] = <<>>]
  /\ ret' = [ret EXCEPT ![p] = 0]
  /\ UNCHANGED <<dev, len>>

\* A process closes its file and opens the device again.
Reopen(p) ==
  /\ pc[p] = "idle" /\ f_pos[p] > 0
  /\ f_pos' = [f_pos EXCEPT ![p] = 0]
  /\ UNCHANGED <<program, turns, buffer, length, seen, pc, op, len, mem, ret>>

Finish(p, v) ==
  /\ pc' = [pc EXCEPT ![p] = "done"]
  /\ ret' = [ret EXCEPT ![p] = v]
  /\ len' = [len EXCEPT ![p] = 0]
  /\ op' = op

At(p, where, kind) == pc[p] = where /\ op[p].kind = kind
Advance(p, where) == pc' = [pc EXCEPT ![p] = where]
-----------------------------------------------------------------------------
(* dev_read *)

AtEnd(p) == length = 0 \/ (program = "simple" /\ f_pos[p] > 0)

ReadNothing(p) ==
  /\ At(p, "call", "read") /\ AtEnd(p)
  /\ Finish(p, 0)
  /\ UNCHANGED <<dev, mem>>

ReadStart(p) ==
  /\ At(p, "call", "read") /\ ~AtEnd(p)
  /\ Advance(p, "clip")
  /\ UNCHANGED <<dev, op, len, mem, ret>>

\* Every use of the length is a load of its own: the one before, this comparison
\* and the assignment, which may find it longer than what was asked for.
ReadClip(p) ==
  /\ pc[p] = "clip"
  /\ IF op[p].len > length
       THEN Advance(p, "adjust") /\ UNCHANGED len
       ELSE Advance(p, "load") /\ len' = [len EXCEPT ![p] = op[p].len]
  /\ UNCHANGED <<dev, op, mem, ret>>

ReadAdjust(p) ==
  /\ pc[p] = "adjust"
  /\ len' = [len EXCEPT ![p] = length]
  /\ Advance(p, "load")
  /\ UNCHANGED <<dev, op, mem, ret>>

\* One byte of copy_to_user.
ReadByte(p) ==
  /\ pc[p] = "load" /\ Len(mem[p]) < len[p]
  /\ mem' = [mem EXCEPT ![p] = Append(@, buffer[Len(@) + 1])]
  /\ UNCHANGED <<dev, pc, op, len, ret>>

ReadFault(p) ==
  /\ pc[p] = "load" /\ Len(mem[p]) < len[p]
  /\ Finish(p, -EFAULT)
  /\ UNCHANGED <<dev, mem>>

\* simple moves the position.
ReadKeeps(p) ==
  /\ program = "simple" /\ pc[p] = "load" /\ Len(mem[p]) = len[p]
  /\ f_pos' = [f_pos EXCEPT ![p] = @ + len[p]]
  /\ Finish(p, len[p])
  /\ UNCHANGED <<program, turns, buffer, length, seen, mem>>

\* tun empties the slot, whatever was written to it meanwhile.
ReadTakes(p) ==
  /\ program = "tun" /\ pc[p] = "load" /\ Len(mem[p]) = len[p]
  /\ length' = 0 /\ seen' = <<>>
  /\ Finish(p, len[p])
  /\ UNCHANGED <<program, turns, buffer, f_pos, mem>>
-----------------------------------------------------------------------------
(* dev_write *)

\* Mutant: the length is set before the bytes are there.
WriteClip_SetsLength(p) ==
  /\ At(p, "call", "write")
  /\ len' = [len EXCEPT ![p] = AtMost(Len(op[p].buf), Size)]
  /\ length' = len'[p]
  /\ Advance(p, "store")
  /\ UNCHANGED <<program, turns, buffer, f_pos, seen, op, mem, ret>>

WriteClip(p) ==
  /\ At(p, "call", "write")
  /\ len' = [len EXCEPT ![p] = AtMost(Len(op[p].buf), Size)]
  /\ Advance(p, "store")
  /\ UNCHANGED <<dev, op, mem, ret>>

Store(p, b) ==
  /\ buffer' = [buffer EXCEPT ![Len(mem[p]) + 1] = b]
  /\ mem' = [mem EXCEPT ![p] = Append(@, b)]
  /\ UNCHANGED <<program, turns, length, f_pos, seen, pc, op, len, ret>>

\* One byte of copy_from_user.
WriteByte(p) ==
  /\ pc[p] = "store" /\ Len(mem[p]) < len[p]
  /\ Store(p, op[p].buf[Len(mem[p]) + 1])

\* copy_from_user stops at an unmapped page and clears what it could not copy.
WriteFault(p) ==
  /\ pc[p] = "store" /\ Len(mem[p]) < len[p]
  /\ Advance(p, "wipe")
  /\ UNCHANGED <<dev, op, len, mem, ret>>

WipeByte(p) ==
  /\ pc[p] = "wipe" /\ Len(mem[p]) < len[p]
  /\ Store(p, Zero)

WriteFails(p) ==
  /\ pc[p] = "wipe" /\ Len(mem[p]) = len[p]
  /\ seen' = SubSeq(buffer, 1, length)
  /\ mem' = [mem EXCEPT ![p] = <<>>]
  /\ Finish(p, -EFAULT)
  /\ UNCHANGED <<program, turns, buffer, length, f_pos>>

WriteDone(p) ==
  /\ pc[p] = "store" /\ Len(mem[p]) = len[p]
  /\ length' = len[p] /\ seen' = SubSeq(buffer, 1, len[p])
  /\ mem' = [mem EXCEPT ![p] = <<>>]
  /\ Finish(p, len[p])
  /\ UNCHANGED <<program, turns, buffer, f_pos>>
-----------------------------------------------------------------------------
Next ==
  \E p \in Proc :
    \/ \E r \in Calls : Call(p, r)
    \/ ReadNothing(p) \/ ReadStart(p) \/ ReadClip(p) \/ ReadAdjust(p) \/ ReadByte(p)
    \/ ReadFault(p) \/ ReadKeeps(p) \/ ReadTakes(p)
    \/ WriteClip(p) \/ WriteByte(p) \/ WriteFault(p) \/ WipeByte(p) \/ WriteFails(p)
    \/ WriteDone(p)
    \/ Reinject(p) \/ Return(p) \/ Reopen(p)

Spec == Init /\ [][Next]_vars
-----------------------------------------------------------------------------
TypeOK ==
  /\ program \in {"simple", "tun"} /\ turns \in BOOLEAN
  /\ buffer \in [Slots -> Byte \union {Garbage}]
  /\ length \in 0..Size
  /\ f_pos \in [Proc -> 0..Size] /\ len \in [Proc -> 0..Size]
  /\ pc \in [Proc -> {"idle", "call", "clip", "adjust", "load", "store", "wipe", "done"}]
  /\ op \in [Proc -> Calls \union {NoCall} \union [kind : {"write"}, buf : Seq(Byte)]]
  /\ mem \in [Proc -> Seq(Byte \union {Garbage})]

\* However reads, writes and failing copies of several processes overlap, a read
\* hands out bytes that somebody wrote, never what the memory of the buffer held
\* before: whatever value of the length a read works with, everything below it
\* had been stored when that value was set (simple-driver.c:58).
OnlyWrittenBytes == \A p \in Proc : \A i \in DOMAIN mem[p] : mem[p][i] # Garbage

Client ==
  [p \in Proc |->
     CASE pc[p] = "idle" -> [kind |-> "idle"]
       [] pc[p] = "done" -> [kind |-> "result", value |-> ret[p], memory |-> mem[p]]
       [] OTHER -> op[p]]

\* To programs that take turns each call, with its byte loops and its failing
\* copies, is one step of a slot for one packet, and vpn_app puts back what it
\* took.
Device == INSTANCE PacketDevice WITH packet <- seen, pos <- f_pos, client <- Client
DeviceSpec == Device!Spec
=============================================================================
