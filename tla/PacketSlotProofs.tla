-------------------------- MODULE PacketSlotProofs --------------------------
(***************************************************************************)
(* Proofs about PacketSlot for any number of processes that overlap in any *)
(* way, any packets and any size of the buffer: the types, and that a read *)
(* hands out only bytes somebody wrote.  Then, for programs that take      *)
(* turns: the byte loops implement the calls of PacketDevice.              *)
(***************************************************************************)
EXTENDS PacketSlot, SequenceTheorems, TLAPS

\* The first n bytes of the buffer have been written.
Written(n) == \A i \in 1..n : buffer[i] \in Byte

\* The user memory of a call holds bytes, no more than the device has.
MemoryWritten == \A p \in Proc : mem[p] \in Seq(Byte) /\ Len(mem[p]) <= Size

\* A call that has not begun to copy has copied nothing.
NothingYet ==
  \A p \in Proc : pc[p] \in {"call", "clip", "adjust"} => mem[p] = <<>>

\* A read works below a length that was once the length of a packet.
Reading ==
  \A p \in Proc : pc[p] \in {"clip", "adjust", "load"} =>
    /\ op[p].kind = "read"
    /\ program = "simple" => f_pos[p] = 0
    /\ pc[p] = "load" => Len(mem[p]) <= len[p] /\ Written(len[p])

\* A write has stored what it has taken from its caller.
Writing ==
  \A p \in Proc : pc[p] \in {"store", "wipe"} =>
    /\ op[p].kind = "write" /\ len[p] <= Len(op[p].buf)
    /\ Len(mem[p]) <= len[p] /\ Written(Len(mem[p]))

\* OnlyWrittenBytes needs the bytes below the length (Written(length)), below
\* every length a read has taken (Reading) and below every length a write is
\* about to set (Writing) to have been stored.
IInv == TypeOK /\ Written(length) /\ MemoryWritten /\ NothingYet /\ Reading /\ Writing

\* What a call consists of.
LEMMA CallFields ==
  ASSUME NEW r \in Calls \union {NoCall} \union [kind : {"write"}, buf : Seq(Byte)]
  PROVE  /\ r.kind = "read" => r.len \in Nat
         /\ r.kind = "write" => r.buf \in Seq(Byte) /\ Len(r.buf) \in Nat
<1>1. CASE r \in [kind : {"read"}, len : ReadLen]
  BY <1>1, SlotAssumption
<1>2. CASE r \in [kind : {"write"}, buf : Data]
  BY <1>2, SlotAssumption
<1>3. CASE r \in [kind : {"write"}, buf : Seq(Byte)]
  BY <1>3
<1>4. CASE r = NoCall
  BY <1>4 DEF NoCall
<1>. QED BY <1>1, <1>2, <1>3, <1>4 DEF Calls

\* Nothing is written when the device is loaded, and its length is 0.
LEMMA InitInv == Init => IInv
<1>. SUFFICES ASSUME Init PROVE IInv
  OBVIOUS
<1>1. <<>> \in Seq(Byte) /\ <<>> \in Seq(Byte \union {Garbage}) /\ Len(<<>>) = 0
  OBVIOUS
<1>2. TypeOK
  BY <1>1, SlotAssumption DEF Init, TypeOK, Slots
<1>. QED BY <1>1, <1>2, SlotAssumption
         DEF Init, IInv, Written, MemoryWritten, NothingYet, Reading, Writing

\* A step that leaves the buffer as it is, and the length or sets it to n bytes
\* that are written, and moves only process p.
LEMMA LocalStep ==
  ASSUME IInv, TypeOK', NEW p \in Proc, buffer' = buffer, program' = program,
         Written(length'),
         \A q \in Proc \ {p} : /\ pc'[q] = pc[q] /\ op'[q] = op[q] /\ len'[q] = len[q]
                               /\ mem'[q] = mem[q] /\ f_pos'[q] = f_pos[q],
         mem'[p] \in Seq(Byte), Len(mem'[p]) <= Size,
         pc'[p] \in {"call", "clip", "adjust"} => mem'[p] = <<>>,
         pc'[p] \in {"clip", "adjust", "load"} =>
           /\ op'[p].kind = "read"
           /\ program = "simple" => f_pos'[p] = 0
           /\ pc'[p] = "load" => Len(mem'[p]) <= len'[p] /\ Written(len'[p]),
         pc'[p] \in {"store", "wipe"} =>
           /\ op'[p].kind = "write" /\ len'[p] <= Len(op'[p].buf)
           /\ Len(mem'[p]) <= len'[p] /\ Written(Len(mem'[p]))
  PROVE  IInv'
<1>1. Written(length)'
  BY DEF Written
<1>2. MemoryWritten'
  BY DEF IInv, MemoryWritten
<1>3. NothingYet'
  BY DEF IInv, NothingYet
<1>4. Reading'
  BY DEF IInv, Reading, Written
<1>5. Writing'
  BY DEF IInv, Writing, Written
<1>. QED BY <1>1, <1>2, <1>3, <1>4, <1>5 DEF IInv

\* What happens between two calls: the user memory is emptied, or what a read
\* brought is turned into the packet of a write.
LEMMA ClientStep ==
  ASSUME IInv, NEW p \in Proc,
         Return(p) \/ Reopen(p) \/ Reinject(p) \/ \E r \in Calls : Call(p, r)
  PROVE  IInv'
<1>. USE DEF IInv, TypeOK, dev
<1>0. <<>> \in Seq(Byte) /\ <<>> \in Seq(Byte \union {Garbage}) /\ Len(<<>>) = 0
  OBVIOUS
<1>1. CASE Return(p)
  <2>1. TypeOK'
    BY <1>0, <1>1 DEF Return
  <2>. QED BY SMTT(30), <1>0, <1>1, <2>1, LocalStep, SlotAssumption DEF Return
<1>2. CASE Reopen(p)
  <2>1. TypeOK'
    BY <1>2, SlotAssumption DEF Reopen
  <2>. QED BY <1>2, <2>1, LocalStep DEF Reopen, MemoryWritten
<1>3. ASSUME NEW r \in Calls \union [kind : {"write"}, buf : Seq(Byte)], Start(p, r)
      PROVE  IInv'
  <2>1. TypeOK'
    BY <1>0, <1>3 DEF Start
  <2>2. /\ pc'[p] = "call" /\ mem'[p] = <<>> /\ Written(length')
        /\ buffer' = buffer /\ program' = program
        /\ \A q \in Proc \ {p} : /\ pc'[q] = pc[q] /\ op'[q] = op[q] /\ len'[q] = len[q]
                              /\ mem'[q] = mem[q] /\ f_pos'[q] = f_pos[q]
    BY <1>3 DEF Start
  <2>3. mem'[p] \in Seq(Byte) /\ Len(mem'[p]) <= Size
    BY <1>0, <2>2, SlotAssumption
  <2>4. pc'[p] \notin {"clip", "adjust", "load", "store", "wipe"}
    BY <2>2
  <2>. HIDE DEF IInv, TypeOK
  <2>. QED BY <2>1, <2>2, <2>3, <2>4, LocalStep
<1>4. CASE Reinject(p)
  <2>1. mem[p] \in Seq(Byte)
    BY DEF MemoryWritten
  <2>2. Transformed(mem[p]) \in Seq(Byte)
    <3>1. /\ Len(mem[p]) \in Nat /\ DOMAIN mem[p] = 1..Len(mem[p])
          /\ \A i \in 1..Len(mem[p]) : mem[p][i] \in Byte
      BY <2>1
    <3>2. \A i \in 1..Len(mem[p]) : ByteXor(ByteXor(mem[p][i], Key), Key) \in Byte
      BY <3>1, SlotAssumption
    <3>3. Transformed(mem[p]) \in [1..Len(mem[p]) -> Byte]
      BY <3>1, <3>2 DEF Transformed
    <3>. QED BY <3>1, <3>3, SeqDef
  <2>. QED BY <1>3, <1>4, <2>2 DEF Reinject
<1>5. CASE \E r \in Calls : Call(p, r)
  BY <1>3, <1>5 DEF Call
<1>. QED BY <1>1, <1>2, <1>4, <1>5

\* dev_read: what it copies lies below a length it took while those bytes were
\* written, and no step takes a written byte away.
LEMMA ReadStep ==
  ASSUME IInv, NEW p \in Proc,
         \/ ReadNothing(p) \/ ReadStart(p) \/ ReadClip(p) \/ ReadAdjust(p) \/ ReadByte(p)
         \/ ReadFault(p) \/ ReadKeeps(p) \/ ReadTakes(p)
  PROVE  IInv'
<1>. USE DEF IInv, TypeOK, dev
<1>0. mem[p] \in Seq(Byte) /\ Len(mem[p]) \in Nat /\ Len(mem[p]) <= Size
  BY DEF MemoryWritten
<1>1. CASE ReadNothing(p)
  <2>1. TypeOK'
    BY <1>1, SlotAssumption DEF ReadNothing, Finish
  <2>. QED BY <1>0, <1>1, <2>1, LocalStep DEF ReadNothing, Finish
<1>2. CASE ReadStart(p)
  <2>1. TypeOK'
    BY <1>2 DEF ReadStart, Advance
  <2>2. /\ op[p].kind = "read" /\ ~AtEnd(p) /\ pc[p] = "call" /\ pc'[p] = "clip"
        /\ UNCHANGED <<dev, op, len, mem, ret>>
        /\ \A q \in Proc \ {p} : pc'[q] = pc[q]
    BY <1>2 DEF ReadStart, Advance, At
  <2>3. Written(length') /\ mem'[p] = <<>> /\ (program = "simple" => f_pos'[p] = 0)
    BY <2>2, SlotAssumption DEF AtEnd, NothingYet, Written
  <2>4. Len(mem'[p]) <= Size /\ mem'[p] \in Seq(Byte)
    BY <1>0, <2>2
  <2>. HIDE DEF IInv, TypeOK
  <2>. QED BY <2>1, <2>2, <2>3, <2>4, LocalStep
<1>3. CASE ReadClip(p)
  <2>1. op[p].kind = "read" /\ op[p].len \in Nat
    BY <1>3, CallFields DEF ReadClip, Reading
  <2>2. Written(length') /\ len'[p] \in 0..Size /\ mem' = mem /\ mem[p] = <<>>
    BY <1>3, <2>1, SlotAssumption DEF ReadClip, NothingYet
  <2>3. TypeOK'
    BY <1>3, <2>2 DEF ReadClip, Advance
  <2>4. pc'[p] = "load" => Written(len'[p])
    BY <1>3, <2>1 DEF Written, ReadClip, Advance
  <2>5. /\ buffer' = buffer /\ program' = program /\ pc'[p] \in {"adjust", "load"}
        /\ op' = op /\ f_pos' = f_pos /\ (program = "simple" => f_pos[p] = 0)
        /\ \A q \in Proc \ {p} : pc'[q] = pc[q] /\ len'[q] = len[q]
    BY <1>3 DEF ReadClip, Advance, Reading
  <2>6. Len(mem'[p]) = 0 /\ 0 <= len'[p] /\ 0 <= Size /\ mem'[p] \in Seq(Byte)
    BY <1>0, <2>2, SlotAssumption
  <2>. HIDE DEF IInv, TypeOK
  <2>. QED BY <2>1, <2>2, <2>3, <2>4, <2>5, <2>6, LocalStep
<1>8. CASE ReadAdjust(p)
  <2>1. op[p].kind = "read" /\ len'[p] = length /\ length \in 0..Size
    BY <1>8 DEF ReadAdjust, Reading
  <2>2. TypeOK'
    BY <1>8, <2>1 DEF ReadAdjust, Advance
  <2>3. Written(len'[p]) /\ Written(length') /\ mem' = mem /\ mem[p] = <<>>
    BY <1>8, <2>1 DEF ReadAdjust, NothingYet
  <2>4. /\ buffer' = buffer /\ program' = program /\ pc'[p] = "load"
        /\ op' = op /\ f_pos' = f_pos /\ (program = "simple" => f_pos[p] = 0)
        /\ \A q \in Proc \ {p} : pc'[q] = pc[q] /\ len'[q] = len[q]
    BY <1>8 DEF ReadAdjust, Advance, Reading
  <2>5. Len(mem'[p]) = 0 /\ 0 <= len'[p] /\ 0 <= Size /\ mem'[p] \in Seq(Byte)
    BY <1>0, <2>1, <2>3, SlotAssumption
  <2>. HIDE DEF IInv, TypeOK
  <2>. QED BY <2>1, <2>2, <2>3, <2>4, <2>5, LocalStep
<1>4. CASE ReadByte(p)
  <2>1. buffer[Len(mem[p]) + 1] \in Byte
    BY <1>0, <1>4, SlotAssumption DEF ReadByte, Reading, Written
  <2>2. mem'[p] \in Seq(Byte) /\ Len(mem'[p]) = Len(mem[p]) + 1
    BY <1>0, <1>4, <2>1 DEF ReadByte
  <2>3. TypeOK'
    BY <1>4, <2>1, <2>2 DEF ReadByte
  <2>4. /\ pc' = pc /\ op' = op /\ len' = len /\ Written(length')
        /\ pc[p] = "load" /\ op[p].kind = "read" /\ Written(len[p])
        /\ program = "simple" => f_pos[p] = 0
        /\ Len(mem'[p]) <= len[p]
        /\ \A q \in Proc \ {p} : mem'[q] = mem[q]
    BY <1>0, <1>4, <2>2 DEF ReadByte, Reading
  <2>5. buffer' = buffer /\ program' = program /\ f_pos' = f_pos
    BY <1>4 DEF ReadByte
  <2>6. /\ Len(mem'[p]) <= Size
        /\ pc'[p] \notin {"call", "clip", "adjust", "store", "wipe"}
        /\ \A q \in Proc \ {p} : /\ pc'[q] = pc[q] /\ op'[q] = op[q] /\ len'[q] = len[q]
                              /\ mem'[q] = mem[q] /\ f_pos'[q] = f_pos[q]
    BY <1>0, <1>4, <2>2, <2>4, <2>5, SlotAssumption
  <2>. HIDE DEF IInv, TypeOK
  <2>. QED BY <2>2, <2>3, <2>4, <2>5, <2>6, LocalStep
<1>5. CASE ReadFault(p)
  <2>1. TypeOK'
    BY <1>5, SlotAssumption DEF ReadFault, Finish
  <2>. QED BY <1>0, <1>5, <2>1, LocalStep DEF ReadFault, Finish
<1>6. CASE ReadKeeps(p)
  <2>1. f_pos'[p] = len[p]
    BY <1>6 DEF ReadKeeps, Reading
  <2>2. TypeOK'
    BY <1>6, <2>1, SlotAssumption DEF ReadKeeps, Finish
  <2>. QED BY <1>0, <1>6, <2>2, LocalStep DEF ReadKeeps, Finish
<1>7. CASE ReadTakes(p)
  <2>1. TypeOK' /\ Written(length')
    BY <1>7, SlotAssumption DEF ReadTakes, Finish, Written
  <2>. QED BY <1>0, <1>7, <2>1, LocalStep DEF ReadTakes, Finish
<1>. QED BY <1>1, <1>2, <1>3, <1>4, <1>5, <1>6, <1>7, <1>8

\* One byte stored by copy_from_user, or cleared where it failed: the bytes the
\* others rely on stay written.
LEMMA StoreStep ==
  ASSUME IInv, NEW p \in Proc, NEW b \in Byte, Store(p, b),
         pc[p] \in {"store", "wipe"}, Len(mem[p]) < len[p]
  PROVE  IInv'
<1>. USE DEF IInv, TypeOK, Store
<1>1. /\ mem[p] \in Seq(Byte) /\ Len(mem[p]) \in Nat
      /\ mem'[p] \in Seq(Byte) /\ Len(mem'[p]) = Len(mem[p]) + 1
  BY DEF MemoryWritten
<1>2. Len(mem[p]) + 1 \in Slots
  BY <1>1, SlotAssumption DEF Slots
<1>3. TypeOK'
  BY <1>1, <1>2
<1>4. \A n \in 0..Size : Written(n) => Written(n)'
  BY <1>2, SlotAssumption DEF Written, Slots
<1>5. Written(length)' /\ Reading'
  BY <1>1, <1>4 DEF Reading
<1>6. MemoryWritten' /\ NothingYet'
  BY <1>1, SlotAssumption DEF MemoryWritten, NothingYet
<1>7. Writing'
  <2>1. Written(Len(mem[p]))'
    BY <1>1, <1>2, SlotAssumption DEF Writing, Written, Slots
  <2>2. ASSUME NEW q \in Proc, q # p, pc[q] \in {"store", "wipe"}
        PROVE  Len(mem[q]) \in 0..Size
    BY <2>2 DEF MemoryWritten
  <2>. QED BY <1>1, <1>4, <2>1, <2>2 DEF Writing
<1>. QED BY <1>3, <1>5, <1>6, <1>7

\* dev_write: it sets the length only when the bytes below it are stored.
LEMMA WriteStep ==
  ASSUME IInv, NEW p \in Proc,
         \/ WriteClip(p) \/ WriteByte(p) \/ WriteFault(p) \/ WipeByte(p)
         \/ WriteFails(p) \/ WriteDone(p)
  PROVE  IInv'
<1>. USE DEF IInv, TypeOK, dev
<1>0. /\ mem[p] \in Seq(Byte) /\ Len(mem[p]) \in Nat /\ Len(mem[p]) <= Size
      /\ <<>> \in Seq(Byte) /\ <<>> \in Seq(Byte \union {Garbage}) /\ Len(<<>>) = 0
  BY DEF MemoryWritten
<1>1. CASE WriteClip(p)
  <2>1. op[p].kind = "write" /\ op[p].buf \in Seq(Byte) /\ Len(op[p].buf) \in Nat
    BY <1>1, CallFields DEF WriteClip, At
  <2>2. len'[p] \in 0..Size /\ len'[p] <= Len(op[p].buf)
    BY <1>1, <2>1, SlotAssumption DEF WriteClip, AtMost
  <2>3. TypeOK'
    BY <1>1, <2>2 DEF WriteClip, Advance
  <2>4. mem[p] = <<>> /\ Written(0)
    BY <1>1 DEF WriteClip, At, NothingYet, Written
  <2>5. /\ mem' = mem /\ op' = op /\ pc'[p] = "store" /\ f_pos' = f_pos
        /\ buffer' = buffer /\ program' = program /\ Written(length')
        /\ \A q \in Proc \ {p} : /\ pc'[q] = pc[q] /\ op'[q] = op[q] /\ len'[q] = len[q]
                              /\ mem'[q] = mem[q] /\ f_pos'[q] = f_pos[q]
    BY <1>1 DEF WriteClip, Advance
  <2>6. Len(mem'[p]) = 0 /\ Len(mem'[p]) <= len'[p] /\ Written(Len(mem'[p]))
    BY <1>0, <2>2, <2>4, <2>5
  <2>. HIDE DEF IInv, TypeOK
  <2>. QED BY <1>0, <2>1, <2>2, <2>3, <2>4, <2>5, <2>6, LocalStep
<1>2. CASE WriteByte(p)
  <2>1. op[p].buf \in Seq(Byte) /\ Len(mem[p]) + 1 \in 1..Len(op[p].buf)
    <3>1. op[p].kind = "write" /\ Len(mem[p]) < len[p] /\ len[p] <= Len(op[p].buf)
      BY <1>2 DEF WriteByte, Writing
    <3>2. op[p].buf \in Seq(Byte) /\ Len(op[p].buf) \in Nat
      BY <3>1, CallFields
    <3>. QED BY <1>0, <3>1, <3>2, SlotAssumption
  <2>2. op[p].buf[Len(mem[p]) + 1] \in Byte
    BY <2>1, ElementOfSeq
  <2>3. /\ Store(p, op[p].buf[Len(mem[p]) + 1])
        /\ pc[p] \in {"store", "wipe"} /\ Len(mem[p]) < len[p]
    BY <1>2 DEF WriteByte
  <2>. HIDE DEF IInv, TypeOK
  <2>. QED BY <2>2, <2>3, StoreStep
<1>3. CASE WriteFault(p)
  <2>1. TypeOK'
    BY <1>3 DEF WriteFault, Advance
  <2>. QED BY <1>0, <1>3, <2>1, LocalStep DEF WriteFault, Advance, Writing
<1>4. CASE WipeByte(p)
  BY <1>4, StoreStep, SlotAssumption DEF WipeByte
<1>5. CASE WriteFails(p)
  <2>1. TypeOK'
    BY <1>0, <1>5, SlotAssumption DEF WriteFails, Finish
  <2>. QED BY <1>0, <1>5, <2>1, LocalStep, SlotAssumption DEF WriteFails, Finish
<1>6. CASE WriteDone(p)
  <2>1. TypeOK'
    BY <1>0, <1>6, SlotAssumption DEF WriteDone, Finish
  <2>2. Written(length')
    BY <1>6 DEF WriteDone, Writing
  <2>. QED BY SMTT(30), <1>0, <1>6, <2>1, <2>2, LocalStep, SlotAssumption DEF WriteDone, Finish
<1>. QED BY <1>1, <1>2, <1>3, <1>4, <1>5, <1>6

\* Every step of every process, and a step that changes nothing.
LEMMA NextInv == IInv /\ [Next]_vars => IInv'
<1>. SUFFICES ASSUME IInv, [Next]_vars PROVE IInv'
  OBVIOUS
<1>1. CASE Next
  BY <1>1, ClientStep, ReadStep, WriteStep DEF Next
<1>2. CASE UNCHANGED vars
  BY <1>2 DEF vars, IInv, TypeOK, Written, MemoryWritten, NothingYet, Reading, Writing
<1>. QED BY <1>1, <1>2

\* The types, and with them that no length and no position passes the buffer.
THEOREM TypeCorrect == Spec => []TypeOK
<1>1. IInv => TypeOK
  BY DEF IInv
<1>. QED BY <1>1, InitInv, NextInv, PTL DEF Spec

\* simple-driver.c and tun_custom_char.c: no read, however it overlaps with the
\* calls of others, hands out a byte of the buffer that nobody wrote.
THEOREM ReadsOnlyWritten == Spec => []OnlyWrittenBytes
<1>1. IInv => OnlyWrittenBytes
  <2>. SUFFICES ASSUME IInv, NEW p \in Proc, NEW i \in DOMAIN mem[p]
       PROVE  mem[p][i] # Garbage
    BY DEF OnlyWrittenBytes
  <2>. QED BY SlotAssumption DEF IInv, MemoryWritten
<1>. QED BY <1>1, InitInv, NextInv, PTL DEF Spec
-----------------------------------------------------------------------------
(* Programs that take turns: PacketSlot implements PacketDevice.           *)

Active(p) == pc[p] \notin {"idle", "done"}
Storing(p) == pc[p] \in {"store", "wipe"}

\* There is one call at a time.
OneCall == \A p, q \in Proc : Active(p) /\ Active(q) => p = q

\* The buffer holds the packet, but for what a call has stored over it.
SlotKept ==
  /\ seen \in Seq(Byte \union {Garbage}) /\ Len(seen) = length
  /\ \A i \in 1..length :
       (\A p \in Proc : Storing(p) => i > Len(mem[p])) => seen[i] = buffer[i]

\* A read is about to return the start of the packet.
CopiedBy(p) ==
  pc[p] \in {"clip", "adjust", "load"} =>
    /\ ~AtEnd(p)
    /\ pc[p] = "adjust" => op[p].len > length
    /\ pc[p] = "load" =>
         /\ len[p] = AtMost(op[p].len, length)
         /\ \A i \in 1..Len(mem[p]) : mem[p][i] = buffer[i]

\* A write has stored its bytes up to k, and cleared the ones above.
StoredTo(p, k) ==
  \A i \in 1..Len(mem[p]) : buffer[i] = (IF i <= k THEN op[p].buf[i] ELSE Zero)

StoredBy(p) ==
  Storing(p) =>
    /\ len[p] = AtMost(Len(op[p].buf), Size)
    /\ pc[p] = "store" => \A i \in 1..Len(mem[p]) : buffer[i] = op[p].buf[i]
    /\ pc[p] = "wipe" => \E k \in 0..(len[p] - 1) : k <= Len(mem[p]) /\ StoredTo(p, k)

\* What taking turns adds to IInv: the slot is between two packets only while
\* one call is, and that call alone says how.
TurnInv ==
  turns => OneCall /\ SlotKept /\ \A p \in Proc : CopiedBy(p) /\ StoredBy(p)

\* The first n elements of a function on the positive integers.
LEMMA Front ==
  ASSUME NEW S, NEW s, NEW n \in Nat, \A i \in 1..n : s[i] \in S
  PROVE  /\ SubSeq(s, 1, n) \in Seq(S) /\ Len(SubSeq(s, 1, n)) = n
         /\ \A i \in 1..n : SubSeq(s, 1, n)[i] = s[i]
<1>1. /\ SubSeq(s, 1, n) \in Seq(S)
      /\ Len(SubSeq(s, 1, n)) = (IF 1 <= n THEN n - 1 + 1 ELSE 0)
      /\ \A i \in 1..(n - 1 + 1) : SubSeq(s, 1, n)[i] = s[1 + i - 1]
  BY SubSeqProperties
<1>2. Len(SubSeq(s, 1, n)) = n
  BY <1>1
<1>3. ASSUME NEW i \in 1..n PROVE SubSeq(s, 1, n)[i] = s[i]
  <2>1. i \in 1..(n - 1 + 1) /\ 1 + i - 1 = i
    OBVIOUS
  <2>. QED BY <1>1, <2>1
<1>. QED BY <1>1, <1>2, <1>3

\* No call, no packet.
LEMMA TurnInit == Init => TurnInv
<1>. SUFFICES ASSUME Init PROVE TurnInv
  OBVIOUS
<1>1. SlotKept
  BY DEF Init, SlotKept
<1>. QED BY <1>1 DEF Init, TurnInv, OneCall, Active, Storing, CopiedBy, StoredBy

\* A step of process p that leaves buffer and packet as they are.
LEMMA TurnLocal ==
  ASSUME IInv, TurnInv, NEW p \in Proc, turns,
         UNCHANGED <<program, turns, buffer, length, seen>>,
         \A q \in Proc \ {p} : /\ pc'[q] = pc[q] /\ op'[q] = op[q] /\ len'[q] = len[q]
                               /\ mem'[q] = mem[q] /\ f_pos'[q] = f_pos[q],
         Active(p)' => \A q \in Proc \ {p} : ~Active(q),
         Storing(p) => Storing(p)' /\ mem'[p] = mem[p],
         CopiedBy(p)', StoredBy(p)'
  PROVE  TurnInv'
<1>1. OneCall'
  BY DEF TurnInv, OneCall, Active
<1>2. SlotKept'
  BY DEF TurnInv, SlotKept, Storing
<1>3. ASSUME NEW q \in Proc \ {p} PROVE CopiedBy(q)' /\ StoredBy(q)'
  <2>1. CopiedBy(q) /\ StoredBy(q)
    BY DEF TurnInv
  <2>2. CopiedBy(q)'
    BY <2>1 DEF CopiedBy, AtEnd
  <2>3. StoredBy(q)'
    BY <2>1 DEF StoredBy, StoredTo, Storing
  <2>. QED BY <2>2, <2>3
<1>. QED BY <1>1, <1>2, <1>3 DEF TurnInv

\* A step in which the one call there is ends with a packet in the buffer.
LEMMA TurnEnd ==
  ASSUME IInv, TurnInv, NEW p \in Proc, turns, turns' = turns,
         Active(p), ~Active(p)', \A q \in Proc \ {p} : pc'[q] = pc[q],
         buffer' = buffer, length' \in 0..Size, seen' = SubSeq(buffer, 1, length')
  PROVE  TurnInv'
<1>1. \A q \in Proc : ~Active(q)'
  BY DEF TurnInv, OneCall, Active
<1>2. /\ seen' \in Seq(Byte \union {Garbage}) /\ Len(seen') = length'
      /\ \A i \in 1..length' : seen'[i] = buffer[i]
  <2>. DEFINE n == length'
              S == Byte \union {Garbage}
  <2>1. n \in Nat /\ \A i \in 1..n : buffer[i] \in S
    BY SlotAssumption DEF IInv, TypeOK, Slots
  <2>2. seen' = SubSeq(buffer, 1, n)
    OBVIOUS
  <2>. HIDE DEF n, S
  <2>3. /\ SubSeq(buffer, 1, n) \in Seq(S) /\ Len(SubSeq(buffer, 1, n)) = n
        /\ \A i \in 1..n : SubSeq(buffer, 1, n)[i] = buffer[i]
    BY <2>1, Front
  <2>4. seen' \in Seq(S) /\ Len(seen') = n /\ \A i \in 1..n : seen'[i] = buffer[i]
    BY <2>2, <2>3
  <2>. QED BY <2>4 DEF n, S
<1>3. SlotKept'
  BY <1>2 DEF SlotKept
<1>. QED BY <1>1, <1>3 DEF TurnInv, OneCall, Active, Storing, CopiedBy, StoredBy
\* Between two calls, a program takes its turn only when no call is under way.
LEMMA TurnClient ==
  ASSUME IInv, TurnInv, NEW p \in Proc, turns,
         Return(p) \/ Reopen(p) \/ Reinject(p) \/ \E r \in Calls : Call(p, r)
  PROVE  TurnInv'
<1>. USE DEF dev
<1>1. CASE Return(p)
  <2>1. /\ pc'[p] = "idle" /\ pc[p] = "done"
        /\ UNCHANGED <<program, turns, buffer, length, seen>>
        /\ \A q \in Proc \ {p} : /\ pc'[q] = pc[q] /\ op'[q] = op[q] /\ len'[q] = len[q]
                                 /\ mem'[q] = mem[q] /\ f_pos'[q] = f_pos[q]
    BY <1>1 DEF Return, IInv, TypeOK
  <2>2. ~Active(p)' /\ ~Storing(p) /\ CopiedBy(p)' /\ StoredBy(p)'
    BY <2>1 DEF Active, Storing, CopiedBy, StoredBy
  <2>. QED BY <2>1, <2>2, TurnLocal
<1>2. CASE Reopen(p)
  <2>1. /\ pc'[p] = "idle" /\ pc[p] = "idle"
        /\ UNCHANGED <<program, turns, buffer, length, seen>>
        /\ \A q \in Proc \ {p} : /\ pc'[q] = pc[q] /\ op'[q] = op[q] /\ len'[q] = len[q]
                                 /\ mem'[q] = mem[q] /\ f_pos'[q] = f_pos[q]
    BY <1>2 DEF Reopen, IInv, TypeOK
  <2>2. ~Active(p)' /\ ~Storing(p) /\ CopiedBy(p)' /\ StoredBy(p)'
    BY <2>1 DEF Active, Storing, CopiedBy, StoredBy
  <2>. QED BY <2>1, <2>2, TurnLocal
<1>3. ASSUME NEW r, Start(p, r), MyTurn PROVE TurnInv'
  <2>1. /\ pc'[p] = "call" /\ ~Storing(p)
        /\ UNCHANGED <<program, turns, buffer, length, seen>>
        /\ \A q \in Proc \ {p} : /\ pc'[q] = pc[q] /\ op'[q] = op[q] /\ len'[q] = len[q]
                                 /\ mem'[q] = mem[q] /\ f_pos'[q] = f_pos[q]
        /\ \A q \in Proc \ {p} : ~Active(q)
    BY <1>3 DEF Start, IInv, TypeOK, MyTurn, Active, Storing
  <2>2. CopiedBy(p)' /\ StoredBy(p)'
    BY <2>1 DEF Storing, CopiedBy, StoredBy
  <2>. QED BY <2>1, <2>2, TurnLocal
<1>4. CASE Reinject(p)
  BY <1>3, <1>4 DEF Reinject
<1>5. CASE \E r \in Calls : Call(p, r)
  BY <1>3, <1>5 DEF Call
<1>. QED BY <1>1, <1>2, <1>4, <1>5

\* The one call there is ends and leaves buffer and packet as they are.
LEMMA TurnFinish ==
  ASSUME IInv, TurnInv, NEW p \in Proc, turns, NEW v, Finish(p, v), ~Storing(p),
         UNCHANGED <<program, turns, buffer, length, seen, mem>>,
         \A q \in Proc \ {p} : f_pos'[q] = f_pos[q]
  PROVE  TurnInv'
<1>1. /\ pc'[p] = "done"
      /\ \A q \in Proc \ {p} : /\ pc'[q] = pc[q] /\ op'[q] = op[q] /\ len'[q] = len[q]
                               /\ mem'[q] = mem[q] /\ f_pos'[q] = f_pos[q]
  BY DEF Finish, IInv, TypeOK
<1>2. ~Active(p)' /\ CopiedBy(p)' /\ StoredBy(p)'
  BY <1>1 DEF Active, Storing, CopiedBy, StoredBy
<1>. QED BY <1>1, <1>2, TurnLocal

\* dev_read by the one process that makes a call.
LEMMA TurnRead ==
  ASSUME IInv, TurnInv, NEW p \in Proc, turns,
         \/ ReadNothing(p) \/ ReadStart(p) \/ ReadClip(p) \/ ReadAdjust(p) \/ ReadByte(p)
         \/ ReadFault(p) \/ ReadKeeps(p) \/ ReadTakes(p)
  PROVE  TurnInv'
<1>. USE DEF dev, At, Advance
<1>0. /\ Active(p) /\ ~Storing(p) /\ \A q \in Proc \ {p} : ~Active(q)
      /\ CopiedBy(p) /\ StoredBy(p)
  BY DEF TurnInv, OneCall, Active, Storing, ReadNothing, ReadStart, ReadClip, ReadAdjust,
         ReadByte, ReadFault, ReadKeeps, ReadTakes
<1>1. CASE ReadNothing(p)
  BY <1>0, <1>1, TurnFinish DEF ReadNothing
<1>2. CASE ReadStart(p)
  <2>1. /\ pc'[p] = "clip" /\ ~AtEnd(p)'
        /\ UNCHANGED <<program, turns, buffer, length, seen>>
        /\ \A q \in Proc \ {p} : /\ pc'[q] = pc[q] /\ op'[q] = op[q] /\ len'[q] = len[q]
                                 /\ mem'[q] = mem[q] /\ f_pos'[q] = f_pos[q]
    BY <1>2 DEF ReadStart, AtEnd, IInv, TypeOK
  <2>2. CopiedBy(p)' /\ StoredBy(p)'
    BY <2>1 DEF Storing, CopiedBy, StoredBy
  <2>. QED BY <1>0, <2>1, <2>2, TurnLocal
<1>3. CASE ReadClip(p)
  <2>1. /\ pc[p] = "clip" /\ op[p].len \in Nat /\ length \in Nat
        /\ UNCHANGED <<program, turns, buffer, length, seen, op, mem, f_pos>>
        /\ IF op[p].len > length THEN pc'[p] = "adjust"
                                 ELSE pc'[p] = "load" /\ len'[p] = op[p].len
        /\ \A q \in Proc \ {p} : /\ pc'[q] = pc[q] /\ op'[q] = op[q] /\ len'[q] = len[q]
                                 /\ mem'[q] = mem[q] /\ f_pos'[q] = f_pos[q]
    BY <1>3, CallFields, SlotAssumption DEF ReadClip, IInv, TypeOK, Reading
  <2>2. ~AtEnd(p)' /\ \A i \in 1..Len(mem[p]) : mem[p][i] = buffer[i]
    BY <1>0, <2>1 DEF CopiedBy, AtEnd, IInv, NothingYet
  <2>3. CopiedBy(p)' /\ StoredBy(p)'
    BY <2>1, <2>2 DEF Storing, CopiedBy, StoredBy, AtMost
  <2>. QED BY <1>0, <2>1, <2>3, TurnLocal
<1>8. CASE ReadAdjust(p)
  <2>1. /\ pc[p] = "adjust" /\ pc'[p] = "load" /\ op[p].len \in Nat /\ length \in Nat
        /\ UNCHANGED <<program, turns, buffer, length, seen, op, mem, f_pos>>
        /\ len'[p] = length
        /\ \A q \in Proc \ {p} : /\ pc'[q] = pc[q] /\ op'[q] = op[q] /\ len'[q] = len[q]
                                 /\ mem'[q] = mem[q] /\ f_pos'[q] = f_pos[q]
    BY <1>8, CallFields, SlotAssumption DEF ReadAdjust, IInv, TypeOK, Reading
  <2>2. /\ ~AtEnd(p)' /\ op[p].len > length
        /\ \A i \in 1..Len(mem[p]) : mem[p][i] = buffer[i]
    BY <1>0, <2>1 DEF CopiedBy, AtEnd, IInv, NothingYet
  <2>3. CopiedBy(p)' /\ StoredBy(p)'
    BY <2>1, <2>2 DEF Storing, CopiedBy, StoredBy, AtMost
  <2>. QED BY <1>0, <2>1, <2>3, TurnLocal
<1>4. CASE ReadByte(p)
  <2>1. /\ pc' = pc /\ pc[p] = "load"
        /\ UNCHANGED <<program, turns, buffer, length, seen, op, len, f_pos>>
        /\ \A q \in Proc \ {p} : mem'[q] = mem[q]
        /\ mem'[p] = Append(mem[p], buffer[Len(mem[p]) + 1])
    BY <1>4 DEF ReadByte, IInv, TypeOK
  <2>2. /\ mem[p] \in Seq(Byte) /\ buffer[Len(mem[p]) + 1] \in Byte
    BY <1>4, SlotAssumption DEF ReadByte, Reading, Written, IInv, MemoryWritten, TypeOK
  <2>3. \A i \in 1..Len(mem'[p]) : mem'[p][i] = buffer[i]
    BY <1>0, <2>1, <2>2 DEF CopiedBy
  <2>4. ~AtEnd(p)' /\ len'[p] = AtMost(op'[p].len, length')
    BY <1>0, <2>1 DEF CopiedBy, AtEnd
  <2>5. CopiedBy(p)' /\ StoredBy(p)' /\ Active(p)'
    BY <2>1, <2>3, <2>4 DEF Storing, CopiedBy, StoredBy, Active
  <2>. QED BY <1>0, <2>1, <2>5, TurnLocal
<1>5. CASE ReadFault(p)
  BY <1>0, <1>5, TurnFinish DEF ReadFault
<1>6. CASE ReadKeeps(p)
  BY <1>0, <1>6, TurnFinish DEF ReadKeeps, IInv, TypeOK
<1>7. CASE ReadTakes(p)
  <2>1. /\ pc'[p] = "done" /\ \A q \in Proc \ {p} : pc'[q] = pc[q]
        /\ length' = 0 /\ seen' = <<>> /\ buffer' = buffer /\ turns' = turns
    BY <1>7 DEF ReadTakes, Finish, IInv, TypeOK
  <2>2. SubSeq(buffer, 1, 0) = <<>>
    BY SubSeqEmpty
  <2>3. length' \in 0..Size /\ seen' = SubSeq(buffer, 1, length')
    BY <2>1, <2>2, SlotAssumption
  <2>4. ~Active(p)'
    BY <2>1 DEF Active
  <2>. QED BY <1>0, <2>1, <2>3, <2>4, TurnEnd
<1>. QED BY <1>1, <1>2, <1>3, <1>4, <1>5, <1>6, <1>7, <1>8
\* One byte stored by the one call there is: above it the buffer is as it was.
LEMMA TurnStore ==
  ASSUME IInv, TurnInv, NEW p \in Proc, turns, NEW b \in Byte, Store(p, b),
         Storing(p), Len(mem[p]) < len[p], StoredBy(p)'
  PROVE  TurnInv'
<1>1. /\ UNCHANGED <<turns, length, seen, pc>>
      /\ mem[p] \in Seq(Byte) /\ Len(mem[p]) \in Nat /\ Len(mem'[p]) = Len(mem[p]) + 1
      /\ \A i \in 1..Size : i > Len(mem[p]) + 1 => buffer'[i] = buffer[i]
  BY SlotAssumption DEF Store, IInv, TypeOK, MemoryWritten, Slots
<1>2. \A q \in Proc \ {p} : ~Active(q)
  BY DEF TurnInv, OneCall, Active, Storing
<1>3. OneCall'
  BY <1>1 DEF TurnInv, OneCall, Active
<1>4. SlotKept'
  <2>1. ASSUME NEW i \in 1..length,
               \A q \in Proc : Storing(q)' => i > Len(mem'[q])
        PROVE  seen[i] = buffer'[i]
    <3>1. i > Len(mem[p]) + 1 /\ i \in 1..Size
      BY <1>1, <2>1, SlotAssumption DEF Storing, IInv, TypeOK
    <3>2. \A q \in Proc : Storing(q) => i > Len(mem[q])
      BY <1>1, <1>2, <3>1 DEF Active, Storing
    <3>3. seen[i] = buffer[i]
      BY <3>2 DEF TurnInv, SlotKept
    <3>. QED BY <1>1, <3>1, <3>3
  <2>. QED BY <1>1, <2>1 DEF TurnInv, SlotKept
<1>5. ASSUME NEW q \in Proc PROVE CopiedBy(q)' /\ StoredBy(q)'
  BY <1>1, <1>2 DEF Active, Storing, CopiedBy, StoredBy
<1>. QED BY <1>3, <1>4, <1>5 DEF TurnInv

\* dev_write by the one process that makes a call.
LEMMA TurnWrite ==
  ASSUME IInv, TurnInv, NEW p \in Proc, turns,
         \/ WriteClip(p) \/ WriteByte(p) \/ WriteFault(p) \/ WipeByte(p)
         \/ WriteFails(p) \/ WriteDone(p)
  PROVE  TurnInv'
<1>. USE DEF dev, At, Advance
<1>0. /\ Active(p) /\ \A q \in Proc \ {p} : ~Active(q)
      /\ CopiedBy(p) /\ StoredBy(p)
      /\ mem[p] \in Seq(Byte) /\ Len(mem[p]) \in Nat
  <2>1. Active(p)
    BY DEF Active, WriteClip, WriteByte, WriteFault, WipeByte, WriteFails, WriteDone
  <2>2. \A q \in Proc \ {p} : ~Active(q)
    BY <2>1 DEF TurnInv, OneCall
  <2>. QED BY <2>1, <2>2 DEF TurnInv, IInv, MemoryWritten
<1>1. CASE WriteClip(p)
  <2>1. /\ pc'[p] = "store" /\ pc[p] = "call" /\ mem'[p] = <<>>
        /\ UNCHANGED <<program, turns, buffer, length, seen, op, mem, f_pos>>
        /\ len'[p] = AtMost(Len(op[p].buf), Size)
        /\ \A q \in Proc \ {p} : /\ pc'[q] = pc[q] /\ op'[q] = op[q] /\ len'[q] = len[q]
                                 /\ mem'[q] = mem[q] /\ f_pos'[q] = f_pos[q]
    BY <1>1 DEF WriteClip, IInv, TypeOK, NothingYet
  <2>2. CopiedBy(p)' /\ StoredBy(p)' /\ ~Storing(p)
    BY <2>1 DEF Storing, CopiedBy, StoredBy
  <2>. QED BY <1>0, <2>1, <2>2, TurnLocal
<1>2. CASE WriteByte(p)
  <2>1. /\ op[p].kind = "write" /\ len[p] <= Len(op[p].buf)
        /\ pc[p] = "store" /\ Len(mem[p]) < len[p]
    BY <1>2 DEF WriteByte, IInv, Writing
  <2>2. op[p].buf[Len(mem[p]) + 1] \in Byte
    <3>1. op[p].buf \in Seq(Byte) /\ Len(op[p].buf) \in Nat
      BY <2>1, CallFields DEF IInv, TypeOK
    <3>. QED BY <1>0, <2>1, <3>1, ElementOfSeq, SlotAssumption DEF IInv, TypeOK
  <2>3. /\ Store(p, op[p].buf[Len(mem[p]) + 1])
        /\ pc' = pc /\ op' = op /\ len' = len
        /\ Len(mem'[p]) = Len(mem[p]) + 1
        /\ \A i \in 1..Len(mem[p]) : buffer'[i] = buffer[i]
        /\ buffer'[Len(mem[p]) + 1] = op[p].buf[Len(mem[p]) + 1]
    BY <1>0, <1>2, <2>1, SlotAssumption DEF WriteByte, Store, IInv, TypeOK, Slots
  <2>4. \A i \in 1..Len(mem'[p]) : buffer'[i] = op'[p].buf[i]
    BY <1>0, <2>1, <2>3 DEF StoredBy, Storing
  <2>5. StoredBy(p)' /\ Storing(p)
    BY <1>0, <2>1, <2>3, <2>4 DEF StoredBy, Storing
  <2>. QED BY <2>1, <2>2, <2>3, <2>5, TurnStore
<1>3. CASE WriteFault(p)
  <2>1. /\ pc'[p] = "wipe" /\ pc[p] = "store" /\ mem' = mem /\ op' = op /\ len' = len
        /\ UNCHANGED <<program, turns, buffer, length, seen, f_pos>>
        /\ \A q \in Proc \ {p} : pc'[q] = pc[q]
        /\ Len(mem[p]) \in 0..(len[p] - 1)
    BY <1>0, <1>3, SlotAssumption DEF WriteFault, IInv, TypeOK
  <2>2. StoredTo(p, Len(mem[p]))'
    BY <1>0, <2>1 DEF StoredTo, StoredBy, Storing
  <2>3. len'[p] = AtMost(Len(op'[p].buf), Size)
    BY <1>0, <2>1 DEF StoredBy, Storing
  <2>4. \E k \in 0..(len'[p] - 1) : k <= Len(mem'[p]) /\ StoredTo(p, k)'
    BY <1>0, <2>1, <2>2
  <2>5. CopiedBy(p)' /\ StoredBy(p)' /\ Active(p)' /\ Storing(p)'
    BY <2>1, <2>3, <2>4 DEF Storing, CopiedBy, StoredBy, Active
  <2>. QED BY <1>0, <2>1, <2>5, TurnLocal
<1>4. CASE WipeByte(p)
  <2>1. /\ Store(p, Zero) /\ pc[p] = "wipe" /\ Len(mem[p]) < len[p]
        /\ pc' = pc /\ op' = op /\ len' = len
        /\ Len(mem'[p]) = Len(mem[p]) + 1
        /\ \A i \in 1..Len(mem[p]) : buffer'[i] = buffer[i]
        /\ buffer'[Len(mem[p]) + 1] = Zero
    BY <1>0, <1>4, SlotAssumption DEF WipeByte, Store, IInv, TypeOK, Slots
  <2>2. PICK k \in 0..(len[p] - 1) : k <= Len(mem[p]) /\ StoredTo(p, k)
    BY <1>0, <2>1 DEF StoredBy, Storing
  <2>3. k < Len(mem'[p])
    BY <1>0, <2>1, <2>2
  <2>4. StoredTo(p, k)'
    BY <1>0, <2>1, <2>2, <2>3 DEF StoredTo
  <2>5. StoredBy(p)' /\ Storing(p)
    BY <1>0, <2>1, <2>2, <2>3, <2>4 DEF StoredBy, Storing
  <2>. QED BY <2>1, <2>5, TurnStore, SlotAssumption
<1>5. CASE WriteFails(p)
  <2>1. /\ pc'[p] = "done" /\ \A q \in Proc \ {p} : pc'[q] = pc[q]
        /\ length' = length /\ seen' = SubSeq(buffer, 1, length')
        /\ buffer' = buffer /\ turns' = turns
    BY <1>5 DEF WriteFails, Finish, IInv, TypeOK
  <2>2. ~Active(p)' /\ length' \in 0..Size
    BY <2>1 DEF Active, IInv, TypeOK
  <2>. QED BY <1>0, <2>1, <2>2, TurnEnd
<1>6. CASE WriteDone(p)
  <2>1. /\ pc'[p] = "done" /\ \A q \in Proc \ {p} : pc'[q] = pc[q]
        /\ length' = len[p] /\ seen' = SubSeq(buffer, 1, length')
        /\ buffer' = buffer /\ turns' = turns
    BY <1>6 DEF WriteDone, Finish, IInv, TypeOK
  <2>2. ~Active(p)' /\ length' \in 0..Size
    BY <2>1 DEF Active, IInv, TypeOK
  <2>. QED BY <1>0, <2>1, <2>2, TurnEnd
<1>. QED BY <1>1, <1>2, <1>3, <1>4, <1>5, <1>6
\* Taking turns lasts.
LEMMA TurnNext == IInv /\ TurnInv /\ [Next]_vars => TurnInv'
<1>. SUFFICES ASSUME IInv, TurnInv, [Next]_vars PROVE TurnInv'
  OBVIOUS
<1>1. CASE UNCHANGED vars
  BY <1>1 DEF vars, TurnInv, OneCall, SlotKept, CopiedBy, StoredBy, StoredTo, Active,
              Storing, AtEnd
<1>2. CASE Next /\ turns
  BY <1>2, TurnClient, TurnRead, TurnWrite DEF Next
<1>3. CASE Next /\ ~turns
  <2>1. turns' = turns
    BY <1>3 DEF Next, Call, Reinject, Start, Return, Reopen, ReadNothing, ReadStart, ReadClip,
                ReadAdjust, ReadByte, ReadFault, ReadKeeps, ReadTakes, WriteClip, WriteByte, WriteFault,
                WipeByte, Store, WriteFails, WriteDone, dev
  <2>. QED BY <1>3, <2>1 DEF TurnInv
<1>. QED BY <1>1, <1>2, <1>3

\* A call returns a number.
Returning == ret \in [Proc -> Int]

\* Nothing has been returned yet.
LEMMA ReturningInit == Init => Returning
BY DEF Init, Returning

\* Each handler returns a length or the negative of EFAULT.
LEMMA ReturningNext == IInv /\ Returning /\ [Next]_vars => Returning'
<1>. SUFFICES ASSUME IInv, Returning, [Next]_vars PROVE Returning'
  OBVIOUS
<1>1. \A p \in Proc : len[p] \in Int /\ -EFAULT \in Int
  BY SlotAssumption DEF IInv, TypeOK, EFAULT
<1>2. ASSUME NEW p \in Proc, NEW v \in Int, Finish(p, v) PROVE Returning'
  BY <1>2 DEF Finish, Returning
<1>3. ASSUME NEW p \in Proc,
             \/ ReadNothing(p) \/ ReadFault(p) \/ ReadKeeps(p) \/ ReadTakes(p)
             \/ WriteFails(p) \/ WriteDone(p)
      PROVE  Returning'
  BY <1>1, <1>2, <1>3 DEF ReadNothing, ReadFault, ReadKeeps, ReadTakes, WriteFails, WriteDone
<1>4. ASSUME NEW p \in Proc,
             \/ ReadStart(p) \/ ReadClip(p) \/ ReadAdjust(p) \/ ReadByte(p)
             \/ WriteClip(p) \/ WriteByte(p) \/ WriteFault(p) \/ WipeByte(p) \/ Reopen(p)
      PROVE  Returning'
  BY <1>4 DEF Returning, ReadStart, ReadClip, ReadAdjust, ReadByte, WriteClip, WriteByte, WriteFault,
              WipeByte, Store, Reopen
<1>5. ASSUME NEW p \in Proc, Return(p) \/ Reinject(p) \/ \E r \in Calls : Call(p, r)
      PROVE  Returning'
  BY <1>5 DEF Returning, Return, Reinject, Call, Start
<1>6. CASE UNCHANGED vars
  BY <1>6 DEF Returning, vars
<1>. QED BY <1>3, <1>4, <1>5, <1>6 DEF Next

\* The state that the refinement is proved in.
FullInv == IInv /\ TurnInv /\ Returning

\* What a program sees of its call.
View(where, r, v, m) ==
  CASE where = "idle" -> [kind |-> "idle"]
    [] where = "done" -> [kind |-> "result", value |-> v, memory |-> m]
    [] OTHER -> r

\* What a caller sees of a call that is idle, has returned or is under way.
LEMMA ViewOf ==
  ASSUME NEW where, NEW r, NEW v, NEW m
  PROVE  /\ where = "idle" => View(where, r, v, m) = Device!Idle
         /\ where = "done" => View(where, r, v, m) = Device!Result(v, m)
         /\ where \notin {"idle", "done"} => View(where, r, v, m) = r
BY DEF View, Device!Idle, Device!Result

\* The clients of PacketDevice are the views of the processes.
LEMMA ClientView ==
  Client = [p \in Proc |-> View(pc[p], op[p], ret[p], mem[p])]
BY DEF Client, View

\* A step that moves only process p moves only what p sees.
LEMMA ClientMoves ==
  ASSUME NEW p \in Proc, NEW w, NEW r, NEW v, NEW m,
         pc'[p] = w, op'[p] = r, ret'[p] = v, mem'[p] = m,
         \A q \in Proc \ {p} : /\ pc'[q] = pc[q] /\ op'[q] = op[q]
                               /\ ret'[q] = ret[q] /\ mem'[q] = mem[q]
  PROVE  Client' = [Client EXCEPT ![p] = View(w, r, v, m)]
<1>1. Client' = [q \in Proc |-> View(pc'[q], op'[q], ret'[q], mem'[q])]
  BY DEF Client, View
<1>. QED BY <1>1, ClientView

\* A call that ends answers with its result and the memory it has filled.
LEMMA Answers ==
  ASSUME FullInv, NEW p \in Proc, NEW v, Finish(p, v),
         \A q \in Proc \ {p} : mem'[q] = mem[q]
  PROVE  Device!Answer(p, v, mem'[p])
<1>1. /\ pc'[p] = "done" /\ ret'[p] = v
      /\ \A q \in Proc \ {p} : /\ pc'[q] = pc[q] /\ op'[q] = op[q]
                               /\ ret'[q] = ret[q] /\ mem'[q] = mem[q]
  BY DEF FullInv, IInv, TypeOK, Returning, Finish
<1>2. Client' = [Client EXCEPT ![p] = View("done", op'[p], v, mem'[p])]
  BY <1>1, ClientMoves
<1>3. View("done", op'[p], v, mem'[p]) = Device!Result(v, mem'[p])
  BY ViewOf
<1>. QED BY <1>2, <1>3 DEF Device!Answer

\* A step of a call that has not ended is not seen.
LEMMA Unseen ==
  ASSUME FullInv, NEW p \in Proc, Active(p), Active(p)',
         \A q \in Proc \ {p} : pc'[q] = pc[q] /\ mem'[q] = mem[q],
         op' = op, ret' = ret
  PROVE  Client' = Client
<1>1. Client' = [q \in Proc |-> View(pc'[q], op[q], ret[q], mem'[q])]
  BY DEF Client, View
<1>2. View(pc'[p], op[p], ret[p], mem'[p]) = op[p] /\ View(pc[p], op[p], ret[p], mem[p]) = op[p]
  BY ViewOf DEF Active
<1>. QED BY <1>1, <1>2, ClientView
\* While a call is under way, a program sees the call.
LEMMA Pending ==
  ASSUME NEW p \in Proc, Active(p)
  PROVE  Client[p] = op[p]
BY ClientView, ViewOf DEF Active

\* What a read that copies is due, and what it has copied.
LEMMA Loading ==
  ASSUME FullInv, turns, NEW p \in Proc, pc[p] = "load"
  PROVE  /\ Client[p].kind = "read" /\ Device!Due(p) = len[p]
         /\ mem[p] = SubSeq(seen, 1, Len(mem[p])) /\ Len(mem[p]) \in 0..len[p]
<1>1. /\ Active(p) /\ CopiedBy(p) /\ SlotKept /\ OneCall
      /\ length \in 0..Size /\ op[p].kind = "read"
      /\ mem[p] \in Seq(Byte) /\ Len(mem[p]) \in 0..len[p]
      /\ len[p] = AtMost(op[p].len, length)
      /\ ~AtEnd(p)
  BY DEF Active, FullInv, TurnInv, IInv, TypeOK, Reading, MemoryWritten, CopiedBy
<1>2. Client[p] = op[p]
  BY <1>1, Pending
<1>3. Device!Due(p) = len[p]
  BY <1>1, <1>2 DEF AtEnd, Device!Due, Device!AtMost, AtMost, SlotKept
<1>4. op[p].len \in Nat /\ len[p] <= length
  BY <1>1, CallFields, SlotAssumption DEF FullInv, IInv, TypeOK, AtMost
<1>5. \A i \in 1..Len(mem[p]) : mem[p][i] = seen[i]
  <2>1. ASSUME NEW q \in Proc PROVE ~Storing(q)
    BY <1>1 DEF OneCall, Active, Storing
  <2>2. ASSUME NEW i \in 1..Len(mem[p]) PROVE mem[p][i] = seen[i]
    <3>1. i \in 1..length
      <4>1. len[p] \in Int /\ length \in Int /\ Len(mem[p]) \in Int /\ Len(mem[p]) <= len[p]
        BY <1>1, SlotAssumption DEF FullInv, IInv, TypeOK
      <4>. QED BY <1>4, <4>1
    <3>2. seen[i] = buffer[i]
      BY <1>1, <2>1, <3>1 DEF SlotKept
    <3>3. mem[p][i] = buffer[i]
      BY <1>1 DEF CopiedBy
    <3>. QED BY <3>2, <3>3
  <2>. QED BY <2>2
<1>6. mem[p] = SubSeq(seen, 1, Len(mem[p]))
  <2>. DEFINE n == Len(mem[p])
              s == mem[p]
              t == SubSeq(seen, 1, n)
  <2>1. n \in Nat /\ s \in Seq(Byte) /\ Len(s) = n /\ \A i \in 1..n : s[i] = seen[i]
    BY <1>1, <1>5
  <2>2. \A i \in 1..n : seen[i] \in Byte
    BY <2>1, ElementOfSeq
  <2>3. t \in Seq(Byte) /\ Len(t) = n /\ \A i \in 1..n : t[i] = seen[i]
    BY <2>1, <2>2, Front
  <2>. HIDE DEF n, s, t
  <2>4. s = t
    BY <2>1, <2>3, SeqEqual
  <2>. QED BY <2>4 DEF n, s, t
<1>. QED BY <1>1, <1>2, <1>3, <1>6

\* The programs' own steps are the same on both sides, vpn_app's included: what
\* it writes is what it read.
LEMMA ClientMaps ==
  ASSUME FullInv, turns, NEW p \in Proc,
         Return(p) \/ Reopen(p) \/ Reinject(p) \/ \E r \in Calls : Call(p, r)
  PROVE  Device!Step
<1>. USE DEF dev, FullInv, IInv, TypeOK, Returning
<1>0. MyTurn => Device!MyTurn
  <2>. SUFFICES ASSUME MyTurn, NEW q \in Proc PROVE Client[q].kind \notin {"read", "write"}
    BY DEF Device!MyTurn
  <2>1. CASE pc[q] = "idle"
    BY <2>1, ClientView, ViewOf DEF Device!Idle
  <2>2. CASE pc[q] = "done"
    BY <2>2, ClientView, ViewOf DEF Device!Result
  <2>. QED BY <2>1, <2>2 DEF MyTurn
<1>1. CASE Return(p)
  <2>1. /\ pc[p] = "done" /\ pc'[p] = "idle" /\ UNCHANGED <<seen, f_pos>>
        /\ \A q \in Proc \ {p} : /\ pc'[q] = pc[q] /\ op'[q] = op[q]
                                 /\ ret'[q] = ret[q] /\ mem'[q] = mem[q]
    BY <1>1 DEF Return
  <2>2. Client' = [Client EXCEPT ![p] = View("idle", op'[p], ret'[p], mem'[p])]
    BY <2>1, ClientMoves
  <2>3. Client[p].kind = "result"
    BY <2>1, ClientView, ViewOf DEF Device!Result
  <2>4. View("idle", op'[p], ret'[p], mem'[p]) = Device!Idle
    BY ViewOf
  <2>5. Device!Return(p)
    BY <2>1, <2>2, <2>3, <2>4 DEF Device!Return
  <2>. QED BY <2>5 DEF Device!Step
<1>2. CASE Reopen(p)
  <2>1. Client' = Client
    BY <1>2 DEF Reopen, Client
  <2>2. Client[p] = Device!Idle
    BY <1>2, ClientView, ViewOf DEF Reopen
  <2>3. Device!Reopen(p)
    BY <1>2, <2>1, <2>2 DEF Reopen, Device!Reopen
  <2>. QED BY <2>3 DEF Device!Step
<1>3. ASSUME NEW r, Start(p, r) PROVE Client' = [Client EXCEPT ![p] = r] /\ UNCHANGED <<seen, f_pos>>
  <2>1. /\ pc'[p] = "call" /\ op'[p] = r /\ UNCHANGED <<seen, f_pos>>
        /\ \A q \in Proc \ {p} : /\ pc'[q] = pc[q] /\ op'[q] = op[q]
                                 /\ ret'[q] = ret[q] /\ mem'[q] = mem[q]
    BY <1>3 DEF Start
  <2>2. Client' = [Client EXCEPT ![p] = View("call", r, ret'[p], mem'[p])]
    BY <2>1, ClientMoves
  <2>3. View("call", r, ret'[p], mem'[p]) = r
    BY DEF View
  <2>. QED BY <2>1, <2>2, <2>3
<1>4. CASE Reinject(p)
  <2>1. pc[p] = "done" /\ ret[p] > 0 /\ MyTurn
        /\ Start(p, [kind |-> "write", buf |-> Transformed(mem[p])])
    BY <1>4 DEF Reinject
  <2>2. Client[p] = Device!Result(ret[p], mem[p])
    BY <2>1, ClientView, ViewOf
  <2>3. Transformed(mem[p]) = mem[p]
    <3>1. mem[p] \in Seq(Byte)
      BY DEF MemoryWritten
    <3>2. /\ mem[p] = [i \in DOMAIN mem[p] |-> mem[p][i]]
          /\ \A i \in DOMAIN mem[p] : mem[p][i] \in Byte
      BY <3>1
    <3>. QED BY <3>2, SlotAssumption DEF Transformed
  <2>4. Device!Reinject(p)
    BY <1>0, <1>3, <2>1, <2>2, <2>3 DEF Device!Reinject, Device!Result
  <2>. QED BY <2>4 DEF Device!Step
<1>5. CASE \E r \in Calls : Call(p, r)
  <2>1. PICK r \in Calls : Call(p, r)
    BY <1>5
  <2>2. Client[p] = Device!Idle
    BY <2>1, ClientView, ViewOf DEF Call
  <2>3. Device!Call(p, r)
    BY <1>0, <1>3, <2>1, <2>2 DEF Call, Device!Call
  <2>. QED BY <2>3 DEF Device!Step
<1>. QED BY <1>1, <1>2, <1>4, <1>5
\* dev_read: the copy is one read, when it ends or fails.
LEMMA ReadMaps ==
  ASSUME FullInv, turns, NEW p \in Proc,
         \/ ReadNothing(p) \/ ReadStart(p) \/ ReadClip(p) \/ ReadAdjust(p) \/ ReadByte(p)
         \/ ReadFault(p) \/ ReadKeeps(p) \/ ReadTakes(p)
  PROVE  Device!Step \/ UNCHANGED <<seen, f_pos, Client>>
<1>. USE DEF dev, At, Advance
<1>1. CASE ReadNothing(p)
  <2>1. /\ pc[p] = "call" /\ op[p].kind = "read" /\ AtEnd(p) /\ Finish(p, 0)
        /\ mem' = mem /\ mem[p] = <<>> /\ seen' = seen /\ f_pos' = f_pos
        /\ f_pos \in [Proc -> 0..Size] /\ length \in 0..Size /\ Size \in Nat
        /\ program \in {"simple", "tun"} /\ Len(seen) = length
        /\ seen \in Seq(Byte \union {Garbage})
    BY <1>1, SlotAssumption
       DEF ReadNothing, FullInv, IInv, TypeOK, NothingYet, TurnInv, SlotKept
  <2>2. Client[p] = op[p] /\ op[p].len \in Nat
    BY <2>1, Pending, CallFields DEF Active, FullInv, IInv, TypeOK
  <2>3. Device!Due(p) = 0
    BY <2>1, <2>2 DEF AtEnd, Device!Due, Device!AtMost
  <2>4. SubSeq(seen, 1, 0) = <<>>
    BY SubSeqEmpty
  <2>5. Device!Answer(p, 0, mem'[p])
    BY <2>1, Answers
  <2>6. Device!Answer(p, Device!Due(p), SubSeq(seen, 1, Device!Due(p)))
    BY <2>1, <2>3, <2>4, <2>5
  <2>7. CASE program = "simple"
    <3>1. f_pos' = [f_pos EXCEPT ![p] = @ + Device!Due(p)]
      BY <2>1, <2>3
    <3>2. Device!Read(p)
      BY <2>1, <2>2, <2>6, <2>7, <3>1 DEF Device!Read
    <3>. QED BY <3>2 DEF Device!Step
  <2>8. CASE program = "tun"
    <3>1. seen' = <<>>
      BY <2>1, <2>8, EmptySeq DEF AtEnd
    <3>2. Device!Read(p)
      BY <2>1, <2>2, <2>6, <2>8, <3>1 DEF Device!Read
    <3>. QED BY <3>2 DEF Device!Step
  <2>. QED BY <2>1, <2>7, <2>8
<1>2. CASE ReadStart(p) \/ ReadClip(p) \/ ReadAdjust(p) \/ ReadByte(p)
  <2>1. /\ Active(p) /\ Active(p)' /\ op' = op /\ ret' = ret
        /\ \A q \in Proc \ {p} : pc'[q] = pc[q] /\ mem'[q] = mem[q]
        /\ UNCHANGED <<seen, f_pos>>
    BY <1>2 DEF ReadStart, ReadClip, ReadAdjust, ReadByte, Active, FullInv, IInv, TypeOK
  <2>. QED BY <2>1, Unseen
<1>3. CASE ReadFault(p)
  <2>1. /\ pc[p] = "load" /\ Finish(p, -EFAULT) /\ mem' = mem /\ UNCHANGED <<seen, f_pos>>
        /\ Len(mem[p]) < len[p] /\ len[p] \in Int
    BY <1>3, SlotAssumption DEF ReadFault, FullInv, IInv, TypeOK
  <2>2. /\ Client[p].kind = "read" /\ Device!Due(p) = len[p]
        /\ mem[p] = SubSeq(seen, 1, Len(mem[p])) /\ Len(mem[p]) \in 0..len[p]
    BY <2>1, Loading
  <2>3. Device!Answer(p, -EFAULT, mem'[p])
    BY <2>1, Answers
  <2>4. EFAULT = Device!EFAULT
    BY DEF EFAULT, Device!EFAULT
  <2>5. Len(mem[p]) \in 0..(Device!Due(p) - 1)
    BY <2>1, <2>2
  <2>6. Device!Answer(p, -Device!EFAULT, SubSeq(seen, 1, Len(mem[p])))
    BY <2>1, <2>2, <2>3, <2>4
  <2>7. Device!ReadFails(p)
    BY <2>1, <2>2, <2>5, <2>6 DEF Device!ReadFails
  <2>. QED BY <2>7 DEF Device!Step
<1>4. CASE ReadKeeps(p) \/ ReadTakes(p)
  <2>1. /\ pc[p] = "load" /\ Finish(p, len[p]) /\ mem' = mem /\ Len(mem[p]) = len[p]
        /\ \/ program = "simple" /\ f_pos' = [f_pos EXCEPT ![p] = @ + len[p]] /\ seen' = seen
           \/ program = "tun" /\ f_pos' = f_pos /\ seen' = <<>>
    BY <1>4 DEF ReadKeeps, ReadTakes
  <2>2. /\ Client[p].kind = "read" /\ Device!Due(p) = len[p]
        /\ mem[p] = SubSeq(seen, 1, Len(mem[p]))
    BY <2>1, Loading
  <2>3. Device!Answer(p, len[p], mem'[p])
    BY <2>1, Answers
  <2>4. Device!Answer(p, Device!Due(p), SubSeq(seen, 1, Device!Due(p)))
    BY <2>1, <2>2, <2>3
  <2>5. Device!Read(p)
    BY <2>1, <2>2, <2>4 DEF Device!Read
  <2>. QED BY <2>5 DEF Device!Step
<1>. QED BY <1>1, <1>2, <1>3, <1>4
\* What a failing write leaves at place i of a packet: a byte it stored, one it
\* cleared, or what was there.
Left(i, k, n, bytes, was) ==
  CASE i <= k -> bytes[i] [] i \in (k + 1)..n -> Zero [] OTHER -> was

\* What a byte of the buffer holds after a copy that stopped: Left by its three ranges.
LEMMA LeftValue ==
  ASSUME NEW i \in Nat, NEW k \in Nat, NEW n \in Nat, k <= n, NEW bytes, NEW was
  PROVE  /\ i <= k => Left(i, k, n, bytes, was) = bytes[i]
         /\ i > k /\ i <= n => Left(i, k, n, bytes, was) = Zero
         /\ i > n => Left(i, k, n, bytes, was) = was
<1>1. CASE i <= k
  BY <1>1 DEF Left
<1>2. CASE i > k /\ i <= n
  BY <1>2 DEF Left
<1>3. CASE i > n
  BY <1>3 DEF Left
<1>. QED BY <1>1, <1>2, <1>3

\* A write under way: what it will have stored, and what the program sees.
LEMMA StoringState ==
  ASSUME FullInv, turns, NEW p \in Proc, Storing(p)
  PROVE  /\ Client[p] = op[p] /\ Client[p].kind = "write" /\ Device!Fitting(p) = len[p]
         /\ op[p].buf \in Seq(Byte) /\ len[p] \in 0..Size /\ len[p] <= Len(op[p].buf)
         /\ seen \in Seq(Byte \union {Garbage}) /\ Len(seen) = length
         /\ length \in 0..Size
         /\ \A i \in 1..length : i > Len(mem[p]) => seen[i] = buffer[i]
<1>1. /\ op[p].kind = "write" /\ len[p] = AtMost(Len(op[p].buf), Size)
      /\ len[p] \in 0..Size /\ len[p] <= Len(op[p].buf) /\ Active(p) /\ length \in 0..Size
  BY DEF FullInv, IInv, TypeOK, TurnInv, StoredBy, Storing, Writing, Active
<1>2. Client[p] = op[p]
  BY <1>1, Pending
<1>3. op[p].buf \in Seq(Byte)
  BY <1>1, CallFields DEF FullInv, IInv, TypeOK
<1>4. Device!Fitting(p) = len[p]
  BY <1>1, <1>2 DEF Device!Fitting, Device!AtMost, AtMost
<1>5. SlotKept /\ \A q \in Proc : Storing(q) => q = p
  BY <1>1 DEF FullInv, TurnInv, OneCall, Storing, Active
<1>6. \A i \in 1..length : i > Len(mem[p]) => seen[i] = buffer[i]
  BY <1>5 DEF SlotKept
<1>. QED BY <1>1, <1>2, <1>3, <1>4, <1>5, <1>6 DEF SlotKept

\* dev_write, all bytes stored: the slot holds the new packet.
LEMMA WriteDoneMaps ==
  ASSUME FullInv, turns, NEW p \in Proc, WriteDone(p)
  PROVE  Device!Write(p)
<1>1. /\ pc[p] = "store" /\ Len(mem[p]) = len[p] /\ Finish(p, len[p]) /\ f_pos' = f_pos
      /\ seen' = SubSeq(buffer, 1, len[p]) /\ mem'[p] = <<>>
      /\ \A q \in Proc \ {p} : mem'[q] = mem[q]
      /\ \A i \in 1..len[p] : buffer[i] = op[p].buf[i]
  BY DEF WriteDone, FullInv, IInv, TypeOK, TurnInv, StoredBy, Storing
<1>2. Storing(p)
  BY <1>1 DEF Storing
<1>3. /\ Client[p] = op[p] /\ Client[p].kind = "write" /\ Device!Fitting(p) = len[p]
      /\ op[p].buf \in Seq(Byte) /\ len[p] \in Nat /\ len[p] <= Len(op[p].buf)
  BY <1>2, StoringState, SlotAssumption
<1>4. SubSeq(buffer, 1, len[p]) = SubSeq(op[p].buf, 1, len[p])
  <2>. DEFINE n == len[p]
              b == op[p].buf
              s == SubSeq(buffer, 1, n)
              t == SubSeq(b, 1, n)
  <2>1. n \in Nat /\ \A i \in 1..n : b[i] \in Byte /\ buffer[i] = b[i]
    BY <1>1, <1>3, ElementOfSeq
  <2>2. s \in Seq(Byte) /\ Len(s) = n /\ \A i \in 1..n : s[i] = b[i]
    BY <2>1, Front
  <2>3. t \in Seq(Byte) /\ Len(t) = n /\ \A i \in 1..n : t[i] = b[i]
    BY <2>1, Front
  <2>. HIDE DEF n, b, s, t
  <2>4. s = t
    BY <2>2, <2>3, SeqEqual
  <2>. QED BY <2>4 DEF s, t, n, b
<1>5. Device!Answer(p, len[p], mem'[p])
  BY <1>1, Answers
<1>6. Device!Answer(p, Device!Fitting(p), <<>>)
  BY <1>1, <1>3, <1>5
<1>. QED BY <1>1, <1>3, <1>4, <1>6 DEF Device!Write

\* dev_write that fails: what it stored is in the packet, the rest it cleared.
LEMMA WriteFailsMaps ==
  ASSUME FullInv, turns, NEW p \in Proc, WriteFails(p)
  PROVE  Device!WriteFails(p)
<1>1. /\ pc[p] = "wipe" /\ Len(mem[p]) = len[p] /\ Finish(p, -EFAULT) /\ f_pos' = f_pos
      /\ seen' = SubSeq(buffer, 1, length) /\ mem'[p] = <<>>
      /\ \A q \in Proc \ {p} : mem'[q] = mem[q]
  BY DEF WriteFails, FullInv, IInv, TypeOK
<1>2. Storing(p)
  BY <1>1 DEF Storing
<1>3. /\ Client[p] = op[p] /\ Client[p].kind = "write" /\ Device!Fitting(p) = len[p]
      /\ len[p] \in Nat /\ length \in 0..Size /\ Size \in Nat
      /\ seen \in Seq(Byte \union {Garbage}) /\ Len(seen) = length
      /\ \A i \in 1..length : i > len[p] => seen[i] = buffer[i]
  BY <1>1, <1>2, StoringState, SlotAssumption
<1>4. PICK k \in 0..(len[p] - 1) : StoredTo(p, k)
  BY <1>1, <1>2 DEF FullInv, TurnInv, StoredBy
<1>5. ASSUME NEW i \in 1..length
      PROVE  buffer[i] = Left(i, k, len[p], op[p].buf, seen[i])
  <2>1. i \in Nat /\ k \in Nat /\ k <= len[p]
    BY <1>3, <1>4
  <2>2. /\ i <= k => Left(i, k, len[p], op[p].buf, seen[i]) = op[p].buf[i]
        /\ i > k /\ i <= len[p] => Left(i, k, len[p], op[p].buf, seen[i]) = Zero
        /\ i > len[p] => Left(i, k, len[p], op[p].buf, seen[i]) = seen[i]
    BY <1>3, <2>1, LeftValue
  <2>3. CASE i > len[p]
    BY <1>3, <2>2, <2>3
  <2>4. CASE i <= len[p]
    <3>1. buffer[i] = (IF i <= k THEN op[p].buf[i] ELSE Zero)
      BY <1>1, <1>4, <2>4, <2>1 DEF StoredTo
    <3>. QED BY <2>1, <2>2, <2>4, <3>1, <1>3
  <2>. QED BY <2>1, <2>3, <2>4, <1>3
<1>6. seen' = [i \in DOMAIN seen |-> Left(i, k, len[p], op[p].buf, seen[i])]
  <2>. DEFINE n == length
              S == Byte \union {Garbage}
  <2>1. n \in Nat /\ \A i \in 1..n : buffer[i] \in S
    BY <1>3 DEF FullInv, IInv, TypeOK, Slots
  <2>2. DOMAIN seen = 1..n
    BY <1>3
  <2>. HIDE DEF S
  <2>3. /\ SubSeq(buffer, 1, n) \in Seq(S) /\ Len(SubSeq(buffer, 1, n)) = n
        /\ \A i \in 1..n : SubSeq(buffer, 1, n)[i] = buffer[i]
    BY <2>1, Front
  <2>4. SubSeq(buffer, 1, n) = [i \in 1..n |-> buffer[i]]
    BY <2>3
  <2>5. [i \in 1..n |-> buffer[i]]
           = [i \in 1..n |-> Left(i, k, len[p], op[p].buf, seen[i])]
    BY <1>5
  <2>. QED BY <1>1, <2>2, <2>4, <2>5
<1>7. Device!Answer(p, -EFAULT, mem'[p])
  BY <1>1, Answers
<1>8. Device!Answer(p, -Device!EFAULT, <<>>)
  BY <1>1, <1>7 DEF EFAULT, Device!EFAULT
<1>9. \E j \in 0..(Device!Fitting(p) - 1) :
        seen' = [i \in DOMAIN seen |->
          CASE i <= j -> Client[p].buf[i] [] i \in (j + 1)..Device!Fitting(p) -> Zero
            [] OTHER -> seen[i]]
  BY <1>3, <1>4, <1>6 DEF Left
<1>. QED BY <1>1, <1>3, <1>8, <1>9 DEF Device!WriteFails

\* dev_write: the copy is one write, when it ends or fails.
LEMMA WriteMaps ==
  ASSUME FullInv, turns, NEW p \in Proc,
         \/ WriteClip(p) \/ WriteByte(p) \/ WriteFault(p) \/ WipeByte(p)
         \/ WriteFails(p) \/ WriteDone(p)
  PROVE  Device!Step \/ UNCHANGED <<seen, f_pos, Client>>
<1>1. CASE WriteClip(p) \/ WriteByte(p) \/ WriteFault(p) \/ WipeByte(p)
  <2>1. /\ Active(p) /\ Active(p)' /\ op' = op /\ ret' = ret
        /\ \A q \in Proc \ {p} : pc'[q] = pc[q] /\ mem'[q] = mem[q]
        /\ UNCHANGED <<seen, f_pos>>
    BY <1>1 DEF WriteClip, WriteByte, WriteFault, WipeByte, Store, At, Advance, dev,
                Active, FullInv, IInv, TypeOK
  <2>. QED BY <2>1, Unseen
<1>2. CASE WriteFails(p)
  BY <1>2, WriteFailsMaps DEF Device!Step
<1>3. CASE WriteDone(p)
  BY <1>3, WriteDoneMaps DEF Device!Step
<1>. QED BY <1>1, <1>2, <1>3
\* Both start with an empty slot and no call.
LEMMA InitMaps == Init => Device!Init
BY ClientView, ViewOf DEF Init, Device!Init

\* A step is a step of the one-packet slot, or not seen; when programs do not
\* take turns the slot promises nothing.
LEMMA NextMaps == FullInv /\ [Next]_vars => [Device!Next]_(Device!vars)
<1>. SUFFICES ASSUME FullInv, [Next]_vars PROVE [Device!Next]_(Device!vars)
  OBVIOUS
<1>1. CASE UNCHANGED vars
  BY <1>1 DEF vars, Device!vars, Client
<1>2. CASE Next
  <2>1. turns' = turns /\ program' = program
    BY <1>2 DEF Next, Call, Reinject, Start, Return, Reopen, ReadNothing, ReadStart, ReadClip,
                ReadAdjust, ReadByte, ReadFault, ReadKeeps, ReadTakes, WriteClip, WriteByte, WriteFault,
                WipeByte, Store, WriteFails, WriteDone, dev
  <2>2. CASE turns
    <3>1. Device!Step \/ UNCHANGED <<seen, f_pos, Client>>
      BY <1>2, <2>2, ClientMaps, ReadMaps, WriteMaps DEF Next
    <3>. QED BY <2>1, <3>1 DEF Device!Next, Device!vars
  <2>3. CASE ~turns
    BY <2>1, <2>3 DEF Device!Next
  <2>. QED BY <2>2, <2>3
<1>. QED BY <1>1, <1>2

\* simple-driver.c and tun_custom_char.c implement the one-packet slot: to
\* programs that take turns every call, copies that fail included, is one step,
\* and vpn_app puts back the packet it took.
THEOREM ImplementsDevice == Spec => DeviceSpec
<1>1. Init => FullInv
  BY InitInv, TurnInit, ReturningInit DEF FullInv
<1>2. FullInv /\ [Next]_vars => FullInv'
  BY NextInv, TurnNext, ReturningNext DEF FullInv
<1>. QED BY <1>1, <1>2, InitMaps, NextMaps, PTL DEF Spec, DeviceSpec, Device!Spec
=============================================================================
