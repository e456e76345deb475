---------------------------- MODULE CryptoProofs ----------------------------
(***************************************************************************)
(* Whatever number of processes race over crypto_buffer and data_size      *)
(* (my_crypto.c has no lock), no store leaves the buffer and data_size     *)
(* stays within it.  The argument: a position and a length are private to  *)
(* the call that checked them, so the check cannot go stale, and data_size *)
(* is only ever set to a position such a check has bounded.  For a process *)
(* that has the device to itself the byte loops implement CryptoFile.      *)
(***************************************************************************)
EXTENDS CryptoBuffer, TLAPS

Where == {"idle", "call", "clip", "adjust", "load", "store", "set", "end", "done"}

Typed ==
  /\ crypto_buffer \in [Offsets -> Byte]
  /\ data_size \in 0..Size
  /\ f_pos \in [Proc -> Nat] /\ len \in [Proc -> Nat]
  /\ pc \in [Proc -> Where]
  /\ op \in [Proc -> Calls \union {NoCall}]
  /\ temp_buf \in [Proc -> Seq(Byte \union {Outside})]

\* What a process has established about its own call when it stands somewhere.
Established(p) ==
  /\ pc[p] # "idle" => op[p] \in Calls
  /\ pc[p] \in {"idle", "call"} => len[p] = 0
  /\ pc[p] \in {"clip", "adjust", "load"} => op[p].kind = "read"
  /\ pc[p] = "store" =>
       /\ temp_buf[p] \in Seq(Byte)
       /\ f_pos[p] + len[p] + Len(temp_buf[p]) <= Size
  /\ pc[p] = "set" => f_pos[p] <= Size
  /\ pc[p] = "done" => len[p] = 0

IInv == Typed /\ \A p \in Proc : Established(p)

\* What the arguments of each kind of call are.
LEMMA CallArguments ==
  ASSUME NEW r \in Calls
  PROVE  /\ r.kind = "read" => r.len \in Nat
         /\ r.kind = "write" => r.buf \in Seq(Byte) /\ Len(r.buf) \in Nat
         /\ r.kind = "seek" => r.offset \in Int /\ r.whence \in Nat
<1>1. CASE r \in [kind : {"read"}, len : ReadLen]
  BY <1>1, CryptoAssumption
<1>2. CASE r \in [kind : {"write"}, buf : Data]
  BY <1>2, CryptoAssumption
<1>3. CASE r \in [kind : {"seek"}, offset : {s[1] : s \in SeekTo}, whence : {s[2] : s \in SeekTo}]
  <2>1. r.kind = "seek" /\ r.offset \in {s[1] : s \in SeekTo} /\ r.whence \in {s[2] : s \in SeekTo}
    BY <1>3
  <2>2. \A s \in SeekTo : s[1] \in Int /\ s[2] \in Nat
    BY CryptoAssumption
  <2>. QED BY <2>1, <2>2
<1>. QED BY <1>1, <1>2, <1>3 DEF Calls

\* crypto_init leaves an empty file of cleared bytes.
LEMMA InitInv == Init => IInv
<1>. SUFFICES ASSUME Init PROVE IInv
  OBVIOUS
<1>1. Typed
  BY CryptoAssumption DEF Init, Typed, Where, Offsets
<1>2. ASSUME NEW p \in Proc PROVE Established(p)
  BY DEF Init, Established
<1>. QED BY <1>1, <1>2 DEF IInv

\* A step of p leaves what the others have established alone.
LEMMA OthersUntouched ==
  ASSUME IInv, NEW p \in Proc, NEW q \in Proc \ {p},
         pc'[q] = pc[q], op'[q] = op[q], len'[q] = len[q],
         f_pos'[q] = f_pos[q], temp_buf'[q] = temp_buf[q]
  PROVE  Established(q)'
BY DEF IInv, Established

\* A call that ends, whatever its result, keeps the invariant.
LEMMA FinishInv ==
  ASSUME IInv, NEW p \in Proc, pc[p] # "idle", NEW v, NEW m \in Seq(Byte \union {Outside}),
         Finish(p, v, m), f_pos' \in [Proc -> Nat],
         \A q \in Proc \ {p} : f_pos'[q] = f_pos[q]
  PROVE  IInv'
<1>1. Typed'
  BY DEF IInv, Typed, Finish, Where
<1>2. Established(p)'
  BY DEF IInv, Typed, Established, Finish
<1>3. ASSUME NEW q \in Proc \ {p} PROVE Established(q)'
  <2>1. /\ pc'[q] = pc[q] /\ op'[q] = op[q] /\ len'[q] = len[q]
        /\ f_pos'[q] = f_pos[q] /\ temp_buf'[q] = temp_buf[q]
    BY DEF IInv, Typed, Finish
  <2>. QED BY <2>1, OthersUntouched
<1>. QED BY <1>1, <1>2, <1>3 DEF IInv

\* A call that fails leaves its position where it was.
LEMMA FailsInv ==
  ASSUME IInv, NEW p \in Proc, pc[p] # "idle", NEW e, Fails(p, e)
  PROVE  IInv'
<1>1. f_pos' \in [Proc -> Nat] /\ \A q \in Proc \ {p} : f_pos'[q] = f_pos[q]
  BY DEF IInv, Typed, Fails
<1>2. Finish(p, -e, <<>>) /\ <<>> \in Seq(Byte \union {Outside})
  BY DEF Fails
<1>. QED BY <1>1, <1>2, FinishInv

\* The start and the end of a call.
LEMMA CallInv ==
  ASSUME IInv, NEW p \in Proc
  PROVE  /\ (\E r \in Calls : Call(p, r)) => IInv'
         /\ Return(p) => IInv'
<1>1. ASSUME NEW r \in Calls, Call(p, r) PROVE IInv'
  <2>1. Typed'
    BY <1>1 DEF IInv, Typed, Call, Where
  <2>2. ASSUME NEW q \in Proc PROVE Established(q)'
    BY <1>1 DEF IInv, Typed, Call, Established
  <2>. QED BY <2>1, <2>2 DEF IInv
<1>2. ASSUME Return(p) PROVE IInv'
  <2>1. Typed'
    BY <1>2 DEF IInv, Typed, Return, Where
  <2>2. ASSUME NEW q \in Proc PROVE Established(q)'
    BY <1>2 DEF IInv, Typed, Return, Established
  <2>. QED BY <2>1, <2>2 DEF IInv
<1>. QED BY <1>1, <1>2

\* The buffer of a read, of any length.
LEMMA AllocateInv ==
  ASSUME IInv, NEW p \in Proc, pc[p] \in {"clip", "adjust"}, NEW n \in Nat, Allocate(p, n)
  PROVE  IInv'
<1>1. CASE \E e \in {ENOMEM} : Fails(p, e)
  BY <1>1, FailsInv
<1>2. CASE /\ len' = [len EXCEPT ![p] = n]
           /\ Advance(p, "load")
           /\ UNCHANGED <<crypto_buffer, data_size, f_pos, op, temp_buf, ret>>
  <2>1. Typed'
    BY <1>2 DEF IInv, Typed, Advance, Where
  <2>2. ASSUME NEW q \in Proc PROVE Established(q)'
    BY <1>2 DEF IInv, Typed, Advance, Established
  <2>. QED BY <2>1, <2>2 DEF IInv
<1>. QED BY <1>1, <1>2 DEF Allocate

\* A read: its position may pass data_size, and even Size, when it races.
LEMMA ReadInv ==
  ASSUME IInv, NEW p \in Proc,
         \/ ReadAtEnd(p) \/ ReadStart(p) \/ ReadClip(p) \/ ReadAdjust(p)
         \/ ReadLoad(p) \/ ReadEnd(p)
  PROVE  IInv'
<1>1. CASE ReadAtEnd(p)
  <2>1. /\ f_pos' \in [Proc -> Nat] /\ \A q \in Proc \ {p} : f_pos'[q] = f_pos[q]
        /\ pc[p] # "idle" /\ Finish(p, 0, <<>>) /\ <<>> \in Seq(Byte \union {Outside})
    BY <1>1 DEF IInv, Typed, ReadAtEnd, At
  <2>. QED BY <2>1, FinishInv
<1>2. CASE ReadStart(p)
  <2>1. Typed'
    BY <1>2 DEF IInv, Typed, ReadStart, Advance, Where
  <2>2. ASSUME NEW q \in Proc PROVE Established(q)'
    BY <1>2 DEF IInv, Typed, ReadStart, At, Advance, Established
  <2>. QED BY <2>1, <2>2 DEF IInv
<1>3. CASE ReadClip(p)
  <2>1. pc[p] = "clip" /\ op[p] \in Calls /\ op[p].kind = "read"
    BY <1>3 DEF ReadClip, IInv, Established
  <2>2. op[p].len \in Nat
    BY <2>1, CallArguments
  <2>3. CASE Allocate(p, op[p].len)
    BY <2>1, <2>2, <2>3, AllocateInv
  <2>4. CASE /\ Advance(p, "adjust")
             /\ UNCHANGED <<crypto_buffer, data_size, f_pos, op, len, temp_buf, ret>>
    <3>1. Typed'
      BY <2>4 DEF IInv, Typed, Advance, Where
    <3>2. ASSUME NEW q \in Proc PROVE Established(q)'
      BY <2>1, <2>4 DEF IInv, Typed, Advance, Established
    <3>. QED BY <3>1, <3>2 DEF IInv
  <2>. QED BY <1>3, <2>3, <2>4 DEF ReadClip
<1>6. CASE ReadAdjust(p)
  <2>1. pc[p] = "adjust"
    BY <1>6 DEF ReadAdjust
  <2>2. CASE \E e \in {ENOMEM} : Fails(p, e)
    BY <2>1, <2>2, FailsInv
  <2>3. CASE data_size >= f_pos[p] /\ Allocate(p, data_size - f_pos[p])
    <3>1. data_size - f_pos[p] \in Nat
      BY <2>3, CryptoAssumption DEF IInv, Typed
    <3>. QED BY <2>1, <2>3, <3>1, AllocateInv
  <2>. QED BY <1>6, <2>2, <2>3 DEF ReadAdjust
<1>4. CASE ReadLoad(p)
  <2>. DEFINE o == f_pos[p] + Len(temp_buf[p])
              b == IF o \in Offsets THEN ByteXor(crypto_buffer[o], Key) ELSE Outside
  <2>1. b \in Byte \union {Outside}
    BY CryptoAssumption DEF IInv, Typed
  <2>2. /\ pc[p] = "load" /\ temp_buf' = [temp_buf EXCEPT ![p] = Append(@, b)]
        /\ UNCHANGED <<crypto_buffer, data_size, f_pos, pc, op, len, ret>>
    BY <1>4 DEF ReadLoad
  <2>. HIDE DEF b
  <2>3. Typed'
    BY <2>1, <2>2 DEF IInv, Typed
  <2>4. ASSUME NEW q \in Proc PROVE Established(q)'
    BY <2>2 DEF IInv, Typed, Established
  <2>. QED BY <2>3, <2>4 DEF IInv
<1>5. CASE ReadEnd(p)
  <2>1. pc[p] = "load"
    BY <1>5 DEF ReadEnd
  <2>2. CASE \E e \in {EFAULT} : Fails(p, e)
    BY <2>1, <2>2, FailsInv
  <2>3. CASE Finish(p, len[p], temp_buf[p]) /\ f_pos' = [f_pos EXCEPT ![p] = @ + len[p]]
    <3>1. /\ f_pos' \in [Proc -> Nat] /\ \A q \in Proc \ {p} : f_pos'[q] = f_pos[q]
          /\ pc[p] # "idle" /\ temp_buf[p] \in Seq(Byte \union {Outside})
      BY <2>1, <2>3 DEF IInv, Typed
    <3>. QED BY <2>3, <3>1, FinishInv
  <2>. QED BY <1>5, <2>2, <2>3 DEF ReadEnd
<1>. QED BY <1>1, <1>2, <1>3, <1>4, <1>5, <1>6

\* A write that passed its check, with the bytes of the user in temp_buf.
LEMMA StoreInv ==
  ASSUME IInv, NEW p \in Proc, pc[p] = "call", op[p].kind = "write",
         f_pos[p] + Len(op[p].buf) <= Size,
         temp_buf' = [temp_buf EXCEPT ![p] = op[p].buf], Advance(p, "store"),
         UNCHANGED <<crypto_buffer, data_size, f_pos, op, len, ret>>
  PROVE  IInv'
<1>1. op[p].buf \in Seq(Byte) /\ len[p] = 0 /\ f_pos[p] \in Nat
  BY CallArguments DEF IInv, Typed, Established
<1>2. op[p].buf \in Seq(Byte \union {Outside})
  BY <1>1
<1>3. Typed'
  BY <1>2 DEF IInv, Typed, Advance, Where
<1>4. Established(p)'
  BY <1>1 DEF IInv, Typed, Advance, Established
<1>5. ASSUME NEW q \in Proc \ {p} PROVE Established(q)'
  <2>1. /\ pc'[q] = pc[q] /\ op'[q] = op[q] /\ len'[q] = len[q]
        /\ f_pos'[q] = f_pos[q] /\ temp_buf'[q] = temp_buf[q]
    BY DEF IInv, Typed, Advance
  <2>. QED BY <2>1, OthersUntouched
<1>. QED BY <1>3, <1>4, <1>5 DEF IInv

\* A write: every store it makes was bounded by its own check.
LEMMA WriteInv ==
  ASSUME IInv, NEW p \in Proc,
         \/ WriteTooBig(p) \/ WriteStart(p) \/ WriteStore(p) \/ WriteCompare(p)
         \/ WriteSetSize(p) \/ WriteEnd(p)
  PROVE  IInv'
<1>1. CASE WriteTooBig(p)
  BY <1>1, FailsInv DEF WriteTooBig, At
<1>2. CASE WriteStart(p)
  <2>1. pc[p] = "call" /\ op[p].kind = "write" /\ f_pos[p] + Len(op[p].buf) <= Size
    BY <1>2 DEF WriteStart, At
  <2>2. CASE \E e \in {ENOMEM, EFAULT} : Fails(p, e)
    BY <2>1, <2>2, FailsInv
  <2>3. CASE /\ temp_buf' = [temp_buf EXCEPT ![p] = op[p].buf]
             /\ Advance(p, "store")
             /\ UNCHANGED <<crypto_buffer, data_size, f_pos, op, len, ret>>
    BY <2>1, <2>3, StoreInv
  <2>. QED BY <1>2, <2>2, <2>3 DEF WriteStart
<1>3. CASE WriteStore(p)
  <2>1. /\ pc[p] = "store" /\ temp_buf[p] # <<>> /\ temp_buf[p] \in Seq(Byte)
        /\ f_pos[p] + len[p] + Len(temp_buf[p]) <= Size
        /\ f_pos[p] \in Nat /\ len[p] \in Nat
    BY <1>3 DEF WriteStore, IInv, Typed, Established
  <2>2. /\ Head(temp_buf[p]) \in Byte /\ Tail(temp_buf[p]) \in Seq(Byte)
        /\ Len(Tail(temp_buf[p])) = Len(temp_buf[p]) - 1 /\ Len(temp_buf[p]) \in Nat \ {0}
    BY <2>1
  <2>3. f_pos[p] + len[p] \in Offsets
    BY <2>1, <2>2, CryptoAssumption DEF Offsets
  <2>4. ByteXor(Head(temp_buf[p]), Key) \in Byte /\ Tail(temp_buf[p]) \in Seq(Byte \union {Outside})
    BY <2>2, CryptoAssumption
  <2>. DEFINE o == f_pos[p] + len[p]
              b == ByteXor(Head(temp_buf[p]), Key)
              left == Tail(temp_buf[p])
  <2>5. /\ crypto_buffer' = [crypto_buffer EXCEPT ![o] = b]
        /\ temp_buf' = [temp_buf EXCEPT ![p] = left]
        /\ len' = [len EXCEPT ![p] = len[p] + 1]
        /\ UNCHANGED <<data_size, f_pos, pc, op, ret>>
    BY <1>3 DEF WriteStore
  <2>6. /\ b \in Byte /\ left \in Seq(Byte) /\ left \in Seq(Byte \union {Outside})
        /\ f_pos[p] + (len[p] + 1) + Len(left) <= Size
    BY <2>1, <2>2, <2>4, CryptoAssumption
  <2>. HIDE DEF o, b, left
  <2>7. Typed'
    <3>1. crypto_buffer' \in [Offsets -> Byte]
      BY <2>5, <2>6 DEF IInv, Typed
    <3>2. temp_buf' \in [Proc -> Seq(Byte \union {Outside})]
      BY <2>5, <2>6 DEF IInv, Typed
    <3>3. len' \in [Proc -> Nat]
      BY <2>1, <2>5 DEF IInv, Typed
    <3>. QED BY <2>5, <3>1, <3>2, <3>3 DEF IInv, Typed
  <2>8. Established(p)'
    BY <2>1, <2>5, <2>6 DEF IInv, Typed, Established
  <2>9. ASSUME NEW q \in Proc \ {p} PROVE Established(q)'
    <3>1. /\ pc'[q] = pc[q] /\ op'[q] = op[q] /\ len'[q] = len[q]
          /\ f_pos'[q] = f_pos[q] /\ temp_buf'[q] = temp_buf[q]
      BY <1>3 DEF IInv, Typed, WriteStore
    <3>. QED BY <3>1, OthersUntouched
  <2>. QED BY <2>7, <2>8, <2>9 DEF IInv
<1>4. CASE WriteCompare(p)
  <2>1. /\ pc[p] = "store" /\ temp_buf[p] = <<>> /\ op[p] \in Calls
        /\ f_pos[p] + len[p] + Len(temp_buf[p]) <= Size
        /\ f_pos[p] \in Nat /\ len[p] \in Nat /\ Len(temp_buf[p]) = 0
    BY <1>4 DEF WriteCompare, IInv, Typed, Established
  <2>2. /\ f_pos' = [f_pos EXCEPT ![p] = f_pos[p] + len[p]]
        /\ \E w \in {"set", "end"} : pc' = [pc EXCEPT ![p] = w]
        /\ UNCHANGED <<crypto_buffer, data_size, op, len, temp_buf, ret>>
    BY <1>4 DEF WriteCompare, Advance
  <2>3. Typed'
    BY <2>1, <2>2 DEF IInv, Typed, Where
  <2>4. Established(p)'
    BY <2>1, <2>2 DEF IInv, Typed, Established
  <2>5. ASSUME NEW q \in Proc \ {p} PROVE Established(q)'
    <3>1. /\ pc'[q] = pc[q] /\ op'[q] = op[q] /\ len'[q] = len[q]
          /\ f_pos'[q] = f_pos[q] /\ temp_buf'[q] = temp_buf[q]
      BY <2>2 DEF IInv, Typed
    <3>. QED BY <3>1, OthersUntouched
  <2>. QED BY <2>3, <2>4, <2>5 DEF IInv
<1>5. CASE WriteSetSize(p)
  <2>1. f_pos[p] \in 0..Size
    BY <1>5, CryptoAssumption DEF WriteSetSize, IInv, Typed, Established
  <2>2. Typed'
    BY <1>5, <2>1 DEF IInv, Typed, WriteSetSize, Advance, Where
  <2>3. ASSUME NEW q \in Proc PROVE Established(q)'
    BY <1>5 DEF IInv, Typed, WriteSetSize, Advance, Established
  <2>. QED BY <2>2, <2>3 DEF IInv
<1>6. CASE WriteEnd(p)
  <2>1. /\ f_pos' \in [Proc -> Nat] /\ \A q \in Proc \ {p} : f_pos'[q] = f_pos[q]
        /\ pc[p] # "idle" /\ Finish(p, Len(op[p].buf), <<>>)
        /\ <<>> \in Seq(Byte \union {Outside})
    BY <1>6 DEF IInv, Typed, WriteEnd
  <2>. QED BY <2>1, FinishInv
<1>. QED BY <1>1, <1>2, <1>3, <1>4, <1>5, <1>6

\* A seek checks both ends before it moves the position.
LEMMA SeekInv ==
  ASSUME IInv, NEW p \in Proc, Seek(p)
  PROVE  IInv'
<1>1. pc[p] # "idle" /\ op[p] \in Calls /\ op[p].kind = "seek"
  BY DEF Seek, At, IInv, Established
<1>2. CASE SeekAllowed(p)
  <2>1. NewPos(p) \in Nat
    <3>1. op[p].offset \in Int /\ f_pos[p] \in Nat /\ data_size \in Nat
      BY <1>1, CallArguments, CryptoAssumption DEF IInv, Typed
    <3>2. NewPos(p) \in Int
      BY <3>1 DEF NewPos
    <3>. QED BY <1>2, <3>2 DEF SeekAllowed
  <2>2. Finish(p, NewPos(p), <<>>) /\ f_pos' = [f_pos EXCEPT ![p] = NewPos(p)]
    BY <1>2 DEF Seek
  <2>3. /\ f_pos' \in [Proc -> Nat] /\ \A q \in Proc \ {p} : f_pos'[q] = f_pos[q]
        /\ <<>> \in Seq(Byte \union {Outside})
    BY <2>1, <2>2 DEF IInv, Typed
  <2>. QED BY <1>1, <2>2, <2>3, FinishInv
<1>3. CASE ~SeekAllowed(p)
  BY <1>1, <1>3, FailsInv DEF Seek
<1>. QED BY <1>2, <1>3

\* Every step of every process keeps the invariant.
LEMMA NextInv == IInv /\ [Next]_vars => IInv'
<1>. SUFFICES ASSUME IInv, [Next]_vars PROVE IInv'
  OBVIOUS
<1>1. CASE Next
  <2>1. PICK p \in Proc :
          \/ \E r \in Calls : Call(p, r)
          \/ ReadAtEnd(p) \/ ReadStart(p) \/ ReadClip(p) \/ ReadAdjust(p)
          \/ ReadLoad(p) \/ ReadEnd(p)
          \/ WriteTooBig(p) \/ WriteStart(p) \/ WriteStore(p) \/ WriteCompare(p)
          \/ WriteSetSize(p) \/ WriteEnd(p)
          \/ Seek(p) \/ Return(p)
    BY <1>1 DEF Next
  <2>. QED BY <2>1, CallInv, ReadInv, WriteInv, SeekInv
<1>2. CASE UNCHANGED vars
  BY <1>2 DEF vars, IInv, Typed, Established
<1>. QED BY <1>1, <1>2

\* Every reachable state satisfies it, for any number of processes without a lock.
THEOREM Invariance == Spec => []IInv
BY InitInv, NextInv, PTL DEF Spec

\* "prevent overflow" (my_crypto.c:163): no store of dev_write leaves the buffer.
THEOREM StoresInBounds == Spec => []WritesInBounds
<1>1. IInv => WritesInBounds
  BY DEF IInv, Established, WritesInBounds
<1>. QED BY <1>1, Invariance, PTL

\* data_size, set without a lock (my_crypto.c:192), stays within the buffer.
THEOREM TypeCorrect == Spec => []TypeOK
<1>1. IInv => TypeOK
  BY DEF IInv, Typed, Established, TypeOK
<1>. QED BY <1>1, Invariance, PTL

\* What is left of the length of a read that nobody disturbs.
Clipped(p) == IF Exceeds(p) THEN data_size - f_pos[p] ELSE op[p].len

\* A process that has the device to itself also keeps what it found: nobody else
\* changes data_size between its comparison, its assignment and its answer.
Kept(p) ==
  /\ pc[p] \in {"clip", "adjust"} => f_pos[p] < data_size
  /\ pc[p] = "adjust" => Exceeds(p)
  /\ pc[p] = "load" => f_pos[p] + len[p] <= data_size
  /\ pc[p] \in {"store", "set", "end"} => op[p].kind = "write"
  /\ pc[p] = "end" => f_pos[p] <= data_size
  /\ pc[p] = "done" /\ op[p].kind = "write" /\ ret[p] >= 0 => f_pos[p] <= data_size

KInv == IInv /\ ret = [p \in Proc |-> ret[p]] /\ \A p \in Proc : Kept(p)

\* A call that fails, and a call that does not write, promise nothing more.
LEMMA EndsKept ==
  ASSUME KInv, NEW p \in Proc, NEW v, NEW m, Finish(p, v, m),
         op[p].kind = "write" => ~(v >= 0)
  PROVE  Kept(p)' /\ ret' = [q \in Proc |-> ret'[q]]
<1>1. pc'[p] = "done" /\ op'[p] = op[p] /\ ret'[p] = v
  BY DEF Finish, KInv, IInv, Typed
<1>2. ret' = [q \in Proc |-> ret'[q]]
  BY DEF Finish, KInv
<1>. QED BY <1>1, <1>2 DEF Kept

\* Each step of the only process keeps what it found; nobody is there to undo it.
LEMMA AloneStep ==
  ASSUME NEW p, Proc = {p}, KInv, [Next]_vars
  PROVE  Kept(p)' /\ ret' = [q \in Proc |-> ret'[q]]
<1>. p \in Proc
  OBVIOUS
<1>. USE DEF KInv, IInv, Typed
<1>f. ASSUME NEW e \in {ENOMEM, EFAULT, EINVAL, EFBIG}, Fails(p, e)
      PROVE  Kept(p)' /\ ret' = [q \in Proc |-> ret'[q]]
  <2>1. ~(-e >= 0)
    BY DEF ENOMEM, EFAULT, EINVAL, EFBIG
  <2>. QED BY <1>f, <2>1, EndsKept DEF Fails
<1>1. ASSUME NEW r \in Calls, Call(p, r) PROVE Kept(p)' /\ ret' = [q \in Proc |-> ret'[q]]
  BY <1>1 DEF Call, Kept
<1>2. CASE Return(p)
  <2>1. pc'[p] = "idle" /\ ret' = [q \in Proc |-> ret'[q]]
    BY <1>2 DEF Return
  <2>. QED BY <2>1 DEF Kept
<1>3. CASE ReadAtEnd(p)
  BY <1>3, EndsKept DEF ReadAtEnd, At
<1>4. CASE ReadStart(p)
  BY <1>4 DEF ReadStart, At, Advance, Kept
<1>a. ASSUME NEW n \in Nat, f_pos[p] + n <= data_size, Allocate(p, n)
      PROVE  Kept(p)' /\ ret' = [q \in Proc |-> ret'[q]]
  <2>1. CASE Fails(p, ENOMEM)
    BY <2>1, <1>f
  <2>2. ASSUME len' = [len EXCEPT ![p] = n], Advance(p, "load"),
               UNCHANGED <<crypto_buffer, data_size, f_pos, op, temp_buf, ret>>
        PROVE  Kept(p)' /\ ret' = [q \in Proc |-> ret'[q]]
    BY <1>a, <2>2 DEF Advance, Kept
  <2>. QED BY <1>a, <2>1, <2>2 DEF Allocate
<1>5. CASE ReadClip(p)
  <2>1. pc[p] = "clip" /\ op[p] \in Calls /\ op[p].kind = "read" /\ f_pos[p] < data_size
    BY <1>5 DEF ReadClip, Established, Kept
  <2>2. op[p].len \in Nat /\ f_pos[p] \in Nat /\ data_size \in Nat
    BY <2>1, CallArguments, CryptoAssumption
  <2>3. CASE Exceeds(p) /\ Advance(p, "adjust")
             /\ UNCHANGED <<crypto_buffer, data_size, f_pos, op, len, temp_buf, ret>>
    BY <2>1, <2>3 DEF Advance, Kept, Exceeds
  <2>4. CASE ~Exceeds(p) /\ Allocate(p, op[p].len)
    <3>1. f_pos[p] + op[p].len <= data_size
      BY <2>1, <2>2, <2>4 DEF Exceeds
    <3>. QED BY <1>a, <2>2, <2>4, <3>1
  <2>. QED BY <1>5, <2>3, <2>4 DEF ReadClip
<1>r. CASE ReadAdjust(p)
  <2>1. pc[p] = "adjust" /\ f_pos[p] < data_size /\ f_pos[p] \in Nat /\ data_size \in Nat
    BY <1>r, CryptoAssumption DEF ReadAdjust, Kept
  <2>2. Allocate(p, data_size - f_pos[p])
    BY <1>r, <2>1 DEF ReadAdjust
  <2>3. data_size - f_pos[p] \in Nat /\ f_pos[p] + (data_size - f_pos[p]) <= data_size
    BY <2>1
  <2>. QED BY <1>a, <2>2, <2>3
<1>6. CASE ReadLoad(p)
  BY <1>6 DEF ReadLoad, Kept
<1>7. CASE ReadEnd(p)
  <2>1. op[p].kind = "read"
    BY <1>7 DEF ReadEnd, Established
  <2>. QED BY <1>7, <2>1, <1>f, EndsKept DEF ReadEnd
<1>8. CASE WriteTooBig(p)
  BY <1>8, <1>f DEF WriteTooBig
<1>9. CASE WriteStart(p)
  BY <1>9, <1>f DEF WriteStart, At, Advance, Kept
<1>10. CASE WriteStore(p)
  BY <1>10 DEF WriteStore, Kept
<1>11. CASE WriteCompare(p)
  BY <1>11 DEF WriteCompare, Advance, Kept
<1>12. CASE WriteSetSize(p)
  BY <1>12 DEF WriteSetSize, Advance, Kept
<1>13. CASE WriteEnd(p)
  BY <1>13 DEF WriteEnd, Finish, Kept
<1>14. CASE Seek(p)
  BY <1>14, <1>f, EndsKept DEF Seek, At
<1>15. CASE UNCHANGED vars
  BY <1>15 DEF vars, Kept, Exceeds
<1>. QED BY <1>1, <1>2, <1>3, <1>4, <1>5, <1>6, <1>7, <1>8, <1>9, <1>10, <1>11, <1>12, <1>13,
            <1>14, <1>15, <1>r DEF Next

\* So every reachable state of a process alone satisfies it.
LEMMA AloneInvariance == ASSUME NEW p, Proc = {p} PROVE Spec => []KInv
<1>1. Init => KInv
  BY InitInv DEF Init, KInv, Kept
<1>2. KInv /\ [Next]_vars => KInv'
  BY NextInv, AloneStep DEF KInv
<1>. QED BY <1>1, <1>2, PTL DEF Spec

\* A process with the device to itself reads no further than the data: "adjust read
\* length if exceeding available data" (my_crypto.c:131).
THEOREM AloneReadsWithinData == ASSUME NEW p, Proc = {p} PROVE Spec => []ReadsWithinData
<1>1. KInv => ReadsWithinData
  BY DEF KInv, Kept, ReadsWithinData
<1>. QED BY <1>1, AloneInvariance, PTL

\* And what it wrote, at whatever position, it can read back once the write has
\* returned; two processes cannot rely on it (CryptoLost.cfg).
THEOREM AloneWritesReadable == ASSUME NEW p, Proc = {p} PROVE Spec => []CompletedWritesReadable
<1>1. KInv => CompletedWritesReadable
  BY DEF KInv, IInv, Typed, Kept, CompletedWritesReadable
<1>. QED BY <1>1, AloneInvariance, PTL
-----------------------------------------------------------------------------
(* The calls of a process that has the device to itself are steps of the   *)
(* file CryptoFile.  A write happens when its check is done and the bytes  *)
(* of the user are in temp_buf, a read when its last byte is loaded.       *)

\* What a read has decrypted is what the buffer holds; nothing else is under way.
Alone(p) ==
  /\ pc[p] \in {"idle", "call", "clip", "adjust"} => temp_buf[p] = <<>>
  /\ pc[p] = "load" =>
       /\ f_pos[p] < data_size /\ len[p] = Clipped(p) /\ Len(temp_buf[p]) <= len[p]
       /\ \A k \in 1..Len(temp_buf[p]) :
            temp_buf[p][k] = ByteXor(crypto_buffer[f_pos[p] + k - 1], Key)
  /\ pc[p] = "set" => f_pos[p] > data_size

FInv == KInv /\ \A p \in Proc : Alone(p)

\* The file as one process at a given place of its call makes it.
Content(b, at, pos, n, t) ==
  [o \in Offsets |->
     IF at = "store" /\ o \in (pos + n)..(pos + n + Len(t) - 1)
       THEN t[o - pos - n + 1] ELSE ByteXor(b[o], Key)]
Position(at, pos, n, t) == pos + IF at = "store" THEN n + Len(t) ELSE 0
Longest(at, e, d) == IF at \in {"store", "set"} /\ e > d THEN e ELSE d
Seen(at, call, value, memory) ==
  CASE at = "idle" -> File!Idle
    [] at \in {"call", "clip", "adjust", "load"} -> call
    [] at \in {"store", "set", "end"} -> File!Result(Len(call.buf), <<>>)
    [] at = "done" -> File!Result(value, memory)
One(x) == [q \in Proc |-> x]

\* The largest of one or two numbers.
LEMMA LargestOf ==
  ASSUME NEW d \in Int, NEW e \in Int
  PROVE  /\ (CHOOSE n \in {d} \union {e} : \A m \in {d} \union {e} : m <= n)
              = IF e > d THEN e ELSE d
         /\ (CHOOSE n \in {d} \union {} : \A m \in {d} \union {} : m <= n) = d
<1>. DEFINE largest == IF e > d THEN e ELSE d
            IsLargest(n) == n \in {d} \union {e} /\ \A m \in {d} \union {e} : m <= n
<1>1. IsLargest(largest) /\ \A n : IsLargest(n) => n = largest
  OBVIOUS
<1>2. (CHOOSE n \in {d} \union {e} : \A m \in {d} \union {e} : m <= n) = largest
  BY <1>1
<1>3. (CHOOSE n \in {d} \union {} : \A m \in {d} \union {} : m <= n) = d
  OBVIOUS
<1>. QED BY <1>2, <1>3

\* The four variables of the file.
Positions == [q \in Proc |-> WriteEndsAt(q)]
Shaped(p) ==
  /\ FileContent = Content(crypto_buffer, pc[p], f_pos[p], len[p], temp_buf[p])
  /\ FileSize = Longest(pc[p], Position(pc[p], f_pos[p], len[p], temp_buf[p]), data_size)
  /\ FileClient = One(Seen(pc[p], op[p], ret[p], temp_buf[p]))
  /\ Positions = One(Position(pc[p], f_pos[p], len[p], temp_buf[p]))

\* For a process alone the mapping reads off one process: the CHOOSE in FileContent
\* and the functions over Proc become values of p.
LEMMA FileShape == ASSUME NEW p, Proc = {p}, IInv PROVE Shaped(p)
<1>1. /\ f_pos[p] \in Nat /\ len[p] \in Nat /\ Len(temp_buf[p]) \in Nat /\ data_size \in Nat
  BY CryptoAssumption DEF IInv, Typed
<1>2. WriteEndsAt(p) = Position(pc[p], f_pos[p], len[p], temp_buf[p])
  BY DEF WriteEndsAt, Position
<1>3. Position(pc[p], f_pos[p], len[p], temp_buf[p]) \in Int
  BY <1>1 DEF Position
<1>4. FileContent = Content(crypto_buffer, pc[p], f_pos[p], len[p], temp_buf[p])
  <2>1. pc[p] = "store" => (CHOOSE q \in Proc : pc[q] = "store") = p
    OBVIOUS
  <2>2. pc[p] = "store" => WriteEndsAt(p) = f_pos[p] + len[p] + Len(temp_buf[p])
    BY <1>1 DEF WriteEndsAt
  <2>3. CASE pc[p] = "store"
    <3>. DEFINE left == (f_pos[p] + len[p])..(f_pos[p] + len[p] + Len(temp_buf[p]) - 1)
    <3>1. FileContent =
            [o \in Offsets |-> IF o \in left THEN temp_buf[p][o - f_pos[p] - len[p] + 1]
                                              ELSE ByteXor(crypto_buffer[o], Key)]
      <4>. DEFINE Written(o) == \E q \in Proc :
                    pc[q] = "store" /\ o \in (f_pos[q] + len[q])..(WriteEndsAt(q) - 1)
                  writer == CHOOSE q \in Proc : pc[q] = "store"
      <4>1. \A o \in Offsets : Written(o) <=> o \in left
        <5>1. \A o : Written(o) <=>
                pc[p] = "store" /\ o \in (f_pos[p] + len[p])..(WriteEndsAt(p) - 1)
          OBVIOUS
        <5>2. (f_pos[p] + len[p])..(WriteEndsAt(p) - 1) = left
          <6>1. WriteEndsAt(p) = f_pos[p] + len[p] + Len(temp_buf[p])
            BY <2>2, <2>3
          <6>. QED BY <1>1, <6>1
        <5>. HIDE DEF Written, left
        <5>. QED BY <2>3, <5>1, <5>2
      <4>2. FileContent =
              [o \in Offsets |-> IF Written(o) THEN temp_buf[writer][o - f_pos[writer] - len[writer] + 1]
                                               ELSE ByteXor(crypto_buffer[o], Key)]
        BY DEF FileContent
      <4>3. writer = p
        BY <2>1, <2>3
      <4>. HIDE DEF Written, writer, left
      <4>. QED BY <4>1, <4>2, <4>3
    <3>. QED BY <2>3, <3>1 DEF Content
  <2>4. CASE pc[p] # "store"
    BY <2>4 DEF FileContent, Content
  <2>. QED BY <2>3, <2>4
<1>5. FileSize = Longest(pc[p], Position(pc[p], f_pos[p], len[p], temp_buf[p]), data_size)
  <2>. DEFINE e == Position(pc[p], f_pos[p], len[p], temp_buf[p])
              ends == {WriteEndsAt(q) : q \in {x \in Proc : pc[x] \in {"store", "set"}}}
  <2>1. ends = IF pc[p] \in {"store", "set"} THEN {e} ELSE {}
    BY <1>2
  <2>2. FileSize = CHOOSE n \in {data_size} \union ends : \A m \in {data_size} \union ends : m <= n
    BY DEF FileSize
  <2>. HIDE DEF e, ends
  <2>3. e \in Int /\ data_size \in Int
    BY <1>1, <1>3 DEF e
  <2>4. CASE pc[p] \in {"store", "set"}
    <3>1. ends = {e}
      BY <2>1, <2>4
    <3>. QED BY <2>2, <2>3, <2>4, <3>1, LargestOf DEF Longest, e
  <2>5. CASE pc[p] \notin {"store", "set"}
    <3>1. ends = {}
      BY <2>1, <2>5
    <3>. QED BY <2>2, <2>3, <2>5, <3>1, LargestOf DEF Longest
  <2>. QED BY <2>4, <2>5
<1>6. FileClient = One(Seen(pc[p], op[p], ret[p], temp_buf[p]))
  <2>1. FileClient = [q \in Proc |-> Seen(pc[q], op[q], ret[q], temp_buf[q])]
    BY DEF FileClient, Seen, File!Idle, File!Result
  <2>2. \A q \in Proc : q = p
    OBVIOUS
  <2>. QED BY <2>1, <2>2 DEF One
<1>. QED BY <1>2, <1>4, <1>5, <1>6 DEF One, Positions, Shaped
\* The bytes of the buffer, decrypted.
Plain(b) == [o \in Offsets |-> ByteXor(b[o], Key)]

\* A step of the process as the file sees it: the file before and after.
Step(p) ==
  /\ Proc = {p} /\ FInv /\ IInv' /\ Shaped(p) /\ Shaped(p)'

\* Outside a write the file is what the buffer and data_size say.
LEMMA Resting ==
  ASSUME NEW p, Step(p)
  PROVE  /\ p \in Proc
         /\ f_pos[p] \in Nat /\ f_pos'[p] \in Nat /\ len[p] \in Nat /\ data_size \in 0..Size
         /\ data_size \in Nat /\ data_size' \in Nat
         /\ pc[p] # "store" => FileContent = Plain(crypto_buffer) /\ Positions = One(f_pos[p])
         /\ pc'[p] # "store" => FileContent' = Plain(crypto_buffer') /\ Positions' = One(f_pos'[p])
         /\ pc[p] \notin {"store", "set"} => FileSize = data_size
         /\ pc'[p] \notin {"store", "set"} => FileSize' = data_size'
<1>1. /\ p \in Proc /\ f_pos[p] \in Nat /\ f_pos'[p] \in Nat /\ len[p] \in Nat
      /\ data_size \in 0..Size /\ data_size \in Nat /\ data_size' \in Nat
  BY CryptoAssumption DEF Step, FInv, KInv, IInv, Typed
<1>2. ASSUME NEW at, at # "store", NEW b, NEW pos \in Nat, NEW n, NEW t
      PROVE  Content(b, at, pos, n, t) = Plain(b) /\ Position(at, pos, n, t) = pos
  BY <1>2 DEF Content, Plain, Position
<1>3. ASSUME NEW at, at \notin {"store", "set"}, NEW e, NEW d PROVE Longest(at, e, d) = d
  BY <1>3 DEF Longest
<1>. QED BY <1>1, <1>2, <1>3 DEF Step, Shaped

\* What the client of each place is.
LEMMA SeenAs ==
  ASSUME NEW r, NEW v, NEW m
  PROVE  /\ Seen("idle", r, v, m) = File!Idle
         /\ Seen("call", r, v, m) = r /\ Seen("clip", r, v, m) = r
         /\ Seen("adjust", r, v, m) = r /\ Seen("load", r, v, m) = r
         /\ Seen("store", r, v, m) = File!Result(Len(r.buf), <<>>)
         /\ Seen("set", r, v, m) = File!Result(Len(r.buf), <<>>)
         /\ Seen("end", r, v, m) = File!Result(Len(r.buf), <<>>)
         /\ Seen("done", r, v, m) = File!Result(v, m)
BY DEF Seen

\* With one process a function of the processes is one value.
LEMMA OneChange ==
  ASSUME NEW p, Proc = {p}, NEW x, NEW y
  PROVE  One(x)[p] = x /\ [One(x) EXCEPT ![p] = y] = One(y)
BY DEF One

\* A call that waits and then shows its result is answered.
LEMMA Answering ==
  ASSUME NEW p, Step(p), pc[p] \in {"call", "clip", "adjust", "load"}, NEW v, NEW m,
         Seen(pc'[p], op'[p], ret'[p], temp_buf'[p]) = File!Result(v, m)
  PROVE  FileClient[p] = op[p] /\ File!Answer(p, v, m)
<1>1. FileClient = One(op[p]) /\ FileClient' = One(File!Result(v, m))
  BY SeenAs DEF Step, Shaped
<1>. QED BY <1>1, OneChange DEF Step, File!Answer

\* What Finish leaves.
LEMMA Finished ==
  ASSUME NEW p, Step(p), NEW v, NEW m, Finish(p, v, m)
  PROVE  /\ pc'[p] = "done" /\ Alone(p)' /\ UNCHANGED <<crypto_buffer, data_size, op>>
         /\ Seen(pc'[p], op'[p], ret'[p], temp_buf'[p]) = File!Result(v, m)
<1>1. /\ pc'[p] = "done" /\ temp_buf'[p] = m /\ ret'[p] = v
      /\ UNCHANGED <<crypto_buffer, data_size, op>>
  BY DEF Step, FInv, KInv, IInv, Typed, Finish
<1>. QED BY <1>1, SeenAs DEF Alone

\* No memory, or a failed copy, before anything was stored.
LEMMA FailsMaps ==
  ASSUME NEW p, Step(p), NEW e, Fails(p, e), pc[p] \in {"call", "clip", "adjust", "load"}
  PROVE  /\ Alone(p)' /\ FileClient[p] = op[p] /\ File!Answer(p, -e, <<>>)
         /\ UNCHANGED <<FileContent, FileSize, Positions>>
<1>1. Finish(p, -e, <<>>) /\ f_pos' = f_pos
  BY DEF Fails
<1>2. /\ pc'[p] = "done" /\ Alone(p)' /\ UNCHANGED <<crypto_buffer, data_size, op>>
      /\ Seen(pc'[p], op'[p], ret'[p], temp_buf'[p]) = File!Result(-e, <<>>)
  BY <1>1, Finished
<1>3. FileClient[p] = op[p] /\ File!Answer(p, -e, <<>>)
  BY <1>2, Answering
<1>. QED BY <1>1, <1>2, <1>3, Resting

\* The call and its return.
LEMMA CallMaps ==
  ASSUME NEW p, Step(p), NEW r \in Calls, Call(p, r)
  PROVE  Alone(p)' /\ File!Call(p, r)
<1>1. /\ pc[p] = "idle" /\ pc'[p] = "call" /\ op'[p] = r
      /\ UNCHANGED <<crypto_buffer, data_size, f_pos, temp_buf>>
  BY DEF Step, FInv, KInv, IInv, Typed, Call
<1>2. FileClient = One(File!Idle) /\ FileClient' = One(r)
  BY <1>1, SeenAs DEF Step, Shaped
<1>3. UNCHANGED <<FileContent, FileSize, Positions>>
  BY <1>1, Resting
<1>4. Alone(p)'
  BY <1>1, Resting DEF Step, FInv, Alone
<1>. QED BY <1>2, <1>3, <1>4, OneChange DEF Step, File!Call, Positions

\* A call that returns with its result is the return of the file.
LEMMA ReturnMaps ==
  ASSUME NEW p, Step(p), Return(p)
  PROVE  Alone(p)' /\ File!Return(p)
<1>1. /\ pc[p] = "done" /\ pc'[p] = "idle" /\ temp_buf'[p] = <<>>
      /\ UNCHANGED <<crypto_buffer, data_size, f_pos>>
  BY DEF Step, FInv, KInv, IInv, Typed, Return
<1>2. FileClient = One(File!Result(ret[p], temp_buf[p])) /\ FileClient' = One(File!Idle)
  BY <1>1, SeenAs DEF Step, Shaped
<1>3. UNCHANGED <<FileContent, FileSize, Positions>>
  BY <1>1, Resting
<1>4. Alone(p)'
  BY <1>1 DEF Alone
<1>. QED BY <1>2, <1>3, <1>4, OneChange DEF Step, File!Return, File!Result, Positions
\* A read at or past the end of the file, and one that has loaded its last byte.
LEMMA ReadMaps ==
  ASSUME NEW p, Step(p), ReadAtEnd(p) \/ ReadEnd(p)
  PROVE  Alone(p)' /\ (File!Read(p) \/ File!Fails(p))
<1>0. /\ p \in Proc /\ f_pos[p] \in Nat /\ f_pos'[p] \in Nat /\ len[p] \in Nat
      /\ data_size \in 0..Size /\ data_size \in Nat
  BY Resting
<1>1. CASE ReadAtEnd(p)
  <2>1. /\ pc[p] = "call" /\ op[p].kind = "read" /\ f_pos[p] >= data_size
        /\ Finish(p, 0, <<>>) /\ f_pos' = f_pos
    BY <1>1 DEF ReadAtEnd, At
  <2>2. /\ pc'[p] = "done" /\ Alone(p)' /\ UNCHANGED <<crypto_buffer, data_size, op>>
        /\ Seen(pc'[p], op'[p], ret'[p], temp_buf'[p]) = File!Result(0, <<>>)
    BY <2>1, Finished
  <2>3. FileClient[p] = op[p] /\ File!Answer(p, 0, <<>>)
    BY <2>1, <2>2, Answering
  <2>4. UNCHANGED <<FileContent, FileSize, Positions>> /\ FileSize = data_size
        /\ Positions = One(f_pos[p]) /\ Positions[p] = f_pos[p]
    <3>1. /\ UNCHANGED <<FileContent, FileSize, Positions>> /\ FileSize = data_size
          /\ Positions = One(f_pos[p])
      BY <2>1, <2>2, Resting
    <3>. QED BY <1>0, <3>1 DEF One
  <2>5. [k \in 1..0 |-> FileContent[Positions[p] + k - 1]] = <<>>
    OBVIOUS
  <2>6. Positions' = [Positions EXCEPT ![p] = @ + 0]
    BY <1>0, <2>4, OneChange DEF Step
  <2>. QED BY <2>1, <2>2, <2>3, <2>4, <2>5, <2>6 DEF File!Read, Positions
<1>2. CASE ReadEnd(p)
  <2>1. pc[p] = "load" /\ Len(temp_buf[p]) = len[p] /\ op[p].kind = "read" /\ op[p] \in Calls
    BY <1>0, <1>2 DEF ReadEnd, Step, FInv, KInv, IInv, Established
  <2>2. CASE Fails(p, EFAULT)
    <3>1. /\ Alone(p)' /\ FileClient[p] = op[p] /\ File!Answer(p, -EFAULT, <<>>)
          /\ UNCHANGED <<FileContent, FileSize, Positions>>
      BY <2>1, <2>2, FailsMaps
    <3>. QED BY <2>1, <3>1 DEF File!Fails, File!EFAULT, EFAULT, Positions
  <2>3. CASE Finish(p, len[p], temp_buf[p]) /\ f_pos' = [f_pos EXCEPT ![p] = @ + len[p]]
    <3>1. /\ pc'[p] = "done" /\ Alone(p)' /\ UNCHANGED <<crypto_buffer, data_size, op>>
          /\ Seen(pc'[p], op'[p], ret'[p], temp_buf'[p]) = File!Result(len[p], temp_buf[p])
      BY <2>3, Finished
    <3>2. FileClient[p] = op[p] /\ File!Answer(p, len[p], temp_buf[p])
      BY <2>1, <3>1, Answering
    <3>3. /\ FileContent = Plain(crypto_buffer) /\ FileSize = data_size
          /\ UNCHANGED <<FileContent, FileSize>>
          /\ Positions = One(f_pos[p]) /\ Positions' = One(f_pos'[p])
      BY <2>1, <3>1, Resting
    <3>4. f_pos'[p] = f_pos[p] + len[p]
      BY <1>0, <2>3 DEF Step, FInv, KInv, IInv, Typed
    <3>5. /\ f_pos[p] < data_size /\ len[p] = Clipped(p)
          /\ \A k \in 1..Len(temp_buf[p]) :
               temp_buf[p][k] = ByteXor(crypto_buffer[f_pos[p] + k - 1], Key)
      BY <1>0, <2>1 DEF Step, FInv, Alone
    <3>6. op[p].len \in Nat
      BY <2>1, CallArguments
    <3>7. len[p] = IF Positions[p] >= FileSize THEN 0
                   ELSE File!AtMost(op[p].len, FileSize - Positions[p])
      <4>1. Positions[p] = f_pos[p]
        BY <1>0, <3>3 DEF One
      <4>. QED BY <1>0, <3>3, <3>5, <3>6, <4>1 DEF Clipped, Exceeds, File!AtMost
    <3>8. temp_buf[p] = [k \in 1..len[p] |-> FileContent[Positions[p] + k - 1]]
      <4>1. Positions[p] = f_pos[p]
        BY <1>0, <3>3 DEF One
      <4>2. f_pos[p] + len[p] <= Size
        BY <1>0, <3>5, <3>6, CryptoAssumption DEF Clipped, Exceeds
      <4>3. ASSUME NEW k \in 1..len[p] PROVE temp_buf[p][k] = FileContent[f_pos[p] + k - 1]
        <5>1. f_pos[p] + k - 1 \in Offsets
          BY <1>0, <4>2, <4>3, CryptoAssumption DEF Offsets
        <5>. QED BY <2>1, <3>3, <3>5, <5>1 DEF Plain
      <4>4. temp_buf[p] = [k \in 1..len[p] |-> temp_buf[p][k]]
        BY <1>0, <2>1 DEF Step, FInv, KInv, IInv, Typed
      <4>. QED BY <4>1, <4>3, <4>4
    <3>9. Positions' = [Positions EXCEPT ![p] = @ + len[p]]
      BY <3>3, <3>4, OneChange DEF Step
    <3>. QED BY <2>1, <3>1, <3>2, <3>3, <3>7, <3>8, <3>9 DEF File!Read, Positions
  <2>. QED BY <1>2, <2>2, <2>3 DEF ReadEnd
<1>. QED BY <1>1, <1>2

\* The steps of a read before its last: nothing the file shows.
LEMMA LoadingMaps ==
  ASSUME NEW p, Step(p), ReadStart(p) \/ ReadClip(p) \/ ReadAdjust(p) \/ ReadLoad(p)
  PROVE  /\ Alone(p)'
         /\ \/ UNCHANGED <<FileContent, FileSize, Positions, FileClient>>
            \/ File!Fails(p)
<1>0. /\ p \in Proc /\ f_pos[p] \in Nat /\ len[p] \in Nat /\ data_size \in 0..Size
      /\ data_size \in Nat /\ Alone(p) /\ Kept(p)
  BY Resting DEF Step, FInv, KInv
<1>1. ASSUME pc[p] \in {"call", "clip", "adjust", "load"},
             pc'[p] \in {"call", "clip", "adjust", "load"},
             UNCHANGED <<crypto_buffer, data_size, f_pos, op>>
      PROVE  UNCHANGED <<FileContent, FileSize, Positions, FileClient>>
  <2>1. FileClient = One(op[p]) /\ FileClient' = One(op[p])
    BY <1>1, SeenAs DEF Step, Shaped
  <2>. QED BY <1>1, <2>1, Resting
<1>2. CASE ReadStart(p)
  <2>1. /\ pc[p] = "call" /\ pc'[p] = "clip" /\ temp_buf' = temp_buf
        /\ UNCHANGED <<crypto_buffer, data_size, f_pos, op>>
    BY <1>0, <1>2 DEF ReadStart, At, Advance, Step, FInv, KInv, IInv, Typed
  <2>2. Alone(p)'
    BY <1>0, <2>1 DEF Alone
  <2>. QED BY <1>1, <2>1, <2>2
<1>5. ASSUME NEW n \in Nat, n = Clipped(p), Allocate(p, n), pc[p] \in {"clip", "adjust"}
      PROVE  /\ Alone(p)'
             /\ \/ UNCHANGED <<FileContent, FileSize, Positions, FileClient>>
                \/ File!Fails(p)
  <2>1. op[p].kind = "read" /\ op[p] \in Calls /\ temp_buf[p] = <<>> /\ f_pos[p] < data_size
    BY <1>0, <1>5 DEF Alone, Kept, Step, FInv, KInv, IInv, Established
  <2>2. CASE Fails(p, ENOMEM)
    <3>1. /\ Alone(p)' /\ FileClient[p] = op[p] /\ File!Answer(p, -ENOMEM, <<>>)
          /\ UNCHANGED <<FileContent, FileSize, Positions>>
      BY <1>5, <2>2, FailsMaps
    <3>. QED BY <2>1, <3>1 DEF File!Fails, File!ENOMEM, ENOMEM, Positions
  <2>3. CASE /\ len' = [len EXCEPT ![p] = n]
             /\ Advance(p, "load")
             /\ UNCHANGED <<crypto_buffer, data_size, f_pos, op, temp_buf, ret>>
    <3>1. /\ pc'[p] = "load" /\ len'[p] = n /\ temp_buf'[p] = <<>>
          /\ UNCHANGED <<crypto_buffer, data_size, f_pos, op>>
      BY <1>0, <2>1, <2>3 DEF Advance, Step, FInv, KInv, IInv, Typed
    <3>2. Clipped(p)' = Clipped(p)
      BY <3>1 DEF Clipped, Exceeds
    <3>3. Alone(p)'
      BY <1>5, <2>1, <3>1, <3>2 DEF Alone
    <3>. QED BY <1>1, <1>5, <3>1, <3>3
  <2>. QED BY <1>5, <2>2, <2>3 DEF Allocate
<1>3. CASE ReadClip(p)
  <2>1. pc[p] = "clip" /\ op[p].kind = "read" /\ op[p] \in Calls /\ temp_buf[p] = <<>>
    BY <1>0, <1>3 DEF ReadClip, Alone, Step, FInv, KInv, IInv, Established
  <2>2. CASE ~Exceeds(p) /\ Allocate(p, op[p].len)
    BY <1>5, <2>1, <2>2, CallArguments DEF Clipped, Exceeds
  <2>3. CASE /\ Exceeds(p) /\ Advance(p, "adjust")
             /\ UNCHANGED <<crypto_buffer, data_size, f_pos, op, len, temp_buf, ret>>
    <3>1. /\ pc'[p] = "adjust" /\ temp_buf'[p] = <<>>
          /\ UNCHANGED <<crypto_buffer, data_size, f_pos, op>>
      BY <1>0, <2>1, <2>3 DEF Advance, Step, FInv, KInv, IInv, Typed
    <3>2. Alone(p)'
      BY <3>1 DEF Alone
    <3>. QED BY <1>1, <2>1, <3>1, <3>2
  <2>. QED BY <1>3, <2>2, <2>3 DEF ReadClip
<1>6. CASE ReadAdjust(p)
  <2>1. pc[p] = "adjust" /\ Exceeds(p) /\ f_pos[p] < data_size
    BY <1>0, <1>6 DEF ReadAdjust, Kept
  <2>2. Allocate(p, data_size - f_pos[p]) /\ data_size - f_pos[p] \in Nat
    BY <1>0, <1>6, <2>1 DEF ReadAdjust
  <2>. QED BY <1>5, <2>1, <2>2 DEF Clipped, Exceeds
<1>4. CASE ReadLoad(p)
  <2>. DEFINE t == temp_buf[p]
              o == f_pos[p] + Len(t)
              b == ByteXor(crypto_buffer[o], Key)
  <2>1. /\ pc[p] = "load" /\ Len(t) < len[p] /\ len[p] = Clipped(p) /\ f_pos[p] < data_size
        /\ op[p] \in Calls /\ op[p].kind = "read" /\ t \in Seq(Byte \union {Outside})
        /\ \A k \in 1..Len(t) : t[k] = ByteXor(crypto_buffer[f_pos[p] + k - 1], Key)
    BY <1>0, <1>4 DEF ReadLoad, Alone, Step, FInv, KInv, IInv, Typed, Established
  <2>2. o \in Offsets /\ Len(t) \in Nat
    BY SMTT(30), <1>0, <2>1, CallArguments, CryptoAssumption DEF Clipped, Exceeds, Offsets
  <2>3. temp_buf' = [temp_buf EXCEPT ![p] = Append(@, b)]
        /\ UNCHANGED <<crypto_buffer, data_size, f_pos, pc, op, len>>
    BY <1>4, <2>2 DEF ReadLoad
  <2>4. temp_buf'[p] = Append(t, b)
    BY <1>0, <2>3 DEF Step, FInv, KInv, IInv, Typed
  <2>5. Len(Append(t, b)) = Len(t) + 1
        /\ \A k \in 1..(Len(t) + 1) : Append(t, b)[k] = IF k <= Len(t) THEN t[k] ELSE b
    BY <2>1, <2>2
  <2>6. \A k \in 1..(Len(t) + 1) : Append(t, b)[k] = ByteXor(crypto_buffer[f_pos[p] + k - 1], Key)
    <3>1. \A k \in 1..(Len(t) + 1) : ~(k <= Len(t)) => f_pos[p] + k - 1 = o
      BY <1>0, <2>2
    <3>. QED BY <2>1, <2>2, <2>5, <3>1
  <2>7. Clipped(p)' = Clipped(p)
    BY <2>3 DEF Clipped, Exceeds
  <2>. HIDE DEF t, b, o
  <2>8. Len(t) + 1 <= len[p]
    BY <1>0, <2>1, <2>2
  <2>9. Alone(p)'
    BY <1>0, <2>1, <2>3, <2>4, <2>5, <2>6, <2>7, <2>8 DEF Alone
  <2>. QED BY <1>1, <2>1, <2>3, <2>9
<1>. QED BY <1>2, <1>3, <1>4, <1>6
\* A write that passed its check is in the file at once.
LEMMA WriteMaps ==
  ASSUME NEW p, Step(p), pc[p] = "call", op[p].kind = "write",
         f_pos[p] + Len(op[p].buf) <= Size,
         temp_buf' = [temp_buf EXCEPT ![p] = op[p].buf], Advance(p, "store"),
         UNCHANGED <<crypto_buffer, data_size, f_pos, op, len, ret>>
  PROVE  Alone(p)' /\ File!Write(p)
<1>. DEFINE data == op[p].buf
<1>1. /\ p \in Proc /\ f_pos[p] \in Nat /\ len[p] = 0 /\ data_size \in Nat
      /\ data \in Seq(Byte) /\ Len(data) \in Nat /\ len' = len
      /\ pc'[p] = "store" /\ temp_buf'[p] = data
  BY Resting, CallArguments DEF Step, FInv, KInv, IInv, Typed, Established, Advance
<1>2. /\ FileContent = Plain(crypto_buffer) /\ FileSize = data_size
      /\ Positions = One(f_pos[p]) /\ FileClient = One(op[p])
  BY Resting, SeenAs DEF Step, Shaped
<1>3. /\ FileContent' = Content(crypto_buffer, "store", f_pos[p], 0, data)
      /\ FileSize' = Longest("store", Position("store", f_pos[p], 0, data), data_size)
      /\ FileClient' = One(Seen("store", op[p], ret[p], data))
      /\ Positions' = One(Position("store", f_pos[p], 0, data))
  BY <1>1 DEF Step, Shaped
<1>. HIDE DEF data
<1>4. Position("store", f_pos[p], 0, data) = f_pos[p] + Len(data)
  BY <1>1 DEF Position
<1>5. Positions[p] = f_pos[p] /\ FileClient[p] = op[p]
      /\ Positions'[p] = f_pos[p] + Len(data)
  BY <1>1, <1>2, <1>3, <1>4 DEF One
<1>6. Positions' = [Positions EXCEPT ![p] = @ + Len(data)]
  <2>1. [One(f_pos[p]) EXCEPT ![p] = f_pos[p] + Len(data)] = One(f_pos[p] + Len(data))
    BY ZenonT(40), OneChange DEF Step
  <2>. QED BY <1>2, <1>3, <1>4, <1>5, <2>1
<1>7. FileSize' = File!Larger(FileSize, Positions'[p])
  <2>. DEFINE e == f_pos[p] + Len(data)
  <2>1. FileSize' = IF e > data_size THEN e ELSE data_size
    BY <1>3, <1>4 DEF Longest
  <2>2. FileSize = data_size /\ Positions'[p] = e
    BY <1>2, <1>5
  <2>. HIDE DEF e
  <2>3. File!Larger(data_size, e) = IF e > data_size THEN e ELSE data_size
    <3>1. e \in Int
      BY <1>1 DEF e
    <3>. QED BY <1>1, <3>1 DEF File!Larger
  <2>. QED BY <2>1, <2>2, <2>3
<1>8. File!Answer(p, Len(data), <<>>)
  <2>1. FileClient' = One(File!Result(Len(data), <<>>))
    BY <1>3, SeenAs DEF data
  <2>2. [One(op[p]) EXCEPT ![p] = File!Result(Len(data), <<>>)]
          = One(File!Result(Len(data), <<>>))
    BY ZenonT(40), OneChange DEF Step
  <2>. QED BY <1>2, <2>1, <2>2 DEF File!Answer
<1>9. FileContent' = [o \in DOMAIN FileContent |->
         IF o \in Positions[p]..(Positions[p] + Len(data) - 1)
           THEN data[o - Positions[p] + 1] ELSE FileContent[o]]
  <2>1. DOMAIN FileContent = Offsets
    BY <1>2 DEF Plain
  <2>2. ASSUME NEW o \in Offsets
        PROVE  (IF o \in (f_pos[p] + 0)..(f_pos[p] + 0 + Len(data) - 1)
                  THEN data[o - f_pos[p] - 0 + 1] ELSE ByteXor(crypto_buffer[o], Key))
                 = IF o \in f_pos[p]..(f_pos[p] + Len(data) - 1)
                     THEN data[o - f_pos[p] + 1] ELSE FileContent[o]
    BY <1>1, <1>2 DEF Plain, Offsets
  <2>. QED BY <1>3, <1>5, <2>1, <2>2 DEF Content
<1>10. Alone(p)'
  BY <1>1 DEF Alone
<1>11. Positions[p] + Len(data) <= Size /\ FileClient[p].kind = "write" /\ FileClient[p].buf = data
  BY <1>5 DEF data
<1>. QED BY <1>6, <1>7, <1>8, <1>9, <1>10, <1>11 DEF File!Write, Positions

\* The other outcomes of the checks of dev_write.
LEMMA WriteStartMaps ==
  ASSUME NEW p, Step(p), WriteTooBig(p) \/ WriteStart(p)
  PROVE  Alone(p)' /\ (File!TooBig(p) \/ File!Fails(p) \/ File!Write(p))
<1>0. p \in Proc /\ pc[p] = "call" /\ op[p].kind = "write"
  BY Resting DEF WriteTooBig, WriteStart, At
<1>1. CASE WriteTooBig(p)
  <2>1. f_pos[p] + Len(op[p].buf) > Size /\ Fails(p, EFBIG)
    BY <1>1 DEF WriteTooBig
  <2>2. /\ Alone(p)' /\ FileClient[p] = op[p] /\ File!Answer(p, -EFBIG, <<>>)
        /\ UNCHANGED <<FileContent, FileSize, Positions>>
    BY <1>0, <2>1, FailsMaps
  <2>3. Positions[p] = f_pos[p]
    BY <1>0, Resting DEF One
  <2>. QED BY <1>0, <2>1, <2>2, <2>3 DEF File!TooBig, File!EFBIG, EFBIG, Positions
<1>2. CASE WriteStart(p)
  <2>1. CASE \E e \in {ENOMEM, EFAULT} : Fails(p, e)
    <3>1. PICK e \in {ENOMEM, EFAULT} : Fails(p, e)
      BY <2>1
    <3>2. /\ Alone(p)' /\ FileClient[p] = op[p] /\ File!Answer(p, -e, <<>>)
          /\ UNCHANGED <<FileContent, FileSize, Positions>>
      BY <1>0, <3>1, FailsMaps
    <3>3. e \in {File!ENOMEM, File!EFAULT}
      BY <3>1 DEF ENOMEM, EFAULT, File!ENOMEM, File!EFAULT
    <3>. QED BY <1>0, <3>2, <3>3 DEF File!Fails, Positions
  <2>2. CASE /\ temp_buf' = [temp_buf EXCEPT ![p] = op[p].buf]
             /\ Advance(p, "store")
             /\ UNCHANGED <<crypto_buffer, data_size, f_pos, op, len, ret>>
    BY <1>0, <1>2, <2>2, WriteMaps DEF WriteStart
  <2>. QED BY <1>2, <2>1, <2>2 DEF WriteStart
<1>. QED BY <1>1, <1>2

\* A byte stored is the byte that was waiting to be.
LEMMA StoredByte ==
  ASSUME NEW b \in [Offsets -> Byte], NEW pos \in Nat, NEW n \in Nat, NEW t \in Seq(Byte),
         t # <<>>, pos + n + Len(t) <= Size
  PROVE  Content([b EXCEPT ![pos + n] = ByteXor(Head(t), Key)], "store", pos, n + 1, Tail(t))
           = Content(b, "store", pos, n, t)
<1>. DEFINE o == pos + n
            l == Len(t)
            c == [b EXCEPT ![o] = ByteXor(Head(t), Key)]
            rest == Tail(t)
<1>1. /\ l \in Nat \ {0} /\ Head(t) = t[1] /\ t[1] \in Byte
      /\ Len(rest) = l - 1 /\ \A k \in 1..(l - 1) : rest[k] = t[k + 1]
  OBVIOUS
<1>2. o \in Offsets /\ o \in Nat /\ ByteXor(ByteXor(Head(t), Key), Key) = t[1]
  BY <1>1, CryptoAssumption DEF Offsets
<1>3. ByteXor(c[o], Key) = t[1] /\ \A x \in Offsets : x # o => c[x] = b[x]
  BY <1>2
<1>4. /\ Content(c, "store", pos, n + 1, rest) =
           [x \in Offsets |-> IF x \in (pos + (n + 1))..(pos + (n + 1) + Len(rest) - 1)
                                THEN rest[x - pos - (n + 1) + 1] ELSE ByteXor(c[x], Key)]
      /\ Content(b, "store", pos, n, t) =
           [x \in Offsets |-> IF x \in (pos + n)..(pos + n + Len(t) - 1)
                                THEN t[x - pos - n + 1] ELSE ByteXor(b[x], Key)]
  BY DEF Content
<1>5. /\ (pos + (n + 1))..(pos + (n + 1) + Len(rest) - 1) = (o + 1)..(o + l - 1)
      /\ (pos + n)..(pos + n + Len(t) - 1) = o..(o + l - 1)
  <2>1. pos + (n + 1) = o + 1 /\ pos + (n + 1) + Len(rest) - 1 = o + l - 1
    BY <1>1
  <2>. HIDE DEF rest
  <2>. QED BY <2>1
<1>6. \A x \in Offsets : x - pos - (n + 1) + 1 = x - o /\ x - pos - n + 1 = x - o + 1
  BY DEF Offsets
<1>. HIDE DEF o, l, c, rest
<1>7. ASSUME NEW x \in Offsets
      PROVE  (IF x \in (o + 1)..(o + l - 1) THEN rest[x - o] ELSE ByteXor(c[x], Key))
               = IF x \in o..(o + l - 1) THEN t[x - o + 1] ELSE ByteXor(b[x], Key)
  <2>1. x \in Nat
    BY DEF Offsets
  <2>2. CASE x = o
    <3>1. x \notin (o + 1)..(o + l - 1) /\ x \in o..(o + l - 1) /\ x - o + 1 = 1
      BY <1>1, <1>2, <2>2
    <3>. QED BY <1>3, <2>2, <3>1
  <2>3. CASE x # o
    <3>1. /\ x \in (o + 1)..(o + l - 1) <=> x \in o..(o + l - 1)
          /\ x \in (o + 1)..(o + l - 1) => x - o \in 1..(l - 1)
      BY <1>1, <1>2, <2>1, <2>3
    <3>. QED BY <1>1, <1>3, <2>3, <3>1
  <2>. QED BY <2>2, <2>3
<1>8. Content(c, "store", pos, n + 1, rest) = Content(b, "store", pos, n, t)
  BY ZenonT(40), <1>4, <1>5, <1>6, <1>7
<1>. QED BY <1>8 DEF c, o, rest

\* So the loop of a write changes nothing of the file.
LEMMA StoreMaps ==
  ASSUME NEW p, Step(p), WriteStore(p)
  PROVE  Alone(p)' /\ UNCHANGED <<FileContent, FileSize, Positions, FileClient>>
<1>. DEFINE t == temp_buf[p]
            o == f_pos[p] + len[p]
            b == ByteXor(Head(t), Key)
<1>1. /\ p \in Proc /\ f_pos[p] \in Nat /\ len[p] \in Nat
      /\ pc[p] = "store" /\ t # <<>> /\ t \in Seq(Byte) /\ o + Len(t) <= Size
      /\ crypto_buffer' = [crypto_buffer EXCEPT ![o] = b]
      /\ temp_buf'[p] = Tail(t) /\ len'[p] = len[p] + 1
      /\ UNCHANGED <<data_size, f_pos, pc, op, ret>> /\ crypto_buffer \in [Offsets -> Byte]
  BY Resting DEF WriteStore, Step, FInv, KInv, IInv, Typed, Established
<1>2. /\ Len(t) \in Nat \ {0} /\ Head(t) = t[1] /\ t[1] \in Byte
      /\ Len(Tail(t)) = Len(t) - 1 /\ \A k \in 1..(Len(t) - 1) : Tail(t)[k] = t[k + 1]
  BY <1>1
<1>3. o \in Offsets /\ ByteXor(b, Key) = t[1]
  BY SMTT(30), <1>1, <1>2, CryptoAssumption DEF Offsets
<1>4. /\ FileContent = Content(crypto_buffer, "store", f_pos[p], len[p], t)
      /\ FileSize = Longest("store", Position("store", f_pos[p], len[p], t), data_size)
      /\ FileClient = One(File!Result(Len(op[p].buf), <<>>))
      /\ Positions = One(Position("store", f_pos[p], len[p], t))
      /\ FileContent' = Content(crypto_buffer', "store", f_pos[p], len[p] + 1, Tail(t))
      /\ FileSize' = Longest("store", Position("store", f_pos[p], len[p] + 1, Tail(t)), data_size)
      /\ FileClient' = One(File!Result(Len(op[p].buf), <<>>))
      /\ Positions' = One(Position("store", f_pos[p], len[p] + 1, Tail(t)))
  BY <1>1, SeenAs DEF Step, Shaped
<1>. HIDE DEF t, b
<1>5. Position("store", f_pos[p], len[p] + 1, Tail(t)) = Position("store", f_pos[p], len[p], t)
  BY <1>1, <1>2 DEF Position
<1>6. Content(crypto_buffer', "store", f_pos[p], len[p] + 1, Tail(t))
        = Content(crypto_buffer, "store", f_pos[p], len[p], t)
  BY <1>1, StoredByte DEF b
<1>7. Alone(p)'
  BY <1>1 DEF Alone
<1>. QED BY <1>4, <1>5, <1>6, <1>7
\* Nor does the rest of a write: data_size becomes what the file already is.
LEMMA WriteRestMaps ==
  ASSUME NEW p, Step(p), WriteCompare(p) \/ WriteSetSize(p) \/ WriteEnd(p)
  PROVE  Alone(p)' /\ UNCHANGED <<FileContent, FileSize, Positions, FileClient>>
<1>0. /\ p \in Proc /\ f_pos[p] \in Nat /\ f_pos'[p] \in Nat /\ len[p] \in Nat
      /\ data_size \in Nat /\ data_size' \in Nat /\ Alone(p) /\ Kept(p)
  BY Resting DEF Step, FInv, KInv
<1>1. ASSUME pc[p] \in {"store", "set", "end"}, pc'[p] \in {"set", "end"}, op' = op
      PROVE  FileClient' = FileClient
  BY <1>1, SeenAs DEF Step, Shaped
<1>2. CASE WriteCompare(p)
  <2>1. /\ pc[p] = "store" /\ temp_buf[p] = <<>> /\ f_pos'[p] = f_pos[p] + len[p]
        /\ pc'[p] = (IF f_pos'[p] > data_size THEN "set" ELSE "end")
        /\ UNCHANGED <<crypto_buffer, data_size, op>>
    BY <1>0, <1>2 DEF WriteCompare, Advance, Step, FInv, KInv, IInv, Typed
  <2>2. FileContent' = Plain(crypto_buffer) /\ Positions' = One(f_pos'[p])
    BY <2>1, Resting
  <2>3. Position("store", f_pos[p], len[p], <<>>) = f_pos'[p]
    BY <1>0, <2>1 DEF Position
  <2>4. Content(crypto_buffer, "store", f_pos[p], len[p], <<>>) = Plain(crypto_buffer)
    BY <1>0 DEF Content, Plain
  <2>5. /\ FileContent = Content(crypto_buffer, "store", f_pos[p], len[p], <<>>)
        /\ FileSize = Longest("store", Position("store", f_pos[p], len[p], <<>>), data_size)
        /\ Positions = One(Position("store", f_pos[p], len[p], <<>>))
    BY <2>1 DEF Step, Shaped
  <2>6. FileSize' = Longest(pc'[p], f_pos'[p], data_size)
    <3>1. pc'[p] # "store"
      BY <2>1
    <3>2. Position(pc'[p], f_pos'[p], len'[p], temp_buf'[p]) = f_pos'[p]
      BY <1>0, <3>1 DEF Position
    <3>. QED BY <2>1, <3>2 DEF Step, Shaped
  <2>7. Longest(pc'[p], f_pos'[p], data_size) = Longest("store", f_pos'[p], data_size)
    BY <1>0, <2>1 DEF Longest
  <2>8. Alone(p)'
    BY <2>1 DEF Alone
  <2>. QED BY <1>1, <2>1, <2>2, <2>3, <2>4, <2>5, <2>6, <2>7, <2>8
<1>3. CASE WriteSetSize(p)
  <2>1. /\ pc[p] = "set" /\ pc'[p] = "end" /\ data_size' = f_pos[p] /\ f_pos[p] > data_size
        /\ UNCHANGED <<crypto_buffer, f_pos, op>>
    BY <1>0, <1>3 DEF WriteSetSize, Advance, Alone, Step, FInv, KInv, IInv, Typed
  <2>2. FileSize = f_pos[p]
    <3>1. Position("set", f_pos[p], len[p], temp_buf[p]) = f_pos[p]
      BY <1>0 DEF Position
    <3>. QED BY <2>1, <3>1 DEF Step, Shaped, Longest
  <2>3. Alone(p)'
    BY <2>1 DEF Alone
  <2>. QED BY <1>1, <2>1, <2>2, <2>3, Resting
<1>4. CASE WriteEnd(p)
  <2>1. pc[p] = "end" /\ Finish(p, Len(op[p].buf), <<>>) /\ f_pos' = f_pos
    BY <1>4 DEF WriteEnd
  <2>2. /\ pc'[p] = "done" /\ Alone(p)' /\ UNCHANGED <<crypto_buffer, data_size, op>>
        /\ Seen(pc'[p], op'[p], ret'[p], temp_buf'[p]) = File!Result(Len(op[p].buf), <<>>)
    BY <2>1, Finished
  <2>3. FileClient' = FileClient
    BY <2>1, <2>2, SeenAs DEF Step, Shaped
  <2>. QED BY <2>1, <2>2, <2>3, Resting
<1>. QED BY <1>2, <1>3, <1>4

\* A seek.
LEMMA SeekMaps ==
  ASSUME NEW p, Step(p), Seek(p)
  PROVE  Alone(p)' /\ File!Seek(p)
<1>1. /\ p \in Proc /\ pc[p] = "call" /\ op[p].kind = "seek" /\ f_pos[p] \in Nat
      /\ data_size \in Nat /\ op[p] \in Calls
  BY Resting DEF Seek, At, Step, FInv, KInv, IInv, Established
<1>2. op[p].offset \in Int /\ op[p].whence \in Nat
  BY <1>1, CallArguments
<1>3. FileSize = data_size /\ Positions = One(f_pos[p]) /\ FileClient = One(op[p])
  BY <1>1, Resting, SeenAs DEF Step, Shaped
<1>4. Positions[p] = f_pos[p] /\ FileClient[p] = op[p]
  BY <1>1, <1>3 DEF One
<1>5. op[p].whence \in 0..2 => File!Target(p) = NewPos(p) /\ NewPos(p) \in Int
  BY <1>1, <1>2, <1>3, <1>4 DEF File!Target, NewPos, Positions
<1>6. op[p].whence \in 0..2 => (File!Target(p) \in 0..Size <=> SeekAllowed(p))
  BY <1>5, CryptoAssumption DEF SeekAllowed
<1>7. CASE SeekAllowed(p)
  <2>1. /\ Finish(p, NewPos(p), <<>>) /\ f_pos' = [f_pos EXCEPT ![p] = NewPos(p)]
        /\ op[p].whence \in 0..2
    BY <1>7 DEF Seek, SeekAllowed
  <2>2. /\ pc'[p] = "done" /\ Alone(p)' /\ UNCHANGED <<crypto_buffer, data_size, op>>
        /\ Seen(pc'[p], op'[p], ret'[p], temp_buf'[p]) = File!Result(NewPos(p), <<>>)
    BY <2>1, Finished
  <2>3. File!Answer(p, NewPos(p), <<>>)
    BY <1>1, <2>2, Answering
  <2>4. UNCHANGED <<FileContent, FileSize>> /\ Positions' = One(f_pos'[p])
    BY <1>1, <2>2, Resting
  <2>5. f_pos'[p] = NewPos(p)
    BY <1>1, <2>1 DEF Step, FInv, KInv, IInv, Typed
  <2>6. Positions' = [Positions EXCEPT ![p] = NewPos(p)]
    <3>1. [One(f_pos[p]) EXCEPT ![p] = NewPos(p)] = One(NewPos(p))
      BY OneChange DEF Step
    <3>. QED BY <1>3, <2>4, <2>5, <3>1
  <2>7. File!Target(p) = NewPos(p) /\ File!Target(p) \in 0..Size
    BY <1>5, <1>6, <1>7, <2>1
  <2>. QED BY <1>1, <1>4, <2>1, <2>2, <2>3, <2>4, <2>6, <2>7 DEF File!Seek, Positions
<1>8. CASE ~SeekAllowed(p)
  <2>1. Fails(p, EINVAL)
    BY <1>8 DEF Seek
  <2>2. /\ Alone(p)' /\ File!Answer(p, -EINVAL, <<>>)
        /\ UNCHANGED <<FileContent, FileSize, Positions>>
    BY <1>1, <2>1, FailsMaps
  <2>3. ~(op[p].whence \in 0..2 /\ File!Target(p) \in 0..Size)
    BY <1>6, <1>8
  <2>. QED BY <1>1, <1>4, <2>2, <2>3 DEF File!Seek, File!EINVAL, EINVAL, Positions
<1>. QED BY <1>7, <1>8

\* An empty buffer is an empty file.
LEMMA InitMaps ==
  ASSUME NEW p, Proc = {p}
  PROVE  Init /\ Shaped(p) => File!Init /\ FInv
<1>. SUFFICES ASSUME Init, Shaped(p) PROVE File!Init /\ FInv
  OBVIOUS
<1>1. /\ pc[p] = "idle" /\ temp_buf[p] = <<>> /\ f_pos[p] = 0 /\ data_size = 0 /\ len[p] = 0
      /\ crypto_buffer = [o \in Offsets |-> 0]
  BY DEF Init
<1>2. FileContent = [o \in 0..(Size - 1) |-> ByteXor(0, Key)] /\ FileSize = 0
  BY <1>1 DEF Shaped, Content, Longest, Offsets
<1>3. Positions = [q \in Proc |-> 0] /\ FileClient = [q \in Proc |-> File!Idle]
  BY <1>1, SeenAs DEF Shaped, Position, One
<1>4. FInv
  BY <1>1, InitInv DEF Init, FInv, KInv, Kept, Alone
<1>. QED BY <1>2, <1>3, <1>4 DEF File!Init, Positions

\* Every step of the process is a step of the file, or none.
LEMMA StepMaps ==
  ASSUME NEW p, Step(p), [Next]_vars
  PROVE  Alone(p)' /\ [File!Next]_(File!vars)
<1>0. p \in Proc /\ \A q \in Proc : q = p
  BY DEF Step
<1>1. CASE UNCHANGED vars
  <2>1. UNCHANGED <<FileContent, FileSize, Positions, FileClient>>
    BY <1>1 DEF vars, Step, Shaped
  <2>2. Alone(p)'
    BY <1>0, <1>1 DEF vars, Step, FInv, Alone, Clipped, Exceeds
  <2>. QED BY <2>1, <2>2 DEF File!vars, Positions
<1>2. CASE \E r \in Calls : Call(p, r)
  BY <1>0, <1>2, CallMaps DEF File!Next
<1>3. CASE Return(p)
  BY <1>0, <1>3, ReturnMaps DEF File!Next
<1>4. CASE ReadAtEnd(p) \/ ReadEnd(p)
  BY <1>0, <1>4, ReadMaps DEF File!Next
<1>5. CASE ReadStart(p) \/ ReadClip(p) \/ ReadAdjust(p) \/ ReadLoad(p)
  BY <1>0, <1>5, LoadingMaps DEF File!Next, File!vars, Positions
<1>6. CASE WriteTooBig(p) \/ WriteStart(p)
  BY <1>0, <1>6, WriteStartMaps DEF File!Next
<1>7. CASE WriteStore(p) \/ WriteCompare(p) \/ WriteSetSize(p) \/ WriteEnd(p)
  BY <1>7, StoreMaps, WriteRestMaps DEF File!vars, Positions
<1>8. CASE Seek(p)
  BY <1>0, <1>8, SeekMaps DEF File!Next
<1>. QED BY <1>0, <1>1, <1>2, <1>3, <1>4, <1>5, <1>6, <1>7, <1>8 DEF Next

\* To a process that has the device to itself, /dev/my_crypto is a file of Size
\* bytes: the loops, the position moved before data_size is set and the failures
\* of my_crypto.c:108-237 cannot be told from calls that happen at one instant.
THEOREM AloneImplementsFile == ASSUME NEW p, Proc = {p} PROVE Spec => FileSpec
<1>1. IInv => Shaped(p)
  BY FileShape
<1>2. Init => IInv
  BY InitInv
<1>3. Init /\ Shaped(p) => File!Init /\ FInv
  BY InitMaps
<1>4. FInv /\ IInv' /\ Shaped(p) /\ Shaped(p)' /\ [Next]_vars => FInv' /\ [File!Next]_(File!vars)
  <2>. SUFFICES ASSUME FInv, IInv', Shaped(p), Shaped(p)', [Next]_vars
       PROVE  FInv' /\ [File!Next]_(File!vars)
    OBVIOUS
  <2>1. Step(p) /\ KInv
    BY DEF Step, FInv
  <2>2. Alone(p)' /\ [File!Next]_(File!vars)
    BY <2>1, StepMaps
  <2>3. KInv'
    BY <2>1, AloneStep DEF KInv
  <2>. QED BY <2>2, <2>3 DEF FInv
<1>. QED BY <1>1, <1>2, <1>3, <1>4, Invariance, PTL DEF Spec, FileSpec, File!Spec
=============================================================================
