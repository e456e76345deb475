---------------------------- MODULE CryptoBuffer ----------------------------
(***************************************************************************)
(* The file operations of hello-linux/practices/crypto-buffer/my_crypto.c: *)
(* one buffer of Size bytes kept XOR-ed with a fixed key, its length       *)
(* data_size, and a file position for each open file.  There is no lock:   *)
(* two processes interleave at every access to the buffer or to data_size. *)
(***************************************************************************)
EXTENDS Integers, Sequences

CONSTANTS
  Proc,            \* the processes, each with an open file of its own
  Byte, ByteXor(_, _), Key,
  Size,            \* BUFFER_SIZE
  Outside,         \* what a load from beyond the buffer returns
  Data,            \* the byte sequences a process may write
  ReadLen,         \* the lengths it may ask to read
  SeekTo           \* the (offset, whence) pairs it may seek to

ASSUME CryptoAssumption ==
  /\ Size \in Nat \ {0} /\ Data \subseteq Seq(Byte) /\ ReadLen \subseteq Nat
  /\ SeekTo \subseteq Int \X Nat
  /\ 0 \in Byte /\ \A b \in Byte : ByteXor(b, Key) \in Byte /\ ByteXor(ByteXor(b, Key), Key) = b

VARIABLES
  crypto_buffer, data_size,   \* shared by every process
  f_pos,      \* the position of each file
  pc,         \* idle, call, clip, adjust, load, store, set, end, done
  op,         \* the call a process is making
  len,        \* its length, after a read adjusted it
  temp_buf,   \* the bytes decrypted, or those left to encrypt
  ret         \* what the call returned

vars == <<crypto_buffer, data_size, f_pos, pc, op, len, temp_buf, ret>>

ENOMEM == 12
EFAULT == 14
EINVAL == 22
EFBIG == 27

NoCall == [kind |-> "idle"]
Calls ==
  [kind : {"read"}, len : ReadLen] \union [kind : {"write"}, buf : Data]
    \union [kind : {"seek"}, offset : {s[1] : s \in SeekTo}, whence : {s[2] : s \in SeekTo}]

Offsets == 0..(Size - 1)

\* crypto_init clears the buffer, without encrypting the zeroes.
Init ==
  /\ crypto_buffer = [o \in Offsets |-> 0] /\ data_size = 0
  /\ f_pos = [p \in Proc |-> 0]
  /\ pc = [p \in Proc |-> "idle"] /\ op = [p \in Proc |-> NoCall]
  /\ len = [p \in Proc |-> 0] /\ temp_buf = [p \in Proc |-> <<>>]
  /\ ret = [p \in Proc |-> 0]

Call(p, r) ==
  /\ pc[p] = "idle"
  /\ pc' = [pc EXCEPT ![p] = "call"]
  /\ op' = [op EXCEPT ![p] = r]
  /\ UNCHANGED <<crypto_buffer, data_size, f_pos, len, temp_buf, ret>>

Return(p) ==
  /\ pc[p] = "done"
  /\ pc' = [pc EXCEPT ![p] = "idle"]
  /\ op' = [op EXCEPT ![p] = NoCall]
  /\ len' = [len EXCEPT ![p] = 0]
  /\ temp_buf' = [temp_buf EXCEPT ![p] = <<>>]
  /\ ret' = [ret EXCEPT ![p] = 0]
  /\ UNCHANGED <<crypto_buffer, data_size, f_pos>>

\* The call ends with value v and the user memory m it filled.
Finish(p, v, m) ==
  /\ pc' = [pc EXCEPT ![p] = "done"]
  /\ ret' = [ret EXCEPT ![p] = v]
  /\ temp_buf' = [temp_buf EXCEPT ![p] = m]
  /\ len' = [len EXCEPT ![p] = 0]
  /\ UNCHANGED <<crypto_buffer, data_size, op>>

\* kmalloc, or the copy from or to user memory, fails.
Fails(p, e) == Finish(p, -e, <<>>) /\ UNCHANGED f_pos

At(p, where, kind) == pc[p] = where /\ op[p].kind = kind
Advance(p, where) == pc' = [pc EXCEPT ![p] = where]
-----------------------------------------------------------------------------
(* dev_read *)

ReadAtEnd(p) ==
  /\ At(p, "call", "read") /\ f_pos[p] >= data_size
  /\ Finish(p, 0, <<>>) /\ UNCHANGED f_pos

ReadStart(p) ==
  /\ At(p, "call", "read") /\ f_pos[p] < data_size
  /\ Advance(p, "clip")
  /\ UNCHANGED <<crypto_buffer, data_size, f_pos, op, len, temp_buf, ret>>

\* The unsigned difference is huge when data_size fell below the position meanwhile.
Exceeds(p) == data_size >= f_pos[p] /\ op[p].len > data_size - f_pos[p]

\* kmalloc for a length of n, and the decryption loop, unless it fails.
Allocate(p, n) ==
  \/ /\ len' = [len EXCEPT ![p] = n]
     /\ Advance(p, "load")
     /\ UNCHANGED <<crypto_buffer, data_size, f_pos, op, temp_buf, ret>>
  \/ Fails(p, ENOMEM)

\* Mutant: the length is not adjusted to the data.
ReadClip_Whole(p) == pc[p] = "clip" /\ Allocate(p, op[p].len)

\* Every use of data_size is a load of its own: the one before, this comparison and
\* the assignment.
ReadClip(p) ==
  /\ pc[p] = "clip"
  /\ IF Exceeds(p)
       THEN /\ Advance(p, "adjust")
            /\ UNCHANGED <<crypto_buffer, data_size, f_pos, op, len, temp_buf, ret>>
       ELSE Allocate(p, op[p].len)

\* kmalloc has no room for a huge length.
ReadAdjust(p) ==
  /\ pc[p] = "adjust"
  /\ IF data_size >= f_pos[p] THEN Allocate(p, data_size - f_pos[p]) ELSE Fails(p, ENOMEM)

\* One byte of the loop that decrypts on the fly.
ReadLoad(p) ==
  /\ pc[p] = "load" /\ Len(temp_buf[p]) < len[p]
  /\ LET o == f_pos[p] + Len(temp_buf[p]) IN
       temp_buf' = [temp_buf EXCEPT ![p] = Append(@,
         IF o \in Offsets THEN ByteXor(crypto_buffer[o], Key) ELSE Outside)]
  /\ UNCHANGED <<crypto_buffer, data_size, f_pos, pc, op, len, ret>>

ReadEnd(p) ==
  /\ pc[p] = "load" /\ Len(temp_buf[p]) = len[p]
  /\ \/ /\ Finish(p, len[p], temp_buf[p])
        /\ f_pos' = [f_pos EXCEPT ![p] = @ + len[p]]
     \/ Fails(p, EFAULT)
-----------------------------------------------------------------------------
(* dev_write *)

WriteTooBig(p) ==
  /\ At(p, "call", "write") /\ f_pos[p] + Len(op[p].buf) > Size
  /\ Fails(p, EFBIG)

\* Mutant: the position is left out of the overflow check.
WriteStart_LengthOnly(p) ==
  /\ At(p, "call", "write") /\ Len(op[p].buf) <= Size
  /\ \/ /\ temp_buf' = [temp_buf EXCEPT ![p] = op[p].buf]
        /\ Advance(p, "store")
        /\ UNCHANGED <<crypto_buffer, data_size, f_pos, op, len, ret>>
     \/ \E e \in {ENOMEM, EFAULT} : Fails(p, e)

WriteStart(p) ==
  /\ At(p, "call", "write") /\ f_pos[p] + Len(op[p].buf) <= Size
  /\ \/ /\ temp_buf' = [temp_buf EXCEPT ![p] = op[p].buf]
        /\ Advance(p, "store")
        /\ UNCHANGED <<crypto_buffer, data_size, f_pos, op, len, ret>>
     \/ \E e \in {ENOMEM, EFAULT} : Fails(p, e)

\* One byte of the loop that encrypts on the fly; len counts the bytes stored.
WriteStore(p) ==
  /\ pc[p] = "store" /\ temp_buf[p] # <<>>
  /\ crypto_buffer' = [crypto_buffer EXCEPT ![f_pos[p] + len[p]] = ByteXor(Head(temp_buf[p]), Key)]
  /\ temp_buf' = [temp_buf EXCEPT ![p] = Tail(@)]
  /\ len' = [len EXCEPT ![p] = @ + 1]
  /\ UNCHANGED <<data_size, f_pos, pc, op, ret>>

\* Mutant: data_size is never raised.
WriteCompare_NoUpdate(p) ==
  /\ pc[p] = "store" /\ temp_buf[p] = <<>>
  /\ f_pos' = [f_pos EXCEPT ![p] = @ + len[p]]
  /\ Advance(p, "end")
  /\ UNCHANGED <<crypto_buffer, data_size, op, len, temp_buf, ret>>

\* The position moves and is compared with data_size, which is set later.
WriteCompare(p) ==
  /\ pc[p] = "store" /\ temp_buf[p] = <<>>
  /\ f_pos' = [f_pos EXCEPT ![p] = @ + len[p]]
  /\ Advance(p, IF f_pos'[p] > data_size THEN "set" ELSE "end")
  /\ UNCHANGED <<crypto_buffer, data_size, op, len, temp_buf, ret>>

WriteSetSize(p) ==
  /\ pc[p] = "set"
  /\ data_size' = f_pos[p]
  /\ Advance(p, "end")
  /\ UNCHANGED <<crypto_buffer, f_pos, op, len, temp_buf, ret>>

WriteEnd(p) ==
  /\ pc[p] = "end"
  /\ Finish(p, Len(op[p].buf), <<>>)
  /\ UNCHANGED f_pos
-----------------------------------------------------------------------------
(* dev_llseek *)

NewPos(p) ==
  op[p].offset + CASE op[p].whence = 0 -> 0
                   [] op[p].whence = 1 -> f_pos[p]
                   [] OTHER -> data_size

\* Mutant: the upper bound of a seek is not checked.
SeekAllowed_NoBound(p) == op[p].whence \in 0..2 /\ NewPos(p) >= 0

SeekAllowed(p) == op[p].whence \in 0..2 /\ NewPos(p) >= 0 /\ NewPos(p) <= Size

Seek(p) ==
  /\ At(p, "call", "seek")
  /\ IF SeekAllowed(p)
       THEN Finish(p, NewPos(p), <<>>) /\ f_pos' = [f_pos EXCEPT ![p] = NewPos(p)]
       ELSE Fails(p, EINVAL)
-----------------------------------------------------------------------------
Next ==
  \E p \in Proc :
    \/ \E r \in Calls : Call(p, r)
    \/ ReadAtEnd(p) \/ ReadStart(p) \/ ReadClip(p) \/ ReadAdjust(p) \/ ReadLoad(p)
    \/ ReadEnd(p)
    \/ WriteTooBig(p) \/ WriteStart(p) \/ WriteStore(p) \/ WriteCompare(p)
    \/ WriteSetSize(p) \/ WriteEnd(p)
    \/ Seek(p) \/ Return(p)

Spec == Init /\ [][Next]_vars
-----------------------------------------------------------------------------
TypeOK ==
  /\ crypto_buffer \in [Offsets -> Byte]
  /\ data_size \in 0..Size
  /\ \A p \in Proc : pc[p] = "idle" \/ op[p] \in Calls

\* A write stores inside the buffer: the check that must "prevent overflow"
\* (my_crypto.c:163) holds for every way the position was moved there.  The run has
\* one process; that other processes cannot make the check stale is a theorem
\* (StoresInBounds).
WritesInBounds ==
  \A p \in Proc : pc[p] = "store" => f_pos[p] + len[p] + Len(temp_buf[p]) <= Size

\* A read takes no more than there is: "adjust read length if exceeding available
\* data" (my_crypto.c:131).
ReadsWithinData ==
  \A p \in Proc : pc[p] = "load" => f_pos[p] + len[p] <= data_size

\* What a write put in the device when it returned can be read back: "encrypt
\* them ... and decrypt them when user read" (my_crypto.c:7).
CompletedWritesReadable ==
  \A p \in Proc : pc[p] = "done" /\ op[p].kind = "write" /\ ret[p] >= 0 =>
    data_size >= f_pos[p]

\* A write that passed its checks cannot fail any more: from then on the file is
\* what it will be when the last byte is stored and data_size is set.
WriteEndsAt(p) == f_pos[p] + IF pc[p] = "store" THEN len[p] + Len(temp_buf[p]) ELSE 0

FileContent ==
  [o \in Offsets |->
     IF \E p \in Proc : pc[p] = "store" /\ o \in (f_pos[p] + len[p])..(WriteEndsAt(p) - 1)
       THEN LET p == CHOOSE p \in Proc : pc[p] = "store" IN
              temp_buf[p][o - f_pos[p] - len[p] + 1]
       ELSE ByteXor(crypto_buffer[o], Key)]

FileSize ==
  LET ends == {data_size} \union {WriteEndsAt(p) : p \in {q \in Proc : pc[q] \in {"store", "set"}}}
  IN  CHOOSE n \in ends : \A m \in ends : m <= n

FileClient ==
  [p \in Proc |->
     CASE pc[p] = "idle" -> [kind |-> "idle"]
       [] pc[p] \in {"call", "clip", "adjust", "load"} -> op[p]
       [] pc[p] \in {"store", "set", "end"} ->
            [kind |-> "result", value |-> Len(op[p].buf), memory |-> <<>>]
       [] pc[p] = "done" -> [kind |-> "result", value |-> ret[p], memory |-> temp_buf[p]]]

\* To a process that has the device to itself each call, with its loop and its
\* failures, is one step of a file of encrypted bytes.
File == INSTANCE CryptoFile WITH
  content <- FileContent, size <- FileSize, client <- FileClient,
  pos <- [p \in Proc |-> WriteEndsAt(p)], Hole <- ByteXor(0, Key)
FileSpec == File!Spec
=============================================================================
