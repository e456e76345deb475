----------------------------- MODULE CryptoFile -----------------------------
(***************************************************************************)
(* What the my_crypto device (hello-linux/practices/crypto-buffer) is to a *)
(* program that has it to itself: a file of at most Size bytes whose calls *)
(* take effect in one step.  A byte below the end of the file that nobody  *)
(* wrote, left behind by a seek past the end, reads as Hole.               *)
(***************************************************************************)
EXTENDS Integers, Sequences

CONSTANTS Proc, Size, Hole, Calls

VARIABLES
  content,   \* the bytes of the file, as they read
  size,      \* the length of the file
  pos,       \* the file position of each process
  client     \* idle, the call a process waits for, or its result

vars == <<content, size, pos, client>>

EFAULT == 14
ENOMEM == 12
EINVAL == 22
EFBIG == 27

Idle == [kind |-> "idle"]
Result(value, memory) == [kind |-> "result", value |-> value, memory |-> memory]

Init ==
  /\ content = [o \in 0..(Size - 1) |-> Hole]
  /\ size = 0
  /\ pos = [p \in Proc |-> 0]
  /\ client = [p \in Proc |-> Idle]

Call(p, r) ==
  /\ client[p] = Idle
  /\ client' = [client EXCEPT ![p] = r]
  /\ UNCHANGED <<content, size, pos>>

Return(p) ==
  /\ client[p].kind = "result"
  /\ client' = [client EXCEPT ![p] = Idle]
  /\ UNCHANGED <<content, size, pos>>

Answer(p, value, memory) == client' = [client EXCEPT ![p] = Result(value, memory)]

AtMost(m, n) == IF m < n THEN m ELSE n
Larger(m, n) == IF m > n THEN m ELSE n

Read(p) ==
  /\ client[p].kind = "read"
  /\ LET n == IF pos[p] >= size THEN 0 ELSE AtMost(client[p].len, size - pos[p]) IN
       /\ Answer(p, n, [k \in 1..n |-> content[pos[p] + k - 1]])
       /\ pos' = [pos EXCEPT ![p] = @ + n]
  /\ UNCHANGED <<content, size>>

Write(p) ==
  /\ client[p].kind = "write"
  /\ LET data == client[p].buf IN
       /\ pos[p] + Len(data) <= Size
       /\ content' = [o \in DOMAIN content |->
            IF o \in pos[p]..(pos[p] + Len(data) - 1) THEN data[o - pos[p] + 1] ELSE content[o]]
       /\ pos' = [pos EXCEPT ![p] = @ + Len(data)]
       /\ size' = Larger(size, pos'[p])
       /\ Answer(p, Len(data), <<>>)

TooBig(p) ==
  /\ client[p].kind = "write" /\ pos[p] + Len(client[p].buf) > Size
  /\ Answer(p, -EFBIG, <<>>)
  /\ UNCHANGED <<content, size, pos>>

\* No memory for the temporary buffer, or a copy that fails: nothing changes.
Fails(p) ==
  /\ client[p].kind \in {"read", "write"}
  /\ \E e \in {ENOMEM, EFAULT} : Answer(p, -e, <<>>)
  /\ UNCHANGED <<content, size, pos>>

Target(p) ==
  client[p].offset + CASE client[p].whence = 0 -> 0
                       [] client[p].whence = 1 -> pos[p]
                       [] client[p].whence = 2 -> size

Seek(p) ==
  /\ client[p].kind = "seek"
  /\ IF client[p].whence \in 0..2 /\ Target(p) \in 0..Size
       THEN Answer(p, Target(p), <<>>) /\ pos' = [pos EXCEPT ![p] = Target(p)]
       ELSE Answer(p, -EINVAL, <<>>) /\ UNCHANGED pos
  /\ UNCHANGED <<content, size>>

Next ==
  \E p \in Proc :
    \/ \E r \in Calls : Call(p, r)
    \/ Read(p) \/ Write(p) \/ TooBig(p) \/ Fails(p) \/ Seek(p)
    \/ Return(p)

Spec == Init /\ [][Next]_vars
=============================================================================
