------------------------------ MODULE XorPipe ------------------------------
(***************************************************************************)
(* What the xorbox device (hello-linux/practices/xorbox/xorbox.c) promises *)
(* its clients, whose calls take effect in one step each: a pipe of at     *)
(* most BufferSize bytes, oldest first.  The contents are the bytes a read *)
(* would deliver now; a key change rewrites the ones that are inside.      *)
(***************************************************************************)
EXTENDS Integers, Sequences

CONSTANTS
  Proc, Byte, ByteXor(_, _), InitKey, BufferSize, Calls, Untouched,
  Skip    \* how many bytes of user memory a read may pass over: {0} if all are to be filled

VARIABLES
  contents,   \* the bytes inside, as a read would deliver them
  key,
  client      \* per process: idle, the call it waits for, or its result

vars == <<contents, key, client>>

EFAULT == 14
ENOTTY == 25
ENOSPC == 28
ERESTARTSYS == 512

Idle == [kind |-> "idle"]
Result(value, memory) ==
  [kind |-> "result", value |-> value, memory |-> memory]

Init ==
  /\ contents = <<>> /\ key = InitKey
  /\ client = [p \in Proc |-> Idle]

Call(p, r) ==
  /\ client[p] = Idle
  /\ client' = [client EXCEPT ![p] = r]
  /\ UNCHANGED <<contents, key>>

Return(p) ==
  /\ client[p].kind = "result"
  /\ client' = [client EXCEPT ![p] = Idle]
  /\ UNCHANGED <<contents, key>>

Answer(p, value, memory) ==
  client' = [client EXCEPT ![p] = Result(value, memory)]

AtMost(m, n) == IF m < n THEN m ELSE n

\* User memory of len bytes that received the n oldest bytes of the pipe, after
\* the first skip bytes.
Filled(len, skip, n) ==
  [i \in 1..len |-> IF skip < i /\ i <= skip + n THEN contents[i - skip] ELSE Untouched]

\* The pipe without its n oldest bytes.
Remaining(n) == [i \in 1..(Len(contents) - n) |-> contents[i + n]]

\* User memory while a call is pending or when it failed before any copy.
Unfilled(p) ==
  IF client[p].kind = "read" THEN [i \in 1..client[p].len |-> Untouched] ELSE <<>>

ReadNothing(p) ==
  /\ client[p].kind = "read" /\ contents = <<>>
  /\ Answer(p, 0, Unfilled(p))
  /\ UNCHANGED <<contents, key>>

\* What is passed over counts as read, and stays in the pipe.
Read(p) ==
  /\ client[p].kind = "read" /\ contents # <<>>
  /\ \E skip \in Skip :
       LET most == AtMost(client[p].len, Len(contents))
           n == IF skip < most THEN most - skip ELSE 0
       IN  /\ Answer(p, skip + n, Filled(client[p].len, skip, n))
           /\ contents' = Remaining(n)
  /\ UNCHANGED key

\* A read whose copy fails loses more bytes than reached the process.
ReadFault(p) ==
  /\ client[p].kind = "read"
  /\ \E skip \in Skip :
       \E lost \in 1..(AtMost(client[p].len, Len(contents)) - skip) :
         \E got \in 0..(lost - 1) :
           /\ Answer(p, -EFAULT, Filled(client[p].len, skip, got))
           /\ contents' = Remaining(lost)
  /\ UNCHANGED key

Room == BufferSize - Len(contents)

WriteRefused(p) ==
  /\ client[p].kind = "write" /\ Room = 0
  /\ Answer(p, -ENOSPC, <<>>)
  /\ UNCHANGED <<contents, key>>

Write(p) ==
  /\ client[p].kind = "write" /\ Room # 0
  /\ LET n == AtMost(Len(client[p].buf), Room) IN
       /\ Answer(p, n, <<>>)
       /\ contents' = contents \o SubSeq(client[p].buf, 1, n)
  /\ UNCHANGED key

\* A write whose copy fails may have stored a proper prefix of its bytes.
WriteFault(p) ==
  /\ client[p].kind = "write"
  /\ \E n \in 0..(AtMost(Len(client[p].buf), Room) - 1) :
       contents' = contents \o SubSeq(client[p].buf, 1, n)
  /\ Answer(p, -EFAULT, <<>>)
  /\ UNCHANGED key

SetKey(p) ==
  /\ client[p].kind = "set_key"
  /\ key' = client[p].arg
  /\ contents' = [i \in DOMAIN contents |-> ByteXor(ByteXor(contents[i], key), key')]
  /\ Answer(p, 0, <<>>)

\* The calls that change nothing: a bad argument, command, or a signal.
Refused(p) ==
  /\ \/ client[p].kind = "set_key" /\ Answer(p, -EFAULT, <<>>)
     \/ client[p].kind = "bad_ioctl" /\ Answer(p, -ENOTTY, <<>>)
     \/ /\ client[p].kind \in {"read", "write", "set_key"}
        /\ Answer(p, -ERESTARTSYS, Unfilled(p))
  /\ UNCHANGED <<contents, key>>

Next ==
  \E p \in Proc :
    \/ \E r \in Calls : Call(p, r)
    \/ ReadNothing(p) \/ Read(p) \/ ReadFault(p)
    \/ WriteRefused(p) \/ Write(p) \/ WriteFault(p)
    \/ SetKey(p) \/ Refused(p)
    \/ Return(p)

Spec == Init /\ [][Next]_vars
=============================================================================
