---------------------------- MODULE PacketDevice ----------------------------
(***************************************************************************)
(* What the one-packet devices simple-driver.c and tun_custom_char.c are   *)
(* to programs that take turns: a slot with the last packet written, whose *)
(* calls take effect in one step.  Programs that do not take turns are     *)
(* promised nothing here.                                                  *)
(***************************************************************************)
EXTENDS Integers, Sequences

CONSTANTS Proc, Size, Zero, Calls

VARIABLES
  program,   \* simple or tun
  turns,     \* the programs take turns
  packet,    \* what the slot holds
  pos,       \* the position of each open file
  client     \* idle, the call a process waits for, or its result

vars == <<program, turns, packet, pos, client>>

EFAULT == 14

Idle == [kind |-> "idle"]
Result(value, memory) == [kind |-> "result", value |-> value, memory |-> memory]
Answer(p, value, memory) == client' = [client EXCEPT ![p] = Result(value, memory)]
AtMost(m, n) == IF m < n THEN m ELSE n

Init ==
  /\ program \in {"simple", "tun"} /\ turns \in BOOLEAN
  /\ packet = <<>>
  /\ pos = [p \in Proc |-> 0]
  /\ client = [p \in Proc |-> Idle]

MyTurn == \A p \in Proc : client[p].kind \notin {"read", "write"}

Call(p, r) ==
  /\ MyTurn /\ client[p] = Idle
  /\ client' = [client EXCEPT ![p] = r]
  /\ UNCHANGED <<packet, pos>>

\* vpn_app puts back the very packet it took.
Reinject(p) ==
  /\ MyTurn /\ client[p].kind = "result" /\ client[p].value > 0
  /\ client' = [client EXCEPT ![p] = [kind |-> "write", buf |-> client[p].memory]]
  /\ UNCHANGED <<packet, pos>>

Return(p) ==
  /\ client[p].kind = "result"
  /\ client' = [client EXCEPT ![p] = Idle]
  /\ UNCHANGED <<packet, pos>>

Reopen(p) ==
  /\ client[p] = Idle
  /\ pos' = [pos EXCEPT ![p] = 0]
  /\ UNCHANGED <<packet, client>>

\* The bytes a read is due.
Due(p) ==
  IF program = "simple" /\ pos[p] > 0 THEN 0 ELSE AtMost(client[p].len, Len(packet))

\* simple shows the start of the packet to each file once and keeps the packet;
\* tun gives it to one reader, with what did not fit.
Read(p) ==
  /\ client[p].kind = "read"
  /\ Answer(p, Due(p), SubSeq(packet, 1, Due(p)))
  /\ IF program = "simple"
       THEN pos' = [pos EXCEPT ![p] = @ + Due(p)] /\ UNCHANGED packet
       ELSE packet' = <<>> /\ UNCHANGED pos

\* A copy to user memory that fails half way leaves the packet where it is.
ReadFails(p) ==
  /\ client[p].kind = "read"
  /\ \E k \in 0..(Due(p) - 1) : Answer(p, -EFAULT, SubSeq(packet, 1, k))
  /\ UNCHANGED <<packet, pos>>

Fitting(p) == AtMost(Len(client[p].buf), Size)

Write(p) ==
  /\ client[p].kind = "write"
  /\ packet' = SubSeq(client[p].buf, 1, Fitting(p))
  /\ Answer(p, Fitting(p), <<>>)
  /\ UNCHANGED pos

\* A copy from user memory that fails after k bytes clears the rest: the packet
\* keeps its length, but not its contents as far as the write would have gone.
WriteFails(p) ==
  /\ client[p].kind = "write"
  /\ \E k \in 0..(Fitting(p) - 1) :
       packet' = [i \in DOMAIN packet |->
         CASE i <= k -> client[p].buf[i] [] i \in (k + 1)..Fitting(p) -> Zero
           [] OTHER -> packet[i]]
  /\ Answer(p, -EFAULT, <<>>)
  /\ UNCHANGED pos

Step ==
  \E p \in Proc :
    \/ \E r \in Calls : Call(p, r)
    \/ Read(p) \/ ReadFails(p) \/ Write(p) \/ WriteFails(p)
    \/ Reinject(p) \/ Return(p) \/ Reopen(p)

Next == (turns => Step) /\ UNCHANGED <<program, turns>>

Spec == Init /\ [][Next]_vars
=============================================================================
