------------------------- MODULE SelectServerProofs -------------------------
(***************************************************************************)
(* Proofs about the chat server for any number of clients and descriptors: *)
(* it watches exactly its open connections, and accept and recv are called *)
(* for descriptors that are ready.                                         *)
(***************************************************************************)
EXTENDS SelectServer, SequenceTheorems, WellFoundedInduction, TLAPS

Types ==
  /\ TypeOK /\ backlog \in Seq(Client) /\ read_fds \subseteq Listener..MaxFd

\* A client has one place: a descriptor, or one position in the backlog.
OnePlaceEach ==
  /\ \A f, g \in DOMAIN conn : conn[f] = conn[g] => f = g
  /\ \A k, l \in DOMAIN backlog : backlog[k] = backlog[l] => k = l
  /\ \A k \in DOMAIN backlog : ~Connected(backlog[k])

\* ReadNeverBlocks needs OnePlaceEach: a recv takes away the message of one
\* descriptor only.
IInv == Types /\ WatchesOpenConnections /\ ReadNeverBlocks /\ OnePlaceEach

\* accept returns the lowest of the free descriptors, and the loop over j goes on
\* with the lowest of those that are left.
LEMMA LowestProperties ==
  ASSUME NEW S \in SUBSET Nat, S # {}
  PROVE  Lowest(S) \in S /\ \A g \in S : Lowest(S) <= g
<1>2. PICK f \in S : \A g \in S : <<g, f>> \notin OpToRel(<, Nat)
  BY NatLessThanWellFounded, WFMin
<1>3. \A g \in S : f <= g
  <2>. SUFFICES ASSUME NEW g \in S, g < f PROVE FALSE
    OBVIOUS
  <2>1. <<g, f>> \in OpToRel(<, Nat)
    BY DEF OpToRel
  <2>. QED BY <1>2, <2>1
<1>. QED BY <1>3 DEF Lowest

\* The listener is watched, and nobody is connected.
LEMMA InitInv == Init => IInv
<1>. SUFFICES ASSUME Init PROVE IInv
  OBVIOUS
<1>1. DOMAIN conn = {} /\ DOMAIN backlog = {} /\ backlog \in Seq(Client)
  BY DEF Init
<1>2. Types
  BY <1>1, ServerAssumption DEF Init, Types, TypeOK, Listener
<1>3. OnePlaceEach
  BY <1>1 DEF Init, OnePlaceEach
<1>. QED BY <1>1, <1>2, <1>3, ServerAssumption
         DEF Init, IInv, WatchesOpenConnections, ReadNeverBlocks, Listener

\* Clients take places in the backlog, speak and hang up: what was readable
\* stays so.
LEMMA ClientStep ==
  ASSUME IInv, NEW c \in Client, Connect(c) \/ Speak(c) \/ HangUp(c) \/ Drain(c)
  PROVE  IInv'
<1>. USE DEF IInv, Types, TypeOK, clients
<1>1. CASE Connect(c)
  <2>1. /\ backlog' \in Seq(Client) /\ backlog' # <<>>
        /\ DOMAIN backlog' = 1..(Len(backlog) + 1) /\ backlog'[Len(backlog) + 1] = c
        /\ DOMAIN backlog = 1..Len(backlog) /\ Len(backlog) \in Nat
        /\ \A k \in 1..Len(backlog) : backlog'[k] = backlog[k]
    BY <1>1, AppendProperties DEF Connect
  <2>2. Types'
    BY <1>1, <2>1 DEF Connect
  <2>3. WatchesOpenConnections'
    BY <1>1 DEF Connect, WatchesOpenConnections
  <2>4. ReadNeverBlocks'
    BY <1>1, <2>1 DEF Connect, ReadNeverBlocks, Readable
  <2>5. OnePlaceEach'
    BY <1>1, <2>1 DEF Connect, OnePlaceEach, Connected, InBacklog
  <2>. QED BY <2>2, <2>3, <2>4, <2>5
<1>2. CASE Speak(c) \/ HangUp(c) \/ Drain(c)
  <2>1. UNCHANGED <<pc, i, j, watched, buf>>
    BY <1>2 DEF Speak, HangUp, Drain
  <2>2. inbox \subseteq inbox' /\ hung \subseteq hung'
    BY <1>2 DEF Speak, HangUp, Drain
  <2>3. Types'
    BY <1>2, <2>1 DEF Speak, HangUp, Drain, watched
  <2>4. ReadNeverBlocks'
    BY <2>1, <2>2 DEF ReadNeverBlocks, Readable, watched
  <2>. QED BY <2>1, <2>3, <2>4
           DEF WatchesOpenConnections, OnePlaceEach, Connected, watched
<1>. QED BY <1>1, <1>2

\* select reports what is readable, and the scan begins below every descriptor.
LEMMA SelectStep == ASSUME IInv, Select PROVE IInv'
<1>. USE DEF IInv, Types, TypeOK, clients
<1>1. read_fds' \subseteq master /\ \A f \in read_fds' : Readable(f)
  BY DEF Select
<1>2. master \subseteq Listener..MaxFd
  BY ServerAssumption DEF WatchesOpenConnections, Listener
<1>3. Types'
  <2>1. read_fds' \subseteq Listener..MaxFd
    BY <1>1, <1>2
  <2>2. i' = 0 /\ fdmax' = fdmax /\ fdmax \in Nat /\ pc' = "scan"
    BY ServerAssumption DEF Select, Listener
  <2>. QED BY <2>1, <2>2 DEF Select
<1>4. ReadNeverBlocks'
  BY <1>1 DEF Select, ReadNeverBlocks, Readable
<1>. QED BY <1>3, <1>4 DEF Select, WatchesOpenConnections, OnePlaceEach, Connected

\* The connection at the head of the backlog moves to the lowest free descriptor.
LEMMA AcceptStep == ASSUME IInv, Accept PROVE IInv'
<1>. USE DEF IInv, Types, TypeOK, clients
<1>. DEFINE new == Lowest(FreeFds)
            c == Head(backlog)
<1>1. new \in (Listener + 1)..MaxFd /\ new \notin DOMAIN conn
  <2>1. FreeFds # {} /\ FreeFds \subseteq Nat
    BY ServerAssumption DEF Accept, FreeFds, Listener
  <2>. QED BY <2>1, LowestProperties DEF FreeFds
<1>2. pc = "scan" /\ i = Listener /\ i \in read_fds /\ backlog # <<>>
  BY ServerAssumption DEF Accept, Scanning, ReadNeverBlocks, Readable, Listener
<1>3. /\ c \in Client /\ backlog' \in Seq(Client) /\ c = backlog[1]
      /\ Len(backlog) \in Nat \ {0} /\ DOMAIN backlog = 1..Len(backlog)
      /\ DOMAIN backlog' = 1..(Len(backlog) - 1)
      /\ \A k \in DOMAIN backlog' : backlog'[k] = backlog[k + 1]
  BY <1>2, HeadTailProperties DEF Accept
<1>4. /\ DOMAIN conn' = DOMAIN conn \union {new} /\ conn'[new] = c
      /\ \A f \in DOMAIN conn : conn'[f] = conn[f]
  BY <1>1 DEF Accept
<1>5. fdmax' \in fdmax..MaxFd /\ new <= fdmax'
  BY <1>1, ServerAssumption DEF Accept, Listener
<1>6. Types'
  BY <1>1, <1>2, <1>3, <1>4, <1>5, ServerAssumption DEF Accept, Listener
<1>7. WatchesOpenConnections'
  BY <1>1, <1>4, <1>5, ServerAssumption DEF Accept, WatchesOpenConnections, Listener
<1>8. ReadNeverBlocks'
  <2>. SUFFICES ASSUME NEW f \in read_fds, i + 1 <= f
       PROVE  f \in master' /\ Readable(f)'
    BY DEF Accept, ReadNeverBlocks
  <2>1. f \in master /\ f # Listener /\ Readable(f)
    BY <1>2, ServerAssumption DEF ReadNeverBlocks, Listener
  <2>. QED BY <1>4, <2>1 DEF Accept, Readable, WatchesOpenConnections
<1>9. OnePlaceEach'
  <2>1. \A f \in DOMAIN conn : conn[f] # c
    BY <1>3 DEF OnePlaceEach, Connected
  <2>2. \A k \in DOMAIN backlog' : backlog'[k] # c
    BY <1>3 DEF OnePlaceEach
  <2>3. \A f, g \in DOMAIN conn' : conn'[f] = conn'[g] => f = g
    BY <1>4, <2>1 DEF OnePlaceEach
  <2>4. \A k, l \in DOMAIN backlog' : backlog'[k] = backlog'[l] => k = l
    BY <1>3 DEF OnePlaceEach
  <2>5. \A k \in DOMAIN backlog' : ~Connected(backlog[k + 1])
    BY <1>3 DEF OnePlaceEach
  <2>6. (\A k \in DOMAIN backlog : ~Connected(backlog[k]))'
    BY <1>3, <1>4, <2>2, <2>5 DEF Connected
  <2>. QED BY <2>3, <2>4, <2>6 DEF OnePlaceEach
<1>. QED BY <1>6, <1>7, <1>8, <1>9

\* recv, and close: the client's one descriptor is gone, the others are as they were.
LEMMA ReceiveStep == ASSUME IInv, NEW f \in 0..MaxFd, Receive(f) PROVE IInv'
<1>. USE DEF IInv, Types, TypeOK
<1>1. pc = "scan" /\ i = f /\ f <= fdmax /\ f \in DOMAIN conn /\ f # Listener
  BY ServerAssumption DEF Receive, Scanning, ReadNeverBlocks, WatchesOpenConnections, Listener
<1>2. conn[f] \in Client
  BY <1>1
<1>3. /\ DOMAIN conn' = DOMAIN conn \ {f}
      /\ \A g \in DOMAIN conn' : conn'[g] = conn[g] /\ conn[g] # conn[f]
  BY <1>1 DEF Receive, OnePlaceEach
<1>4. buf' \in {conn[f], Garbage, NoMessage}
  BY DEF Receive, Received
<1>5. Types'
  BY <1>1, <1>2, <1>3, <1>4, ServerAssumption DEF Receive, Listener
<1>6. WatchesOpenConnections'
  BY <1>1, <1>3, ServerAssumption DEF Receive, WatchesOpenConnections, Listener
<1>7. ReadNeverBlocks'
  <2>. SUFFICES ASSUME NEW g \in read_fds, i + 1 <= g
       PROVE  g \in master' /\ Readable(g)'
    BY DEF Receive, ReadNeverBlocks
  <2>1. g \in master /\ g # f /\ g # Listener /\ Readable(g)
    BY <1>1, ServerAssumption DEF ReadNeverBlocks, Listener
  <2>2. g \in DOMAIN conn'
    BY <1>3, <2>1 DEF WatchesOpenConnections
  <2>. QED BY <1>3, <2>1, <2>2 DEF Receive, Readable
<1>8. OnePlaceEach'
  BY <1>3 DEF Receive, OnePlaceEach, Connected
<1>. QED BY <1>5, <1>6, <1>7, <1>8

\* A send looks at a connection that is open, and moves j on.
LEMMA SendStep == ASSUME IInv, Send PROVE IInv'
<1>. USE DEF IInv, Types, TypeOK
<1>1. Targets # {} /\ Targets \subseteq Nat
  BY ServerAssumption DEF Send, Targets, WatchesOpenConnections, Listener
<1>2. Lowest(Targets) \in Targets
  BY <1>1, LowestProperties
<1>3. Lowest(Targets) \in DOMAIN conn /\ Lowest(Targets) \in 0..fdmax
  BY <1>2, ServerAssumption DEF Targets, WatchesOpenConnections, Listener
<1>4. j' \in 0..(fdmax + 1)
  BY <1>3, ServerAssumption DEF Send, Listener
<1>5. full' \subseteq Client
  BY <1>3 DEF Send
<1>6. UNCHANGED <<pc, i, master, read_fds, fdmax, conn, backlog, buf, inbox, hung>>
  BY DEF Send, watched
<1>7. Types'
  BY <1>4, <1>5, <1>6
<1>. QED BY <1>6, <1>7
         DEF WatchesOpenConnections, ReadNeverBlocks, Readable, OnePlaceEach, Connected

\* The steps that move only pc and the positions of the loops.
LEMMA LoopStep ==
  ASSUME IInv,
         AcceptFails \/ EndScan \/ EndSends \/ SelectFails \/ BrokenPipe
           \/ \E f \in 0..MaxFd : BeginSends(f)
  PROVE  IInv'
<1>. USE DEF IInv, Types, TypeOK
<1>1. /\ UNCHANGED <<master, fdmax, buf, conn, backlog, inbox, hung, full>>
      /\ pc' \in {"select", "scan", "send", "exit"}
      /\ read_fds' \in {read_fds, {}}
      /\ i' \in {i, i + 1, 0} /\ j' \in {j, 0}
      /\ i' = i + 1 => i <= fdmax
      /\ pc' = "send" => i' = i /\ i <= fdmax
      /\ pc' \in {"scan", "send"} => pc \in {"scan", "send"} /\ i' \in {i, i + 1}
      /\ pc' \in {"scan", "send"} => read_fds' = read_fds
  BY DEF AcceptFails, Scanning, EndScan, EndSends, SelectFails, BrokenPipe, BeginSends,
         watched, clients
<1>2. Types'
  BY <1>1, ServerAssumption DEF Listener
<1>3. ReadNeverBlocks'
  BY <1>1, ServerAssumption DEF ReadNeverBlocks, Readable, Listener
<1>. QED BY <1>1, <1>2, <1>3 DEF WatchesOpenConnections, OnePlaceEach, Connected

\* Every step of the server and of its clients keeps the invariant.
THEOREM Invariance == Spec => []IInv
<1>1. ASSUME IInv, [Next]_vars PROVE IInv'
  <2>1. CASE ServerStep
    BY <1>1, <2>1, SelectStep, AcceptStep, ReceiveStep, SendStep, LoopStep DEF ServerStep
  <2>2. CASE SelectFails \/ BrokenPipe
    BY <1>1, <2>2, LoopStep
  <2>3. CASE \E c \in Client : Connect(c) \/ Speak(c) \/ HangUp(c) \/ Drain(c)
    BY <1>1, <2>3, ClientStep
  <2>4. CASE UNCHANGED vars
    BY <1>1, <2>4
       DEF vars, clients, IInv, Types, TypeOK, WatchesOpenConnections, ReadNeverBlocks,
           Readable, OnePlaceEach, Connected
  <2>. QED BY <1>1, <2>1, <2>2, <2>3, <2>4 DEF Next
<1>. QED BY <1>1, InitInv, PTL DEF Spec

\* However descriptor numbers are reused during a scan, select-server.c watches
\* exactly its open connections, and none above fdmax.
THEOREM WatchSetExact == Spec => []WatchesOpenConnections
<1>1. IInv => WatchesOpenConnections
  BY DEF IInv
<1>. QED BY <1>1, Invariance, PTL

\* accept and recv are called only for descriptors that are still ready, however long
\* the sends of the scan before them took.
THEOREM AcceptAndRecvReady == Spec => []ReadNeverBlocks
<1>1. IInv => ReadNeverBlocks
  BY DEF IInv
<1>. QED BY <1>1, Invariance, PTL
=============================================================================
