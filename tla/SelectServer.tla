---------------------------- MODULE SelectServer ----------------------------
(***************************************************************************)
(* The chat server of hello-linux/networking/beej-guide-networkp/          *)
(* select-server.c: one process that waits in select on the listener and   *)
(* on every connection, scans the descriptors from 0 to fdmax, and keeps   *)
(* the ones to watch in a master set.  Clients connect, speak, read or do  *)
(* not, hang up when they like, and come back after the server dropped     *)
(* them; they and the kernel are external.                                 *)
(***************************************************************************)
EXTENDS Naturals, Sequences, FiniteSets

CONSTANTS
  Client,
  Quiet,      \* the clients that only listen: a bound of the runs, {} for all that is possible
  MaxFd,      \* the highest descriptor the process may have
  Garbage     \* bytes of the stack that no client sent

Listener == 3          \* after stdin, stdout and stderr
NoMessage == "none"    \* a recv that returned 0: nothing is sent

ASSUME ServerAssumption ==
  /\ MaxFd \in Nat /\ MaxFd > Listener
  /\ Garbage \notin Client /\ NoMessage \notin Client

VARIABLES
  pc,        \* select, scan (the loop over i), send (the loop over j), exit
  i, j,      \* the descriptors being looked at
  master, read_fds, fdmax,
  buf,       \* the message in buf, of the length nbytes says
  conn,      \* descriptor -> the client at the other end
  backlog,   \* the connections that wait for accept
  inbox,     \* the clients whose message was not received yet
  hung,      \* the clients that closed their end
  full,      \* the clients that have not read what they were sent: no more fits
  sent       \* what the server's last step sent, and to whom, or nothing

vars == <<pc, i, j, master, read_fds, fdmax, buf, conn, backlog, inbox, hung, full, sent>>
watched == <<master, read_fds, fdmax, conn, backlog>>
clients == <<inbox, hung, full>>

InBacklog(c) == \E k \in DOMAIN backlog : backlog[k] = c
Connected(c) == \E f \in DOMAIN conn : conn[f] = c

Lowest(S) == CHOOSE f \in S : \A g \in S : f <= g

\* Mutant: the listener is not added to the master set.
Init_NoListener ==
  /\ pc = "select" /\ i = 0 /\ j = 0
  /\ master = {} /\ read_fds = {} /\ fdmax = Listener
  /\ buf \in {Garbage, NoMessage}
  /\ conn = <<>> /\ backlog = <<>>
  /\ inbox = {} /\ hung = {} /\ full = {} /\ sent = {}

\* nbytes is not initialised: the first broadcast may send bytes of the stack.
Init ==
  /\ pc = "select" /\ i = 0 /\ j = 0
  /\ master = {Listener} /\ read_fds = {} /\ fdmax = Listener
  /\ buf \in {Garbage, NoMessage}
  /\ conn = <<>> /\ backlog = <<>>
  /\ inbox = {} /\ hung = {} /\ full = {} /\ sent = {}
-----------------------------------------------------------------------------
(* The clients.  One that the server dropped may come back.                *)

Connect(c) ==
  /\ pc # "exit" /\ ~InBacklog(c) /\ ~Connected(c)
  /\ backlog' = Append(backlog, c)
  /\ UNCHANGED <<pc, i, j, master, read_fds, fdmax, buf, conn, clients, sent>>

Speak(c) ==
  /\ pc # "exit"
  /\ InBacklog(c) \/ Connected(c)
  /\ c \notin inbox \union hung
  /\ inbox' = inbox \union {c}
  /\ UNCHANGED <<pc, i, j, watched, buf, hung, full, sent>>

HangUp(c) ==
  /\ pc # "exit"
  /\ InBacklog(c) \/ Connected(c)
  /\ c \notin hung
  /\ hung' = hung \union {c}
  /\ UNCHANGED <<pc, i, j, watched, buf, inbox, full, sent>>

\* The client reads, and there is room again.
Drain(c) ==
  /\ c \in full
  /\ full' = full \ {c}
  /\ UNCHANGED <<pc, i, j, watched, buf, inbox, hung, sent>>
-----------------------------------------------------------------------------
(* The server *)

Readable(f) ==
  IF f = Listener THEN backlog # <<>> ELSE conn[f] \in inbox \union hung

\* Mutant: the scan looks at the master set instead of what select returned.
Select_ScansMaster ==
  /\ pc = "select" /\ \E f \in master : Readable(f)
  /\ read_fds' = master
  /\ i' = 0 /\ pc' = "scan" /\ sent' = {}
  /\ UNCHANGED <<j, master, fdmax, buf, conn, backlog, clients>>

Select ==
  /\ pc = "select" /\ \E f \in master : Readable(f)
  /\ read_fds' = {f \in master : Readable(f)}
  /\ i' = 0 /\ pc' = "scan" /\ sent' = {}
  /\ UNCHANGED <<j, master, fdmax, buf, conn, backlog, clients>>

SelectFails ==
  /\ pc = "select"
  /\ pc' = "exit" /\ sent' = {}
  /\ UNCHANGED <<i, j, watched, buf, clients>>

FreeFds == {f \in (Listener + 1)..MaxFd : f \notin DOMAIN conn}

Scanning(f) == pc = "scan" /\ i = f /\ i <= fdmax

\* Mutant: fdmax is not raised for the new descriptor.
Accept_KeepsMax ==
  /\ Scanning(Listener) /\ i \in read_fds /\ FreeFds # {}
  /\ LET newfd == Lowest(FreeFds) IN
       /\ conn' = [f \in DOMAIN conn \union {newfd} |->
                     IF f = newfd THEN Head(backlog) ELSE conn[f]]
       /\ master' = master \union {newfd}
  /\ backlog' = Tail(backlog)
  /\ i' = i + 1 /\ sent' = {}
  /\ UNCHANGED <<pc, j, read_fds, fdmax, buf, clients>>

Accept ==
  /\ Scanning(Listener) /\ i \in read_fds /\ FreeFds # {}
  /\ LET newfd == Lowest(FreeFds) IN
       /\ conn' = [f \in DOMAIN conn \union {newfd} |->
                     IF f = newfd THEN Head(backlog) ELSE conn[f]]
       /\ master' = master \union {newfd}
       /\ fdmax' = IF newfd > fdmax THEN newfd ELSE fdmax
  /\ backlog' = Tail(backlog)
  /\ i' = i + 1 /\ sent' = {}
  /\ UNCHANGED <<pc, j, read_fds, buf, clients>>

\* accept fails for want of a descriptor; the connection stays in the backlog.
AcceptFails ==
  /\ Scanning(Listener) /\ i \in read_fds /\ FreeFds = {}
  /\ i' = i + 1 /\ sent' = {}
  /\ UNCHANGED <<pc, j, watched, buf, clients>>

\* What buf and nbytes may stand for after recv: the message, the end of the stream
\* or, when the client reset the connection, -1: as a length, more than the buffer.
Received(f) ==
  {IF conn[f] \in inbox THEN conn[f] ELSE NoMessage}
    \union IF conn[f] \in hung THEN {Garbage} ELSE {}

\* Mutant: the connection leaves the master set and is not closed.
Receive_NoClose(f) ==
  /\ Scanning(f) /\ f \in read_fds \ {Listener}
  /\ buf' \in Received(f)
  /\ inbox' = inbox \ {conn[f]}
  /\ master' = master \ {f}
  /\ i' = i + 1 /\ sent' = {}
  /\ UNCHANGED <<pc, j, read_fds, fdmax, conn, backlog, hung, full>>

\* recv, and then close whatever it returned: the connection and what it knew of
\* the client are gone.
Receive(f) ==
  /\ Scanning(f) /\ f \in read_fds \ {Listener}
  /\ buf' \in Received(f)
  /\ inbox' = inbox \ {conn[f]} /\ hung' = hung \ {conn[f]} /\ full' = full \ {conn[f]}
  /\ conn' = [g \in DOMAIN conn \ {f} |-> conn[g]]
  /\ master' = master \ {f}
  /\ i' = i + 1 /\ sent' = {}
  /\ UNCHANGED <<pc, j, read_fds, fdmax, backlog>>

\* The else branch: for every descriptor that is not ready, buf is sent again.
BeginSends(f) ==
  /\ Scanning(f) /\ f \notin read_fds
  /\ pc' = "send" /\ j' = 0 /\ sent' = {}
  /\ UNCHANGED <<i, watched, buf, clients>>

\* The descriptors the loop over j has still to send to.
Targets == {g \in master \ {Listener, i} : j <= g /\ g <= fdmax}

\* No more fits into the connection, and the client neither reads nor hangs up.
Blocked(c) == c \in full \ hung

\* send copies the message, unless there is no room: then it waits for the client.
\* A message of no length needs none.
Send ==
  /\ pc = "send" /\ Targets # {}
  /\ LET g == Lowest(Targets) IN
       /\ buf = NoMessage \/ ~Blocked(conn[g])
       /\ j' = g + 1
       /\ sent' = IF buf = NoMessage THEN {} ELSE {[to |-> conn[g], what |-> buf]}
       /\ full' \in {full} \union IF buf = NoMessage THEN {} ELSE {full \union {conn[g]}}
  /\ UNCHANGED <<pc, i, watched, buf, inbox, hung>>

\* A send to a client that hung up raises SIGPIPE, which nothing catches.
BrokenPipe ==
  /\ pc = "send" /\ Targets # {} /\ conn[Lowest(Targets)] \in hung
  /\ pc' = "exit" /\ sent' = {}
  /\ UNCHANGED <<i, j, watched, buf, clients>>

\* What j, and then i and read_fds, hold is not looked at again.
EndSends ==
  /\ pc = "send" /\ Targets = {}
  /\ pc' = "scan" /\ i' = i + 1 /\ j' = 0 /\ sent' = {}
  /\ UNCHANGED <<watched, buf, clients>>

EndScan ==
  /\ pc = "scan" /\ i > fdmax
  /\ pc' = "select" /\ i' = 0 /\ read_fds' = {} /\ sent' = {}
  /\ UNCHANGED <<j, master, fdmax, buf, conn, backlog, clients>>

ServerStep ==
  \/ Select \/ Accept \/ AcceptFails \/ Send \/ EndSends \/ EndScan
  \/ \E f \in 0..MaxFd : Receive(f) \/ BeginSends(f)

Next ==
  \/ ServerStep \/ SelectFails \/ BrokenPipe
  \/ \E c \in Client : Connect(c) \/ Drain(c)
  \/ \E c \in Client \ Quiet : Speak(c) \/ HangUp(c)

Spec == Init /\ [][Next]_vars

\* The scheduler runs the server.
FairSpec == Spec /\ WF_vars(ServerStep)
-----------------------------------------------------------------------------
TypeOK ==
  /\ pc \in {"select", "scan", "send", "exit"} /\ fdmax \in Listener..MaxFd
  /\ i \in 0..(fdmax + 1) /\ j \in 0..(fdmax + 1) /\ (pc = "send" => i <= fdmax)
  /\ DOMAIN conn \subseteq (Listener + 1)..MaxFd
  /\ \A f \in DOMAIN conn : conn[f] \in Client
  /\ buf \in Client \union {Garbage, NoMessage}
  /\ inbox \subseteq Client /\ hung \subseteq Client /\ full \subseteq Client

\* select watches the listener and exactly the open connections, and scans all
\* of them: no closed descriptor (select would fail with EBADF and end the
\* server), no open one forgotten, none above fdmax, although descriptor
\* numbers are reused while a scan is under way.
WatchesOpenConnections ==
  /\ master = {Listener} \union DOMAIN conn
  /\ \A f \in master : f <= fdmax

\* accept and recv do not wait: what the scan goes on to read is ready, whatever
\* was accepted, closed and sent since select.  (send may wait.)
ReadNeverBlocks ==
  pc \in {"scan", "send"} =>
    \A f \in read_fds : i <= f => f \in master /\ Readable(f)

\* A client is sent what other clients said: "we got some data from a client"
\* (select-server.c:85).
OnlyMessagesSent == \A s \in sent : s.what \in Client

\* A message goes to everybody but the listener and the client it came from:
\* "except the listener and ourselves" (select-server.c:89).
NeverSentBack == \A s \in sent : s.what # s.to

\* No client stops reading for good while it stays connected: the send of
\* select-server.c:91 would hold the server for ever.
EverybodyReads == \A c \in Client : []<>~Blocked(c)

\* As long as everybody reads, every connection is accepted in the end, whatever
\* else the others do, unless the descriptors run out.
EveryoneAccepted ==
  EverybodyReads =>
    \A c \in Client : InBacklog(c) ~> (~InBacklog(c) \/ FreeFds = {} \/ pc = "exit")

\* As long as everybody reads, the descriptor of a client that hung up is given
\* back.
HungUpReleased ==
  EverybodyReads =>
    \A c \in Client : c \in hung /\ Connected(c) ~> ~Connected(c) \/ pc = "exit"
=============================================================================
