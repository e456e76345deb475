----------------------------- MODULE ForkServer -----------------------------
(***************************************************************************)
(* The two servers that fork a child for each connection:                  *)
(* hello-linux/networking/beej-guide-networkp/server.c ("hello": the child *)
(* sends one greeting) and hello-linux/networking/simple-application/      *)
(* server.c ("echo": the child answers until the client hangs up).  The    *)
(* parent accepts, forks and closes its copy of the connection; the client *)
(* sees the end of the stream once no process has the connection open.     *)
(***************************************************************************)
EXTENDS Naturals, FiniteSets

CONSTANTS
  Client,
  MaxChildren   \* RLIMIT_NPROC: the children, zombies included, there may be

ASSUME ServerAssumption == MaxChildren \in Nat \ {0}

VARIABLES
  program,   \* the server that runs: hello or echo
  pc,        \* the parent: accept, fork, close
  new_fd,    \* the client whose connection the parent is handing over
  parent,    \* the clients whose connection the parent has open
  backlog,   \* the connections that wait for accept
  client,    \* away, connected, hung up
  child,     \* the child of each client: none, running, zombie, gone
  message    \* of each client: none, text or NUL on its way, answered, read

serverVars == <<program, pc, new_fd, parent, backlog, client, child, message>>

NoClient == "none"

ServersInit ==
  /\ program \in {"hello", "echo"}
  /\ pc = "accept" /\ new_fd = NoClient
  /\ parent = {} /\ backlog = {}
  /\ client = [c \in Client |-> "away"]
  /\ child = [c \in Client |-> "none"]
  /\ message = [c \in Client |-> "none"]
-----------------------------------------------------------------------------
(* The clients.  The kernel completes a connection before it is accepted:  *)
(* a client may write to it, and leave it, while it waits in the backlog.  *)

Connect(c) ==
  /\ client[c] = "away"
  /\ client' = [client EXCEPT ![c] = "connected"]
  /\ backlog' = backlog \union {c}
  /\ UNCHANGED <<program, pc, new_fd, parent, child, message>>

\* A message for the echo server, a string or one that starts with a NUL.
Request(c) ==
  /\ program = "echo" /\ client[c] = "connected" /\ message[c] = "none"
  /\ \E m \in {"text", "NUL"} : message' = [message EXCEPT ![c] = m]
  /\ UNCHANGED <<program, pc, new_fd, parent, backlog, client, child>>

HangUp(c) ==
  /\ client[c] = "connected"
  /\ client' = [client EXCEPT ![c] = "hung up"]
  /\ UNCHANGED <<program, pc, new_fd, parent, backlog, child, message>>
-----------------------------------------------------------------------------
(* The parent.  An accept that fails is repeated at once. *)

Accept(c) ==
  /\ pc = "accept" /\ c \in backlog
  /\ backlog' = backlog \ {c}
  /\ parent' = parent \union {c}
  /\ new_fd' = c
  /\ pc' = "fork"
  /\ UNCHANGED <<program, client, child, message>>

Children == Cardinality({c \in Client : child[c] \in {"running", "zombie"}})

Fork ==
  /\ pc = "fork" /\ Children < MaxChildren
  /\ child' = [child EXCEPT ![new_fd] = "running"]
  /\ pc' = "close"
  /\ UNCHANGED <<program, new_fd, parent, backlog, client, message>>

\* "hello" takes -1 for the parent's side of the fork and goes on; "echo" closes
\* the connection here and again where the parent always does.
ForkFails ==
  /\ pc = "fork" /\ Children = MaxChildren
  /\ parent' = IF program = "echo" THEN parent \ {new_fd} ELSE parent
  /\ pc' = "close"
  /\ UNCHANGED <<program, new_fd, backlog, client, child, message>>

\* Mutant: the parent keeps its copy of the connection.
Close_Forgotten ==
  /\ pc = "close"
  /\ pc' = "accept"
  /\ new_fd' = NoClient
  /\ UNCHANGED <<program, parent, backlog, client, child, message>>

\* Mutant: the parent waits for the child before the next accept.
Close_WaitsForChild ==
  /\ pc = "close" /\ child[new_fd] # "running"
  /\ parent' = parent \ {new_fd}
  /\ pc' = "accept"
  /\ new_fd' = NoClient
  /\ UNCHANGED <<program, backlog, client, child, message>>

\* A second close of the same number is EBADF: nothing was opened in between.
Close ==
  /\ pc = "close"
  /\ parent' = parent \ {new_fd}
  /\ pc' = "accept"
  /\ new_fd' = NoClient
  /\ UNCHANGED <<program, backlog, client, child, message>>
-----------------------------------------------------------------------------
(* The children *)

\* "echo" ignores SIGCHLD, and the kernel reaps its children; "hello" prepares a
\* struct sigaction, never installs it, and never waits for a child.
Exited == IF program = "echo" THEN "gone" ELSE "zombie"

\* The greeting, and the exit that follows whether or not it could be sent.
Greet(c) ==
  /\ program = "hello" /\ child[c] = "running"
  /\ message' = [message EXCEPT ![c] = "answered"]
  /\ child' = [child EXCEPT ![c] = Exited]
  /\ UNCHANGED <<program, pc, new_fd, parent, backlog, client>>

\* What is written back ends before the first NUL, and may be nothing.
Echo(c) ==
  /\ program = "echo" /\ child[c] = "running" /\ message[c] \in {"text", "NUL"}
  /\ message' = [message EXCEPT ![c] = IF @ = "text" THEN "answered" ELSE "read"]
  /\ UNCHANGED <<program, pc, new_fd, parent, backlog, client, child>>

\* Mutant: the child takes any result of read for the end of the stream.
Leave_AnyRead(c) ==
  /\ program = "echo" /\ child[c] = "running"
  /\ client[c] = "hung up" \/ message[c] = "text"
  /\ child' = [child EXCEPT ![c] = Exited]
  /\ UNCHANGED <<program, pc, new_fd, parent, backlog, client, message>>

\* The client hung up: read returns 0 or an error, or a write fails.
Leave(c) ==
  /\ program = "echo" /\ child[c] = "running" /\ client[c] = "hung up"
  /\ child' = [child EXCEPT ![c] = Exited]
  /\ UNCHANGED <<program, pc, new_fd, parent, backlog, client, message>>

ServerChildStep(c) == Greet(c) \/ Echo(c) \/ Leave(c)
-----------------------------------------------------------------------------
ParentStep == Fork \/ ForkFails \/ Close \/ \E c \in Client : Accept(c)

ServersNext ==
  \/ ParentStep
  \/ \E c \in Client : Connect(c) \/ Request(c) \/ HangUp(c) \/ ServerChildStep(c)

\* The scheduler runs every process, and the backlog is a queue: accept does not
\* pass over a client for ever.
ServersSpec ==
  /\ ServersInit /\ [][ServersNext]_serverVars
  /\ WF_serverVars(ParentStep)
  /\ \A c \in Client : WF_serverVars(ServerChildStep(c)) /\ SF_serverVars(Accept(c))
-----------------------------------------------------------------------------
\* No client is kept waiting by another one: not by one whose child is busy or
\* silent for ever, not by one that left before it was accepted, and not by a fork
\* that failed because the zombies of "hello" use up the processes it may have.
NobodyWaitsForAnother == \A c \in Client : c \in backlog ~> c \notin backlog

Held(c) == c \in parent \/ child[c] = "running"

\* A client sees the end of its stream: no process keeps the connection after
\* the greeting, or after the client hung up, on any path.
StreamEnds ==
  \A c \in Client :
    Held(c) /\ (program = "hello" \/ client[c] = "hung up") ~> ~Held(c)

\* A client that got a child is greeted, or the string it sent is echoed, as long
\* as it stays.
RequestsAnswered ==
  \A c \in Client :
    child[c] = "running" /\ (program = "hello" \/ message[c] = "text")
      ~> message[c] = "answered" \/ client[c] = "hung up"
=============================================================================
