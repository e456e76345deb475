--------------------------- MODULE MCForkServers ---------------------------
(* The forking servers for TLC, in two scenes that do not mix: the parent,   *)
(* its children and its clients, for either server; and one session of the   *)
(* echo server, byte by byte.                                                *)
EXTENDS ForkServer, EchoSession

VARIABLE scene

ServersIdle ==
  /\ program = "hello" /\ pc = "accept" /\ new_fd = NoClient
  /\ parent = {} /\ backlog = {}
  /\ client = [c \in Client |-> "away"]
  /\ child = [c \in Client |-> "none"]
  /\ message = [c \in Client |-> "none"]

SessionIdle ==
  /\ cpc = "prompt" /\ buffer = <<>> /\ typed = 0 /\ eof = FALSE
  /\ spc = "read" /\ echo = <<>> /\ up = <<>> /\ down = <<>>

MCInit ==
  \/ scene = "servers" /\ ServersInit /\ SessionIdle
  \/ scene = "session" /\ Init /\ ServersIdle

mcVars == <<serverVars, vars, scene>>

\* The action A of a scene, which leaves the other's state alone.
InServers(A) == scene = "servers" /\ A /\ UNCHANGED <<vars, scene>>
InSession(A) == scene = "session" /\ A /\ UNCHANGED <<serverVars, scene>>

MCNext == InServers(ServersNext) \/ InSession(Next)

\* The fairness of ServersSpec and of FairSpec.
MCSpec ==
  /\ MCInit /\ [][MCNext]_mcVars
  /\ WF_mcVars(InServers(ParentStep))
  /\ \A c \in Client :
       WF_mcVars(InServers(ServerChildStep(c))) /\ SF_mcVars(InServers(Accept(c)))
  /\ WF_mcVars(InSession(ChildStep)) /\ WF_mcVars(InSession(ClientStep))
=============================================================================
