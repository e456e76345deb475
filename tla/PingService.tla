---------------------------- MODULE PingService ----------------------------
(***************************************************************************)
(* What the network promises somebody who pings: an answer comes only to a *)
(* ping that was sent, and only after the machine it names has seen it.    *)
(* The network's own addresses see a ping and answer it at once.           *)
(***************************************************************************)
CONSTANTS
  Pings,    \* the pings somebody may send
  Own       \* those for an address of the network itself

VARIABLES asked, reached, answered

vars == <<asked, reached, answered>>

Init == asked = {} /\ reached = {} /\ answered = {}

Ask(p) ==
  /\ p \notin asked
  /\ asked' = asked \union {p}
  /\ UNCHANGED <<reached, answered>>

Reach(p) ==
  /\ p \in asked \ reached
  /\ reached' = reached \union {p}
  /\ answered' = IF p \in Own THEN answered \union {p} ELSE answered
  /\ UNCHANGED asked

\* An own address answers again when its first answer was lost.
Lose(p) ==
  /\ p \in Own \intersect (asked \ reached)
  /\ reached' = reached \union {p}
  /\ UNCHANGED <<asked, answered>>

Answer(p) ==
  /\ p \in reached \ answered
  /\ answered' = answered \union {p}
  /\ UNCHANGED <<asked, reached>>

Next == \E p \in Pings : Ask(p) \/ Reach(p) \/ Lose(p) \/ Answer(p)

Spec == Init /\ [][Next]_vars
=============================================================================
