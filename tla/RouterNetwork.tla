--------------------------- MODULE RouterNetwork ---------------------------
(***************************************************************************)
(* The router between the two networks that network-driver/setup.sh lays   *)
(* out: behind each tap one Linux host whose default gateway is the        *)
(* router's address on that tap.  The hosts are external: they look the    *)
(* gateway up by ARP and forget it again, send pings and repeat them,      *)
(* answer the pings that reach them, and ignore what is not meant for them *)
(* or does not verify.                                                     *)
(*                                                                         *)
(* A frame the router writes to a tap is taken in by the host in the same  *)
(* step, or lost.  A frame a host sends waits in the queue of its tap.     *)
(***************************************************************************)
EXTENDS Router

CONSTANTS
  Pings,     \* the pings somebody may send: the tap of the asker, and an address
  MaxLosses, \* bound: the frames lost on their way to a host, and failed reads
  NoMac      \* the gateway is not in the ARP cache

HostMac(t) == IF t = "tap0" THEN "host0" ELSE "host1"
HostIp(t) == IF t = "tap0" THEN "192.168.1.2" ELSE "192.168.2.2"

ASSUME NetworkAssumption ==
  /\ Pings \subseteq Tap \X STRING
  /\ MaxLosses \in Nat

VARIABLES
  cache,   \* the hardware address each host believes its gateway has
  asked,   \* the pings somebody wants answered
  reached, \* those the machine they name has seen
  answered,\* those that came back
  owed,    \* the addresses each host has still to answer
  losses

hosts == <<cache, asked, reached, answered, owed, losses>>
nvars == <<vars, hosts>>

NetworkInit ==
  /\ Init /\ program = "ipv4"
  /\ cache = [t \in Tap |-> NoMac]
  /\ asked = {} /\ reached = {} /\ answered = {}
  /\ owed = [t \in Tap |-> {}]
  /\ losses = 0
-----------------------------------------------------------------------------
(* What a host sends.                                                      *)

Frame(t, dst, type, body) ==
  [dst |-> dst, src |-> HostMac(t), type |-> type, body |-> body]

Waiting == asked \ answered

Ask(p) ==
  /\ p \notin asked
  /\ asked' = asked \union {p}
  /\ UNCHANGED <<vars, cache, reached, answered, owed, losses>>

\* The gateway is looked up when there is something to send through it.
LookUp(t) ==
  /\ cache[t] = NoMac
  /\ owed[t] # {} \/ \E p \in Waiting : p[1] = t
  /\ Arrive(t, Frame(t, Broadcast, "arp",
                     Arp("request", HostIp(t), HostMac(t), Gateway(t), NoMac)))
  /\ UNCHANGED hosts

\* A ping is sent, and sent again until it is answered.
SendPing(p) ==
  LET t == p[1] IN
    /\ p \in Waiting /\ cache[t] # NoMac
    /\ Arrive(t, Frame(t, cache[t], "ip", Ip(2, "request", HostIp(t), p[2])))
    /\ UNCHANGED hosts

\* A ping is answered once: whoever sent it repeats it if the answer is lost.
SendAnswer(t, ip) ==
  /\ ip \in owed[t] /\ cache[t] # NoMac
  /\ Arrive(t, Frame(t, cache[t], "ip", Ip(2, "reply", HostIp(t), ip)))
  /\ owed' = [owed EXCEPT ![t] = @ \ {ip}]
  /\ UNCHANGED <<cache, asked, reached, answered, losses>>

\* The ARP cache drops an entry that has grown old.
Forget(t) ==
  /\ cache[t] # NoMac
  /\ cache' = [cache EXCEPT ![t] = NoMac]
  /\ UNCHANGED <<vars, asked, reached, answered, owed, losses>>
-----------------------------------------------------------------------------
(* What reaches a host, and what reaches the router.                       *)

\* The frames a host takes in: addressed to it, and whole.
Accepts(t, f) ==
  /\ f.dst \in {HostMac(t), Broadcast}
  /\ \/ f.body.kind = "arp" /\ f.body.tip = HostIp(t)
     \/ /\ f.body.kind = "ip" /\ f.body.dip = HostIp(t)
        /\ f.body.hsum = Checksum(f.body) /\ f.body.isum = f.body.icmp

Taken == {x \in out' : Accepts(x.tap, x.frame)}

Learned ==
  [t \in Tap |->
     IF \E x \in Taken : x.tap = t /\ x.frame.body.kind = "arp"
     THEN (CHOOSE x \in Taken : TRUE).frame.body.smac ELSE cache[t]]

\* The hosts whose pings have now reached the host behind the tap.
Asking(t) ==
  {x.frame.body.sip : x \in {y \in Taken : y.tap = t /\ y.frame.type = "ip"
                                           /\ y.frame.body.icmp = "request"}}

Answered(p) ==
  \E x \in Taken : /\ x.tap = p[1] /\ x.frame.type = "ip"
                   /\ x.frame.body.icmp = "reply" /\ x.frame.body.sip = p[2]

\* The router has seen a ping for one of its addresses when it reads the frame f.
SeenByRouter(p, f) ==
  /\ f.type = "ip" /\ f.body.icmp = "request"
  /\ f.body.sip = HostIp(p[1]) /\ f.body.dip = p[2]
  /\ \E t \in Tap : p[2] = Gateway(t)

SeenByHost(p) == \E t \in Tap : p[2] = HostIp(t) /\ HostIp(p[1]) \in Asking(t)

\* The router handles a frame, and a host takes in what comes out.
Delivers(t) ==
  /\ HandleTap(t)
  /\ cache' = Learned
  /\ owed' = [u \in Tap |-> owed[u] \union Asking(u)]
  /\ reached' = reached \union 
       {p \in asked : SeenByRouter(p, Head(queue[t])) \/ SeenByHost(p)}
  /\ answered' = answered \union {p \in asked : Answered(p)}
  /\ UNCHANGED <<asked, losses>>

\* What comes out is lost: the write fails, or, which nobody can tell from it, a
\* host whose backlog is full drops the frame.
Loses(t) ==
  /\ losses < MaxLosses /\ WriteFails(t)
  /\ losses' = losses + 1
  /\ reached' = reached \union {p \in asked : SeenByRouter(p, Head(queue[t]))}
  /\ UNCHANGED <<cache, asked, answered, owed>>

\* A read fails, as rarely as frames are lost.
FailsToRead(t) ==
  /\ losses < MaxLosses /\ ReadFails(t)
  /\ losses' = losses + 1
  /\ UNCHANGED <<cache, asked, reached, answered, owed>>

RouterRuns ==
  \/ (OpenTaps \/ Select \/ \E t \in Tap : SkipTap(t)) /\ UNCHANGED hosts
  \/ \E t \in Tap : Delivers(t) \/ Loses(t) \/ FailsToRead(t)

RouterStops == SelectFails /\ UNCHANGED hosts

NetworkNext ==
  \/ RouterRuns \/ RouterStops
  \/ \E p \in Pings : Ask(p) \/ SendPing(p)
  \/ \E t \in Tap : LookUp(t) \/ Forget(t) \/ \E ip \in owed[t] : SendAnswer(t, ip)

\* Everybody keeps trying: a host that is often able to send does, and the
\* scheduler runs the router.
NetworkSpec ==
  /\ NetworkInit /\ [][NetworkNext]_nvars
  /\ WF_nvars(RouterRuns)
  /\ \A p \in Pings : SF_nvars(SendPing(p))
  /\ \A t \in Tap :
       /\ SF_nvars(LookUp(t))
       /\ \A p \in Pings : SF_nvars(SendAnswer(t, HostIp(p[1])))
-----------------------------------------------------------------------------
Own == {p \in Pings : \E t \in Tap : p[2] = Gateway(t)}

Service == INSTANCE PingService

\* An answer reaches only who asked for it, from whom it was asked, after the
\* machine asked has seen the ping: the router neither answers for a host behind
\* it nor turns a frame into an answer to somebody else.
PingSpec == Service!Spec

\* Whatever a host believes about its gateway came from the router, and is the
\* address of the interface on the host's own side.
GatewayKnownRightly == \A t \in Tap : cache[t] \in {NoMac, RouterMac(t)}

\* Every ping is answered in the end, across the router and by it, although
\* frames are lost, both hosts have to look the gateway up, and forget it.
PingsAnswered == \A p \in Pings : p \in asked ~> (p \in answered \/ pc = "exit")
=============================================================================
