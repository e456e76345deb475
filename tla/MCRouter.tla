------------------------------ MODULE MCRouter ------------------------------
(* The router for TLC, in three scenes that do not mix: any traffic on both *)
(* taps; the two hosts, of which one pings the other and that one the far   *)
(* side of the router; one message that is summed, sent and summed again.   *)
EXTENDS RouterNetwork, InternetChecksum

VARIABLE scene

Ether(t, type, body) ==
  [dst |-> RouterMac(t), src |-> HostMac(t), type |-> type, body |-> body]

\* ARP requests for the gateway; on tap0 also a packet cut behind its Ethernet
\* header, one whose TTL runs out, and with both sums wrong one for a gateway and
\* one for the other host; on tap1 a request cut short and one for the other
\* gateway, a ping and a packet for the other host.
MCTraffic(t) ==
  {Ether(t, "arp", Arp("request", HostIp(t), HostMac(t), Gateway(t), "00:00"))}
    \union IF t = "tap0"
      THEN {Ether(t, "ip", NoBody), Ether(t, "ip", Ip(1, "none", HostIp(t), HostIp("tap1")))}
             \union {Ether(t, "ip", [Ip(2, "request", HostIp(t), ip) EXCEPT
                                      !.isum = "wrong", !.hsum = [@ EXCEPT !.ttl = 0]]) :
                       ip \in {Gateway("tap1"), HostIp("tap1")}}
      ELSE {Ether(t, "arp", NoBody),
            Ether(t, "arp", Arp("request", HostIp(t), HostMac(t), Gateway("tap0"), "00:00")),
            Ether(t, "ip", Ip(2, "request", HostIp(t), Gateway(t))),
            Ether(t, "ip", Ip(2, "none", HostIp(t), HostIp("tap0")))}

MCPings == {<<"tap0", "192.168.2.2">>, <<"tap1", "192.168.1.1">>}

\* Three words, and a byte more, their checksum second as in icmp_hdr; what the
\* field holds before it is cleared is what the ping carried.
MCMessage ==
  {<<a, b, 255, 1, c, d>> : a, c \in {0, 255}, b, d \in {0, 1, 255}}
    \union {<<a, b, 0, 1, c, d, e>> : a, b, c, d \in {0, 255}, e \in {1, 255}}

\* The hosts of a scene they are not in.
HostsIdle ==
  /\ cache = [t \in Tap |-> NoMac]
  /\ asked = {} /\ reached = {} /\ answered = {}
  /\ owed = [t \in Tap |-> {}] /\ losses = 0

SumIdle == stage = "idle" /\ data = <<>> /\ at = 0 /\ acc = 0 /\ change = 0 /\ answer = 0

MCInit ==
  \/ scene = "traffic" /\ Init /\ HostsIdle /\ SumIdle
  \/ scene = "hosts" /\ NetworkInit /\ SumIdle
  \/ scene = "sum" /\ NetworkInit /\ SumInit

mcVars == <<nvars, sumVars, scene>>

\* The action A of a scene, which leaves the others' state alone.
InTraffic(A) == scene = "traffic" /\ A /\ UNCHANGED <<hosts, sumVars, scene>>
InHosts(A) == scene = "hosts" /\ A /\ UNCHANGED <<sumVars, scene>>
InSum(A) == scene = "sum" /\ A /\ UNCHANGED <<nvars, scene>>

MCNext == InTraffic(Next) \/ InHosts(NetworkNext) \/ InSum(SumNext)

\* The fairness of FairSpec and of NetworkSpec.
MCSpec ==
  /\ MCInit /\ [][MCNext]_mcVars
  /\ WF_mcVars(InTraffic(RouterStep))
  /\ WF_mcVars(InHosts(RouterRuns))
  /\ \A p \in Pings : SF_mcVars(InHosts(SendPing(p)))
  /\ \A t \in Tap :
       /\ SF_mcVars(InHosts(LookUp(t)))
       /\ \A p \in Pings : SF_mcVars(InHosts(SendAnswer(t, HostIp(p[1]))))
=============================================================================
