------------------------------- MODULE Router -------------------------------
(***************************************************************************)
(* The user-space router over two TAP devices (hello-linux/practices/      *)
(* network-driver): the select loop, its ARP and IP handlers and the one   *)
(* buffer that every frame is read into, edited in and written from.       *)
(* program is "ipv4" for ipv4-and-icmp.c, or "arp" for arp.c, which has    *)
(* the same loop and ARP handler but no IP handler.                        *)
(*                                                                         *)
(* A frame is its Ethernet header and a body.  A short frame ends after    *)
(* the Ethernet header, and the bytes behind it in the buffer are those of *)
(* the frame before.                                                       *)
(***************************************************************************)
EXTENDS Naturals, Sequences

CONSTANTS
  QueueLen,    \* the frames the kernel keeps for the router on a tap
  Traffic(_)   \* the frames that may arrive on a tap

ASSUME RouterAssumption == QueueLen \in Nat \ {0}

VARIABLES
  program,  \* the program that runs: arp or ipv4
  pc,       \* open, select, the tap about to be handled, exit
  ready,    \* rd_set
  queue,    \* the frames waiting on each tap
  buffer,   \* what the buffer of main holds behind the Ethernet header
  out       \* what the last step of the router wrote: a tap and a frame, or nothing

vars == <<program, pc, ready, queue, buffer, out>>

Tap == {"tap0", "tap1"}
Other(t) == IF t = "tap0" THEN "tap1" ELSE "tap0"
RouterMac(t) == IF t = "tap0" THEN "02:01" ELSE "02:02"
Gateway(t) == IF t = "tap0" THEN "192.168.1.1" ELSE "192.168.2.1"
Broadcast == "ff:ff"

NoBody == [kind |-> "none"]

Arp(op, sip, smac, tip, tmac) ==
  [kind |-> "arp", op |-> op, sip |-> sip, smac |-> smac, tip |-> tip, tmac |-> tmac]

\* The Internet checksum of a header: it tells two headers apart except by the
\* order of their addresses, which the sum does not see.
Checksum(b) == [ttl |-> b.ttl, icmp |-> b.icmp = "none", addresses |-> {b.sip, b.dip}]

\* An IP packet: icmp is the ICMP type, or none for the other protocols; isum
\* is the type its ICMP checksum was computed over.
Ip(ttl, icmp, sip, dip) ==
  [kind |-> "ip", ttl |-> ttl, icmp |-> icmp, sip |-> sip, dip |-> dip, isum |-> icmp,
   hsum |-> [ttl |-> ttl, icmp |-> icmp = "none", addresses |-> {sip, dip}]]

Summed(b) == [b EXCEPT !.hsum = Checksum(b)]

IsArp(b) == b = Arp(b.op, b.sip, b.smac, b.tip, b.tmac)

IsIp(b) ==
  /\ b = [kind |-> "ip", ttl |-> b.ttl, icmp |-> b.icmp, sip |-> b.sip, dip |-> b.dip,
          isum |-> b.isum, hsum |-> b.hsum]
  /\ b.ttl \in Nat

\* Anything may arrive: frames that are short, sums that are wrong, a TTL that
\* has run out, other types.  A body is one of the frame's type, if that is ARP
\* or IP; the lengths an IP header states are those of the packet.
ASSUME TrafficAssumption ==
  \A t \in Tap : \A f \in Traffic(t) :
    /\ f = [dst |-> f.dst, src |-> f.src, type |-> f.type, body |-> f.body]
    /\ \/ f.body = NoBody
       \/ f.type # "ip" /\ IsArp(f.body)
       \/ f.type # "arp" /\ IsIp(f.body)
-----------------------------------------------------------------------------
\* What bytes that were not sent as a body of the type may look like as one.
AnyBody(type) ==
  {b \in {Arp(op, "stale", "stale", Gateway(t), "stale") :
            op \in {"request", "other"}, t \in Tap}
       \union {Ip(ttl, icmp, "stale", dip) :
                ttl \in 1..2, icmp \in {"request", "none"}, dip \in {"stale", Gateway("tap0")}} :
     b.kind = type}

\* What the handlers see: the frame just read over what the buffer held.
Seen(f) ==
  {[f EXCEPT !.body = b] :
     b \in IF f.body # NoBody THEN {f.body}
           ELSE IF f.type = buffer.kind \/ f.type \notin {"arp", "ip"} THEN {buffer}
           ELSE AnyBody(f.type)}

\* write(fd, buffer, len) sends no more than was read.
Cut(f, b) == IF f.body = NoBody THEN [b EXCEPT !.body = NoBody] ELSE b

\* Only arp.c checks the length before it looks at the ARP header.
LongEnough(f) == program = "arp" => f.body # NoBody

AsksGateway(t, b) ==
  b.body.kind = "arp" /\ b.body.op = "request" /\ b.body.tip = Gateway(t)

\* Mutant: the reply names the MAC address of tap0 whatever the interface.
ArpReply_Tap0(t, b) ==
  [dst |-> b.src, src |-> RouterMac("tap0"), type |-> b.type,
   body |-> Arp("reply", Gateway(t), RouterMac("tap0"), b.body.sip, b.body.smac)]

\* Mutant: the sender's MAC address is overwritten before it is copied.
ArpReply_MacFirst(t, b) ==
  LET e1 == [b EXCEPT !.dst = b.src]
      e2 == [e1 EXCEPT !.src = RouterMac(t)]
      a1 == [b.body EXCEPT !.op = "reply"]
      a2 == [a1 EXCEPT !.tip = a1.sip]
      a3 == [a2 EXCEPT !.sip = Gateway(t)]
      a4 == [a3 EXCEPT !.smac = RouterMac(t)]
      a5 == [a4 EXCEPT !.tmac = a4.smac]
  IN  [e2 EXCEPT !.body = a5]

\* Built in place: every copy reads what the ones before it have left.
ArpReply(t, b) ==
  LET e1 == [b EXCEPT !.dst = b.src]
      e2 == [e1 EXCEPT !.src = RouterMac(t)]
      a1 == [b.body EXCEPT !.op = "reply"]
      a2 == [a1 EXCEPT !.tip = a1.sip]
      a3 == [a2 EXCEPT !.sip = Gateway(t)]
      a4 == [a3 EXCEPT !.tmac = a3.smac]
      a5 == [a4 EXCEPT !.smac = RouterMac(t)]
  IN  [e2 EXCEPT !.body = a5]

\* Mutant: every echo request is taken for one to the router.
PingsGateway_AnyTarget(b) == b.body.icmp = "request"

PingsGateway(b) ==
  b.body.icmp = "request" /\ \E t \in Tap : b.body.dip = Gateway(t)

EchoReply(t, b) ==
  [dst |-> b.src, src |-> RouterMac(t), type |-> "ip",
   body |-> Summed([b.body EXCEPT !.sip = b.body.dip, !.dip = b.body.sip,
                                  !.icmp = "reply", !.isum = "reply"])]

\* Mutant: the checksum is computed before the TTL is decremented.
Forwarded_SumFirst(t, b) ==
  [dst |-> Broadcast, src |-> RouterMac(Other(t)), type |-> "ip",
   body |-> [Summed(b.body) EXCEPT !.ttl = @ - 1]]

\* Mutant: the frame keeps the router's own address as its destination.
Forwarded_KeepsDestination(t, b) ==
  [dst |-> b.dst, src |-> RouterMac(Other(t)), type |-> "ip",
   body |-> Summed([b.body EXCEPT !.ttl = @ - 1])]

Forwarded(t, b) ==
  [dst |-> Broadcast, src |-> RouterMac(Other(t)), type |-> "ip",
   body |-> Summed([b.body EXCEPT !.ttl = @ - 1])]

Expired(b) == b.body.ttl <= 1

\* Where a frame goes after the handler edited it, or nowhere.
Written(t, f, b) ==
  CASE f.type = "arp" /\ LongEnough(f) /\ AsksGateway(t, b) ->
         {[tap |-> t, frame |-> ArpReply(t, b)]}
    [] f.type = "ip" /\ program = "ipv4" /\ PingsGateway(b) ->
         {[tap |-> t, frame |-> EchoReply(t, b)]}
    [] f.type = "ip" /\ program = "ipv4" /\ ~PingsGateway(b) /\ ~Expired(b) ->
         {[tap |-> Other(t), frame |-> Forwarded(t, b)]}
    [] OTHER -> {}
-----------------------------------------------------------------------------
\* The buffer is not initialised: its bytes may look like anything.
Init ==
  /\ program \in {"arp", "ipv4"}
  /\ pc = "open" /\ ready = {}
  /\ queue = [t \in Tap |-> <<>>]
  /\ buffer = NoBody /\ out = {}

\* main gives up when a TAP device cannot be opened.
OpenTaps ==
  /\ pc = "open"
  /\ pc' \in {"select", "exit"}
  /\ out' = {} /\ UNCHANGED <<program, ready, queue, buffer>>

\* Mutant: the set of readable taps is not rebuilt for each call of select.
Select_KeepsSet ==
  /\ pc = "select" /\ \E t \in Tap : queue[t] # <<>>
  /\ ready' = ready \union {t \in Tap : queue[t] # <<>>}
  /\ pc' = "tap0"
  /\ out' = {} /\ UNCHANGED <<program, queue, buffer>>

Select ==
  /\ pc = "select" /\ \E t \in Tap : queue[t] # <<>>
  /\ ready' = {t \in Tap : queue[t] # <<>>}
  /\ pc' = "tap0"
  /\ out' = {} /\ UNCHANGED <<program, queue, buffer>>

\* select fails, interrupted by a signal, and the loop breaks.
SelectFails ==
  /\ pc = "select"
  /\ pc' = "exit"
  /\ out' = {} /\ UNCHANGED <<program, ready, queue, buffer>>

\* Mutant: one frame per round, whichever tap it came from.
Following_OnePerRound(t) == IF t = "tap0" /\ t \notin ready THEN "tap1" ELSE "select"

Following(t) == IF t = "tap0" THEN "tap1" ELSE "select"

SkipTap(t) ==
  /\ pc = t /\ t \notin ready
  /\ pc' = Following(t)
  /\ out' = {} /\ UNCHANGED <<program, ready, queue, buffer>>

\* The next frame is read, looks like b, and is edited into w, what is written.
Handle(t, b, w) ==
  /\ pc' = Following(t)
  /\ queue' = [queue EXCEPT ![t] = Tail(@)]
  /\ buffer' = (IF w = {} THEN b ELSE (CHOOSE x \in w : TRUE).frame).body
  /\ UNCHANGED <<program, ready>>

HandleTap(t) ==
  /\ pc = t /\ t \in ready
  /\ \E b \in Seen(Head(queue[t])) :
       LET f == Head(queue[t])
           w == Written(t, f, b) IN
         /\ Handle(t, b, w)
         /\ out' = {[tap |-> x.tap, frame |-> Cut(f, x.frame)] : x \in w}

\* The write fails, which nobody notices.
WriteFails(t) ==
  /\ pc = t /\ t \in ready
  /\ \E b \in Seen(Head(queue[t])) :
       LET w == Written(t, Head(queue[t]), b) IN w # {} /\ Handle(t, b, w)
  /\ out' = {}

\* The read fails: there is nothing to handle.
ReadFails(t) ==
  /\ pc = t /\ t \in ready
  /\ pc' = Following(t)
  /\ out' = {} /\ UNCHANGED <<program, ready, queue, buffer>>

RouterStep ==
  OpenTaps \/ Select \/ \E t \in Tap : SkipTap(t) \/ HandleTap(t)

\* The kernel queues a frame for the router, or drops it when the queue is full.
Arrive(t, f) ==
  /\ pc \notin {"open", "exit"} /\ Len(queue[t]) < QueueLen
  /\ queue' = [queue EXCEPT ![t] = Append(@, f)]
  /\ out' = {} /\ UNCHANGED <<program, pc, ready, buffer>>

Next ==
  \/ RouterStep \/ SelectFails
  \/ \E t \in Tap : ReadFails(t) \/ WriteFails(t)
  \/ \E t \in Tap : \E f \in Traffic(t) : Arrive(t, f)

Spec == Init /\ [][Next]_vars

\* The scheduler runs the router process.
FairSpec == Spec /\ WF_vars(RouterStep)
-----------------------------------------------------------------------------
\* The loop waits for frames in select and not in read: a tap it goes on to read
\* still has the frame that made it ready.
ReadNeverBlocks ==
  \A t \in ready : pc = t \/ (pc = "tap0" /\ t = "tap1") => queue[t] # <<>>

\* The router takes a frame from the tap.
Takes(t) == queue[t] # <<>> /\ queue'[t] = Tail(queue[t])

\* A frame r that goes out on tap u after f came in on tap t: its source is the
\* interface it leaves on; an answer goes back to who sent f, a forwarded frame
\* to everybody.
TrueHeader(t, f, u, r) ==
  r.src = RouterMac(u) /\ r.dst = IF u = t THEN f.src ELSE Broadcast

\* An ARP reply gives the asker his own addresses and those of the gateway asked
\* for; an echo reply goes from the address that was pinged to who pinged it.
TrueAnswer(t, f, u, r) ==
  /\ r.body.kind = "arp" =>
       /\ u = t
       /\ r.body = Arp("reply", Gateway(t), RouterMac(t), f.body.sip, f.body.smac)
  /\ r.body.kind = "ip" /\ u = t =>
       r.body.icmp = "reply" /\ r.body.sip = f.body.dip /\ r.body.dip = f.body.sip

\* The header sum of a whole packet is over what is sent, not over what it was
\* before, and so is the ICMP sum of an answer; that of a forwarded message is as
\* right as it came, and the packet has a hop to go.
TrueSums(t, f, u, r) ==
  r.body.kind = "ip" =>
    /\ r.body.hsum = Checksum(r.body)
    /\ u = t \/ f.body.isum = f.body.icmp => r.body.isum = r.body.icmp
    /\ u # t => r.body.ttl >= 1

\* What the router makes of a frame in place, by the same code over the same
\* buffer for both taps, is true of the tap it leaves on and of the frame it
\* answers.
SpeaksForItsTap ==
  [][\A t \in Tap : Takes(t) =>
       \A x \in out' : LET f == Head(queue[t]) IN
         TrueHeader(t, f, x.tap, x.frame) /\ TrueAnswer(t, f, x.tap, x.frame)]_vars

\* Whoever receives a whole IP packet from the router can verify it.
LeavesVerifiable ==
  [][\A t \in Tap : Takes(t) =>
       \A x \in out' : TrueSums(t, Head(queue[t]), x.tap, x.frame)]_vars

\* Traffic on one tap, however heavy, does not keep the router from the other.
NoTapStarves ==
  \A t \in Tap : queue[t] # <<>> ~> (pc = t /\ t \in ready) \/ pc = "exit"
=============================================================================
