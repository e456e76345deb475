---------------------------- MODULE RouterProofs ----------------------------
(***************************************************************************)
(* Proofs about both router programs for any traffic, short frames and     *)
(* wrong sums included, and tap queues of any length: what leaves on a tap *)
(* is true of that tap and of the frame it answers, whole packets pass the *)
(* checks of their receiver, and no read blocks.  Then the router between  *)
(* its two hosts implements PingService, for any pings and any number of   *)
(* lost frames: an answer to a ping always comes from the machine that was *)
(* asked.  Last, the checksum both rest on: for any message a receiver     *)
(* takes what was sent and notices a damaged word.                         *)
(***************************************************************************)
EXTENDS RouterNetwork, InternetChecksum, SequenceTheorems, TLAPS

\* Frames wait in the queues as they arrived, and a tap the loop has still to
\* read keeps the one that made it ready, because only its own turn takes it.
RouterInv ==
  /\ program \in {"arp", "ipv4"} /\ ready \subseteq Tap
  /\ queue = [t \in Tap |-> queue[t]] /\ \A t \in Tap : queue[t] \in Seq(Traffic(t))
  /\ ReadNeverBlocks

\* What the two properties say of a frame that is written.
Right(t, f, u, r) == TrueHeader(t, f, u, r) /\ TrueAnswer(t, f, u, r) /\ TrueSums(t, f, u, r)

IsFrame(f) == f = [dst |-> f.dst, src |-> f.src, type |-> f.type, body |-> f.body]

\* The copies in place lose nothing of what the reply needs.
LEMMA ArpReplyInPlace ==
  ASSUME NEW t, NEW b, IsFrame(b)
  PROVE  LET r == ArpReply(t, b) IN
           /\ IsFrame(r) /\ r.type = b.type
           /\ r.src = RouterMac(t) /\ r.dst = b.src
           /\ IsArp(b.body) =>
                r.body = Arp("reply", Gateway(t), RouterMac(t), b.body.sip, b.body.smac)
<1>. DEFINE e2 == [[b EXCEPT !.dst = b.src] EXCEPT !.src = RouterMac(t)]
            a1 == [b.body EXCEPT !.op = "reply"]
            a2 == [a1 EXCEPT !.tip = a1.sip]
            a3 == [a2 EXCEPT !.sip = Gateway(t)]
            a4 == [a3 EXCEPT !.tmac = a3.smac]
            a5 == [a4 EXCEPT !.smac = RouterMac(t)]
<1>1. ArpReply(t, b) = [e2 EXCEPT !.body = a5]
  BY DEF ArpReply
<1>2. e2 = [dst |-> b.src, src |-> RouterMac(t), type |-> b.type, body |-> b.body]
  <2>. DEFINE e1 == [b EXCEPT !.dst = b.src]
  <2>1. DOMAIN b = {"dst", "src", "type", "body"}
    BY DEF IsFrame
  <2>2. e1 = [dst |-> b.src, src |-> b.src, type |-> b.type, body |-> b.body]
    BY <2>1
  <2>. HIDE DEF e1
  <2>3. [e1 EXCEPT !.src = RouterMac(t)]
          = [dst |-> b.src, src |-> RouterMac(t), type |-> b.type, body |-> b.body]
    BY <2>2
  <2>. QED BY <2>3 DEF e1
<1>3. ASSUME IsArp(b.body)
      PROVE  a5 = Arp("reply", Gateway(t), RouterMac(t), b.body.sip, b.body.smac)
  <2>1. a1 = Arp("reply", b.body.sip, b.body.smac, b.body.tip, b.body.tmac)
    BY <1>3 DEF IsArp, Arp
  <2>. HIDE DEF a1
  <2>2. a2 = Arp("reply", b.body.sip, b.body.smac, b.body.sip, b.body.tmac)
    BY <2>1 DEF Arp
  <2>. HIDE DEF a2
  <2>3. a3 = Arp("reply", Gateway(t), b.body.smac, b.body.sip, b.body.tmac)
    BY <2>2 DEF Arp
  <2>. HIDE DEF a3
  <2>4. a4 = Arp("reply", Gateway(t), b.body.smac, b.body.sip, b.body.smac)
    BY <2>3 DEF Arp
  <2>. HIDE DEF a4
  <2>. QED BY <2>4 DEF Arp
<1>. HIDE DEF e2, a5
<1>. QED BY <1>1, <1>2, <1>3 DEF IsFrame

\* The fields of a packet the handlers edited, and its sums over what it is now.
LEMMA Edited ==
  ASSUME NEW t, NEW f, IsIp(f.body)
  PROVE  /\ f.body # NoBody /\ f.body.kind = "ip"
         /\ LET r == EchoReply(t, f) IN
              /\ r.src = RouterMac(t) /\ r.dst = f.src /\ r.type = "ip"
              /\ r.body.kind = "ip" /\ r.body.icmp = "reply" /\ r.body.isum = "reply"
              /\ r.body.sip = f.body.dip /\ r.body.dip = f.body.sip
              /\ r.body.hsum = Checksum(r.body)
         /\ LET r == Forwarded(t, f) IN
              /\ r.src = RouterMac(Other(t)) /\ r.dst = Broadcast /\ r.type = "ip"
              /\ r.body.kind = "ip" /\ r.body.icmp = f.body.icmp /\ r.body.isum = f.body.isum
              /\ r.body.sip = f.body.sip /\ r.body.dip = f.body.dip
              /\ r.body.hsum = Checksum(r.body)
              /\ ~Expired(f) => r.body.ttl >= 1
<1>. DEFINE b == f.body
            fb == [b EXCEPT !.ttl = @ - 1]
            eb == [b EXCEPT !.sip = b.dip, !.dip = b.sip, !.icmp = "reply", !.isum = "reply"]
            Fields == {"kind", "ttl", "icmp", "sip", "dip", "isum", "hsum"}
<1>1. b.kind = "ip" /\ b.ttl \in Nat /\ DOMAIN b = Fields
  BY DEF IsIp
<1>2. /\ fb.kind = "ip" /\ fb.ttl = b.ttl - 1 /\ fb.icmp = b.icmp /\ fb.isum = b.isum
      /\ fb.sip = b.sip /\ fb.dip = b.dip /\ DOMAIN fb = Fields
  BY <1>1
<1>3. /\ eb.kind = "ip" /\ eb.icmp = "reply" /\ eb.isum = "reply"
      /\ eb.sip = b.dip /\ eb.dip = b.sip /\ DOMAIN eb = Fields
  BY <1>1
<1>4. ASSUME NEW e, DOMAIN e = Fields
      PROVE  /\ Summed(e).kind = e.kind /\ Summed(e).ttl = e.ttl /\ Summed(e).isum = e.isum
             /\ Summed(e).icmp = e.icmp /\ Summed(e).sip = e.sip /\ Summed(e).dip = e.dip
             /\ Summed(e).hsum = Checksum(Summed(e))
  BY <1>4 DEF Summed, Checksum
<1>5. /\ Forwarded(t, f) = [dst |-> Broadcast, src |-> RouterMac(Other(t)), type |-> "ip",
                            body |-> Summed(fb)]
      /\ EchoReply(t, f) = [dst |-> f.src, src |-> RouterMac(t), type |-> "ip",
                            body |-> Summed(eb)]
  BY DEF Forwarded, EchoReply
<1>6. ~Expired(f) => b.ttl - 1 >= 1
  BY <1>1 DEF Expired
<1>7. f.body # NoBody
  BY <1>1 DEF NoBody
<1>. HIDE DEF fb, eb
<1>8. /\ Summed(fb).kind = "ip" /\ Summed(fb).ttl = b.ttl - 1 /\ Summed(fb).icmp = b.icmp
      /\ Summed(fb).isum = b.isum /\ Summed(fb).sip = b.sip /\ Summed(fb).dip = b.dip
      /\ Summed(fb).hsum = Checksum(Summed(fb))
  BY <1>2, <1>4
<1>9. /\ Summed(eb).kind = "ip" /\ Summed(eb).icmp = "reply" /\ Summed(eb).isum = "reply"
      /\ Summed(eb).sip = b.dip /\ Summed(eb).dip = b.sip
      /\ Summed(eb).hsum = Checksum(Summed(eb))
  BY <1>3, <1>4
<1>10. b.kind = "ip"
  BY <1>1
<1>. HIDE DEF b
<1>11. /\ Forwarded(t, f).body = Summed(fb) /\ Forwarded(t, f).type = "ip"
       /\ Forwarded(t, f).src = RouterMac(Other(t)) /\ Forwarded(t, f).dst = Broadcast
       /\ EchoReply(t, f).body = Summed(eb) /\ EchoReply(t, f).type = "ip"
       /\ EchoReply(t, f).src = RouterMac(t) /\ EchoReply(t, f).dst = f.src
  BY <1>5
<1>. QED BY <1>6, <1>7, <1>8, <1>9, <1>10, <1>11 DEF b

\* What was read reads as what was sent, but for a body that never came.
LEMMA SeenFrame ==
  ASSUME NEW f, IsFrame(f), NEW b \in Seen(f)
  PROVE  /\ IsFrame(b) /\ b.dst = f.dst /\ b.src = f.src /\ b.type = f.type
         /\ f.body # NoBody => b = f
<1>1. PICK x : b = [f EXCEPT !.body = x] /\ (f.body # NoBody => x = f.body)
  BY DEF Seen
<1>2. b = [dst |-> f.dst, src |-> f.src, type |-> f.type, body |-> x]
  BY <1>1 DEF IsFrame
<1>. QED BY <1>1, <1>2 DEF IsFrame

\* Of an answer to a short frame the header is true, and no more is sent.
LEMMA CutRight ==
  ASSUME NEW t, NEW f, f.body = NoBody, NEW u, NEW r, IsFrame(r), TrueHeader(t, f, u, r)
  PROVE  Right(t, f, u, Cut(f, r))
<1>. DEFINE c == Cut(f, r)
<1>1. c = [dst |-> r.dst, src |-> r.src, type |-> r.type, body |-> NoBody]
  BY DEF Cut, IsFrame
<1>2. c.dst = r.dst /\ c.src = r.src /\ c.body.kind = "none"
  BY <1>1 DEF NoBody
<1>. HIDE DEF c
<1>3. TrueHeader(t, f, u, c) /\ TrueAnswer(t, f, u, c) /\ TrueSums(t, f, u, c)
  BY <1>2 DEF TrueHeader, TrueAnswer, TrueSums
<1>. QED BY <1>3 DEF Right, c

\* Whatever the handler of either program makes of a frame is right.
LEMMA WrittenRight ==
  ASSUME NEW t \in Tap, NEW f \in Traffic(t), NEW b \in Seen(f), NEW x \in Written(t, f, b)
  PROVE  x.tap \in Tap /\ Right(t, f, x.tap, Cut(f, x.frame))
<1>1. /\ IsFrame(f)
      /\ f.body = NoBody \/ (f.type # "ip" /\ IsArp(f.body)) \/ (f.type # "arp" /\ IsIp(f.body))
  BY TrafficAssumption DEF IsFrame
<1>2. /\ IsFrame(b) /\ b.src = f.src /\ b.type = f.type
      /\ f.body # NoBody => b = f
  BY <1>1, SeenFrame
<1>3. Other(t) \in Tap /\ Other(t) # t
  BY DEF Other, Tap
<1>4. CASE f.type = "arp" /\ LongEnough(f) /\ AsksGateway(t, b)
  <2>. DEFINE r == ArpReply(t, b)
  <2>1. x = [tap |-> t, frame |-> r]
    BY <1>4 DEF Written
  <2>2. /\ IsFrame(r) /\ r.src = RouterMac(t) /\ r.dst = f.src
        /\ IsArp(b.body) =>
             r.body = Arp("reply", Gateway(t), RouterMac(t), b.body.sip, b.body.smac)
    BY <1>2, ArpReplyInPlace
  <2>. HIDE DEF r
  <2>3. TrueHeader(t, f, t, r)
    BY <2>2 DEF TrueHeader
  <2>4. CASE f.body = NoBody
    BY <2>1, <2>2, <2>3, <2>4, CutRight
  <2>5. CASE f.body # NoBody
    <3>1. r.body = Arp("reply", Gateway(t), RouterMac(t), f.body.sip, f.body.smac)
      BY <1>1, <1>2, <1>4, <2>2, <2>5
    <3>2. r.body.kind = "arp"
      BY <3>1 DEF Arp
    <3>3. Right(t, f, t, r)
      BY <2>3, <3>1, <3>2 DEF Right, TrueAnswer, TrueSums
    <3>. QED BY <2>1, <2>5, <3>3 DEF Cut
  <2>. QED BY <2>4, <2>5
<1>5. CASE f.type = "ip" /\ program = "ipv4"
  <2>1. \/ x = [tap |-> t, frame |-> EchoReply(t, b)]
        \/ x = [tap |-> Other(t), frame |-> Forwarded(t, b)] /\ ~Expired(b)
    BY <1>5 DEF Written
  <2>2. CASE f.body = NoBody
    <3>1. IsFrame(EchoReply(t, b)) /\ TrueHeader(t, f, t, EchoReply(t, b))
      BY <1>2 DEF EchoReply, IsFrame, TrueHeader
    <3>2. IsFrame(Forwarded(t, b)) /\ TrueHeader(t, f, Other(t), Forwarded(t, b))
      BY <1>3 DEF Forwarded, IsFrame, TrueHeader
    <3>3. CASE x = [tap |-> t, frame |-> EchoReply(t, b)]
      <4>1. x.tap = t /\ x.frame = EchoReply(t, b)
        BY <3>3
      <4>. QED BY <2>2, <3>1, <4>1, CutRight
    <3>4. CASE x = [tap |-> Other(t), frame |-> Forwarded(t, b)]
      <4>1. x.tap = Other(t) /\ x.frame = Forwarded(t, b)
        BY <3>4
      <4>. QED BY <1>3, <2>2, <3>2, <4>1, CutRight
    <3>. QED BY <2>1, <3>3, <3>4
  <2>3. CASE f.body # NoBody
    <3>1. b = f /\ IsIp(f.body) /\ \A r : Cut(f, r) = r
      BY <1>1, <1>2, <1>5, <2>3 DEF Cut
    <3>2. CASE x = [tap |-> t, frame |-> EchoReply(t, f)]
      <4>. DEFINE r == EchoReply(t, f)
      <4>1. /\ r.src = RouterMac(t) /\ r.dst = f.src
            /\ r.body.kind = "ip" /\ r.body.icmp = "reply" /\ r.body.isum = "reply"
            /\ r.body.sip = f.body.dip /\ r.body.dip = f.body.sip
            /\ r.body.hsum = Checksum(r.body)
        BY <3>1, Edited
      <4>2. x.tap = t /\ x.frame = r
        BY <3>2
      <4>. HIDE DEF r
      <4>3. TrueHeader(t, f, t, r) /\ TrueAnswer(t, f, t, r) /\ TrueSums(t, f, t, r)
        BY <4>1 DEF TrueHeader, TrueAnswer, TrueSums
      <4>. QED BY <3>1, <4>2, <4>3 DEF Right
    <3>3. CASE x = [tap |-> Other(t), frame |-> Forwarded(t, f)] /\ ~Expired(f)
      <4>. DEFINE r == Forwarded(t, f)
      <4>1. /\ r.src = RouterMac(Other(t)) /\ r.dst = Broadcast
            /\ r.body.kind = "ip" /\ r.body.icmp = f.body.icmp /\ r.body.isum = f.body.isum
            /\ r.body.hsum = Checksum(r.body) /\ r.body.ttl >= 1
        BY <3>1, <3>3, Edited
      <4>2. x.tap = Other(t) /\ x.frame = r
        BY <3>3
      <4>. HIDE DEF r
      <4>3. /\ TrueHeader(t, f, Other(t), r) /\ TrueAnswer(t, f, Other(t), r)
            /\ TrueSums(t, f, Other(t), r)
        BY <1>3, <4>1 DEF TrueHeader, TrueAnswer, TrueSums
      <4>. QED BY <1>3, <3>1, <4>2, <4>3 DEF Right
    <3>. QED BY <2>1, <3>1, <3>2, <3>3
  <2>. QED BY <2>2, <2>3
<1>. QED BY <1>4, <1>5 DEF Written

\* The queues are empty.
LEMMA RouterInit == Init => RouterInv
<1>. SUFFICES ASSUME Init PROVE RouterInv
  OBVIOUS
<1>1. queue = [t \in Tap |-> <<>>] /\ \A t \in Tap : <<>> \in Seq(Traffic(t))
  BY DEF Init
<1>. QED BY <1>1 DEF Init, RouterInv, ReadNeverBlocks

\* The router reads a frame that is there, and the other tap keeps its own.
LEMMA RouterHandles ==
  ASSUME RouterInv, NEW t \in Tap, HandleTap(t) \/ WriteFails(t)
  PROVE  /\ RouterInv'
         /\ queue[t] # <<>> /\ Head(queue[t]) \in Traffic(t)
         /\ \A u \in Tap : u # t => queue'[u] = queue[u]
<1>. USE DEF RouterInv, Tap
<1>1. queue[t] # <<>> /\ queue[t] \in Seq(Traffic(t))
  BY DEF HandleTap, WriteFails, ReadNeverBlocks
<1>2. Head(queue[t]) \in Traffic(t) /\ Tail(queue[t]) \in Seq(Traffic(t))
  BY <1>1, HeadTailProperties
<1>3. /\ queue' = [queue EXCEPT ![t] = Tail(@)] /\ ready' = ready /\ program' = program
      /\ pc = t /\ pc' = Following(t)
  BY DEF HandleTap, WriteFails, Handle
<1>4. queue' = [u \in Tap |-> queue'[u]] /\ \A u \in Tap : queue'[u] \in Seq(Traffic(u))
  BY <1>2, <1>3
<1>5. ReadNeverBlocks'
  BY <1>3 DEF ReadNeverBlocks, Following
<1>. QED BY <1>1, <1>2, <1>3, <1>4, <1>5

\* A frame that arrives makes no tap unready.
LEMMA RouterArrives ==
  ASSUME RouterInv, NEW t \in Tap, NEW f \in Traffic(t), Arrive(t, f)
  PROVE  RouterInv'
<1>. USE DEF RouterInv
<1>1. queue' = [queue EXCEPT ![t] = Append(@, f)] /\ UNCHANGED <<program, pc, ready>>
  BY DEF Arrive
<1>2. Append(queue[t], f) \in Seq(Traffic(t)) /\ Append(queue[t], f) # <<>>
  BY AppendProperties
<1>3. /\ queue' = [u \in Tap |-> queue'[u]] /\ \A u \in Tap : queue'[u] \in Seq(Traffic(u))
      /\ \A u \in Tap : queue[u] # <<>> => queue'[u] # <<>>
  BY <1>1, <1>2
<1>4. ReadNeverBlocks'
  BY <1>1, <1>3 DEF ReadNeverBlocks
<1>. QED BY <1>1, <1>3, <1>4

LoopStep == OpenTaps \/ Select \/ SelectFails \/ \E t \in Tap : SkipTap(t) \/ ReadFails(t)

\* The steps of the loop that touch no frame.
LEMMA LoopStepQuiet ==
  ASSUME ready \subseteq Tap, ReadNeverBlocks, LoopStep
  PROVE  UNCHANGED <<program, queue>> /\ out' = {} /\ ready' \subseteq Tap /\ ReadNeverBlocks'
BY DEF LoopStep, OpenTaps, Select, SelectFails, SkipTap, ReadFails, Following, ReadNeverBlocks, Tap

\* Every step of the router, and every arrival, keeps the invariant.
LEMMA RouterNext == RouterInv /\ [Next]_vars => RouterInv'
<1>. SUFFICES ASSUME RouterInv, [Next]_vars PROVE RouterInv'
  OBVIOUS
<1>1. CASE LoopStep
  BY <1>1, LoopStepQuiet DEF RouterInv
<1>2. CASE \E t \in Tap : HandleTap(t) \/ WriteFails(t)
  BY <1>2, RouterHandles
<1>3. CASE \E t \in Tap : \E f \in Traffic(t) : Arrive(t, f)
  BY <1>3, RouterArrives
<1>4. CASE UNCHANGED vars
  BY <1>4 DEF vars, RouterInv, ReadNeverBlocks
<1>. QED BY <1>1, <1>2, <1>3, <1>4 DEF Next, RouterStep, LoopStep

THEOREM RouterInvariance == Spec => []RouterInv
<1>. QED BY RouterInit, RouterNext, PTL DEF Spec

\* Only a frame that is taken is answered, and rightly.
LEMMA StepRight ==
  ASSUME RouterInv, Next, NEW t \in Tap, Takes(t), NEW x \in out'
  PROVE  Right(t, Head(queue[t]), x.tap, x.frame)
<1>1. CASE LoopStep
  BY <1>1, LoopStepQuiet DEF RouterInv
<1>2. CASE \E u \in Tap : WriteFails(u)
  BY <1>2 DEF WriteFails
<1>3. CASE \E u \in Tap : \E f \in Traffic(u) : Arrive(u, f)
  BY <1>3 DEF Arrive
<1>4. ASSUME NEW u \in Tap, HandleTap(u) PROVE Right(t, Head(queue[t]), x.tap, x.frame)
  <2>1. Head(queue[u]) \in Traffic(u) /\ (t # u => queue'[t] = queue[t])
    BY <1>4, RouterHandles
  <2>2. t = u
    <3>1. queue[t] \in Seq(Traffic(t)) /\ queue[t] # <<>> /\ queue'[t] = Tail(queue[t])
      BY DEF RouterInv, Takes
    <3>2. Len(Tail(queue[t])) = Len(queue[t]) - 1 /\ Len(queue[t]) \in Nat
      BY <3>1, HeadTailProperties
    <3>3. \A p, q : Len(p) = Len(q) - 1 /\ Len(q) \in Nat => p # q
      OBVIOUS
    <3>4. Tail(queue[t]) # queue[t]
      BY <3>2, <3>3, Zenon
    <3>. QED BY <2>1, <3>1, <3>4
  <2>. DEFINE f == Head(queue[u])
  <2>3. PICK b \in Seen(f) :
          out' = {[tap |-> y.tap, frame |-> Cut(f, y.frame)] : y \in Written(u, f, b)}
    BY <1>4 DEF HandleTap
  <2>. HIDE DEF f
  <2>4. PICK y \in Written(u, f, b) : x = [tap |-> y.tap, frame |-> Cut(f, y.frame)]
    BY <2>3
  <2>5. Right(u, f, y.tap, Cut(f, y.frame))
    BY <2>1, WrittenRight DEF f
  <2>6. x.tap = y.tap /\ x.frame = Cut(f, y.frame)
    BY <2>4
  <2>. QED BY <2>2, <2>5, <2>6 DEF f
<1>. QED BY <1>1, <1>2, <1>3, <1>4 DEF Next, RouterStep, LoopStep

\* A frame on a tap names the interface of that tap, in its header and in ARP,
\* and is true of the frame it answers.
THEOREM TrueOfItsTap == Spec => SpeaksForItsTap
<1>1. RouterInv /\ [Next]_vars =>
        [\A t \in Tap : Takes(t) =>
           \A x \in out' : LET f == Head(queue[t]) IN
             TrueHeader(t, f, x.tap, x.frame) /\ TrueAnswer(t, f, x.tap, x.frame)]_vars
  BY StepRight DEF Right
<1>. QED BY <1>1, RouterInvariance, PTL DEF Spec, SpeaksForItsTap

\* The sums of a whole packet are over what is sent, and it has a hop to go.
THEOREM SumsOverWhatIsSent == Spec => LeavesVerifiable
<1>1. RouterInv /\ [Next]_vars =>
        [\A t \in Tap : Takes(t) =>
           \A x \in out' : TrueSums(t, Head(queue[t]), x.tap, x.frame)]_vars
  BY StepRight DEF Right
<1>. QED BY <1>1, RouterInvariance, PTL DEF Spec, LeavesVerifiable

\* The loop reads only taps that have a frame.
THEOREM ReadsWhatIsThere == Spec => []ReadNeverBlocks
<1>1. RouterInv => ReadNeverBlocks
  BY DEF RouterInv
<1>. QED BY <1>1, RouterInvariance, PTL
-----------------------------------------------------------------------------
(* The router and its two hosts implement PingService.                     *)

\* The three kinds of frame a host sends.
AskMac(t) ==
  Frame(t, Broadcast, "arp", Arp("request", HostIp(t), HostMac(t), Gateway(t), NoMac))
PingFrame(t, ip) == Frame(t, RouterMac(t), "ip", Ip(2, "request", HostIp(t), ip))
ReplyFrame(t, ip) == Frame(t, RouterMac(t), "ip", Ip(2, "reply", HostIp(t), ip))

\* The taps whose hosts have a ping that the host behind t has seen.
Callers(t) == {u \in Tap : <<u, HostIp(t)>> \in reached}

\* What a host may have sent so far: pings somebody asked for, and answers to
\* pings it has seen.
Sendable(t) ==
  {AskMac(t)} \union {PingFrame(t, p[2]) : p \in {q \in asked : q[1] = t}}
    \union {ReplyFrame(t, HostIp(u)) : u \in Callers(t)}

\* The abstract state is ordered, the frames on their way and the answers still
\* owed are backed by it, and the frame the router is about to read is there.
NetworkInv ==
  /\ program = "ipv4" /\ ready \subseteq Tap /\ ReadNeverBlocks
  /\ cache = [t \in Tap |-> cache[t]] /\ GatewayKnownRightly
  /\ queue = [t \in Tap |-> queue[t]] /\ \A t \in Tap : queue[t] \in Seq(Sendable(t))
  /\ owed = [t \in Tap |-> owed[t]]
  /\ \A t \in Tap : owed[t] \subseteq {HostIp(u) : u \in Callers(t)}
  /\ asked \subseteq Pings /\ reached \subseteq asked /\ answered \subseteq reached

ServiceStep == Service!Next \/ UNCHANGED <<asked, reached, answered>>

\* What handling a frame of one of the three kinds writes.
LEMMA Handled ==
  ASSUME program = "ipv4", NEW t \in Tap, NEW f, HandleTap(t), f = Head(queue[t])
  PROVE  /\ f = AskMac(t) => out' = {[tap |-> t, frame |-> ArpReply(t, f)]}
         /\ \A ip : f = PingFrame(t, ip) =>
              out' = IF \E u \in Tap : ip = Gateway(u)
                     THEN {[tap |-> t, frame |-> EchoReply(t, f)]}
                     ELSE {[tap |-> Other(t), frame |-> Forwarded(t, f)]}
         /\ \A ip : f = ReplyFrame(t, ip) =>
              out' = {[tap |-> Other(t), frame |-> Forwarded(t, f)]}
<1>1. PICK b \in Seen(f) :
        out' = {[tap |-> x.tap, frame |-> Cut(f, x.frame)] : x \in Written(t, f, b)}
  BY DEF HandleTap
<1>2. ASSUME f.body # NoBody, IsFrame(f)
      PROVE  b = f /\ \A c : Cut(f, c) = c
  BY <1>2, SeenFrame DEF Cut
<1>3. ASSUME f = AskMac(t)
      PROVE  out' = {[tap |-> t, frame |-> ArpReply(t, f)]}
  <2>1. /\ f.type = "arp" /\ f.body # NoBody /\ IsFrame(f)
        /\ f.body.kind = "arp" /\ f.body.op = "request" /\ f.body.tip = Gateway(t)
    BY <1>3 DEF AskMac, Frame, Arp, NoBody, IsFrame
  <2>2. Written(t, f, f) = {[tap |-> t, frame |-> ArpReply(t, f)]}
    BY <2>1 DEF Written, LongEnough, AsksGateway
  <2>. QED BY <1>1, <1>2, <2>1, <2>2
<1>4. ASSUME NEW ip, f = PingFrame(t, ip)
      PROVE  out' = IF \E u \in Tap : ip = Gateway(u)
                    THEN {[tap |-> t, frame |-> EchoReply(t, f)]}
                    ELSE {[tap |-> Other(t), frame |-> Forwarded(t, f)]}
  <2>1. /\ f.type = "ip" /\ f.body # NoBody /\ IsFrame(f)
        /\ f.body.icmp = "request" /\ f.body.dip = ip /\ f.body.ttl = 2
    BY <1>4 DEF PingFrame, Frame, Ip, NoBody, IsFrame
  <2>2. Written(t, f, f) = IF \E u \in Tap : ip = Gateway(u)
                           THEN {[tap |-> t, frame |-> EchoReply(t, f)]}
                           ELSE {[tap |-> Other(t), frame |-> Forwarded(t, f)]}
    BY <2>1 DEF Written, PingsGateway, Expired
  <2>. QED BY <1>1, <1>2, <2>1, <2>2
<1>5. ASSUME NEW ip, f = ReplyFrame(t, ip)
      PROVE  out' = {[tap |-> Other(t), frame |-> Forwarded(t, f)]}
  <2>1. /\ f.type = "ip" /\ f.body # NoBody /\ IsFrame(f)
        /\ f.body.icmp = "reply" /\ f.body.dip = ip /\ f.body.ttl = 2
    BY <1>5 DEF ReplyFrame, Frame, Ip, NoBody, IsFrame
  <2>2. Written(t, f, f) = {[tap |-> Other(t), frame |-> Forwarded(t, f)]}
    BY <2>1 DEF Written, PingsGateway, Expired
  <2>. QED BY <1>1, <1>2, <2>1, <2>2
<1>. QED BY <1>3, <1>4, <1>5

\* The fields of a body the handlers edited in place.
LEMMA EditedBody ==
  ASSUME NEW icmp, NEW sip, NEW dip, NEW t, NEW f, f.body = Ip(2, icmp, sip, dip)
  PROVE  /\ Forwarded(t, f).type = "ip" /\ Forwarded(t, f).body.kind = "ip"
         /\ Forwarded(t, f).body.icmp = icmp
         /\ Forwarded(t, f).body.sip = sip /\ Forwarded(t, f).body.dip = dip
         /\ EchoReply(t, f).type = "ip" /\ EchoReply(t, f).body.kind = "ip"
         /\ EchoReply(t, f).body.icmp = "reply" /\ EchoReply(t, f).body.sip = dip
<1>1. f.body.icmp = icmp /\ f.body.sip = sip /\ f.body.dip = dip /\ IsIp(f.body)
  BY DEF Ip, IsIp
<1>. QED BY <1>1, Edited

\* What a host makes of the three kinds of frame the router writes.
LEMMA TakenFrames ==
  ASSUME NEW t \in Tap, NEW u \in Tap, NEW b, out' = {[tap |-> u, frame |-> b]},
         b.body.kind \in {"arp", "ip"}, b.type = b.body.kind
  PROVE  /\ \A v \in Tap : Learned[v] = IF v = u /\ b.type = "arp" /\ Accepts(u, b)
                                        THEN b.body.smac ELSE cache[v]
         /\ \A v \in Tap : Asking(v) = IF v = u /\ b.type = "ip" /\ Accepts(u, b)
                                          /\ b.body.icmp = "request"
                                       THEN {b.body.sip} ELSE {}
         /\ \A p : Answered(p) <=> /\ p[1] = u /\ b.type = "ip" /\ Accepts(u, b)
                                   /\ b.body.icmp = "reply" /\ b.body.sip = p[2]
<1>. DEFINE r == [tap |-> u, frame |-> b]
<1>1. Taken = IF Accepts(u, b) THEN {r} ELSE {}
  BY DEF Taken
<1>2. r.tap = u /\ r.frame = b
  OBVIOUS
<1>3. Accepts(u, b) => (CHOOSE x \in Taken : TRUE) = r
  BY <1>1
<1>. HIDE DEF r
<1>. QED BY <1>1, <1>2, <1>3 DEF Learned, Asking, Answered

\* A frame is handled and taken in: one step of the service, or none; a host
\* learns only the right address, and owes answers only to pings it has seen.
LEMMA DeliversStep ==
  ASSUME NetworkInv, NEW t \in Tap, Delivers(t), NEW f \in Sendable(t), f = Head(queue[t])
  PROVE  /\ ServiceStep
         /\ \A u \in Tap : cache'[u] \in {cache[u], RouterMac(u)}
         /\ \A u \in Tap : Asking(u) \subseteq {HostIp(v) : v \in Callers(u)'}
<1>. USE DEF Tap
<1>1. /\ cache' = Learned /\ asked' = asked
      /\ reached' = reached \union {p \in asked : SeenByRouter(p, f) \/ SeenByHost(p)}
      /\ answered' = answered \union {p \in asked : Answered(p)}
  BY DEF Delivers
<1>2. \A p \in asked : p \in Pings /\ p = <<p[1], p[2]>> /\ p[1] \in Tap
  BY NetworkAssumption DEF NetworkInv
<1>3. CASE f = AskMac(t)
  <2>1. out' = {[tap |-> t, frame |-> ArpReply(t, f)]}
    BY <1>3, Handled DEF NetworkInv, Delivers
  <2>2. /\ ArpReply(t, f).type = "arp" /\ ArpReply(t, f).body.kind = "arp"
        /\ ArpReply(t, f).body.smac = RouterMac(t)
    <3>1. IsFrame(f) /\ IsArp(f.body) /\ f.type = "arp"
      BY <1>3 DEF AskMac, Frame, Arp, IsFrame, IsArp
    <3>2. /\ ArpReply(t, f).type = "arp"
          /\ ArpReply(t, f).body =
               Arp("reply", Gateway(t), RouterMac(t), f.body.sip, f.body.smac)
      BY <3>1, ArpReplyInPlace
    <3>. QED BY <3>2 DEF Arp
  <2>3. /\ \A u \in Tap : Learned[u] \in {cache[u], RouterMac(u)}
        /\ \A u \in Tap : Asking(u) = {}
        /\ \A p : ~Answered(p)
    BY <2>1, <2>2, TakenFrames
  <2>4. \A p : ~SeenByRouter(p, f) /\ ~SeenByHost(p)
    BY <1>3, <2>3 DEF SeenByRouter, SeenByHost, AskMac, Frame
  <2>. QED BY <1>1, <2>3, <2>4 DEF ServiceStep
<1>4. ASSUME NEW p \in asked, p[1] = t, f = PingFrame(t, p[2])
      PROVE  /\ ServiceStep
             /\ \A u \in Tap : cache'[u] \in {cache[u], RouterMac(u)}
             /\ \A u \in Tap : Asking(u) \subseteq {HostIp(v) : v \in Callers(u)'}
  <2>0. /\ f.type = "ip" /\ f.src = HostMac(t)
        /\ f.body.kind = "ip" /\ f.body.icmp = "request" /\ f.body.isum = "request"
        /\ f.body.sip = HostIp(t) /\ f.body.dip = p[2] /\ f.body.ttl = 2
    BY <1>4 DEF PingFrame, Frame, Ip
  <2>1. CASE \E u \in Tap : p[2] = Gateway(u)
    <3>1. out' = {[tap |-> t, frame |-> EchoReply(t, f)]}
      BY <1>4, <2>1, Handled DEF NetworkInv, Delivers
    <3>2. /\ EchoReply(t, f).type = "ip" /\ EchoReply(t, f).body.kind = "ip"
          /\ EchoReply(t, f).body.icmp = "reply" /\ EchoReply(t, f).body.sip = p[2]
      BY <1>4, EditedBody DEF PingFrame, Frame
    <3>3. /\ \A u \in Tap : Learned[u] = cache[u]
          /\ \A u \in Tap : Asking(u) = {}
          /\ \A q : Answered(q) => q[1] = t /\ q[2] = p[2]
      BY <3>1, <3>2, TakenFrames
    <3>4. \A q \in asked : Answered(q) => q = p
      BY <1>2, <1>4, <3>3
    <3>5. \A q \in asked : (SeenByRouter(q, f) \/ SeenByHost(q)) <=> q = p
      BY <1>2, <1>4, <2>0, <2>1, <3>3 DEF SeenByRouter, SeenByHost, HostIp
    <3>6. p \in Own /\ p \in Pings
      BY <1>2, <2>1 DEF Own
    <3>7. reached' = reached \union {p}
      BY <1>1, <3>5
    <3>8. answered' = answered \/ answered' = answered \union {p}
      BY <1>1, <3>4
    <3>9. ServiceStep
      <4>1. CASE p \in reached
        BY <1>1, <3>6, <3>7, <3>8, <4>1 DEF ServiceStep, Service!Next, Service!Answer
      <4>2. CASE p \notin reached
        BY <1>1, <3>6, <3>7, <3>8, <4>2
           DEF ServiceStep, Service!Next, Service!Reach, Service!Lose
      <4>. QED BY <4>1, <4>2
    <3>. QED BY <1>1, <3>3, <3>9
  <2>2. CASE ~\E u \in Tap : p[2] = Gateway(u)
    <3>1. out' = {[tap |-> Other(t), frame |-> Forwarded(t, f)]} /\ Other(t) \in Tap
      BY <1>4, <2>2, Handled DEF NetworkInv, Delivers, Other
    <3>2. /\ Forwarded(t, f).type = "ip" /\ Forwarded(t, f).body.kind = "ip"
          /\ Forwarded(t, f).body.icmp = "request" /\ Forwarded(t, f).body.sip = HostIp(t)
          /\ Forwarded(t, f).body.dip = p[2]
      BY <1>4, EditedBody DEF PingFrame, Frame
    <3>3. /\ \A u \in Tap : Learned[u] = cache[u]
          /\ \A u \in Tap : Asking(u) # {} =>
               u = Other(t) /\ Asking(u) = {HostIp(t)} /\ p[2] = HostIp(u)
          /\ \A q : ~Answered(q)
      BY <3>1, <3>2, TakenFrames DEF Accepts
    <3>4. \A q : ~SeenByRouter(q, f)
      BY <2>0, <2>2 DEF SeenByRouter
    <3>5. \A q \in asked : SeenByHost(q) => q = p
      BY <1>2, <1>4, <3>3 DEF SeenByHost, HostIp, Other
    <3>6. \A u \in Tap : Asking(u) # {} => SeenByHost(p)
      BY <1>4, <3>3 DEF SeenByHost
    <3>7. answered' = answered /\ reached' \in {reached, reached \union {p}}
      BY <1>1, <3>3, <3>4, <3>5
    <3>8. ServiceStep
      BY <1>1, <1>2, <2>2, <3>7 DEF ServiceStep, Service!Next, Service!Reach, Own
    <3>9. \A u \in Tap : Asking(u) \subseteq {HostIp(v) : v \in Callers(u)'}
      <4>. SUFFICES ASSUME NEW u \in Tap, Asking(u) # {}
                    PROVE  Asking(u) \subseteq {HostIp(v) : v \in Callers(u)'}
        OBVIOUS
      <4>1. Asking(u) = {HostIp(t)} /\ p = <<t, HostIp(u)>>
        BY <1>2, <1>4, <3>3
      <4>2. t \in Callers(u)'
        BY <1>1, <3>6, <4>1 DEF Callers
      <4>. QED BY <4>1, <4>2
    <3>. QED BY <1>1, <3>3, <3>8, <3>9
  <2>. QED BY <2>1, <2>2
<1>5. ASSUME NEW u \in Callers(t), f = ReplyFrame(t, HostIp(u))
      PROVE  /\ ServiceStep
             /\ \A v \in Tap : cache'[v] \in {cache[v], RouterMac(v)}
             /\ \A v \in Tap : Asking(v) \subseteq {HostIp(w) : w \in Callers(v)'}
  <2>1. out' = {[tap |-> Other(t), frame |-> Forwarded(t, f)]} /\ Other(t) \in Tap
    BY <1>5, Handled DEF NetworkInv, Delivers, Other
  <2>2. /\ Forwarded(t, f).type = "ip" /\ Forwarded(t, f).body.kind = "ip"
        /\ Forwarded(t, f).body.icmp = "reply" /\ Forwarded(t, f).body.sip = HostIp(t)
        /\ Forwarded(t, f).body.dip = HostIp(u)
    BY <1>5, EditedBody DEF ReplyFrame, Frame
  <2>3. /\ \A v \in Tap : Learned[v] = cache[v]
        /\ \A v \in Tap : Asking(v) = {}
        /\ \A q : Answered(q) =>
             q[1] = Other(t) /\ q[2] = HostIp(t) /\ HostIp(u) = HostIp(Other(t))
    BY <2>1, <2>2, TakenFrames DEF Accepts
  <2>4. \A q : ~SeenByRouter(q, f) /\ ~SeenByHost(q)
    BY <1>5, <2>3 DEF SeenByRouter, SeenByHost, ReplyFrame, Frame, Ip
  <2>5. \A q \in asked : Answered(q) => q = <<u, HostIp(t)>>
    BY <1>2, <1>5, <2>3 DEF HostIp, Other, Callers
  <2>6. <<u, HostIp(t)>> \in reached /\ <<u, HostIp(t)>> \in Pings
    BY <1>5 DEF Callers, NetworkInv
  <2>7. reached' = reached
    BY <1>1, <2>4
  <2>8. answered' \in {answered, answered \union {<<u, HostIp(t)>>}}
    BY <1>1, <2>5
  <2>9. ServiceStep
    BY <1>1, <2>6, <2>7, <2>8 DEF ServiceStep, Service!Next, Service!Answer
  <2>. QED BY <1>1, <2>3, <2>9
<1>. QED BY <1>3, <1>4, <1>5 DEF Sendable

\* The frame is handled and its answer lost: a ping for the router has been seen.
LEMMA LosesStep ==
  ASSUME NetworkInv, NEW t \in Tap, Loses(t), NEW f \in Sendable(t), f = Head(queue[t])
  PROVE  ServiceStep
<1>1. /\ asked' = asked /\ answered' = answered
      /\ reached' = reached \union {p \in asked : SeenByRouter(p, f)}
  BY DEF Loses
<1>2. \A p \in asked : p \in Pings /\ p = <<p[1], p[2]>> /\ p[1] \in Tap
  BY NetworkAssumption DEF NetworkInv
<1>3. ASSUME NEW p \in asked, SeenByRouter(p, f)
      PROVE  p \in Own /\ p = <<t, f.body.dip>>
  <2>1. f.body.sip = HostIp(t)
    BY <1>3 DEF SeenByRouter, Sendable, AskMac, PingFrame, ReplyFrame, Frame, Ip
  <2>. QED BY <1>2, <1>3, <2>1 DEF SeenByRouter, Own, HostIp, Tap
<1>4. CASE \E p \in asked \ reached : SeenByRouter(p, f)
  <2>1. PICK p \in asked \ reached : SeenByRouter(p, f)
    BY <1>4
  <2>2. reached' = reached \union {p}
    BY <1>1, <1>3, <2>1
  <2>. QED BY <1>1, <1>2, <1>3, <2>1, <2>2 DEF ServiceStep, Service!Next, Service!Lose
<1>5. CASE ~\E p \in asked \ reached : SeenByRouter(p, f)
  BY <1>1, <1>5 DEF ServiceStep
<1>. QED BY <1>4, <1>5

\* A step of the service keeps its state ordered, and takes nothing away that a
\* frame on its way, or an answer owed, is backed by.
LEMMA Growth ==
  ASSUME NetworkInv, ServiceStep
  PROVE  /\ asked' \subseteq Pings /\ reached' \subseteq asked' /\ answered' \subseteq reached'
         /\ \A t \in Tap : Sendable(t) \subseteq Sendable(t)' /\ Callers(t) \subseteq Callers(t)'
<1>1. /\ asked' \subseteq Pings /\ reached' \subseteq asked' /\ answered' \subseteq reached'
      /\ asked \subseteq asked' /\ reached \subseteq reached'
  BY DEF NetworkInv, ServiceStep, Service!Next, Service!Ask, Service!Reach, Service!Lose,
         Service!Answer
<1>2. \A t \in Tap : Callers(t) \subseteq Callers(t)'
  BY <1>1 DEF Callers
<1>3. \A t \in Tap : {PingFrame(t, p[2]) : p \in {q \in asked : q[1] = t}}
                       \subseteq {PingFrame(t, p[2]) : p \in {q \in asked' : q[1] = t}}
  BY <1>1
<1>4. \A t \in Tap : {ReplyFrame(t, HostIp(u)) : u \in Callers(t)}
                       \subseteq {ReplyFrame(t, HostIp(u)) : u \in Callers(t)'}
  BY <1>2
<1>. QED BY <1>1, <1>2, <1>3, <1>4 DEF Sendable

\* A host puts a frame into the queue of its tap.
LEMMA ArriveStep ==
  ASSUME NetworkInv, NEW t \in Tap, NEW f \in Sendable(t), Arrive(t, f),
         UNCHANGED <<cache, asked, reached, answered>>,
         owed' = [u \in Tap |-> owed'[u]], \A u \in Tap : owed'[u] \subseteq owed[u]
  PROVE  NetworkInv' /\ ServiceStep
<1>1. \A u \in Tap : Sendable(u)' = Sendable(u) /\ Callers(u)' = Callers(u)
  BY DEF Sendable, Callers
<1>2. Append(queue[t], f) \in Seq(Sendable(t)) /\ Append(queue[t], f) # <<>>
  BY AppendProperties DEF NetworkInv
<1>3. /\ queue' = [u \in Tap |-> queue'[u]]
      /\ \A u \in Tap : queue'[u] = IF u = t THEN Append(queue[t], f) ELSE queue[u]
  BY DEF NetworkInv, Arrive
<1>4. ReadNeverBlocks'
  BY <1>2, <1>3 DEF NetworkInv, Arrive, ReadNeverBlocks
<1>5. \A u \in Tap : queue'[u] \in Seq(Sendable(u)')
  BY <1>1, <1>2, <1>3 DEF NetworkInv
<1>. QED BY <1>1, <1>3, <1>4, <1>5 DEF NetworkInv, GatewayKnownRightly, ServiceStep, Arrive

\* The router reads a frame: it was there, a host had sent it, and whatever the
\* step makes of it leaves the invariant in place.
LEMMA HandleStep ==
  ASSUME NetworkInv, NEW t \in Tap, Delivers(t) \/ Loses(t)
  PROVE  NetworkInv' /\ ServiceStep
<1>. DEFINE f == Head(queue[t])
<1>1. /\ t \in ready /\ pc = t /\ queue' = [queue EXCEPT ![t] = Tail(@)]
      /\ ready' = ready /\ program' = program /\ pc' = Following(t)
  BY DEF Delivers, Loses, HandleTap, WriteFails, Handle
<1>2. queue[t] \in Seq(Sendable(t)) /\ queue[t] # <<>>
  BY <1>1 DEF NetworkInv, ReadNeverBlocks
<1>3. f \in Sendable(t) /\ Tail(queue[t]) \in Seq(Sendable(t))
  BY <1>2, HeadTailProperties
<1>. HIDE DEF f
<1>4. /\ ServiceStep
      /\ \A u \in Tap : cache'[u] \in {cache[u], RouterMac(u)}
      /\ \A u \in Tap : owed'[u] \subseteq {HostIp(v) : v \in Callers(u)'}
      /\ cache' = [u \in Tap |-> cache'[u]] /\ owed' = [u \in Tap |-> owed'[u]]
  <2>1. CASE Delivers(t)
    <3>1. /\ ServiceStep
          /\ \A u \in Tap : cache'[u] \in {cache[u], RouterMac(u)}
          /\ \A u \in Tap : Asking(u) \subseteq {HostIp(v) : v \in Callers(u)'}
      BY <1>3, <2>1, DeliversStep DEF f
    <3>2. \A u \in Tap : {HostIp(v) : v \in Callers(u)} \subseteq {HostIp(v) : v \in Callers(u)'}
      BY <3>1, Growth
    <3>3. /\ cache' = Learned /\ owed' = [u \in Tap |-> owed[u] \union Asking(u)]
      BY <2>1 DEF Delivers
    <3>. QED BY <3>1, <3>2, <3>3 DEF NetworkInv, Learned
  <2>2. CASE Loses(t)
    <3>1. ServiceStep
      BY <1>3, <2>2, LosesStep DEF f
    <3>2. \A u \in Tap : {HostIp(v) : v \in Callers(u)} \subseteq {HostIp(v) : v \in Callers(u)'}
      BY <3>1, Growth
    <3>3. cache' = cache /\ owed' = owed
      BY <2>2 DEF Loses
    <3>. QED BY <3>1, <3>2, <3>3 DEF NetworkInv
  <2>. QED BY <2>1, <2>2
<1>5. /\ queue' = [u \in Tap |-> queue'[u]]
      /\ \A u \in Tap : queue'[u] = IF u = t THEN Tail(queue[t]) ELSE queue[u]
  BY <1>1 DEF NetworkInv
<1>6. \A u \in Tap : queue'[u] \in Seq(Sendable(u)')
  <2>. SUFFICES ASSUME NEW u \in Tap PROVE queue'[u] \in Seq(Sendable(u)')
    OBVIOUS
  <2>1. queue'[u] \in Seq(Sendable(u))
    BY <1>3, <1>5 DEF NetworkInv
  <2>2. Sendable(u) \subseteq Sendable(u)'
    BY <1>4, Growth
  <2>. QED BY <2>1, <2>2, SeqMonotonic
<1>7. ReadNeverBlocks'
  BY <1>1, <1>5 DEF NetworkInv, ReadNeverBlocks, Following, Tap
<1>8. GatewayKnownRightly'
  BY <1>4 DEF NetworkInv, GatewayKnownRightly
<1>. QED BY <1>1, <1>4, <1>5, <1>6, <1>7, <1>8, Growth DEF NetworkInv

\* A step that touches neither the queues nor what the hosts know.
LEMMA QuietStep ==
  ASSUME NetworkInv, UNCHANGED <<program, queue, cache, reached, answered, owed>>, ServiceStep,
         ready' \subseteq Tap, ReadNeverBlocks'
  PROVE  NetworkInv'
<1>1. \A t \in Tap : queue'[t] \in Seq(Sendable(t)')
  BY Growth, SeqMonotonic DEF NetworkInv
<1>. QED BY <1>1, Growth DEF NetworkInv, GatewayKnownRightly

\* Every step keeps the invariant and is one of the service, or none.
LEMMA NextMaps == NetworkInv /\ [NetworkNext]_nvars => NetworkInv' /\ ServiceStep
<1>. SUFFICES ASSUME NetworkInv, [NetworkNext]_nvars PROVE NetworkInv' /\ ServiceStep
  OBVIOUS
<1>1. CASE LoopStep /\ UNCHANGED <<cache, asked, reached, answered, owed>>
  <2>1. UNCHANGED <<program, queue>> /\ ready' \subseteq Tap /\ ReadNeverBlocks'
    BY <1>1, LoopStepQuiet DEF NetworkInv
  <2>. QED BY <1>1, <2>1, QuietStep DEF ServiceStep
<1>2. ASSUME NEW t \in Tap, Delivers(t) \/ Loses(t) PROVE NetworkInv' /\ ServiceStep
  BY <1>2, HandleStep
<1>3. ASSUME NEW p \in Pings, Ask(p) PROVE NetworkInv' /\ ServiceStep
  <2>1. ServiceStep
    BY <1>3 DEF Ask, ServiceStep, Service!Next, Service!Ask
  <2>. QED BY <1>3, <2>1, QuietStep DEF Ask, vars, NetworkInv, ReadNeverBlocks
<1>4. ASSUME NEW p \in Pings, SendPing(p) PROVE NetworkInv' /\ ServiceStep
  <2>1. /\ p[1] \in Tap /\ p \in asked /\ cache[p[1]] = RouterMac(p[1]) /\ UNCHANGED hosts
        /\ Arrive(p[1], Frame(p[1], cache[p[1]], "ip", Ip(2, "request", HostIp(p[1]), p[2])))
    BY <1>4, NetworkAssumption DEF SendPing, Waiting, NetworkInv, GatewayKnownRightly
  <2>2. PingFrame(p[1], p[2]) \in Sendable(p[1])
    BY <2>1 DEF Sendable
  <2>. QED BY <2>1, <2>2, ArriveStep DEF PingFrame, hosts, NetworkInv
<1>5. ASSUME NEW t \in Tap, LookUp(t) PROVE NetworkInv' /\ ServiceStep
  BY <1>5, ArriveStep DEF LookUp, AskMac, Sendable, hosts, NetworkInv
<1>6. ASSUME NEW t \in Tap, Forget(t) PROVE NetworkInv' /\ ServiceStep
  <2>1. ServiceStep
    BY <1>6 DEF Forget, ServiceStep
  <2>2. \A u \in Tap : Sendable(u)' = Sendable(u) /\ Callers(u)' = Callers(u)
    BY <1>6 DEF Forget, Sendable, Callers
  <2>. QED BY <1>6, <2>1, <2>2
           DEF Forget, vars, NetworkInv, ReadNeverBlocks, GatewayKnownRightly
<1>7. ASSUME NEW t \in Tap, NEW ip \in owed[t], SendAnswer(t, ip) PROVE NetworkInv' /\ ServiceStep
  <2>1. PICK u \in Callers(t) : ip = HostIp(u)
    BY <1>7 DEF NetworkInv
  <2>2. /\ cache[t] = RouterMac(t) /\ UNCHANGED <<cache, asked, reached, answered>>
        /\ Arrive(t, Frame(t, cache[t], "ip", Ip(2, "reply", HostIp(t), ip)))
        /\ owed' = [v \in Tap |-> owed'[v]] /\ \A v \in Tap : owed'[v] \subseteq owed[v]
    BY <1>7 DEF SendAnswer, NetworkInv, GatewayKnownRightly
  <2>3. ReplyFrame(t, ip) \in Sendable(t)
    BY <2>1 DEF Sendable
  <2>. QED BY <2>2, <2>3, ArriveStep DEF ReplyFrame
<1>8. CASE UNCHANGED nvars
  BY <1>8, QuietStep DEF nvars, vars, hosts, ServiceStep, NetworkInv, ReadNeverBlocks
<1>. QED BY <1>1, <1>2, <1>3, <1>4, <1>5, <1>6, <1>7, <1>8
         DEF NetworkNext, RouterRuns, RouterStops, FailsToRead, LoopStep, hosts

\* Nothing is on its way and nobody knows anything.
LEMMA InitMaps == NetworkInit => NetworkInv /\ Service!Init
<1>. SUFFICES ASSUME NetworkInit PROVE NetworkInv /\ Service!Init
  OBVIOUS
<1>1. \A t \in Tap : queue[t] = <<>> /\ queue[t] \in Seq(Sendable(t))
  BY DEF NetworkInit, Init
<1>. QED BY <1>1 DEF NetworkInit, Init, NetworkInv, ReadNeverBlocks, GatewayKnownRightly,
                     Service!Init

\* Under any schedule, losses, forgetting and repetition, the network behaves as
\* PingService: what comes back as an answer was asked for, and the machine asked
\* had seen the ping.
THEOREM AnswersComeFromTheMachineAsked == NetworkSpec => PingSpec
<1>1. ServiceStep => [Service!Next]_(Service!vars)
  BY DEF ServiceStep, Service!vars
<1>. QED BY <1>1, InitMaps, NextMaps, PTL DEF NetworkSpec, PingSpec, Service!Spec

\* No host ever takes another address for its gateway's.
THEOREM GatewaysKnown == NetworkSpec => []GatewayKnownRightly
<1>1. NetworkInv => GatewayKnownRightly
  BY DEF NetworkInv
<1>. QED BY <1>1, InitMaps, NextMaps, PTL DEF NetworkSpec
-----------------------------------------------------------------------------
(* InternetChecksum.  The sum over all words of a message cannot be        *)
(* written down without recursion; instead the invariant says that there   *)
(* are partial sums of the words, and what the loop makes of them.         *)

\* S holds, at every even offset up to n, the sum of the words before it.
PartialSums(S, d, n) ==
  /\ S \in [Nat -> Int] /\ S[0] = 0
  /\ \A k \in Nat : k % 2 = 0 /\ k < n => S[k + 2] = S[k] + Word(d, k)

\* Equal in ones' complement, but for its two zeros.
Same(a, b) == (a - b) % 65535 = 0

\* The offset behind the last word.
Top(d) == Len(d) + (Len(d) % 2)

\* a is the sum of the words of d before offset n, and once the carries are being
\* brought round as good as it.
Summing(S, d, n, a) ==
  /\ n \in Nat /\ n % 2 = 0 /\ n <= Top(d)
  /\ a \in Nat /\ a <= 65535 * n
  /\ n < Len(d) => a = S[n]
  /\ S[n] \in Nat /\ Same(a, S[n]) /\ (a = 0 <=> S[n] = 0)

\* The words of d add up to c, in ones' complement; to nothing less than 65535
\* when c is 0.
AddsUpTo(S, d, c) ==
  /\ PartialSums(S, d, Len(d))
  /\ Same(S[Top(d)], c) /\ (c = 0 => S[Top(d)] # 0)

ChecksumInv ==
  /\ data \in Seq(U8) /\ Len(data) \in (Field + 2)..BUFFER_SIZE /\ change \in Int
  /\ stage \in {"clear", "sum", "transit", "check", "taken"}
  /\ stage \in {"clear", "sum", "transit"} => change = 0
  /\ stage \in {"clear", "transit"} => at = 0 /\ acc = 0
  /\ stage = "sum" =>
       /\ Word(data, Field) = 0
       /\ \E S : PartialSums(S, data, at) /\ Summing(S, data, at, acc)
  /\ stage = "transit" => \E S : AddsUpTo(S, data, 0)
  /\ stage = "check" => \E S : AddsUpTo(S, data, change) /\ Summing(S, data, at, acc)
  /\ SumTellsDamage

\* A word is two bytes wide.
LEMMA WordRange ==
  ASSUME NEW d \in Seq(U8), NEW k \in Nat, k < Len(d)
  PROVE  Word(d, k) \in U16
<1>1. Len(d) \in Nat /\ \A j \in 1..Len(d) : d[j] \in U8
  BY ElementOfSeq
<1>2. d[k + 1] \in U8 /\ (k + 1 < Len(d) => d[k + 2] \in U8)
  BY <1>1
<1>3. \A x \in U8 : x \in Nat /\ x < 256
  BY DEF U8
<1>. QED BY SMT, <1>1, <1>2, <1>3 DEF Word, U16

\* Writing a word changes that word only, and a whole word reads as written.
LEMMA PutWord ==
  ASSUME NEW d \in Seq(U8), NEW k \in Nat, k < Len(d), k % 2 = 0, NEW w \in U16
  PROVE  /\ Put(d, k, w) \in Seq(U8) /\ Len(Put(d, k, w)) = Len(d)
         /\ k + 1 < Len(d) => Word(Put(d, k, w), k) = w
         /\ \A j \in Nat : j % 2 = 0 /\ j < Len(d) /\ j # k =>
              Word(Put(d, k, w), j) = Word(d, j)
<1>. DEFINE e == Put(d, k, w)
<1>1. Len(d) \in Nat /\ \A j \in 1..Len(d) : d[j] \in U8
  BY ElementOfSeq
<1>2. w \div 256 \in U8 /\ w % 256 \in U8 /\ w = 256 * (w \div 256) + (w % 256)
  BY SMT DEF U8, U16
<1>3. /\ e \in [1..Len(d) -> U8]
      /\ \A j \in 1..Len(d) :
           e[j] = IF j = k + 1 THEN w \div 256 ELSE IF j = k + 2 THEN w % 256 ELSE d[j]
  BY <1>1, <1>2 DEF Put
<1>4. e \in Seq(U8) /\ Len(e) = Len(d)
  BY <1>1, <1>3
<1>. HIDE DEF e
<1>5. k + 1 < Len(d) => Word(e, k) = w
  BY <1>1, <1>2, <1>3, <1>4 DEF Word
<1>6. ASSUME NEW j \in Nat, j % 2 = 0, j < Len(d), j # k PROVE Word(e, j) = Word(d, j)
  <2>1. j + 1 \in 1..Len(d) /\ j + 1 # k + 1 /\ j + 1 # k + 2 /\ j + 2 # k + 1 /\ j + 2 # k + 2
    BY <1>1, <1>6
  <2>2. e[j + 1] = d[j + 1] /\ (j + 1 < Len(d) => e[j + 2] = d[j + 2])
    BY <1>1, <1>3, <2>1
  <2>. QED BY <1>4, <2>2 DEF Word
<1>. QED BY <1>4, <1>5, <1>6 DEF e

\* The partial sums behind a word that is written move by what it changed.
LEMMA PutMovesSums ==
  ASSUME NEW d \in Seq(U8), NEW k \in Nat, k < Len(d), k % 2 = 0, NEW w \in U16,
         NEW S, PartialSums(S, d, Len(d))
  PROVE  \E T : /\ PartialSums(T, Put(d, k, w), Len(d))
                /\ T[Top(d)] = S[Top(d)] + Word(Put(d, k, w), k) - Word(d, k)
<1>. DEFINE e == Put(d, k, w)
            c == Word(e, k) - Word(d, k)
            T == [j \in Nat |-> S[j] + (IF k < j THEN c ELSE 0)]
<1>1. e \in Seq(U8) /\ Len(e) = Len(d) /\ Len(d) \in Nat
  BY SMTT(30), PutWord
<1>2. \A j \in Nat : j % 2 = 0 /\ j < Len(d) /\ j # k => Word(e, j) = Word(d, j)
  BY PutWord
<1>3. \A j \in Nat : j < Len(d) => Word(e, j) \in Int /\ Word(d, j) \in Int
  BY <1>1, WordRange DEF U16
<1>. HIDE DEF e
<1>4. c \in Int /\ Word(e, k) = Word(d, k) + c
  BY <1>3
<1>. HIDE DEF c
<1>5. /\ S \in [Nat -> Int] /\ S[0] = 0
      /\ \A j \in Nat : j % 2 = 0 /\ j < Len(d) => S[j + 2] = S[j] + Word(d, j)
  BY DEF PartialSums
<1>6. /\ T \in [Nat -> Int]
      /\ \A j \in Nat : T[j] = S[j] + (IF k < j THEN c ELSE 0)
  BY <1>4, <1>5
<1>. HIDE DEF T
<1>7. T[0] = 0
  BY <1>5, <1>6
<1>8. ASSUME NEW j \in Nat, j % 2 = 0, j < Len(d) PROVE T[j + 2] = T[j] + Word(e, j)
  <2>1. S[j + 2] = S[j] + Word(d, j) /\ S[j] \in Int /\ Word(d, j) \in Int
    BY <1>3, <1>5, <1>8
  <2>2. T[j] = S[j] + (IF k < j THEN c ELSE 0) /\ T[j + 2] = S[j + 2] + (IF k < j + 2 THEN c ELSE 0)
    BY <1>6
  <2>3. CASE j = k
    BY <1>4, <2>1, <2>2, <2>3
  <2>4. CASE j # k
    <3>1. Word(e, j) = Word(d, j) /\ (k < j <=> k < j + 2)
      BY <1>2, <1>8, <2>4
    <3>. QED BY <1>4, <2>1, <2>2, <3>1
  <2>. QED BY <2>3, <2>4
<1>9. PartialSums(T, e, Len(d))
  BY <1>6, <1>7, <1>8 DEF PartialSums
<1>10. T[Top(d)] = S[Top(d)] + c /\ S[Top(d)] \in Int
  <2>1. Top(d) \in Nat /\ k < Top(d)
    BY <1>1 DEF Top
  <2>. QED BY <1>5, <1>6, <2>1
<1>. QED BY <1>3, <1>9, <1>10 DEF e, c

\* The sum of a message of BUFFER_SIZE bytes does not overflow.
LEMMA NoOverflow ==
  ASSUME NEW x \in Nat, x < 65536 * 65536
  PROVE  Wrap32(x) = x
<1>1. x \div 65536 \in U16 /\ x = 65536 * (x \div 65536) + (x % 65536)
  BY SMT DEF U16
<1>2. (x \div 65536) % 65536 = x \div 65536
  BY SMT, <1>1 DEF U16
<1>. QED BY SMT, <1>1, <1>2 DEF Wrap32

\* The complement of a number brings what is as good as it to zero, but to the zero
\* that is not nothing.
LEMMA ComplementSame ==
  ASSUME NEW a \in Nat, a < 65536, NEW b \in Nat, Same(a, b), a = 0 <=> b = 0
  PROVE  Same(b + 65535 - a, 0) /\ b + 65535 - a # 0
BY SMT DEF Same

\* What is added to a zero that is not nothing shows.
LEMMA MovedSame ==
  ASSUME NEW t \in Int, NEW c \in Int, Same(t, 0), t # 0
  PROVE  Same(t + c, c) /\ (c = 0 => t + c # 0)
BY SMT DEF Same

\* As good as something as good as it.
LEMMA SameTrans ==
  ASSUME NEW a \in Int, NEW b \in Int, NEW c \in Int, Same(a, b), Same(b, c)
  PROVE  Same(a, c)
BY SMT DEF Same

\* A carry brought round leaves the value of the sum in ones' complement.
LEMMA FoldKeeps ==
  ASSUME NEW x \in Nat
  PROVE  LET y == (x % 65536) + (x \div 65536) IN
           /\ y \in Nat /\ y <= x /\ Same(y, x) /\ (y = 0 <=> x = 0)
<1>. DEFINE h == x \div 65536
            l == x % 65536
<1>1. h \in Nat /\ l \in Nat /\ x = 65536 * h + l
  BY SMT
<1>. HIDE DEF h, l
<1>2. l + h \in Nat /\ l + h <= x /\ (l + h = 0 <=> x = 0)
  BY SMT, <1>1
<1>3. (l + h) - x = 65535 * (-h)
  BY SMT, <1>1
<1>4. Same(l + h, x)
  BY SMT, <1>1, <1>3 DEF Same
<1>. QED BY SMT, <1>2, <1>4 DEF h, l

\* Nothing has been summed yet.
LEMMA SumsBegin ==
  ASSUME NEW d, NEW S, S[0] = 0, Len(d) \in Nat
  PROVE  Summing(S, d, 0, 0)
BY SMT DEF Summing, Top, Same

\* The partial sums reach one word further.
LEMMA SumsFurther ==
  ASSUME NEW d \in Seq(U8), NEW n \in Nat, n % 2 = 0, n < Len(d), NEW S, PartialSums(S, d, n)
  PROVE  \E T : PartialSums(T, d, n + 2) /\ T[n] = S[n] /\ T[n + 2] = S[n] + Word(d, n)
<1>. DEFINE T == [S EXCEPT ![n + 2] = S[n] + Word(d, n)]
<1>0. Word(d, n) \in Int
  BY WordRange DEF U16
<1>1. S \in [Nat -> Int] /\ S[0] = 0
  BY DEF PartialSums
<1>2. \A k \in Nat : k % 2 = 0 /\ k < n => S[k + 2] = S[k] + Word(d, k)
  BY DEF PartialSums
<1>3. S[n] + Word(d, n) \in Int
  BY <1>0, <1>1
<1>4. T \in [Nat -> Int] /\ T[n + 2] = S[n] + Word(d, n) /\ \A k \in Nat : k # n + 2 => T[k] = S[k]
  BY <1>1, <1>3
<1>. HIDE DEF T
<1>5. T[0] = 0 /\ T[n] = S[n]
  <2>1. n # n + 2 /\ 0 # n + 2
    OBVIOUS
  <2>. QED BY <1>1, <1>4, <2>1
<1>6. ASSUME NEW k \in Nat, k % 2 = 0, k < n + 2 PROVE T[k + 2] = T[k] + Word(d, k)
  <2>1. CASE k = n
    BY <1>4, <1>5, <2>1
  <2>2. CASE k # n
    <3>1. k < n /\ k + 2 # n + 2 /\ k # n + 2
      BY <1>6, <2>2
    <3>2. T[k + 2] = S[k + 2] /\ T[k] = S[k]
      BY <1>4, <3>1
    <3>3. S[k + 2] = S[k] + Word(d, k)
      BY <1>2, <1>6, <3>1
    <3>. QED BY <3>2, <3>3
  <2>. QED BY <2>1, <2>2
<1>. QED BY <1>4, <1>5, <1>6 DEF PartialSums

\* One turn of the loop over the words.
LEMMA AddSumming ==
  ASSUME NEW d \in Seq(U8), Len(d) <= 2048, NEW n, NEW a, NEW S, NEW T, Summing(S, d, n, a),
         n < Len(d), T[n + 2] = S[n] + Word(d, n)
  PROVE  Summing(T, d, n + 2, Wrap32(a + Word(d, n)))
<1>1. /\ n \in Nat /\ n % 2 = 0 /\ a \in Nat /\ a <= 65535 * n /\ a = S[n] /\ Len(d) \in Nat
  BY DEF Summing
<1>2. Word(d, n) \in Nat /\ Word(d, n) <= 65535
  BY SMT, <1>1, WordRange DEF U16
<1>3. n + 2 \in Nat /\ (n + 2) % 2 = 0 /\ n + 2 <= Top(d)
  BY <1>1 DEF Top
<1>. DEFINE x == a + Word(d, n)
<1>4. x \in Nat /\ x <= 65535 * (n + 2) /\ x < 65536 * 65536 /\ T[n + 2] = x
  BY SMT, <1>1, <1>2
<1>. HIDE DEF x
<1>5. Wrap32(x) = x
  BY SMT, <1>4, NoOverflow
<1>6. Same(x, x)
  BY SMT, <1>4 DEF Same
<1>7. Summing(T, d, n + 2, x)
  BY SMT, <1>3, <1>4, <1>6 DEF Summing
<1>. QED BY <1>5, <1>7 DEF x

\* One turn of the loop over the carries.
LEMMA FoldSumming ==
  ASSUME NEW d, Len(d) \in Nat, NEW n, NEW a, NEW S, Summing(S, d, n, a), n >= Len(d)
  PROVE  Summing(S, d, n, (a % 65536) + (a \div 65536))
<1>. DEFINE b == (a % 65536) + (a \div 65536)
<1>1. /\ n \in Nat /\ n % 2 = 0 /\ n <= Top(d) /\ a \in Nat /\ a <= 65535 * n
      /\ S[n] \in Nat /\ Same(a, S[n]) /\ (a = 0 <=> S[n] = 0)
  BY DEF Summing
<1>2. b \in Nat /\ b <= a /\ Same(b, a) /\ (b = 0 <=> a = 0)
  BY <1>1, FoldKeeps
<1>. HIDE DEF b
<1>3. Same(b, S[n]) /\ b <= 65535 * n
  BY SMT, <1>1, <1>2, SameTrans
<1>4. Summing(S, d, n, b)
  BY <1>1, <1>2, <1>3 DEF Summing
<1>. QED BY <1>4 DEF b

\* When the loops have ended the sum is over the whole message.
LEMMA SummedWhole ==
  ASSUME NEW d, Len(d) \in Nat, NEW n, NEW a, NEW S, Summing(S, d, n, a), n >= Len(d)
  PROVE  n = Top(d)
BY DEF Summing, Top

\* The complement of the sum, where the field was clear, brings the sum to zero.
LEMMA StoreBalances ==
  ASSUME NEW d \in Seq(U8), NEW k \in Nat, k % 2 = 0, k + 1 < Len(d), Word(d, k) = 0,
         NEW n, NEW a, NEW S, PartialSums(S, d, n), Summing(S, d, n, a), n >= Len(d), a < 65536
  PROVE  \E T : AddsUpTo(T, Put(d, k, 65535 - a), 0)
<1>. DEFINE c == 65535 - a
            e == Put(d, k, c)
<1>0. /\ Len(d) \in Nat /\ k < Len(d) /\ n \in Nat /\ a \in Nat
      /\ S[n] \in Nat /\ Same(a, S[n]) /\ (a = 0 <=> S[n] = 0)
  BY DEF Summing
<1>1. n = Top(d)
  BY <1>0, SummedWhole
<1>2. PartialSums(S, d, Len(d))
  <2>1. S \in [Nat -> Int] /\ S[0] = 0
    BY DEF PartialSums
  <2>2. ASSUME NEW j \in Nat, j % 2 = 0, j < Len(d) PROVE S[j + 2] = S[j] + Word(d, j)
    <3>1. j < n
      BY <1>0, <2>2
    <3>. QED BY <2>2, <3>1 DEF PartialSums
  <2>. QED BY <2>1, <2>2 DEF PartialSums
<1>3. c \in U16 /\ c \in Nat /\ c + a = 65535
  BY SMT, <1>0 DEF U16
<1>. HIDE DEF c
<1>4. e \in Seq(U8) /\ Len(e) = Len(d) /\ Word(e, k) = c
  BY <1>0, <1>3, PutWord
<1>5. \E T : PartialSums(T, e, Len(d)) /\ T[Top(d)] = S[Top(d)] + Word(e, k) - Word(d, k)
  BY <1>0, <1>2, <1>3, PutMovesSums
<1>. HIDE DEF e
<1>6. PICK T : PartialSums(T, e, Len(d)) /\ T[Top(d)] = S[Top(d)] + Word(e, k) - Word(d, k)
  BY <1>5
<1>7. Top(e) = Top(d) /\ T[Top(e)] = S[n] + c
  BY <1>0, <1>1, <1>3, <1>4, <1>6 DEF Top
<1>9. Same(S[n] + c, 0) /\ S[n] + c # 0
  <2>1. S[n] + c = S[n] + 65535 - a
    BY SMT, <1>0, <1>3
  <2>2. Same(S[n] + 65535 - a, 0) /\ S[n] + 65535 - a # 0
    BY <1>0, ComplementSame
  <2>. QED BY <2>1, <2>2
<1>8. AddsUpTo(T, e, 0)
  BY <1>4, <1>6, <1>7, <1>9 DEF AddsUpTo
<1>. QED BY <1>8 DEF c, e

\* A message as it was sent, summed again with its checksum.
LEMMA ArrivesWhole ==
  ASSUME NEW d \in Seq(U8), NEW S, AddsUpTo(S, d, 0)
  PROVE  Summing(S, d, 0, 0)
BY SumsBegin DEF AddsUpTo, PartialSums

\* A word written under way moves the sum by what it changed.
LEMMA DamageMoves ==
  ASSUME NEW d \in Seq(U8), NEW k \in Nat, k % 2 = 0, k < Len(d), NEW w \in U16,
         NEW S, AddsUpTo(S, d, 0)
  PROVE  \E T : AddsUpTo(T, Put(d, k, w), Word(Put(d, k, w), k) - Word(d, k))
<1>. DEFINE e == Put(d, k, w)
            c == Word(e, k) - Word(d, k)
<1>0. e \in Seq(U8) /\ Len(e) = Len(d)
  BY PutWord
<1>1. Len(d) \in Nat /\ Top(e) = Top(d) /\ Top(d) \in Nat
  BY <1>0 DEF Top
<1>2. PICK T : PartialSums(T, e, Len(d)) /\ T[Top(d)] = S[Top(d)] + Word(e, k) - Word(d, k)
  BY PutMovesSums DEF AddsUpTo
<1>3. Word(e, k) \in Int /\ Word(d, k) \in Int
  BY <1>0, WordRange DEF U16
<1>. HIDE DEF e
<1>4. S[Top(d)] \in Int /\ Same(S[Top(d)], 0) /\ S[Top(d)] # 0
  BY <1>1 DEF AddsUpTo, PartialSums
<1>5. c \in Int /\ T[Top(d)] = S[Top(d)] + c
  BY <1>2, <1>3, <1>4
<1>. HIDE DEF c
<1>6. Same(S[Top(d)] + c, c) /\ (c = 0 => S[Top(d)] + c # 0)
  BY <1>4, <1>5, MovedSame
<1>7. AddsUpTo(T, e, c)
  BY <1>0, <1>1, <1>2, <1>5, <1>6 DEF AddsUpTo
<1>. QED BY <1>7 DEF c, e

\* Two words that change places move the sum there and back.
LEMMA SwapKeeps ==
  ASSUME NEW d \in Seq(U8), NEW j \in Nat, NEW k \in Nat, j % 2 = 0, k % 2 = 0,
         j < k, k + 1 < Len(d), NEW S, AddsUpTo(S, d, 0)
  PROVE  LET e == Put(Put(d, j, Word(d, k)), k, Word(d, j)) IN
           e \in Seq(U8) /\ Len(e) = Len(d) /\ \E T : AddsUpTo(T, e, 0)
<1>. DEFINE v == Word(d, j)
            w == Word(d, k)
            e == Put(d, j, w)
            f == Put(e, k, v)
<1>1. Len(d) \in Nat /\ j < Len(d) /\ j + 1 < Len(d) /\ k < Len(d) /\ j # k
  OBVIOUS
<1>2. v \in U16 /\ w \in U16
  BY <1>1, WordRange
<1>3. PartialSums(S, d, Len(d)) /\ S[Top(d)] \in Int /\ Top(d) \in Nat
  BY <1>1 DEF AddsUpTo, PartialSums, Top
<1>. HIDE DEF v, w
<1>4. /\ e \in Seq(U8) /\ Len(e) = Len(d) /\ Word(e, j) = w
      /\ \A i \in Nat : i % 2 = 0 /\ i < Len(d) /\ i # j => Word(e, i) = Word(d, i)
  BY <1>1, <1>2, PutWord
<1>5. Word(e, k) = w
  BY <1>1, <1>4 DEF w
<1>6. \E T : PartialSums(T, e, Len(d)) /\ T[Top(d)] = S[Top(d)] + Word(e, j) - Word(d, j)
  BY <1>1, <1>2, <1>3, PutMovesSums
<1>. HIDE DEF e
<1>7. PICK T : PartialSums(T, e, Len(d)) /\ T[Top(d)] = S[Top(d)] + Word(e, j) - Word(d, j)
  BY <1>6
<1>8. Top(e) = Top(d)
  BY <1>4 DEF Top
<1>9. f \in Seq(U8) /\ Len(f) = Len(e) /\ Word(f, k) = v
  BY <1>1, <1>2, <1>4, PutWord
<1>10. \E U : PartialSums(U, f, Len(e)) /\ U[Top(e)] = T[Top(e)] + Word(f, k) - Word(e, k)
  BY <1>1, <1>2, <1>4, <1>7, PutMovesSums
<1>. HIDE DEF f
<1>11. PICK U : PartialSums(U, f, Len(e)) /\ U[Top(e)] = T[Top(e)] + Word(f, k) - Word(e, k)
  BY <1>10
<1>12. v \in Int /\ w \in Int
  BY <1>2 DEF U16
<1>13. Word(d, j) = v
  BY DEF v
<1>14. U[Top(d)] = S[Top(d)]
  BY <1>3, <1>4, <1>5, <1>7, <1>8, <1>9, <1>11, <1>12, <1>13
<1>15. Top(f) = Top(d) /\ Len(f) = Len(d)
  BY <1>4, <1>9 DEF Top
<1>16. AddsUpTo(U, f, 0)
  BY <1>4, <1>9, <1>11, <1>14, <1>15 DEF AddsUpTo
<1>. QED BY <1>4, <1>9, <1>16 DEF e, f, v, w

\* The answer tells a sum of zero from any other.
LEMMA AnswerTells ==
  ASSUME NEW a \in Nat, a < 65536, NEW t \in Nat, NEW c \in Int, Same(a, t), a = 0 <=> t = 0,
         Same(t, c), c = 0 => t # 0
  PROVE  /\ c = 0 => 65535 - a = 0
         /\ c % 65535 # 0 => 65535 - a # 0
BY SMT DEF Same

\* No message has been summed.
LEMMA ChecksumInit == SumInit => ChecksumInv
BY MessageAssumption DEF SumInit, ChecksumInv, SumTellsDamage

\* The field is cleared: its word is 0, and no word has been summed.
LEMMA ClearStep == ChecksumInv /\ ClearField => ChecksumInv'
<1>. SUFFICES ASSUME ChecksumInv, ClearField PROVE ChecksumInv'
  OBVIOUS
<1>1. /\ data \in Seq(U8) /\ Len(data) \in (Field + 2)..BUFFER_SIZE /\ change = 0
      /\ at = 0 /\ acc = 0 /\ stage' = "sum" /\ data' = Put(data, Field, 0)
      /\ UNCHANGED <<at, acc, change, answer>>
  BY DEF ChecksumInv, ClearField
<1>2. Field \in Nat /\ Field % 2 = 0 /\ Len(data) \in Nat /\ Field + 1 < Len(data) /\ 0 \in U16
  BY <1>1, MessageAssumption DEF U16
<1>3. data' \in Seq(U8) /\ Len(data') = Len(data) /\ Word(data', Field) = 0
  <2>1. Field < Len(data)
    BY <1>2
  <2>2. LET e == Put(data, Field, 0) IN
          e \in Seq(U8) /\ Len(e) = Len(data) /\ Word(e, Field) = 0
    BY <1>1, <1>2, <2>1, PutWord
  <2>. QED BY <1>1, <2>2
<1>. DEFINE S == [k \in Nat |-> 0]
<1>4. PartialSums(S, data', at') /\ Summing(S, data', at', acc')
  <2>1. S \in [Nat -> Int] /\ S[0] = 0 /\ at' = 0 /\ acc' = 0
    BY <1>1
  <2>2. Summing(S, data', 0, 0)
    BY <1>2, <1>3, <2>1, SumsBegin
  <2>. QED BY <2>1, <2>2 DEF PartialSums
<1>. HIDE DEF S
<1>. QED BY <1>1, <1>3, <1>4 DEF ChecksumInv, SumTellsDamage

\* A word is added: the partial sums reach further, or have been there before.
LEMMA AddStep == ChecksumInv /\ AddWord => ChecksumInv'
<1>. SUFFICES ASSUME ChecksumInv, AddWord PROVE ChecksumInv'
  OBVIOUS
<1>1. /\ data \in Seq(U8) /\ Len(data) \in (Field + 2)..BUFFER_SIZE /\ change \in Int
      /\ stage \in {"sum", "check"} /\ at < Len(data)
      /\ acc' = Wrap32(acc + Word(data, at)) /\ at' = at + 2
      /\ UNCHANGED <<stage, data, change, answer>>
  BY DEF ChecksumInv, AddWord
<1>2. Len(data) <= 2048
  BY <1>1, MessageAssumption DEF BUFFER_SIZE
<1>3. CASE stage = "sum"
  <2>1. PICK S : PartialSums(S, data, at) /\ Summing(S, data, at, acc)
    BY <1>3 DEF ChecksumInv
  <2>2. at \in Nat /\ at % 2 = 0
    BY <2>1 DEF Summing
  <2>3. PICK T : PartialSums(T, data, at + 2) /\ T[at + 2] = S[at] + Word(data, at)
    BY <1>1, <2>1, <2>2, SumsFurther
  <2>4. Summing(T, data, at + 2, Wrap32(acc + Word(data, at)))
    BY <1>1, <1>2, <2>1, <2>3, AddSumming
  <2>5. \E U : PartialSums(U, data', at') /\ Summing(U, data', at', acc')
    BY <1>1, <2>3, <2>4
  <2>. QED BY <1>1, <1>3, <2>5 DEF ChecksumInv, SumTellsDamage
<1>4. CASE stage = "check"
  <2>1. PICK S : AddsUpTo(S, data, change) /\ Summing(S, data, at, acc)
    BY <1>4 DEF ChecksumInv
  <2>2. at \in Nat /\ at % 2 = 0
    BY <2>1 DEF Summing
  <2>3. S[at + 2] = S[at] + Word(data, at)
    BY <1>1, <2>1, <2>2 DEF AddsUpTo, PartialSums
  <2>4. Summing(S, data, at + 2, Wrap32(acc + Word(data, at)))
    BY <1>1, <1>2, <2>1, <2>3, AddSumming
  <2>5. \E U : AddsUpTo(U, data', change') /\ Summing(U, data', at', acc')
    BY <1>1, <2>1, <2>4
  <2>. QED BY <1>1, <1>4, <2>5 DEF ChecksumInv, SumTellsDamage
<1>. QED BY <1>1, <1>3, <1>4

\* A carry is brought round.
LEMMA FoldStep == ChecksumInv /\ FoldCarry => ChecksumInv'
<1>. SUFFICES ASSUME ChecksumInv, FoldCarry PROVE ChecksumInv'
  OBVIOUS
<1>1. /\ data \in Seq(U8) /\ Len(data) \in (Field + 2)..BUFFER_SIZE /\ change \in Int
      /\ stage \in {"sum", "check"} /\ at >= Len(data)
      /\ acc' = (acc % 65536) + (acc \div 65536)
      /\ UNCHANGED <<stage, data, at, change, answer>>
  BY DEF ChecksumInv, FoldCarry, Summed16
<1>2. ASSUME NEW S, Summing(S, data, at, acc) PROVE Summing(S, data', at', acc')
  <2>1. Summing(S, data, at, (acc % 65536) + (acc \div 65536))
    BY <1>1, <1>2, FoldSumming
  <2>. QED BY <1>1, <2>1
<1>3. CASE stage = "sum"
  <2>1. PICK S : PartialSums(S, data, at) /\ Summing(S, data, at, acc)
    BY <1>3 DEF ChecksumInv
  <2>2. \E U : PartialSums(U, data', at') /\ Summing(U, data', at', acc')
    BY <1>1, <1>2, <2>1
  <2>. QED BY <1>1, <1>3, <2>2 DEF ChecksumInv, SumTellsDamage
<1>4. CASE stage = "check"
  <2>1. PICK S : AddsUpTo(S, data, change) /\ Summing(S, data, at, acc)
    BY <1>4 DEF ChecksumInv
  <2>2. \E U : AddsUpTo(U, data', change') /\ Summing(U, data', at', acc')
    BY <1>1, <1>2, <2>1
  <2>. QED BY <1>1, <1>4, <2>2 DEF ChecksumInv, SumTellsDamage
<1>. QED BY <1>1, <1>3, <1>4

\* The checksum is stored where the field was clear.
LEMMA StoreStep == ChecksumInv /\ StoreSum => ChecksumInv'
<1>. SUFFICES ASSUME ChecksumInv, StoreSum PROVE ChecksumInv'
  OBVIOUS
<1>1. /\ data \in Seq(U8) /\ Len(data) \in (Field + 2)..BUFFER_SIZE /\ change = 0
      /\ stage = "sum" /\ at >= Len(data) /\ acc \div 65536 = 0 /\ Word(data, Field) = 0
      /\ data' = Put(data, Field, 65535 - acc) /\ stage' = "transit" /\ at' = 0 /\ acc' = 0
      /\ UNCHANGED <<change, answer>>
  BY DEF ChecksumInv, StoreSum, Summed16, Complement
<1>2. PICK S : PartialSums(S, data, at) /\ Summing(S, data, at, acc)
  BY <1>1 DEF ChecksumInv
<1>3. Field \in Nat /\ Field % 2 = 0 /\ Len(data) \in Nat /\ Field + 1 < Len(data)
  BY <1>1, MessageAssumption
<1>4. acc \in Nat
  BY <1>2 DEF Summing
<1>5. acc < 65536 /\ 65535 - acc \in U16
  BY SMT, <1>1, <1>4 DEF U16
<1>6. data' \in Seq(U8) /\ Len(data') = Len(data)
  <2>1. Field < Len(data)
    BY <1>3
  <2>2. LET e == Put(data, Field, 65535 - acc) IN e \in Seq(U8) /\ Len(e) = Len(data)
    BY <1>1, <1>3, <1>5, <2>1, PutWord
  <2>. QED BY <1>1, <2>2
<1>7. \E T : AddsUpTo(T, data', 0)
  BY <1>1, <1>2, <1>3, <1>5, StoreBalances
<1>. QED BY <1>1, <1>6, <1>7 DEF ChecksumInv, SumTellsDamage

\* What arrives adds up to what was changed on the way.
LEMMA SumArrives ==
  ASSUME ChecksumInv, NEW d \in Seq(U8), Len(d) = Len(data), NEW c \in Int, Arrives(d, c),
         \E S : AddsUpTo(S, d, c)
  PROVE  ChecksumInv'
<1>1. /\ data \in Seq(U8) /\ Len(data) \in (Field + 2)..BUFFER_SIZE
      /\ stage = "transit" /\ stage' = "check" /\ at' = 0 /\ acc' = 0 /\ data' = d /\ change' = c
  BY DEF ChecksumInv, Arrives
<1>2. PICK S : AddsUpTo(S, d, c)
  OBVIOUS
<1>3. Summing(S, d, 0, 0)
  BY <1>2, SumsBegin DEF AddsUpTo, PartialSums
<1>4. \E T : AddsUpTo(T, data', change') /\ Summing(T, data', at', acc')
  BY <1>1, <1>2, <1>3
<1>. QED BY <1>1, <1>4 DEF ChecksumInv, SumTellsDamage

\* Whole, damaged or with two words in each other's place.
LEMMA TransitStep ==
  ChecksumInv /\ (Arrives(data, 0) \/ ArrivesDamaged \/ ArrivesSwapped) => ChecksumInv'
<1>. SUFFICES ASSUME ChecksumInv, Arrives(data, 0) \/ ArrivesDamaged \/ ArrivesSwapped
              PROVE  ChecksumInv'
  OBVIOUS
<1>1. data \in Seq(U8) /\ stage = "transit" /\ Len(data) \in Nat
  BY DEF ChecksumInv, Arrives, ArrivesDamaged, ArrivesSwapped
<1>2. PICK S : AddsUpTo(S, data, 0)
  BY <1>1 DEF ChecksumInv
<1>3. CASE Arrives(data, 0)
  BY <1>1, <1>2, <1>3, SumArrives
<1>4. CASE ArrivesDamaged
  <2>1. PICK k \in Offsets16, w \in Noise :
          Arrives(Put(data, k, w), Word(Put(data, k, w), k) - Word(data, k))
    BY <1>4 DEF ArrivesDamaged
  <2>2. k \in Nat /\ k % 2 = 0 /\ k < Len(data) /\ w \in U16
    BY <1>1, MessageAssumption DEF Offsets16
  <2>. DEFINE e == Put(data, k, w)
              c == Word(e, k) - Word(data, k)
  <2>3. e \in Seq(U8) /\ Len(e) = Len(data)
    BY <1>1, <2>2, PutWord
  <2>4. Word(e, k) \in U16 /\ Word(data, k) \in U16
    BY <1>1, <2>2, <2>3, WordRange
  <2>5. c \in Int
    BY <2>4 DEF U16
  <2>6. \E T : AddsUpTo(T, e, c)
    BY <1>1, <1>2, <2>2, DamageMoves
  <2>7. Arrives(e, c)
    BY <2>1
  <2>. HIDE DEF e, c
  <2>. QED BY <2>3, <2>5, <2>6, <2>7, SumArrives
<1>5. CASE ArrivesSwapped
  <2>1. PICK j \in Offsets16, k \in Offsets16 :
          /\ j < k /\ k + 1 < Len(data)
          /\ Arrives(Put(Put(data, j, Word(data, k)), k, Word(data, j)), 0)
    BY <1>5 DEF ArrivesSwapped
  <2>2. j \in Nat /\ j % 2 = 0 /\ k \in Nat /\ k % 2 = 0
    BY <1>1 DEF Offsets16
  <2>. DEFINE e == Put(Put(data, j, Word(data, k)), k, Word(data, j))
  <2>3. e \in Seq(U8) /\ Len(e) = Len(data) /\ \E T : AddsUpTo(T, e, 0)
    BY <1>1, <1>2, <2>1, <2>2, SwapKeeps
  <2>4. Arrives(e, 0)
    BY <2>1
  <2>. HIDE DEF e
  <2>. QED BY <2>3, <2>4, SumArrives
<1>. QED BY <1>3, <1>4, <1>5

\* The receiver has its answer.
LEMMA TakeStep == ChecksumInv /\ TakeAnswer => ChecksumInv'
<1>. SUFFICES ASSUME ChecksumInv, TakeAnswer PROVE ChecksumInv'
  OBVIOUS
<1>1. /\ data \in Seq(U8) /\ Len(data) \in (Field + 2)..BUFFER_SIZE /\ change \in Int
      /\ stage = "check" /\ stage' = "taken" /\ at >= Len(data) /\ acc \div 65536 = 0
      /\ answer' = 65535 - acc /\ UNCHANGED <<data, at, acc, change>>
  BY DEF ChecksumInv, TakeAnswer, Summed16, Complement
<1>2. PICK S : AddsUpTo(S, data, change) /\ Summing(S, data, at, acc)
  BY <1>1 DEF ChecksumInv
<1>3. Len(data) \in Nat /\ at = Top(data)
  BY <1>1, <1>2, SummedWhole
<1>4. PICK t : t = S[at]
  OBVIOUS
<1>5. acc \in Nat /\ t \in Nat /\ Same(acc, t) /\ (acc = 0 <=> t = 0)
  BY <1>2, <1>4 DEF Summing
<1>6. Same(t, change) /\ (change = 0 => t # 0)
  BY <1>2, <1>3, <1>4 DEF AddsUpTo
<1>7. acc < 65536
  BY SMT, <1>1, <1>5
<1>8. /\ change = 0 => 65535 - acc = 0
      /\ change % 65535 # 0 => 65535 - acc # 0
  BY <1>1, <1>5, <1>6, <1>7, AnswerTells
<1>9. SumTellsDamage'
  BY <1>1, <1>8 DEF SumTellsDamage
<1>. QED BY <1>1, <1>9 DEF ChecksumInv

\* Every step keeps the invariant.
LEMMA ChecksumNext == ChecksumInv /\ [SumNext]_sumVars => ChecksumInv'
<1>1. ChecksumInv /\ SumNext => ChecksumInv'
  BY ClearStep, AddStep, FoldStep, StoreStep, TransitStep, TakeStep DEF SumNext
<1>2. ChecksumInv /\ UNCHANGED sumVars => ChecksumInv'
  <2>. SUFFICES ASSUME ChecksumInv, UNCHANGED sumVars PROVE ChecksumInv'
    OBVIOUS
  <2>1. /\ stage' = stage /\ data' = data /\ at' = at /\ acc' = acc /\ change' = change
        /\ answer' = answer
    BY DEF sumVars
  <2>. QED BY <2>1 DEF ChecksumInv, SumTellsDamage
<1>. QED BY <1>1, <1>2

\* calculate_checksum and the receiver's sum stay partial sums of the words, for any
\* message that fits the buffer, its carries however many.
THEOREM SumsAgree == SumSpec => []ChecksumInv
<1>. QED BY ChecksumInit, ChecksumNext, PTL DEF SumSpec

\* What handle_ip has summed is accepted, for any header or message, its last byte
\* odd or not, wherever its field is, and in whatever order two of its words
\* arrive; and a damaged word is noticed unless one zero became the other.
THEOREM DamageTold == SumSpec => []SumTellsDamage
<1>1. ChecksumInv => SumTellsDamage
  BY DEF ChecksumInv
<1>. QED BY <1>1, SumsAgree, PTL
=============================================================================
