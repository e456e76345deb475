------------------------- MODULE EchoSessionProofs -------------------------
(***************************************************************************)
(* The client and the child of the echo server implement one stream, for   *)
(* every set of characters, every length of lines and buffers and any way  *)
(* the reads cut the bytes.  The argument: a step of either end takes      *)
(* bytes off the front of one of the three places they may be in and puts  *)
(* the same bytes at the back of the next, so nothing but a send lengthens *)
(* what is under way and nothing but the client's read shortens it.        *)
(***************************************************************************)
EXTENDS EchoSession, SequenceTheorems, TLAPS

Text == Seq(Char \union {Garbage})

Types == buffer \in Text /\ up \in Text /\ echo \in Text /\ down \in Text

\* Pieces of text make one text, however they are grouped.
LEMMA TextAssociative == \A r, s, t \in Text : (r \o s) \o t = r \o (s \o t)
BY ConcatAssociative DEF Text

\* The bytes a read takes off a stream, and those it leaves.
LEMMA Cutting ==
  ASSUME NEW s \in Text, NEW k \in Pieces(s)
  PROVE  /\ Taken(s, k) \in Text /\ Left(s, k) \in Text
         /\ Taken(s, k) \o Left(s, k) = s
         /\ k \in 1..Len(s) /\ k <= Limit
<1>1. Len(s) \in Nat /\ \A i \in 1..Len(s) : s[i] \in Char \union {Garbage}
  BY LenProperties, ElementOfSeq DEF Text
<1>2. k \in 1..Len(s) /\ k <= Limit
  BY <1>1, EchoAssumption DEF Pieces, AtMost
<1>3. Taken(s, k) \in Text
  <2>1. \A i \in 1..k : s[i] \in Char \union {Garbage}
    BY <1>1, <1>2
  <2>. QED BY <1>2, <2>1, SubSeqProperties DEF Taken, Text
<1>4. Left(s, k) \in Text
  <2>1. \A i \in (k + 1)..Len(s) : s[i] \in Char \union {Garbage}
    BY <1>1, <1>2
  <2>. QED BY <1>1, <1>2, <2>1, SubSeqProperties DEF Left, Text
<1>5. Taken(s, k) \o Left(s, k) = s
  <2>1. SubSeq(s, 1, k) \o SubSeq(s, k + 1, Len(s)) = SubSeq(s, 1, Len(s))
    BY <1>1, <1>2, ConcatAdjacentSubSeq DEF Text
  <2>. QED BY <2>1, SubSeqFull DEF Taken, Left, Text
<1>. QED BY <1>2, <1>3, <1>4, <1>5

\* Cutting the first of several pieces cuts the stream they make up.
LEMMA CuttingTheFirst ==
  ASSUME NEW s \in Text, NEW t \in Text, NEW k \in 1..Len(s)
  PROVE  /\ SubSeq(s \o t, 1, k) = SubSeq(s, 1, k)
         /\ SubSeq(s \o t, k + 1, Len(s \o t)) = SubSeq(s, k + 1, Len(s)) \o t
<1>. DEFINE B == Char \union {Garbage}
            l == SubSeq(s \o t, k + 1, Len(s \o t))
            u == SubSeq(s, k + 1, Len(s))
<1>1. Len(s) \in Nat /\ Len(t) \in Nat
  BY LenProperties DEF Text
<1>2. /\ s \o t \in Seq(B) /\ Len(s \o t) = Len(s) + Len(t)
      /\ \A i \in 1..(Len(s) + Len(t)) :
           (s \o t)[i] = IF i <= Len(s) THEN s[i] ELSE t[i - Len(s)]
  BY ConcatProperties DEF Text
<1>3. SubSeq(s \o t, 1, k) = SubSeq(s, 1, k)
  BY <1>1, SubSeqOfConcat1 DEF Text
<1>4. /\ l \in Seq(B) /\ Len(l) = Len(s) + Len(t) - k
      /\ \A i \in 1..(Len(s) + Len(t) - k) : l[i] = (s \o t)[k + i]
  <2>1. \A i \in (k + 1)..Len(s \o t) : (s \o t)[i] \in B
    BY <1>1, <1>2, ElementOfSeq
  <2>2. /\ l \in Seq(B)
        /\ Len(l) = IF k + 1 <= Len(s \o t) THEN Len(s \o t) - (k + 1) + 1 ELSE 0
        /\ \A i \in 1..(Len(s \o t) - (k + 1) + 1) : l[i] = (s \o t)[k + 1 + i - 1]
    BY <1>1, <1>2, <2>1, SubSeqProperties
  <2>. QED BY <1>1, <1>2, <2>2
<1>5. /\ u \in Seq(B) /\ Len(u) = Len(s) - k
      /\ \A i \in 1..(Len(s) - k) : u[i] = s[k + i]
  <2>1. \A i \in (k + 1)..Len(s) : s[i] \in B
    BY <1>1, ElementOfSeq DEF Text
  <2>2. /\ u \in Seq(B)
        /\ Len(u) = IF k + 1 <= Len(s) THEN Len(s) - (k + 1) + 1 ELSE 0
        /\ \A i \in 1..(Len(s) - (k + 1) + 1) : u[i] = s[k + 1 + i - 1]
    BY <1>1, <2>1, SubSeqProperties
  <2>. QED BY <1>1, <2>2
<1>. HIDE DEF l, u
<1>6. /\ u \o t \in Seq(B) /\ Len(u \o t) = Len(s) - k + Len(t)
      /\ \A i \in 1..(Len(s) - k + Len(t)) :
           (u \o t)[i] = IF i <= Len(s) - k THEN u[i] ELSE t[i - (Len(s) - k)]
  <2>. HIDE DEF B
  <2>1. t \in Seq(B)
    BY DEF Text, B
  <2>2. /\ u \o t \in Seq(B) /\ Len(u \o t) = Len(u) + Len(t)
        /\ \A i \in 1..(Len(u) + Len(t)) :
             (u \o t)[i] = IF i <= Len(u) THEN u[i] ELSE t[i - Len(u)]
    BY <1>5, <2>1, ConcatProperties
  <2>. QED BY <1>5, <2>2
<1>7. ASSUME NEW i \in 1..(Len(s) + Len(t) - k) PROVE l[i] = (u \o t)[i]
  <2>1. k + i \in 1..(Len(s) + Len(t)) /\ i \in 1..(Len(s) - k + Len(t))
    BY <1>1
  <2>2. l[i] = IF k + i <= Len(s) THEN s[k + i] ELSE t[k + i - Len(s)]
    BY <1>2, <1>4, <2>1
  <2>3. CASE i <= Len(s) - k
    <3>1. (u \o t)[i] = s[k + i]
      BY <1>1, <1>5, <1>6, <2>1, <2>3
    <3>. QED BY <1>1, <2>2, <2>3, <3>1
  <2>4. CASE ~(i <= Len(s) - k)
    <3>1. (u \o t)[i] = t[i - (Len(s) - k)]
      BY <1>6, <2>1, <2>4
    <3>2. i - (Len(s) - k) = k + i - Len(s)
      BY <1>1
    <3>. QED BY <1>1, <2>2, <2>4, <3>1, <3>2
  <2>. QED BY <2>3, <2>4
<1>8. l = u \o t
  <2>. HIDE DEF B
  <2>1. Len(l) = Len(u \o t)
    BY <1>1, <1>4, <1>6
  <2>2. \A i \in 1..Len(l) : l[i] = (u \o t)[i]
    BY <1>4, <1>7
  <2>. QED BY <1>4, <1>6, <2>1, <2>2, SeqEqual
<1>. QED BY <1>3, <1>8 DEF l, u

\* A line somebody types is text.
LEMMA LinesAreText == Lines \subseteq Text
<1>1. ASSUME NEW n \in 1..(Limit - 1), NEW l \in [1..n -> Char] PROVE l \in Text
  BY EchoAssumption, SeqDef DEF Text
<1>. QED BY <1>1 DEF Lines

\* Every step of either end keeps buffers and streams text.
LEMMA TypesInv == Types /\ [Next]_vars => Types'
<1>. SUFFICES ASSUME Types, [Next]_vars PROVE Types'
  OBVIOUS
<1>. USE DEF Types
<1>1. CASE Fgets
  BY <1>1, LinesAreText DEF Fgets, childEnd
<1>2. CASE ClientWrite
  BY <1>2, ConcatProperties DEF ClientWrite, childEnd, Text
<1>3. CASE ClientRead
  BY <1>3, Cutting DEF ClientRead, childEnd
<1>4. CASE ClientReadEnd
  BY <1>4, EmptySeq DEF ClientReadEnd, childEnd, Text
<1>5. CASE ChildRead
  BY <1>5, Cutting DEF ChildRead, clientEnd
<1>6. CASE ChildWrite
  BY <1>6, ConcatProperties DEF ChildWrite, clientEnd, Text
<1>7. CASE FgetsAtEnd \/ ClientWriteBroken \/ CloseStdin \/ Interrupt \/ UNCHANGED vars
  BY <1>7 DEF FgetsAtEnd, ClientWriteBroken, CloseStdin, Interrupt, vars, childEnd
<1>8. CASE ChildReadEnd \/ ChildWriteBroken \/ Killed
  BY <1>8 DEF ChildReadEnd, ChildWriteBroken, Killed, clientEnd
<1>. QED BY <1>1, <1>2, <1>3, <1>4, <1>5, <1>6, <1>7, <1>8 DEF Next, ClientStep, ChildStep

\* What the child is working on.
InHand == IF spc = "write" THEN echo ELSE <<>>

\* What is under way, seen from the client: what came back, and the rest.
LEMMA FlightParts ==
  ASSUME Types
  PROVE  /\ InHand \in Text /\ InHand \o up \in Text /\ Flight \in Text
         /\ Flight = down \o (InHand \o up)
<1>1. InHand \in Text
  BY EmptySeq DEF InHand, Types, Text
<1>2. InHand \o up \in Text
  BY <1>1, ConcatProperties DEF Types, Text
<1>3. Flight = (down \o InHand) \o up
  BY DEF Flight, InHand
<1>4. Flight = down \o (InHand \o up)
  BY SMTT(30), <1>1, <1>3, TextAssociative DEF Types
<1>5. Flight \in Text
  BY <1>2, <1>4, ConcatProperties DEF Types, Text
<1>. QED BY <1>1, <1>2, <1>4, <1>5

\* When either end goes, nothing more is promised.
LEMMA Breaks == ASSUME cpc' = "gone" \/ spc' = "gone" PROVE Stream!Next
BY DEF Stream!Next, Stream!Break, Phase

\* What the client sends joins the stream at its end.
LEMMA SendStep == ASSUME Types, ClientWrite PROVE Stream!Next
<1>1. /\ cpc = "write" /\ spc # "gone" /\ cpc' = "read" /\ spc' = spc /\ echo' = echo
      /\ buffer' = buffer /\ up' = up \o buffer /\ down' = down
  BY DEF ClientWrite, childEnd
<1>2. Phase = "full" /\ Phase' = "wait"
  BY <1>1 DEF Phase
<1>3. Flight' = (down \o InHand) \o (up \o buffer)
  BY <1>1 DEF Flight, InHand
<1>4. down \o InHand \in Text
  BY FlightParts, ConcatProperties DEF Types, Text
<1>5. Flight' = ((down \o InHand) \o up) \o buffer
  BY <1>3, <1>4, TextAssociative DEF Types
<1>6. Flight' = Flight \o buffer
  BY <1>5 DEF Flight, InHand
<1>. QED BY <1>1, <1>2, <1>6 DEF Stream!Next, Stream!Send

\* What the client shows is the front of the stream.
LEMMA ShowStep == ASSUME Types, ClientRead, spc # "gone" PROVE Stream!Next
<1>1. PICK k \in Pieces(down) : buffer' = Taken(down, k) /\ down' = Left(down, k)
  BY DEF ClientRead
<1>2. cpc = "read" /\ cpc' = "prompt" /\ spc' = spc /\ echo' = echo /\ up' = up
  BY DEF ClientRead, childEnd
<1>3. Phase = "wait" /\ Phase' = "prompt"
  BY <1>2 DEF Phase
<1>4. k \in 1..Len(down) /\ k <= Limit /\ Left(down, k) \in Text /\ down \in Text
  BY Cutting DEF Types
<1>. DEFINE rest == InHand \o up
<1>5. rest \in Text /\ Flight = down \o rest
  BY FlightParts
<1>6. Flight' = Left(down, k) \o rest
  <2>1. Flight' = (Left(down, k) \o InHand) \o up
    BY <1>1, <1>2 DEF Flight, InHand
  <2>2. InHand \in Text /\ up \in Text
    BY FlightParts DEF Types
  <2>3. (Left(down, k) \o InHand) \o up = Left(down, k) \o (InHand \o up)
    BY <1>4, <2>2, TextAssociative
  <2>. QED BY <2>1, <2>3
<1>. HIDE DEF rest
<1>7. Len(Flight) = Len(down) + Len(rest) /\ Len(down) \in Nat /\ Len(rest) \in Nat
  BY <1>4, <1>5, ConcatProperties, LenProperties DEF Text
<1>8. buffer' = SubSeq(Flight, 1, k) /\ Flight' = SubSeq(Flight, k + 1, Len(Flight))
  BY <1>1, <1>4, <1>5, <1>6, CuttingTheFirst DEF Taken, Left
<1>9. k \in 1..Len(Flight)
  BY <1>4, <1>7
<1>. QED BY <1>3, <1>4, <1>8, <1>9 DEF Stream!Next, Stream!Show

\* The child moves bytes on; the stream as a whole stays what it is.
LEMMA ChildReadStep == ASSUME Types, ChildRead PROVE [Stream!Next]_Stream!vars
<1>1. PICK k \in Pieces(up) : echo' = Taken(up, k) /\ up' = Left(up, k)
  BY DEF ChildRead
<1>2. /\ spc = "read" /\ spc' = "write" /\ cpc' = cpc /\ buffer' = buffer /\ down' = down
  BY DEF ChildRead, clientEnd
<1>3. Phase' = Phase
  BY <1>2 DEF Phase
<1>4. Flight = down \o up
  BY <1>2, ConcatEmptySeq DEF Flight, Types, Text
<1>5. Flight' = (down \o Taken(up, k)) \o Left(up, k)
  BY <1>1, <1>2 DEF Flight
<1>6. /\ Taken(up, k) \in Text /\ Left(up, k) \in Text /\ Taken(up, k) \o Left(up, k) = up
  BY Cutting DEF Types
<1>7. Flight' = down \o (Taken(up, k) \o Left(up, k))
  BY <1>5, <1>6, TextAssociative DEF Types
<1>8. Flight' = Flight
  BY <1>4, <1>6, <1>7
<1>. QED BY <1>2, <1>3, <1>8 DEF Stream!vars

\* The child's write puts what it had in hand at the back of what came back.
LEMMA ChildWriteStep == ASSUME Types, ChildWrite PROVE [Stream!Next]_Stream!vars
<1>1. /\ spc = "write" /\ spc' = "read" /\ cpc' = cpc /\ buffer' = buffer
      /\ up' = up /\ down' = down \o echo
  BY DEF ChildWrite, clientEnd
<1>2. Phase' = Phase
  BY <1>1 DEF Phase
<1>3. down \o echo \in Text
  BY ConcatProperties DEF Types, Text
<1>4. Flight = (down \o echo) \o up /\ Flight' = ((down \o echo) \o <<>>) \o up
  BY <1>1 DEF Flight
<1>5. Flight' = Flight
  BY <1>3, <1>4, ConcatEmptySeq DEF Text
<1>. QED BY <1>1, <1>2, <1>5 DEF Stream!vars

\* The prompt: a line is typed, or the text shown last stands in for it.
LEMMA PromptStep == ASSUME Fgets \/ FgetsAtEnd, spc # "gone" PROVE Stream!Next
<1>1. /\ cpc = "prompt" /\ cpc' = "write" /\ spc' = spc /\ echo' = echo
      /\ up' = up /\ down' = down /\ (buffer' \in Lines \/ buffer' = buffer)
  BY DEF Fgets, FgetsAtEnd, childEnd
<1>2. Phase = "prompt" /\ Phase' = "full" /\ Flight' = Flight
  <2>1. Flight' = Flight
    BY <1>1 DEF Flight
  <2>2. cpc = "prompt" /\ cpc' = "write" /\ spc # "gone" /\ spc' # "gone"
    BY <1>1
  <2>. QED BY <2>1, <2>2 DEF Phase
<1>. QED BY <1>1, <1>2 DEF Stream!Next, Stream!Type, Stream!Repeat

\* Every step of the session is a step of the stream, or leaves it alone.
LEMMA StepsMap == ASSUME Types, [Next]_vars PROVE [Stream!Next]_Stream!vars
<1>1. CASE cpc' = "gone" \/ spc' = "gone"
  BY <1>1, Breaks
<1>2. CASE Fgets \/ FgetsAtEnd
  <2>1. spc' = spc
    BY <1>2 DEF Fgets, FgetsAtEnd, childEnd
  <2>. QED BY <1>1, <1>2, <2>1, PromptStep
<1>3. CASE ClientWrite
  BY <1>3, SendStep
<1>4. CASE ClientRead
  <2>1. spc' = spc
    BY <1>4 DEF ClientRead, childEnd
  <2>. QED BY <1>1, <1>4, <2>1, ShowStep
<1>5. CASE ClientWriteBroken \/ ClientReadEnd
  <2>1. spc = "gone" /\ spc' = spc
    BY <1>5 DEF ClientWriteBroken, ClientReadEnd, childEnd
  <2>. QED BY <1>1, <2>1
<1>6. CASE ChildRead
  BY <1>6, ChildReadStep
<1>7. CASE ChildWrite
  BY <1>7, ChildWriteStep
<1>8. CASE ChildWriteBroken
  <2>1. cpc = "gone" /\ cpc' = cpc
    BY <1>8 DEF ChildWriteBroken, clientEnd
  <2>. QED BY <1>1, <2>1
<1>9. CASE CloseStdin \/ UNCHANGED vars
  <2>1. UNCHANGED <<cpc, spc, buffer, up, echo, down>>
    BY <1>9 DEF CloseStdin, vars, childEnd
  <2>2. UNCHANGED <<Phase, buffer, Flight>>
    BY <2>1 DEF Phase, Flight
  <2>. QED BY <2>2 DEF Stream!vars
<1>10. CASE Interrupt \/ ChildReadEnd \/ Killed
  BY <1>1, <1>10 DEF Interrupt, ChildReadEnd, Killed
<1>. QED BY <1>2, <1>3, <1>4, <1>5, <1>6, <1>7, <1>8, <1>9, <1>10
     DEF Next, ClientStep, ChildStep

\* The session begins with a prompt, an empty stream and whatever the stack held.
LEMMA InitMaps == Init => Types /\ Stream!Init
<1>. SUFFICES ASSUME Init PROVE Types /\ Stream!Init
  OBVIOUS
<1>1. buffer \in Rubbish /\ echo = <<>> /\ up = <<>> /\ down = <<>>
  BY DEF Init
<1>2. <<>> \in Text /\ <<Garbage>> \in Text
  BY EmptySeq DEF Text
<1>3. Types
  BY <1>1, <1>2 DEF Types, Rubbish
<1>4. Flight = <<>> /\ Phase = "prompt"
  BY ConcatEmptySeq, EmptySeq DEF Init, Flight, Phase
<1>. QED BY <1>1, <1>3, <1>4 DEF Stream!Init

\* What is typed, read or under way is text at all times.
THEOREM TypeCorrect == Spec => []Types
BY InitMaps, TypesInv, PTL DEF Spec

\* "Echo back to client" (simple-application/server.c:80): at the terminal two
\* streams and two buffers are one stream of bytes in the order they were sent,
\* however read cuts it and for as long as both ends are there.
THEOREM OneStream == Spec => StreamSpec
<1>1. Types /\ [Next]_vars => [Stream!Next]_Stream!vars
  BY StepsMap
<1>. QED BY <1>1, InitMaps, TypeCorrect, PTL DEF Spec, StreamSpec, Stream!Spec
=============================================================================
