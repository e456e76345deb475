---------------------------- MODULE EchoSession ----------------------------
(***************************************************************************)
(* One session of hello-linux/networking/simple-application: client.c at   *)
(* one end of a connection and the child server.c forked for it at the     *)
(* other.  A stream of bytes has no message boundaries: a read returns any *)
(* part of what was written.  Connecting and forking are in ForkServer;    *)
(* the user, the signals and the two streams are external.                 *)
(***************************************************************************)
EXTENDS Naturals, Sequences

CONSTANTS
  Char,        \* the characters a user types; no NUL among them
  Garbage,     \* a byte of the client's buffer before anything is in it
  Limit,       \* READ_BUFFER - 1, the most a read returns
  MaxTyped     \* bounds what the user types in a run

ASSUME EchoAssumption ==
  Limit \in Nat /\ Limit > 1 /\ MaxTyped \in Nat /\ Garbage \notin Char

VARIABLES
  cpc,     \* the client: prompt, write, read, gone
  buffer,  \* the string in the client's buffer
  typed,   \* how many characters the user has typed
  eof,     \* the user closed standard input
  up,      \* the bytes on their way to the child
  spc,     \* the child: read, write, gone
  echo,    \* the string in the child's buffer
  down     \* the bytes on their way back

vars == <<cpc, buffer, typed, eof, up, spc, echo, down>>
clientEnd == <<cpc, buffer, typed, eof>>
childEnd == <<spc, echo>>

AtMost(m, n) == IF m < n THEN m ELSE n

\* fgets stops one short of READ_BUFFER - 1, or at the end of the line.
Lines == UNION {[1..n -> Char] : n \in 1..(Limit - 1)}

\* An uninitialised buffer: a string of its bytes, or none if it starts with NUL.
Rubbish == {<<>>, <<Garbage>>}

\* What a read takes out of a stream: anything that has arrived.
Pieces(s) == 1..AtMost(Len(s), Limit)
Taken(s, k) == SubSeq(s, 1, k)
Left(s, k) == SubSeq(s, k + 1, Len(s))

Init ==
  /\ cpc = "prompt" /\ buffer \in Rubbish /\ typed = 0 /\ eof = FALSE
  /\ spc = "read" /\ echo = <<>>
  /\ up = <<>> /\ down = <<>>
-----------------------------------------------------------------------------
(* The client *)

Fgets ==
  /\ cpc = "prompt" /\ ~eof
  /\ \E l \in Lines :
       /\ typed + Len(l) <= MaxTyped
       /\ buffer' = l
       /\ typed' = typed + Len(l)
  /\ cpc' = "write"
  /\ UNCHANGED <<eof, up, childEnd, down>>

\* Mutant: the client clears its buffer before fgets, as the server does.
FgetsAtEnd_Cleared ==
  /\ cpc = "prompt" /\ eof
  /\ buffer' = <<>>
  /\ cpc' = "write"
  /\ UNCHANGED <<typed, eof, up, childEnd, down>>

\* fgets fails, which nobody looks at: the buffer still has the last reply.
FgetsAtEnd ==
  /\ cpc = "prompt" /\ eof
  /\ cpc' = "write"
  /\ UNCHANGED <<buffer, typed, eof, up, childEnd, down>>

\* write(sockfd, buffer, strlen(buffer)): the socket takes it whole.
ClientWrite ==
  /\ cpc = "write" /\ spc # "gone"
  /\ up' = up \o buffer
  /\ cpc' = "read"
  /\ UNCHANGED <<buffer, typed, eof, childEnd, down>>

\* The child is gone: the socket takes the bytes all the same, or reports an
\* error, which is printed, or SIGPIPE ends the client.
ClientWriteBroken ==
  /\ cpc = "write" /\ spc = "gone"
  /\ cpc' \in {"read", "gone"}
  /\ UNCHANGED <<buffer, typed, eof, up, childEnd, down>>

\* One read, and its piece is printed.
ClientRead ==
  /\ cpc = "read"
  /\ \E k \in Pieces(down) :
       /\ buffer' = Taken(down, k)
       /\ down' = Left(down, k)
  /\ cpc' = "prompt"
  /\ UNCHANGED <<typed, eof, up, childEnd>>

\* read returns 0, which makes the buffer empty, or an error, which leaves it.
ClientReadEnd ==
  /\ cpc = "read" /\ spc = "gone"
  /\ buffer' \in {<<>>, buffer}
  /\ cpc' = "prompt"
  /\ UNCHANGED <<typed, eof, up, childEnd, down>>

CloseStdin ==
  /\ ~eof /\ cpc # "gone"
  /\ eof' = TRUE
  /\ UNCHANGED <<cpc, buffer, typed, up, childEnd, down>>

\* The client's loop has no end: a signal ends it.
Interrupt ==
  /\ cpc # "gone"
  /\ cpc' = "gone"
  /\ UNCHANGED <<buffer, typed, eof, up, childEnd, down>>
-----------------------------------------------------------------------------
(* The child of the server *)

\* Mutant: the buffer is not cleared before the read.
ChildRead_KeepsBuffer ==
  /\ spc = "read"
  /\ \E k \in Pieces(up) :
       /\ echo' = Taken(up, k) \o Left(echo, k)
       /\ up' = Left(up, k)
  /\ spc' = "write"
  /\ UNCHANGED <<clientEnd, down>>

\* bzero and read.
ChildRead ==
  /\ spc = "read"
  /\ \E k \in Pieces(up) :
       /\ echo' = Taken(up, k)
       /\ up' = Left(up, k)
  /\ spc' = "write"
  /\ UNCHANGED <<clientEnd, down>>

\* Mutant: only an error ends the loop, not the end of the stream.
ChildReadEnd_ErrorOnly ==
  /\ spc = "read" /\ cpc = "gone"
  /\ spc' \in {"read"}
  /\ UNCHANGED <<clientEnd, up, echo, down>>

\* read returns 0, or the client reset the connection.
ChildReadEnd ==
  /\ spc = "read" /\ cpc = "gone"
  /\ spc' = "gone"
  /\ UNCHANGED <<clientEnd, up, echo, down>>

ChildWrite ==
  /\ spc = "write" /\ cpc # "gone"
  /\ down' = down \o echo
  /\ spc' = "read"
  /\ UNCHANGED <<clientEnd, up, echo>>

\* The client is gone: the write is taken, or fails, or raises SIGPIPE.
ChildWriteBroken ==
  /\ spc = "write" /\ cpc = "gone"
  /\ spc' \in {"read", "gone"}
  /\ UNCHANGED <<clientEnd, up, echo, down>>

Killed ==
  /\ spc # "gone"
  /\ spc' = "gone"
  /\ UNCHANGED <<clientEnd, up, echo, down>>
-----------------------------------------------------------------------------
ClientStep == ClientWrite \/ ClientWriteBroken \/ ClientRead \/ ClientReadEnd
ChildStep == ChildRead \/ ChildReadEnd \/ ChildWrite \/ ChildWriteBroken

Next ==
  \/ Fgets \/ FgetsAtEnd \/ ClientStep \/ CloseStdin \/ Interrupt
  \/ ChildStep \/ Killed

Spec == Init /\ [][Next]_vars

\* The scheduler runs the child, and the client once a read of it can return.
FairSpec == Spec /\ WF_vars(ChildStep) /\ WF_vars(ClientStep)
-----------------------------------------------------------------------------
\* The client reads once for each message it sent, and a piece of an earlier
\* reply may be all it gets; still it never waits for a reply that is not coming,
\* unless the input ended before anything was typed.
MessagesAnswered == cpc = "read" /\ typed > 0 ~> cpc # "read"

\* The child goes away with its client, whatever it was doing.
ChildEnds == cpc = "gone" ~> spc = "gone"

\* Two streams and two buffers, cut into pieces anywhere: at the terminal it is
\* one stream of echoed bytes in the order they were sent.
Flight == down \o (IF spc = "write" THEN echo ELSE <<>>) \o up

Phase ==
  IF cpc = "gone" \/ spc = "gone" THEN "broken"
    ELSE CASE cpc = "prompt" -> "prompt" [] cpc = "write" -> "full" [] cpc = "read" -> "wait"

Stream == INSTANCE EchoStream WITH phase <- Phase, text <- buffer, flight <- Flight
StreamSpec == Stream!Spec
=============================================================================
