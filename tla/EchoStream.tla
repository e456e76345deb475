----------------------------- MODULE EchoStream -----------------------------
(***************************************************************************)
(* What a session with the echo server looks like at the client's          *)
(* terminal: what was sent comes back in order, in pieces of at most Limit *)
(* bytes, one piece after each message, until the connection breaks.       *)
(***************************************************************************)
EXTENDS Naturals, Sequences

CONSTANTS Lines, Rubbish, Limit

VARIABLES
  phase,   \* prompt, full (a message is ready), wait, broken
  text,    \* the message to send, or the piece shown last
  flight   \* what was sent and has not come back

vars == <<phase, text, flight>>

Init == phase = "prompt" /\ text \in Rubbish /\ flight = <<>>

Type ==
  /\ phase = "prompt" /\ phase' = "full"
  /\ text' \in Lines
  /\ UNCHANGED flight

\* There is nothing more to read from the terminal: the text shown last is sent.
Repeat ==
  /\ phase = "prompt" /\ phase' = "full"
  /\ UNCHANGED <<text, flight>>

Send ==
  /\ phase = "full" /\ phase' = "wait"
  /\ flight' = flight \o text
  /\ UNCHANGED text

Show ==
  /\ phase = "wait" /\ phase' = "prompt"
  /\ \E k \in 1..Len(flight) :
       /\ k <= Limit
       /\ text' = SubSeq(flight, 1, k)
       /\ flight' = SubSeq(flight, k + 1, Len(flight))

\* Nothing is promised of a connection one of whose ends is gone.
Break == phase' = "broken"

Next == Type \/ Repeat \/ Send \/ Show \/ Break

Spec == Init /\ [][Next]_vars
=============================================================================
