-------------------------- MODULE InternetChecksum --------------------------
(***************************************************************************)
(* calculate_checksum of hello-linux/practices/network-driver/             *)
(* ipv4-and-icmp.c and the way handle_ip uses it on an IP header or an     *)
(* ICMP message: clear the checksum field, sum, store the result.  The     *)
(* receiver (external: the kernel of a host) sums what arrives, field      *)
(* included, and takes it when the answer is 0.  Router stands on this: it *)
(* takes a checksum for a value that shows any change but one of order.    *)
(***************************************************************************)
EXTENDS Integers, Sequences

CONSTANTS
  Message,   \* the headers and ICMP messages handle_ip sums, as bytes
  Field,     \* the offset of the checksum: 10 in ip_hdr, 2 in icmp_hdr
  Noise      \* what a word may read after it was damaged under way

BUFFER_SIZE == 2048

\* uint8_t and uint16_t
U8 == {x \in Nat : x < 256}
U16 == {x \in Nat : x < 65536}

ASSUME MessageAssumption ==
  /\ Field \in Nat /\ Field % 2 = 0 /\ Noise \subseteq U16
  /\ \A m \in Message : m \in Seq(U8) /\ Len(m) \in (Field + 2)..BUFFER_SIZE

VARIABLES
  stage,    \* clear, sum (the router), transit, check (the receiver), taken
  data,     \* the bytes
  at,       \* i, the offset of the next word
  acc,      \* the sum so far
  change,   \* by how much damage raised the value of a word under way
  answer    \* what the receiver's sum came to

sumVars == <<stage, data, at, acc, change, answer>>

\* uint32_t, in halves so that no number of TLC's is left.
Wrap32(x) == 65536 * ((x \div 65536) % 65536) + (x % 65536)

\* ntohs of the two bytes at offset k; a last odd byte is the upper one.
Word(d, k) == 256 * d[k + 1] + (IF k + 1 < Len(d) THEN d[k + 2] ELSE 0)

\* The word w written at offset k; of a last odd byte, its upper half.
Put(d, k, w) ==
  [j \in 1..Len(d) |->
     IF j = k + 1 THEN w \div 256 ELSE IF j = k + 2 THEN w % 256 ELSE d[j]]

SumInit ==
  /\ stage = "clear" /\ data \in Message
  /\ at = 0 /\ acc = 0 /\ change = 0 /\ answer = 0

\* handle_ip clears the field and calls calculate_checksum.
ClearField ==
  /\ stage = "clear" /\ stage' = "sum"
  /\ data' = Put(data, Field, 0)
  /\ UNCHANGED <<at, acc, change, answer>>

\* Mutant: the loop runs while i + 1 < length and leaves an odd byte out.
AddWord_WholeOnly ==
  /\ stage \in {"sum", "check"} /\ at < Len(data)
  /\ acc' = IF at + 1 < Len(data) THEN Wrap32(acc + Word(data, at)) ELSE acc
  /\ at' = at + 2
  /\ UNCHANGED <<stage, data, change, answer>>

AddWord ==
  /\ stage \in {"sum", "check"} /\ at < Len(data)
  /\ acc' = Wrap32(acc + Word(data, at))
  /\ at' = at + 2
  /\ UNCHANGED <<stage, data, change, answer>>

\* The loop over the words has ended.
Summed16 == stage \in {"sum", "check"} /\ at >= Len(data)

FoldCarry ==
  /\ Summed16 /\ acc \div 65536 # 0
  /\ acc' = (acc % 65536) + (acc \div 65536)
  /\ UNCHANGED <<stage, data, at, change, answer>>

\* ~acc, as the uint16_t htons takes.
Complement == 65535 - acc

\* handle_ip stores what calculate_checksum returns.
StoreSum ==
  /\ Summed16 /\ stage = "sum" /\ acc \div 65536 = 0
  /\ data' = Put(data, Field, Complement)
  /\ stage' = "transit" /\ at' = 0 /\ acc' = 0
  /\ UNCHANGED <<change, answer>>

Arrives(d, c) ==
  /\ stage = "transit" /\ stage' = "check"
  /\ data' = d /\ change' = c
  /\ UNCHANGED <<at, acc, answer>>

Offsets16 == {k \in 0..(Len(data) - 1) : k % 2 = 0}

\* A word, the checksum itself included, reads w when it arrives.
ArrivesDamaged ==
  \E k \in Offsets16, w \in Noise :
    LET d == Put(data, k, w) IN Arrives(d, Word(d, k) - Word(data, k))

\* Two whole words have changed places.
ArrivesSwapped ==
  \E j, k \in Offsets16 :
    /\ j < k /\ k + 1 < Len(data)
    /\ Arrives(Put(Put(data, j, Word(data, k)), k, Word(data, j)), 0)

TakeAnswer ==
  /\ Summed16 /\ stage = "check" /\ acc \div 65536 = 0
  /\ answer' = Complement /\ stage' = "taken"
  /\ UNCHANGED <<data, at, acc, change>>

SumNext ==
  \/ ClearField \/ AddWord \/ FoldCarry \/ StoreSum
  \/ Arrives(data, 0) \/ ArrivesDamaged \/ ArrivesSwapped \/ TakeAnswer

SumSpec == SumInit /\ [][SumNext]_sumVars
-----------------------------------------------------------------------------
\* The receiver takes what arrives as it was sent, and what arrives with two
\* words in each other's place: the sum does not see the order of addresses.
\* It refuses a message of which a word was damaged, wherever it is and however
\* often the carry came round, unless 0 and 65535 (the two zeros of ones'
\* complement) stand for each other.
SumTellsDamage ==
  stage = "taken" =>
    /\ change = 0 => answer = 0
    /\ change % 65535 # 0 => answer # 0
=============================================================================
