---------------------------- MODULE PacketCodec ----------------------------
(***************************************************************************)
(* The wire format of sandbox/tcp-packet (shared/shared.hh, shared.cc): a   *)
(* packet is a 4-byte big-endian type word, followed, for a greeting, by a  *)
(* 4-byte big-endian length word and the payload.                           *)
(*                                                                          *)
(* A byte is a digit in base Base (256 in the program), so a 32-bit word is *)
(* a number below Base^4 and every overflow of uint32_t is a reduction      *)
(* modulo Base^4.  TLC runs with a small Base; the proofs hold for all.     *)
(***************************************************************************)
EXTENDS Integers, Sequences

CONSTANT Base   \* number of values of one byte

ASSUME BaseAssumption == Base \in Nat /\ Base >= 2

Byte == 0 .. Base - 1
WordSpan == Base * Base * Base * Base       \* 2^32 in the program
Word == 0 .. WordSpan - 1

WordSize == 4            \* sizeof(type) and sizeof(packet::datalen)

(***************************************************************************)
(* enum class type : uint32_t, in its declaration order.                    *)
(***************************************************************************)
ping     == 0
pong     == 1
greeting == 2
invalid  == 3

Types == {ping, pong, greeting, invalid}

----------------------------------------------------------------------------
(***************************************************************************)
(* htonl followed by memcpy, and memcpy followed by ntohl.                  *)
(***************************************************************************)
htonl(w) ==
  LET q == w \div Base
      r == q \div Base
      s == r \div Base
  IN  << s % Base, r % Base, q % Base, w % Base >>

ntohl(b) == ((b[1] * Base + b[2]) * Base + b[3]) * Base + b[4]

----------------------------------------------------------------------------
(***************************************************************************)
(* struct packet and its two constructors.  A greeting built from its type  *)
(* alone carries no message and is marked as not valid.                     *)
(***************************************************************************)
PacketOfType(t) ==
  [hdr |-> t, datalen |-> 0, msg |-> <<>>, validPacket |-> t # greeting]

PacketOfMsg(str) ==
  [hdr |-> greeting, datalen |-> Len(str) % WordSpan, msg |-> str,
   validPacket |-> TRUE]

create_ping     == PacketOfType(ping)
create_pong     == PacketOfType(pong)
create_msg(str) == PacketOfMsg(str)

(***************************************************************************)
(* packet::encode.                                                          *)
(***************************************************************************)
encode(p) ==
  IF ~ p.validPacket THEN <<>>
  ELSE IF p.hdr = greeting
       THEN htonl(p.hdr) \o htonl(p.datalen) \o p.msg
       ELSE htonl(p.hdr)

(***************************************************************************)
(* parse_packet looks at the front of a buffer.  A packet is reported with  *)
(* the number of bytes it used.  totalLen is a uint32_t and wraps, so that  *)
(* a declared length close to 2^32 gives a total smaller than the header.   *)
(* The program then copies bytes from past the end of the buffer, whose     *)
(* values are unspecified: msg holds only those that are in the buffer.     *)
(***************************************************************************)
Incomplete == [status |-> "incomplete", bytes_consumed |-> 0]
Invalid    == [status |-> "invalid",    bytes_consumed |-> 0]
Complete(p, n) == [status |-> "complete", pkt |-> p, bytes_consumed |-> n]

HeaderOf(buffer) == ntohl(buffer)
PayloadLen(buffer) == ntohl(SubSeq(buffer, WordSize + 1, 2 * WordSize))
\* Mutant: the type word is not counted.
TotalLenWithoutType(buffer) == (WordSize + PayloadLen(buffer)) % WordSpan
TotalLen(buffer) == (2 * WordSize + PayloadLen(buffer)) % WordSpan

Payload(buffer, n) ==
  LET last == 2 * WordSize + n
  IN  SubSeq(buffer, 2 * WordSize + 1,
             IF last <= Len(buffer) THEN last ELSE Len(buffer))

\* Mutant: the packet is built as soon as its length is known.
ParseGreetingEarly(buffer) ==
  IF Len(buffer) < 2 * WordSize THEN Incomplete
  ELSE Complete([PacketOfMsg(Payload(buffer, PayloadLen(buffer)))
                   EXCEPT !.datalen = PayloadLen(buffer)],
                TotalLen(buffer))

\* Mutant: <= in place of <.
ParseGreetingStrict(buffer) ==
  IF Len(buffer) < 2 * WordSize \/ Len(buffer) <= TotalLen(buffer)
  THEN Incomplete
  ELSE Complete([PacketOfMsg(Payload(buffer, PayloadLen(buffer)))
                   EXCEPT !.datalen = PayloadLen(buffer)],
                TotalLen(buffer))

ParseGreeting(buffer) ==
  IF Len(buffer) < 2 * WordSize \/ Len(buffer) < TotalLen(buffer)
  THEN Incomplete
  ELSE Complete([PacketOfMsg(Payload(buffer, PayloadLen(buffer)))
                   EXCEPT !.datalen = PayloadLen(buffer)],
                TotalLen(buffer))

parse_packet(buffer) ==
  IF Len(buffer) < WordSize THEN Incomplete
  ELSE CASE HeaderOf(buffer) = ping     -> Complete(create_ping, WordSize)
         [] HeaderOf(buffer) = pong     -> Complete(create_pong, WordSize)
         [] HeaderOf(buffer) = greeting -> ParseGreeting(buffer)
         [] OTHER                       -> Invalid

----------------------------------------------------------------------------
(***************************************************************************)
(* The packets the programs build: pings, pongs and greetings whose total   *)
(* length fits in a word, and packets whose type no receiver accepts.       *)
(***************************************************************************)
Sendable(p) ==
  \/ p \in {PacketOfType(ping), PacketOfType(pong), PacketOfType(invalid)}
  \/ /\ p.msg \in Seq(Byte)
     /\ 2 * WordSize + Len(p.msg) < WordSpan
     /\ p = PacketOfMsg(p.msg)
=============================================================================
