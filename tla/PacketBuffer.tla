---------------------------- MODULE PacketBuffer ----------------------------
(***************************************************************************)
(* A receiver's buffer of unprocessed bytes, which grows as bytes are read,  *)
(* whoever wrote them: what parse_packet says of it at any time.            *)
(***************************************************************************)
EXTENDS PacketCodec

CONSTANT MaxLen     \* bound: number of bytes in the buffer

ASSUME BufferAssumption == MaxLen \in Nat

VARIABLE buffer

BufferInit == buffer = <<>>

Receive(b) == Len(buffer) < MaxLen /\ buffer' = Append(buffer, b)

BufferNext == \E b \in Byte : Receive(b)

BufferSpec == BufferInit /\ [][BufferNext]_buffer

----------------------------------------------------------------------------
\* The declared length is one that totalLen can hold with the header before it.
Representable(buf) ==
  Len(buf) >= 2 * WordSize => 2 * WordSize + PayloadLen(buf) < WordSpan

\* A packet parsed is what the bytes it consumed say: encoding it again gives them
\* back, so no two packets are parsed from the same bytes.
ParsedIsEncoded ==
  LET result == parse_packet(buffer)
  IN  result.status = "complete" /\ Representable(buffer)
      => /\ result.bytes_consumed <= Len(buffer)
         /\ encode(result.pkt) = SubSeq(buffer, 1, result.bytes_consumed)

\* What parse_packet says of a buffer does not change when more bytes follow, unless
\* it said "incomplete": a reader may parse now or after the next read.
VerdictIsFinal ==
  [][ parse_packet(buffer).status # "incomplete" /\ Representable(buffer)
      => parse_packet(buffer') = parse_packet(buffer) ]_buffer

\* A packet is only complete once its header and the payload length it declares are
\* in the buffer (last-steps.md:31).
CompleteHasPayload ==
  parse_packet(buffer).status = "complete" /\ HeaderOf(buffer) = greeting
  => Len(buffer) >= 2 * WordSize + PayloadLen(buffer)
=============================================================================
