--------------------------- MODULE PacketStream ---------------------------
(***************************************************************************)
(* The byte streams under sandbox/tcp-packet, each with the process that    *)
(* writes packets into it and the process that reads packets out of it with *)
(* get_packets.                                                             *)
(*                                                                          *)
(* A writer encodes packets into a buffer and hands the buffer to write();  *)
(* the kernel takes the bytes in pieces, as its own buffer has room.  The   *)
(* reader takes any part of what the kernel holds that fits in its inBuffer, *)
(* adds it to incomingBuffer and parses packets from the front: a piece of  *)
(* a packet, a whole one, or several, whatever the writes were.             *)
(*                                                                          *)
(* A process that ends closes its end of every stream it has.               *)
(***************************************************************************)
EXTENDS PacketCodec

CONSTANTS
  Streams,     \* the streams; a TCP connection has one in each direction
  Packets,     \* the packets a writer may send
  InBufferLen, \* InBufferLen[d]: sizeof(inBuffer) in the reader of d
  Capacity,    \* number of bytes the kernel holds between the two processes
  MaxSent      \* bound: number of packets written into a stream

ASSUME StreamAssumption ==
  /\ \A p \in Packets : Sendable(p)
  /\ InBufferLen \in [Streams -> Nat \ {0}]
  /\ Capacity \in Nat \ {0}
  /\ MaxSent \in Nat

VARIABLES
  encoded,     \* the writer's buffer of encoded bytes not yet taken by the kernel
  wire,        \* the bytes the kernel holds, written and not yet read
  incomingBuffer, \* the reader's bytes that no packet was parsed from yet
  retval,      \* the packets parsed by the get_packets call in progress
  reader,      \* "idle", "parsing" (inside get_packets) or "gone"
  status,      \* what the last get_packets call returned
  delivered,   \* all the packets get_packets returned
  writeEnd,    \* "open", "closed" (end of file follows) or "reset"
  sent,        \* history: the packets written
  taken,       \* history: number of packets parsed and erased from incomingBuffer
  start,       \* history: start[i] is the position of packet i in the stream
  stream       \* history: all the bytes written

kernelVars  == <<wire, writeEnd>>
readerVars  == <<incomingBuffer, retval, reader, status, delivered>>
historyVars == <<sent, taken, start, stream>>
streamVars  == <<encoded, kernelVars, readerVars, historyVars>>

ReadReturnStatus == {"ok_packets", "closed", "socket_error", "protocol_error"}

StreamInit ==
  /\ encoded = [d \in Streams |-> <<>>]
  /\ wire = [d \in Streams |-> <<>>]
  /\ incomingBuffer = [d \in Streams |-> <<>>]
  /\ retval = [d \in Streams |-> <<>>]
  /\ reader = [d \in Streams |-> "idle"]
  /\ status = [d \in Streams |-> "ok_packets"]
  /\ delivered = [d \in Streams |-> <<>>]
  /\ writeEnd = [d \in Streams |-> "open"]
  /\ sent = [d \in Streams |-> <<>>]
  /\ taken = [d \in Streams |-> 0]
  /\ start = [d \in Streams |-> <<>>]
  /\ stream = [d \in Streams |-> <<>>]

----------------------------------------------------------------------------
(***************************************************************************)
(* The writer.                                                              *)
(***************************************************************************)

\* The writer appends the encoding of p to the bytes it is about to write.
Encode(d, p) ==
  /\ writeEnd[d] = "open"
  /\ Len(sent[d]) < MaxSent
  /\ encoded' = [encoded EXCEPT ![d] = @ \o encode(p)]
  /\ sent' = [sent EXCEPT ![d] = Append(@, p)]
  /\ start' = [start EXCEPT ![d] = Append(@, Len(stream[d]))]
  /\ stream' = [stream EXCEPT ![d] = @ \o encode(p)]
  /\ UNCHANGED <<taken, kernelVars, readerVars>>

\* write(): the kernel takes the next k bytes, at most what it has room for.
\* The bytes written to a reader that is gone are lost.
Transfer(d, k) ==
  /\ writeEnd[d] = "open"
  /\ k \in 1 .. Len(encoded[d])
  /\ reader[d] # "gone" => Len(wire[d]) + k <= Capacity
  /\ encoded' = [encoded EXCEPT ![d] = SubSeq(@, k + 1, Len(@))]
  /\ wire' = IF reader[d] = "gone" THEN wire
             ELSE [wire EXCEPT ![d] = @ \o SubSeq(encoded[d], 1, k)]
  /\ UNCHANGED <<writeEnd, readerVars, historyVars>>

----------------------------------------------------------------------------
(***************************************************************************)
(* get_packets.  read() blocks until there are bytes, or the end of the     *)
(* stream, or an error.                                                     *)
(***************************************************************************)
\* Mutant: the bytes read replace those that wait for the rest of a packet.
ReadBytesOverwrites(d, k) ==
  /\ reader[d] = "idle"
  /\ k \in 1 .. InBufferLen[d]
  /\ k <= Len(wire[d])
  /\ wire' = [wire EXCEPT ![d] = SubSeq(@, k + 1, Len(@))]
  /\ incomingBuffer' = [incomingBuffer EXCEPT ![d] = SubSeq(wire[d], 1, k)]
  /\ retval' = [retval EXCEPT ![d] = <<>>]
  /\ reader' = [reader EXCEPT ![d] = "parsing"]
  /\ UNCHANGED <<encoded, writeEnd, status, delivered, historyVars>>

ReadBytes(d, k) ==
  /\ reader[d] = "idle"
  /\ k \in 1 .. InBufferLen[d]
  /\ k <= Len(wire[d])
  /\ wire' = [wire EXCEPT ![d] = SubSeq(@, k + 1, Len(@))]
  /\ incomingBuffer' = [incomingBuffer EXCEPT ![d] = @ \o SubSeq(wire[d], 1, k)]
  /\ retval' = [retval EXCEPT ![d] = <<>>]
  /\ reader' = [reader EXCEPT ![d] = "parsing"]
  /\ UNCHANGED <<encoded, writeEnd, status, delivered, historyVars>>

ReadClosed(d) ==
  /\ reader[d] = "idle"
  /\ writeEnd[d] = "closed"
  /\ wire[d] = <<>>
  /\ status' = [status EXCEPT ![d] = "closed"]
  /\ UNCHANGED <<encoded, kernelVars, incomingBuffer, retval, reader, delivered,
                 historyVars>>

\* A reset is reported once, in place of the bytes not read yet; after it, read()
\* reports the end of the stream.
ReadError(d) ==
  /\ reader[d] = "idle"
  /\ writeEnd[d] = "reset"
  /\ status' = [status EXCEPT ![d] = "socket_error"]
  /\ wire' = [wire EXCEPT ![d] = <<>>]
  /\ writeEnd' = [writeEnd EXCEPT ![d] = "closed"]
  /\ UNCHANGED <<encoded, incomingBuffer, retval, reader, delivered, historyVars>>

\* Mutant: every packet is taken to be one word.
ParseCompleteOneWord(d) ==
  LET result == parse_packet(incomingBuffer[d])
  IN  /\ reader[d] = "parsing"
      /\ incomingBuffer[d] # <<>>
      /\ result.status = "complete"
      /\ retval' = [retval EXCEPT ![d] = Append(@, result.pkt)]
      /\ incomingBuffer' =
           [incomingBuffer EXCEPT ![d] = SubSeq(@, WordSize + 1, Len(@))]
      /\ taken' = [taken EXCEPT ![d] = @ + 1]
      /\ UNCHANGED <<encoded, kernelVars, reader, status, delivered, sent, start,
                     stream>>

\* The loop over incomingBuffer: the packet at its front is complete...
ParseComplete(d) ==
  LET result == parse_packet(incomingBuffer[d])
  IN  /\ reader[d] = "parsing"
      /\ incomingBuffer[d] # <<>>
      /\ result.status = "complete"
      /\ retval' = [retval EXCEPT ![d] = Append(@, result.pkt)]
      /\ incomingBuffer' =
           [incomingBuffer EXCEPT ![d] =
              SubSeq(@, result.bytes_consumed + 1, Len(@))]
      /\ taken' = [taken EXCEPT ![d] = @ + 1]
      /\ UNCHANGED <<encoded, kernelVars, reader, status, delivered, sent, start,
                     stream>>

\* Mutant: the call returns with the first packet.
ReturnPacketsAfterOne(d) ==
  /\ reader[d] = "parsing"
  /\ \/ incomingBuffer[d] = <<>>
     \/ parse_packet(incomingBuffer[d]).status = "incomplete"
     \/ retval[d] # <<>>
  /\ status' = [status EXCEPT ![d] = "ok_packets"]
  /\ delivered' = [delivered EXCEPT ![d] = @ \o retval[d]]
  /\ retval' = [retval EXCEPT ![d] = <<>>]
  /\ reader' = [reader EXCEPT ![d] = "idle"]
  /\ UNCHANGED <<encoded, kernelVars, incomingBuffer, historyVars>>

\* ...or there is none, or not all of it: the call returns what it parsed...
ReturnPackets(d) ==
  /\ reader[d] = "parsing"
  /\ \/ incomingBuffer[d] = <<>>
     \/ parse_packet(incomingBuffer[d]).status = "incomplete"
  /\ status' = [status EXCEPT ![d] = "ok_packets"]
  /\ delivered' = [delivered EXCEPT ![d] = @ \o retval[d]]
  /\ retval' = [retval EXCEPT ![d] = <<>>]
  /\ reader' = [reader EXCEPT ![d] = "idle"]
  /\ UNCHANGED <<encoded, kernelVars, incomingBuffer, historyVars>>

\* ...or its type is unknown: the call returns no packet, not even those that it
\* parsed before.
ReturnInvalid(d) ==
  /\ reader[d] = "parsing"
  /\ incomingBuffer[d] # <<>>
  /\ parse_packet(incomingBuffer[d]).status = "invalid"
  /\ status' = [status EXCEPT ![d] = "protocol_error"]
  /\ retval' = [retval EXCEPT ![d] = <<>>]
  /\ reader' = [reader EXCEPT ![d] = "idle"]
  /\ UNCHANGED <<encoded, kernelVars, incomingBuffer, delivered, historyVars>>

----------------------------------------------------------------------------
(***************************************************************************)
(* A process that ends, for whatever reason, stops writing to the streams W *)
(* and reading from the streams R.  What the kernel holds for its reader is *)
(* lost; what it wrote and the kernel took is still on its way, unless the  *)
(* connection is reset (how = "reset"), which may lose the last part of it. *)
(***************************************************************************)
EndProcess(W, R, how) ==
  /\ W \cup R # {}
  /\ how \in {"closed", "reset"}
  /\ \A d \in W : writeEnd[d] = "open"
  /\ \A d \in R : reader[d] # "gone"
  /\ writeEnd' = [d \in Streams |-> IF d \in W THEN how ELSE writeEnd[d]]
  /\ encoded' = [d \in Streams |-> IF d \in W THEN <<>> ELSE encoded[d]]
  /\ wire' = [d \in Streams |-> IF d \in R THEN <<>> ELSE wire[d]]
  /\ reader' = [d \in Streams |-> IF d \in R THEN "gone" ELSE reader[d]]
  /\ UNCHANGED <<incomingBuffer, retval, status, delivered, historyVars>>

\* The reader of d ended while the writer goes on: its kernel answers the next
\* bytes with a reset, which ends the stream in the other direction too.
ResetBy(d, back) ==
  /\ reader[d] = "gone"
  /\ writeEnd[back] = "closed"
  /\ writeEnd' = [writeEnd EXCEPT ![back] = "reset"]
  /\ UNCHANGED <<encoded, wire, readerVars, historyVars>>

StreamNext ==
  \/ \E d \in Streams :
       \/ \E p \in Packets : Encode(d, p)
       \/ \E k \in 1 .. Len(encoded[d]) : Transfer(d, k)
       \/ \E k \in 1 .. InBufferLen[d] : ReadBytes(d, k)
       \/ ReadClosed(d)
       \/ ReadError(d)
       \/ ParseComplete(d)
       \/ ReturnPackets(d)
       \/ ReturnInvalid(d)
       \/ \E back \in Streams : ResetBy(d, back)
  \/ \E W, R \in SUBSET Streams, how \in {"closed", "reset"} : EndProcess(W, R, how)

StreamSpec == StreamInit /\ [][StreamNext]_streamVars

\* What the scheduler owes: a process that can run does, and the bytes of a write()
\* get through as long as somebody makes room for them.
ReadStep(d) ==
  \/ \E k \in 1 .. InBufferLen[d] : ReadBytes(d, k)
  \/ ReadClosed(d)
  \/ ReadError(d)

ParseStep(d) == ParseComplete(d) \/ ReturnPackets(d) \/ ReturnInvalid(d)

WriteStep(d) == \E k \in 1 .. Len(encoded[d]) : Transfer(d, k)

StreamFairness ==
  \A d \in Streams : /\ WF_streamVars(WriteStep(d))
                     /\ WF_streamVars(ReadStep(d))
                     /\ WF_streamVars(ParseStep(d))

FairStreamSpec == StreamSpec /\ StreamFairness

----------------------------------------------------------------------------
\* Every variable has its type; in particular, the packets a reader holds are
\* packets that a writer may send.
StreamTypeOK ==
  /\ encoded \in [Streams -> Seq(Byte)]
  /\ wire \in [Streams -> Seq(Byte)]
  /\ incomingBuffer \in [Streams -> Seq(Byte)]
  /\ retval \in [Streams -> Seq(Packets)]
  /\ reader \in [Streams -> {"idle", "parsing", "gone"}]
  /\ status \in [Streams -> ReadReturnStatus]
  /\ delivered \in [Streams -> Seq(Packets)]
  /\ writeEnd \in [Streams -> {"open", "closed", "reset"}]
  /\ sent \in [Streams -> Seq(Packets)]
  /\ taken \in [Streams -> Nat]
  /\ start \in [Streams -> Seq(Nat)]
  /\ stream \in [Streams -> Seq(Byte)]

\* The packets get_packets has returned are the first packets that were written, in
\* order: none is lost in the middle, repeated, merged or cut, however the bytes
\* were split between the reads.
DeliveredInOrder ==
  \A d \in Streams :
    /\ Len(delivered[d]) <= Len(sent[d])
    /\ \A i \in 1 .. Len(delivered[d]) : delivered[d][i] = sent[d][i]

\* get_packets reports a protocol error, and drops packets it has parsed, only when
\* the writer did write a packet whose type is not one of the protocol: a packet cut
\* by the end of a read is never taken for one.
RejectsOnlyInvalid ==
  \A d \in Streams :
    \/ status[d] = "protocol_error"
    \/ Len(delivered[d]) + Len(retval[d]) # taken[d]
    => taken[d] < Len(sent[d]) /\ sent[d][taken[d] + 1].hdr = invalid

\* No byte is left behind: once a reader has read all that was written, and no write
\* was cut short, every packet was returned and incomingBuffer is empty.
NothingLeftBehind ==
  \A d \in Streams :
    /\ writeEnd[d] = "open"
    /\ encoded[d] = <<>> /\ wire[d] = <<>>
    /\ reader[d] = "idle"
    /\ \A i \in 1 .. Len(sent[d]) : sent[d][i].hdr # invalid
    => delivered[d] = sent[d] /\ incomingBuffer[d] = <<>>

\* Every packet written is returned at last, if both processes last and every packet
\* is of the protocol.
EverythingArrives ==
  \A d \in Streams :
    \A n \in 1 .. MaxSent :
      Len(sent[d]) >= n
        ~> \/ Len(delivered[d]) >= n
           \/ writeEnd[d] # "open" \/ reader[d] = "gone"
           \/ \E i \in 1 .. Len(sent[d]) : sent[d][i].hdr = invalid

\* The streams are packet queues.
Queue == INSTANCE PacketQueue
QueueSpec == Queue!Spec
=============================================================================
