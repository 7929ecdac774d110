---------------------------- MODULE PacketQueue ----------------------------
(***************************************************************************)
(* What packet framing over a byte stream promises: each stream is a queue  *)
(* of packets.  The reader gets the packets that were sent, in the order    *)
(* they were sent, each once, any number of them at a time.                 *)
(***************************************************************************)
EXTENDS Naturals, Sequences

CONSTANTS Streams, Packets

VARIABLES sent, delivered

vars == <<sent, delivered>>

Init ==
  /\ sent = [d \in Streams |-> <<>>]
  /\ delivered = [d \in Streams |-> <<>>]

Send(d, p) ==
  /\ sent' = [sent EXCEPT ![d] = Append(@, p)]
  /\ UNCHANGED delivered

Deliver(d, n) ==
  /\ Len(delivered[d]) + n <= Len(sent[d])
  /\ delivered' = [delivered EXCEPT ![d] = SubSeq(sent[d], 1, Len(@) + n)]
  /\ UNCHANGED sent

Next ==
  \E d \in Streams :
    \/ \E p \in Packets : Send(d, p)
    \/ \E n \in 1 .. Len(sent[d]) : Deliver(d, n)

Spec == Init /\ [][Next]_vars
=============================================================================
