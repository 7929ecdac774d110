-------------------------- MODULE MCEndpointThreads --------------------------
(***************************************************************************)
(* Bytes have two values, so the four ports are in a different order in the  *)
(* network and in the host; 2 is the 256 of an address that is none.         *)
(***************************************************************************)
EXTENDS EndpointThreads, TLC

MCTexts == {<<1, 0, 1, 1>>, <<2, 0, 0, 1>>, <<1, 0, 0>>}
MCAddresses == {<<1, 0, 1, 1>>}
MCObjects == Threads \cup {Shared}
Symmetry == Permutations(Threads)
=============================================================================
