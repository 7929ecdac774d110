------------------------------ MODULE UdpScript ------------------------------
(***************************************************************************)
(* The instructions of the programs of UdpSandbox.  `share' is SO_REUSEADDR; *)
(* the result of a send is looked at (`checked') or not.                    *)
(***************************************************************************)
Op(name) == [op |-> name]
BindOp(to, share) == [op |-> "bind", to |-> to, share |-> share]
SendOp(to, msg, checked) == [op |-> "send", to |-> to, msg |-> msg, checked |-> checked]
ReplyOp(msg, checked) == [op |-> "reply", msg |-> msg, checked |-> checked]

\* The port of a socket without a name, and what a program has for a port that it refuses.
NoPort == "none"
=============================================================================
