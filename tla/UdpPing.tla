------------------------------- MODULE UdpPing -------------------------------
(***************************************************************************)
(* sandbox/udp-ping: a client greets a server and waits for the answer.     *)
(***************************************************************************)
EXTENDS UdpSandbox

CONSTANTS Checked \* the programs look at the results of their sends (dirtynet/)

\* The payloads.
Greeting == "Hello from client"
Answer == "hello from server"

PingOrder == <<"server", "client">>

\* Mutant: the server sends back what it received.
ServerScriptEcho ==
  <<BindOp("8090", FALSE), Op("receive"), ReplyOp(Greeting, Checked),
    Op("exit")>>

ServerScript ==
  <<BindOp("8090", FALSE), Op("receive"), ReplyOp(Answer, Checked),
    Op("exit")>>

ClientScript ==
  <<Op("open"), SendOp("8090", Greeting, Checked), Op("receive"), Op("exit")>>

PingScript == [server |-> ServerScript, client |-> ClientScript]

----------------------------------------------------------------------------
\* The client prints an answer only if the server has its greeting: the answer comes from
\* the server's port, and the server has answered the client's own port.
PongAfterPing ==
  got["client"] # <<>> =>
    /\ got["client"] = <<[from |-> "8090", msg |-> Answer]>>
    /\ got["server"] = <<[from |-> "client", msg |-> Greeting]>>
=============================================================================
