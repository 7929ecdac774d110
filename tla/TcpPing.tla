------------------------------- MODULE TcpPing -------------------------------
(***************************************************************************)
(* sandbox/tcp-ping: a client and a server that answers whatever it reads,   *)
(* until it reads QUIT, started and stopped by a runner.                    *)
(*                                                                          *)
(* Neither looks at the result of a read or a write.  A read may return a    *)
(* part of what was written, or the end of one message with the beginning   *)
(* of the next: TCP does not keep them apart.                               *)
(***************************************************************************)
EXTENDS Runner

CONSTANTS Greeting, QUIT \* what the client writes, as sequences of bytes

Server == "server"
Client == "client"
PingOrder == <<Server, Client>>
Peer == [p \in Programs |-> IF p = Server THEN Client ELSE Server]

Chars == {Greeting[i] : i \in DOMAIN Greeting} \cup {QUIT[i] : i \in DOMAIN QUIT}

\* Nothing that can be read of the greeting alone is QUIT, and QUIT does not begin with it.
ASSUME PingAssumption ==
  /\ Order = PingOrder
  /\ Greeting \in Seq(Chars) /\ QUIT \in Seq(Chars)
  /\ Len(Greeting) > 0 /\ Len(QUIT) > 0
  /\ \A i, j \in 1 .. Len(Greeting) : SubSeq(Greeting, i, j) # QUIT
  /\ \A k \in 1 .. Len(QUIT) : SubSeq(QUIT, 1, k) # Greeting

VARIABLES
  at,        \* at[p]: where main() of p is
  toServer,  \* the bytes that the server may read
  toClient,  \* the number of bytes that the client may read
  connected, \* the kernel has made the connection
  reset,     \* the programs whose side of the connection has been reset
  errors,    \* those among them whom no call has told so yet
  clientMsg, \* what the server has read last
  answers,   \* history: the client's reads that returned something
  torn       \* history: a read has returned something else than one message

resets == <<reset, errors>>
connection == <<toServer, toClient, connected, resets>>
history == <<answers, torn>>
pingVars == <<at, connection, clientMsg, history>>
vars == <<runnerVars, pingVars>>

Init ==
  /\ RunnerInit
  /\ at = [p \in Programs |-> IF p = Server THEN "listen" ELSE "connect"]
  /\ toServer = <<>> /\ toClient = 0
  /\ connected = FALSE /\ reset = {} /\ errors = {}
  /\ clientMsg = <<>> /\ answers = 0 /\ torn = FALSE

At(p, where) == Running(p) /\ at[p] = where
Goto(p, where) == at' = [at EXCEPT ![p] = where]

Unread(p) == IF p = Server THEN toServer # <<>> ELSE toClient > 0

Reset(p) == reset' = reset \cup {p} /\ errors' = errors \cup ({p} \ reset)

\* The end of a program closes its side.  Bytes it has not read reset the other side, and
\* so does a connection that it has not accepted.
Finish(p, code) ==
  /\ End(p, code)
  /\ IF connected /\ (Unread(p) \/ at[p] = "accept") THEN Reset(Peer[p])
                                                   ELSE UNCHANGED resets
  /\ UNCHANGED <<at, toServer, toClient, connected, clientMsg, history>>

----------------------------------------------------------------------------
(***************************************************************************)
(* The connection.                                                          *)
(***************************************************************************)
Listen ==
  /\ At(Server, "listen")
  /\ Goto(Server, "accept")
  /\ UNCHANGED <<runnerVars, connection, clientMsg, history>>

\* socket(), bind() or listen() fails: the port is in use.
ListenFails == At(Server, "listen") /\ Finish(Server, "failure")

Listening == Running(Server) /\ at[Server] # "listen"

Connect ==
  /\ At(Client, "connect") /\ Listening
  /\ connected' = TRUE
  /\ Goto(Client, "write greeting")
  /\ UNCHANGED <<runnerVars, toServer, toClient, resets, clientMsg, history>>

ConnectRefused ==
  At(Client, "connect") /\ ~ Listening /\ Finish(Client, "failure")

\* accept() fails.
AcceptFails == At(Server, "accept") /\ Finish(Server, "failure")

Accept ==
  /\ At(Server, "accept") /\ connected
  /\ Goto(Server, "read")
  /\ UNCHANGED <<runnerVars, connection, clientMsg, history>>

----------------------------------------------------------------------------
(***************************************************************************)
(* write().  The first write after the other side has gone succeeds and      *)
(* resets the connection.  On a connection that was reset it fails, once, if *)
(* no call has reported the reset yet; otherwise SIGPIPE.                   *)
(***************************************************************************)
Gone(p) == Ended(Peer[p])

BrokenPipe(p) ==
  /\ at[p] \in {"write", "last write", "write greeting", "write QUIT"}
  /\ p \in reset
  /\ Finish(p, "killed")

\* The kernel takes the bytes, or the call returns -1, which nobody looks at.
Sent(p) == p \notin reset /\ IF Gone(p) THEN Reset(p) ELSE UNCHANGED resets
\* Mutant: SIGPIPE is ignored, and every write to a broken connection just fails.
NotSentQuiet(p) == p \in reset /\ UNCHANGED resets
NotSent(p) == p \in errors /\ errors' = errors \ {p} /\ UNCHANGED reset

\* Mutant: the comparison with "QUIT" fails (it has a newline).
IsQuitNever(msg) == msg = QUIT \o <<"newline">>
IsQuit(msg) == msg = QUIT

\* Mutant: only whole messages are answered.
AnswerLenWhole(msg) == IF msg \in {Greeting, QUIT} THEN 1 + Len(msg) ELSE 0

\* "Hello from server[" + clientMsg + "]".
AnswerLen(msg) == 1 + Len(msg)

ServerWrite(where) ==
  /\ At(Server, where)
  /\ \/ /\ Sent(Server)
        /\ toClient' = IF Gone(Server) THEN toClient ELSE toClient + AnswerLen(clientMsg)
     \/ NotSent(Server) /\ UNCHANGED toClient
  /\ Goto(Server, IF where = "last write" \/ IsQuit(clientMsg) THEN "exit" ELSE "read")
  /\ UNCHANGED <<runnerVars, toServer, connected, clientMsg, history>>

ClientWrite(where, msg, then) ==
  /\ At(Client, where)
  /\ \/ Sent(Client) /\ toServer' = IF Gone(Client) THEN toServer ELSE toServer \o msg
     \/ NotSent(Client) /\ UNCHANGED toServer
  /\ Goto(Client, then)
  /\ UNCHANGED <<runnerVars, toClient, connected, clientMsg, history>>

----------------------------------------------------------------------------
(***************************************************************************)
(* read(): some of the bytes that are there, or none once the other side     *)
(* has gone.  End of file (0) leaves the buffer empty, and so does an error, *)
(* when the returned -1 is the index of a byte that is set to 0.  In the     *)
(* server that byte, before the buffer, may be that of `running'; what may    *)
(* lie there in the client is not used, or 0, already.                      *)
(***************************************************************************)
Closed(p) == ~ Unread(p) /\ Gone(p) /\ p \notin errors
Failing(p) == ~ Unread(p) /\ p \in errors
Reported(p) == errors' = errors \ {p}

ServerRead ==
  /\ At(Server, "read") /\ toServer # <<>>
  /\ \E k \in 1 .. Len(toServer) :
       /\ clientMsg' = SubSeq(toServer, 1, k)
       /\ toServer' = SubSeq(toServer, k + 1, Len(toServer))
       /\ torn' = (torn \/ clientMsg' \notin {Greeting, QUIT})
  /\ Goto(Server, "write")
  /\ UNCHANGED <<runnerVars, toClient, connected, resets, answers>>

ServerReadNothing ==
  /\ At(Server, "read")
  /\ \/ Closed(Server) /\ Goto(Server, "write")
     \/ Failing(Server) /\ \E where \in {"write", "last write"} : Goto(Server, where)
  /\ clientMsg' = <<>>
  /\ Reported(Server)
  /\ UNCHANGED <<runnerVars, toServer, toClient, connected, reset, history>>

ClientRead(where, then) ==
  /\ At(Client, where) /\ toClient > 0
  /\ \E k \in 1 .. toClient :
       /\ toClient' = toClient - k
       /\ torn' = (torn \/ k < toClient)
  /\ answers' = answers + 1
  /\ Goto(Client, then)
  /\ UNCHANGED <<runnerVars, toServer, connected, resets, clientMsg>>

ClientReadNothing(where, then) ==
  /\ At(Client, where) /\ (Closed(Client) \/ Failing(Client))
  /\ Goto(Client, then)
  /\ Reported(Client)
  /\ UNCHANGED <<runnerVars, toServer, toClient, connected, reset, clientMsg, history>>

----------------------------------------------------------------------------
ExitZero(p) == At(p, "exit") /\ Finish(p, "zero")

Killed(p) == Dies(p) /\ Finish(p, "killed")

ServerStep ==
  \/ Listen \/ ListenFails \/ Accept \/ AcceptFails
  \/ ServerRead \/ ServerReadNothing
  \/ ServerWrite("write") \/ ServerWrite("last write")
  \/ BrokenPipe(Server) \/ ExitZero(Server)

ClientStep ==
  \/ Connect \/ ConnectRefused
  \/ ClientWrite("write greeting", Greeting, "read answer")
  \/ ClientRead("read answer", "write QUIT")
  \/ ClientReadNothing("read answer", "write QUIT")
  \/ ClientWrite("write QUIT", QUIT, "read last")
  \/ ClientRead("read last", "exit")
  \/ ClientReadNothing("read last", "exit")
  \/ BrokenPipe(Client) \/ ExitZero(Client)

Next ==
  \/ (RunnerMain \/ Interrupt) /\ UNCHANGED pingVars
  \/ ServerStep \/ ClientStep
  \/ \E p \in Programs : Killed(p)

Spec == Init /\ [][Next]_vars

----------------------------------------------------------------------------
(***************************************************************************)
(* Properties.                                                              *)
(***************************************************************************)
\* The client and the server never both wait for bytes that nobody will write, however
\* the reads cut the messages.
NeverBothWaiting ==
  ~ /\ At(Server, "read") /\ toServer = <<>>
    /\ (At(Client, "read answer") \/ At(Client, "read last")) /\ toClient = 0

\* The server, unless signalled, dies of SIGPIPE only if a read did not return exactly one message (it may
\* then never see QUIT), or if the client was killed.
SigpipeHasCause ==
  child[Server] = "killed" /\ signal[Server] = "none" =>
    torn \/ child[Client] = "killed"

\* The server leaves its loop with 0 only after it has read QUIT, although a failed read may
\* overwrite `running': such a read has used up the error, and the write kills the server.
\* And a runner that answers 0 has seen the whole conversation: the client has two answers.
SuccessIsConversation ==
  /\ child[Server] = "zero" => IsQuit(clientMsg)
  /\ pc = "returned" /\ answer = "zero" => answers = 2
=============================================================================
