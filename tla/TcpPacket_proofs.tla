--------------------------- MODULE TcpPacket_proofs ---------------------------
(***************************************************************************)
(* The client and the server of sandbox/tcp-packet, whatever they are in    *)
(* the middle of, whoever is killed, and however small the kernel's         *)
(* buffers, use their connection as two streams of packets: what            *)
(* PacketStream_proofs shows of the streams holds of the programs.  And with *)
(* their runner they are programs that a runner may have.                   *)
(*                                                                          *)
(* Their scripts fit: the programs speak in turn, none fails without a       *)
(* cause, each ends after the last packet, and the answer of the runner says *)
(* what has happened.                                                       *)
(***************************************************************************)
EXTENDS TcpPacketRun, PacketStream_proofs

LEMMA TheStreams ==
  ASSUME NEW p \in Processes
  PROVE  Out[p] \in Streams /\ In[p] \in Streams
BY TcpAssumption DEF Processes, Out, In, Client, Server

(***************************************************************************)
(* A process that ends, by itself or not, ends its side of both streams.    *)
(***************************************************************************)
LEMMA CloseAllStep ==
  ASSUME NEW p \in Processes, CloseAll(p)
  PROVE  StreamNext
<1> DEFINE how == IF wire[In[p]] = <<>> /\ ~ SettingUp(p) THEN "closed" ELSE "reset"
<1>1. EndProcess({Out[p]}, {In[p]}, how) /\ how \in {"closed", "reset"}
  BY DEF CloseAll
<1>2. {Out[p]} \in SUBSET Streams /\ {In[p]} \in SUBSET Streams
  BY TheStreams
<1> HIDE DEF how
<1> QED
  BY <1>1, <1>2 DEF StreamNext

LEMMA GetPacketsStep ==
  ASSUME NEW p \in Processes, GetPackets(p)
  PROVE  StreamNext
<1>1. In[p] \in Streams
  BY TheStreams
<1>2. \/ \E k \in 1 .. InBufferLen[In[p]] : ReadBytes(In[p], k)
      \/ ParseComplete(In[p])
      \/ ReturnPackets(In[p]) \/ ReturnInvalid(In[p])
      \/ ReadClosed(In[p]) \/ ReadError(In[p])
  BY DEF GetPackets
<1> QED
  BY <1>1, <1>2 DEF StreamNext

(***************************************************************************)
(* Every step of the programs is one of the streams, or leaves them alone.  *)
(***************************************************************************)
LEMMA StreamsStep == [Next]_vars => [StreamNext]_streamVars
<1> SUFFICES ASSUME [Next]_vars PROVE StreamNext \/ UNCHANGED streamVars
  OBVIOUS
<1>1. CASE UNCHANGED vars
  BY <1>1 DEF vars
<1>2. ASSUME Listen \/ Accept \/ Connect \/ ConnectRefused PROVE UNCHANGED streamVars
  BY <1>2 DEF Listen, Accept, Connect, ConnectRefused
<1>3. ASSUME NEW p \in Processes, SetupFails(p) PROVE UNCHANGED streamVars
  BY <1>3 DEF SetupFails
<1>4. ASSUME NEW p \in Processes, EncodePacket(p) PROVE StreamNext
  BY <1>4, TheStreams DEF EncodePacket, StreamNext
<1>5. ASSUME NEW p \in Processes, Write(p) PROVE StreamNext
  BY <1>5, TheStreams DEF Write, StreamNext
<1>6. ASSUME NEW p \in Processes, GetPackets(p) PROVE StreamNext
  BY <1>6, GetPacketsStep
<1>7. ASSUME NEW p \in Processes, Exit(p) \/ ExitFailure(p) \/ Killed(p)
      PROVE  StreamNext
  BY <1>7, CloseAllStep DEF Exit, ExitFailure, Killed
<1>8. ASSUME NEW p \in Processes, Refuse(p) PROVE StreamNext
  BY <1>8, TheStreams DEF Refuse, StreamNext
<1> QED
  BY <1>1, <1>2, <1>3, <1>4, <1>5, <1>6, <1>7, <1>8 DEF Next, Step

(***************************************************************************)
(* The client and the server implement the streams.                         *)
(***************************************************************************)
THEOREM ImplementsStreams == Spec => StreamSpec
<1>1. Init => StreamInit
  BY DEF Init
<1> QED
  BY <1>1, StreamsStep, PTL DEF Spec, StreamSpec

(***************************************************************************)
(* What either program collects from get_packets is what the other sent, in *)
(* order, and no packet stays behind in a buffer.                           *)
(***************************************************************************)
THEOREM ConversationInOrder == Spec => [](DeliveredInOrder /\ NothingLeftBehind)
  BY ImplementsStreams, Framing, Drained, PTL

----------------------------------------------------------------------------
(***************************************************************************)
(* The run: what the runner sees of a program is changed by that program     *)
(* alone, and once only.                                                    *)
(***************************************************************************)
Codes == {"running", "zero", "failure", "killed"}

CodesOK == exitCode \in [Processes -> Codes]

LEMMA GotCodes ==
  ASSUME NEW p, NEW st, NEW packets, Got(p, st, packets)
  PROVE  exitCode' = exitCode \/ exitCode' = [exitCode EXCEPT ![p] = "failure"]
BY DEF Got, Fail

LEMMA GetPacketsOwn ==
  ASSUME StreamTypeOK, NEW p \in Processes, GetPackets(p)
  PROVE  /\ exitCode' = exitCode \/ exitCode' = [exitCode EXCEPT ![p] = "failure"]
         /\ \A d \in Streams \ {In[p]} : reader'[d] = reader[d]
<1>1. exitCode' = exitCode \/ exitCode' = [exitCode EXCEPT ![p] = "failure"]
  BY GotCodes DEF GetPackets, procVars
<1>2. \A d \in Streams \ {In[p]} : reader'[d] = reader[d]
  BY DEF GetPackets, ReadBytes, ParseComplete, ReturnPackets, ReturnInvalid, ReadClosed,
     ReadError, StreamTypeOK
<1> QED
  BY <1>1, <1>2

LEMMA CloseAllOwn ==
  ASSUME StreamTypeOK, NEW p \in Processes, CloseAll(p)
  PROVE  \A d \in Streams \ {In[p]} : reader'[d] = reader[d]
BY DEF CloseAll, EndProcess, StreamTypeOK

Acts(p) == Step(p) \/ SetupFails(p) \/ Killed(p)

LEMMA ActsOwn ==
  ASSUME StreamTypeOK, CodesOK, NEW p \in Processes, Acts(p)
  PROVE  /\ \E c \in Codes : exitCode' = [exitCode EXCEPT ![p] = c]
         /\ \A d \in Streams \ {In[p]} : reader'[d] = reader[d]
<1>1. exitCode = [exitCode EXCEPT ![p] = exitCode[p]] /\ exitCode[p] \in Codes
  BY DEF CodesOK
<1>2. ASSUME Listen \/ Accept \/ Connect
      PROVE  UNCHANGED <<exitCode, reader>>
  BY <1>2 DEF Listen, Accept, Connect, streamVars, readerVars
<1>3. ASSUME (p = Client /\ ConnectRefused) \/ SetupFails(p)
      PROVE  exitCode' = [exitCode EXCEPT ![p] = "failure"] /\ UNCHANGED reader
  BY <1>3 DEF ConnectRefused, SetupFails, Fail, streamVars, readerVars
<1>4. ASSUME EncodePacket(p) \/ Write(p)
      PROVE  UNCHANGED <<exitCode, reader>>
  BY <1>4 DEF EncodePacket, Write, Encode, Transfer, readerVars
<1>5. ASSUME Exit(p) \/ ExitFailure(p) \/ Killed(p)
      PROVE  /\ CloseAll(p)
             /\ \/ exitCode' = exitCode
                \/ \E c \in {"zero", "killed"} : exitCode' = [exitCode EXCEPT ![p] = c]
  BY <1>5 DEF Exit, ExitFailure, Killed, procVars
<1>6. CASE GetPackets(p)
  BY <1>1, <1>6, GetPacketsOwn DEF Codes
<1>7. CASE Exit(p) \/ ExitFailure(p) \/ Killed(p)
  BY <1>1, <1>5, <1>7, CloseAllOwn DEF Codes
<1> QED
  BY <1>1, <1>2, <1>3, <1>4, <1>6, <1>7 DEF Acts, Step, Codes

LEMMA CodesStep == StreamTypeOK /\ CodesOK /\ [Next]_vars => CodesOK'
<1> SUFFICES ASSUME StreamTypeOK, CodesOK, [Next]_vars PROVE CodesOK'
  OBVIOUS
<1>1. CASE UNCHANGED vars
  BY <1>1 DEF vars, procVars, CodesOK
<1>2. ASSUME NEW p \in Processes, Acts(p) PROVE CodesOK'
  BY <1>2, ActsOwn DEF CodesOK
<1>3. ASSUME NEW p \in Processes, Refuse(p) PROVE CodesOK'
  BY <1>3 DEF Refuse, procVars, CodesOK
<1> QED
  BY <1>1, <1>2, <1>3 DEF Next, Acts

\* The exit code of a program is one that its runner knows.
THEOREM ExitCodes == Spec => [](StreamTypeOK /\ CodesOK)
<1>1. Init => CodesOK
  BY DEF Init, CodesOK, Codes
<1>2. Spec => []StreamTypeOK
  BY ImplementsStreams, StreamTypes, PTL
<1> QED
  BY <1>1, <1>2, CodesStep, PTL DEF Spec

\* The run is one of the client and the server, whom their runner may kill.
LEMMA RunStep == [RunNext]_allVars => [Next]_vars
BY DEF RunNext, allVars, RunnerStep, ProgramStep, ProgramKilled, Next

\* What a program does, its runner sees as the end of that program, or as nothing.
LEMMA SeenByRunner ==
  ASSUME StreamTypeOK, CodesOK, NEW p \in Processes, Run!Running(p), Acts(p),
         UNCHANGED runVars
  PROVE  (\E code \in Run!ExitCodes : Run!End(p, code)) \/ Child' = Child
<1>1. PICK c \in Codes : exitCode' = [exitCode EXCEPT ![p] = c]
  BY ActsOwn
<1>2. \A q \in Processes \ {p} : exitCode'[q] = exitCode[q] /\ reader'[In[q]] = reader[In[q]]
  <2>1. \A q \in Processes \ {p} : In[q] \in Streams \ {In[p]}
    BY TheStreams DEF Processes, In, Client, Server
  <2> QED
    BY <1>1, <2>1, ActsOwn DEF CodesOK
<1>3. \A q \in Processes : Started(q)' = Started(q)
  BY DEF runVars, Started
<1>4. \A q \in Processes \ {p} : Child'[q] = Child[q]
  BY <1>2, <1>3 DEF Child
<1>5. Child[p] = "running" /\ Started(p)
  BY DEF Run!Running, Child
<1>6. exitCode'[p] = c
  BY <1>1 DEF CodesOK
<1>7. Child'[p] \in Codes
  BY <1>3, <1>5, <1>6 DEF Child, Codes
<1>8. Child = [q \in Processes |-> Child[q]] /\ Child' = [q \in Processes |-> Child'[q]]
  BY DEF Child
<1>9. CASE Child'[p] = "running"
  BY <1>4, <1>5, <1>8, <1>9
<1>10. CASE Child'[p] # "running"
  <2>1. Child' = [Child EXCEPT ![p] = Child'[p]]
    BY <1>4, <1>8
  <2>2. Child'[p] \in Run!ExitCodes
    BY <1>7, <1>10 DEF Codes, Run!ExitCodes
  <2> QED
    BY <2>1, <2>2 DEF Run!End, runVars
<1> QED
  BY <1>9, <1>10

(***************************************************************************)
(* The client, the server and their run.py are a runner and two programs as  *)
(* Runner has them, however the conversation goes.                          *)
(***************************************************************************)
THEOREM RunImplementsRunner == RunSpec => RunnerSpec
<1>1. RunInit => Run!RunnerInit
  BY DEF RunInit
<1>2. ASSUME StreamTypeOK, CodesOK, [RunNext]_allVars
      PROVE  Run!RunnerNext \/ UNCHANGED Run!runnerVars
  <2>1. CASE UNCHANGED allVars
    BY <2>1 DEF allVars, vars, streamVars, procVars, readerVars, runVars, Child, Started, Run!runnerVars
  <2>2. CASE RunnerStep \/ (UNCHANGED vars /\ Run!Interrupt)
    BY <2>2 DEF RunnerStep, Run!RunnerNext
  <2>3. ASSUME NEW p \in Processes, Run!Running(p), Acts(p), UNCHANGED runVars
        PROVE  Run!RunnerNext \/ UNCHANGED Run!runnerVars
    <3>1. p \in Run!Programs
      BY DEF Run!Programs, Order, Processes
    <3> QED
      BY <1>2, <2>3, <3>1, SeenByRunner DEF Run!RunnerNext, Run!runnerVars, runVars
  <2>4. ASSUME NEW p \in Processes, Refuse(p), UNCHANGED runVars
        PROVE  UNCHANGED Run!runnerVars
    BY <2>4 DEF Refuse, ResetBy, procVars, readerVars, runVars, Child, Started, Run!runnerVars
  <2> QED
    BY <1>2, <2>1, <2>2, <2>3, <2>4 DEF RunNext, ProgramStep, ProgramKilled, Acts
<1>3. RunSpec => Spec
  BY RunStep, PTL DEF RunSpec, RunInit, Spec
<1> QED
  BY <1>1, <1>2, <1>3, ExitCodes, PTL DEF RunSpec, RunnerSpec, Run!RunnerSpec

----------------------------------------------------------------------------
(***************************************************************************)
(* The conversation.  How far a process is in its script says how many      *)
(* packets it has encoded and how many it had read when it began the        *)
(* instruction it is at.                                                    *)
(***************************************************************************)
SentAt ==
  [p \in Processes |->
     IF p = Client THEN <<0, 0, 1, 1, 1, 2, 2, 2, 3, 3, 3, 4, 4>>
     ELSE <<0, 0, 0, 0, 1, 1, 1, 2, 2, 3, 3, 4, 4, 4, 5, 6, 7, 7, 7>>]

ReadAt ==
  [p \in Processes |->
     IF p = Client THEN <<0, 0, 0, 0, 1, 1, 1, 4, 4, 4, 7, 7, 7>>
     ELSE <<0, 0, 0, 1, 1, 1, 2, 2, 2, 2, 2, 2, 2, 3, 3, 3, 3, 3, 4>>]

\* The instruction n of p may find bytes in the buffer that p encodes into.
Buffering(p, n) == Script[p][n].op \in {"encode", "write"}

Here(p) == Script[p][pc[p]]

\* p has sent the packets of its script up to where it is.
SendingOK(p) ==
  /\ Len(sent[Out[p]]) = SentAt[p][pc[p]]
  /\ \A i \in 1 .. Len(sent[Out[p]]) : sent[Out[p]][i] = Sends[p][i]
  /\ encoded[Out[p]] # <<>> => Buffering(p, pc[p])

\* p has read the packets of its script up to where it is, and allPackets has those of
\* the read in progress.
ReadingOK(p) ==
  /\ Len(delivered[In[p]]) >= ReadAt[p][pc[p]]
  /\ exitCode[p] = "running" =>
       /\ Len(delivered[In[p]]) = ReadAt[p][pc[p]] + Len(allPackets[p])
       /\ \A i \in 1 .. Len(allPackets[p]) :
            allPackets[p][i] = delivered[In[p]][ReadAt[p][pc[p]] + i]
       /\ first[p] => allPackets[p] = <<>>
       /\ IF Here(p).op = "read" THEN Len(allPackets[p]) < Here(p).want
                                 ELSE allPackets[p] = <<>>

ScriptInv == \A p \in Processes : SendingOK(p) /\ ReadingOK(p)

\* The two ends of p are open until p ends, and bytes are refused only after.
EndsOK(p) ==
  /\ exitCode[p] = "running" => writeEnd[Out[p]] = "open"
  /\ reader[In[p]] = "gone" <=> writeEnd[Out[p]] # "open"
  /\ refused[In[p]] => reader[In[p]] = "gone"

\* A process that got to its end lost no byte of what it wrote, and nobody will reset
\* its connection.
LeavingOK(p) ==
  exitCode[p] = "zero" =>
    /\ Here(p).op = "exit"
    /\ writeEnd[Out[p]] = "closed"
    /\ ~ refused[In[p]]
    /\ reader[Out[p]] # "gone" => Held(Out[p]) = Len(stream[Out[p]])

EndInv == \A p \in Processes : EndsOK(p) /\ LeavingOK(p)

----------------------------------------------------------------------------
(***************************************************************************)
(* The scripts, instruction by instruction.                                 *)
(***************************************************************************)
\* The counts before and after the instruction n of p are those of what it does.
StepFits(p, n) ==
  LET i == Script[p][n]
  IN  CASE i.op = "encode" -> /\ i.pkt = Sends[p][SentAt[p][n] + 1]
                              /\ Buffering(p, n + 1)
                              /\ SentAt[p][n + 1] = SentAt[p][n] + 1
                              /\ ReadAt[p][n + 1] = ReadAt[p][n]
        [] i.op = "read" -> /\ i.want \in Nat \ {0}
                            /\ \A k \in 1 .. i.want :
                                 Sends[Peer[p]][ReadAt[p][n] + k] \in i.accepts
                            /\ SentAt[p][n + 1] = SentAt[p][n]
                            /\ ReadAt[p][n + 1] = ReadAt[p][n] + i.want
                            /\ SentAt[p][n] = Len(Sends[p]) =>
                                 ReadAt[p][n + 1] = Len(Sends[Peer[p]])
        [] OTHER -> /\ SentAt[p][n + 1] = SentAt[p][n]
                    /\ ReadAt[p][n + 1] = ReadAt[p][n]

Fits(p, n) ==
  /\ SentAt[p][n] \in 0 .. Len(Sends[p])
  /\ ReadAt[p][n] \in 0 .. Len(Sends[Peer[p]])
  /\ Script[p][n].op # "exit" => n + 1 \in DOMAIN Script[p] /\ StepFits(p, n)
  /\ Script[p][n].op = "exit" => /\ SentAt[p][n] = Len(Sends[p])
                                 /\ ReadAt[p][n] = Len(Sends[Peer[p]])

LEMMA ClientCode ==
  /\ Client \in Processes /\ Script[Client] = ClientScript
  /\ DOMAIN ClientScript = 1 .. 13
  /\ ClientScript[1] = Op("connect")
  /\ ClientScript[2] = EncodeOp(create_ping) /\ ClientScript[3] = Op("write")
  /\ ClientScript[4] = ReadOp(1, FALSE, {create_pong}, TRUE)
  /\ ClientScript[5] = EncodeOp(create_msg(HelloClient)) /\ ClientScript[6] = Op("write")
  /\ ClientScript[7] = ReadOp(3, FALSE, Packets, TRUE)
  /\ ClientScript[8] = EncodeOp(create_msg(LargeMsg)) /\ ClientScript[9] = Op("write")
  /\ ClientScript[10] = ReadOp(3, FALSE, Packets, TRUE)
  /\ ClientScript[11] = EncodeOp(create_msg(QUIT)) /\ ClientScript[12] = Op("write")
  /\ ClientScript[13] = Op("exit")
<1>1. Client \in Processes /\ Script[Client] = ClientScript
  BY DEF Script, Processes, Client, Server
<1>2. DOMAIN ClientScript = 1 .. 13
  BY DEF ClientScript
<1>3. /\ ClientScript[1] = Op("connect")
      /\ ClientScript[2] = EncodeOp(create_ping) /\ ClientScript[3] = Op("write")
      /\ ClientScript[4] = ReadOp(1, FALSE, {create_pong}, TRUE)
      /\ ClientScript[5] = EncodeOp(create_msg(HelloClient)) /\ ClientScript[6] = Op("write")
      /\ ClientScript[7] = ReadOp(3, FALSE, Packets, TRUE)
      /\ ClientScript[8] = EncodeOp(create_msg(LargeMsg)) /\ ClientScript[9] = Op("write")
      /\ ClientScript[10] = ReadOp(3, FALSE, Packets, TRUE)
      /\ ClientScript[11] = EncodeOp(create_msg(QUIT)) /\ ClientScript[12] = Op("write")
      /\ ClientScript[13] = Op("exit")
  BY DEF ClientScript
<1> QED
  BY <1>1, <1>2, <1>3

LEMMA ClientFits ==
  ASSUME NEW n \in DOMAIN Script[Client]
  PROVE  Fits(Client, n)
<1>1. /\ Script[Client] = ClientScript /\ Peer[Client] = Server
      /\ Client \in Processes /\ Client # Server /\ Server \in Processes
  BY DEF Script, Processes, Peer, Client, Server
<1>2. /\ SentAt[Client] = <<0, 0, 1, 1, 1, 2, 2, 2, 3, 3, 3, 4, 4>>
      /\ ReadAt[Client] = <<0, 0, 0, 0, 1, 1, 1, 4, 4, 4, 7, 7, 7>>
  BY <1>1 DEF SentAt, ReadAt
<1>3. /\ Sends[Client] = <<create_ping, create_msg(HelloClient), create_msg(LargeMsg),
                           create_msg(QUIT)>>
      /\ Sends[Server] = <<create_pong, create_pong, create_ping, create_msg(HelloWorld),
                           create_msg(Msg100), create_msg(Msg50), create_msg(Msg150)>>
  BY <1>1 DEF Sends
<1>4. Len(Sends[Client]) = 4 /\ Len(Sends[Server]) = 7
  BY <1>3
<1>5. \A k \in 1 .. 7 : Sends[Server][k] \in Packets
  BY <1>3, TcpAssumption DEF Greetings
<1>8. CASE n \in {1, 3, 6, 9, 12, 13}
  BY <1>1, <1>2, <1>4, ClientCode, <1>8 DEF Fits, StepFits, Op
<1>9. CASE n \in {2, 5, 8, 11}
  BY <1>1, <1>2, <1>3, <1>4, ClientCode, <1>9
     DEF Fits, StepFits, EncodeOp, Op, Buffering
<1>10. CASE n \in {4, 7, 10}
  BY <1>1, <1>2, <1>3, <1>4, <1>5, ClientCode, <1>10 DEF Fits, StepFits, ReadOp
<1> QED
  BY <1>1, ClientCode, <1>8, <1>9, <1>10

LEMMA ServerCode ==
  /\ Server \in Processes /\ Script[Server] = ServerScript
  /\ DOMAIN ServerScript = 1 .. 19
  /\ ServerScript[1] = Op("listen") /\ ServerScript[2] = Op("accept")
  /\ ServerScript[3] = ReadOp(1, TRUE, {create_ping}, TRUE)
  /\ ServerScript[4] = EncodeOp(create_pong) /\ ServerScript[5] = Op("write")
  /\ ServerScript[6] = ReadOp(1, TRUE, Greetings, FALSE)
  /\ ServerScript[7] = EncodeOp(create_pong) /\ ServerScript[8] = Op("write")
  /\ ServerScript[9] = EncodeOp(create_ping) /\ ServerScript[10] = Op("write")
  /\ ServerScript[11] = EncodeOp(create_msg(HelloWorld)) /\ ServerScript[12] = Op("write")
  /\ ServerScript[13] = ReadOp(1, TRUE, Greetings, FALSE)
  /\ ServerScript[14] = EncodeOp(create_msg(Msg100))
  /\ ServerScript[15] = EncodeOp(create_msg(Msg50))
  /\ ServerScript[16] = EncodeOp(create_msg(Msg150)) /\ ServerScript[17] = Op("write")
  /\ ServerScript[18] = ReadOp(1, TRUE, {create_msg(QUIT)}, FALSE)
  /\ ServerScript[19] = Op("exit")
<1>1. Server \in Processes /\ Script[Server] = ServerScript
  BY DEF Script, Processes, Client, Server
<1>2. DOMAIN ServerScript = 1 .. 19
  BY DEF ServerScript
<1>3. /\ ServerScript[1] = Op("listen") /\ ServerScript[2] = Op("accept")
      /\ ServerScript[3] = ReadOp(1, TRUE, {create_ping}, TRUE)
      /\ ServerScript[4] = EncodeOp(create_pong) /\ ServerScript[5] = Op("write")
      /\ ServerScript[6] = ReadOp(1, TRUE, Greetings, FALSE)
      /\ ServerScript[7] = EncodeOp(create_pong) /\ ServerScript[8] = Op("write")
      /\ ServerScript[9] = EncodeOp(create_ping) /\ ServerScript[10] = Op("write")
      /\ ServerScript[11] = EncodeOp(create_msg(HelloWorld)) /\ ServerScript[12] = Op("write")
      /\ ServerScript[13] = ReadOp(1, TRUE, Greetings, FALSE)
      /\ ServerScript[14] = EncodeOp(create_msg(Msg100))
      /\ ServerScript[15] = EncodeOp(create_msg(Msg50))
      /\ ServerScript[16] = EncodeOp(create_msg(Msg150)) /\ ServerScript[17] = Op("write")
      /\ ServerScript[18] = ReadOp(1, TRUE, {create_msg(QUIT)}, FALSE)
      /\ ServerScript[19] = Op("exit")
  BY DEF ServerScript
<1> QED
  BY <1>1, <1>2, <1>3

LEMMA ServerFits ==
  ASSUME NEW n \in DOMAIN Script[Server]
  PROVE  Fits(Server, n)
<1>1. /\ Script[Server] = ServerScript /\ Peer[Server] = Client
      /\ Client \in Processes /\ Client # Server /\ Server \in Processes
  BY DEF Script, Processes, Peer, Client, Server
<1>2. /\ SentAt[Server] = <<0, 0, 0, 0, 1, 1, 1, 2, 2, 3, 3, 4, 4, 4, 5, 6, 7, 7, 7>>
      /\ ReadAt[Server] = <<0, 0, 0, 1, 1, 1, 2, 2, 2, 2, 2, 2, 2, 3, 3, 3, 3, 3, 4>>
  BY <1>1 DEF SentAt, ReadAt
<1>3. /\ Sends[Client] = <<create_ping, create_msg(HelloClient), create_msg(LargeMsg),
                           create_msg(QUIT)>>
      /\ Sends[Server] = <<create_pong, create_pong, create_ping, create_msg(HelloWorld),
                           create_msg(Msg100), create_msg(Msg50), create_msg(Msg150)>>
  BY <1>1 DEF Sends
<1>4. Len(Sends[Client]) = 4 /\ Len(Sends[Server]) = 7
  BY <1>3
<1>5. create_msg(HelloClient) \in Greetings /\ create_msg(LargeMsg) \in Greetings
  BY DEF Greetings
<1>8. CASE n \in {1, 2, 5, 8, 10, 12, 17, 19}
  BY <1>1, <1>2, <1>4, ServerCode, <1>8 DEF Fits, StepFits, Op
<1>9. CASE n \in {4, 7, 9, 11}
  BY <1>1, <1>2, <1>3, <1>4, ServerCode, <1>9
     DEF Fits, StepFits, EncodeOp, Op, Buffering
<1>10. CASE n \in {14, 15, 16}
  BY <1>1, <1>2, <1>3, <1>4, ServerCode, <1>10
     DEF Fits, StepFits, EncodeOp, Op, Buffering
<1>11. CASE n \in {3, 6, 13, 18}
  BY <1>1, <1>2, <1>3, <1>4, <1>5, ServerCode, <1>11 DEF Fits, StepFits, ReadOp
<1> QED
  BY <1>1, ServerCode, <1>8, <1>9, <1>10, <1>11

LEMMA ScriptFits ==
  ASSUME NEW p \in Processes, NEW n \in DOMAIN Script[p]
  PROVE  Fits(p, n)
BY ClientFits, ServerFits DEF Processes

(***************************************************************************)
(* The two scripts take turns: if neither process has read more than the    *)
(* other has sent, they are not both owed a packet, and a process that      *)
(* reads is owed no more than it reads.                                     *)
(***************************************************************************)
LEMMA Turns ==
  ASSUME NEW c \in DOMAIN Script[Client], NEW s \in DOMAIN Script[Server],
         ReadAt[Client][c] <= SentAt[Server][s],
         ReadAt[Server][s] <= SentAt[Client][c]
  PROVE  /\ ~ (/\ ReadAt[Client][c] < SentAt[Server][s]
               /\ ReadAt[Server][s] < SentAt[Client][c])
         /\ Script[Client][c].op = "read" =>
              SentAt[Server][s] <= ReadAt[Client][c + 1]
         /\ Script[Server][s].op = "read" =>
              SentAt[Client][c] <= ReadAt[Server][s + 1]
<1>1. /\ Script[Client] = ClientScript /\ Script[Server] = ServerScript
      /\ SentAt[Client] = <<0, 0, 1, 1, 1, 2, 2, 2, 3, 3, 3, 4, 4>>
      /\ ReadAt[Client] = <<0, 0, 0, 0, 1, 1, 1, 4, 4, 4, 7, 7, 7>>
      /\ SentAt[Server] = <<0, 0, 0, 0, 1, 1, 1, 2, 2, 3, 3, 4, 4, 4, 5, 6, 7, 7, 7>>
      /\ ReadAt[Server] = <<0, 0, 0, 1, 1, 1, 2, 2, 2, 2, 2, 2, 2, 3, 3, 3, 3, 3, 4>>
  BY DEF Script, SentAt, ReadAt, Processes, Client, Server
<1>2. DOMAIN ClientScript = 1 .. 13 /\ DOMAIN ServerScript = 1 .. 19
  BY ClientCode, ServerCode
<1>3. \/ SentAt[Client][c] = 0 /\ ReadAt[Client][c] = 0
      \/ SentAt[Client][c] = 1 /\ ReadAt[Client][c] \in {0, 1}
      \/ SentAt[Client][c] = 2 /\ ReadAt[Client][c] \in {1, 4}
      \/ SentAt[Client][c] = 3 /\ ReadAt[Client][c] \in {4, 7}
      \/ SentAt[Client][c] = 4 /\ ReadAt[Client][c] = 7
  BY <1>1, <1>2
<1>4. \/ ReadAt[Server][s] = 0 /\ SentAt[Server][s] = 0
      \/ ReadAt[Server][s] = 1 /\ SentAt[Server][s] \in {0, 1}
      \/ ReadAt[Server][s] = 2 /\ SentAt[Server][s] \in {1, 2, 3, 4}
      \/ ReadAt[Server][s] = 3 /\ SentAt[Server][s] \in {4, 5, 6, 7}
      \/ ReadAt[Server][s] = 4 /\ SentAt[Server][s] = 7
  BY <1>1, <1>2
<1>5. Script[Client][c].op = "read" =>
        \/ SentAt[Client][c] = 1 /\ ReadAt[Client][c] = 0 /\ ReadAt[Client][c + 1] = 1
        \/ SentAt[Client][c] = 2 /\ ReadAt[Client][c] = 1 /\ ReadAt[Client][c + 1] = 4
        \/ SentAt[Client][c] = 3 /\ ReadAt[Client][c] = 4 /\ ReadAt[Client][c + 1] = 7
  <2>1. ClientScript[c].op = "read" => c \in {4, 7, 10}
    BY <1>1, <1>2, ClientCode DEF Op, EncodeOp, ReadOp
  <2> QED
    BY <1>1, <2>1
<1>6. Script[Server][s].op = "read" =>
        \/ ReadAt[Server][s] = 0 /\ SentAt[Server][s] = 0 /\ ReadAt[Server][s + 1] = 1
        \/ ReadAt[Server][s] = 1 /\ SentAt[Server][s] = 1 /\ ReadAt[Server][s + 1] = 2
        \/ ReadAt[Server][s] = 2 /\ SentAt[Server][s] = 4 /\ ReadAt[Server][s + 1] = 3
        \/ ReadAt[Server][s] = 3 /\ SentAt[Server][s] = 7 /\ ReadAt[Server][s + 1] = 4
  <2>1. ServerScript[s].op = "read" => s \in {3, 6, 13, 18}
    BY <1>1, <1>2, ServerCode DEF Op, EncodeOp, ReadOp
  <2> QED
    BY <1>1, <2>1
<1> QED
  BY <1>3, <1>4, <1>5, <1>6

----------------------------------------------------------------------------
(***************************************************************************)
(* The two processes and their two streams.                                 *)
(***************************************************************************)
LEMMA TheProcesses ==
  ASSUME NEW p \in Processes
  PROVE  /\ Peer[p] \in Processes /\ Peer[p] # p /\ Peer[Peer[p]] = p
         /\ Processes = {p, Peer[p]}
         /\ Out[p] \in Streams /\ In[p] \in Streams /\ Out[p] # In[p]
         /\ Out[Peer[p]] = In[p] /\ In[Peer[p]] = Out[p]
         /\ Streams = {Out[p], In[p]}
BY TcpAssumption DEF Processes, Peer, Out, In, Client, Server

LEMMA TheOther ==
  ASSUME NEW p \in Processes, NEW q \in Processes \ {p}
  PROVE  /\ q = Peer[p] /\ Out[q] = In[p] /\ In[q] = Out[p]
         /\ Out[p] \in Streams /\ In[p] \in Streams /\ Out[p] # In[p]
BY TheProcesses

\* None of the packets of the conversation is one that a reader refuses.
LEMMA NoneInvalid == \A pkt \in Packets : pkt.hdr # invalid
<1>1. create_ping.hdr = ping /\ create_pong.hdr = pong
  BY DEF create_ping, create_pong, PacketOfType
<1>2. \A m : create_msg(m).hdr = greeting
  BY DEF create_msg, PacketOfMsg
<1>3. ASSUME NEW pkt \in Greetings PROVE pkt.hdr = greeting
  BY <1>2, <1>3 DEF Greetings
<1> QED
  BY <1>1, <1>3, TcpAssumption DEF ping, pong, greeting, invalid

(***************************************************************************)
(* All that was sent is delivered, or on its way; when it is all delivered  *)
(* no byte of the stream is anywhere.                                       *)
(***************************************************************************)
AccountOK(d) ==
  /\ status[d] # "protocol_error"
  /\ Len(delivered[d]) <= Len(sent[d])
  /\ \A i \in 1 .. Len(delivered[d]) : delivered[d][i] = sent[d][i]
  /\ Len(delivered[d]) = Len(sent[d]) => ~ Pending(d)

Accounts == \A d \in Streams : AccountOK(d)

LEMMA Accounted == StreamInv => Accounts
<1> SUFFICES ASSUME StreamInv, NEW d \in Streams PROVE AccountOK(d)
  BY DEF Accounts
<1> DEFINE D == Len(delivered[d])
           R == Len(retval[d])
           N == Len(sent[d])
           T == taken[d]
           U == Len(incomingBuffer[d])
           W == Len(wire[d])
           E == Len(encoded[d])
           L == Len(stream[d])
<1>1. /\ D \in Nat /\ R \in Nat /\ N \in Nat /\ T \in Nat
      /\ U \in Nat /\ W \in Nat /\ E \in Nat /\ L \in Nat
  BY TypesAt
<1>2. ~ Blocked(d)
  <2>1. SUFFICES ASSUME Blocked(d) PROVE FALSE
    OBVIOUS
  <2>2. T < N /\ sent[d][T + 1].hdr = invalid
    BY <2>1 DEF Blocked
  <2>3. T + 1 \in 1 .. N
    <3> HIDE DEF T, N
    <3> QED
      BY <1>1, <2>2
  <2>4. sent[d][T + 1] \in Packets
    BY <2>3, TypesAt
  <2> QED
    BY <2>2, <2>4, NoneInvalid
<1>3. /\ D + R = T /\ T <= N /\ status[d] # "protocol_error"
      /\ \A i \in 1 .. D : delivered[d][i] = sent[d][i]
  BY <1>2, TypesAt DEF ReturnedOK, BytesOK
<1>4. D <= N
  <2> HIDE DEF D, R, T, N
  <2> QED
    BY <1>1, <1>3
<1>5. ASSUME D = N PROVE ~ Pending(d)
  <2>1. R = 0 /\ T = N
    <3> HIDE DEF D, R, T, N
    <3> QED
      BY <1>1, <1>3, <1>5
  <2>2. At(d) = L
    BY <2>1 DEF At, EndOf
  <2>3. L + U + W + E <= L
    BY <2>2, TypesAt DEF BytesOK, Held
  <2>4. U = 0 /\ W = 0 /\ E = 0
    <3> HIDE DEF L, U, W, E
    <3> QED
      BY <1>1, <2>3
  <2> QED
    BY <2>1, <2>4, TypesAt, EmptySeq DEF Pending
<1> QED
  BY <1>3, <1>4, <1>5 DEF AccountOK

----------------------------------------------------------------------------
(***************************************************************************)
(* Type correctness.                                                        *)
(***************************************************************************)
ProcessTypeOK ==
  /\ pc \in [Processes -> Nat]
  /\ \A p \in Processes : pc[p] \in DOMAIN Script[p]
  /\ allPackets \in [Processes -> Seq(Packets)]
  /\ first \in [Processes -> BOOLEAN]
  /\ exitCode \in [Processes -> {"running", "zero", "failure", "killed"}]
  /\ connected \in BOOLEAN
  /\ refused \in [Streams -> BOOLEAN]

LEMMA AdvanceType ==
  ASSUME ProcessTypeOK, NEW p \in Processes, Here(p).op # "exit", Advance(p)
  PROVE  /\ pc' \in [Processes -> Nat] /\ pc'[p] = pc[p] + 1
         /\ \A q \in Processes : pc'[q] \in DOMAIN Script[q]
<1>1. pc[p] \in Nat /\ pc[p] \in DOMAIN Script[p]
  BY DEF ProcessTypeOK
<1>2. pc[p] + 1 \in DOMAIN Script[p]
  BY <1>1, ScriptFits DEF Fits, Here
<1> QED
  BY <1>1, <1>2 DEF ProcessTypeOK, Advance

LEMMA GotType ==
  ASSUME ProcessTypeOK, NEW p \in Processes, Running(p, "read"),
         NEW st, NEW packets \in Seq(Packets), Got(p, st, packets)
  PROVE  /\ pc' \in [Processes -> Nat]
         /\ \A q \in Processes : pc'[q] \in DOMAIN Script[q]
         /\ allPackets' \in [Processes -> Seq(Packets)]
         /\ first' \in [Processes -> BOOLEAN]
         /\ exitCode' \in [Processes -> {"running", "zero", "failure", "killed"}]
<1> DEFINE all == IF first[p] THEN packets ELSE allPackets[p] \o packets
<1>1. all \in Seq(Packets)
  BY ConcatProperties DEF ProcessTypeOK
<1>2. \/ Fail(p) /\ UNCHANGED <<pc, allPackets, first>>
      \/ /\ Advance(p) /\ UNCHANGED exitCode
         /\ allPackets' = [allPackets EXCEPT ![p] = <<>>]
         /\ first' = [first EXCEPT ![p] = TRUE]
      \/ /\ UNCHANGED <<pc, exitCode>>
         /\ allPackets' = [allPackets EXCEPT ![p] = all]
         /\ first' = [first EXCEPT ![p] = FALSE]
  BY DEF Got
<1> HIDE DEF all
<1>3. CASE Fail(p) /\ UNCHANGED <<pc, allPackets, first>>
  BY <1>3 DEF Fail, ProcessTypeOK
<1>4. CASE /\ Advance(p) /\ UNCHANGED exitCode
           /\ allPackets' = [allPackets EXCEPT ![p] = <<>>]
           /\ first' = [first EXCEPT ![p] = TRUE]
  <2>1. Here(p).op # "exit"
    BY DEF Running, Here
  <2> QED
    BY <1>4, <2>1, AdvanceType DEF ProcessTypeOK
<1>5. CASE /\ UNCHANGED <<pc, exitCode>>
           /\ allPackets' = [allPackets EXCEPT ![p] = all]
           /\ first' = [first EXCEPT ![p] = FALSE]
  BY <1>1, <1>5 DEF ProcessTypeOK
<1> QED
  BY <1>2, <1>3, <1>4, <1>5

LEMMA TypeStep == StreamInv /\ ProcessTypeOK /\ [Next]_vars => ProcessTypeOK'
<1> SUFFICES ASSUME StreamInv, ProcessTypeOK, [Next]_vars PROVE ProcessTypeOK'
  OBVIOUS
<1>1. CASE UNCHANGED vars
  BY <1>1 DEF vars, procVars, ProcessTypeOK
<1>2. ASSUME Listen \/ Accept \/ Connect PROVE ProcessTypeOK'
  <2>1. PICK p \in Processes :
          /\ Advance(p) /\ Here(p).op # "exit"
          /\ UNCHANGED <<allPackets, first, exitCode, refused>>
          /\ connected' \in {connected, TRUE}
    BY <1>2 DEF Listen, Accept, Connect, Running, Here, Processes
  <2> QED
    BY <2>1, AdvanceType DEF ProcessTypeOK
<1>3. ASSUME NEW p \in Processes, (p = Client /\ ConnectRefused) \/ SetupFails(p)
      PROVE  ProcessTypeOK'
  BY <1>3 DEF ConnectRefused, SetupFails, Fail, ProcessTypeOK
<1>4. ASSUME NEW p \in Processes, EncodePacket(p) PROVE ProcessTypeOK'
  <2>1. Here(p).op # "exit"
    BY <1>4 DEF EncodePacket, Running, Here
  <2> QED
    BY <1>4, <2>1, AdvanceType DEF EncodePacket, ProcessTypeOK
<1>5. ASSUME NEW p \in Processes, Write(p) PROVE ProcessTypeOK'
  <2>1. /\ (Here(p).op # "exit" /\ Advance(p)) \/ UNCHANGED pc
        /\ UNCHANGED <<allPackets, first, exitCode, connected>>
        /\ refused' = [refused EXCEPT ![Out[p]] = @ \/ reader[Out[p]] = "gone"]
    BY <1>5 DEF Write, Running, Here
  <2>2. refused' \in [Streams -> BOOLEAN]
    BY <2>1, TheProcesses DEF ProcessTypeOK
  <2> QED
    BY <2>1, <2>2, AdvanceType DEF ProcessTypeOK
<1>6. ASSUME NEW p \in Processes, GetPackets(p) PROVE ProcessTypeOK'
  <2>1. retval[In[p]] \in Seq(Packets) /\ <<>> \in Seq(Packets)
    BY TheProcesses, TypesAt
  <2>2. /\ Running(p, "read") /\ UNCHANGED <<connected, refused>>
        /\ \/ UNCHANGED procVars
           \/ \E st, packets : packets \in Seq(Packets) /\ Got(p, st, packets)
    BY <1>6, <2>1 DEF GetPackets
  <2>3. CASE UNCHANGED procVars
    BY <2>2, <2>3 DEF procVars, ProcessTypeOK
  <2>4. ASSUME NEW st, NEW packets \in Seq(Packets), Got(p, st, packets)
        PROVE  ProcessTypeOK'
    BY <2>2, <2>4, GotType DEF ProcessTypeOK
  <2> QED
    BY <2>2, <2>3, <2>4
<1>7. ASSUME NEW p \in Processes, Exit(p) \/ ExitFailure(p) \/ Killed(p)
      PROVE  ProcessTypeOK'
  BY <1>7 DEF Exit, ExitFailure, Killed, procVars, ProcessTypeOK
<1>8. ASSUME NEW p \in Processes, Refuse(p) PROVE ProcessTypeOK'
  BY <1>8, TheProcesses DEF Refuse, procVars, ProcessTypeOK
<1> QED
  BY <1>1, <1>2, <1>3, <1>4, <1>5, <1>6, <1>7, <1>8 DEF Next, Step

----------------------------------------------------------------------------
(***************************************************************************)
(* How far the processes are.                                               *)
(***************************************************************************)

\* What the invariant says of a process at the instruction n.
LEMMA Counts ==
  ASSUME StreamInv, ProcessTypeOK, ScriptInv, NEW p \in Processes
  PROVE  /\ pc[p] \in DOMAIN Script[p] /\ Fits(p, pc[p])
         /\ SentAt[p][pc[p]] \in 0 .. Len(Sends[p])
         /\ ReadAt[p][pc[p]] \in 0 .. Len(Sends[Peer[p]])
         /\ Len(sent[Out[p]]) = SentAt[p][pc[p]]
         /\ Len(delivered[In[p]]) \in Nat
         /\ ReadAt[p][pc[p]] <= Len(delivered[In[p]])
         /\ Len(delivered[In[p]]) <= Len(sent[In[p]])
         /\ Len(sent[In[p]]) = SentAt[Peer[p]][pc[Peer[p]]]
         /\ \A i \in 1 .. Len(delivered[In[p]]) : delivered[In[p]][i] = Sends[Peer[p]][i]
<1> DEFINE q == Peer[p]
<1>1. q \in Processes /\ Out[q] = In[p] /\ In[p] \in Streams
  BY TheProcesses
<1>2. pc[p] \in DOMAIN Script[p] /\ Fits(p, pc[p])
  BY ScriptFits DEF ProcessTypeOK
<1>3. /\ SendingOK(p) /\ ReadingOK(p) /\ SendingOK(q)
  BY <1>1 DEF ScriptInv
<1>4. /\ Len(delivered[In[p]]) \in Nat /\ Len(sent[In[p]]) \in Nat
      /\ Len(delivered[In[p]]) <= Len(sent[In[p]])
      /\ \A i \in 1 .. Len(delivered[In[p]]) : delivered[In[p]][i] = sent[In[p]][i]
  BY <1>1, TypesAt, Accounted DEF Accounts, AccountOK
<1>5. \A i \in 1 .. Len(sent[In[p]]) : sent[In[p]][i] = Sends[q][i]
  BY <1>1, <1>3 DEF SendingOK
<1>6. \A i \in 1 .. Len(delivered[In[p]]) : i \in 1 .. Len(sent[In[p]])
  BY <1>4
<1>7. /\ SentAt[p][pc[p]] \in 0 .. Len(Sends[p])
      /\ ReadAt[p][pc[p]] \in 0 .. Len(Sends[Peer[p]])
  BY <1>2 DEF Fits
<1>8. ReadAt[p][pc[p]] \in Nat /\ Len(delivered[In[p]]) >= ReadAt[p][pc[p]]
  BY <1>3, <1>7 DEF ReadingOK
<1>9. ReadAt[p][pc[p]] <= Len(delivered[In[p]])
  BY <1>4, <1>8
<1>10. /\ Len(sent[Out[p]]) = SentAt[p][pc[p]]
       /\ Len(sent[In[p]]) = SentAt[q][pc[q]]
  BY <1>1, <1>3 DEF SendingOK
<1> QED
  BY <1>2, <1>4, <1>5, <1>6, <1>7, <1>9, <1>10

\* The processes are not both owed a packet, and a reader is owed no more than it reads.
LEMMA TakingTurns ==
  ASSUME StreamInv, ProcessTypeOK, ScriptInv
  PROVE  /\ \E d \in Streams : Len(delivered[d]) = Len(sent[d])
         /\ \A p \in Processes : Here(p).op = "read" =>
              Len(sent[In[p]]) <= ReadAt[p][pc[p] + 1]
<1> DEFINE c == pc[Client]
           s == pc[Server]
<1>1. /\ Client \in Processes /\ Server \in Processes
      /\ Peer[Client] = Server /\ Peer[Server] = Client
      /\ Out[Server] = In[Client] /\ Out[Client] = In[Server]
      /\ In[Client] \in Streams /\ In[Server] \in Streams
  BY TheProcesses DEF Processes, Peer, Client, Server
<1>2. /\ c \in DOMAIN Script[Client]
      /\ Len(delivered[In[Client]]) \in Nat
      /\ ReadAt[Client][c] \in Nat /\ SentAt[Client][c] \in Nat
      /\ ReadAt[Client][c] <= Len(delivered[In[Client]])
      /\ Len(delivered[In[Client]]) <= Len(sent[In[Client]])
      /\ Len(sent[In[Client]]) = SentAt[Server][s]
  BY <1>1, Counts
<1>3. /\ s \in DOMAIN Script[Server]
      /\ Len(delivered[In[Server]]) \in Nat
      /\ ReadAt[Server][s] \in Nat /\ SentAt[Server][s] \in Nat
      /\ ReadAt[Server][s] <= Len(delivered[In[Server]])
      /\ Len(delivered[In[Server]]) <= Len(sent[In[Server]])
      /\ Len(sent[In[Server]]) = SentAt[Client][c]
  BY <1>1, Counts
<1> HIDE DEF c, s
<1>4. ReadAt[Client][c] <= SentAt[Server][s] /\ ReadAt[Server][s] <= SentAt[Client][c]
  BY <1>2, <1>3, SMTT(30)
<1>5. /\ ~ (/\ ReadAt[Client][c] < SentAt[Server][s]
            /\ ReadAt[Server][s] < SentAt[Client][c])
      /\ Script[Client][c].op = "read" => SentAt[Server][s] <= ReadAt[Client][c + 1]
      /\ Script[Server][s].op = "read" => SentAt[Client][c] <= ReadAt[Server][s + 1]
  BY <1>2, <1>3, <1>4, Turns
<1>6. \E d \in Streams : Len(delivered[d]) = Len(sent[d])
  <2>1. CASE ~ (ReadAt[Client][c] < SentAt[Server][s])
    <3>1. Len(delivered[In[Client]]) = Len(sent[In[Client]])
      BY <1>2, <1>3, <2>1
    <3> QED
      BY <1>1, <3>1
  <2>2. CASE ~ (ReadAt[Server][s] < SentAt[Client][c])
    <3>1. Len(delivered[In[Server]]) = Len(sent[In[Server]])
      BY <1>2, <1>3, <2>2
    <3> QED
      BY <1>1, <3>1
  <2> QED
    BY <1>5, <2>1, <2>2
<1>7. ASSUME NEW p \in Processes, Here(p).op = "read"
      PROVE  Len(sent[In[p]]) <= ReadAt[p][pc[p] + 1]
  BY <1>2, <1>3, <1>5, <1>7 DEF Processes, Here, c, s
<1> QED
  BY <1>6, <1>7

\* A process that stays where it is, or ends.
LEMMA StaysSending ==
  ASSUME NEW p \in Processes, SendingOK(p),
         pc'[p] = pc[p], sent'[Out[p]] = sent[Out[p]],
         encoded'[Out[p]] \in {encoded[Out[p]], <<>>}
  PROVE  SendingOK(p)'
BY DEF SendingOK, Buffering

LEMMA StaysReading ==
  ASSUME NEW p \in Processes, ReadingOK(p),
         pc'[p] = pc[p], delivered'[In[p]] = delivered[In[p]],
         exitCode'[p] = "running" => /\ exitCode[p] = "running"
                                     /\ allPackets'[p] = allPackets[p]
                                     /\ first'[p] = first[p]
  PROVE  ReadingOK(p)'
BY DEF ReadingOK, Here

\* A process that goes on to its next instruction, and does not encode.
LEMMA GoesOnSending ==
  ASSUME NEW p \in Processes, SendingOK(p), Fits(p, pc[p]), Here(p).op # "exit",
         Here(p).op # "encode", exitCode[p] = "running",
         pc'[p] = pc[p] + 1, sent'[Out[p]] = sent[Out[p]],
         encoded'[Out[p]] = <<>> \/
           (Here(p).op # "write" /\ encoded'[Out[p]] = encoded[Out[p]])
  PROVE  SendingOK(p)'
<1>1. SentAt[p][pc[p] + 1] = SentAt[p][pc[p]]
  BY DEF Fits, StepFits, Here
<1>2. encoded'[Out[p]] = <<>>
  BY DEF SendingOK, Buffering, Here
<1> QED
  BY <1>1, <1>2 DEF SendingOK

\* A process that begins an instruction.
LEMMA BeginsReading ==
  ASSUME NEW p \in Processes, pc'[p] \in DOMAIN Script[p], allPackets'[p] = <<>>,
         Len(delivered'[In[p]]) = ReadAt[p][pc'[p]]
  PROVE  ReadingOK(p)'
<1>1. Fits(p, pc'[p])
  BY ScriptFits
<1>2. ReadAt[p][pc'[p]] \in Nat
  BY <1>1 DEF Fits
<1>3. Here(p)'.op = "read" => Here(p)'.want \in Nat \ {0}
  BY <1>1 DEF Fits, StepFits, Here
<1> QED
  BY <1>2, <1>3 DEF ReadingOK

\* What a call of get_packets makes of the packets it returned.  They are the next ones
\* of the conversation, no more than the instruction waits for: the program fails only
\* when the call did.
LEMMA GotScript ==
  ASSUME StreamInv, Accounts', ProcessTypeOK, ProcessTypeOK', ScriptInv,
         NEW p \in Processes, Running(p, "read"),
         NEW st, NEW packets \in Seq(Packets), st = "ok_packets" \/ packets = <<>>,
         Got(p, st, packets),
         delivered'[In[p]] = delivered[In[p]] \o packets,
         UNCHANGED <<encoded, sent>>
  PROVE  /\ SendingOK(p)' /\ ReadingOK(p)'
         /\ st = "ok_packets" => exitCode'[p] = "running"
<1> DEFINE n == pc[p]
           i == Script[p][n]
           all == IF first[p] THEN packets ELSE allPackets[p] \o packets
           A == ReadAt[p][n]
           D == Len(delivered[In[p]])
           P == Len(packets)
           B == Len(allPackets[p])
           want == i.want
<1>1. /\ exitCode[p] = "running" /\ i.op = "read" /\ Here(p) = i /\ Fits(p, n)
      /\ In[p] \in Streams /\ n \in Nat
      /\ allPackets[p] \in Seq(Packets) /\ first[p] \in BOOLEAN
      /\ DOMAIN pc = Processes /\ DOMAIN exitCode = Processes
      /\ DOMAIN allPackets = Processes /\ DOMAIN first = Processes
  <2>1. exitCode[p] = "running" /\ i.op = "read" /\ Here(p) = i
    BY DEF Running, Here
  <2>2. Fits(p, n) /\ In[p] \in Streams
    BY Counts, TheProcesses
  <2> QED
    BY <2>1, <2>2 DEF ProcessTypeOK
<1>2. /\ want \in Nat \ {0} /\ ReadAt[p][n + 1] = A + want /\ A \in Nat
      /\ \A k \in 1 .. want : Sends[Peer[p]][A + k] \in i.accepts
      /\ SendingOK(p) /\ ReadingOK(p)
  BY <1>1 DEF Fits, StepFits, ScriptInv
<1>3. /\ delivered[In[p]] \in Seq(Packets) /\ D \in Nat /\ B \in Nat /\ P \in Nat
  BY <1>1, TypesAt
<1>4. /\ D = A + B /\ B < want
      /\ \A k \in 1 .. B : allPackets[p][k] = delivered[In[p]][A + k]
      /\ first[p] => allPackets[p] = <<>>
  BY <1>1, <1>2 DEF ReadingOK
<1>5. all = allPackets[p] \o packets
  <2>1. CASE first[p]
    <3>1. <<>> \o packets = packets
      BY ConcatEmptySeq
    <3> QED
      BY <1>4, <2>1, <3>1
  <2>2. CASE ~ first[p]
    BY <2>2
  <2> QED
    BY <2>1, <2>2
<1>6. /\ all \in Seq(Packets) /\ Len(all) = B + P
      /\ \A k \in 1 .. B + P :
           all[k] = IF k <= B THEN allPackets[p][k] ELSE packets[k - B]
  <2>1. /\ allPackets[p] \o packets \in Seq(Packets)
        /\ Len(allPackets[p] \o packets) = B + P
        /\ \A k \in 1 .. B + P : (allPackets[p] \o packets)[k] =
             IF k <= B THEN allPackets[p][k] ELSE packets[k - B]
    BY <1>1, ConcatProperties
  <2> HIDE DEF all, B, P
  <2> QED
    BY <1>5, <2>1
<1>7. /\ Len(delivered'[In[p]]) = D + P
      /\ \A k \in 1 .. D + P : delivered'[In[p]][k] =
           IF k <= D THEN delivered[In[p]][k] ELSE packets[k - D]
  BY <1>1, <1>3, ConcatProperties
<1> HIDE DEF all, A, D, P, B, want, n
<1>8. /\ Len(delivered'[In[p]]) = A + Len(all)
      /\ \A k \in 1 .. Len(all) : all[k] = delivered'[In[p]][A + k]
  <2>1. Len(delivered'[In[p]]) = A + Len(all)
    BY <1>2, <1>3, <1>4, <1>6, <1>7
  <2>2. ASSUME NEW k \in 1 .. Len(all) PROVE all[k] = delivered'[In[p]][A + k]
    <3>1. CASE k <= B
      <4>1. k \in 1 .. B /\ A + k \in 1 .. D + P /\ A + k <= D /\ k \in 1 .. B + P
        BY <1>2, <1>3, <1>4, <1>6, <3>1
      <4> QED
        BY <1>4, <1>6, <1>7, <3>1, <4>1
    <3>2. CASE ~ (k <= B)
      <4>1. A + k \in 1 .. D + P /\ ~ (A + k <= D) /\ (A + k) - D = k - B
        BY <1>2, <1>3, <1>4, <1>6, <3>2
      <4> QED
        BY <1>6, <1>7, <3>2, <4>1
    <3> QED
      BY <3>1, <3>2
  <2> QED
    BY <2>1, <2>2
<1>9. /\ Len(all) \in Nat /\ Len(all) <= want
      /\ \A k \in 1 .. Len(all) : all[k] \in i.accepts
  <2>1. /\ Len(delivered'[In[p]]) <= Len(sent[In[p]])
        /\ \A k \in 1 .. Len(delivered'[In[p]]) : delivered'[In[p]][k] = sent[In[p]][k]
    BY <1>1 DEF Accounts, AccountOK
  <2>2. Len(sent[In[p]]) <= A + want /\ Len(sent[In[p]]) \in Nat
    BY <1>1, <1>2, TakingTurns, TypesAt DEF n, A
  <2>3. Len(all) \in Nat
    BY <1>3, <1>6
  <2>4. Len(all) <= want
    BY <1>2, <1>8, <2>1, <2>2, <2>3
  <2>5. \A k \in 1 .. Len(sent[In[p]]) : sent[In[p]][k] = Sends[Peer[p]][k]
    BY TheProcesses DEF ScriptInv, SendingOK
  <2>6. ASSUME NEW k \in 1 .. Len(all) PROVE all[k] \in i.accepts
    <3>1. /\ k \in 1 .. want /\ A + k \in 1 .. Len(delivered'[In[p]])
          /\ A + k \in 1 .. Len(sent[In[p]])
      BY <1>2, <1>8, <2>1, <2>2, <2>3, <2>4
    <3> QED
      BY <1>2, <1>8, <2>1, <2>5, <3>1
  <2> QED
    BY <2>3, <2>4, <2>6
<1>10. st # "ok_packets" => Len(all) < want
  <2>1. st # "ok_packets" => P = 0
    BY DEF P
  <2> QED
    BY <1>3, <1>4, <1>6, <2>1
<1>11. \/ st # "ok_packets" /\ Fail(p) /\ UNCHANGED <<pc, allPackets, first>>
       \/ /\ Len(all) = want /\ Advance(p) /\ UNCHANGED exitCode
          /\ allPackets' = [allPackets EXCEPT ![p] = <<>>]
       \/ /\ Len(all) < want /\ UNCHANGED <<pc, exitCode>>
          /\ allPackets' = [allPackets EXCEPT ![p] = all]
          /\ first' = [first EXCEPT ![p] = FALSE]
  <2>1. ~ (i.exact /\ Len(all) > want)
    BY <1>2, <1>9
  <2>2. (Len(all) >= want) <=> ~ (Len(all) < want)
    BY <1>2, <1>9
  <2>3. Len(all) >= want => Len(all) = want
    BY <1>2, <1>9
  <2> QED
    BY <1>9, <1>10, <2>1, <2>2, <2>3 DEF Got, all, want, n
<1>12. CASE st # "ok_packets" /\ Fail(p) /\ UNCHANGED <<pc, allPackets, first>>
  <2>1. exitCode'[p] = "failure"
    BY <1>1, <1>12 DEF Fail
  <2>2. SendingOK(p)'
    BY <1>2, <1>12, <2>1, StaysSending
  <2>3. Len(delivered'[In[p]]) >= A
    BY <1>2, <1>8, <1>9
  <2> QED
    BY <1>12, <2>1, <2>2, <2>3 DEF ReadingOK, A, n
<1>13. CASE /\ Len(all) = want /\ Advance(p) /\ UNCHANGED exitCode
            /\ allPackets' = [allPackets EXCEPT ![p] = <<>>]
  <2>1. pc'[p] = n + 1 /\ pc'[p] \in DOMAIN Script[p] /\ allPackets'[p] = <<>>
    BY <1>1, <1>13 DEF Advance, ProcessTypeOK, n
  <2>2. ReadingOK(p)'
    BY <1>2, <1>8, <1>13, <2>1, BeginsReading
  <2>3. SendingOK(p)'
    BY <1>1, <1>2, <1>13, <2>1, GoesOnSending DEF n
  <2> QED
    BY <1>1, <1>13, <2>2, <2>3
<1>14. CASE /\ Len(all) < want /\ UNCHANGED <<pc, exitCode>>
            /\ allPackets' = [allPackets EXCEPT ![p] = all]
            /\ first' = [first EXCEPT ![p] = FALSE]
  <2>1. /\ allPackets'[p] = all /\ ~ first'[p] /\ pc'[p] = n
        /\ exitCode'[p] = "running" /\ Here(p)' = i
    BY <1>1, <1>14 DEF ProcessTypeOK, Here, n
  <2>2. SendingOK(p)'
    BY <1>1, <1>2, <1>14, StaysSending
  <2>3. Len(delivered'[In[p]]) >= A
    BY <1>2, <1>8, <1>9
  <2>4. ReadingOK(p)'
    BY <1>1, <1>8, <1>14, <2>1, <2>3 DEF ReadingOK, A, want
  <2> QED
    BY <1>1, <1>14, <2>2, <2>4
<1> QED
  BY <1>11, <1>12, <1>13, <1>14

\* A step that leaves alone what the invariant says of a process.
LEMMA LeftAlone ==
  ASSUME NEW q \in Processes, SendingOK(q), ReadingOK(q),
         sent'[Out[q]] = sent[Out[q]], encoded'[Out[q]] = encoded[Out[q]],
         delivered'[In[q]] = delivered[In[q]],
         pc'[q] = pc[q], exitCode'[q] = exitCode[q], allPackets'[q] = allPackets[q],
         first'[q] = first[q]
  PROVE  SendingOK(q)' /\ ReadingOK(q)'
BY StaysSending, StaysReading

\* A process that goes on, and neither encodes nor reads.
LEMMA GoesOn ==
  ASSUME StreamInv, ProcessTypeOK, ScriptInv, NEW p \in Processes, exitCode[p] = "running",
         Here(p).op \notin {"encode", "read", "exit"}, Advance(p),
         encoded'[Out[p]] = <<>> \/
           (Here(p).op # "write" /\ encoded'[Out[p]] = encoded[Out[p]]),
         UNCHANGED <<sent, delivered, allPackets, first, exitCode>>
  PROVE  SendingOK(p)' /\ ReadingOK(p)'
<1>1. SendingOK(p) /\ ReadingOK(p) /\ Fits(p, pc[p])
  BY Counts DEF ScriptInv
<1>2. pc'[p] = pc[p] + 1 /\ pc'[p] \in DOMAIN Script[p]
  BY AdvanceType
<1>3. SendingOK(p)'
  BY <1>1, <1>2, GoesOnSending
<1>4. allPackets[p] = <<>> /\ Len(delivered[In[p]]) = ReadAt[p][pc[p]]
  <2>1. allPackets[p] = <<>>
    BY <1>1 DEF ReadingOK
  <2>2. Len(delivered[In[p]]) = ReadAt[p][pc[p]] + 0
    BY <1>1, <2>1 DEF ReadingOK
  <2> QED
    BY <2>1, <2>2, Counts
<1>5. ReadAt[p][pc[p] + 1] = ReadAt[p][pc[p]]
  BY <1>1 DEF Fits, StepFits, Here
<1> QED
  BY <1>2, <1>3, <1>4, <1>5, BeginsReading

LEMMA EncodeScript ==
  ASSUME StreamInv, ProcessTypeOK, ScriptInv, NEW p \in Processes, EncodePacket(p)
  PROVE  SendingOK(p)' /\ ReadingOK(p)'
<1> DEFINE n == pc[p]
           N == Len(sent[Out[p]])
           pkt == Script[p][n].pkt
<1>1. /\ exitCode[p] = "running" /\ Here(p).op = "encode" /\ Here(p) = Script[p][n]
      /\ pkt \in Packets
      /\ Encode(Out[p], pkt) /\ Advance(p)
      /\ UNCHANGED <<allPackets, first, exitCode>>
  BY DEF EncodePacket, Running, Here
<1>2. SendingOK(p) /\ ReadingOK(p) /\ Fits(p, n) /\ Out[p] \in Streams /\ In[p] \in Streams
  BY Counts, TheProcesses DEF ScriptInv
<1>3. pc'[p] = n + 1 /\ pc'[p] \in DOMAIN Script[p]
  BY <1>1, AdvanceType
<1>4. /\ pkt = Sends[p][SentAt[p][n] + 1] /\ Buffering(p, n + 1)
      /\ SentAt[p][n + 1] = SentAt[p][n] + 1
      /\ ReadAt[p][n + 1] = ReadAt[p][n]
  BY <1>1, <1>2 DEF Fits, StepFits
<1>5. /\ sent[Out[p]] \in Seq(Packets) /\ N \in Nat
      /\ sent'[Out[p]] = Append(sent[Out[p]], pkt)
      /\ delivered' = delivered
  BY <1>1, <1>2, TypesAt DEF Encode, StreamTypeOK, readerVars
<1>6. /\ Len(sent'[Out[p]]) = N + 1
      /\ \A i \in 1 .. N : sent'[Out[p]][i] = sent[Out[p]][i]
      /\ sent'[Out[p]][N + 1] = pkt
  BY <1>1, <1>5, AppendProperties
<1>7. /\ N = SentAt[p][n]
      /\ \A i \in 1 .. N : sent[Out[p]][i] = Sends[p][i]
  BY <1>2 DEF SendingOK
<1>8. SendingOK(p)'
  <2>1. ASSUME NEW i \in 1 .. N + 1 PROVE sent'[Out[p]][i] = Sends[p][i]
    <3>1. i \in 1 .. N \/ i = N + 1
      <4> HIDE DEF N
      <4> QED
        BY <1>5
    <3> QED
      BY <1>4, <1>6, <1>7, <3>1
  <2> QED
    BY <1>3, <1>4, <1>6, <1>7, <2>1 DEF SendingOK
<1>9. allPackets[p] = <<>> /\ Len(delivered[In[p]]) = ReadAt[p][n]
  <2>1. allPackets[p] = <<>>
    BY <1>1, <1>2 DEF ReadingOK
  <2>2. Len(delivered[In[p]]) = ReadAt[p][n] + 0
    BY <1>1, <1>2, <2>1 DEF ReadingOK
  <2> QED
    BY <2>1, <2>2, Counts
<1>10. ReadingOK(p)'
  BY <1>1, <1>3, <1>4, <1>5, <1>9, BeginsReading
<1> QED
  BY <1>8, <1>10

LEMMA WriteScript ==
  ASSUME StreamInv, ProcessTypeOK, ScriptInv, NEW p \in Processes, Write(p)
  PROVE  SendingOK(p)' /\ ReadingOK(p)'
<1>1. PICK k \in 1 .. Len(encoded[Out[p]]) :
        /\ Transfer(Out[p], k)
        /\ IF k = Len(encoded[Out[p]]) THEN Advance(p) ELSE UNCHANGED pc
  BY DEF Write
<1>2. /\ exitCode[p] = "running" /\ Here(p).op = "write"
      /\ UNCHANGED <<sent, delivered, allPackets, first, exitCode>>
  BY <1>1 DEF Write, Running, Here, Transfer, readerVars, historyVars
<1>3. /\ encoded[Out[p]] \in Seq(Byte)
      /\ encoded'[Out[p]] = SubSeq(encoded[Out[p]], k + 1, Len(encoded[Out[p]]))
  BY <1>1, TheProcesses, TypesAt DEF Transfer, StreamTypeOK
<1>4. CASE k = Len(encoded[Out[p]])
  <2>1. encoded'[Out[p]] = <<>>
    BY <1>3, <1>4
  <2> QED
    BY <1>1, <1>2, <1>4, <2>1, GoesOn
<1>5. CASE k # Len(encoded[Out[p]])
  <2>1. SendingOK(p) /\ ReadingOK(p)
    BY DEF ScriptInv
  <2>2. SendingOK(p)'
    BY <1>1, <1>2, <1>5, <2>1 DEF SendingOK, Buffering, Here
  <2> QED
    BY <1>1, <1>2, <1>5, <2>1, <2>2, StaysReading
<1> QED
  BY <1>4, <1>5

\* What a call of get_packets is, to the process that makes it.
LEMMA ACall ==
  ASSUME StreamInv, NEW p \in Processes, GetPackets(p)
  PROVE  /\ Running(p, "read") /\ UNCHANGED <<encoded, sent, connected, refused>>
         /\ \A q \in Processes \ {p} : delivered'[In[q]] = delivered[In[q]]
         /\ \/ UNCHANGED procVars /\ delivered' = delivered
            \/ \E st : \E packets \in Seq(Packets) :
                 /\ Got(p, st, packets)
                 /\ delivered'[In[p]] = delivered[In[p]] \o packets
                 /\ \/ st = "ok_packets"
                    \/ /\ packets = <<>>
                       /\ ReturnInvalid(In[p]) \/ ReadClosed(In[p]) \/ ReadError(In[p])
<1> DEFINE d == In[p]
<1>1. /\ d \in Streams /\ StreamTypeOK /\ retval[d] \in Seq(Packets)
      /\ delivered[d] \in Seq(Packets)
      /\ \A q \in Processes \ {p} : In[q] # d
  BY TheProcesses, TypesAt
<1>2. Running(p, "read") /\ UNCHANGED <<connected, refused>>
  BY DEF GetPackets
<1>3. ASSUME (\E k \in 1 .. InBufferLen[d] : ReadBytes(d, k)) \/ ParseComplete(d),
             UNCHANGED procVars
      PROVE  UNCHANGED <<encoded, sent, delivered>>
  BY <1>3 DEF ReadBytes, ParseComplete, historyVars
<1>4. ASSUME ReturnPackets(d)
      PROVE  /\ UNCHANGED <<encoded, sent>>
             /\ delivered' = [delivered EXCEPT ![d] = @ \o retval[d]]
  BY <1>4 DEF ReturnPackets, historyVars
<1>5. ASSUME ReturnInvalid(d) \/ ReadClosed(d) \/ ReadError(d)
      PROVE  UNCHANGED <<encoded, sent, delivered>>
  BY <1>5 DEF ReturnInvalid, ReadClosed, ReadError, historyVars
<1>6. <<>> \in Seq(Packets) /\ delivered[d] \o <<>> = delivered[d]
  BY <1>1, ConcatEmptySeq
<1>7. \/ /\ (\E k \in 1 .. InBufferLen[d] : ReadBytes(d, k)) \/ ParseComplete(d)
         /\ UNCHANGED procVars
      \/ ReturnPackets(d) /\ Got(p, "ok_packets", retval[d])
      \/ ReturnInvalid(d) /\ Got(p, "protocol_error", <<>>)
      \/ ReadClosed(d) /\ Got(p, "closed", <<>>)
      \/ ReadError(d) /\ Got(p, "socket_error", <<>>)
  BY DEF GetPackets
<1>8. CASE ReturnPackets(d) /\ Got(p, "ok_packets", retval[d])
  <2>1. delivered'[d] = delivered[d] \o retval[d]
    BY <1>1, <1>4, <1>8 DEF StreamTypeOK
  <2>2. \A q \in Processes \ {p} : delivered'[In[q]] = delivered[In[q]]
    BY <1>1, <1>4, <1>8, TheOther DEF StreamTypeOK
  <2> QED
    BY <1>1, <1>2, <1>4, <1>8, <2>1, <2>2
<1>9. ASSUME NEW st, Got(p, st, <<>>), ReturnInvalid(d) \/ ReadClosed(d) \/ ReadError(d)
      PROVE  \E packets \in Seq(Packets) :
                 /\ Got(p, st, packets)
                 /\ delivered'[In[p]] = delivered[In[p]] \o packets
                 /\ packets = <<>>
                 /\ ReturnInvalid(In[p]) \/ ReadClosed(In[p]) \/ ReadError(In[p])
  BY <1>5, <1>6, <1>9
<1> QED
  BY <1>2, <1>3, <1>5, <1>7, <1>8, <1>9

\* What the end of a process does to its two streams.
LEMMA CloseAllDoes ==
  ASSUME StreamTypeOK, NEW p \in Processes, CloseAll(p)
  PROVE  /\ writeEnd[Out[p]] = "open"
         /\ writeEnd'[Out[p]] = IF wire[In[p]] = <<>> /\ ~ SettingUp(p)
                               THEN "closed" ELSE "reset"
         /\ encoded'[Out[p]] = <<>> /\ wire'[Out[p]] = wire[Out[p]]
         /\ reader'[Out[p]] = reader[Out[p]]
         /\ reader'[In[p]] = "gone" /\ encoded'[In[p]] = encoded[In[p]]
         /\ writeEnd'[In[p]] = writeEnd[In[p]]
         /\ UNCHANGED <<incomingBuffer, retval, status, delivered, sent, taken, start,
                        stream>>
<1> DEFINE how == IF wire[In[p]] = <<>> /\ ~ SettingUp(p) THEN "closed" ELSE "reset"
<1>1. Out[p] \in Streams /\ In[p] \in Streams /\ Out[p] # In[p]
  BY TheProcesses
<1>2. EndProcess({Out[p]}, {In[p]}, how)
  BY DEF CloseAll
<1> HIDE DEF how
<1>3. /\ writeEnd[Out[p]] = "open" /\ writeEnd'[Out[p]] = how
      /\ encoded'[Out[p]] = <<>> /\ wire'[Out[p]] = wire[Out[p]]
      /\ reader'[Out[p]] = reader[Out[p]]
  BY <1>1, <1>2 DEF EndProcess
<1>4. /\ reader'[In[p]] = "gone" /\ encoded'[In[p]] = encoded[In[p]]
      /\ writeEnd'[In[p]] = writeEnd[In[p]]
      /\ UNCHANGED <<incomingBuffer, retval, status, delivered, sent, taken, start,
                     stream>>
  BY <1>1, <1>2 DEF EndProcess, historyVars
<1> QED
  BY <1>3, <1>4 DEF how

LEMMA ScriptStep ==
  StreamInv /\ Accounts' /\ ProcessTypeOK /\ ProcessTypeOK' /\ ScriptInv /\ [Next]_vars
    => ScriptInv'
<1> SUFFICES ASSUME StreamInv, Accounts', ProcessTypeOK, ProcessTypeOK', ScriptInv,
                    [Next]_vars
             PROVE  ScriptInv'
  OBVIOUS
<1> USE DEF ProcessTypeOK
<1>1. \A q \in Processes : SendingOK(q) /\ ReadingOK(q)
  BY DEF ScriptInv
<1>2. StreamTypeOK
  BY DEF StreamInv
<1>3. CASE UNCHANGED vars
  BY <1>1, <1>3, LeftAlone DEF vars, procVars, streamVars, readerVars, historyVars, ScriptInv
<1>4. ASSUME NEW p \in Processes, SendingOK(p)' /\ ReadingOK(p)',
             \A q \in Processes \ {p} :
               /\ sent'[Out[q]] = sent[Out[q]] /\ encoded'[Out[q]] = encoded[Out[q]]
               /\ delivered'[In[q]] = delivered[In[q]]
               /\ pc'[q] = pc[q] /\ exitCode'[q] = exitCode[q]
               /\ allPackets'[q] = allPackets[q] /\ first'[q] = first[q]
      PROVE  ScriptInv'
  BY <1>1, <1>4, LeftAlone DEF ScriptInv
<1>5. ASSUME Listen \/ Accept \/ Connect PROVE ScriptInv'
  <2>1. PICK p \in Processes :
          /\ exitCode[p] = "running" /\ Here(p).op \in {"listen", "accept", "connect"}
          /\ Advance(p) /\ UNCHANGED <<streamVars, allPackets, first, exitCode>>
    BY <1>5 DEF Listen, Accept, Connect, Running, Here, Processes
  <2>2. UNCHANGED <<sent, encoded, delivered>>
    BY <2>1 DEF streamVars, readerVars, historyVars
  <2>3. SendingOK(p)' /\ ReadingOK(p)'
    BY <2>1, <2>2, GoesOn
  <2> QED
    BY <1>4, <2>1, <2>2, <2>3 DEF Advance
<1>6. ASSUME NEW p \in Processes, (p = Client /\ ConnectRefused) \/ SetupFails(p)
      PROVE  ScriptInv'
  <2>1. /\ exitCode' = [exitCode EXCEPT ![p] = "failure"]
        /\ UNCHANGED <<streamVars, pc, allPackets, first>>
    BY <1>6 DEF ConnectRefused, SetupFails, Fail
  <2>2. UNCHANGED <<sent, encoded, delivered>>
    BY <2>1 DEF streamVars, readerVars, historyVars
  <2>3. SendingOK(p)' /\ ReadingOK(p)'
    BY <1>1, <2>1, <2>2, StaysSending, StaysReading
  <2> QED
    BY <1>4, <2>1, <2>2, <2>3
<1>7. ASSUME NEW p \in Processes, EncodePacket(p) PROVE ScriptInv'
  <2>1. SendingOK(p)' /\ ReadingOK(p)'
    BY <1>7, EncodeScript
  <2>2. PICK pkt : Encode(Out[p], pkt)
    BY <1>7 DEF EncodePacket
  <2>3. \A q \in Processes \ {p} :
          sent'[Out[q]] = sent[Out[q]] /\ encoded'[Out[q]] = encoded[Out[q]]
    BY <1>2, <2>2, TheOther, ZenonT(40) DEF Encode, StreamTypeOK
  <2> QED
    BY <1>4, <1>7, <2>1, <2>2, <2>3 DEF EncodePacket, Encode, readerVars, Advance
<1>8. ASSUME NEW p \in Processes, Write(p) PROVE ScriptInv'
  <2>1. SendingOK(p)' /\ ReadingOK(p)'
    BY <1>8, WriteScript
  <2>2. \A q \in Processes \ {p} : encoded'[Out[q]] = encoded[Out[q]]
    BY <1>2, <1>8, TheOther DEF Write, Transfer, StreamTypeOK
  <2> QED
    BY <1>4, <1>8, <2>1, <2>2 DEF Write, Transfer, readerVars, historyVars, Advance
<1>9. ASSUME NEW p \in Processes, GetPackets(p) PROVE ScriptInv'
  <2>1. CASE UNCHANGED procVars /\ delivered' = delivered
    BY <1>1, <1>9, <2>1, ACall, LeftAlone DEF procVars, ScriptInv
  <2>2. ASSUME NEW st, NEW packets \in Seq(Packets), Got(p, st, packets),
               delivered'[In[p]] = delivered[In[p]] \o packets,
               st = "ok_packets" \/ packets = <<>>
        PROVE  ScriptInv'
    <3>1. SendingOK(p)' /\ ReadingOK(p)'
      BY <1>9, <2>2, ACall, GotScript
    <3>2. \A q \in Processes \ {p} :
            /\ pc'[q] = pc[q] /\ exitCode'[q] = exitCode[q]
            /\ allPackets'[q] = allPackets[q] /\ first'[q] = first[q]
      BY <2>2 DEF Got, Fail, Advance
    <3> QED
      BY <1>4, <1>9, <3>1, <3>2, ACall
  <2> QED
    BY <1>9, <2>1, <2>2, ACall
<1>10. ASSUME NEW p \in Processes, Exit(p) \/ ExitFailure(p) \/ Killed(p)
       PROVE  ScriptInv'
  <2>1. /\ CloseAll(p) /\ UNCHANGED <<pc, allPackets, first>>
        /\ exitCode'[p] # "running"
        /\ \A q \in Processes \ {p} : exitCode'[q] = exitCode[q]
    BY <1>10 DEF Exit, ExitFailure, Killed, procVars
  <2>2. /\ UNCHANGED <<sent, delivered>>
        /\ encoded'[Out[p]] = <<>> /\ encoded'[In[p]] = encoded[In[p]]
    BY <1>2, <2>1, CloseAllDoes
  <2>3. SendingOK(p)' /\ ReadingOK(p)'
    BY <1>1, <2>1, <2>2, StaysSending, StaysReading
  <2>4. \A q \in Processes \ {p} : encoded'[Out[q]] = encoded[Out[q]]
    BY <2>2, TheOther
  <2> QED
    BY <1>4, <2>1, <2>2, <2>3, <2>4
<1>11. ASSUME NEW p \in Processes, Refuse(p) PROVE ScriptInv'
  BY <1>1, <1>11, LeftAlone
     DEF Refuse, ResetBy, procVars, readerVars, historyVars, ScriptInv
<1> QED
  BY <1>3, <1>5, <1>6, <1>7, <1>8, <1>9, <1>10, <1>11 DEF Next, Step

----------------------------------------------------------------------------
(***************************************************************************)
(* The ends of the streams.                                                 *)
(***************************************************************************)
LEMMA EndsStable ==
  ASSUME NEW q \in Processes, EndsOK(q),
         writeEnd'[Out[q]] = "open" <=> writeEnd[Out[q]] = "open",
         reader'[In[q]] = "gone" <=> reader[In[q]] = "gone",
         refused'[In[q]] => refused[In[q]] \/ reader[In[q]] = "gone",
         exitCode'[q] = "running" => exitCode[q] = "running"
  PROVE  EndsOK(q)'
BY DEF EndsOK

LEMMA LeavingStable ==
  ASSUME NEW q \in Processes, LeavingOK(q),
         exitCode'[q] = "zero" =>
           /\ exitCode[q] = "zero" /\ pc'[q] = pc[q]
           /\ writeEnd[Out[q]] = "closed" => writeEnd'[Out[q]] = "closed"
           /\ ~ refused[In[q]] => ~ refused'[In[q]]
           /\ \/ reader'[Out[q]] = "gone"
              \/ /\ reader[Out[q]] # "gone"
                 /\ writeEnd[Out[q]] = "closed" =>
                      Held(Out[q])' = Held(Out[q]) /\ stream'[Out[q]] = stream[Out[q]]
  PROVE  LeavingOK(q)'
BY DEF LeavingOK, Here

\* The bytes of a stream that a step leaves alone.
LEMMA HeldStable ==
  ASSUME NEW d \in Streams,
         encoded'[d] = encoded[d], wire'[d] = wire[d],
         incomingBuffer'[d] = incomingBuffer[d], taken'[d] = taken[d],
         sent'[d] = sent[d], start'[d] = start[d], stream'[d] = stream[d]
  PROVE  Held(d)' = Held(d)
BY DEF Held, At, EndOf

\* A process that got to its end, or is about to, has read every packet that the other
\* has to send; so the other has sent them all.
LEMMA AllRead ==
  ASSUME StreamInv, ProcessTypeOK, ScriptInv, NEW p \in Processes, Here(p).op = "exit"
  PROVE  /\ Len(delivered[In[p]]) = Len(Sends[Peer[p]])
         /\ Len(sent[In[p]]) = Len(Sends[Peer[p]])
         /\ Len(sent[Out[p]]) = Len(Sends[p])
         /\ ~ Pending(In[p])
         /\ encoded[Out[p]] = <<>>
<1>1. /\ ReadAt[p][pc[p]] = Len(Sends[Peer[p]]) /\ SentAt[p][pc[p]] = Len(Sends[p])
      /\ Len(sent[Out[p]]) = SentAt[p][pc[p]]
      /\ Len(delivered[In[p]]) \in Nat
      /\ ReadAt[p][pc[p]] \in Nat
      /\ ReadAt[p][pc[p]] <= Len(delivered[In[p]])
      /\ Len(delivered[In[p]]) <= Len(sent[In[p]])
      /\ Len(sent[In[p]]) = SentAt[Peer[p]][pc[Peer[p]]]
  BY Counts DEF Fits, Here
<1>2. SentAt[Peer[p]][pc[Peer[p]]] \in 0 .. Len(Sends[Peer[p]])
  BY TheProcesses, Counts
<1>3. /\ Len(delivered[In[p]]) = Len(Sends[Peer[p]])
      /\ Len(sent[In[p]]) = Len(Sends[Peer[p]])
  BY <1>1, <1>2
<1>4. ~ Pending(In[p])
  BY <1>3, TheProcesses, Accounted DEF Accounts, AccountOK
<1>5. encoded[Out[p]] = <<>>
  BY DEF ScriptInv, SendingOK, Buffering, Here
<1> QED
  BY <1>1, <1>3, <1>4, <1>5

\* No step opens an end again, or makes a reader come back.
LEMMA EndsStep ==
  StreamInv /\ ProcessTypeOK /\ (\A p \in Processes : EndsOK(p)) /\ [Next]_vars
    => \A p \in Processes : EndsOK(p)'
<1> SUFFICES ASSUME StreamInv, ProcessTypeOK, \A p \in Processes : EndsOK(p), [Next]_vars
             PROVE  \A p \in Processes : EndsOK(p)'
  OBVIOUS
<1>1. StreamTypeOK
  BY DEF StreamInv
<1>2. ASSUME UNCHANGED <<writeEnd, reader, exitCode, refused>>
      PROVE  \A p \in Processes : EndsOK(p)'
  BY <1>2 DEF EndsOK
<1>3. CASE UNCHANGED vars
  BY <1>2, <1>3 DEF vars, procVars, streamVars, kernelVars, readerVars
<1>4. CASE Listen \/ Accept \/ Connect
  BY <1>2, <1>4 DEF Listen, Accept, Connect, streamVars, kernelVars, readerVars
<1>5. ASSUME NEW p \in Processes, (p = Client /\ ConnectRefused) \/ SetupFails(p)
      PROVE  \A q \in Processes : EndsOK(q)'
  <2>1. /\ UNCHANGED <<writeEnd, reader, refused>>
        /\ exitCode' = [exitCode EXCEPT ![p] = "failure"]
    BY <1>5 DEF ConnectRefused, SetupFails, Fail, streamVars, kernelVars, readerVars
  <2> QED
    BY <2>1, EndsStable DEF ProcessTypeOK
<1>6. ASSUME NEW p \in Processes, EncodePacket(p) PROVE \A q \in Processes : EndsOK(q)'
  BY <1>2, <1>6 DEF EncodePacket, Encode, kernelVars, readerVars
<1>7. ASSUME NEW p \in Processes, Write(p) PROVE \A q \in Processes : EndsOK(q)'
  <2>1. /\ UNCHANGED <<writeEnd, reader, exitCode>>
        /\ refused' = [refused EXCEPT ![Out[p]] = @ \/ reader[Out[p]] = "gone"]
    BY <1>7 DEF Write, Transfer, readerVars
  <2>2. \A d \in Streams : refused'[d] => refused[d] \/ reader[d] = "gone"
    BY <2>1, TheProcesses DEF ProcessTypeOK
  <2>3. \A q \in Processes : In[q] \in Streams
    BY TheProcesses
  <2> QED
    BY <2>1, <2>2, <2>3, EndsStable
<1>8. ASSUME NEW p \in Processes, GetPackets(p) PROVE \A q \in Processes : EndsOK(q)'
  <2> DEFINE d == In[p]
  <2>1. d \in Streams
    BY TheProcesses
  <2>2. /\ \/ \E k \in 1 .. InBufferLen[d] : ReadBytes(d, k)
           \/ ParseComplete(d) \/ ReturnPackets(d) \/ ReturnInvalid(d)
           \/ ReadClosed(d) \/ ReadError(d)
        /\ UNCHANGED refused
    BY <1>8 DEF GetPackets
  <2>3. \A e \in Streams : /\ writeEnd'[e] = "open" <=> writeEnd[e] = "open"
                           /\ reader'[e] = "gone" <=> reader[e] = "gone"
    <3>1. ASSUME NEW k, ReadBytes(d, k)
          PROVE  /\ UNCHANGED writeEnd /\ reader[d] = "idle"
                 /\ reader' = [reader EXCEPT ![d] = "parsing"]
      BY <3>1 DEF ReadBytes
    <3>2. ASSUME ReturnPackets(d) \/ ReturnInvalid(d)
          PROVE  /\ UNCHANGED writeEnd /\ reader[d] = "parsing"
                 /\ reader' = [reader EXCEPT ![d] = "idle"]
      BY <3>2 DEF ReturnPackets, ReturnInvalid, kernelVars
    <3>3. ASSUME ParseComplete(d) \/ ReadClosed(d) PROVE UNCHANGED <<writeEnd, reader>>
      BY <3>3 DEF ParseComplete, ReadClosed, kernelVars
    <3>4. ASSUME ReadError(d)
          PROVE  /\ UNCHANGED reader /\ writeEnd[d] = "reset"
                 /\ writeEnd' = [writeEnd EXCEPT ![d] = "closed"]
      BY <3>4 DEF ReadError
    <3> HIDE DEF d
    <3> QED
      BY <1>1, <2>1, <2>2, <3>1, <3>2, <3>3, <3>4 DEF StreamTypeOK
  <2>4. exitCode' = exitCode \/ exitCode' = [exitCode EXCEPT ![p] = "failure"]
    BY <1>1, <1>8, GetPacketsOwn
  <2>5. \A q \in Processes : exitCode'[q] = "running" => exitCode[q] = "running"
    BY <2>4 DEF ProcessTypeOK
  <2>6. \A q \in Processes : In[q] \in Streams /\ Out[q] \in Streams
    BY TheProcesses
  <2> QED
    BY <2>2, <2>3, <2>5, <2>6, EndsStable
<1>9. ASSUME NEW p \in Processes, Exit(p) \/ ExitFailure(p) \/ Killed(p)
      PROVE  \A q \in Processes : EndsOK(q)'
  <2>1. /\ CloseAll(p) /\ UNCHANGED refused /\ exitCode'[p] # "running"
        /\ \A q \in Processes \ {p} : exitCode'[q] = exitCode[q]
    BY <1>9 DEF Exit, ExitFailure, Killed, procVars, ProcessTypeOK
  <2>2. EndsOK(p)'
    BY <1>1, <2>1, CloseAllDoes DEF EndsOK
  <2>3. ASSUME NEW q \in Processes \ {p} PROVE EndsOK(q)'
    BY <1>1, <2>1, TheOther, CloseAllDoes, EndsStable
  <2> QED
    BY <2>2, <2>3
<1>10. ASSUME NEW p \in Processes, Refuse(p) PROVE \A q \in Processes : EndsOK(q)'
  <2>1. /\ UNCHANGED <<reader, exitCode>> /\ In[p] \in Streams /\ Out[p] \in Streams
        /\ writeEnd' = [writeEnd EXCEPT ![In[p]] = "reset"] /\ writeEnd[In[p]] = "closed"
        /\ refused' = [refused EXCEPT ![Out[p]] = FALSE]
    BY <1>10, TheProcesses DEF Refuse, ResetBy, procVars, readerVars
  <2>2. \A d \in Streams : /\ writeEnd'[d] = "open" <=> writeEnd[d] = "open"
                           /\ refused'[d] => refused[d]
    BY <1>1, <2>1 DEF StreamTypeOK, ProcessTypeOK
  <2>3. \A q \in Processes : In[q] \in Streams /\ Out[q] \in Streams
    BY TheProcesses
  <2> QED
    BY <2>1, <2>2, <2>3, EndsStable
<1> QED
  BY <1>3, <1>4, <1>5, <1>6, <1>7, <1>8, <1>9, <1>10 DEF Next, Step

\* Once a process ended, with whatever code, it is where it ended; only the kernel of one
\* that failed has still to close its connection.
LEMMA EndedStays ==
  ASSUME ProcessTypeOK, [Next]_vars, NEW p \in Processes, exitCode[p] # "running"
  PROVE  /\ pc'[p] = pc[p]
         /\ exitCode'[p] = exitCode[p] \/ (exitCode[p] = "failure" /\ exitCode'[p] = "killed")
<1> USE DEF ProcessTypeOK
<1>1. CASE UNCHANGED vars
  BY <1>1 DEF vars, procVars
<1>2. CASE Listen \/ Accept \/ Connect \/ ConnectRefused
  BY <1>2 DEF Listen, Accept, Connect, ConnectRefused, Running, Advance, Fail, Processes
<1>3. ASSUME NEW q \in Processes, SetupFails(q) \/ EncodePacket(q) \/ Write(q)
      PROVE  UNCHANGED <<pc[p], exitCode[p]>>
  BY <1>3 DEF SetupFails, EncodePacket, Write, Running, Advance, Fail
<1>4. ASSUME NEW q \in Processes, GetPackets(q)
      PROVE  UNCHANGED <<pc[p], exitCode[p]>>
  <2>1. exitCode[q] = "running"
    BY <1>4 DEF GetPackets, Running
  <2>2. UNCHANGED procVars \/ \E st, packets : Got(q, st, packets)
    BY <1>4 DEF GetPackets
  <2>3. ASSUME NEW st, NEW packets, Got(q, st, packets)
        PROVE  UNCHANGED <<pc[p], exitCode[p]>>
    BY <2>1, <2>3 DEF Got, Advance, Fail
  <2> QED
    BY <2>2, <2>3 DEF procVars
<1>5. ASSUME NEW q \in Processes, Exit(q)
      PROVE  UNCHANGED <<pc[p], exitCode[p]>>
  BY <1>5 DEF Exit, Running
<1>6. ASSUME NEW q \in Processes, ExitFailure(q) \/ Refuse(q)
      PROVE  UNCHANGED <<pc[p], exitCode[p]>>
  BY <1>6 DEF ExitFailure, Refuse, procVars
<1>7. ASSUME NEW q \in Processes, Killed(q)
      PROVE  /\ pc'[p] = pc[p]
             /\ exitCode'[p] = exitCode[p]
                  \/ (exitCode[p] = "failure" /\ exitCode'[p] = "killed")
  BY <1>7 DEF Killed
<1> QED
  BY <1>1, <1>2, <1>3, <1>4, <1>5, <1>6, <1>7 DEF Next, Step

\* A process that gets to its end loses nothing, and stays out of reach of a reset.
LEMMA LeavingStep ==
  StreamInv /\ ProcessTypeOK /\ ScriptInv /\ EndInv /\ [Next]_vars
    => \A p \in Processes : LeavingOK(p)'
<1> SUFFICES ASSUME StreamInv, ProcessTypeOK, ScriptInv, EndInv, [Next]_vars,
                    NEW p \in Processes
             PROVE  LeavingOK(p)'
  OBVIOUS
<1> DEFINE q == Peer[p]
<1>1. /\ StreamTypeOK /\ EndsOK(p) /\ LeavingOK(p)
      /\ q \in Processes \ {p} /\ Processes = {p, q} /\ Out[q] = In[p] /\ In[q] = Out[p]
      /\ Out[p] \in Streams /\ In[p] \in Streams /\ Out[p] # In[p]
  BY TheProcesses DEF StreamInv, EndInv
<1>2. ASSUME exitCode[p] = "zero"
      PROVE  /\ Here(p).op = "exit" /\ encoded[Out[q]] = <<>>
             /\ writeEnd[Out[p]] = "closed" /\ ~ refused[In[p]]
  BY <1>1, <1>2, AllRead DEF LeavingOK, Pending
<1>3. CASE exitCode[p] = "running"
  <2>1. CASE exitCode'[p] # "zero"
    BY <2>1 DEF LeavingOK
  <2>2. CASE exitCode'[p] = "zero"
    <3>1. Exit(p)
      <4>1. ASSUME UNCHANGED exitCode PROVE FALSE
        BY <1>3, <2>2, <4>1
      <4>2. ASSUME NEW r \in Processes, exitCode' = [exitCode EXCEPT ![r] = "failure"]
            PROVE  FALSE
        BY <1>3, <2>2, <4>2 DEF ProcessTypeOK
      <4>3. ASSUME NEW r \in Processes, exitCode' = [exitCode EXCEPT ![r] = "killed"]
            PROVE  FALSE
        BY <1>3, <2>2, <4>3 DEF ProcessTypeOK
      <4>4. ASSUME NEW r \in Processes, Exit(r) PROVE r = p
        BY <1>3, <2>2, <4>4 DEF Exit, ProcessTypeOK
      <4>5. ASSUME Listen \/ Accept \/ Connect \/ UNCHANGED vars PROVE UNCHANGED exitCode
        BY <4>5 DEF Listen, Accept, Connect, vars, procVars
      <4>6. ASSUME NEW r \in Processes, EncodePacket(r) \/ Write(r) \/ ExitFailure(r) \/ Refuse(r)
            PROVE  UNCHANGED exitCode
        BY <4>6 DEF EncodePacket, Write, ExitFailure, Refuse, procVars
      <4>7. ASSUME NEW r \in Processes, (r = Client /\ ConnectRefused) \/ SetupFails(r)
            PROVE  exitCode' = [exitCode EXCEPT ![r] = "failure"]
        BY <4>7 DEF ConnectRefused, SetupFails, Fail
      <4>8. ASSUME NEW r \in Processes, Killed(r)
            PROVE  exitCode' = [exitCode EXCEPT ![r] = "killed"]
        BY <4>8 DEF Killed
      <4> QED
        BY <1>1, <4>1, <4>2, <4>3, <4>4, <4>5, <4>6, <4>7, <4>8, GetPacketsOwn DEF Next, Step
    <3>2. /\ Here(p).op = "exit" /\ CloseAll(p) /\ UNCHANGED <<pc, refused>>
      BY <3>1 DEF Exit, Running, Here
    <3>3. wire[In[p]] = <<>> /\ ~ SettingUp(p) /\ encoded[Out[p]] = <<>>
      BY <3>2, AllRead DEF Pending, SettingUp, Here
    <3>4. /\ writeEnd'[Out[p]] = "closed" /\ encoded'[Out[p]] = encoded[Out[p]]
          /\ reader'[Out[p]] = reader[Out[p]] /\ wire'[Out[p]] = wire[Out[p]]
          /\ UNCHANGED <<incomingBuffer, taken, sent, start, stream>>
      BY <1>1, <3>2, <3>3, CloseAllDoes
    <3>5. Held(Out[p])' = Held(Out[p])
      BY <1>1, <3>4, HeldStable
    <3>6. ~ refused[In[p]] /\ writeEnd[Out[p]] = "open"
      BY <1>1, <1>3 DEF EndsOK
    <3>7. reader[Out[p]] # "gone" => Held(Out[p]) = Len(stream[Out[p]])
      BY <1>1, <3>6, TypesAt DEF BytesOK
    <3> QED
      BY <3>2, <3>4, <3>5, <3>6, <3>7 DEF LeavingOK, Here
  <2> QED
    BY <2>1, <2>2
<1>4. CASE exitCode[p] \in {"failure", "killed"}
  <2>1. exitCode'[p] # "zero"
    BY <1>4, EndedStays
  <2> QED
    BY <2>1 DEF LeavingOK
<1>5. CASE exitCode[p] = "zero"
  <2>1. pc'[p] = pc[p]
    BY <1>5, EndedStays
  <2> DEFINE d == Out[p]
             Keeps == /\ writeEnd'[d] = "closed" /\ ~ refused'[In[p]]
                      /\ \/ reader'[d] = "gone"
                         \/ reader[d] # "gone" /\ Held(d)' = Held(d) /\ stream'[d] = stream[d]
  <2>2. SUFFICES Keeps
    BY <1>1, <1>5, <2>1, LeavingStable
  <2>3. /\ d \in Streams /\ StreamTypeOK /\ In[q] = d
        /\ writeEnd[d] = "closed" /\ ~ refused[In[p]]
    BY <1>1, <1>2, <1>5
  <2>4. ASSUME UNCHANGED streamVars, UNCHANGED refused PROVE Keeps
    <3>1. UNCHANGED <<encoded, wire, writeEnd, incomingBuffer, reader, taken, sent, start,
                      stream>>
      BY <2>4 DEF streamVars, kernelVars, readerVars, historyVars
    <3>2. Held(d)' = Held(d)
      BY <2>3, <3>1, HeldStable
    <3> QED
      BY <2>3, <2>4, <3>1, <3>2
  <2>5. CASE UNCHANGED vars
    BY <2>4, <2>5 DEF vars
  <2>6. CASE Listen \/ Accept \/ Connect \/ ConnectRefused \/ \E r \in Processes : SetupFails(r)
    BY <2>4, <2>6 DEF Listen, Accept, Connect, ConnectRefused, SetupFails
  <2>7. ASSUME NEW r \in Processes, EncodePacket(r) PROVE Keeps
    <3>1. r = q
      BY <1>1, <1>5, <2>7 DEF EncodePacket, Running
    <3>2. PICK pkt : Encode(In[p], pkt)
      BY <1>1, <2>7, <3>1 DEF EncodePacket
    <3>3. /\ encoded'[d] = encoded[d] /\ sent'[d] = sent[d] /\ start'[d] = start[d]
          /\ stream'[d] = stream[d] /\ UNCHANGED <<wire, writeEnd, incomingBuffer, reader, taken>>
      BY <1>1, <3>2 DEF Encode, StreamTypeOK, kernelVars, readerVars
    <3>4. Held(d)' = Held(d)
      BY <2>3, <3>3, HeldStable
    <3> QED
      BY <2>3, <2>7, <3>3, <3>4 DEF EncodePacket
  <2>8. ASSUME NEW r \in Processes, Write(r) PROVE Keeps
    <3>1. r = q
      BY <1>1, <1>5, <2>8 DEF Write, Running
    <3>2. encoded[Out[q]] # <<>>
      BY <2>8, <3>1 DEF Write
    <3> QED
      BY <1>2, <1>5, <3>2
  <2>9. ASSUME NEW r \in Processes, GetPackets(r) PROVE Keeps
    <3>1. r = q
      BY <1>1, <1>5, <2>9 DEF GetPackets, Running
    <3>2. /\ UNCHANGED refused
          /\ \/ \E k \in 1 .. InBufferLen[d] : ReadBytes(d, k)
             \/ ParseComplete(d) \/ ReturnPackets(d) \/ ReturnInvalid(d)
             \/ ReadClosed(d) \/ ReadError(d)
      BY <1>1, <2>9, <3>1 DEF GetPackets
    <3>3. ASSUME NEW k \in 1 .. InBufferLen[d], ReadBytes(d, k) PROVE Keeps
      <4>1. Held(d)' = Held(d)
        BY <2>3, <3>3, ReadBytesOK
      <4>2. UNCHANGED <<writeEnd, stream>> /\ reader[d] = "idle"
        BY <3>3 DEF ReadBytes, historyVars
      <4> QED
        BY <2>3, <3>2, <4>1, <4>2
    <3>4. ASSUME ParseComplete(d) PROVE Keeps
      <4>1. Held(d)' = Held(d)
        BY <2>3, <3>4, ParseCompleteOK
      <4>2. UNCHANGED <<writeEnd, stream>> /\ reader[d] = "parsing"
        BY <3>4 DEF ParseComplete, kernelVars
      <4> QED
        BY <2>3, <3>2, <4>1, <4>2
    <3>5. ASSUME ReturnPackets(d) \/ ReturnInvalid(d) \/ ReadClosed(d) PROVE Keeps
      <4>1. /\ reader[d] \in {"parsing", "idle"}
            /\ UNCHANGED <<encoded, wire, writeEnd, incomingBuffer, taken, sent, start, stream>>
        BY <3>5 DEF ReturnPackets, ReturnInvalid, ReadClosed, kernelVars, historyVars
      <4>2. Held(d)' = Held(d)
        BY <2>3, <4>1, HeldStable
      <4> QED
        BY <2>3, <3>2, <4>1, <4>2
    <3>6. ASSUME ReadError(d) PROVE FALSE
      BY <2>3, <3>6 DEF ReadError
    <3> QED
      BY <3>2, <3>3, <3>4, <3>5, <3>6
  <2>10. ASSUME NEW r \in Processes, Exit(r) \/ ExitFailure(r) \/ Killed(r) PROVE Keeps
    <3>1. r = q
      BY <1>1, <1>5, <2>10 DEF Exit, ExitFailure, Killed, Running
    <3>2. CloseAll(q) /\ UNCHANGED refused
      BY <2>10, <3>1 DEF Exit, ExitFailure, Killed
    <3>3. reader'[d] = "gone" /\ writeEnd'[d] = writeEnd[d]
      BY <1>1, <3>2, CloseAllDoes
    <3> QED
      BY <2>3, <3>2, <3>3
  <2>11. ASSUME NEW r \in Processes, Refuse(r) PROVE Keeps
    <3>1. r = p
      BY <1>1, <2>3, <2>11 DEF Refuse
    <3>2. /\ refused' = [refused EXCEPT ![d] = FALSE]
          /\ writeEnd' = [writeEnd EXCEPT ![In[p]] = "reset"]
          /\ UNCHANGED <<encoded, wire, incomingBuffer, reader, taken, sent, start, stream>>
      BY <2>11, <3>1 DEF Refuse, ResetBy, readerVars, historyVars
    <3>3. Held(d)' = Held(d)
      BY <2>3, <3>2, HeldStable
    <3>4. reader[d] = "gone"
      BY <2>11, <3>1 DEF Refuse, ResetBy
    <3> QED
      BY <1>1, <2>3, <3>2, <3>3, <3>4 DEF StreamTypeOK, ProcessTypeOK
  <2> QED
    BY <2>5, <2>6, <2>7, <2>8, <2>9, <2>10, <2>11 DEF Next, Step
<1> QED
  BY <1>3, <1>4, <1>5 DEF ProcessTypeOK

----------------------------------------------------------------------------
(***************************************************************************)
(* Why a process fails.                                                     *)
(***************************************************************************)
Failed(p) == exitCode[p] = "failure" \/ (exitCode[p] = "killed" /\ p \notin MayBeKilled)

Cause(p) ==
  \/ SettingUp(p)
  \/ exitCode[Peer[p]] = "killed"
  \/ exitCode[Peer[p]] = "failure" /\ SettingUp(Peer[p])

LEMMA FailureIsCaused == FailureHasCause <=> \A p \in Processes : Failed(p) => Cause(p)
BY DEF FailureHasCause, Failed, Cause

ConvInv == StreamInv /\ ProcessTypeOK /\ ScriptInv /\ EndInv /\ FailureHasCause

\* The reader of a connection that the other process left in good order has still the
\* bytes to read that its instruction waits for.
LEMMA NeverLeftWaiting ==
  ASSUME ConvInv, NEW p \in Processes, Running(p, "read"), exitCode[Peer[p]] = "zero",
         wire[In[p]] = <<>>, reader[In[p]] = "idle"
  PROVE  FALSE
<1> DEFINE q == Peer[p]
           d == In[p]
           n == pc[p]
           A == ReadAt[p][n]
           B == Len(allPackets[p])
           want == Script[p][n].want
<1>1. /\ q \in Processes /\ Out[q] = d /\ In[q] = Out[p] /\ Peer[q] = p /\ d \in Streams
  BY TheProcesses
<1>2. Here(q).op = "exit" /\ Held(d) = Len(stream[d])
  BY <1>1 DEF ConvInv, EndInv, LeavingOK
<1>3. /\ Len(sent[d]) = Len(Sends[q]) /\ Len(sent[Out[p]]) = Len(Sends[p])
      /\ encoded[d] = <<>>
  BY <1>1, <1>2, AllRead DEF ConvInv
<1>4. \A i \in 1 .. Len(sent[d]) : sent[d][i].hdr # invalid
  BY <1>1, TypesAt, NoneInvalid DEF ConvInv
<1>5. delivered[d] = sent[d]
  BY <1>1, <1>2, <1>3, <1>4, SentIsDelivered DEF ConvInv
<1>6. /\ Fits(p, n) /\ SentAt[p][n] = Len(Sends[p]) /\ A \in Nat
  BY <1>3, Counts DEF ConvInv
<1>7. /\ want \in Nat \ {0} /\ ReadAt[p][n + 1] = A + want
      /\ ReadAt[p][n + 1] = Len(Sends[q])
  BY <1>6 DEF Fits, StepFits, Running
<1>8. Len(delivered[d]) = A + B /\ B < want /\ B \in Nat
  BY DEF ConvInv, ScriptInv, ReadingOK, Running, Here, ProcessTypeOK
<1> HIDE DEF A, B, want, n, q, d
<1> QED
  BY <1>3, <1>5, <1>6, <1>7, <1>8

\* A process finds its connection closed too early, or reset, only when the other one
\* was killed, or failed, which has a cause of its own.
LEMMA LostPeer ==
  ASSUME ConvInv, NEW p \in Processes, exitCode[p] = "running",
         \/ writeEnd[In[p]] = "reset"
         \/ Running(p, "read") /\ (ReadClosed(In[p]) \/ ReadError(In[p]))
  PROVE  Cause(p)
<1> DEFINE q == Peer[p]
<1>1. q \in Processes /\ Out[q] = In[p] /\ Peer[q] = p
  BY TheProcesses
<1>2. writeEnd[In[p]] # "open"
  BY DEF ReadClosed, ReadError
<1>3. exitCode[q] # "running"
  BY <1>1, <1>2 DEF ConvInv, EndInv, EndsOK
<1>4. exitCode[q] # "zero"
  <2>1. SUFFICES ASSUME exitCode[q] = "zero" PROVE FALSE
    OBVIOUS
  <2>2. writeEnd[In[p]] = "closed"
    BY <1>1, <2>1 DEF ConvInv, EndInv, LeavingOK
  <2>3. Running(p, "read") /\ wire[In[p]] = <<>> /\ reader[In[p]] = "idle"
    BY <2>2 DEF ReadClosed, ReadError
  <2> QED
    BY <2>1, <2>3, NeverLeftWaiting
<1>5. exitCode[q] \in {"failure", "killed"}
  BY <1>1, <1>3, <1>4 DEF ConvInv, ProcessTypeOK
<1>6. ASSUME exitCode[q] = "failure" PROVE SettingUp(q) \/ SettingUp(p)
  BY <1>1, <1>6 DEF ConvInv, FailureHasCause
<1> QED
  BY <1>5, <1>6 DEF Cause

\* A cause stays a cause.
LEMMA CauseStays ==
  ASSUME ConvInv, [Next]_vars, NEW p \in Processes, Cause(p), pc'[p] = pc[p]
  PROVE  Cause(p)'
<1> DEFINE q == Peer[p]
<1>1. q \in Processes
  BY TheProcesses
<1>2. exitCode[q] # "running" =>
        /\ pc'[q] = pc[q]
        /\ exitCode'[q] = exitCode[q] \/ exitCode'[q] = "killed"
  BY <1>1, EndedStays DEF ConvInv
<1> QED
  BY <1>2 DEF Cause, SettingUp

\* A program that fails has a cause.
LEMMA FailsForCause ==
  ASSUME ConvInv, Accounts', ProcessTypeOK', [Next]_vars,
         NEW p \in Processes, exitCode[p] = "running", Failed(p)'
  PROVE  Cause(p) /\ pc'[p] = pc[p]
<1>1. /\ StreamInv /\ ProcessTypeOK /\ ScriptInv /\ StreamTypeOK
      /\ exitCode'[p] # "running" /\ exitCode'[p] # "zero"
  BY DEF ConvInv, StreamInv, Failed
<1>2. ASSUME UNCHANGED exitCode PROVE FALSE
  BY <1>1, <1>2
<1>3. ASSUME Listen \/ Accept \/ Connect \/ UNCHANGED vars PROVE UNCHANGED exitCode
  BY <1>3 DEF Listen, Accept, Connect, vars, procVars
<1>4. ASSUME NEW r \in Processes, EncodePacket(r) \/ Write(r) \/ ExitFailure(r) \/ Refuse(r)
      PROVE  UNCHANGED exitCode
  BY <1>4 DEF EncodePacket, Write, ExitFailure, Refuse, procVars
<1>5. ASSUME NEW r \in Processes, Exit(r) PROVE FALSE
  BY <1>1, <1>5 DEF Exit, ProcessTypeOK
<1>6. ASSUME NEW r \in Processes, (r = Client /\ ConnectRefused) \/ SetupFails(r)
      PROVE  Cause(p) /\ pc'[p] = pc[p]
  <2>1. exitCode' = [exitCode EXCEPT ![r] = "failure"] /\ SettingUp(r) /\ UNCHANGED pc
    BY <1>6 DEF ConnectRefused, SetupFails, Fail, Running, SettingUp
  <2>2. r = p
    BY <1>1, <2>1 DEF ProcessTypeOK
  <2> QED
    BY <2>1, <2>2 DEF Cause
<1>7. ASSUME NEW r \in Processes, Killed(r) PROVE Cause(p) /\ pc'[p] = pc[p]
  <2>1. /\ exitCode' = [exitCode EXCEPT ![r] = "killed"] /\ UNCHANGED pc
        /\ r \in MayBeKilled \/ BrokenPipe(r)
    BY <1>7 DEF Killed
  <2>2. r = p /\ exitCode'[p] = "killed"
    BY <1>1, <2>1 DEF ProcessTypeOK
  <2>3. p \notin MayBeKilled
    BY <2>2 DEF Failed
  <2>4. writeEnd[In[p]] = "reset"
    BY <2>1, <2>2, <2>3 DEF BrokenPipe
  <2> QED
    BY <2>1, <2>4, LostPeer
<1>8. ASSUME NEW r \in Processes, GetPackets(r) PROVE Cause(p) /\ pc'[p] = pc[p]
  <2>1. exitCode' = exitCode \/ exitCode' = [exitCode EXCEPT ![r] = "failure"]
    BY <1>1, <1>8, GetPacketsOwn
  <2>2. r = p
    BY <1>1, <2>1 DEF ProcessTypeOK
  <2>3. PICK st : \E packets \in Seq(Packets) :
          /\ Got(p, st, packets)
          /\ delivered'[In[p]] = delivered[In[p]] \o packets
          /\ \/ st = "ok_packets"
             \/ /\ packets = <<>>
                /\ ReturnInvalid(In[p]) \/ ReadClosed(In[p]) \/ ReadError(In[p])
    BY <1>1, <1>2, <1>8, <2>2, ACall DEF procVars
  <2>4. PICK packets \in Seq(Packets) :
          /\ Got(p, st, packets)
          /\ delivered'[In[p]] = delivered[In[p]] \o packets
          /\ \/ st = "ok_packets"
             \/ /\ packets = <<>>
                /\ ReturnInvalid(In[p]) \/ ReadClosed(In[p]) \/ ReadError(In[p])
    BY <2>3
  <2>5. Running(p, "read") /\ UNCHANGED <<encoded, sent>>
    BY <1>1, <1>8, <2>2, ACall
  <2>6. st # "ok_packets"
    BY <1>1, <2>4, <2>5, GotScript
  <2>7. ~ ReturnInvalid(In[p])
    <3>1. SUFFICES ASSUME ReturnInvalid(In[p]) PROVE FALSE
      OBVIOUS
    <3>2. In[p] \in Streams
      BY TheProcesses
    <3>3. status'[In[p]] = "protocol_error"
      BY <1>1, <3>1, <3>2 DEF ReturnInvalid, StreamTypeOK
    <3> QED
      BY <3>2, <3>3 DEF Accounts, AccountOK
  <2>8. Cause(p)
    BY <2>4, <2>5, <2>6, <2>7, LostPeer
  <2>9. pc'[p] = pc[p]
    BY <1>2, <2>4 DEF Got
  <2> QED
    BY <2>8, <2>9
<1> QED
  BY <1>2, <1>3, <1>4, <1>5, <1>6, <1>7, <1>8 DEF Next, Step

LEMMA CauseStep ==
  ConvInv /\ Accounts' /\ ProcessTypeOK' /\ [Next]_vars => FailureHasCause'
<1> SUFFICES ASSUME ConvInv, Accounts', ProcessTypeOK', [Next]_vars,
                    NEW p \in Processes, Failed(p)'
             PROVE  Cause(p)'
  BY DEF FailureHasCause, Failed, Cause
<1>1. CASE exitCode[p] = "running"
  BY <1>1, FailsForCause, CauseStays
<1>2. CASE exitCode[p] # "running"
  <2>1. /\ pc'[p] = pc[p]
        /\ exitCode'[p] = exitCode[p] \/ (exitCode[p] = "failure" /\ exitCode'[p] = "killed")
    BY <1>2, EndedStays DEF ConvInv
  <2>2. Failed(p)
    BY <2>1 DEF Failed
  <2>3. Cause(p)
    BY <2>2 DEF ConvInv, FailureHasCause, Failed, Cause
  <2> QED
    BY <2>1, <2>3, CauseStays
<1> QED
  BY <1>1, <1>2

----------------------------------------------------------------------------
(***************************************************************************)
(* The conversation keeps its invariant.                                    *)
(***************************************************************************)
LEMMA ConvInit == Init => ProcessTypeOK /\ ScriptInv /\ EndInv /\ FailureHasCause
<1> SUFFICES ASSUME Init PROVE ProcessTypeOK /\ ScriptInv /\ EndInv /\ FailureHasCause
  OBVIOUS
<1>1. /\ \A p \in Processes : /\ pc[p] = 1 /\ allPackets[p] = <<>> /\ first[p]
                              /\ exitCode[p] = "running"
                              /\ Out[p] \in Streams /\ In[p] \in Streams
      /\ \A d \in Streams : /\ sent[d] = <<>> /\ encoded[d] = <<>> /\ delivered[d] = <<>>
                            /\ writeEnd[d] = "open" /\ reader[d] = "idle" /\ ~ refused[d]
  BY TheProcesses DEF Init, StreamInit
<1>2. \A p \in Processes : 1 \in DOMAIN Script[p]
  BY ClientCode, ServerCode DEF Processes
<1>3. ProcessTypeOK
  <2>1. pc \in [Processes -> Nat] /\ first \in [Processes -> BOOLEAN]
    BY DEF Init
  <2>2. allPackets \in [Processes -> Seq(Packets)]
    BY <<>> \in Seq(Packets) DEF Init
  <2>3. exitCode \in [Processes -> {"running", "zero", "failure", "killed"}]
    BY DEF Init
  <2>4. connected \in BOOLEAN /\ refused \in [Streams -> BOOLEAN]
    BY DEF Init
  <2> QED
    BY <1>1, <1>2, <2>1, <2>2, <2>3, <2>4 DEF ProcessTypeOK
<1>4. \A p \in Processes : /\ SentAt[p][1] = 0 /\ ReadAt[p][1] = 0
                           /\ Script[p][1].op \in {"connect", "listen"}
  <2>1. SentAt[Client][1] = 0 /\ ReadAt[Client][1] = 0 /\ SentAt[Server][1] = 0 /\ ReadAt[Server][1] = 0
    BY DEF SentAt, ReadAt, Processes, Client, Server
  <2>2. Script[Client][1].op = "connect" /\ Script[Server][1].op = "listen"
    BY ClientCode, ServerCode DEF Op
  <2> QED
    BY <2>1, <2>2 DEF Processes
<1>5. ScriptInv
  BY <1>1, <1>4 DEF ScriptInv, SendingOK, ReadingOK, Here
<1>6. EndInv
  BY <1>1 DEF EndInv, EndsOK, LeavingOK
<1>7. FailureHasCause
  BY <1>1 DEF FailureHasCause
<1> QED
  BY <1>3, <1>5, <1>6, <1>7

\* The two programs are always where their scripts say, relative to each other, and the
\* packets and bytes on their way are those that they say.
THEOREM Conversation == Spec => []ConvInv
<1>1. Spec => []StreamInv
  BY ImplementsStreams, StreamInvariant, PTL
<1>2. ConvInv /\ StreamInv' /\ [Next]_vars => ConvInv'
  <2> SUFFICES ASSUME ConvInv, StreamInv', Accounts', [Next]_vars PROVE ConvInv'
    BY Accounted, PTL
  <2>1. ProcessTypeOK'
    BY TypeStep DEF ConvInv
  <2>2. ScriptInv'
    BY <2>1, ScriptStep DEF ConvInv
  <2>3. EndInv'
    BY EndsStep, LeavingStep DEF ConvInv, EndInv
  <2>4. FailureHasCause'
    BY <2>1, CauseStep
  <2> QED
    BY <2>1, <2>2, <2>3, <2>4 DEF ConvInv
<1>3. Init => StreamInv
  BY StreamInitOK DEF Init
<1>4. Init => ConvInv
  BY <1>3, ConvInit DEF ConvInv
<1> QED
  BY <1>1, <1>2, <1>4, PTL DEF Spec

(***************************************************************************)
(* Every variable of the two programs has its type.                         *)
(***************************************************************************)
THEOREM TcpTypes == Spec => []TcpTypeOK
<1>1. ConvInv => TcpTypeOK
  BY DEF ConvInv, StreamInv, ProcessTypeOK, TcpTypeOK
<1> QED
  BY <1>1, Conversation, PTL

(***************************************************************************)
(* The two programs never wait for each other with full buffers, however    *)
(* small the kernel's are: while one has anything under way, the other has  *)
(* nothing.                                                                 *)
(***************************************************************************)
THEOREM OneWayAtATime == Spec => []HalfDuplex
<1>1. ConvInv => HalfDuplex
  <2> SUFFICES ASSUME ConvInv PROVE ~ (Pending("C2S") /\ Pending("S2C"))
    BY DEF HalfDuplex
  <2>1. PICK d \in Streams : Len(delivered[d]) = Len(sent[d])
    BY TakingTurns DEF ConvInv
  <2>2. ~ Pending(d)
    BY <2>1, Accounted DEF ConvInv, Accounts, AccountOK
  <2> QED
    BY <2>2, TcpAssumption
<1> QED
  BY <1>1, Conversation, PTL

(***************************************************************************)
(* Neither program fails on its own account, at any point of the            *)
(* conversation and however its packets are merged in reads.                *)
(***************************************************************************)
THEOREM NobodyGivesUp == Spec => []FailureHasCause
<1>1. ConvInv => FailureHasCause
  BY DEF ConvInv
<1> QED
  BY <1>1, Conversation, PTL

(***************************************************************************)
(* A program that gets to its end has read the whole conversation.          *)
(***************************************************************************)
LEMMA AtTheEnd ==
  ASSUME ConvInv, NEW p \in Processes, Running(p, "exit") \/ exitCode[p] = "zero"
  PROVE  delivered[In[p]] = Sends[Peer[p]] /\ ~ Pending(In[p])
<1> DEFINE d == In[p]
           q == Peer[p]
<1>1. Here(p).op = "exit"
  BY DEF Running, Here, ConvInv, EndInv, LeavingOK
<1>2. Len(delivered[d]) = Len(Sends[q]) /\ ~ Pending(d)
  BY <1>1, AllRead DEF ConvInv
<1>3. \A i \in 1 .. Len(delivered[d]) : delivered[d][i] = Sends[q][i]
  BY Counts DEF ConvInv
<1>4. delivered[d] \in Seq(Packets) /\ Sends[q] \in Seq(Packets)
  <2>1. d \in Streams
    BY TheProcesses
  <2>2. delivered[d] \in Seq(Packets)
    BY <2>1, TypesAt DEF ConvInv
  <2>3. Sends[Client] \in Seq(Packets) /\ Sends[Server] \in Seq(Packets)
    BY TcpAssumption DEF Sends, Processes, Client, Server, Greetings
  <2> QED
    BY <2>2, <2>3, TheProcesses DEF Processes
<1> QED
  BY <1>2, <1>3, <1>4, SeqEqual

\* A program that ends well has received the whole of what the other has to say.
THEOREM TheEndComesLast == Spec => []EndsAfterAll
<1>1. ConvInv => EndsAfterAll
  BY AtTheEnd DEF EndsAfterAll
<1> QED
  BY <1>1, Conversation, PTL

----------------------------------------------------------------------------
(***************************************************************************)
(* The run, and the answer of its runner: what Runner_proofs shows of any    *)
(* runner holds of this one.                                                *)
(***************************************************************************)
RunProofs == INSTANCE Runner_proofs
             WITH Polling <- FALSE, Together <- FALSE, pc <- runner, child <- Child

LEMMA RunnerFits == RunProofs!RunnerAssumption
<1>1. RunProofs!Programs = Processes
  BY DEF RunProofs!Programs, Order, Processes
<1>2. Order \in Seq(Processes) /\ \A i, j \in DOMAIN Order : Order[i] = Order[j] => i = j
  BY DEF Order, Processes, Server, Client
<1> QED
  BY <1>1, <1>2, RunAssumption DEF RunProofs!RunnerAssumption

LEMMA SameNext == Run!RunnerNext => RunProofs!RunnerNext
BY DEF Run!RunnerNext, RunProofs!RunnerNext, Run!RunnerMain, RunProofs!RunnerMain,
  Run!Check, RunProofs!Check, Run!Launch, RunProofs!Launch, Run!Append1, RunProofs!Append1,
  Run!LaunchFails, RunProofs!LaunchFails, Run!AllLaunched, RunProofs!AllLaunched,
  Run!SeeAllEnded, RunProofs!SeeAllEnded, Run!DeadlinePasses, RunProofs!DeadlinePasses,
  Run!Collect, RunProofs!Collect, Run!StopNext, RunProofs!StopNext,
  Run!StopDone, RunProofs!StopDone, Run!EndSeen, RunProofs!EndSeen,
  Run!GraceOver, RunProofs!GraceOver, Run!KillNext, RunProofs!KillNext,
  Run!KillDone, RunProofs!KillDone, Run!Interrupt, RunProofs!Interrupt,
  Run!End, RunProofs!End, Run!Return, RunProofs!Return, Run!StopAll, RunProofs!StopAll,
  Run!Signal, RunProofs!Signal, Run!Running, RunProofs!Running, Run!Ended, RunProofs!Ended,
  Run!AllEnded, RunProofs!AllEnded, Run!Failed, RunProofs!Failed, Run!Stopped, RunProofs!Stopped,
  Run!Programs, RunProofs!Programs, Run!ExitCodes, RunProofs!ExitCodes

\* The runner of tcp-packet is always where its loops may be.
THEOREM RunnerHolds == RunSpec => [](RunProofs!RunnerInv)
<1>1. Run!RunnerInit => RunProofs!RunnerInit
  BY DEF Run!RunnerInit, RunProofs!RunnerInit, Run!Programs, RunProofs!Programs
<1>2. [Run!RunnerNext]_Run!runnerVars => [RunProofs!RunnerNext]_RunProofs!runnerVars
  BY SameNext DEF Run!runnerVars, RunProofs!runnerVars
<1>3. RunProofs!RunnerSpec => []RunProofs!RunnerInv
  BY RunnerFits, RunProofs!RunnerInvariant
<1> QED
  BY <1>1, <1>2, <1>3, RunImplementsRunner, PTL DEF RunnerSpec, Run!RunnerSpec, RunProofs!RunnerSpec

\* A program whose setup failed.
SetupFailed(p) == exitCode[p] = "failure" /\ SettingUp(p)

\* Nobody is past the setup of a connection that is not there.
SetupInv ==
  IF connected THEN pc[Client] > 1 ELSE pc[Client] = 1 /\ pc[Server] \in {1, 2}

Undisturbed == \A p \in Processes : signal[p] = "none"

\* As long as the runner lets them, no program ends badly unless a setup failed.
QuietInv ==
  Undisturbed => \A p \in Processes :
    /\ exitCode[p] \in {"failure", "killed"} => SetupFailed(p) \/ SetupFailed(Peer[p])
    /\ exitCode[p] = "killed" => ~ SettingUp(p)

LEMMA SetupCode ==
  ASSUME NEW p \in Processes, pc[p] \in DOMAIN Script[p]
  PROVE  SettingUp(p) <=> pc[p] = 1 \/ (p = Server /\ pc[p] = 2)
<1>1. CASE p = Client
  BY <1>1, ClientCode DEF SettingUp, Op, EncodeOp, ReadOp, Client, Server
<1>2. CASE p = Server
  BY <1>2, ServerCode DEF SettingUp, Op, EncodeOp, ReadOp, Client, Server
<1> QED
  BY <1>1, <1>2 DEF Processes

\* Every step of a program that goes on is one of its script.
LEMMA SetupStep == ProcessTypeOK /\ SetupInv /\ [Next]_vars => SetupInv'
<1> SUFFICES ASSUME ProcessTypeOK, SetupInv, [Next]_vars PROVE SetupInv'
  OBVIOUS
<1>1. /\ pc \in [Processes -> Nat] /\ Client \in Processes /\ Server \in Processes
      /\ Client # Server
      /\ \A p \in Processes : pc[p] \in DOMAIN Script[p]
  BY DEF ProcessTypeOK, Processes, Client, Server
<1>2. ASSUME UNCHANGED pc, UNCHANGED connected PROVE SetupInv'
  BY <1>2 DEF SetupInv
<1>3. ASSUME NEW p \in Processes, ~ SettingUp(p), UNCHANGED connected,
             pc' = pc \/ Advance(p)
      PROVE  SetupInv'
  <2>1. pc[p] # 1 /\ (p = Server => pc[p] # 2)
    BY <1>1, <1>3, SetupCode
  <2>2. connected
    BY <1>1, <1>3, <2>1 DEF SetupInv, Processes
  <2> QED
    BY <1>1, <1>3, <2>2 DEF SetupInv, Advance
<1>4. CASE Listen
  <2>1. pc[Server] \in {1, 2}  => pc[Server] = 1
    BY <1>4, ServerCode DEF Listen, Running, Op
  <2> QED
    BY <1>1, <1>4, <2>1 DEF Listen, Advance, SetupInv
<1>5. CASE Accept
  BY <1>1, <1>5 DEF Accept, Advance, SetupInv
<1>6. CASE Connect
  <2>1. pc[Client] >= 1
    BY <1>1, ClientCode
  <2> QED
    BY <1>1, <1>6, <2>1 DEF Connect, Advance, SetupInv
<1>7. ASSUME NEW p \in Processes, EncodePacket(p) \/ Write(p) \/ GetPackets(p)
      PROVE  ~ SettingUp(p) /\ UNCHANGED connected /\ (pc' = pc \/ Advance(p))
  BY <1>7 DEF EncodePacket, Write, GetPackets, Got, Running, SettingUp, procVars
<1>8. ASSUME NEW p \in Processes,
             \/ ConnectRefused \/ SetupFails(p) \/ Exit(p) \/ ExitFailure(p) \/ Killed(p)
             \/ Refuse(p) \/ UNCHANGED vars
      PROVE  UNCHANGED pc /\ UNCHANGED connected
  BY <1>8 DEF ConnectRefused, SetupFails, Exit, ExitFailure, Killed, Refuse, vars, procVars
<1> QED
  BY <1>1, <1>2, <1>3, <1>4, <1>5, <1>6, <1>7, <1>8 DEF Next, Step

\* A signal is not taken back.
LEMMA SignalsStay ==
  ASSUME RunProofs!RunnerType, [RunNext]_allVars, Undisturbed'
  PROVE  Undisturbed
<1>1. signal \in [Processes -> {"none", "TERM", "KILL"}]
  BY DEF RunProofs!RunnerType, RunProofs!Programs, Order, Processes
<1>2. CASE UNCHANGED signal
  BY <1>2 DEF Undisturbed
<1>3. ASSUME NEW p, Run!Signal(p, "TERM") \/ Run!Signal(p, "KILL") PROVE Undisturbed
  BY <1>1, <1>3 DEF Run!Signal, Undisturbed
<1>4. CASE RunnerStep
  BY <1>2, <1>3, <1>4 DEF RunnerStep, Run!RunnerMain, Run!Check, Run!Launch, Run!Append1,
     Run!LaunchFails, Run!AllLaunched, Run!SeeAllEnded, Run!DeadlinePasses, Run!Collect,
     Run!StopNext, Run!StopDone, Run!EndSeen, Run!GraceOver, Run!KillNext, Run!KillDone
<1>5. CASE Run!Interrupt
  <2>1. Run!Programs = Processes
    BY DEF Run!Programs, Order, Processes
  <2> QED
    BY <1>1, <1>5, <2>1 DEF Run!Interrupt, Undisturbed
<1> QED
  BY <1>2, <1>4, <1>5 DEF RunNext, ProgramStep, ProgramKilled, runVars, allVars

\* The setup of a program failed for good, as long as nobody is signalled.
LEMMA SetupStaysFailed ==
  ASSUME ConvInv, [RunNext]_allVars, Undisturbed, NEW p \in Processes, SetupFailed(p)
  PROVE  SetupFailed(p)'
<1>1. [Next]_vars /\ exitCode[p] = "failure"
  BY RunStep DEF SetupFailed
<1>2. /\ pc'[p] = pc[p]
      /\ exitCode'[p] = "failure" \/ exitCode'[p] = "killed"
  BY <1>1, EndedStays DEF ConvInv
<1>3. exitCode'[p] # "killed"
  <2>1. SUFFICES ASSUME exitCode'[p] = "killed" PROVE FALSE
    OBVIOUS
  <2>2. CASE UNCHANGED exitCode
    BY <1>1, <2>1, <2>2
  <2>3. ASSUME NEW q \in Processes, Killed(q), ProgramKilled(q) PROVE FALSE
    <3>1. BrokenPipe(q) /\ exitCode' = [exitCode EXCEPT ![q] = "killed"]
      BY <2>3 DEF ProgramKilled, Undisturbed, Killed
    <3>2. q = p
      BY <1>1, <2>1, <3>1 DEF ConvInv, ProcessTypeOK
    <3> QED
      BY <1>1, <3>1, <3>2 DEF BrokenPipe, Running
  <2>4. ASSUME NEW q \in Processes, Step(q) \/ SetupFails(q) PROVE FALSE
    <3>1. \/ exitCode' = exitCode \/ exitCode' = [exitCode EXCEPT ![q] = "failure"]
          \/ exitCode' = [exitCode EXCEPT ![q] = "zero"]
      BY <2>4, GetPacketsOwn DEF Step, SetupFails, Fail, Listen, Accept, Connect, ConnectRefused,
         EncodePacket, Write, Exit, ExitFailure, procVars, ConvInv, StreamInv
    <3> QED
      BY <1>1, <2>1, <3>1 DEF ConvInv, ProcessTypeOK
  <2> QED
    BY <2>2, <2>3, <2>4 DEF RunNext, RunnerStep, ProgramStep, ProgramKilled, Refuse, allVars,
       vars, procVars
<1> QED
  BY <1>2, <1>3 DEF SetupFailed, SettingUp

\* How a program that nobody signals comes to a bad end.
LEMMA QuietEnd ==
  ASSUME ConvInv, Accounts', ProcessTypeOK', [RunNext]_allVars, Undisturbed, QuietInv,
         NEW p \in Processes, exitCode[p] = "running", exitCode'[p] \in {"failure", "killed"}
  PROVE  /\ SetupFailed(p)' \/ SetupFailed(Peer[p])'
         /\ exitCode'[p] = "killed" => ~ SettingUp(p)'
<1> DEFINE q == Peer[p]
<1>1. [Next]_vars /\ q \in Processes /\ Peer[q] = p
  BY RunStep, TheProcesses
<1>2. exitCode[q] \in {"failure", "killed"} => SetupFailed(q)
  BY <1>1 DEF QuietInv, SetupFailed
<1>3. Cause(p) => SettingUp(p) \/ SetupFailed(q)
  BY <1>2 DEF Cause
<1>4. SetupFailed(q) => SetupFailed(q)'
  BY <1>1, SetupStaysFailed
<1>5. CASE exitCode'[p] = "failure"
  <2>1. Cause(p) /\ pc'[p] = pc[p]
    BY <1>1, <1>5, FailsForCause DEF Failed
  <2> QED
    BY <1>3, <1>4, <1>5, <2>1 DEF SetupFailed, SettingUp
<1>6. CASE exitCode'[p] = "killed"
  <2>1. ASSUME NEW r \in Processes, ProgramKilled(r) PROVE BrokenPipe(p) /\ UNCHANGED pc
    <3>1. /\ BrokenPipe(r) /\ exitCode' = [exitCode EXCEPT ![r] = "killed"]
          /\ UNCHANGED pc
      BY <2>1 DEF ProgramKilled, Undisturbed, Killed
    <3> QED
      BY <1>6, <3>1 DEF ConvInv, ProcessTypeOK
  <2>2. ASSUME NEW r \in Processes, Step(r) \/ SetupFails(r) PROVE FALSE
    <3>1. \/ exitCode' = exitCode \/ exitCode' = [exitCode EXCEPT ![r] = "failure"]
          \/ exitCode' = [exitCode EXCEPT ![r] = "zero"]
      BY <2>2, GetPacketsOwn DEF Step, SetupFails, Fail, Listen, Accept, Connect, ConnectRefused,
         EncodePacket, Write, Exit, ExitFailure, procVars, ConvInv, StreamInv
    <3> QED
      BY <1>6, <3>1 DEF ConvInv, ProcessTypeOK
  <2>3. BrokenPipe(p) /\ UNCHANGED pc
    BY <1>6, <2>1, <2>2 DEF RunNext, RunnerStep, ProgramStep, Refuse, allVars, vars, procVars
  <2>4. Cause(p) /\ ~ SettingUp(p)
    BY <2>3, LostPeer DEF BrokenPipe, Running, SettingUp
  <2> QED
    BY <1>3, <1>4, <2>3, <2>4 DEF SettingUp
<1> QED
  BY <1>5, <1>6

LEMMA QuietStep ==
  ConvInv /\ Accounts' /\ ProcessTypeOK' /\ RunProofs!RunnerType /\ QuietInv
    /\ [RunNext]_allVars => QuietInv'
<1> SUFFICES ASSUME ConvInv, Accounts', ProcessTypeOK', RunProofs!RunnerType, QuietInv,
                    [RunNext]_allVars, Undisturbed',
                    NEW p \in Processes, exitCode'[p] \in {"failure", "killed"}
             PROVE  /\ SetupFailed(p)' \/ SetupFailed(Peer[p])'
                    /\ exitCode'[p] = "killed" => ~ SettingUp(p)'
  BY DEF QuietInv
<1>1. Undisturbed
  BY SignalsStay
<1>2. CASE exitCode[p] = "running"
  BY <1>1, <1>2, QuietEnd
<1>3. CASE exitCode[p] # "running"
  <2>1. [Next]_vars /\ Peer[p] \in Processes
    BY RunStep, TheProcesses
  <2>2. /\ pc'[p] = pc[p]
        /\ exitCode'[p] = exitCode[p] \/ (exitCode[p] = "failure" /\ exitCode'[p] = "killed")
    BY <1>3, <2>1, EndedStays DEF ConvInv
  <2>3. SetupFailed(p) \/ SetupFailed(Peer[p])
    BY <1>1, <2>2 DEF QuietInv
  <2>4. SetupFailed(p)' \/ SetupFailed(Peer[p])'
    BY <1>1, <2>1, <2>3, SetupStaysFailed
  <2>5. ASSUME exitCode[p] = "failure", exitCode'[p] = "killed" PROVE ~ SettingUp(p)
    BY <1>1, <2>5, SetupStaysFailed DEF SetupFailed
  <2> QED
    BY <1>1, <2>2, <2>4, <2>5 DEF QuietInv, SettingUp
<1> QED
  BY <1>2, <1>3

RunInv == ConvInv /\ RunProofs!RunnerInv /\ SetupInv /\ QuietInv

(***************************************************************************)
(* In every state of a run the conversation and the runner have their        *)
(* invariants, and a program ends badly only after a signal or a setup that  *)
(* failed.                                                                  *)
(***************************************************************************)
THEOREM RunInvariant == RunSpec => []RunInv
<1>1. RunSpec => Spec
  BY RunStep, PTL DEF RunSpec, RunInit, Spec
<1>2. Init => SetupInv /\ QuietInv
  BY DEF Init, SetupInv, QuietInv, Processes, Client, Server
<1>3. ConvInv => Accounts /\ ProcessTypeOK
  BY Accounted DEF ConvInv
<1>4. RunProofs!RunnerInv => RunProofs!RunnerType
  BY DEF RunProofs!RunnerInv
<1> QED
  BY <1>1, <1>2, <1>3, <1>4, SetupStep, QuietStep, RunStep, RunnerHolds, Conversation, PTL
  DEF RunSpec, RunInit, RunInv

(***************************************************************************)
(* A runner that answers 0 has seen the whole conversation.                 *)
(***************************************************************************)
LEMMA AnsweredZero ==
  ASSUME RunInv, runner = "returned", answer = "zero", NEW p \in Processes
  PROVE  delivered[In[p]] = Sends[Peer[p]]
<1>1. p \in RunProofs!Programs
  BY DEF RunProofs!Programs, Order, Processes
<1>2. Child[p] = "zero"
  BY <1>1 DEF RunInv, RunProofs!RunnerInv, RunProofs!AnswerIsTheirs, RunProofs!ExitCodes
<1>3. exitCode[p] = "zero"
  BY <1>2 DEF Child
<1> QED
  BY <1>3, AtTheEnd DEF RunInv

\* A runner that answers 0 has seen every packet of the conversation delivered.
THEOREM AnsweredZeroIsDelivered == RunSpec => []SuccessIsDelivery
<1>1. RunInv => SuccessIsDelivery
  BY AnsweredZero DEF SuccessIsDelivery
<1> QED
  BY <1>1, RunInvariant, PTL

(***************************************************************************)
(* A runner that answers with the bad end of a program blames the server,    *)
(* whose setup failed: the client's failure is never what it reports.       *)
(***************************************************************************)
LEMMA BlamedServer ==
  ASSUME RunInv, runner = "returned", answer \in {"failure", "killed"}
  PROVE  answer = "failure" /\ SettingUp(Server)
<1>1. /\ Client \in Processes /\ Server \in Processes /\ Client # Server
      /\ Peer[Client] = Server /\ Peer[Server] = Client
  BY DEF Processes, Peer, Client, Server
<1>2. RunProofs!Programs = Processes
  BY DEF RunProofs!Programs, Order, Processes
<1>3. /\ \A p \in Processes : RunProofs!Ended(p)
      /\ Undisturbed
      /\ \E i \in DOMAIN Order : /\ Child[Order[i]] = answer
                                 /\ \A j \in 1 .. i - 1 : Child[Order[j]] = "zero"
  BY <1>2 DEF RunInv, RunProofs!RunnerInv, RunProofs!AnswerIsTheirs, RunProofs!ExitCodes,
     Undisturbed
<1>4. \A p \in Processes : Child[p] = exitCode[p] /\ exitCode[p] # "running"
  BY <1>3 DEF RunProofs!Ended, RunProofs!ExitCodes, Child
<1>5. \/ exitCode[Server] = answer
      \/ exitCode[Server] = "zero" /\ exitCode[Client] = answer
  <2>1. PICK i \in DOMAIN Order : /\ Child[Order[i]] = answer
                                  /\ \A j \in 1 .. i - 1 : Child[Order[j]] = "zero"
    BY <1>3
  <2>2. CASE i = 1
    BY <1>1, <1>4, <2>1, <2>2 DEF Order
  <2>3. CASE i = 2
    BY <1>1, <1>4, <2>1, <2>3 DEF Order
  <2> QED
    BY <2>2, <2>3 DEF Order
<1>6. SetupFailed(Client) \/ SetupFailed(Server)
  BY <1>1, <1>3, <1>5 DEF RunInv, QuietInv
<1>7. SettingUp(Client) => SettingUp(Server)
  BY <1>1, SetupCode DEF RunInv, SetupInv, ConvInv, ProcessTypeOK
<1>8. SettingUp(Server)
  BY <1>6, <1>7 DEF SetupFailed
<1>9. exitCode[Server] # "zero"
  BY <1>1, <1>8 DEF RunInv, ConvInv, EndInv, LeavingOK, Here, SettingUp
<1>10. exitCode[Server] # "killed"
  BY <1>1, <1>3, <1>8 DEF RunInv, QuietInv
<1> QED
  BY <1>5, <1>8, <1>9, <1>10

\* A runner that answers with the bad end of a program answers with the failed setup of
\* the server, although the client has then failed too.
THEOREM TheServerIsBlamed == RunSpec => []BlamesTheServer
<1>1. RunInv => BlamesTheServer
  BY BlamedServer DEF BlamesTheServer
<1> QED
  BY <1>1, RunInvariant, PTL
=============================================================================
