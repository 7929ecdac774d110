---------------------------- MODULE TcpPing_proofs ----------------------------
(***************************************************************************)
(* tcp-ping: the runner's theorems hold of it, and its two programs never    *)
(* wait for each other, whatever they say and however TCP cuts it.          *)
(***************************************************************************)
EXTENDS TcpPing, Runner_proofs, SequenceTheorems

LEMMA NextOfRunner == Next => [RunnerNext]_runnerVars
<1> SUFFICES ASSUME Next PROVE [RunnerNext]_runnerVars
  OBVIOUS
<1> USE DEF ExitCodes
<1>1. Server \in Programs /\ Client \in Programs
  BY PingAssumption DEF Programs, PingOrder
<1>2. ASSUME NEW p \in Programs, NEW code \in ExitCodes, Finish(p, code)
      PROVE  RunnerNext
  BY <1>2 DEF Finish, RunnerNext
<1>3. CASE RunnerMain \/ Interrupt
  BY <1>3 DEF RunnerNext
<1>4. CASE ServerStep
  BY <1>1, <1>2, <1>4 DEF ServerStep, Listen, ListenFails, Accept, AcceptFails,
     ServerRead, ServerReadNothing, ServerWrite, BrokenPipe, ExitZero, runnerVars
<1>5. CASE ClientStep
  BY <1>1, <1>2, <1>5 DEF ClientStep, Connect, ConnectRefused, ClientWrite, ClientRead,
     ClientReadNothing, BrokenPipe, ExitZero, runnerVars
<1>6. CASE \E p \in Programs : Killed(p)
  BY <1>2, <1>6 DEF Killed
<1> QED
  BY <1>3, <1>4, <1>5, <1>6 DEF Next

\* Whatever is said of RunnerSpec holds of tcp-ping: its programs do to the runner only
\* what any program may do, which is to end.
THEOREM ImplementsRunner == Spec => RunnerSpec
<1>1. Init => RunnerInit
  BY DEF Init
<1>2. [Next]_vars => [RunnerNext]_runnerVars
  BY NextOfRunner DEF vars, runnerVars
<1> QED
  BY <1>1, <1>2, PTL DEF Spec, RunnerSpec

----------------------------------------------------------------------------
(***************************************************************************)
(* The inductive invariant.  That somebody has bytes to read is not enough:  *)
(* between a read and the write that answers it nobody has any, and the      *)
(* server, not yet at its loop, has to find the client's first message.  And *)
(* a write must not fail as long as somebody waits for it.                  *)
(***************************************************************************)
PingType ==
  /\ at \in [Programs -> {"listen", "accept", "read", "write", "last write", "exit", "connect",
             "write greeting", "read answer", "write QUIT", "read last"}]
  /\ toServer \in Seq(Chars) /\ toClient \in Nat
  /\ clientMsg \in Seq(Chars)

ClientWaits == at[Client] \in {"read answer", "read last"}

\* A client that waits has been started.
WaitsOnceStarted == ClientWaits => child[Client] # "none"

\* The server has taken the message it is about to answer, or will find one.
OwesAnswer ==
  Running(Client) /\ ClientWaits /\ toClient = 0 /\ Running(Server) =>
    toServer # <<>> \/ at[Server] \in {"write", "last write"}

\* Only the end of the other program resets a connection.
ResetByGone ==
  /\ errors \subseteq reset
  /\ \A p \in reset : p \in Programs /\ Ended(Peer[p])

PingInv == PingType /\ WaitsOnceStarted /\ OwesAnswer /\ ResetByGone

LEMMA Two ==
  /\ Programs = {Server, Client} /\ Server # Client
  /\ Order[1] = Server /\ Order[2] = Client /\ Len(Order) = 2
<1>1. Order = <<Server, Client>>
  BY PingAssumption DEF PingOrder
<1> QED
  BY <1>1 DEF Programs, Server, Client

LEMMA Peers == Peer[Server] = Client /\ Peer[Client] = Server
  BY Two DEF Peer

LEMMA BytesThere ==
  ASSUME NEW S, NEW s \in Seq(S), NEW t \in Seq(S), Len(t) > 0
  PROVE  s \o t \in Seq(S) /\ s \o t # <<>>
  BY ConcatProperties, ConcatEqualIffEmpty

LEMMA BytesTaken ==
  ASSUME NEW n \in Nat, NEW k \in 1 .. n
  PROVE  n - k \in Nat
  OBVIOUS

\* Programs that have ended stay so, and every other reset is by a program that has.
LEMMA ErrorsKeep ==
  ASSUME ResetByGone,
         \A p \in Programs : Ended(p) => Ended(p)',
         errors' \subseteq reset',
         \A p \in reset' \ reset : p \in Programs /\ Ended(Peer[p])'
  PROVE  ResetByGone'
<1>1. \A p \in Programs : Peer[p] \in Programs
  BY Two, Peers
<1> QED
  BY <1>1 DEF ResetByGone

LEMMA NoNewErrors ==
  ASSUME ResetByGone, errors' \subseteq errors, UNCHANGED <<reset, child>>
  PROVE  ResetByGone'
  BY DEF ResetByGone, Ended

LEMMA SendErrors ==
  ASSUME ResetByGone, NEW p \in Programs, Sent(p) \/ NotSent(p), UNCHANGED child
  PROVE  /\ ResetByGone'
         /\ NotSent(p) => Gone(p)
<1>1. NotSent(p) => Gone(p)
  BY DEF NotSent, ResetByGone, Gone
<1>2. CASE Sent(p) /\ Gone(p)
  <2>1. errors' = errors \cup ({p} \ reset) /\ reset' = reset \cup {p}
    BY <1>2 DEF Sent, Reset
  <2>2. \A q \in reset' \ reset : q \in Programs /\ Ended(Peer[q])'
    BY <1>2, <2>1 DEF Gone, Ended
  <2>3. errors' \subseteq reset'
    BY <2>1 DEF ResetByGone
  <2> QED
    BY <1>1, <2>2, <2>3, ErrorsKeep DEF Ended
<1>3. CASE errors' \subseteq errors /\ UNCHANGED reset
  BY <1>1, <1>3, NoNewErrors
<1> QED
  BY <1>2, <1>3 DEF Sent, NotSent, resets

LEMMA PingInit == Init => PingInv
<1> SUFFICES ASSUME Init PROVE PingInv
  OBVIOUS
<1>1. PingType
  BY Two, EmptySeq DEF Init, PingType
<1>2. WaitsOnceStarted /\ OwesAnswer /\ ResetByGone
  BY Two DEF Init, WaitsOnceStarted, OwesAnswer, ClientWaits, ResetByGone
<1> QED
  BY <1>1, <1>2 DEF PingInv

\* The runner starts the server first, and a client that it starts does not wait yet.
LEMMA RunnerKeeps ==
  ASSUME RunnerInv, PingInv, RunnerMain \/ Interrupt, UNCHANGED pingVars
  PROVE  PingInv'
<1> USE Two DEF PingInv
<1>1. PingType'
  BY DEF PingType, pingVars, connection
<1>2. CASE Launch
  <2>1. child[Server] = "none" <=> 1 > launched
    BY OrderFacts DEF RunnerInv, Started
  <2>2. child[Client] = "none" <=> 2 > launched
    BY OrderFacts DEF RunnerInv, Started
  <2>3. launched \in Nat
    BY OrderFacts DEF RunnerInv, RunnerType
  <2>4. child[Client] = "none"
    BY <1>2, <2>2, <2>3 DEF Launch
  <2>5. ~ ClientWaits
    BY <2>4 DEF WaitsOnceStarted
  <2>6. \A p \in Programs : Ended(p) => Ended(p)'
    BY <1>2, <2>1, <2>2, <2>3, OrderFacts DEF Launch, Ended, ExitCodes, RunnerInv, RunnerType
  <2>7. ResetByGone'
    BY <2>6, ErrorsKeep DEF pingVars, connection, resets, ResetByGone
  <2> QED
    BY <1>1, <2>5, <2>7 DEF WaitsOnceStarted, OwesAnswer, ClientWaits, pingVars
<1>3. CASE UNCHANGED child
  BY <1>1, <1>3 DEF WaitsOnceStarted, OwesAnswer, ClientWaits, Running, ResetByGone, Ended,
     pingVars, connection, resets
<1> QED
  BY <1>2, <1>3 DEF RunnerMain, Check, Append1, LaunchFails, AllLaunched, SeeAllEnded,
     DeadlinePasses, Collect, StopNext, StopDone, EndSeen, GraceOver, KillNext, KillDone,
     Interrupt

LEMMA FinishKeeps ==
  ASSUME RunnerInv, PingInv, NEW p \in Programs, NEW code \in ExitCodes, Finish(p, code)
  PROVE  PingInv'
<1> USE Two DEF PingInv, Finish
<1>1. PingType'
  BY DEF PingType
<1>2. child' = [child EXCEPT ![p] = code] /\ child \in [Programs -> ExitCodes \cup {"none", "running"}]
  BY DEF End, RunnerInv, RunnerType
<1>3. WaitsOnceStarted'
  BY <1>2 DEF WaitsOnceStarted, ClientWaits, ExitCodes
<1>4. OwesAnswer'
  BY <1>2 DEF OwesAnswer, ClientWaits, Running, ExitCodes
<1>5. ResetByGone'
  <2>1. \A q \in Programs : Ended(q) => Ended(q)'
    BY <1>2 DEF Ended
  <2>2. errors' \subseteq reset' /\ \A q \in reset' \ reset : q = Peer[p]
    BY DEF Reset, resets, ResetByGone
  <2>3. Ended(p)' /\ Peer[Peer[p]] = p /\ Peer[p] \in Programs
    BY <1>2, Peers DEF Ended
  <2> QED
    BY <2>1, <2>2, <2>3, ErrorsKeep DEF Ended
<1> QED
  BY <1>1, <1>3, <1>4, <1>5

LEMMA ServerKeeps ==
  ASSUME RunnerInv, PingInv, ServerStep
  PROVE  PingInv'
<1>0. toServer \in Seq(Chars) /\ toClient \in Nat /\ clientMsg \in Seq(Chars)
  BY DEF PingInv, PingType
<1>1. CASE Listen \/ Accept
  <2>1. errors' \subseteq errors /\ UNCHANGED <<reset, child>>
    BY <1>1 DEF Listen, Accept, runnerVars, connection, resets
  <2>2. ResetByGone'
    BY <2>1, NoNewErrors DEF PingInv
  <2> QED
    BY <1>1, <2>2, Two DEF Listen, Accept, Goto, At, PingInv, PingType, WaitsOnceStarted, OwesAnswer, ClientWaits,
     Running, runnerVars, connection
<1>2. CASE ServerRead
  <2>1. PICK k \in 1 .. Len(toServer) :
          /\ clientMsg' = SubSeq(toServer, 1, k)
          /\ toServer' = SubSeq(toServer, k + 1, Len(toServer))
    BY <1>2 DEF ServerRead
  <2>2. clientMsg' \in Seq(Chars) /\ toServer' \in Seq(Chars)
    BY <1>0, <2>1, SubSeqProperties
  <2>3. ResetByGone'
    BY <1>2, NoNewErrors DEF ServerRead, PingInv, runnerVars, resets
  <2> QED
    BY <1>2, <2>2, <2>3, Two DEF ServerRead, Goto, PingInv, PingType, WaitsOnceStarted, OwesAnswer, ClientWaits,
       runnerVars
<1>3. CASE ServerReadNothing
  <2>1. PICK where \in {"write", "last write"} : at' = [at EXCEPT ![Server] = where]
    BY <1>3 DEF ServerReadNothing, Goto
  <2>2. ResetByGone'
    BY <1>3, NoNewErrors DEF ServerReadNothing, Reported, PingInv, runnerVars
  <2> QED
    BY <1>3, <2>1, <2>2, Two, EmptySeq DEF ServerReadNothing, PingInv, PingType, WaitsOnceStarted,
       OwesAnswer, ClientWaits, runnerVars
<1>4. ASSUME NEW where, ServerWrite(where)
      PROVE  PingInv'
  <2>1. AnswerLen(clientMsg) \in Nat \ {0}
    BY <1>0, LenProperties DEF AnswerLen
  <2>2. AnswerLen(clientMsg) \in Nat /\ AnswerLen(clientMsg) > 0
    BY <2>1
  <2>3. \/ toClient' = toClient /\ (Gone(Server) \/ NotSent(Server))
        \/ toClient' = toClient + AnswerLen(clientMsg)
    BY <1>4 DEF ServerWrite
  <2>4. toClient + AnswerLen(clientMsg) \in Nat \ {0}
    BY <1>0, <2>2
  <2>5. toClient' \in Nat
    BY <1>0, <2>3, <2>4
  <2>6. ResetByGone' /\ (NotSent(Server) => Gone(Server))
    BY <1>4, SendErrors, Two DEF ServerWrite, PingInv, runnerVars
  <2>7. PingType' /\ WaitsOnceStarted'
    BY <1>4, <2>5, Two DEF ServerWrite, Goto, PingInv, PingType, WaitsOnceStarted, ClientWaits,
       runnerVars
  <2>8. Running(Client)' => toClient' # 0
    BY <1>4, <2>6, <2>3, <2>4, Peers DEF ServerWrite, Gone, Ended, Running, ExitCodes, runnerVars
  <2> QED
    BY <2>7, <2>8, <2>6 DEF PingInv, OwesAnswer
<1>5. CASE ListenFails \/ AcceptFails \/ BrokenPipe(Server) \/ ExitZero(Server)
  BY <1>5, FinishKeeps, Two DEF ListenFails, AcceptFails, BrokenPipe, ExitZero, ExitCodes
<1> QED
  BY <1>1, <1>2, <1>3, <1>4, <1>5 DEF ServerStep

\* A message has at least one byte, which the server finds.
LEMMA ClientWriteKeeps ==
  ASSUME RunnerInv, PingInv, NEW where, NEW msg \in Seq(Chars), Len(msg) > 0,
         NEW then \in {"read answer", "read last"}, ClientWrite(where, msg, then)
  PROVE  PingInv'
<1>0. toServer \in Seq(Chars) /\ toClient \in Nat /\ clientMsg \in Seq(Chars)
  BY DEF PingInv, PingType
<1>1. toServer \o msg \in Seq(Chars) /\ toServer \o msg # <<>>
  BY <1>0, BytesThere
<1>2. PingType'
  BY <1>0, <1>1, Two DEF ClientWrite, Goto, PingInv, PingType
<1>3. ResetByGone' /\ (NotSent(Client) => Gone(Client))
  BY SendErrors, Two DEF ClientWrite, PingInv, runnerVars
<1>4. Running(Server)' => toServer' # <<>>
  BY <1>1, <1>3, Peers DEF ClientWrite, Gone, Ended, Running, ExitCodes, runnerVars
<1>5. WaitsOnceStarted'
  BY DEF ClientWrite, At, Running, WaitsOnceStarted, runnerVars
<1> QED
  BY <1>2, <1>3, <1>4, <1>5 DEF PingInv, OwesAnswer

\* After a read the client does not wait.
LEMMA ClientReadKeeps ==
  ASSUME RunnerInv, PingInv, NEW where, NEW then \in {"write QUIT", "exit"},
         ClientRead(where, then) \/ ClientReadNothing(where, then)
  PROVE  PingInv'
<1>0. toServer \in Seq(Chars) /\ toClient \in Nat /\ clientMsg \in Seq(Chars)
  BY DEF PingInv, PingType
<1>1. at' = [at EXCEPT ![Client] = then] /\ UNCHANGED <<toServer, clientMsg>>
  BY DEF ClientRead, ClientReadNothing, Goto
<1>2. toClient' \in Nat
  <2>1. CASE ClientRead(where, then)
    <3>1. PICK k \in 1 .. toClient : toClient' = toClient - k
      BY <2>1 DEF ClientRead
    <3> QED
      BY <1>0, <3>1, BytesTaken
  <2>2. CASE UNCHANGED toClient
    BY <1>0, <2>2
  <2> QED
    BY <2>1, <2>2 DEF ClientReadNothing
<1>3. PingType'
  BY <1>1, <1>2, Two DEF PingInv, PingType
<1>4. ~ ClientWaits'
  BY <1>1, Two DEF PingInv, PingType, ClientWaits
<1>5. errors' \subseteq errors /\ UNCHANGED <<reset, child>>
  BY DEF ClientRead, ClientReadNothing, Reported, runnerVars, resets
<1>6. ResetByGone'
  BY <1>5, NoNewErrors DEF PingInv
<1> QED
  BY <1>3, <1>4, <1>6 DEF PingInv, WaitsOnceStarted, OwesAnswer

LEMMA ClientKeeps ==
  ASSUME RunnerInv, PingInv, ClientStep
  PROVE  PingInv'
<1>1. CASE Connect
  <2>1. ResetByGone'
    BY <1>1, NoNewErrors DEF Connect, PingInv, runnerVars, resets
  <2> QED
    BY <1>1, <2>1, Two DEF Connect, Goto, PingInv, PingType, WaitsOnceStarted, OwesAnswer, ClientWaits
<1>2. CASE \/ ClientWrite("write greeting", Greeting, "read answer")
           \/ ClientWrite("write QUIT", QUIT, "read last")
  BY <1>2, ClientWriteKeeps, PingAssumption
<1>3. CASE \/ ClientRead("read answer", "write QUIT") \/ ClientReadNothing("read answer", "write QUIT")
           \/ ClientRead("read last", "exit") \/ ClientReadNothing("read last", "exit")
  BY <1>3, ClientReadKeeps
<1>4. CASE ConnectRefused \/ BrokenPipe(Client) \/ ExitZero(Client)
  BY <1>4, FinishKeeps, Two DEF ConnectRefused, BrokenPipe, ExitZero, ExitCodes
<1> QED
  BY <1>1, <1>2, <1>3, <1>4 DEF ClientStep

LEMMA PingStep == RunnerInv /\ PingInv /\ [Next]_vars => PingInv'
<1> SUFFICES ASSUME RunnerInv, PingInv, [Next]_vars PROVE PingInv'
  OBVIOUS
<1>1. CASE (RunnerMain \/ Interrupt) /\ UNCHANGED pingVars
  BY <1>1, RunnerKeeps
<1>2. CASE \E p \in Programs : Killed(p)
  BY <1>2, FinishKeeps DEF Killed, ExitCodes
<1>3. CASE UNCHANGED vars
  BY <1>3 DEF vars, runnerVars, pingVars, connection, resets, PingInv, PingType,
     WaitsOnceStarted, OwesAnswer, ResetByGone, Ended, ClientWaits, Running
<1> QED
  BY <1>1, <1>2, <1>3, ServerKeeps, ClientKeeps DEF Next

\* The server and the client never both wait: for any two messages, and for every way in
\* which reads cut or merge them.
THEOREM NoDeadlock == Spec => []NeverBothWaiting
<1>1. Spec => []RunnerInv
  BY ImplementsRunner, RunnerInvariant
<1>2. PingInv => NeverBothWaiting
  BY DEF PingInv, OwesAnswer, ClientWaits, NeverBothWaiting, At
<1> QED
  BY <1>1, <1>2, PingInit, PingStep, PTL DEF Spec

----------------------------------------------------------------------------
(***************************************************************************)
(* What the two programs say to each other, and how they end.               *)
(***************************************************************************)
\* A failed read that stops the server's loop has used up the error of its connection.
LastWriteFails == at[Server] = "last write" => Server \in reset \ errors

\* The loop of the server ends with QUIT, and 0 is what main() returns at its end.
ZeroAtExit ==
  /\ at[Server] = "exit" => IsQuit(clientMsg)
  /\ \A p \in Programs : child[p] = "zero" => at[p] = "exit"

\* What is read, or to be read, of the greeting alone.
PartOfGreeting(s) ==
  \E n \in Nat : /\ n + Len(s) <= Len(Greeting)
                 /\ \A i \in 1 .. Len(s) : s[i] = Greeting[n + i]

\* There is no QUIT for the server before the client writes it.
QuitComesLast ==
  /\ at[Client] \in {"connect", "write greeting"} => toServer = <<>>
  /\ at[Client] \in {"connect", "write greeting", "read answer", "write QUIT"} =>
       PartOfGreeting(toServer) /\ PartOfGreeting(clientMsg)

\* A server that does not fail answers both messages.
AnswersCounted ==
  /\ child[Server] \in {"none", "running", "zero"} =>
       /\ at[Client] \in {"connect", "write greeting", "read answer"} => answers = 0
       /\ at[Client] \in {"write QUIT", "read last"} => answers = 1
       /\ at[Client] = "exit" => answers = 2
  /\ at[Server] = "exit" /\ at[Client] = "read last" /\ ~ Ended(Client) => toClient > 0

TalkInv == LastWriteFails /\ ZeroAtExit /\ QuitComesLast /\ AnswersCounted

LEMMA PartOf ==
  /\ PartOfGreeting(<<>>) /\ PartOfGreeting(Greeting)
  /\ \A s \in Seq(Chars) : PartOfGreeting(s) => ~ IsQuit(s)
<1>1. Greeting \in Seq(Chars) /\ QUIT \in Seq(Chars) /\ Len(QUIT) > 0 /\ Len(QUIT) \in Nat
      /\ Len(Greeting) \in Nat
  BY PingAssumption
<1>2. PartOfGreeting(<<>>) /\ PartOfGreeting(Greeting)
  <2>1. 0 \in Nat /\ Len(<<>>) = 0 /\ 0 + 0 <= Len(Greeting) /\ 0 + Len(Greeting) <= Len(Greeting)
    BY <1>1
  <2>2. \A i \in 1 .. Len(Greeting) : Greeting[i] = Greeting[0 + i]
    OBVIOUS
  <2>3. \A i \in 1 .. 0 : FALSE
    OBVIOUS
  <2> QED
    BY <2>1, <2>2, <2>3 DEF PartOfGreeting
<1>3. ASSUME PartOfGreeting(QUIT) PROVE FALSE
  <2>1. PICK n \in Nat : /\ n + Len(QUIT) <= Len(Greeting)
                         /\ \A i \in 1 .. Len(QUIT) : QUIT[i] = Greeting[n + i]
    BY <1>3 DEF PartOfGreeting
  <2>2. n + 1 \in 1 .. Len(Greeting) /\ n + Len(QUIT) \in 1 .. Len(Greeting)
    BY <1>1, <2>1
  <2>3. /\ SubSeq(Greeting, n + 1, n + Len(QUIT)) \in Seq(Chars)
        /\ Len(SubSeq(Greeting, n + 1, n + Len(QUIT))) = Len(QUIT)
        /\ \A i \in 1 .. Len(QUIT) : SubSeq(Greeting, n + 1, n + Len(QUIT))[i] = Greeting[n + i]
    BY <1>1, <2>1, <2>2
  <2>4. SubSeq(Greeting, n + 1, n + Len(QUIT)) = QUIT
    BY <1>1, <2>1, <2>3, SeqEqual
  <2> QED
    BY <2>2, <2>4, PingAssumption
<1> QED
  BY <1>2, <1>3 DEF IsQuit

\* A part of a part.
LEMMA PartOfRead ==
  ASSUME NEW s \in Seq(Chars), NEW k \in 1 .. Len(s)
  PROVE  /\ SubSeq(s, 1, k) \in Seq(Chars) /\ SubSeq(s, k + 1, Len(s)) \in Seq(Chars)
         /\ PartOfGreeting(s) =>
              PartOfGreeting(SubSeq(s, 1, k)) /\ PartOfGreeting(SubSeq(s, k + 1, Len(s)))
<1> DEFINE a == SubSeq(s, 1, k)
           b == SubSeq(s, k + 1, Len(s))
<1>1. /\ a \in Seq(Chars) /\ Len(a) = k /\ \A i \in 1 .. k : a[i] = s[i]
      /\ b \in Seq(Chars) /\ Len(b) = Len(s) - k
      /\ \A i \in 1 .. Len(s) - k : b[i] = s[k + i]
      /\ Len(s) \in Nat /\ k \in Nat
  OBVIOUS
<1>2. ASSUME PartOfGreeting(s) PROVE PartOfGreeting(a) /\ PartOfGreeting(b)
  <2>1. PICK n \in Nat : /\ n + Len(s) <= Len(Greeting)
                         /\ \A i \in 1 .. Len(s) : s[i] = Greeting[n + i]
    BY <1>2 DEF PartOfGreeting
  <2>2. Len(Greeting) \in Nat
    BY PingAssumption
  <2> HIDE DEF a, b
  <2>3. n + Len(a) <= Len(Greeting) /\ \A i \in 1 .. Len(a) : a[i] = Greeting[n + i]
    BY <1>1, <2>1, <2>2
  <2>4. /\ n + k \in Nat /\ (n + k) + Len(b) <= Len(Greeting)
        /\ \A i \in 1 .. Len(b) : b[i] = Greeting[(n + k) + i]
    <3>1. ASSUME NEW i \in 1 .. Len(b) PROVE b[i] = Greeting[(n + k) + i]
      <4>1. i \in 1 .. Len(s) - k /\ k + i \in 1 .. Len(s) /\ n + (k + i) = (n + k) + i
        BY <1>1
      <4> QED
        BY <1>1, <2>1, <4>1
    <3>2. n + k \in Nat
      BY <1>1
    <3>3. (n + k) + Len(b) <= Len(Greeting)
      <4>1. Len(b) = Len(s) - k
        BY <1>1
      <4> QED
        BY <1>1, <2>1, <2>2, <4>1
    <3> QED
      BY <3>1, <3>2, <3>3
  <2> QED
    BY <2>3, <2>4 DEF PartOfGreeting
<1> QED
  BY <1>1, <1>2

\* A reset is for good, and only a new one has an error to report.
LEMMA LastWriteStep ==
  ASSUME LastWriteFails, reset \subseteq reset', errors' \ errors \subseteq reset' \ reset,
         at'[Server] = at[Server]
  PROVE  LastWriteFails'
BY DEF LastWriteFails

LEMMA FinishResets ==
  ASSUME NEW p, NEW code, Finish(p, code)
  PROVE  reset \subseteq reset' /\ errors' \ errors \subseteq reset' \ reset
BY DEF Finish, Reset, resets

LEMMA SendResets ==
  ASSUME NEW p, Sent(p) \/ NotSent(p)
  PROVE  reset \subseteq reset' /\ errors' \ errors \subseteq reset' \ reset
BY DEF Sent, NotSent, Reset, resets

\* An answer has at least one byte.
LEMMA AnswerBytes ==
  ASSUME NEW n \in Nat, NEW msg \in Seq(Chars)
  PROVE  n + AnswerLen(msg) \in Nat /\ n + AnswerLen(msg) > 0
<1>1. Len(msg) \in Nat
  OBVIOUS
<1> QED
  BY <1>1 DEF AnswerLen

LEMMA TalkInit == Init => TalkInv
<1> SUFFICES ASSUME Init PROVE TalkInv
  OBVIOUS
<1>1. at[Server] = "listen" /\ at[Client] = "connect" /\ \A p \in Programs : child[p] = "none"
  BY Two DEF Init, RunnerInit
<1>2. toServer = <<>> /\ clientMsg = <<>> /\ answers = 0
  BY DEF Init
<1> QED
  BY <1>1, <1>2, PartOf DEF TalkInv, LastWriteFails, ZeroAtExit, QuitComesLast, AnswersCounted

LEMMA RunnerTalk ==
  ASSUME RunnerInv, PingInv, TalkInv, RunnerMain \/ Interrupt, UNCHANGED pingVars
  PROVE  TalkInv'
<1>1. \A p \in Programs : child'[p] = child[p] \/ (child[p] = "none" /\ child'[p] = "running")
  BY RunnerMainKeeps
<1>2. UNCHANGED <<at, toServer, toClient, reset, errors, clientMsg, answers>>
  BY DEF pingVars, connection, resets, history
<1>3. LastWriteFails' /\ ZeroAtExit'
  BY <1>1, <1>2 DEF TalkInv, LastWriteFails, ZeroAtExit
<1>4. QuitComesLast'
  BY <1>2 DEF TalkInv, QuitComesLast, PartOfGreeting
<1>5. AnswersCounted'
  <2>1. Server \in Programs /\ Client \in Programs
    BY Two
  <2>2. Ended(Client) => Ended(Client)'
    BY <1>1, <2>1 DEF Ended, ExitCodes
  <2> QED
    BY <1>1, <1>2, <2>1, <2>2 DEF TalkInv, AnswersCounted
<1> QED
  BY <1>3, <1>4, <1>5 DEF TalkInv

\* A program that ends: with 0 only where its main() returns.
LEMMA FinishTalk ==
  ASSUME RunnerInv, PingInv, TalkInv, NEW p \in Programs, NEW code \in ExitCodes,
         Finish(p, code), code = "zero" => at[p] = "exit"
  PROVE  TalkInv'
<1>1. /\ child' = [child EXCEPT ![p] = code] /\ child[p] = "running"
      /\ child \in [Programs -> ExitCodes \cup {"none", "running"}]
  BY DEF Finish, End, Running, RunnerInv, RunnerType
<1>2. UNCHANGED <<at, toServer, toClient, clientMsg, answers>>
  BY DEF Finish, history
<1>3. LastWriteFails'
  BY <1>2, FinishResets, LastWriteStep DEF TalkInv
<1>4. ZeroAtExit'
  BY <1>1, <1>2 DEF TalkInv, ZeroAtExit
<1>5. QuitComesLast'
  BY <1>2 DEF TalkInv, QuitComesLast, PartOfGreeting
<1>6. AnswersCounted'
  <2>1. Server \in Programs /\ Client \in Programs
    BY Two
  <2>2. Ended(Client) => Ended(Client)'
    BY <1>1, <2>1 DEF Ended
  <2> QED
    BY <1>1, <1>2, <2>1, <2>2 DEF TalkInv, AnswersCounted
<1> QED
  BY <1>3, <1>4, <1>5, <1>6 DEF TalkInv

\* Before the end of the server no call of the client finds nothing to read.
LEMMA ReadNothingByGone ==
  ASSUME PingInv, NEW p \in Programs, Closed(p) \/ Failing(p)
  PROVE  Ended(Peer[p]) /\ ~ Unread(p)
BY DEF PingInv, ResetByGone, Closed, Failing, Gone

LEMMA ServerTalk ==
  ASSUME RunnerInv, PingInv, TalkInv, ServerStep
  PROVE  TalkInv'
<1>0. /\ toServer \in Seq(Chars) /\ toClient \in Nat /\ clientMsg \in Seq(Chars)
      /\ Server \in Programs /\ Client \in Programs /\ Server # Client
      /\ Peer[Server] = Client
      /\ at \in [Programs -> {"listen", "accept", "read", "write", "last write", "exit", "connect",
             "write greeting", "read answer", "write QUIT", "read last"}]
  BY Two, Peers DEF PingInv, PingType
<1>1. CASE Listen \/ Accept
  <2>1. /\ UNCHANGED <<child, toServer, toClient, reset, errors, clientMsg, answers>>
        /\ child[Server] = "running"
    BY <1>1 DEF Listen, Accept, At, Running, runnerVars, connection, resets, history
  <2>2. PICK where \in {"accept", "read"} : at' = [at EXCEPT ![Server] = where]
    BY <1>1 DEF Listen, Accept, Goto
  <2>3. at'[Client] = at[Client] /\ at'[Server] = where
    BY <1>0, <2>2
  <2>4. QuitComesLast'
    BY <2>1, <2>3 DEF TalkInv, QuitComesLast, PartOfGreeting
  <2>5. ZeroAtExit'
    BY <1>0, <2>1, <2>2 DEF TalkInv, ZeroAtExit
  <2>6. LastWriteFails' /\ AnswersCounted'
    BY <2>1, <2>3 DEF TalkInv, LastWriteFails, AnswersCounted, Ended
  <2> QED
    BY <2>4, <2>5, <2>6 DEF TalkInv
<1>2. CASE ServerRead
  <2>1. /\ UNCHANGED <<child, toClient, reset, errors, answers>>
        /\ child[Server] = "running" /\ at' = [at EXCEPT ![Server] = "write"]
    BY <1>2 DEF ServerRead, At, Goto, Running, runnerVars, resets
  <2>2. PICK k \in 1 .. Len(toServer) :
          /\ clientMsg' = SubSeq(toServer, 1, k)
          /\ toServer' = SubSeq(toServer, k + 1, Len(toServer))
    BY <1>2 DEF ServerRead
  <2>3. at'[Client] = at[Client] /\ at'[Server] = "write"
    BY <1>0, <2>1
  <2>4. PartOfGreeting(toServer) => PartOfGreeting(clientMsg') /\ PartOfGreeting(toServer')
    BY <1>0, <2>2, PartOfRead
  <2>5. toServer # <<>>
    BY <1>2 DEF ServerRead
  <2>6. QuitComesLast'
    BY <2>3, <2>4, <2>5 DEF TalkInv, QuitComesLast, PartOfGreeting
  <2>7. ZeroAtExit'
    BY <1>0, <2>1 DEF TalkInv, ZeroAtExit
  <2>8. LastWriteFails' /\ AnswersCounted'
    BY <2>1, <2>3 DEF TalkInv, LastWriteFails, AnswersCounted, Ended
  <2> QED
    BY <2>6, <2>7, <2>8 DEF TalkInv
<1>3. CASE ServerReadNothing
  <2>1. /\ UNCHANGED <<child, toServer, toClient, reset, answers>> /\ errors' = errors \ {Server}
        /\ child[Server] = "running" /\ clientMsg' = <<>>
    BY <1>3 DEF ServerReadNothing, At, Reported, Running, runnerVars, history
  <2>2. PICK where \in {"write", "last write"} :
          /\ at' = [at EXCEPT ![Server] = where]
          /\ where = "last write" => Server \in errors
    BY <1>3 DEF ServerReadNothing, Goto, Failing
  <2>3. at'[Client] = at[Client] /\ at'[Server] = where
    BY <1>0, <2>2
  <2>4. QuitComesLast'
    BY <2>1, <2>3, PartOf DEF TalkInv, QuitComesLast, PartOfGreeting
  <2>5. ZeroAtExit'
    BY <1>0, <2>1, <2>2 DEF TalkInv, ZeroAtExit
  <2>6. LastWriteFails' /\ AnswersCounted'
    BY <2>1, <2>2, <2>3 DEF TalkInv, LastWriteFails, AnswersCounted, Ended, PingInv, ResetByGone
  <2> QED
    BY <2>4, <2>5, <2>6 DEF TalkInv
<1>4. ASSUME NEW where \in {"write", "last write"}, ServerWrite(where)
      PROVE  TalkInv'
  <2>1. /\ UNCHANGED <<child, toServer, clientMsg, answers>>
        /\ child[Server] = "running" /\ at[Server] = where
        /\ Sent(Server) \/ NotSent(Server)
    BY <1>4 DEF ServerWrite, At, Running, runnerVars, history
  <2>2. where = "write"
    BY <2>1 DEF TalkInv, LastWriteFails, Sent, NotSent
  <2>3. at' = [at EXCEPT ![Server] = IF IsQuit(clientMsg) THEN "exit" ELSE "read"]
    BY <1>4, <2>2 DEF ServerWrite, Goto
  <2>4. at'[Client] = at[Client] /\ at'[Server] = IF IsQuit(clientMsg) THEN "exit" ELSE "read"
    BY <1>0, <2>3
  <2>5. QuitComesLast'
    BY <2>1, <2>4 DEF TalkInv, QuitComesLast, PartOfGreeting
  <2>6. ZeroAtExit'
    BY <1>0, <2>1, <2>3, <2>4 DEF TalkInv, ZeroAtExit, IsQuit
  <2>7. toClient + AnswerLen(clientMsg) > 0
    BY <1>0, AnswerBytes
  <2>8. ~ Ended(Client) => toClient' > 0
    <3>1. SUFFICES ASSUME ~ Ended(Client) PROVE toClient' > 0
      OBVIOUS
    <3>2. ~ NotSent(Server) /\ ~ Gone(Server)
      BY <1>0, <3>1 DEF NotSent, Gone, PingInv, ResetByGone
    <3>3. toClient' = toClient + AnswerLen(clientMsg)
      BY <1>4, <3>2 DEF ServerWrite
    <3> QED
      BY <2>7, <3>3
  <2>9. LastWriteFails' /\ AnswersCounted'
    BY <2>1, <2>4, <2>8 DEF TalkInv, LastWriteFails, AnswersCounted, Ended
  <2> QED
    BY <2>5, <2>6, <2>9 DEF TalkInv
<1>5. CASE ListenFails \/ AcceptFails \/ BrokenPipe(Server) \/ ExitZero(Server)
  BY <1>0, <1>5, FinishTalk DEF ListenFails, AcceptFails, BrokenPipe, ExitZero, ExitCodes, At
<1> QED
  BY <1>1, <1>2, <1>3, <1>4, <1>5 DEF ServerStep

LEMMA ClientTalk ==
  ASSUME RunnerInv, PingInv, TalkInv, ClientStep
  PROVE  TalkInv'
<1>0. /\ toServer \in Seq(Chars) /\ toClient \in Nat /\ clientMsg \in Seq(Chars)
      /\ Server \in Programs /\ Client \in Programs /\ Server # Client
      /\ Peer[Client] = Server
      /\ at \in [Programs -> {"listen", "accept", "read", "write", "last write", "exit", "connect",
             "write greeting", "read answer", "write QUIT", "read last"}]
  BY Two, Peers DEF PingInv, PingType
<1>1. CASE Connect
  <2>1. /\ UNCHANGED <<child, toServer, toClient, reset, errors, clientMsg, answers>>
        /\ child[Client] = "running" /\ at[Client] = "connect"
        /\ at' = [at EXCEPT ![Client] = "write greeting"]
    BY <1>1 DEF Connect, At, Goto, Running, runnerVars, resets, history
  <2>2. at'[Server] = at[Server] /\ at'[Client] = "write greeting"
    BY <1>0, <2>1
  <2>3. QuitComesLast'
    BY <2>1, <2>2 DEF TalkInv, QuitComesLast, PartOfGreeting
  <2>4. ZeroAtExit'
    BY <1>0, <2>1 DEF TalkInv, ZeroAtExit
  <2>5. LastWriteFails' /\ AnswersCounted'
    BY <2>1, <2>2 DEF TalkInv, LastWriteFails, AnswersCounted, Ended
  <2> QED
    BY <2>3, <2>4, <2>5 DEF TalkInv
<1>2. ASSUME NEW where, NEW msg, NEW then \in {"read answer", "read last"},
             ClientWrite(where, msg, then)
      PROVE  /\ UNCHANGED <<child, toClient, clientMsg, answers>>
             /\ child[Client] = "running" /\ at[Client] = where
             /\ at' = [at EXCEPT ![Client] = then]
             /\ toServer' = toServer \/ toServer' = toServer \o msg
             /\ at'[Server] = at[Server] /\ at'[Client] = then
             /\ LastWriteFails' /\ ZeroAtExit'
  <2>1. /\ UNCHANGED <<child, toClient, clientMsg, answers>>
        /\ child[Client] = "running" /\ at[Client] = where
        /\ at' = [at EXCEPT ![Client] = then]
        /\ Sent(Client) \/ NotSent(Client)
        /\ toServer' = toServer \/ toServer' = toServer \o msg
    BY <1>2 DEF ClientWrite, At, Goto, Running, runnerVars, history
  <2>2. at'[Server] = at[Server] /\ at'[Client] = then
    BY <1>0, <2>1
  <2>3. LastWriteFails'
    BY <2>1, <2>2, SendResets, LastWriteStep DEF TalkInv
  <2>4. ZeroAtExit'
    BY <1>0, <2>1, <2>2 DEF TalkInv, ZeroAtExit
  <2> QED
    BY <2>1, <2>2, <2>3, <2>4
<1>3. CASE ClientWrite("write greeting", Greeting, "read answer")
  <2>1. toServer = <<>> /\ PartOfGreeting(clientMsg)
    BY <1>2, <1>3 DEF TalkInv, QuitComesLast
  <2>2. toServer' = <<>> \/ toServer' = Greeting
    <3>1. Greeting \in Seq(Chars)
      BY PingAssumption
    <3>2. <<>> \o Greeting = Greeting
      BY <3>1, ConcatEmptySeq
    <3> QED
      BY <1>2, <1>3, <2>1, <3>2
  <2>5. clientMsg' = clientMsg /\ at'[Client] = "read answer"
    BY <1>2, <1>3
  <2>6. PartOfGreeting(toServer') /\ PartOfGreeting(clientMsg')
    BY <2>1, <2>2, <2>5, PartOf
  <2>3. QuitComesLast'
    BY <2>5, <2>6 DEF QuitComesLast, PartOfGreeting
  <2>4. AnswersCounted'
    BY <1>2, <1>3 DEF TalkInv, AnswersCounted
  <2> QED
    BY <1>2, <1>3, <2>3, <2>4 DEF TalkInv
<1>4. CASE ClientWrite("write QUIT", QUIT, "read last")
  <2>1. PartOfGreeting(clientMsg)
    BY <1>2, <1>4 DEF TalkInv, QuitComesLast
  <2>2. at[Server] # "exit"
    BY <1>0, <2>1, PartOf DEF TalkInv, ZeroAtExit
  <2>3. QuitComesLast'
    BY <1>2, <1>4 DEF QuitComesLast
  <2>4. AnswersCounted'
    BY <1>2, <1>4, <2>2 DEF TalkInv, AnswersCounted
  <2> QED
    BY <1>2, <1>4, <2>3, <2>4 DEF TalkInv
<1>5. ASSUME NEW where, NEW then \in {"write QUIT", "exit"},
             ClientRead(where, then) \/ ClientReadNothing(where, then)
      PROVE  /\ UNCHANGED <<child, toServer, clientMsg>>
             /\ child[Client] = "running" /\ at[Client] = where
             /\ at' = [at EXCEPT ![Client] = then]
             /\ at'[Server] = at[Server] /\ at'[Client] = then
             /\ \/ answers' = answers + 1
                \/ answers' = answers /\ Ended(Server) /\ ~ (toClient > 0)
             /\ LastWriteFails' /\ ZeroAtExit'
  <2>1. /\ UNCHANGED <<child, toServer, clientMsg, reset>> /\ errors' \subseteq errors
        /\ child[Client] = "running" /\ at[Client] = where
        /\ at' = [at EXCEPT ![Client] = then]
    BY <1>5 DEF ClientRead, ClientReadNothing, At, Goto, Running, Reported, runnerVars, resets
  <2>2. at'[Server] = at[Server] /\ at'[Client] = then
    BY <1>0, <2>1
  <2>3. LastWriteFails'
    BY <2>1, <2>2, LastWriteStep DEF TalkInv
  <2>4. ZeroAtExit'
    BY <1>0, <2>1, <2>2 DEF TalkInv, ZeroAtExit
  <2>5. \/ answers' = answers + 1
        \/ answers' = answers /\ Ended(Server) /\ ~ (toClient > 0)
    BY <1>0, <1>5, ReadNothingByGone DEF ClientRead, ClientReadNothing, history, Unread
  <2> QED
    BY <2>1, <2>2, <2>3, <2>4, <2>5
<1>6. CASE \/ ClientRead("read answer", "write QUIT")
           \/ ClientReadNothing("read answer", "write QUIT")
  <2>0. /\ UNCHANGED <<child, toServer, clientMsg>>
        /\ at[Client] = "read answer" /\ at'[Client] = "write QUIT" /\ at'[Server] = at[Server]
        /\ answers' = answers + 1 \/ Ended(Server)
    BY <1>5, <1>6
  <2>1. PartOfGreeting(toServer) /\ PartOfGreeting(clientMsg)
    BY <2>0 DEF TalkInv, QuitComesLast
  <2>2. at[Server] # "exit" /\ child[Server] # "zero"
    BY <1>0, <2>1, PartOf DEF TalkInv, ZeroAtExit
  <2>3. QuitComesLast'
    BY <2>0, <2>1 DEF QuitComesLast, PartOfGreeting
  <2>4. ASSUME child[Server] \in {"none", "running", "zero"} PROVE answers' = 1
    <3>1. answers = 0
      BY <2>0, <2>4 DEF TalkInv, AnswersCounted
    <3>2. answers' = answers + 1
      BY <2>0, <2>2, <2>4 DEF Ended, ExitCodes
    <3> QED
      BY <3>1, <3>2
  <2>5. AnswersCounted'
    BY <2>0, <2>4 DEF AnswersCounted
  <2> QED
    BY <1>5, <1>6, <2>3, <2>5 DEF TalkInv
<1>7. CASE ClientRead("read last", "exit") \/ ClientReadNothing("read last", "exit")
  <2>0. /\ child[Client] = "running" /\ UNCHANGED child
        /\ at[Client] = "read last" /\ at'[Client] = "exit" /\ at'[Server] = at[Server]
        /\ answers' = answers + 1 \/ (Ended(Server) /\ ~ (toClient > 0))
    BY <1>5, <1>7
  <2>1. child[Server] = "zero" => toClient > 0
    BY <1>0, <2>0 DEF TalkInv, AnswersCounted, ZeroAtExit, Ended, ExitCodes
  <2>2. QuitComesLast'
    BY <1>5, <1>7 DEF QuitComesLast
  <2>3. ASSUME child[Server] \in {"none", "running", "zero"} PROVE answers' = 2
    <3>1. answers = 1
      BY <2>0, <2>3 DEF TalkInv, AnswersCounted
    <3>2. answers' = answers + 1
      BY <2>0, <2>1, <2>3 DEF Ended, ExitCodes
    <3> QED
      BY <3>1, <3>2
  <2>4. AnswersCounted'
    BY <2>0, <2>3 DEF AnswersCounted
  <2> QED
    BY <1>5, <1>7, <2>2, <2>4 DEF TalkInv
<1>8. CASE ConnectRefused \/ BrokenPipe(Client) \/ ExitZero(Client)
  BY <1>0, <1>8, FinishTalk DEF ConnectRefused, BrokenPipe, ExitZero, ExitCodes, At
<1> QED
  BY <1>1, <1>3, <1>4, <1>6, <1>7, <1>8 DEF ClientStep

LEMMA TalkStep == RunnerInv /\ PingInv /\ TalkInv /\ [Next]_vars => TalkInv'
<1> SUFFICES ASSUME RunnerInv, PingInv, TalkInv, [Next]_vars PROVE TalkInv'
  OBVIOUS
<1>1. CASE (RunnerMain \/ Interrupt) /\ UNCHANGED pingVars
  BY <1>1, RunnerTalk
<1>2. CASE \E p \in Programs : Killed(p)
  BY <1>2, FinishTalk DEF Killed, ExitCodes
<1>3. CASE UNCHANGED vars
  <2>1. UNCHANGED <<at, toServer, toClient, reset, errors, clientMsg, answers, child>>
    BY <1>3 DEF vars, runnerVars, pingVars, connection, resets, history
  <2> QED
    BY <2>1 DEF TalkInv, LastWriteFails, ZeroAtExit, QuitComesLast, AnswersCounted, PartOfGreeting,
       Ended, IsQuit
<1> QED
  BY <1>1, <1>2, <1>3, ServerTalk, ClientTalk DEF Next

\* What is said holds in every state that the two programs and their runner reach.
THEOREM Talk == Spec => [](RunnerInv /\ PingInv /\ TalkInv)
<1>1. Spec => []RunnerInv
  BY ImplementsRunner, RunnerInvariant
<1> QED
  BY <1>1, PingInit, PingStep, TalkInit, TalkStep, PTL DEF Spec

\* A runner that answers 0 has seen the whole conversation, and a server that returns 0 has
\* read QUIT, however reads cut the messages and whichever of them fail.
THEOREM SuccessIsTheConversation == Spec => []SuccessIsConversation
<1>1. RunnerInv /\ TalkInv => SuccessIsConversation
  <2> SUFFICES ASSUME RunnerInv, TalkInv PROVE SuccessIsConversation
    OBVIOUS
  <2>1. Server \in Programs /\ Client \in Programs
    BY Two
  <2>2. ASSUME pc = "returned", answer = "zero" PROVE answers = 2
    <3>1. child[Server] = "zero" /\ child[Client] = "zero"
      BY <2>1, <2>2 DEF RunnerInv, AnswerIsTheirs, ExitCodes
    <3> QED
      BY <2>1, <3>1 DEF TalkInv, ZeroAtExit, AnswersCounted
  <2> QED
    BY <2>1, <2>2 DEF TalkInv, ZeroAtExit, SuccessIsConversation
<1> QED
  BY <1>1, Talk, PTL

----------------------------------------------------------------------------
(***************************************************************************)
(* The conversation as long as every read returns one message: who has to    *)
(* say something, the client or the server, and what.                       *)
(***************************************************************************)
Calm == ~ torn /\ child[Client] # "killed" /\ ~ Ended(Server)

Silence == toServer = <<>> /\ toClient = 0

InStep ==
  /\ at[Client] = "connect" => at[Server] \in {"listen", "accept"} /\ Silence
  /\ at[Client] = "write greeting" => at[Server] \in {"accept", "read"} /\ Silence
  /\ at[Client] = "read answer" =>
       \/ at[Server] \in {"accept", "read"} /\ toServer = Greeting /\ toClient = 0
       \/ at[Server] = "write" /\ clientMsg = Greeting /\ Silence
       \/ at[Server] = "read" /\ toServer = <<>> /\ toClient > 0
  /\ at[Client] = "write QUIT" => at[Server] = "read" /\ Silence
  /\ at[Client] = "read last" =>
       \/ at[Server] = "read" /\ toServer = QUIT /\ toClient = 0
       \/ at[Server] = "write" /\ clientMsg = QUIT /\ Silence
       \/ at[Server] = "exit" /\ toServer = <<>> /\ toClient > 0
  /\ at[Client] = "exit" => at[Server] = "exit"

\* A client fails only where it connects.
FailsAtConnect ==
  /\ child[Client] = "failure" => at[Client] = "connect"
  /\ connected => at[Client] # "connect"
  /\ at[Client] \in {"connect", "write greeting", "read answer", "write QUIT", "read last", "exit"}

StepInv == (Calm => InStep) /\ FailsAtConnect /\ SigpipeHasCause

\* A client that has ended without being killed did so at one of its two ends.
LEMMA CalmEnds ==
  ASSUME Calm, FailsAtConnect, ZeroAtExit, Ended(Client)
  PROVE  at[Client] \in {"connect", "exit"}
BY Two DEF Calm, FailsAtConnect, ZeroAtExit, Ended, ExitCodes

\* A read that returns one message has taken all that there was of it.
LEMMA WholeMessage ==
  ASSUME NEW msg \in {Greeting, QUIT}, NEW k \in 1 .. Len(msg),
         SubSeq(msg, 1, k) \in {Greeting, QUIT}
  PROVE  SubSeq(msg, 1, k) = msg /\ SubSeq(msg, k + 1, Len(msg)) = <<>>
<1>1. /\ Greeting \in Seq(Chars) /\ QUIT \in Seq(Chars) /\ 1 \in 1 .. Len(msg)
      /\ \A i, j \in 1 .. Len(Greeting) : SubSeq(Greeting, i, j) # QUIT
      /\ \A j \in 1 .. Len(QUIT) : SubSeq(QUIT, 1, j) # Greeting
  BY PingAssumption
<1>2. SubSeq(msg, 1, k) = msg
  BY <1>1
<1>3. Len(SubSeq(msg, 1, k)) = k
  BY <1>1
<1> QED
  BY <1>1, <1>2, <1>3

LEMMA StepKept ==
  ASSUME Calm => InStep, Calm' => Calm, UNCHANGED <<at, toServer, toClient, clientMsg>>
  PROVE  (Calm => InStep)'
BY DEF InStep, Silence

LEMMA FinishStep ==
  ASSUME RunnerInv, PingInv, TalkInv, StepInv, NEW p \in Programs, NEW code \in ExitCodes,
         Finish(p, code), p = Client /\ code = "failure" => at[p] = "connect",
         code = "killed" => signal[p] # "none" \/ BrokenPipe(p)
  PROVE  StepInv'
<1>1. /\ child' = [child EXCEPT ![p] = code] /\ child[p] = "running"
      /\ child \in [Programs -> ExitCodes \cup {"none", "running"}]
      /\ Server \in Programs /\ Client \in Programs /\ Server # Client
      /\ UNCHANGED <<at, toServer, toClient, connected, clientMsg, torn, signal>>
  BY Two DEF Finish, End, Running, RunnerInv, RunnerType, history
<1>2. Calm' => Calm
  BY <1>1 DEF Calm, Ended, ExitCodes
<1>3. FailsAtConnect'
  BY <1>1 DEF StepInv, FailsAtConnect
<1>4. SigpipeHasCause'
  <2>1. CASE p = Server /\ code = "killed" /\ signal[Server] = "none"
    <3>1. at[Server] \in {"write", "last write", "write greeting", "write QUIT"} /\ Server \in reset
      BY <2>1 DEF BrokenPipe
    <3>2. Ended(Client)
      BY <3>1, Peers DEF PingInv, ResetByGone
    <3>3. ~ Calm
      BY <3>1, <3>2, CalmEnds DEF StepInv, TalkInv, InStep
    <3> QED
      BY <1>1, <2>1, <3>3 DEF Calm, Ended, ExitCodes, SigpipeHasCause
  <2>2. CASE ~ (p = Server /\ code = "killed" /\ signal[Server] = "none")
    BY <1>1, <2>2 DEF StepInv, SigpipeHasCause
  <2> QED
    BY <2>1, <2>2
<1> QED
  BY <1>1, <1>2, <1>3, <1>4, StepKept DEF StepInv

\* Every other step of the two programs leaves the runner alone.
LEMMA SigpipeKept ==
  ASSUME SigpipeHasCause, UNCHANGED <<child, signal>>, torn => torn'
  PROVE  SigpipeHasCause'
BY DEF SigpipeHasCause

LEMMA ServerInStep ==
  ASSUME RunnerInv, PingInv, TalkInv, StepInv, ServerStep
  PROVE  StepInv'
<1>0. /\ toServer \in Seq(Chars) /\ toClient \in Nat /\ clientMsg \in Seq(Chars)
      /\ Server \in Programs /\ Client \in Programs /\ Server # Client
      /\ Peer[Server] = Client 
      /\ at \in [Programs -> {"listen", "accept", "read", "write", "last write", "exit", "connect",
             "write greeting", "read answer", "write QUIT", "read last"}]
  BY Two, Peers DEF PingInv, PingType
<1>1. ASSUME UNCHANGED <<child, signal, connected>>, torn => torn', at'[Client] = at[Client],
             Calm /\ Calm' => InStep'
      PROVE  StepInv'
  <2>1. Calm' => Calm
    BY <1>1 DEF Calm, Ended
  <2> QED
    BY <1>1, <2>1, SigpipeKept DEF StepInv, FailsAtConnect
<1>2. CASE Listen \/ Accept
  <2>1. /\ UNCHANGED <<child, signal, connected, toServer, toClient, clientMsg, torn>>
        /\ \/ at[Server] = "listen" /\ at' = [at EXCEPT ![Server] = "accept"]
           \/ at[Server] = "accept" /\ at' = [at EXCEPT ![Server] = "read"] /\ connected
    BY <1>2 DEF Listen, Accept, At, Goto, runnerVars, connection, history
  <2>2. at'[Client] = at[Client]
    BY <1>0, <2>1
  <2>3. \/ at[Server] = "listen" /\ at'[Server] = "accept"
        \/ at[Server] = "accept" /\ at'[Server] = "read" /\ at[Client] # "connect"
    BY <1>0, <2>1 DEF StepInv, FailsAtConnect
  <2>4. ASSUME Calm PROVE InStep'
    BY <2>1, <2>2, <2>3, <2>4 DEF StepInv, InStep, Silence
  <2> QED
    BY <1>1, <2>1, <2>2, <2>4
<1>3. CASE ServerRead
  <2>1. /\ UNCHANGED <<child, signal, connected, toClient>> /\ at' = [at EXCEPT ![Server] = "write"]
        /\ at[Server] = "read" /\ toServer # <<>>
        /\ torn' = (torn \/ clientMsg' \notin {Greeting, QUIT})
    BY <1>3 DEF ServerRead, At, Goto, runnerVars
  <2>2. PICK k \in 1 .. Len(toServer) :
          /\ clientMsg' = SubSeq(toServer, 1, k)
          /\ toServer' = SubSeq(toServer, k + 1, Len(toServer))
    BY <1>3 DEF ServerRead
  <2>3. ASSUME Calm, Calm' PROVE InStep'
    <3>1. \/ at[Client] = "read answer" /\ toServer = Greeting /\ toClient = 0
          \/ at[Client] = "read last" /\ toServer = QUIT /\ toClient = 0
      BY <2>1, <2>3 DEF StepInv, InStep, FailsAtConnect, Silence
    <3>2. clientMsg' \in {Greeting, QUIT}
      BY <2>1, <2>3 DEF Calm
    <3>3. clientMsg' = toServer /\ toServer' = <<>>
      BY <2>2, <3>1, <3>2, WholeMessage
    <3> QED
      BY <1>0, <2>1, <3>1, <3>3 DEF InStep, Silence
  <2> QED
    BY <1>0, <1>1, <2>1, <2>3
<1>4. CASE ServerReadNothing
  <2>1. /\ UNCHANGED <<child, signal, connected, toServer, toClient, torn>> /\ at[Server] = "read"
        /\ Ended(Client) /\ ~ Unread(Server)
    BY <1>0, <1>4, ReadNothingByGone DEF ServerReadNothing, At, runnerVars, history
  <2>2. PICK where \in {"write", "last write"} : at' = [at EXCEPT ![Server] = where]
    BY <1>4 DEF ServerReadNothing, Goto
  <2>3. ~ Calm
    BY <2>1, CalmEnds DEF StepInv, TalkInv, InStep
  <2> QED
    BY <1>0, <1>1, <2>1, <2>2, <2>3
<1>5. ASSUME NEW where \in {"write", "last write"}, ServerWrite(where)
      PROVE  StepInv'
  <2>1. /\ UNCHANGED <<child, signal, connected, toServer, clientMsg, torn>> /\ at[Server] = where
        /\ at' = [at EXCEPT ![Server] = IF where = "last write" \/ IsQuit(clientMsg)
                                        THEN "exit" ELSE "read"]
    BY <1>5 DEF ServerWrite, At, Goto, runnerVars, history
  <2>2. ASSUME Calm PROVE InStep'
    <3>1. /\ where = "write" /\ toServer = <<>>
          /\ \/ at[Client] = "read answer" /\ clientMsg = Greeting
             \/ at[Client] = "read last" /\ clientMsg = QUIT
      BY <2>1, <2>2 DEF StepInv, InStep, FailsAtConnect, Silence
    <3>2. ~ Ended(Client)
      BY <2>2, <3>1, CalmEnds DEF StepInv, TalkInv
    <3>3. ~ NotSent(Server) /\ ~ Gone(Server)
      BY <1>0, <3>2 DEF NotSent, Gone, PingInv, ResetByGone
    <3>4. toClient' = toClient + AnswerLen(clientMsg)
      BY <1>5, <3>3 DEF ServerWrite
    <3>5. toClient' > 0
      BY <1>0, <3>4, AnswerBytes
    <3>6. IsQuit(clientMsg) <=> at[Client] = "read last"
      BY <3>1, PartOf, PingAssumption DEF IsQuit
    <3> QED
      BY <1>0, <2>1, <3>1, <3>5, <3>6 DEF InStep
  <2> QED
    BY <1>0, <1>1, <2>1, <2>2
<1>6. CASE ListenFails \/ AcceptFails \/ BrokenPipe(Server) \/ ExitZero(Server)
  BY <1>0, <1>6, FinishStep DEF ListenFails, AcceptFails, BrokenPipe, ExitZero, ExitCodes
<1> QED
  BY <1>2, <1>3, <1>4, <1>5, <1>6 DEF ServerStep

\* A read that leaves nothing.
LEMMA BytesAllTaken ==
  ASSUME NEW n \in Nat, NEW k \in 1 .. n, ~ (k < n)
  PROVE  n - k = 0 /\ n > 0 /\ n # 0
OBVIOUS

LEMMA ClientInStep ==
  ASSUME RunnerInv, PingInv, TalkInv, StepInv, ClientStep
  PROVE  StepInv'
<1>0. /\ toServer \in Seq(Chars) /\ toClient \in Nat
      /\ Server \in Programs /\ Client \in Programs /\ Server # Client
      /\ Peer[Client] = Server
      /\ at \in [Programs -> {"listen", "accept", "read", "write", "last write", "exit", "connect",
             "write greeting", "read answer", "write QUIT", "read last"}]
  BY Two, Peers DEF PingInv, PingType
<1>1. ASSUME NEW where \in {"write greeting", "read answer", "write QUIT", "read last", "exit"},
             at' = [at EXCEPT ![Client] = where],
             UNCHANGED <<child, signal>>, torn => torn',
             child[Client] = "running", Calm /\ Calm' => InStep'
      PROVE  StepInv'
  <2>1. Calm' => Calm
    BY <1>1 DEF Calm, Ended
  <2>2. at'[Client] = where
    BY <1>0, <1>1
  <2> QED
    BY <1>1, <2>1, <2>2, SigpipeKept DEF StepInv, FailsAtConnect
<1>2. CASE Connect
  <2>1. /\ UNCHANGED <<child, signal, toServer, toClient, clientMsg, torn>>
        /\ child[Client] = "running" /\ at[Client] = "connect" /\ at[Server] # "listen"
        /\ at' = [at EXCEPT ![Client] = "write greeting"]
    BY <1>2 DEF Connect, Listening, At, Goto, Running, runnerVars, history
  <2>2. at'[Client] = "write greeting" /\ at'[Server] = at[Server]
    BY <1>0, <2>1
  <2>3. ASSUME Calm PROVE InStep'
    BY <2>1, <2>2, <2>3 DEF StepInv, InStep, Silence
  <2> QED
    BY <1>1, <2>1, <2>3
<1>3. ASSUME NEW where, NEW msg \in {Greeting, QUIT},
             NEW then \in {"read answer", "read last"}, ClientWrite(where, msg, then)
      PROVE  /\ UNCHANGED <<child, signal, toClient, clientMsg, torn>>
             /\ child[Client] = "running" /\ at[Client] = where
             /\ at' = [at EXCEPT ![Client] = then]
             /\ at'[Client] = then /\ at'[Server] = at[Server]
             /\ Calm /\ toServer = <<>> => toServer' = msg
  <2>1. /\ UNCHANGED <<child, signal, toClient, clientMsg, torn>>
        /\ child[Client] = "running" /\ at[Client] = where
        /\ at' = [at EXCEPT ![Client] = then]
    BY <1>3 DEF ClientWrite, At, Goto, Running, runnerVars, history
  <2>2. at'[Client] = then /\ at'[Server] = at[Server]
    BY <1>0, <2>1
  <2>3. ASSUME Calm, toServer = <<>> PROVE toServer' = msg
    <3>1. ~ NotSent(Client) /\ ~ Gone(Client)
      BY <1>0, <2>3 DEF NotSent, Gone, PingInv, ResetByGone, Calm
    <3>2. toServer' = <<>> \o msg
      BY <1>3, <2>3, <3>1 DEF ClientWrite
    <3>3. msg \in Seq(Chars)
      BY PingAssumption
    <3> QED
      BY <3>2, <3>3, ConcatEmptySeq
  <2> QED
    BY <2>1, <2>2, <2>3
<1>4. CASE ClientWrite("write greeting", Greeting, "read answer")
  <2>1. /\ UNCHANGED <<child, signal, toClient, clientMsg, torn>>
        /\ child[Client] = "running" /\ at[Client] = "write greeting"
        /\ at' = [at EXCEPT ![Client] = "read answer"]
        /\ at'[Client] = "read answer" /\ at'[Server] = at[Server]
        /\ Calm /\ toServer = <<>> => toServer' = Greeting
    BY <1>3, <1>4
  <2>2. ASSUME Calm PROVE InStep'
    BY <2>1, <2>2 DEF StepInv, InStep, Silence
  <2> QED
    BY <1>1, <2>1, <2>2
<1>5. CASE ClientWrite("write QUIT", QUIT, "read last")
  <2>1. /\ UNCHANGED <<child, signal, toClient, clientMsg, torn>>
        /\ child[Client] = "running" /\ at[Client] = "write QUIT"
        /\ at' = [at EXCEPT ![Client] = "read last"]
        /\ at'[Client] = "read last" /\ at'[Server] = at[Server]
        /\ Calm /\ toServer = <<>> => toServer' = QUIT
    BY <1>3, <1>5
  <2>2. ASSUME Calm PROVE InStep'
    BY <2>1, <2>2 DEF StepInv, InStep, Silence
  <2> QED
    BY <1>1, <2>1, <2>2
<1>6. ASSUME NEW where, NEW then \in {"write QUIT", "exit"},
             ClientRead(where, then) \/ ClientReadNothing(where, then)
      PROVE  /\ UNCHANGED <<child, signal, toServer, clientMsg>> /\ (torn => torn')
             /\ child[Client] = "running" /\ at[Client] = where
             /\ at' = [at EXCEPT ![Client] = then]
             /\ at'[Client] = then /\ at'[Server] = at[Server]
             /\ Calm /\ Calm' => toClient > 0 /\ toClient # 0 /\ toClient' = 0
  <2>1. /\ UNCHANGED <<child, signal, toServer, clientMsg>>
        /\ child[Client] = "running" /\ at[Client] = where
        /\ at' = [at EXCEPT ![Client] = then]
    BY <1>6 DEF ClientRead, ClientReadNothing, At, Goto, Running, runnerVars
  <2>4. torn => torn'
    BY <1>6, Zenon DEF ClientRead, ClientReadNothing, history
  <2>2. at'[Client] = then /\ at'[Server] = at[Server]
    BY <1>0, <2>1
  <2>3. ASSUME Calm, Calm' PROVE toClient > 0 /\ toClient # 0 /\ toClient' = 0
    <3>1. ~ ClientReadNothing(where, then)
      BY <1>0, <2>3, ReadNothingByGone DEF ClientReadNothing, Calm
    <3>2. PICK k \in 1 .. toClient : toClient' = toClient - k /\ torn' = (torn \/ k < toClient)
      BY <1>6, <3>1 DEF ClientRead
    <3>3. ~ (k < toClient)
      BY <2>3, <3>2 DEF Calm
    <3> QED
      BY <1>0, <3>2, <3>3, BytesAllTaken
  <2> QED
    BY <2>1, <2>2, <2>3, <2>4
<1>7. CASE \/ ClientRead("read answer", "write QUIT")
           \/ ClientReadNothing("read answer", "write QUIT")
  <2>1. /\ UNCHANGED <<child, signal, toServer, clientMsg>> /\ (torn => torn')
        /\ child[Client] = "running" /\ at[Client] = "read answer"
        /\ at' = [at EXCEPT ![Client] = "write QUIT"]
        /\ at'[Client] = "write QUIT" /\ at'[Server] = at[Server]
        /\ Calm /\ Calm' => toClient > 0 /\ toClient # 0 /\ toClient' = 0
    BY <1>6, <1>7
  <2>2. ASSUME Calm, Calm' PROVE InStep'
    BY <2>1, <2>2 DEF StepInv, InStep, Silence
  <2> QED
    BY <1>1, <2>1, <2>2
<1>8. CASE ClientRead("read last", "exit") \/ ClientReadNothing("read last", "exit")
  <2>1. /\ UNCHANGED <<child, signal, toServer, clientMsg>> /\ (torn => torn')
        /\ child[Client] = "running" /\ at[Client] = "read last"
        /\ at' = [at EXCEPT ![Client] = "exit"]
        /\ at'[Client] = "exit" /\ at'[Server] = at[Server]
        /\ Calm /\ Calm' => toClient > 0 /\ toClient # 0 /\ toClient' = 0
    BY <1>6, <1>8
  <2>2. ASSUME Calm, Calm' PROVE InStep'
    BY <2>1, <2>2 DEF StepInv, InStep, Silence
  <2> QED
    BY <1>1, <2>1, <2>2
<1>9. CASE ConnectRefused \/ BrokenPipe(Client) \/ ExitZero(Client)
  BY <1>0, <1>9, FinishStep DEF ConnectRefused, At, BrokenPipe, ExitZero, ExitCodes
<1> QED
  BY <1>2, <1>4, <1>5, <1>7, <1>8, <1>9 DEF ClientStep

\* The runner starts programs and sends signals, none of which it takes back.
LEMMA RunnerInStep ==
  ASSUME RunnerInv, StepInv, RunnerMain \/ Interrupt, UNCHANGED pingVars
  PROVE  StepInv'
<1>1. /\ \A p \in Programs : Ended(p) => Ended(p)'
      /\ \A p \in Programs : Ended(p)' => child'[p] = child[p]
      /\ \A p \in Programs : signal'[p] = "none" => signal[p] = "none"
      /\ Server \in Programs /\ Client \in Programs
  BY Two, RunnerMainKeeps
<1>2. UNCHANGED <<at, toServer, toClient, connected, clientMsg, torn>>
  BY DEF pingVars, connection, history
<1>3. Calm' => Calm
  BY <1>1, <1>2 DEF Calm, Ended, ExitCodes
<1>4. FailsAtConnect' /\ SigpipeHasCause'
  BY <1>1, <1>2 DEF StepInv, FailsAtConnect, SigpipeHasCause, Ended, ExitCodes
<1> QED
  BY <1>2, <1>3, <1>4, StepKept DEF StepInv

LEMMA StepInvKept == RunnerInv /\ PingInv /\ TalkInv /\ StepInv /\ [Next]_vars => StepInv'
<1> SUFFICES ASSUME RunnerInv, PingInv, TalkInv, StepInv, [Next]_vars PROVE StepInv'
  OBVIOUS
<1>1. CASE (RunnerMain \/ Interrupt) /\ UNCHANGED pingVars
  BY <1>1, RunnerInStep
<1>2. CASE \E p \in Programs : Killed(p)
  BY <1>2, FinishStep DEF Killed, Dies, ExitCodes
<1>3. CASE UNCHANGED vars
  <2>1. UNCHANGED <<at, toServer, toClient, connected, clientMsg, torn, child, signal>>
    BY <1>3 DEF vars, runnerVars, pingVars, connection, history
  <2> QED
    BY <2>1, StepKept DEF StepInv, Calm, FailsAtConnect, SigpipeHasCause, Ended
<1> QED
  BY <1>1, <1>2, <1>3, ServerInStep, ClientInStep DEF Next

LEMMA StepInvInit == Init => StepInv
<1> SUFFICES ASSUME Init PROVE StepInv
  OBVIOUS
<1>1. at[Server] = "listen" /\ at[Client] = "connect" /\ \A p \in Programs : child[p] = "none"
  BY Two DEF Init, RunnerInit
<1> QED
  BY <1>1, Two DEF Init, StepInv, InStep, Silence, FailsAtConnect, SigpipeHasCause

\* The server dies of SIGPIPE, without having been signalled, only if a read has not returned
\* exactly one message, or if the client was killed.
THEOREM SigpipeAlwaysHasCause == Spec => []SigpipeHasCause
<1>1. StepInv => SigpipeHasCause
  BY DEF StepInv
<1> QED
  BY <1>1, Talk, StepInvInit, StepInvKept, PTL DEF Spec
=============================================================================
