---------------------------- MODULE Runner_proofs ----------------------------
(***************************************************************************)
(* What a runner promises, for any number of programs, whatever they do, in  *)
(* all four forms of the runner.                                            *)
(***************************************************************************)
EXTENDS Runner, TLAPS

(***************************************************************************)
(* The inductive invariant.  LeftBehind speaks of a runner that has         *)
(* returned; to get there one needs to know what each loop has done so far.  *)
(***************************************************************************)
Before == {"check", "launch", "append", "wait", "collect"}
Stopping == {"stop", "grace", "kill", "reap"}

\* The programs are started in order, and all but the last one are in the list.
Started ==
  /\ listed <= launched /\ launched <= listed + 1
  /\ pc = "check" => launched = 0
  /\ pc \in {"check", "launch", "wait", "collect"} => listed = launched
  /\ pc = "append" => launched = listed + 1
  /\ pc \in {"wait", "collect"} => listed = Len(Order)
  /\ answer = "124" => listed = launched
  /\ pc = "collect" => AllEnded
  /\ \A i \in DOMAIN Order : child[Order[i]] = "none" <=> i > launched

\* What the answer may be, and what it says.
Answered ==
  /\ pc \in Before => answer = "none" /\ interrupts = 0
  /\ pc \in Before => \A p \in Programs : signal[p] = "none"
  /\ pc \in Stopping => answer \in {"124", "130"}
  /\ pc = "returned" => answer # "none"
  /\ pc = "returned" /\ answer = "refused" => launched = 0
  /\ pc = "returned" /\ answer \in {"124", "130"} => AllEnded
  /\ answer = "130" => interrupts > 0
  /\ pc = "returned" /\ answer = "traceback" =>
       \/ interrupts > 1
       \/ interrupts = 0 /\ launched < Len(Order)
       \/ listed = launched /\ AllEnded

\* The loops that stop the programs.
Loops ==
  /\ pc \in {"grace", "reap"} /\ ~ Together => next <= listed
  /\ pc \in Stopping /\ ~ Together => \A i \in 1 .. next - 1 : i <= listed => Ended(Order[i])
  /\ pc = "kill" => Together

\* Whoever still runs when the grace is over has been asked to stop.
Asked ==
  /\ pc \in {"grace", "reap"} /\ ~ Together => Ended(Order[next]) \/ signal[Order[next]] # "none"
  /\ pc = "stop" /\ Together =>
       \A i \in 1 .. next - 1 : i <= listed => Ended(Order[i]) \/ signal[Order[i]] # "none"
  /\ pc \in {"grace", "kill", "reap"} /\ Together =>
       \A i \in 1 .. listed : Ended(Order[i]) \/ signal[Order[i]] # "none"

RunnerInv ==
  RunnerType /\ Started /\ Answered /\ Loops /\ Asked /\ AnswerIsTheirs

LEMMA OrderFacts ==
  /\ Len(Order) \in Nat
  /\ DOMAIN Order = 1 .. Len(Order)
  /\ \A i \in 1 .. Len(Order) : Order[i] \in Programs
  /\ \A p \in Programs : \E i \in 1 .. Len(Order) : p = Order[i]
  /\ \A i, j \in 1 .. Len(Order) : Order[i] = Order[j] => i = j
<1>1. Order \in Seq(Programs)
  BY RunnerAssumption
<1>2. Len(Order) \in Nat /\ DOMAIN Order = 1 .. Len(Order)
  BY <1>1
<1>3. \A i \in 1 .. Len(Order) : Order[i] \in Programs
  BY <1>2 DEF Programs
<1>4. \A p \in Programs : \E i \in 1 .. Len(Order) : p = Order[i]
  BY <1>2 DEF Programs
<1>5. \A i, j \in 1 .. Len(Order) : Order[i] = Order[j] => i = j
  BY <1>2, RunnerAssumption
<1> QED
  BY <1>2, <1>3, <1>4, <1>5

LEMMA InvInit == RunnerInit => RunnerInv
<1> SUFFICES ASSUME RunnerInit PROVE RunnerInv
  OBVIOUS
<1> USE OrderFacts, RunnerAssumption DEF RunnerInit
<1>1. RunnerType
  BY DEF RunnerType, ExitCodes
<1>2. Started /\ Answered
  BY DEF Started, Answered, Before, Stopping
<1>3. Loops /\ Asked
  BY DEF Loops, Asked, Stopping
<1>4. AnswerIsTheirs
  BY DEF AnswerIsTheirs
<1> QED
  BY <1>1, <1>2, <1>3, <1>4 DEF RunnerInv

LEMMA CheckKeeps == RunnerInv /\ Check => RunnerInv'
<1> SUFFICES ASSUME RunnerInv, Check PROVE RunnerInv'
  OBVIOUS
<1> USE OrderFacts, RunnerAssumption DEF RunnerInv, RunnerType, Check, Return
<1>1. RunnerType'
  BY DEF RunnerType
<1>2. Started'
  BY DEF Started
<1>3. Answered'
  BY DEF Answered, Started, Before, Stopping
<1>4. Loops'
  BY DEF Loops, Stopping
<1>5. Asked'
  BY DEF Asked
<1>6. AnswerIsTheirs'
  BY DEF AnswerIsTheirs, ExitCodes
<1> QED
  BY <1>1, <1>2, <1>3, <1>4, <1>5, <1>6

LEMMA LaunchKeeps == RunnerInv /\ Launch => RunnerInv'
<1> SUFFICES ASSUME RunnerInv, Launch PROVE RunnerInv'
  OBVIOUS
<1> USE OrderFacts, RunnerAssumption DEF RunnerInv, RunnerType, Launch
<1>1. RunnerType'
  BY DEF RunnerType
<1>2. Started'
  BY DEF Started, Answered, Before
<1>3. Answered'
  BY DEF Answered, Before, Stopping
<1>4. Loops'
  BY DEF Loops, Stopping
<1>5. Asked'
  BY DEF Asked
<1>6. AnswerIsTheirs'
  BY DEF AnswerIsTheirs
<1> QED
  BY <1>1, <1>2, <1>3, <1>4, <1>5, <1>6

LEMMA Append1Keeps == RunnerInv /\ Append1 => RunnerInv'
<1> SUFFICES ASSUME RunnerInv, Append1 PROVE RunnerInv'
  OBVIOUS
<1> USE OrderFacts, RunnerAssumption DEF RunnerInv, RunnerType, Append1
<1>1. RunnerType'
  BY DEF RunnerType
<1>2. Started'
  BY DEF Started
<1>3. Answered'
  BY DEF Answered, Before, Stopping
<1>4. Loops'
  BY DEF Loops, Stopping
<1>5. Asked'
  BY DEF Asked
<1>6. AnswerIsTheirs'
  BY DEF AnswerIsTheirs
<1> QED
  BY <1>1, <1>2, <1>3, <1>4, <1>5, <1>6

LEMMA LaunchFailsKeeps == RunnerInv /\ LaunchFails => RunnerInv'
<1> SUFFICES ASSUME RunnerInv, LaunchFails PROVE RunnerInv'
  OBVIOUS
<1> USE OrderFacts, RunnerAssumption DEF RunnerInv, RunnerType, LaunchFails, Return
<1>1. RunnerType'
  BY DEF RunnerType
<1>2. Started'
  BY DEF Started
<1>3. Answered'
  BY DEF Answered, Before, Stopping
<1>4. Loops'
  BY DEF Loops, Stopping
<1>5. Asked'
  BY DEF Asked
<1>6. AnswerIsTheirs'
  BY DEF AnswerIsTheirs, ExitCodes
<1> QED
  BY <1>1, <1>2, <1>3, <1>4, <1>5, <1>6

LEMMA AllLaunchedKeeps == RunnerInv /\ AllLaunched => RunnerInv'
<1> SUFFICES ASSUME RunnerInv, AllLaunched PROVE RunnerInv'
  OBVIOUS
<1> USE OrderFacts, RunnerAssumption DEF RunnerInv, RunnerType, AllLaunched
<1>1. RunnerType'
  BY DEF RunnerType
<1>2. Started'
  BY DEF Started
<1>3. Answered'
  BY DEF Answered, Before, Stopping
<1>4. Loops'
  BY DEF Loops, Stopping
<1>5. Asked'
  BY DEF Asked
<1>6. AnswerIsTheirs'
  BY DEF AnswerIsTheirs
<1> QED
  BY <1>1, <1>2, <1>3, <1>4, <1>5, <1>6

LEMMA SeeAllEndedKeeps == RunnerInv /\ SeeAllEnded => RunnerInv'
<1> SUFFICES ASSUME RunnerInv, SeeAllEnded PROVE RunnerInv'
  OBVIOUS
<1> USE OrderFacts, RunnerAssumption DEF RunnerInv, RunnerType, SeeAllEnded
<1>1. RunnerType'
  BY DEF RunnerType
<1>2. Started'
  BY DEF Started, AllEnded, Ended
<1>3. Answered'
  BY DEF Answered, Before, Stopping
<1>4. Loops'
  BY DEF Loops, Stopping
<1>5. Asked'
  BY DEF Asked
<1>6. AnswerIsTheirs'
  BY DEF AnswerIsTheirs
<1> QED
  BY <1>1, <1>2, <1>3, <1>4, <1>5, <1>6

LEMMA DeadlinePassesKeeps == RunnerInv /\ DeadlinePasses => RunnerInv'
<1> SUFFICES ASSUME RunnerInv, DeadlinePasses PROVE RunnerInv'
  OBVIOUS
<1> USE OrderFacts, RunnerAssumption DEF RunnerInv, RunnerType, DeadlinePasses, StopAll
<1>1. RunnerType'
  BY DEF RunnerType
<1>2. Started'
  BY DEF Started, AllEnded, Ended
<1>3. Answered'
  BY DEF Answered, Before, Stopping
<1>4. Loops'
  BY DEF Loops, Stopping
<1>5. Asked'
  BY DEF Asked
<1>6. AnswerIsTheirs'
  BY DEF AnswerIsTheirs
<1> QED
  BY <1>1, <1>2, <1>3, <1>4, <1>5, <1>6

LEMMA CollectKeeps == RunnerInv /\ Collect => RunnerInv'
<1> SUFFICES ASSUME RunnerInv, Collect PROVE RunnerInv'
  OBVIOUS
<1> USE OrderFacts, RunnerAssumption DEF RunnerInv, RunnerType, Collect, Return
<1>1. listed = Len(Order) /\ \A i \in 1 .. Len(Order) : child[Order[i]] \in ExitCodes
  BY DEF Started, AllEnded, Ended
<1>2. \/ answer' = "zero" /\ \A i \in 1 .. Len(Order) : child[Order[i]] = "zero"
      \/ \E i \in 1 .. Len(Order) :
           /\ answer' = child[Order[i]] /\ child[Order[i]] # "zero"
           /\ \A j \in 1 .. Len(Order) : child[Order[j]] # "zero" => i <= j
  BY <1>1 DEF Failed
<1>3. answer' \in ExitCodes
  BY <1>1, <1>2 DEF ExitCodes
<1>4. RunnerType'
  BY <1>3
<1>5. Started'
  BY <1>3 DEF Started, AllEnded, Ended, ExitCodes
<1>6. Answered' /\ Loops' /\ Asked'
  BY <1>3 DEF Answered, Loops, Asked, ExitCodes, Before, Stopping
<1>7. \A p \in Programs : Ended(p)' /\ signal'[p] = "none"
  BY <1>1 DEF Answered, Before, Ended
<1>8. answer' = "zero" => \A p \in Programs : child'[p] = "zero"
  BY <1>1, <1>2
<1>9. answer' # "zero" =>
        \E i \in DOMAIN Order :
          child'[Order[i]] = answer' /\ \A j \in 1 .. i - 1 : child'[Order[j]] = "zero"
  BY <1>1, <1>2, SMTT(30)
<1>10. AnswerIsTheirs'
  BY <1>7, <1>8, <1>9 DEF AnswerIsTheirs
<1> QED
  BY <1>4, <1>5, <1>6, <1>10

LEMMA StopNextKeeps == RunnerInv /\ StopNext => RunnerInv'
<1> SUFFICES ASSUME RunnerInv, StopNext PROVE RunnerInv'
  OBVIOUS
<1> USE OrderFacts, RunnerAssumption DEF RunnerInv, RunnerType, StopNext, Signal
<1>1. RunnerType'
  BY DEF RunnerType
<1>2. Started'
  BY DEF Started, Answered, Stopping
<1>3. Answered'
  BY DEF Answered, Before, Stopping
<1>4. Loops'
  BY DEF Loops, Ended, Stopping
<1>5. Asked'
  BY DEF Asked, Ended
<1>6. AnswerIsTheirs'
  BY DEF AnswerIsTheirs
<1> QED
  BY <1>1, <1>2, <1>3, <1>4, <1>5, <1>6

LEMMA StopDoneKeeps == RunnerInv /\ StopDone => RunnerInv'
<1> SUFFICES ASSUME RunnerInv, StopDone PROVE RunnerInv'
  OBVIOUS
<1> USE OrderFacts, RunnerAssumption DEF RunnerInv, RunnerType, StopDone
<1>1. RunnerType'
  BY DEF RunnerType
<1>2. Started'
  BY DEF Started
<1>3. Answered'
  BY DEF Answered, Loops, AllEnded, Ended, Before, Stopping
<1>4. Loops'
  BY DEF Loops, Stopping
<1>5. Asked'
  BY DEF Asked, Ended
<1>6. AnswerIsTheirs'
  BY DEF AnswerIsTheirs, Answered, ExitCodes, Stopping
<1> QED
  BY <1>1, <1>2, <1>3, <1>4, <1>5, <1>6

LEMMA EndSeenKeeps == RunnerInv /\ EndSeen => RunnerInv'
<1> SUFFICES ASSUME RunnerInv, EndSeen PROVE RunnerInv'
  OBVIOUS
<1> USE OrderFacts, RunnerAssumption DEF RunnerInv, RunnerType, EndSeen, Stopped
<1>1. RunnerType'
  <2>1. next' \in 1 .. Len(Order) + 1
    BY DEF Loops
  <2> QED
    BY <2>1
<1>2. Started'
  BY DEF Started, Answered, Stopping
<1>3. Answered'
  BY DEF Answered, Loops, AllEnded, Ended, Before, Stopping
<1>4. Loops'
  BY DEF Loops, Ended, Stopping
<1>5. Asked'
  <2>1. CASE Together
    BY <2>1 DEF Asked
  <2>2. CASE ~ Together
    BY <2>2 DEF Asked
  <2> QED
    BY <2>1, <2>2
<1>6. AnswerIsTheirs'
  BY DEF AnswerIsTheirs, Answered, ExitCodes, Stopping
<1> QED
  BY <1>1, <1>2, <1>3, <1>4, <1>5, <1>6

LEMMA GraceOverKeeps == RunnerInv /\ GraceOver => RunnerInv'
<1> SUFFICES ASSUME RunnerInv, GraceOver PROVE RunnerInv'
  OBVIOUS
<1> USE OrderFacts, RunnerAssumption DEF RunnerInv, RunnerType, GraceOver, Signal
<1>1. RunnerType'
  BY DEF RunnerType
<1>2. Started'
  BY DEF Started, Answered, Stopping
<1>3. Answered'
  BY DEF Answered, Before, Stopping
<1>4. Loops'
  BY DEF Loops, Ended, Stopping
<1>5. Asked'
  BY DEF Asked, Ended
<1>6. AnswerIsTheirs'
  BY DEF AnswerIsTheirs
<1> QED
  BY <1>1, <1>2, <1>3, <1>4, <1>5, <1>6

LEMMA KillNextKeeps == RunnerInv /\ KillNext => RunnerInv'
<1> SUFFICES ASSUME RunnerInv, KillNext PROVE RunnerInv'
  OBVIOUS
<1> USE OrderFacts, RunnerAssumption DEF RunnerInv, RunnerType, KillNext, Signal
<1>1. RunnerType'
  BY DEF RunnerType
<1>2. Started'
  BY DEF Started
<1>3. Answered'
  BY DEF Answered, Before
<1>4. Loops'
  BY DEF Loops
<1>5. Asked'
  BY DEF Asked, Ended
<1>6. AnswerIsTheirs'
  BY DEF AnswerIsTheirs
<1> QED
  BY <1>1, <1>2, <1>3, <1>4, <1>5, <1>6

LEMMA KillDoneKeeps == RunnerInv /\ KillDone => RunnerInv'
<1> SUFFICES ASSUME RunnerInv, KillDone PROVE RunnerInv'
  OBVIOUS
<1> USE OrderFacts, RunnerAssumption DEF RunnerInv, RunnerType, KillDone
<1>1. RunnerType'
  BY DEF RunnerType
<1>2. Started'
  BY DEF Started
<1>3. Answered'
  BY DEF Answered, Before, Stopping
<1>4. Loops'
  BY DEF Loops
<1>5. Asked'
  BY DEF Asked, Loops, Ended
<1>6. AnswerIsTheirs'
  BY DEF AnswerIsTheirs
<1> QED
  BY <1>1, <1>2, <1>3, <1>4, <1>5, <1>6

LEMMA InterruptKeeps == RunnerInv /\ Interrupt => RunnerInv'
<1> SUFFICES ASSUME RunnerInv, Interrupt PROVE RunnerInv'
  OBVIOUS
<1> USE OrderFacts, RunnerAssumption DEF RunnerInv, RunnerType, Interrupt, StopAll, Return
<1>1. RunnerType'
  BY DEF RunnerType
<1>2. Started'
  BY DEF Started
<1>3. Answered'
  <2>1. CASE answer = "130"
    BY <2>1 DEF Answered, Before, Stopping
  <2>2. CASE pc = "check"
    <3>1. listed = 0 /\ launched = 0
      BY <2>2 DEF Started
    <3> QED
      BY <2>2, <3>1 DEF Answered, Before, Stopping, AllEnded
  <2>3. CASE pc = "collect"
    <3>1. listed = launched /\ AllEnded
      BY <2>3 DEF Started
    <3>2. AllEnded'
      BY <3>1 DEF AllEnded, Ended
    <3> QED
      BY <2>3, <3>1, <3>2 DEF Answered, Before, Stopping
  <2>4. CASE answer # "130" /\ pc \notin {"check", "collect"}
    BY <2>4 DEF Answered, Before, Stopping
  <2> QED
    BY <2>1, <2>2, <2>3, <2>4
<1>4. Loops'
  BY DEF Loops, Stopping
<1>5. Asked'
  BY DEF Asked
<1>6. AnswerIsTheirs'
  BY DEF AnswerIsTheirs, ExitCodes
<1> QED
  BY <1>1, <1>2, <1>3, <1>4, <1>5, <1>6

LEMMA EndKeeps ==
  ASSUME NEW p \in Programs, NEW code \in ExitCodes, RunnerInv, End(p, code)
  PROVE  RunnerInv'
<1> USE OrderFacts, RunnerAssumption DEF RunnerInv, RunnerType, End, Running
<1>1. RunnerType'
  BY DEF RunnerType
<1>2. Started'
  BY DEF Started, AllEnded, Ended, ExitCodes
<1>3. Answered'
  BY DEF Answered, AllEnded, Ended
<1>4. Loops'
  BY DEF Loops, Ended
<1>5. Asked'
  BY DEF Asked, Ended
<1>6. AnswerIsTheirs'
  BY DEF AnswerIsTheirs, Ended, ExitCodes
<1> QED
  BY <1>1, <1>2, <1>3, <1>4, <1>5, <1>6

----------------------------------------------------------------------------
(***************************************************************************)
(* The theorems.                                                            *)
(***************************************************************************)
LEMMA RunnerStep == RunnerInv /\ [RunnerNext]_runnerVars => RunnerInv'
<1> SUFFICES ASSUME RunnerInv, [RunnerNext]_runnerVars PROVE RunnerInv'
  OBVIOUS
<1>1. CASE RunnerMain
  BY <1>1, CheckKeeps, LaunchKeeps, Append1Keeps, LaunchFailsKeeps, AllLaunchedKeeps,
     SeeAllEndedKeeps, DeadlinePassesKeeps, CollectKeeps, StopNextKeeps, StopDoneKeeps,
     EndSeenKeeps, GraceOverKeeps, KillNextKeeps, KillDoneKeeps DEF RunnerMain
<1>2. CASE Interrupt
  BY <1>2, InterruptKeeps
<1>3. CASE \E p \in Programs, code \in ExitCodes : End(p, code)
  BY <1>3, EndKeeps
<1>4. CASE UNCHANGED runnerVars
  BY <1>4 DEF runnerVars, RunnerInv, RunnerType, Started, Answered, Loops, Asked,
     AnswerIsTheirs, AllEnded, Ended
<1> QED
  BY <1>1, <1>2, <1>3, <1>4 DEF RunnerNext

\* A runner starts programs that have not been started, and takes no signal back.
LEMMA RunnerMainKeeps ==
  ASSUME RunnerInv, RunnerMain \/ Interrupt
  PROVE  /\ \A p \in Programs : child'[p] = child[p] \/ (child[p] = "none" /\ child'[p] = "running")
         /\ \A p \in Programs : Ended(p) => Ended(p)'
         /\ \A p \in Programs : Ended(p)' => child'[p] = child[p]
         /\ \A p \in Programs : signal'[p] = "none" => signal[p] = "none"
<1>1. \A p \in Programs : child'[p] = child[p] \/ (child[p] = "none" /\ child'[p] = "running")
  <2>1. CASE Launch
    <3>1. launched + 1 \in DOMAIN Order /\ launched + 1 > launched
      BY <2>1, OrderFacts DEF Launch, RunnerInv, RunnerType
    <3>2. child[Order[launched + 1]] = "none"
      BY <3>1 DEF RunnerInv, Started
    <3> QED
      BY <2>1, <3>2 DEF Launch, RunnerInv, RunnerType
  <2>2. CASE UNCHANGED child
    BY <2>2
  <2> QED
    BY <2>1, <2>2 DEF RunnerMain, Check, Append1, LaunchFails, AllLaunched, SeeAllEnded,
       DeadlinePasses, Collect, StopNext, StopDone, EndSeen, GraceOver, KillNext, KillDone,
       Interrupt
<1>2. \A p \in Programs : signal'[p] = "none" => signal[p] = "none"
  <2>1. signal \in [Programs -> {"none", "TERM", "KILL"}]
    BY DEF RunnerInv, RunnerType
  <2>2. CASE UNCHANGED signal
    BY <2>2
  <2>3. ASSUME NEW p, Signal(p, "TERM") \/ Signal(p, "KILL")
        PROVE  \A q \in Programs : signal'[q] = "none" => signal[q] = "none"
    BY <2>1, <2>3 DEF Signal
  <2>4. CASE Interrupt
    BY <2>1, <2>4 DEF Interrupt
  <2> QED
    BY <2>2, <2>3, <2>4 DEF RunnerMain, Check, Launch, Append1, LaunchFails, AllLaunched,
       SeeAllEnded, DeadlinePasses, Collect, StopNext, StopDone, EndSeen, GraceOver, KillNext,
       KillDone
<1> QED
  BY <1>1, <1>2 DEF Ended, ExitCodes

\* In every state a runner can reach, each loop has done what its position says.
THEOREM RunnerInvariant == RunnerSpec => []RunnerInv
  BY InvInit, RunnerStep, PTL DEF RunnerSpec

\* The variables keep their types: no loop of a runner leaves its list.
THEOREM RunnerTypes == RunnerSpec => []RunnerType
<1>1. RunnerInv => RunnerType
  BY DEF RunnerInv
<1> QED
  BY <1>1, RunnerInvariant, PTL

\* The exit code of a runner is that of its programs, for every list of programs.
THEOREM AnswerIsTheirsAlways == RunnerSpec => []AnswerIsTheirs
<1>1. RunnerInv => AnswerIsTheirs
  BY DEF RunnerInv
<1> QED
  BY <1>1, RunnerInvariant, PTL

\* A runner leaves a program behind only if it could not start the next one, if it was
\* interrupted a second time, or if an interrupt caught that program between Popen and append.
THEOREM NobodyLeftBehind == RunnerSpec => []LeftBehind
<1>1. RunnerInv => LeftBehind
  <2> SUFFICES ASSUME RunnerInv, NEW p \in Programs, pc = "returned", Running(p)
               PROVE  \/ answer = "traceback" /\ launched < Len(Order) /\ interrupts = 0
                      \/ answer = "traceback" /\ interrupts > 1
                      \/ answer = "130" /\ listed < launched /\ p = Order[launched]
    BY DEF LeftBehind
  <2>1. PICK i \in 1 .. Len(Order) : p = Order[i]
    BY OrderFacts
  <2>2. ~ Ended(p)
    BY DEF Running, Ended, ExitCodes
  <2>3. i <= launched
    BY <2>1, OrderFacts DEF RunnerInv, RunnerType, Started, Running
  <2>4. CASE answer \in ExitCodes
    BY <2>2, <2>4 DEF RunnerInv, AnswerIsTheirs
  <2>5. CASE answer = "refused"
    BY <2>3, <2>5 DEF RunnerInv, Answered
  <2>6. CASE answer \in {"124", "130"}
    <3>1. i > listed
      BY <2>1, <2>2, <2>6 DEF RunnerInv, RunnerType, Answered, AllEnded
    <3>2. i = launched /\ listed < launched
      BY <2>3, <3>1, OrderFacts DEF RunnerInv, RunnerType, Started
    <3> QED
      BY <2>1, <2>6, <3>1, <3>2, OrderFacts DEF RunnerInv, RunnerType, Started
  <2>7. CASE answer = "traceback"
    <3>1. ~ (listed = launched /\ AllEnded)
      BY <2>1, <2>2, <2>3 DEF AllEnded
    <3> QED
      BY <2>7, <3>1 DEF RunnerInv, Answered
  <2> QED
    BY <2>4, <2>5, <2>6, <2>7 DEF RunnerInv, RunnerType, Answered
<1> QED
  BY <1>1, RunnerInvariant, PTL

\* No runner kills a program that was not asked to stop before.
THEOREM TermFirstAlways == RunnerSpec => TermFirst
<1> DEFINE Step == \A p \in Programs : signal'[p] = "KILL" => signal[p] # "none"
<1>1. RunnerInv /\ [RunnerNext]_runnerVars => [Step]_runnerVars
  <2> SUFFICES ASSUME RunnerInv, RunnerNext, NEW p \in Programs, signal'[p] = "KILL"
               PROVE  signal[p] # "none"
    OBVIOUS
  <2> USE DEF RunnerInv, RunnerType
  <2>1. CASE StopNext
    BY <2>1 DEF StopNext, Signal
  <2>2. CASE GraceOver
    <3>1. signal[Order[next]] # "none" \/ Ended(Order[next]) \/ Together
      BY <2>2 DEF GraceOver, Asked
    <3> QED
      BY <2>2, <3>1 DEF GraceOver, Signal
  <2>3. CASE KillNext
    <3>1. signal[Order[next]] # "none" \/ Ended(Order[next])
      BY <2>3, OrderFacts DEF KillNext, Asked, Loops
    <3> QED
      BY <2>3, <3>1 DEF KillNext, Signal
  <2>4. CASE Interrupt
    BY <2>4 DEF Interrupt
  <2>5. CASE UNCHANGED signal
    BY <2>5
  <2> QED
    BY <2>1, <2>2, <2>3, <2>4, <2>5 DEF RunnerNext, RunnerMain, Check, Launch, Append1,
       LaunchFails, AllLaunched, SeeAllEnded, DeadlinePasses, Collect, StopDone, EndSeen,
       KillDone, End
<1> QED
  BY <1>1, RunnerInvariant, PTL DEF RunnerSpec, TermFirst
=============================================================================
