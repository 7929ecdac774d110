------------------------------- MODULE Runner -------------------------------
(***************************************************************************)
(* sandbox/*/run.py: a runner starts the programs of a sandbox, waits for    *)
(* them, stops those that do not end in time, and reports how they ended.   *)
(*                                                                          *)
(* The four runners differ in two ways.  `Polling': udp-ping and udp-many   *)
(* look at the programs again and again until a deadline; tcp-ping and      *)
(* tcp-packet sleep for the whole time and look once.  `Together': udp-many *)
(* asks all programs to stop and then waits for all of them, the others     *)
(* stop one program after the other.                                        *)
(*                                                                          *)
(* The user may interrupt the runner at any moment (KeyboardInterrupt).     *)
(* What the programs do is left open here: they may end at any moment.      *)
(***************************************************************************)
EXTENDS Integers, Sequences

CONSTANTS
  Order,         \* the programs, in the order in which they are started
  Polling, Together,
  MaxInterrupts  \* bound: how often the user interrupts

Programs == {Order[i] : i \in DOMAIN Order}

ASSUME RunnerAssumption ==
  /\ Order \in Seq(Programs)
  /\ \A i, j \in DOMAIN Order : Order[i] = Order[j] => i = j
  /\ {Polling, Together} \subseteq BOOLEAN
  /\ MaxInterrupts \in Nat

VARIABLES
  pc,         \* where main() of the runner is
  launched,   \* the number of programs that Popen has started
  listed,     \* the number of them that are in `processes'
  next,       \* the position of the for loop over `processes'
  answer,     \* what main() is about to return, or has returned
  interrupts, \* how often the runner has been interrupted
  child,      \* child[p]: "none", "running", or how p ended
  signal      \* signal[p]: the signal that p was last sent

runnerVars == <<pc, launched, listed, next, answer, interrupts, child, signal>>

ExitCodes == {"zero", "failure", "killed"}

RunnerType ==
  /\ pc \in {"check", "launch", "append", "wait", "stop", "grace", "kill", "reap",
             "collect", "returned"}
  /\ launched \in 0 .. Len(Order)
  /\ listed \in 0 .. Len(Order)
  /\ next \in 1 .. Len(Order) + 1
  /\ answer \in ExitCodes \cup {"none", "refused", "124", "130", "traceback"}
  /\ interrupts \in 0 .. MaxInterrupts
  /\ child \in [Programs -> ExitCodes \cup {"none", "running"}]
  /\ signal \in [Programs -> {"none", "TERM", "KILL"}]

RunnerInit ==
  /\ pc = "check" /\ launched = 0 /\ listed = 0 /\ next = 1
  /\ answer = "none" /\ interrupts = 0
  /\ child = [p \in Programs |-> "none"]
  /\ signal = [p \in Programs |-> "none"]

Running(p) == child[p] = "running"
Ended(p) == child[p] \in ExitCodes
AllEnded == \A i \in 1 .. listed : Ended(Order[i])

----------------------------------------------------------------------------
(***************************************************************************)
(* Starting the programs, if the arguments are right and the executables     *)
(* are there.  Popen starts a program before the runner puts it into         *)
(* `processes', and it may fail.                                            *)
(***************************************************************************)
Return(code) ==
  /\ pc' = "returned"
  /\ answer' = code

Check ==
  /\ pc = "check"
  /\ \/ pc' = "launch" /\ UNCHANGED answer
     \/ Return("refused")
  /\ UNCHANGED <<launched, listed, next, interrupts, child, signal>>

Launch ==
  /\ pc = "launch" /\ launched < Len(Order)
  /\ launched' = launched + 1
  /\ child' = [child EXCEPT ![Order[launched + 1]] = "running"]
  /\ pc' = "append"
  /\ UNCHANGED <<listed, next, answer, interrupts, signal>>

Append1 ==
  /\ pc = "append"
  /\ listed' = launched
  /\ pc' = "launch"
  /\ UNCHANGED <<launched, next, answer, interrupts, child, signal>>

LaunchFails ==
  /\ pc = "launch" /\ launched < Len(Order)
  /\ Return("traceback")
  /\ UNCHANGED <<launched, listed, next, interrupts, child, signal>>

AllLaunched ==
  /\ pc = "launch" /\ launched = Len(Order)
  /\ pc' = "wait"
  /\ UNCHANGED <<launched, listed, next, answer, interrupts, child, signal>>

----------------------------------------------------------------------------
(***************************************************************************)
(* Waiting.  Time is abstracted: a deadline passes at any moment, and a      *)
(* runner that polls may leave before it when all programs have ended.      *)
(***************************************************************************)
SeeAllEnded ==
  /\ pc = "wait" /\ Polling /\ AllEnded
  /\ pc' = "collect"
  /\ UNCHANGED <<launched, listed, next, answer, interrupts, child, signal>>

StopAll(code) ==
  /\ pc' = "stop" /\ next' = 1 /\ answer' = code

DeadlinePasses ==
  /\ pc = "wait"
  /\ IF AllEnded THEN pc' = "collect" /\ UNCHANGED <<next, answer>>
                 ELSE StopAll("124")
  /\ UNCHANGED <<launched, listed, interrupts, child, signal>>

\* Mutant: a program ended by a signal (a negative returncode) is overlooked.
FailedPositive == {i \in 1 .. listed : child[Order[i]] = "failure"}

Failed == {i \in 1 .. listed : child[Order[i]] # "zero"}

\* The first program that did not end well gives the runner's exit code.
Collect ==
  /\ pc = "collect"
  /\ IF Failed = {} THEN Return("zero")
     ELSE \E i \in Failed :
            (\A j \in Failed : i <= j) /\ Return(child[Order[i]])
  /\ UNCHANGED <<launched, listed, next, interrupts, child, signal>>

----------------------------------------------------------------------------
(***************************************************************************)
(* Stopping: SIGTERM, two seconds of grace, SIGKILL.                        *)
(***************************************************************************)
Signal(p, s) == signal' = [signal EXCEPT ![p] = s]

\* Mutant: the loop ends at the first program that has ended.
StopNextBreak ==
  /\ pc = "stop" /\ next <= listed
  /\ LET p == Order[next] IN
     IF Ended(p)
     THEN next' = listed + 1 /\ UNCHANGED <<pc, signal>>
     ELSE /\ Signal(p, "TERM")
          /\ IF Together THEN next' = next + 1 /\ UNCHANGED pc
                         ELSE pc' = "grace" /\ UNCHANGED next
  /\ UNCHANGED <<launched, listed, answer, interrupts, child>>

\* The for loop of stop_process or stop_processes at one program.
StopNext ==
  /\ pc = "stop" /\ next <= listed
  /\ LET p == Order[next] IN
     IF Ended(p)
     THEN next' = next + 1 /\ UNCHANGED <<pc, signal>>
     ELSE /\ Signal(p, "TERM")
          /\ IF Together THEN next' = next + 1 /\ UNCHANGED pc
                         ELSE pc' = "grace" /\ UNCHANGED next
  /\ UNCHANGED <<launched, listed, answer, interrupts, child>>

StopDone ==
  /\ pc = "stop" /\ next > listed
  /\ pc' = IF Together THEN "grace" ELSE "returned"
  /\ UNCHANGED <<launched, listed, next, answer, interrupts, child, signal>>

\* Mutant: the end of any program is enough.
StoppedAny == \E i \in 1 .. listed : Ended(Order[i])

\* The programs that the runner waits for have ended.
Stopped == IF Together THEN AllEnded ELSE Ended(Order[next])

\* wait() gives the end of the program, or the loop sees that all have ended.
EndSeen ==
  /\ pc \in {"grace", "reap"} /\ Stopped
  /\ IF Together THEN pc' = "returned" /\ UNCHANGED next
                 ELSE pc' = "stop" /\ next' = next + 1
  /\ UNCHANGED <<launched, listed, answer, interrupts, child, signal>>

\* Mutant: a program that ignores SIGTERM is asked once more.
GraceOverTerm ==
  /\ pc = "grace" /\ ~ Together
  /\ pc' = "reap"
  /\ IF Ended(Order[next]) THEN UNCHANGED signal ELSE Signal(Order[next], "TERM")
  /\ UNCHANGED <<launched, listed, next, answer, interrupts, child>>

GraceOver ==
  /\ pc = "grace"
  /\ IF Together
     THEN pc' = "kill" /\ next' = 1 /\ UNCHANGED signal
     ELSE /\ pc' = "reap" /\ UNCHANGED next
          /\ IF Ended(Order[next]) THEN UNCHANGED signal ELSE Signal(Order[next], "KILL")
  /\ UNCHANGED <<launched, listed, answer, interrupts, child>>

\* Mutant: SIGTERM once more.
KillNextTerm ==
  /\ pc = "kill" /\ next <= listed
  /\ next' = next + 1
  /\ IF Ended(Order[next]) THEN UNCHANGED signal ELSE Signal(Order[next], "TERM")
  /\ UNCHANGED <<pc, launched, listed, answer, interrupts, child>>

KillNext ==
  /\ pc = "kill" /\ next <= listed
  /\ next' = next + 1
  /\ IF Ended(Order[next]) THEN UNCHANGED signal ELSE Signal(Order[next], "KILL")
  /\ UNCHANGED <<pc, launched, listed, answer, interrupts, child>>

KillDone ==
  /\ pc = "kill" /\ next > listed
  /\ pc' = "reap"
  /\ UNCHANGED <<launched, listed, next, answer, interrupts, child, signal>>

----------------------------------------------------------------------------
(***************************************************************************)
(* KeyboardInterrupt.  Inside the try it leads to the handler; before the    *)
(* try, after it and inside the handler nobody catches it.  From a terminal  *)
(* it reaches the running programs too.                                     *)
(***************************************************************************)
Interrupt ==
  /\ pc # "returned" /\ interrupts < MaxInterrupts
  /\ interrupts' = interrupts + 1
  /\ IF answer = "130" \/ pc \in {"check", "collect"}
     THEN Return("traceback") /\ UNCHANGED next
     ELSE StopAll("130")
  /\ \/ UNCHANGED signal
     \/ signal' = [p \in Programs |-> IF Running(p) /\ signal[p] = "none"
                                      THEN "TERM" ELSE signal[p]]
  /\ UNCHANGED <<launched, listed, child>>

----------------------------------------------------------------------------
(***************************************************************************)
(* The programs, as the runner sees them.                                   *)
(***************************************************************************)
End(p, code) ==
  /\ Running(p)
  /\ child' = [child EXCEPT ![p] = code]
  /\ UNCHANGED <<pc, launched, listed, next, answer, interrupts, signal>>

\* The programs have no signal handlers: a signal ends them, sooner or later.
Dies(p) == signal[p] # "none" /\ End(p, "killed")

RunnerMain ==
  \/ Check \/ Launch \/ Append1 \/ LaunchFails \/ AllLaunched
  \/ SeeAllEnded \/ DeadlinePasses \/ Collect
  \/ StopNext \/ StopDone \/ EndSeen \/ GraceOver \/ KillNext \/ KillDone

RunnerNext ==
  \/ RunnerMain
  \/ Interrupt
  \/ \E p \in Programs, code \in ExitCodes : End(p, code)

RunnerSpec == RunnerInit /\ [][RunnerNext]_runnerVars

----------------------------------------------------------------------------
(***************************************************************************)
(* Properties.                                                              *)
(***************************************************************************)
\* When a runner has returned, a program still runs only for one of three reasons: the
\* runner failed to start the next program, which no handler catches; it was interrupted
\* again while it stopped its programs; or it was interrupted between Popen and the append
\* that follows it, and then only the last program it started is left.
LeftBehind ==
  \A p \in Programs :
    pc = "returned" /\ Running(p) =>
      \/ answer = "traceback" /\ launched < Len(Order) /\ interrupts = 0
      \/ answer = "traceback" /\ interrupts > 1
      \/ answer = "130" /\ listed < launched /\ p = Order[launched]

\* A runner that answers with the end of its programs has started all of them and has
\* stopped none: 0 says that each ended with 0, another code is the end of the first
\* in the order of the list that did not.
AnswerIsTheirs ==
  pc = "returned" /\ answer \in ExitCodes =>
    /\ \A p \in Programs : Ended(p)
    /\ \A p \in Programs : signal[p] = "none"
    /\ answer = "zero" => \A p \in Programs : child[p] = "zero"
    /\ answer # "zero" =>
         \E i \in DOMAIN Order :
           /\ child[Order[i]] = answer
           /\ \A j \in 1 .. i - 1 : child[Order[j]] = "zero"

\* No program is killed that was not asked to stop first: SIGKILL only follows a
\* SIGTERM (or the terminal's interrupt) after which the program did not end.
TermFirst ==
  [][\A p \in Programs :
       signal'[p] = "KILL" => signal[p] # "none"]_runnerVars

\* The runner ends, whatever its programs do.
RunnerReturns == <>(pc = "returned")
=============================================================================
