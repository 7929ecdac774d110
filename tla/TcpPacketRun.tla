----------------------------- MODULE TcpPacketRun -----------------------------
(***************************************************************************)
(* sandbox/tcp-packet as a whole: its client and its server (TcpPacket),     *)
(* started, waited for and stopped by its run.py (Runner).                  *)
(*                                                                          *)
(* The runner is asleep while the programs talk.  It starts the server       *)
(* first, and the client whether or not the server listens by then.  What    *)
(* it sees of the programs is how they ended.                               *)
(***************************************************************************)
EXTENDS TcpPacket

CONSTANT MaxInterrupts  \* bound: how often the user interrupts

ASSUME RunAssumption == MaxInterrupts \in Nat

VARIABLES runner, launched, listed, next, answer, interrupts, signal

runVars == <<runner, launched, listed, next, answer, interrupts, signal>>
allVars == <<vars, runVars>>

Order == <<Server, Client>>

Started(p) == \E i \in 1 .. launched : Order[i] = p

\* A program that returns an error runs until the kernel has closed its connection.
Child ==
  [p \in Processes |->
     IF ~ Started(p) THEN "none"
     ELSE IF exitCode[p] = "failure" /\ reader[In[p]] # "gone" THEN "running"
     ELSE exitCode[p]]

Run == INSTANCE Runner
       WITH Polling <- FALSE, Together <- FALSE, pc <- runner, child <- Child

RunInit == Init /\ Run!RunnerInit

RunnerStep == UNCHANGED vars /\ Run!RunnerMain

\* Mutant: the runner waits for a program in place of sleeping, and goes on when one ends.
ProgramStepWakes(p) ==
  /\ Run!Running(p) /\ (Step(p) \/ SetupFails(p))
  /\ UNCHANGED <<launched, listed, next, answer, interrupts, signal>>
  /\ runner' = IF runner = "wait" /\ ~ Run!Running(p)' THEN "collect" ELSE runner

ProgramStep(p) == Run!Running(p) /\ (Step(p) \/ SetupFails(p)) /\ UNCHANGED runVars

\* A program is killed by a signal of its runner, or of the terminal, or by SIGPIPE.
ProgramKilled(p) ==
  /\ Run!Running(p) /\ (signal[p] # "none" \/ BrokenPipe(p))
  /\ Killed(p)
  /\ UNCHANGED runVars

RunNext ==
  \/ RunnerStep
  \/ UNCHANGED vars /\ Run!Interrupt
  \/ \E p \in Processes :
       ProgramStep(p) \/ ProgramKilled(p) \/ (Refuse(p) /\ UNCHANGED runVars)

\* The runner is scheduled and its deadlines pass; SIGKILL ends a program.
RunFairness ==
  /\ WF_allVars(RunnerStep)
  /\ \A p \in Processes : WF_allVars(signal[p] = "KILL" /\ ProgramKilled(p))

RunSpec == RunInit /\ [][RunNext]_allVars /\ RunFairness

----------------------------------------------------------------------------
\* The programs do to the runner what any programs may do: all that is said of Runner
\* holds of it.
RunnerSpec == Run!RunnerSpec

\* A runner that answers 0 has seen the whole conversation, packet by packet.
SuccessIsDelivery ==
  runner = "returned" /\ answer = "zero" =>
    \A p \in Processes : delivered[In[p]] = Sends[Peer[p]]

\* An answer that is a program's exit code blames the server's setup (its port is in use):
\* a client that fails leaves the server in accept(), and the runner says 124; and once
\* connected nobody fails.
BlamesTheServer ==
  runner = "returned" /\ answer \in {"failure", "killed"} =>
    answer = "failure" /\ SettingUp(Server)

\* The runner returns, and leaves nobody behind but the programs of LeftBehind.
RunnerReturns == Run!RunnerReturns
=============================================================================
