--------------------------- MODULE EndpointThreads ---------------------------
(***************************************************************************)
(* A program that uses endpoints (Endpoint), and then creates threads that   *)
(* share one of them, const.                                                *)
(*                                                                          *)
(* to_string() and the copy constructor are const, but the first fills       *)
(* _strCache and both read it, and the library has no lock of its own.  Each *)
(* access of to_string() to the shared cache is a step here.  Two accesses    *)
(* of two threads, one of them a write, are a data race unless something      *)
(* orders them: the creation of the threads, or a mutex that the program      *)
(* holds around its calls.                                                  *)
(***************************************************************************)
EXTENDS Endpoint

CONSTANTS
  Threads, \* a thread, and the endpoint of its own
  Shared   \* the endpoint that all threads use

ASSUME ThreadsAssumption == Objects = Threads \cup {Shared} /\ Shared \notin Threads

VARIABLES
  alone,    \* there are no threads yet
  at,       \* at[t]: the access that t is about to do, "idle" outside of to_string()
  printed,  \* printed[t]: what to_string() of the shared endpoint has returned to t
  warm,     \* the endpoint was printed before the threads were created
  guarded,  \* the threads hold a mutex while they print or copy it
  readers,  \* history: the threads that have read the shared cache
  writers,  \* history: the threads that have written it
  undefined \* there was a data race

raceVars == <<alone, warm, guarded, readers, writers, undefined>>
threadVars == <<vars, at, printed, raceVars>>

Torn == <<"torn">>

ThreadsInit ==
  /\ Init
  /\ alone = TRUE /\ warm = FALSE /\ guarded = FALSE
  /\ at = [t \in Threads |-> "idle"]
  /\ printed = [t \in Threads |-> Nothing]
  /\ readers = {} /\ writers = {} /\ undefined = FALSE

Goto(t, where) == at' = [at EXCEPT ![t] = where]

\* The mutex, if there is one, is free.
Free == guarded => \A t \in Threads : at[t] = "idle"

Reads(t) ==
  /\ readers' = readers \cup {t}
  /\ undefined' = (undefined \/ (~ guarded /\ writers \ {t} # {}))
  /\ UNCHANGED <<alone, warm, guarded, writers>>

Writes(t) ==
  /\ writers' = writers \cup {t}
  /\ undefined' = (undefined \/ (~ guarded /\ (readers \cup writers) \ {t} # {}))
  /\ UNCHANGED <<alone, warm, guarded, readers>>

\* After a race a thread may find anything.
Found(o) == {strCache[o]} \cup IF undefined' THEN {Torn} ELSE {}

----------------------------------------------------------------------------
(***************************************************************************)
(* Before there are threads, and their creation: each begins without an       *)
(* endpoint of its own, and the shared one is of IPv4 and not moved from.    *)
(***************************************************************************)
MainStep == alone /\ Next /\ UNCHANGED <<at, printed, raceVars>>

CreateThreads ==
  /\ alone /\ Intact(Shared) /\ \A t \in Threads : ~ Lives(t)
  /\ alone' = FALSE
  /\ warm' = (strCache[Shared] # Nothing) /\ guarded' \in BOOLEAN
  /\ UNCHANGED <<vars, at, printed, readers, writers, undefined>>

----------------------------------------------------------------------------
(***************************************************************************)
(* to_string() of the shared endpoint, and the copy of it.                  *)
(***************************************************************************)
Call(t) ==
  /\ at[t] = "idle" /\ Free
  /\ Goto(t, "test")
  /\ UNCHANGED <<vars, printed, raceVars>>

\* Mutant: the text is generated again by each call.
TestNot(t) ==
  /\ at[t] = "test"
  /\ Goto(t, "fill")
  /\ UNCHANGED <<vars, printed, raceVars>>

\* if(!_strCache)
Test(t) ==
  /\ at[t] = "test"
  /\ Reads(t)
  /\ Goto(t, IF strCache[Shared] = Nothing THEN "fill" ELSE "return")
  /\ UNCHANGED <<vars, printed>>

\* Mutant: the text lacks the port.
FillIp(t) ==
  /\ at[t] = "fill"
  /\ Writes(t)
  /\ strCache' = [strCache EXCEPT ![Shared] = <<ip_to_string(get_ip(native[Shared]))>>]
  /\ Goto(t, "return")
  /\ UNCHANGED <<native, meant, printed>>

\* _strCache = _native.to_string()
Fill(t) ==
  /\ at[t] = "fill"
  /\ Writes(t)
  /\ strCache' = [strCache EXCEPT ![Shared] = to_string(native[Shared])]
  /\ Goto(t, "return")
  /\ UNCHANGED <<native, meant, printed>>

\* return *_strCache
ReturnText(t) ==
  /\ at[t] = "return"
  /\ Reads(t)
  /\ \E x \in Found(Shared) : printed' = [printed EXCEPT ![t] = x]
  /\ Goto(t, "idle")
  /\ UNCHANGED vars

CopyShared(t) ==
  /\ at[t] = "idle" /\ Free
  /\ Reads(t)
  /\ \E x \in Found(Shared) : strCache' = [strCache EXCEPT ![t] = x]
  /\ native' = [native EXCEPT ![t] = native[Shared]]
  /\ meant' = [meant EXCEPT ![t] = meant[Shared]]
  /\ UNCHANGED <<at, printed>>

\* What a thread does with a copy of its own touches no other.
OwnCopy(t) ==
  /\ at[t] = "idle"
  /\ Show(t) \/ Destroy(t)
  /\ UNCHANGED <<at, printed, raceVars>>

\* A race may also end the process.
Crash ==
  /\ undefined
  /\ at' = [t \in Threads |-> "crashed"]
  /\ UNCHANGED <<vars, printed, raceVars>>

ThreadsNext ==
  \/ MainStep \/ CreateThreads
  \/ \E t \in Threads : ~ alone /\
       \/ Call(t) \/ Test(t) \/ Fill(t) \/ ReturnText(t)
       \/ CopyShared(t) \/ OwnCopy(t)
  \/ Crash

ThreadsSpec == ThreadsInit /\ [][ThreadsNext]_threadVars

----------------------------------------------------------------------------
\* A program may share an endpoint that it has printed before, or print and copy it under a
\* mutex, or only copy it and print the copies: none of these is a race.
RaceHasCause == undefined => ~ warm /\ ~ guarded /\ writers # {}

\* Without a race, every endpoint prints what it is, and all threads get the text and the
\* port that the shared one was made from.
TextIsRight ==
  ~ undefined =>
    /\ PrintsWhatItIs
    /\ \A t \in Threads : printed[t] \in {Nothing, meant[Shared]}

\* Without a race, the threads do to endpoints what one thread does after the other: the
\* steps of to_string() are one Show.
StepsAreCalls == [][~ alone /\ ~ undefined' => [Next]_vars]_threadVars
=============================================================================
