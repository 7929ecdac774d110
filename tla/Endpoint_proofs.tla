--------------------------- MODULE Endpoint_proofs ---------------------------
(***************************************************************************)
(* What endpoints print and when they are equal, for every size of a byte,   *)
(* all addresses and ports, and any number of objects; and when any number   *)
(* of threads may share one.                                                *)
(***************************************************************************)
EXTENDS EndpointThreads, TLAPS

(***************************************************************************)
(* Quotient and remainder are determined by the number they make.           *)
(***************************************************************************)
LEMMA DivMod ==
  ASSUME NEW m \in Nat, NEW q \in Nat, NEW r \in Nat, r < m
  PROVE  (q * m + r) \div m = q /\ (q * m + r) % m = r
<1> DEFINE x == q * m + r
           k == x \div m
           s == x % m
<1>1. x \in Nat /\ k \in Nat /\ s \in 0 .. m - 1 /\ x = k * m + s
  <2>1. q * m \in Nat
    BY Z3
  <2>2. x \in Nat /\ m > 0
    BY <2>1
  <2> HIDE DEF x
  <2> QED
    BY <2>2, Z3
<1> HIDE DEF x, k, s
<1>2. x = q * m + r
  BY DEF x
<1>3. q = k
  <2>1. ASSUME q >= k + 1 PROVE FALSE
    <3>1. q * m >= (k + 1) * m
      BY <1>1, <2>1, Z3
    <3>2. (k + 1) * m = k * m + m /\ k * m \in Nat /\ q * m \in Nat
      BY <1>1, Z3
    <3> QED
      BY <1>1, <1>2, <3>1, <3>2
  <2>2. ASSUME k >= q + 1 PROVE FALSE
    <3>1. k * m >= (q + 1) * m
      BY <1>1, <2>2, Z3
    <3>2. (q + 1) * m = q * m + m /\ k * m \in Nat /\ q * m \in Nat
      BY <1>1, Z3
    <3> QED
      BY <1>1, <1>2, <3>1, <3>2
  <2> QED
    BY <1>1, <2>1, <2>2
<1>4. r = s
  <2>1. k * m \in Nat
    BY <1>1, Z3
  <2> QED
    BY <1>1, <1>2, <1>3, <2>1
<1> QED
  BY <1>3, <1>4 DEF x, k, s

(***************************************************************************)
(* The order of the bytes of a port, changed twice, is what it was.         *)
(***************************************************************************)
LEMMA SwapTwice ==
  ASSUME NEW n \in PortNumber
  PROVE  htons(n) \in PortNumber /\ ntohs(htons(n)) = n
<1> DEFINE lo == n % Base
           hi == n \div Base
<1>1. n \in Nat /\ n < Base * Base /\ Base * Base \in Nat
  BY EndpointAssumption, Z3 DEF PortNumber
<1>2. lo \in Nat /\ lo < Base /\ hi \in Nat /\ hi * Base + lo = n
  BY <1>1, EndpointAssumption, Z3
<1> HIDE DEF lo, hi
<1>3. hi < Base
  <2>1. SUFFICES ASSUME hi >= Base PROVE FALSE
    BY <1>2, EndpointAssumption
  <2>2. hi * Base >= Base * Base
    BY <1>2, <2>1, EndpointAssumption, Z3
  <2> QED
    BY <1>1, <1>2, <2>2, EndpointAssumption
<1>4. htons(n) = lo * Base + hi
  BY DEF htons, lo, hi
<1>5. htons(n) \in PortNumber
  <2>1. lo * Base <= (Base - 1) * Base /\ lo * Base \in Nat
    BY <1>2, EndpointAssumption, Z3
  <2>2. (Base - 1) * Base = Base * Base - Base
    BY EndpointAssumption, Z3
  <2> QED
    BY <1>1, <1>2, <1>3, <1>4, <2>1, <2>2, EndpointAssumption DEF PortNumber
<1>6. htons(n) % Base = hi /\ htons(n) \div Base = lo
  BY <1>2, <1>3, <1>4, DivMod, EndpointAssumption
<1> QED
  BY <1>2, <1>5, <1>6 DEF ntohs

LEMMA SwapIsInjective ==
  ASSUME NEW m \in PortNumber, NEW n \in PortNumber, ntohs(m) = ntohs(n)
  PROVE  m = n
<1>1. htons(m) = htons(n)
  BY DEF htons, ntohs
<1> QED
  BY <1>1, SwapTwice

(***************************************************************************)
(* The bytes of the constants of localhost() and any().                     *)
(***************************************************************************)
LEMMA Constants ==
  /\ localhost = ipv4(<<Base \div 2 - 1, 0, 0, 1>>)
  /\ any = ipv4(<<0, 0, 0, 0>>)
  /\ <<Base \div 2 - 1, 0, 0, 1>> \in IPv4Texts
  /\ <<0, 0, 0, 0>> \in IPv4Texts
<1> DEFINE d == Base \div 2 - 1
           B2 == Base * Base
           B3 == Base * Base * Base
<1>1. d \in Nat /\ d < Base
  BY EndpointAssumption
<1>2. /\ B2 \in Nat /\ B3 \in Nat /\ Base < B2 /\ B2 < B3
      /\ B3 = B2 * Base /\ B3 = Base * B2
  <2>1. B2 \in Nat /\ Base < B2
    BY EndpointAssumption, Z3
  <2>2. B3 = B2 * Base /\ B3 = Base * B2
    BY EndpointAssumption, Z3
  <2> HIDE DEF B2
  <2>3. B2 * Base \in Nat /\ B2 < B2 * Base
    BY <2>1, EndpointAssumption, Z3
  <2> QED
    BY <2>1, <2>2, <2>3
<1> DEFINE w == 1 * Base * Base * Base + d
<1>3. w = B3 + d
  BY EndpointAssumption, <1>1, Z3
<1>4. Memory(w) = <<w % Base, (w \div Base) % Base, (w \div B2) % Base, (w \div B3) % Base>>
  BY DEF Memory
<1>5. Memory(0) = <<0 % Base, (0 \div Base) % Base, (0 \div B2) % Base, (0 \div B3) % Base>>
  BY DEF Memory
<1> HIDE DEF w, d, B2, B3
<1>6. ASSUME NEW m \in Nat, m > 0 PROVE 0 \div m = 0 /\ 0 % m = 0
  <2>1. 0 * m + 0 = 0
    BY <1>6, Z3
  <2> QED
    BY <1>6, <2>1, DivMod
<1>7. w % Base = d /\ w \div Base = B2
  <2>1. w = B2 * Base + d
    BY <1>2, <1>3
  <2> QED
    BY <1>1, <1>2, <2>1, DivMod, EndpointAssumption
<1>8. w \div B2 = Base
  <2>1. w = Base * B2 + d /\ d < B2
    BY <1>1, <1>2, <1>3, EndpointAssumption
  <2> QED
    BY <1>1, <1>2, <2>1, DivMod, EndpointAssumption
<1>9. w \div B3 = 1
  <2>1. w = 1 * B3 + d /\ d < B3
    BY <1>1, <1>2, <1>3, EndpointAssumption
  <2> QED
    BY <1>1, <1>2, <2>1, DivMod, EndpointAssumption
<1>10. B2 % Base = 0 /\ Base % Base = 0 /\ 1 % Base = 1
  <2>1. B2 = Base * Base + 0 /\ Base = 1 * Base + 0 /\ 1 = 0 * Base + 1
    BY EndpointAssumption, Z3 DEF B2
  <2>2. B2 % Base = 0
    BY <2>1, DivMod, EndpointAssumption
  <2>3. Base % Base = 0
    BY <2>1, DivMod, EndpointAssumption
  <2>4. 1 % Base = 1
    BY <2>1, DivMod, EndpointAssumption
  <2> QED
    BY <2>2, <2>3, <2>4
<1>11. Memory(w) = <<d, 0, 0, 1>>
  BY <1>4, <1>7, <1>8, <1>9, <1>10
<1>12. Memory(0) = <<0, 0, 0, 0>>
  BY <1>2, <1>5, <1>6, EndpointAssumption
<1>13. <<d, 0, 0, 1>> \in IPv4Texts /\ <<0, 0, 0, 0>> \in IPv4Texts
  BY <1>1, EndpointAssumption DEF IPv4Texts, Byte
<1> QED
  BY <1>11, <1>12, <1>13 DEF localhost, any, w, d

----------------------------------------------------------------------------
(***************************************************************************)
(* The invariant: a sockaddr_in has the bytes and the port that were meant,  *)
(* and a cached text that is still there is theirs.                         *)
(***************************************************************************)
Kept(e, text, what) ==
  \E family \in Families, zero \in Paddings, a \in IPv4Texts, n \in PortNumber :
    /\ e = sockaddr_in(family, a, n, zero)
    /\ what = <<a, ntohs(n)>>
    /\ text \in {Nothing, MovedText, what}

EndpointInv ==
  /\ native = [o \in Objects |-> native[o]]
  /\ strCache = [o \in Objects |-> strCache[o]]
  /\ meant = [o \in Objects |-> meant[o]]
  /\ \A o \in Objects :
       native[o] \in {Dead, sockaddr_in6} \/ Kept(native[o], strCache[o], meant[o])

LEMMA InitOK == Init => EndpointInv
BY DEF Init, EndpointInv

(***************************************************************************)
(* One object is given a state.                                             *)
(***************************************************************************)
LEMMA MakeOK ==
  ASSUME EndpointInv, NEW o \in Objects, NEW e, NEW text, NEW p, Make(o, e, text, p),
         e = sockaddr_in6 \/ Kept(e, Nothing, <<text, p>>)
  PROVE  EndpointInv'
BY DEF EndpointInv, Make

LEMMA ConstructOK ==
  ASSUME EndpointInv, NEW o \in Objects, NEW p \in PortNumber, Construct(o, p)
  PROVE  EndpointInv'
<1>1. ASSUME NEW a \in IPv4Texts, Make(o, endpoint(ipv4(a), port(p)), a, p)
      PROVE  EndpointInv'
  <2>1. endpoint(ipv4(a), port(p)) = sockaddr_in("AF_INET", a, htons(p), 0)
    BY DEF endpoint, ipv4, port
  <2>2. Kept(endpoint(ipv4(a), port(p)), Nothing, <<a, p>>)
    BY <2>1, SwapTwice DEF Kept, Families, Paddings
  <2> QED
    BY <1>1, <2>2, MakeOK
<1>2. ASSUME NEW text, from_ipv4_string(text) # invalid_address
      PROVE  text \in IPv4Texts /\ from_ipv4_string(text) = ipv4(text)
  BY <1>2 DEF from_ipv4_string, ipv4_from_ip_string, inet_pton
<1>3. CASE Make(o, endpoint(ipv6, port(p)), "::", p)
  <2>1. endpoint(ipv6, port(p)) = sockaddr_in6
    BY DEF endpoint, ipv6
  <2> QED
    BY <1>3, <2>1, MakeOK
<1> QED
  BY <1>1, <1>2, <1>3, Constants DEF Construct

LEMMA FromKernelOK ==
  ASSUME EndpointInv, NEW o \in Objects, NEW a \in Addresses, NEW n \in PortNumber,
         NEW family \in Families, NEW zero \in Paddings,
         Make(o, sockaddr_in(family, a, n, zero), a, ntohs(n))
  PROVE  EndpointInv'
<1>1. a \in IPv4Texts
  BY EndpointAssumption
<1>2. Kept(sockaddr_in(family, a, n, zero), Nothing, <<a, ntohs(n)>>)
  BY <1>1 DEF Kept
<1> QED
  BY <1>2, MakeOK

(***************************************************************************)
(* The text of an endpoint that nothing was moved from is its own.          *)
(***************************************************************************)
LEMMA TextIsMeant ==
  ASSUME NEW o \in Objects, Kept(native[o], strCache[o], meant[o]),
         strCache[o] # MovedText
  PROVE  Text(o) = meant[o]
<1>1. PICK family \in Families, zero \in Paddings, a \in IPv4Texts, n \in PortNumber :
        /\ native[o] = sockaddr_in(family, a, n, zero)
        /\ meant[o] = <<a, ntohs(n)>>
        /\ strCache[o] \in {Nothing, MovedText, meant[o]}
  BY DEF Kept
<1>2. to_string(native[o]) = <<a, ntohs(n)>>
  BY <1>1 DEF to_string, get_ip, get_port, ip_to_string, ipv4, port_from_native,
     sockaddr_in
<1> QED
  BY <1>1, <1>2 DEF Text

LEMMA ShowOK ==
  ASSUME EndpointInv, NEW o \in Objects, Show(o)
  PROVE  EndpointInv'
<1>1. /\ strCache' = [strCache EXCEPT ![o] = Text(o)]
      /\ native' = native /\ meant' = meant
  BY DEF Show
<1>2. ASSUME Kept(native[o], strCache[o], meant[o])
      PROVE  Kept(native[o], Text(o), meant[o])
  <2>1. CASE strCache[o] = MovedText
    BY <1>2, <2>1 DEF Text, Nothing, MovedText
  <2>2. CASE strCache[o] # MovedText
    BY <1>2, <2>2, TextIsMeant DEF Kept
  <2> QED
    BY <2>1, <2>2
<1> QED
  BY <1>1, <1>2 DEF EndpointInv

LEMMA MoveOK ==
  ASSUME EndpointInv, NEW o \in Objects, NEW q \in Objects, Move(o, q)
  PROVE  EndpointInv'
<1>1. ASSUME NEW e, NEW text, NEW what, Kept(e, text, what)
      PROVE  Kept(e, MovedText, what)
  BY <1>1 DEF Kept
<1>2. /\ o # q /\ native' = [native EXCEPT ![o] = native[q]]
      /\ meant' = [meant EXCEPT ![o] = meant[q]]
      /\ strCache' = [strCache EXCEPT ![o] = strCache[q],
            ![q] = IF strCache[q] = Nothing THEN Nothing ELSE MovedText]
  BY DEF Move, EndpointInv
<1> QED
  BY <1>1, <1>2 DEF EndpointInv

LEMMA EndpointStepOK == EndpointInv /\ [Next]_vars => EndpointInv'
<1> SUFFICES ASSUME EndpointInv, [Next]_vars PROVE EndpointInv'
  OBVIOUS
<1>1. CASE UNCHANGED vars
  BY <1>1 DEF vars, EndpointInv
<1>2. ASSUME NEW o \in Objects, NEW p \in PortNumber, Construct(o, p)
      PROVE  EndpointInv'
  BY <1>2, ConstructOK
<1>3. ASSUME NEW o \in Objects, NEW a \in Addresses, NEW n \in PortNumber,
             \/ FromDatagram(o, a, n)
             \/ \E family \in Families, zero \in Paddings :
                  from_socket(o, a, n, family, zero)
      PROVE  EndpointInv'
  BY <1>3, FromKernelOK DEF FromDatagram, from_socket, Families, Paddings
<1>4. ASSUME NEW o \in Objects, NEW q \in Objects, Copy(o, q) PROVE EndpointInv'
  BY <1>4 DEF Copy, EndpointInv
<1>5. ASSUME NEW o \in Objects, NEW q \in Objects, Move(o, q) PROVE EndpointInv'
  BY <1>5, MoveOK
<1>6. ASSUME NEW o \in Objects, Show(o) PROVE EndpointInv'
  BY <1>6, ShowOK
<1>7. ASSUME NEW o \in Objects, Destroy(o) PROVE EndpointInv'
  BY <1>7 DEF Destroy, EndpointInv
<1> QED
  BY <1>1, <1>2, <1>3, <1>4, <1>5, <1>6, <1>7 DEF Next

----------------------------------------------------------------------------
LEMMA InetIsKept ==
  ASSUME EndpointInv, NEW o \in Objects, Inet(o)
  PROVE  Kept(native[o], strCache[o], meant[o])
BY DEF EndpointInv, Inet, Dead, sockaddr_in6

LEMMA PrintsOK == EndpointInv => PrintsWhatItIs
BY InetIsKept, TextIsMeant DEF PrintsWhatItIs, Intact

\* What is said of the address of an endpoint, whatever its text.
ValuesAreKept ==
  \A o \in Objects :
    native[o] \in {Dead, sockaddr_in6} \/ Kept(native[o], Nothing, meant[o])

LEMMA EndpointValues == EndpointInv => ValuesAreKept
BY DEF EndpointInv, ValuesAreKept, Kept

LEMMA EqualOK == ValuesAreKept => EqualIsSame
<1> SUFFICES ASSUME ValuesAreKept, NEW o \in Objects, NEW q \in Objects, Inet(o), Inet(q)
             PROVE
               LET e == native[o]
                   f == native[q]
                   parts == same_ip(get_ip(e), get_ip(f))
                            /\ same_port(get_port(e), get_port(f))
               IN  /\ parts <=> meant[o] = meant[q]
                   /\ same(e, f) => parts
                   /\ Valid(e) /\ Valid(f) /\ parts => same(e, f)
  BY DEF EqualIsSame
<1>1. PICK family1 \in Families, zero1 \in Paddings, a \in IPv4Texts, m \in PortNumber :
        /\ native[o] = sockaddr_in(family1, a, m, zero1)
        /\ meant[o] = <<a, ntohs(m)>>
  BY DEF ValuesAreKept, Kept, Inet, Dead, sockaddr_in6
<1>2. PICK family2 \in Families, zero2 \in Paddings, b \in IPv4Texts, n \in PortNumber :
        /\ native[q] = sockaddr_in(family2, b, n, zero2)
        /\ meant[q] = <<b, ntohs(n)>>
  BY DEF ValuesAreKept, Kept, Inet, Dead, sockaddr_in6
<1>3. same_ip(get_ip(native[o]), get_ip(native[q])) <=> a = b
  BY <1>1, <1>2 DEF same_ip, get_ip, ipv4, sockaddr_in
<1>4. same_port(get_port(native[o]), get_port(native[q])) <=> ntohs(m) = ntohs(n)
  BY <1>1, <1>2 DEF same_port, get_port, port_from_native, sockaddr_in
<1>5. ntohs(m) = ntohs(n) <=> m = n
  BY SwapIsInjective
<1>6. same(native[o], native[q])
        <=> family1 = family2 /\ a = b /\ m = n /\ zero1 = zero2
  BY <1>1, <1>2 DEF same, sockaddr_in
<1>7. /\ native[o].sin_family = family1 /\ native[o].sin_zero = zero1
      /\ native[q].sin_family = family2 /\ native[q].sin_zero = zero2
  BY <1>1, <1>2 DEF sockaddr_in
<1> QED
  BY <1>1, <1>2, <1>3, <1>4, <1>5, <1>6, <1>7 DEF Valid

(***************************************************************************)
(* An endpoint prints the text and the port it was made from, for every      *)
(* Base: the constants of localhost() and any(), the order of the bytes of   *)
(* a port and the cache of the text are right.                              *)
(***************************************************************************)
THEOREM PrintsWhatItIsAlways == Spec => []PrintsWhatItIs
  BY PrintsOK, InitOK, EndpointStepOK, PTL DEF Spec

----------------------------------------------------------------------------
(***************************************************************************)
(* Threads.  Until there is a race, all endpoints are as in a program of one *)
(* thread; the shared endpoint and its text, if it has one, are those it was *)
(* made from; nobody writes a text that was there before the threads.  A     *)
(* race spoils texts, but no address.                                       *)
(***************************************************************************)
SharedIsRight ==
  /\ native[Shared] # Dead /\ to_string(native[Shared]) = meant[Shared]
  /\ meant[Shared] # Nothing
  /\ strCache[Shared] \in {Nothing, meant[Shared]}

PrintedIsRight == \A t \in Threads : printed[t] \in {Nothing, meant[Shared]}

ThreadsInv ==
  /\ native = [o \in Objects |-> native[o]]
  /\ meant = [o \in Objects |-> meant[o]]
  /\ strCache = [o \in Objects |-> strCache[o]]
  /\ at = [t \in Threads |-> at[t]]
  /\ printed = [t \in Threads |-> printed[t]]
  /\ alone => /\ ~ warm /\ ~ undefined /\ writers = {}
              /\ \A t \in Threads : at[t] = "idle" /\ printed[t] = Nothing
  /\ ~ alone => SharedIsRight
  /\ warm => /\ strCache[Shared] # Nothing /\ writers = {}
             /\ \A t \in Threads : at[t] # "fill"
  /\ undefined => ~ guarded /\ writers # {}
  /\ ~ undefined => PrintedIsRight

LEMMA ThreadsInitOK == ThreadsInit => ThreadsInv /\ EndpointInv
<1> SUFFICES ASSUME ThreadsInit PROVE ThreadsInv /\ EndpointInv
  OBVIOUS
<1>1. EndpointInv
  BY InitOK DEF ThreadsInit
<1> QED
  BY <1>1 DEF ThreadsInit, ThreadsInv, PrintedIsRight, EndpointInv

LEMMA MembersOfObjects ==
  Shared \in Objects /\ \A t \in Threads : t \in Objects /\ t # Shared
BY ThreadsAssumption

(***************************************************************************)
(* Without a race, a step is a step of a program of one thread.             *)
(***************************************************************************)
LEMMA StepIsCall ==
  ASSUME ThreadsInv, [ThreadsNext]_threadVars, ~ undefined'
  PROVE  [Next]_vars
<1>1. ASSUME NEW t \in Threads, ~ alone, Fill(t) PROVE [Next]_vars
  <2>1. Text(Shared) = to_string(native[Shared])
    BY <1>1 DEF Text, ThreadsInv, SharedIsRight
  <2>2. Show(Shared)
    BY <1>1, <2>1 DEF Fill, Show, Lives, ThreadsInv, SharedIsRight
  <2> QED
    BY <2>2, MembersOfObjects DEF Next
<1>2. ASSUME NEW t \in Threads, ~ alone, CopyShared(t) PROVE [Next]_vars
  <2>1. Found(Shared) = {strCache[Shared]}
    BY DEF Found
  <2>2. Copy(t, Shared)
    BY <1>2, <2>1, MembersOfObjects
       DEF CopyShared, Copy, Lives, ThreadsInv, SharedIsRight
  <2> QED
    BY <2>2, MembersOfObjects DEF Next
<1>3. ASSUME NEW t \in Threads, OwnCopy(t) PROVE [Next]_vars
  BY <1>3, MembersOfObjects DEF OwnCopy, Next
<1>4. CASE UNCHANGED vars
  BY <1>4
<1> QED
  BY <1>1, <1>2, <1>3, <1>4
     DEF ThreadsNext, threadVars, MainStep, CreateThreads, Call, Test, ReturnText, Crash

(***************************************************************************)
(* The creation of the threads.                                             *)
(***************************************************************************)
LEMMA CreateOK ==
  ASSUME ThreadsInv, EndpointInv, CreateThreads
  PROVE  ThreadsInv'
<1>1. PICK family \in Families, zero \in Paddings, a \in IPv4Texts, n \in PortNumber :
        /\ native[Shared] = sockaddr_in(family, a, n, zero)
        /\ meant[Shared] = <<a, ntohs(n)>>
        /\ strCache[Shared] \in {Nothing, MovedText, meant[Shared]}
  BY InetIsKept, MembersOfObjects DEF CreateThreads, Intact, Kept
<1>2. to_string(native[Shared]) = meant[Shared]
  BY <1>1 DEF to_string, get_ip, get_port, ip_to_string, ipv4, port_from_native, sockaddr_in
<1>3. native[Shared] # Dead /\ meant[Shared] # Nothing
  BY <1>1 DEF sockaddr_in, Dead, Nothing
<1>4. SharedIsRight'
  BY <1>1, <1>2, <1>3 DEF SharedIsRight, CreateThreads, Intact, vars
<1>5. ~ undefined' /\ PrintedIsRight'
  BY DEF ThreadsInv, CreateThreads, PrintedIsRight
<1> QED
  BY <1>4, <1>5 DEF CreateThreads, vars, ThreadsInv

(***************************************************************************)
(* A step of a thread on the endpoint of its own.                           *)
(***************************************************************************)
LEMMA OwnOK ==
  ASSUME ThreadsInv, NEW t \in Threads, ~ alone,
         strCache' = [strCache EXCEPT ![t] = strCache'[t]],
         native' = [native EXCEPT ![t] = native'[t]],
         meant' = [meant EXCEPT ![t] = meant'[t]],
         UNCHANGED <<at, printed, alone, warm, guarded, writers>>,
         undefined => undefined',
         undefined' => ~ guarded /\ writers # {}
  PROVE  ThreadsInv'
<1>1. /\ native'[Shared] = native[Shared] /\ meant'[Shared] = meant[Shared]
      /\ strCache'[Shared] = strCache[Shared]
  BY MembersOfObjects DEF ThreadsInv
<1>2. SharedIsRight'
  BY <1>1 DEF ThreadsInv, SharedIsRight
<1>3. ~ undefined' => PrintedIsRight'
  BY <1>1 DEF ThreadsInv, PrintedIsRight
<1>4. /\ native' = [o \in Objects |-> native'[o]]
      /\ meant' = [o \in Objects |-> meant'[o]]
      /\ strCache' = [o \in Objects |-> strCache'[o]]
  BY DEF ThreadsInv
<1> QED
  BY <1>1, <1>2, <1>3, <1>4 DEF ThreadsInv

LEMMA ReturnOK ==
  ASSUME ThreadsInv, NEW t \in Threads, ~ alone, ReturnText(t)
  PROVE  ThreadsInv'
<1>1. PICK x \in Found(Shared) : printed' = [printed EXCEPT ![t] = x]
  BY DEF ReturnText
<1>2. ~ undefined' => x \in {Nothing, meant[Shared]}
  BY <1>1 DEF Found, ThreadsInv, SharedIsRight
<1>3. undefined => undefined'
  BY DEF ReturnText, Reads
<1>4. ~ undefined' => PrintedIsRight'
  BY <1>1, <1>2, <1>3 DEF ReturnText, vars, ThreadsInv, PrintedIsRight
<1>5. printed' = [u \in Threads |-> printed'[u]]
  BY <1>1 DEF ThreadsInv
<1> QED
  BY <1>4, <1>5 DEF ReturnText, Goto, Reads, vars, ThreadsInv, SharedIsRight

LEMMA FillOK ==
  ASSUME ThreadsInv, NEW t \in Threads, ~ alone, Fill(t)
  PROVE  ThreadsInv'
<1>1. ~ warm
  BY DEF Fill, ThreadsInv
<1>2. strCache'[Shared] = to_string(native[Shared])
  BY MembersOfObjects DEF Fill, ThreadsInv
<1>3. SharedIsRight'
  BY <1>2 DEF Fill, ThreadsInv, SharedIsRight
<1> QED
  BY <1>1, <1>3 DEF Fill, Goto, Writes, ThreadsInv, PrintedIsRight

LEMMA ThreadsStepOK ==
  ASSUME ThreadsInv, ~ undefined => EndpointInv, [ThreadsNext]_threadVars
  PROVE  ThreadsInv'
<1>1. CASE UNCHANGED threadVars
  BY <1>1 DEF threadVars, vars, raceVars, ThreadsInv, SharedIsRight, PrintedIsRight
<1>2. CASE MainStep
  <2>1. EndpointInv'
    BY <1>2, EndpointStepOK DEF MainStep, ThreadsInv
  <2> QED
    BY <1>2, <2>1 DEF MainStep, raceVars, ThreadsInv, EndpointInv, PrintedIsRight
<1>3. CASE CreateThreads
  BY <1>3, CreateOK DEF CreateThreads, ThreadsInv
<1>4. ASSUME NEW t \in Threads, ~ alone, Call(t) PROVE ThreadsInv'
  BY <1>4 DEF Call, Goto, vars, raceVars, ThreadsInv, SharedIsRight, PrintedIsRight
<1>5. ASSUME NEW t \in Threads, ~ alone, Test(t) PROVE ThreadsInv'
  BY <1>5 DEF Test, Goto, Reads, vars, ThreadsInv, SharedIsRight, PrintedIsRight
<1>6. ASSUME NEW t \in Threads, ~ alone, CopyShared(t) PROVE ThreadsInv'
  <2>1. /\ native' = [native EXCEPT ![t] = native'[t]]
        /\ meant' = [meant EXCEPT ![t] = meant'[t]]
        /\ strCache' = [strCache EXCEPT ![t] = strCache'[t]]
    BY <1>6, MembersOfObjects DEF CopyShared, ThreadsInv
  <2>2. undefined' => ~ guarded /\ writers # {}
    BY <1>6 DEF CopyShared, Reads, ThreadsInv
  <2> QED
    BY <1>6, <2>1, <2>2, OwnOK DEF CopyShared, Reads
<1>7. ASSUME NEW t \in Threads, ~ alone, OwnCopy(t) PROVE ThreadsInv'
  <2>1. /\ native' = [native EXCEPT ![t] = native'[t]]
        /\ meant' = [meant EXCEPT ![t] = meant'[t]]
        /\ strCache' = [strCache EXCEPT ![t] = strCache'[t]]
    BY <1>7, MembersOfObjects DEF OwnCopy, Show, Destroy, ThreadsInv
  <2>2. UNCHANGED <<at, printed, raceVars>>
    BY <1>7 DEF OwnCopy
  <2> QED
    BY <1>7, <2>1, <2>2, OwnOK DEF raceVars, ThreadsInv
<1>8. CASE Crash
  BY <1>8 DEF Crash, vars, raceVars, ThreadsInv, SharedIsRight, PrintedIsRight
<1> QED
  BY <1>1, <1>2, <1>3, <1>4, <1>5, <1>6, <1>7, <1>8, FillOK, ReturnOK DEF ThreadsNext

\* A race is for ever.
LEMMA RaceStays == undefined /\ [ThreadsNext]_threadVars /\ ThreadsInv => undefined'
BY DEF ThreadsNext, threadVars, raceVars, ThreadsInv, MainStep, CreateThreads, Call, Test,
   Fill, ReturnText, CopyShared, OwnCopy, Crash, Reads, Writes

LEMMA ValuesStepOK ==
  ASSUME ThreadsInv, ~ undefined => EndpointInv, ValuesAreKept, [ThreadsNext]_threadVars
  PROVE  ValuesAreKept'
<1>1. CASE UNCHANGED <<native, meant>>
  BY <1>1 DEF ValuesAreKept
<1>2. CASE MainStep
  <2>1. EndpointInv'
    BY <1>2, EndpointStepOK DEF MainStep, ThreadsInv
  <2> QED
    BY <2>1 DEF EndpointInv, ValuesAreKept, Kept
<1>3. ASSUME NEW t \in Threads, CopyShared(t) PROVE ValuesAreKept'
  <2>1. ASSUME NEW o \in Objects
        PROVE  \/ native'[o] = native[o] /\ meant'[o] = meant[o]
               \/ native'[o] = native[Shared] /\ meant'[o] = meant[Shared]
    BY <1>3 DEF CopyShared, ThreadsInv
  <2> QED
    BY <2>1, MembersOfObjects DEF ValuesAreKept
<1>4. ASSUME NEW t \in Threads, OwnCopy(t) PROVE ValuesAreKept'
  BY <1>4 DEF OwnCopy, Show, Destroy, ValuesAreKept, ThreadsInv
<1> QED
  BY <1>1, <1>2, <1>3, <1>4
     DEF ThreadsNext, threadVars, vars, CreateThreads, Call, Test, Fill, ReturnText, Crash

RaceInv == ThreadsInv /\ (~ undefined => EndpointInv) /\ ValuesAreKept

LEMMA RaceInvariant == ThreadsSpec => []RaceInv
<1>1. ThreadsInit => RaceInv
  BY ThreadsInitOK, EndpointValues DEF RaceInv
<1>2. ASSUME RaceInv, [ThreadsNext]_threadVars PROVE RaceInv'
  <2>1. ThreadsInv' /\ ValuesAreKept'
    BY <1>2, ThreadsStepOK, ValuesStepOK DEF RaceInv
  <2>2. ~ undefined' => EndpointInv'
    BY <1>2, RaceStays, StepIsCall, EndpointStepOK DEF RaceInv
  <2> QED
    BY <2>1, <2>2 DEF RaceInv
<1> QED
  BY <1>1, <1>2, PTL DEF ThreadsSpec

----------------------------------------------------------------------------
(***************************************************************************)
(* The parts of endpoints are equal when they are the same address and port, *)
(* endpoints only then, and always then if their socket addresses are valid; *)
(* and no race of to_string() changes that.                                 *)
(***************************************************************************)
THEOREM EqualIsSameAlways == ThreadsSpec => []EqualIsSame
<1>1. RaceInv => EqualIsSame
  BY EqualOK DEF RaceInv
<1> QED
  BY <1>1, RaceInvariant, PTL

(***************************************************************************)
(* Any number of threads may share an endpoint that was printed before, or   *)
(* that they print and copy under a mutex, or that they only copy.          *)
(***************************************************************************)
THEOREM RaceHasCauseAlways == ThreadsSpec => []RaceHasCause
<1>1. RaceInv => RaceHasCause
  BY DEF RaceInv, ThreadsInv, RaceHasCause
<1> QED
  BY <1>1, RaceInvariant, PTL

(***************************************************************************)
(* Without a race every endpoint prints what it is, and every thread gets    *)
(* the text of the shared one.                                              *)
(***************************************************************************)
THEOREM TextIsRightAlways == ThreadsSpec => []TextIsRight
<1>1. RaceInv => TextIsRight
  BY PrintsOK DEF RaceInv, ThreadsInv, PrintedIsRight, TextIsRight
<1> QED
  BY <1>1, RaceInvariant, PTL

(***************************************************************************)
(* Without a race, threads are one program that calls one after the other:   *)
(* what is said of Spec holds of them.                                      *)
(***************************************************************************)
THEOREM StepsAreCallsAlways == ThreadsSpec => StepsAreCalls
<1>1. RaceInv /\ [ThreadsNext]_threadVars
        => [~ alone /\ ~ undefined' => [Next]_vars]_threadVars
  BY StepIsCall DEF RaceInv
<1> QED
  BY <1>1, RaceInvariant, PTL DEF ThreadsSpec, StepsAreCalls
=============================================================================
