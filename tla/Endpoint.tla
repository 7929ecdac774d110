------------------------------ MODULE Endpoint ------------------------------
(***************************************************************************)
(* The address values of the library: port, ip and endpoint                 *)
(* (lib/dirtynet/*.hh and lib/dirtynet/detail/posix/*.hh).                  *)
(*                                                                          *)
(* An endpoint keeps the socket address that the kernel wants, and, once it  *)
(* has been printed, its text.  The text of an address is the sequence of    *)
(* its numbers.  IPv6 is not implemented by the library: such an address has *)
(* no value.                                                                *)
(***************************************************************************)
EXTENDS Integers, Sequences

CONSTANTS
  Base,      \* the number of values of a byte; 256 in the program
  Texts,     \* what the program takes for the text of an IPv4 address
  Addresses, \* IPv4 addresses of sockets
  Objects    \* variables of type endpoint

Byte == 0 .. Base - 1
IPv4Texts == {<<a, b, c, d>> : a, b, c, d \in Byte}

ASSUME EndpointAssumption ==
  /\ Base \in Nat /\ Base > 1
  /\ Addresses \subseteq IPv4Texts

----------------------------------------------------------------------------
(***************************************************************************)
(* port.  A uint16_t, kept in the order of the network and of the host,      *)
(* which is little-endian.                                                  *)
(***************************************************************************)
PortNumber == 0 .. Base * Base - 1

htons(n) == (n % Base) * Base + n \div Base
ntohs(n) == (n % Base) * Base + n \div Base

\* Mutant: the number is taken as it is.
port_unswapped(p) == [_port |-> p, _local |-> p]

port(p) == [_port |-> htons(p), _local |-> p]
port_from_native(n) == [_port |-> n, _local |-> ntohs(n)]
same_port(p, q) == p._local = q._local

(***************************************************************************)
(* ip: a variant of IPv4, with the four bytes of its in_addr, and IPv6,      *)
(* without.                                                                 *)
(***************************************************************************)
ipv4(a) == [family |-> "inet", addr |-> a]
ipv6 == [family |-> "inet6"]
invalid_address == [family |-> "none"]

\* inet_pton() takes no other text.
inet_pton(text) == text \in IPv4Texts

ipv4_from_ip_string(text) == IF inet_pton(text) THEN ipv4(text) ELSE invalid_address
from_ipv4_string(text) == ipv4_from_ip_string(text)

\* The bytes of a uint32_t in memory.
Memory(n) ==
  <<n % Base, (n \div Base) % Base, (n \div (Base * Base)) % Base,
    (n \div (Base * Base * Base)) % Base>>

\* 0x7F is Base \div 2 - 1.
localhost == ipv4(Memory(1 * Base * Base * Base + (Base \div 2 - 1)))
any == ipv4(Memory(0))

ip_to_string(i) == IF i.family = "inet" THEN i.addr ELSE "unimplemented"
same_ip(i, j) == i = j

(***************************************************************************)
(* The native endpoint: a sockaddr_in, of which the constructor writes all   *)
(* that is not zero, or a sockaddr_in6, which stays zero.                   *)
(***************************************************************************)
sockaddr_in(family, addr, sin_port, zero) ==
  [storage |-> "sockaddr_in", sin_family |-> family, sin_addr |-> addr,
   sin_port |-> sin_port, sin_zero |-> zero]
sockaddr_in6 == [storage |-> "sockaddr_in6", sin6_port |-> 0]

endpoint(i, p) ==
  IF i.family = "inet" THEN sockaddr_in("AF_INET", i.addr, p._port, 0) ELSE sockaddr_in6

get_ip(e) == IF e.storage = "sockaddr_in" THEN ipv4(e.sin_addr) ELSE ipv6

get_port(e) ==
  port_from_native(IF e.storage = "sockaddr_in" THEN e.sin_port ELSE e.sin6_port)

to_string(e) == <<ip_to_string(get_ip(e)), get_port(e)._local>>

\* memcmp over the whole socket address.
same(e, f) == e = f

----------------------------------------------------------------------------
(***************************************************************************)
(* Variables of type endpoint.                                              *)
(***************************************************************************)
VARIABLES
  native,    \* native[o]: _native, or Dead outside of o's lifetime
  strCache,  \* strCache[o]: _strCache
  meant      \* history: the text and the port number that o was made from

vars == <<native, strCache, meant>>

Dead == [storage |-> "none"]
Nothing == <<>>
MovedText == <<"moved">>

Init ==
  /\ native = [o \in Objects |-> Dead]
  /\ strCache = [o \in Objects |-> Nothing]
  /\ meant = [o \in Objects |-> Nothing]

Lives(o) == native[o] # Dead

Make(o, e, text, p) ==
  /\ ~ Lives(o)
  /\ native' = [native EXCEPT ![o] = e]
  /\ strCache' = [strCache EXCEPT ![o] = Nothing]
  /\ meant' = [meant EXCEPT ![o] = <<text, p>>]

\* endpoint(ip, port), of a text that is an address, of localhost() or any(), or of IPv6.
Construct(o, p) ==
  \/ \E text \in Texts :
       /\ from_ipv4_string(text) # invalid_address
       /\ Make(o, endpoint(from_ipv4_string(text), port(p)), text, p)
  \/ Make(o, endpoint(localhost, port(p)), <<Base \div 2 - 1, 0, 0, 1>>, p)
  \/ Make(o, endpoint(any, port(p)), <<0, 0, 0, 0>>, p)
  \/ Make(o, endpoint(ipv6, port(p)), "::", p)

\* The sender of a datagram, as recvfrom() gives it: an IPv4 address, and a port in the
\* order of the network.
FromDatagram(o, a, sin_port) ==
  Make(o, sockaddr_in("AF_INET", a, sin_port, 0), a, ntohs(sin_port))

Families == {"AF_INET", "AF_UNSPEC"}
Paddings == {0, 1}

\* from_socket() looks at nothing but the length of a socket address: the family and the
\* padding stay what the caller has put there.
from_socket(o, a, sin_port, family, zero) ==
  Make(o, sockaddr_in(family, a, sin_port, zero), a, ntohs(sin_port))

\* Mutant: only the address is assigned, and the text of the old one stays.
CopyAddress(o, q) ==
  /\ Lives(q) /\ o # q
  /\ native' = [native EXCEPT ![o] = native[q]]
  /\ meant' = [meant EXCEPT ![o] = meant[q]]
  /\ UNCHANGED strCache

\* Copying, as construction or assignment, copies address and text.
Copy(o, q) ==
  /\ Lives(q) /\ o # q
  /\ native' = [native EXCEPT ![o] = native[q]]
  /\ strCache' = [strCache EXCEPT ![o] = strCache[q]]
  /\ meant' = [meant EXCEPT ![o] = meant[q]]

\* Moving leaves the address where it was, but takes the text, and the cache does not
\* become empty: q prints an unspecified text from now on.
Move(o, q) ==
  /\ Lives(q) /\ o # q
  /\ native' = [native EXCEPT ![o] = native[q]]
  /\ strCache' = [strCache EXCEPT ![o] = strCache[q],
                                 ![q] = IF @ = Nothing THEN Nothing ELSE MovedText]
  /\ meant' = [meant EXCEPT ![o] = meant[q]]

\* to_string() of the facade fills the cache, and returns it.
Text(o) == IF strCache[o] = Nothing THEN to_string(native[o]) ELSE strCache[o]

Show(o) ==
  /\ Lives(o)
  /\ strCache' = [strCache EXCEPT ![o] = Text(o)]
  /\ UNCHANGED <<native, meant>>

Destroy(o) ==
  /\ Lives(o)
  /\ native' = [native EXCEPT ![o] = Dead]
  /\ strCache' = [strCache EXCEPT ![o] = Nothing]
  /\ meant' = [meant EXCEPT ![o] = Nothing]

Next ==
  \E o \in Objects :
    \/ \E p \in PortNumber : Construct(o, p)
    \/ \E a \in Addresses, n \in PortNumber :
         \/ FromDatagram(o, a, n)
         \/ \E family \in Families, zero \in Paddings :
              from_socket(o, a, n, family, zero)
    \/ \E q \in Objects : Copy(o, q) \/ Move(o, q)
    \/ Show(o) \/ Destroy(o)

Spec == Init /\ [][Next]_vars

----------------------------------------------------------------------------
(***************************************************************************)
(* Properties.  They are about IPv4; and an object that was moved from may   *)
(* print anything.                                                          *)
(***************************************************************************)
Inet(o) == native[o].storage = "sockaddr_in"
Intact(o) == Inet(o) /\ strCache[o] # MovedText

\* Whatever has been parsed, copied, moved, assigned and printed before: an endpoint
\* prints the text and, in the order of the host, the port that it was made from.
PrintsWhatItIs == \A o \in Objects : Intact(o) => Text(o) = meant[o]

\* The socket address of an IPv4 endpoint as the constructor and the kernel fill it in.
Valid(e) == e.sin_family = "AF_INET" /\ e.sin_zero = 0

\* Two endpoints have equal parts when, and only when, they are the same address and
\* port, however each was made, copied and moved.  They are equal only then; and if their
\* socket addresses are valid, whenever they are the same.
EqualIsSame ==
  \A o, q \in Objects :
    LET e == native[o]
        f == native[q]
        parts == same_ip(get_ip(e), get_ip(f)) /\ same_port(get_port(e), get_port(f))
    IN  Inet(o) /\ Inet(q) =>
          /\ parts <=> meant[o] = meant[q]
          /\ same(e, f) => parts
          /\ Valid(e) /\ Valid(f) /\ parts => same(e, f)

\* An endpoint is its ip and its port, and its socket address, with the family, was
\* validated (rev0-design.md:222-226 and 311-315, working-todos.md:157-158): so two with the
\* same address and port are equal.
EndpointIsIpAndPort ==
  \A o, q \in Objects :
    Inet(o) /\ Inet(q) /\ meant[o] = meant[q] => same(native[o], native[q])
=============================================================================
