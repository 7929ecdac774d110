------------------------ MODULE PacketStream_proofs ------------------------
(***************************************************************************)
(* What the codec and the streams guarantee for every Base, every set of     *)
(* packets, every buffer length and every capacity of the kernel.           *)
(*                                                                          *)
(* The argument: the stream of all the bytes written is cut into the        *)
(* encodings of the packets sent (FramesOK); the reader's incomingBuffer,   *)
(* the kernel's bytes and the writer's buffer are adjacent pieces of that   *)
(* stream, and the first begins exactly where a packet does (BytesOK).  So  *)
(* parse_packet is only ever asked about the front of an encoding, where    *)
(* ParseIsInverse says what it answers.                                     *)
(***************************************************************************)
EXTENDS PacketStream, PacketBuffer, SequenceTheorems, TLAPS

----------------------------------------------------------------------------
(***************************************************************************)
(* The codec: what parse_packet says of a buffer that begins with the        *)
(* encoding of a packet, or with a part of it (ParseIsInverse), and of any   *)
(* other bytes.                                                             *)
(***************************************************************************)
(***************************************************************************)
(* Taking off the last digit of a number and putting it back.               *)
(***************************************************************************)
LEMMA LastDigit ==
  ASSUME NEW w \in Nat
  PROVE  /\ w \div Base \in Nat
         /\ w % Base \in Byte
         /\ (w \div Base) * Base + (w % Base) = w
BY BaseAssumption, Z3 DEF Byte

(***************************************************************************)
(* A number of one digit more than q's bound leaves a quotient in bounds.   *)
(***************************************************************************)
LEMMA QuotientBound ==
  ASSUME NEW w \in Nat, NEW m \in Nat, w < m * Base
  PROVE  w \div Base < m
<1>1. DEFINE q == w \div Base
<1>2. q \in Nat /\ q * Base <= w
  BY LastDigit, BaseAssumption DEF Byte
<1> HIDE DEF q
<1>3. ASSUME q >= m PROVE FALSE
  <2>1. q * Base >= m * Base
    BY <1>2, <1>3, BaseAssumption, Z3
  <2> QED
    BY <2>1, <1>2, BaseAssumption
<1> QED
  BY <1>2, <1>3 DEF q

(***************************************************************************)
(* A number below the modulus is its own remainder.                         *)
(***************************************************************************)
LEMMA SmallModulus ==
  ASSUME NEW n \in Nat, NEW m \in Nat, n < m
  PROVE  n % m = n
<1>1. n \div m \in Nat /\ m * (n \div m) + (n % m) = n /\ n % m \in Nat
  BY Z3
<1>2. n \div m = 0
  <2>1. SUFFICES ASSUME n \div m >= 1 PROVE FALSE
    BY <1>1
  <2>2. m * (n \div m) >= m
    BY <1>1, <2>1, Z3
  <2> QED
    BY <1>1, <2>2
<1> QED
  BY <1>1, <1>2

(***************************************************************************)
(* A single digit is its own last digit.                                    *)
(***************************************************************************)
LEMMA SingleDigit ==
  ASSUME NEW s \in Nat, s < Base
  PROVE  s % Base = s /\ s \in Byte
<1>1. s \div Base < 1
  BY BaseAssumption, QuotientBound
<1>2. s \div Base = 0
  BY <1>1, LastDigit
<1>3. 0 * Base + (s % Base) = s
  BY <1>2, LastDigit
<1> QED
  BY <1>3, BaseAssumption, LastDigit DEF Byte

(***************************************************************************)
(* htonl writes four bytes, and ntohl reads back the word they stand for.   *)
(***************************************************************************)
LEMMA WordRoundTrip ==
  ASSUME NEW w \in Word
  PROVE  /\ htonl(w) \in Seq(Byte)
         /\ Len(htonl(w)) = WordSize
         /\ ntohl(htonl(w)) = w
<1> DEFINE q == w \div Base
           r == q \div Base
           s == r \div Base
<1>1. w \in Nat /\ w < (Base * Base * Base) * Base
  BY BaseAssumption DEF Word, WordSpan
<1>2. /\ Base \in Nat
      /\ Base * Base \in Nat
      /\ Base * Base * Base \in Nat
  BY BaseAssumption
<1>3. q \in Nat /\ w % Base \in Byte /\ q * Base + (w % Base) = w
  BY <1>1, LastDigit
<1>4. q < (Base * Base) * Base
  BY <1>1, <1>2, QuotientBound
<1>5. r \in Nat /\ q % Base \in Byte /\ r * Base + (q % Base) = q
  BY <1>3, LastDigit
<1>6. r < Base * Base
  BY <1>2, <1>3, <1>4, QuotientBound
<1>7. s \in Nat /\ r % Base \in Byte /\ s * Base + (r % Base) = r
  BY <1>5, LastDigit
<1>8. s < Base
  BY <1>2, <1>5, <1>6, QuotientBound
<1>9. s % Base = s /\ s % Base \in Byte
  BY <1>7, <1>8, SingleDigit
<1>10. htonl(w) = << s % Base, r % Base, q % Base, w % Base >>
  BY DEF htonl
<1> HIDE DEF q, r, s
<1>11. htonl(w) \in Seq(Byte) /\ Len(htonl(w)) = WordSize
  BY <1>3, <1>5, <1>7, <1>9, <1>10 DEF WordSize
<1>12. ntohl(htonl(w))
         = ((s * Base + (r % Base)) * Base + (q % Base)) * Base + (w % Base)
  BY <1>9, <1>10 DEF ntohl
<1> QED
  BY <1>3, <1>5, <1>7, <1>11, <1>12

----------------------------------------------------------------------------
(***************************************************************************)
(* Where the elements of a concatenation come from.                         *)
(***************************************************************************)
LEMMA Concatenation ==
  ASSUME NEW S, NEW s \in Seq(S), NEW t \in Seq(S)
  PROVE  /\ s \o t \in Seq(S)
         /\ Len(s \o t) = Len(s) + Len(t)
         /\ \A i \in 1 .. Len(s) : (s \o t)[i] = s[i]
         /\ \A i \in 1 .. Len(t) : (s \o t)[Len(s) + i] = t[i]
<1>1. /\ s \o t \in Seq(S)
      /\ Len(s \o t) = Len(s) + Len(t)
      /\ \A i \in 1 .. Len(s) + Len(t) :
            (s \o t)[i] = IF i <= Len(s) THEN s[i] ELSE t[i - Len(s)]
  BY ConcatProperties
<1>2. Len(s) \in Nat /\ Len(t) \in Nat
  OBVIOUS
<1>3. ASSUME NEW i \in 1 .. Len(t) PROVE (s \o t)[Len(s) + i] = t[i]
  <2>1. Len(s) + i \in 1 .. Len(s) + Len(t) /\ ~ (Len(s) + i <= Len(s))
        /\ (Len(s) + i) - Len(s) = i
    BY <1>2
  <2> QED
    BY <1>1, <2>1
<1> QED
  BY <1>1, <1>2, <1>3

(***************************************************************************)
(* A word's first four bytes are all that ntohl looks at.                   *)
(***************************************************************************)
LEMMA WordAtFront ==
  ASSUME NEW w \in Word, NEW b,
         \A i \in 1 .. WordSize : b[i] = htonl(w)[i]
  PROVE  ntohl(b) = w
<1>1. /\ b[1] = htonl(w)[1] /\ b[2] = htonl(w)[2]
      /\ b[3] = htonl(w)[3] /\ b[4] = htonl(w)[4]
  BY DEF WordSize
<1>2. ntohl(b) = ntohl(htonl(w))
  BY <1>1 DEF ntohl
<1> QED
  BY <1>2, WordRoundTrip

(***************************************************************************)
(* The type codes are words.                                                *)
(***************************************************************************)
LEMMA TypesAreWords == Types \subseteq Word
<1>1. Base * Base >= 4 /\ Base * Base \in Nat
  BY BaseAssumption, Z3
<1>2. (Base * Base) * (Base * Base) >= 4 * 4
  <2> DEFINE c == Base * Base
  <2>1. c \in Nat /\ c >= 4
    BY <1>1
  <2> HIDE DEF c
  <2>2. c * c >= 4 * 4
    BY <2>1, Z3
  <2> QED
    BY <2>2 DEF c
<1>3. WordSpan >= 16 /\ WordSpan \in Nat
  BY <1>2, BaseAssumption DEF WordSpan
<1> QED
  BY <1>3 DEF Types, Word, ping, pong, greeting, invalid

(***************************************************************************)
(* What encode writes for a packet without a payload.                       *)
(***************************************************************************)
LEMMA EncodeOfType ==
  ASSUME NEW t \in {ping, pong, invalid}
  PROVE  /\ encode(PacketOfType(t)) = htonl(t)
         /\ encode(PacketOfType(t)) \in Seq(Byte)
         /\ Len(encode(PacketOfType(t))) = WordSize
<1>1. t \in Word /\ t # greeting
  BY TypesAreWords DEF Types, ping, pong, greeting, invalid
<1>2. encode(PacketOfType(t)) = htonl(t)
  BY <1>1 DEF encode, PacketOfType
<1> QED
  BY <1>1, <1>2, WordRoundTrip

(***************************************************************************)
(* Two words written one after the other.                                   *)
(***************************************************************************)
LEMMA TwoWords ==
  ASSUME NEW a \in Seq(Byte), NEW b \in Seq(Byte),
         Len(a) = WordSize, Len(b) = WordSize
  PROVE  /\ a \o b \in Seq(Byte)
         /\ Len(a \o b) = 2 * WordSize
         /\ \A i \in 1 .. WordSize :
               (a \o b)[i] = a[i] /\ (a \o b)[WordSize + i] = b[i]
<1>1. /\ a \o b \in Seq(Byte)
      /\ Len(a \o b) = Len(a) + Len(b)
      /\ \A i \in 1 .. Len(a) : (a \o b)[i] = a[i]
      /\ \A i \in 1 .. Len(b) : (a \o b)[Len(a) + i] = b[i]
  <2>1. a \o b \in Seq(Byte)
    BY Concatenation
  <2>2. Len(a \o b) = Len(a) + Len(b)
    BY Concatenation
  <2>3. \A i \in 1 .. Len(a) : (a \o b)[i] = a[i]
    BY Concatenation
  <2>4. \A i \in 1 .. Len(b) : (a \o b)[Len(a) + i] = b[i]
    BY Concatenation
  <2> QED
    BY <2>1, <2>2, <2>3, <2>4
<1>2. Len(a \o b) = 2 * WordSize
  BY <1>1 DEF WordSize
<1>3. ASSUME NEW i \in 1 .. WordSize
      PROVE  (a \o b)[i] = a[i] /\ (a \o b)[WordSize + i] = b[i]
  <2>1. i \in 1 .. Len(a) /\ i \in 1 .. Len(b)
    OBVIOUS
  <2>2. (a \o b)[i] = a[i] /\ (a \o b)[Len(a) + i] = b[i]
    BY <1>1, <2>1
  <2> QED
    BY <2>2
<1> QED
  BY <1>1, <1>2, <1>3

(***************************************************************************)
(* What encode writes for a greeting: both words, then the payload.         *)
(***************************************************************************)
LEMMA EncodeOfMsg ==
  ASSUME NEW str \in Seq(Byte), 2 * WordSize + Len(str) < WordSpan,
         NEW e, e = encode(PacketOfMsg(str))
  PROVE  /\ PacketOfMsg(str).datalen = Len(str)
         /\ Len(str) \in Word
         /\ e \in Seq(Byte)
         /\ Len(e) = 2 * WordSize + Len(str)
         /\ \A i \in 1 .. WordSize :
               e[i] = htonl(greeting)[i] /\ e[WordSize + i] = htonl(Len(str))[i]
         /\ \A i \in 1 .. Len(str) : e[2 * WordSize + i] = str[i]
<1> DEFINE h == htonl(greeting)
           l == htonl(Len(str))
<1>1. Len(str) \in Word /\ greeting \in Word
  BY TypesAreWords, BaseAssumption DEF Word, WordSpan, WordSize, Types
<1>2. Len(str) % WordSpan = Len(str)
  <2>1. Len(str) \in Nat /\ WordSpan \in Nat /\ Len(str) < WordSpan
    BY BaseAssumption DEF WordSpan, WordSize
  <2> QED
    BY <2>1, SmallModulus
<1>3. e = (h \o l) \o str
  BY <1>2 DEF encode, PacketOfMsg
<1>4. /\ h \in Seq(Byte) /\ Len(h) = WordSize
      /\ l \in Seq(Byte) /\ Len(l) = WordSize
  BY <1>1, WordRoundTrip
<1> HIDE DEF h, l
<1>5. /\ h \o l \in Seq(Byte)
      /\ Len(h \o l) = 2 * WordSize
      /\ \A i \in 1 .. WordSize :
            (h \o l)[i] = h[i] /\ (h \o l)[WordSize + i] = l[i]
  BY <1>4, TwoWords
<1>6. e \in Seq(Byte) /\ Len(e) = 2 * WordSize + Len(str)
  BY <1>3, <1>5, Concatenation
<1>7. /\ \A i \in 1 .. 2 * WordSize : e[i] = (h \o l)[i]
      /\ \A i \in 1 .. Len(str) : e[2 * WordSize + i] = str[i]
  BY <1>3, <1>5, Concatenation
<1>8. ASSUME NEW i \in 1 .. WordSize
      PROVE  e[i] = h[i] /\ e[WordSize + i] = l[i]
  <2>1. i \in 1 .. 2 * WordSize /\ WordSize + i \in 1 .. 2 * WordSize
    BY DEF WordSize
  <2> QED
    BY <1>5, <1>7, <2>1
<1> QED
  BY <1>1, <1>2, <1>6, <1>7, <1>8 DEF PacketOfMsg, h, l

----------------------------------------------------------------------------
(***************************************************************************)
(* The front of a receiver's buffer, when the stream holds the encoding of  *)
(* a packet there: incomplete until the last byte is there, whatever the    *)
(* reads it came in, and from then on that packet and its exact length,     *)
(* whatever follows it.  Only a packet of type invalid is reported as such. *)
(***************************************************************************)
THEOREM ParseIsInverse ==
  ASSUME NEW p, Sendable(p), NEW u \in Seq(Byte),
         \A i \in 1 .. Len(u) : i <= Len(encode(p)) => u[i] = encode(p)[i]
  PROVE  /\ Len(u) < Len(encode(p)) => parse_packet(u) = Incomplete
         /\ Len(u) >= Len(encode(p)) =>
              parse_packet(u) = IF p.hdr = invalid THEN Invalid
                                ELSE Complete(p, Len(encode(p)))
         /\ encode(p) \in Seq(Byte) /\ Len(encode(p)) >= WordSize
<1> DEFINE e == encode(p)
<1>1. CASE p \in {PacketOfType(ping), PacketOfType(pong), PacketOfType(invalid)}
  <2>1. PICK t \in {ping, pong, invalid} : p = PacketOfType(t)
    BY <1>1
  <2>2. e = htonl(t) /\ e \in Seq(Byte) /\ Len(e) = WordSize /\ t \in Word
    BY <2>1, EncodeOfType, TypesAreWords DEF Types
  <2>3. ASSUME Len(u) >= Len(e) PROVE HeaderOf(u) = t
    <3>1. \A i \in 1 .. WordSize : u[i] = htonl(t)[i]
      BY <2>2, <2>3 DEF WordSize
    <3> QED
      BY <3>1, <2>2, WordAtFront DEF HeaderOf
  <2>4. p.hdr = t
    BY <2>1 DEF PacketOfType
  <2>5. Len(u) < WordSize => parse_packet(u) = Incomplete
    BY DEF parse_packet
  <2>6. ASSUME Len(u) >= WordSize
        PROVE  parse_packet(u) = IF t = invalid THEN Invalid ELSE Complete(p, WordSize)
    BY <2>1, <2>2, <2>3, <2>6
       DEF parse_packet, create_ping, create_pong, ping, pong, invalid, greeting, WordSize
  <2> QED
    BY <2>2, <2>4, <2>5, <2>6 DEF WordSize
<1>2. ASSUME NEW str \in Seq(Byte),
             2 * WordSize + Len(str) < WordSpan,
             p = PacketOfMsg(str)
      PROVE  /\ Len(u) < Len(e) => parse_packet(u) = Incomplete
             /\ Len(u) >= Len(e) => parse_packet(u) = Complete(p, Len(e))
             /\ p.hdr = greeting
             /\ e \in Seq(Byte) /\ Len(e) >= WordSize
  <2>1. /\ p.datalen = Len(str) /\ Len(str) \in Word
        /\ e \in Seq(Byte) /\ Len(e) = 2 * WordSize + Len(str)
        /\ \A i \in 1 .. WordSize :
              e[i] = htonl(greeting)[i] /\ e[WordSize + i] = htonl(Len(str))[i]
        /\ \A i \in 1 .. Len(str) : e[2 * WordSize + i] = str[i]
    BY <1>2, EncodeOfMsg
  <2> HIDE DEF e
  <2>2. \A i \in 1 .. Len(u) : i <= Len(e) => u[i] = e[i]
    BY DEF e
  <2>3. ASSUME Len(u) >= WordSize PROVE HeaderOf(u) = greeting
    <3>1. \A i \in 1 .. WordSize : u[i] = htonl(greeting)[i]
      BY <2>1, <2>2, <2>3, SMTT(60) DEF WordSize
    <3> QED
      BY <3>1, WordAtFront, TypesAreWords DEF HeaderOf, Types
  <2>4. ASSUME Len(u) >= 2 * WordSize PROVE PayloadLen(u) = Len(str)
    <3> DEFINE b == SubSeq(u, WordSize + 1, 2 * WordSize)
    <3>1. \A i \in 1 .. WordSize : b[i] = u[WordSize + i]
      <4>1. \A s \in Seq(Byte) : Len(s) >= 8 => \A i \in 1 .. 4 : SubSeq(s, 5, 8)[i] = s[4 + i]
        OBVIOUS
      <4>2. u \in Seq(Byte)
        OBVIOUS
      <4> QED
        BY ONLY <2>4, <4>1, <4>2 DEF WordSize
    <3>2. \A i \in 1 .. WordSize : b[i] = htonl(Len(str))[i]
      <4>1. Len(str) \in Nat
        OBVIOUS
      <4>2. ASSUME NEW i \in 1 .. WordSize PROVE u[WordSize + i] = e[WordSize + i]
        <5>1. WordSize + i \in 1 .. Len(u) /\ WordSize + i <= Len(e)
          BY <2>1, <2>4, <4>1 DEF WordSize
        <5> QED
          BY <2>2, <5>1
      <4> HIDE DEF b
      <4> QED
        BY ONLY <2>1, <3>1, <4>2
    <3> QED
      BY <2>1, <3>2, WordAtFront DEF PayloadLen
  <2>5. ASSUME Len(u) >= 2 * WordSize PROVE TotalLen(u) = Len(e)
    <3>1. 2 * WordSize + Len(str) \in Nat /\ WordSpan \in Nat
      BY BaseAssumption DEF WordSize, WordSpan
    <3>2. (2 * WordSize + Len(str)) % WordSpan = 2 * WordSize + Len(str)
      BY <1>2, <3>1, SmallModulus
    <3> QED
      BY <2>1, <2>4, <2>5, <3>2 DEF TotalLen
  <2>6. ASSUME Len(u) >= Len(e) PROVE Payload(u, Len(str)) = str
    <3>1. Payload(u, Len(str)) = SubSeq(u, 2 * WordSize + 1, 2 * WordSize + Len(str))
      BY <2>1, <2>6 DEF Payload, WordSize
    <3>2. ASSUME NEW i \in 1 .. Len(str) PROVE u[2 * WordSize + i] = str[i]
      <4>1. 2 * WordSize + i \in 1 .. Len(u) /\ 2 * WordSize + i <= Len(e)
        BY <2>1, <2>6 DEF WordSize
      <4> QED
        BY <2>1, <2>2, <4>1
    <3> QED
      BY <2>1, <2>6, <3>1, <3>2 DEF WordSize
  <2>7. [PacketOfMsg(str) EXCEPT !.datalen = Len(str)] = p
    BY <1>2, <2>1 DEF PacketOfMsg
  <2>8. p.hdr = greeting
    BY <1>2 DEF PacketOfMsg
  <2>9. Len(u) < WordSize => parse_packet(u) = Incomplete
    BY DEF parse_packet
  <2>10. ASSUME Len(u) >= WordSize PROVE parse_packet(u) = ParseGreeting(u)
    BY <2>3, <2>10 DEF parse_packet, ping, pong, greeting, WordSize
  <2>11. ASSUME Len(u) >= WordSize, Len(u) < Len(e)
         PROVE  ParseGreeting(u) = Incomplete
    BY <2>1, <2>5, <2>11 DEF ParseGreeting, WordSize
  <2>12. ASSUME Len(u) >= Len(e)
         PROVE  ParseGreeting(u) = Complete(p, Len(e))
    <3>1. Len(u) >= 2 * WordSize /\ ~ (Len(u) < 2 * WordSize)
      BY <2>1, <2>12 DEF WordSize
    <3>2. PayloadLen(u) = Len(str) /\ TotalLen(u) = Len(e)
      BY <2>4, <2>5, <3>1
    <3>3. ParseGreeting(u)
            = Complete([PacketOfMsg(Payload(u, Len(str))) EXCEPT !.datalen = Len(str)],
                       Len(e))
      BY <2>12, <3>1, <3>2 DEF ParseGreeting
    <3> QED
      BY <2>6, <2>7, <2>12, <3>3
  <2> QED
    BY <2>1, <2>8, <2>9, <2>10, <2>11, <2>12 DEF WordSize
<1> QED
  BY <1>1, <1>2 DEF Sendable, greeting, invalid

----------------------------------------------------------------------------
(***************************************************************************)
(* A digit put behind a number is its last digit, and the number is what is  *)
(* left without it.                                                         *)
(***************************************************************************)
LEMMA DigitBehind ==
  ASSUME NEW a \in Nat, NEW x \in Byte
  PROVE  (a * Base + x) \div Base = a /\ (a * Base + x) % Base = x
<1> DEFINE w == a * Base + x
           q == w \div Base
           r == w % Base
<1>1. w \in Nat /\ x \in Nat /\ x < Base /\ Base \in Nat
  BY BaseAssumption, Z3 DEF Byte
<1>2. q \in Nat /\ r \in Nat /\ r < Base /\ q * Base + r = w
  <2>1. q \in Nat /\ r \in Byte /\ q * Base + r = w
    BY <1>1, LastDigit
  <2> QED
    BY <2>1, BaseAssumption DEF Byte
<1>3. w = a * Base + x
  OBVIOUS
<1> HIDE DEF w, q, r
<1>4. ASSUME NEW m \in Nat, NEW n \in Nat, NEW y \in Nat, NEW z \in Nat,
             y < Base, m * Base + y = n * Base + z
      PROVE  n <= m
  <2>1. SUFFICES ASSUME n >= m + 1 PROVE FALSE
    BY <1>4
  <2>2. n * Base >= (m + 1) * Base
    BY <2>1, <1>1, Z3
  <2>3. (m + 1) * Base = m * Base + Base
    BY <1>1, Z3
  <2>4. m * Base \in Nat /\ n * Base \in Nat
    BY <1>1, Z3
  <2> QED
    BY <1>1, <1>4, <2>2, <2>3, <2>4
<1>5. a <= q /\ q <= a
  BY <1>1, <1>2, <1>3, <1>4
<1>6. a = q
  BY <1>2, <1>5
<1>7. r = x
  <2>1. a * Base \in Nat
    BY <1>1, Z3
  <2> QED
    BY <1>1, <1>2, <1>3, <1>6, <2>1
<1> QED
  BY <1>6, <1>7 DEF q, r, w

(***************************************************************************)
(* The word that any four bytes stand for is written as those four bytes.    *)
(***************************************************************************)
LEMMA BytesRoundTrip ==
  ASSUME NEW b,
         b[1] \in Byte, b[2] \in Byte, b[3] \in Byte, b[4] \in Byte
  PROVE  /\ ntohl(b) \in Nat
         /\ htonl(ntohl(b)) = <<b[1], b[2], b[3], b[4]>>
<1> DEFINE s == b[1]
           r == s * Base + b[2]
           q == r * Base + b[3]
           w == q * Base + b[4]
<1>0. \A x \in Byte : x \in Nat /\ x < Base
  BY BaseAssumption DEF Byte
<1>1. s \in Nat /\ r \in Nat /\ q \in Nat /\ w \in Nat
  <2>1. ASSUME NEW n \in Nat, NEW x \in Byte PROVE n * Base + x \in Nat
    BY <1>0, BaseAssumption, Z3
  <2>2. s \in Nat
    BY <1>0
  <2>3. r \in Nat
    BY <2>1, <2>2
  <2>4. q \in Nat
    BY <2>1, <2>3
  <2> QED
    BY <2>1, <2>2, <2>3, <2>4
<1>2. w = ntohl(b)
  BY DEF ntohl
<1>3. w \div Base = q /\ w % Base = b[4]
  BY <1>1, DigitBehind
<1>4. q \div Base = r /\ q % Base = b[3]
  BY <1>1, DigitBehind
<1>5. r \div Base = s /\ r % Base = b[2]
  BY <1>1, DigitBehind
<1>6. s % Base = s
  BY <1>0, <1>1, SingleDigit
<1> HIDE DEF w, q, r
<1>7. htonl(w) = <<s % Base, r % Base, q % Base, w % Base>>
  BY <1>3, <1>4, <1>5 DEF htonl
<1> QED
  BY <1>1, <1>2, <1>3, <1>4, <1>5, <1>6, <1>7

(***************************************************************************)
(* The words at the front of a buffer are written as its first bytes.        *)
(***************************************************************************)
LEMMA HeaderBytes ==
  ASSUME NEW u \in Seq(Byte), Len(u) >= WordSize
  PROVE  htonl(HeaderOf(u)) = SubSeq(u, 1, WordSize)
<1>1. u[1] \in Byte /\ u[2] \in Byte /\ u[3] \in Byte /\ u[4] \in Byte
  BY DEF WordSize
<1>2. htonl(HeaderOf(u)) = <<u[1], u[2], u[3], u[4]>>
  BY <1>1, BytesRoundTrip DEF HeaderOf
<1> DEFINE b == SubSeq(u, 1, 4)
<1>3. Len(u) >= 4
  BY DEF WordSize
<1>4. b \in Seq(Byte) /\ Len(b) = 4 /\ \A i \in 1 .. 4 : b[i] = u[i]
  BY <1>3
<1> HIDE DEF b
<1>5. b = <<b[1], b[2], b[3], b[4]>>
  BY <1>4
<1>6. b[1] = u[1] /\ b[2] = u[2] /\ b[3] = u[3] /\ b[4] = u[4]
  BY <1>4
<1> QED
  BY <1>2, <1>5, <1>6 DEF b, WordSize

LEMMA LengthBytes ==
  ASSUME NEW u \in Seq(Byte), Len(u) >= 2 * WordSize
  PROVE  /\ PayloadLen(u) \in Nat
         /\ htonl(PayloadLen(u)) = SubSeq(u, WordSize + 1, 2 * WordSize)
<1> DEFINE b == SubSeq(u, WordSize + 1, 2 * WordSize)
<1>1. b \in Seq(Byte) /\ Len(b) = 4
  <2>1. \A s \in Seq(Byte) : Len(s) >= 8 => SubSeq(s, 5, 8) \in Seq(Byte) /\ Len(SubSeq(s, 5, 8)) = 4
    OBVIOUS
  <2> QED
    BY <2>1 DEF WordSize
<1>2. PayloadLen(u) = ntohl(b)
  BY DEF PayloadLen
<1> HIDE DEF b
<1>3. b[1] \in Byte /\ b[2] \in Byte /\ b[3] \in Byte /\ b[4] \in Byte
  <2>1. \A i \in 1 .. Len(b) : b[i] \in Byte
    <3>1. \A S, t : t \in Seq(S) => \A i \in 1 .. Len(t) : t[i] \in S
      OBVIOUS
    <3> QED
      BY ONLY <1>1, <3>1
  <2>2. 1 \in 1 .. Len(b) /\ 2 \in 1 .. Len(b) /\ 3 \in 1 .. Len(b) /\ 4 \in 1 .. Len(b)
    BY <1>1
  <2> QED
    BY <2>1, <2>2
<1>4. PayloadLen(u) \in Nat /\ htonl(PayloadLen(u)) = <<b[1], b[2], b[3], b[4]>>
  BY <1>2, <1>3, BytesRoundTrip
<1>5. b = <<b[1], b[2], b[3], b[4]>>
  BY <1>1
<1> QED
  BY <1>4, <1>5 DEF b

(***************************************************************************)
(* The first bytes of a sequence, cut into four, four and the rest.         *)
(***************************************************************************)
LEMMA ThreePieces ==
  ASSUME NEW s \in Seq(Byte), NEW k \in Nat, Len(s) >= 8 + k
  PROVE  SubSeq(s, 1, 4) \o SubSeq(s, 5, 8) \o SubSeq(s, 9, 8 + k) = SubSeq(s, 1, 8 + k)
<1> DEFINE a == SubSeq(s, 1, 4)
           b == SubSeq(s, 5, 8)
           c == SubSeq(s, 9, 8 + k)
           all == SubSeq(s, 1, 8 + k)
<1>1. /\ a \in Seq(Byte) /\ Len(a) = 4 /\ \A i \in 1 .. 4 : a[i] = s[i]
      /\ b \in Seq(Byte) /\ Len(b) = 4 /\ \A i \in 1 .. 4 : b[i] = s[4 + i]
  OBVIOUS
<1>2. c \in Seq(Byte) /\ Len(c) = k /\ \A i \in 1 .. k : c[i] = s[8 + i]
  OBVIOUS
<1>3. all \in Seq(Byte) /\ Len(all) = 8 + k /\ \A i \in 1 .. 8 + k : all[i] = s[i]
  OBVIOUS
<1> HIDE DEF a, b, c, all
<1>4. /\ a \o b \in Seq(Byte) /\ Len(a \o b) = 8
      /\ \A i \in 1 .. 4 : (a \o b)[i] = a[i] /\ (a \o b)[4 + i] = b[i]
  BY <1>1, TwoWords DEF WordSize
<1>5. /\ (a \o b) \o c \in Seq(Byte) /\ Len((a \o b) \o c) = 8 + k
      /\ \A i \in 1 .. 8 : ((a \o b) \o c)[i] = (a \o b)[i]
      /\ \A i \in 1 .. k : ((a \o b) \o c)[8 + i] = c[i]
  <2>1. ASSUME NEW x \in Seq(Byte), NEW y \in Seq(Byte), Len(x) = 8, Len(y) = k
        PROVE  /\ x \o y \in Seq(Byte) /\ Len(x \o y) = 8 + k
               /\ \A i \in 1 .. 8 : (x \o y)[i] = x[i]
               /\ \A i \in 1 .. k : (x \o y)[8 + i] = y[i]
    <3>1. x \o y \in Seq(Byte) /\ Len(x \o y) = Len(x) + Len(y)
      BY Concatenation
    <3>2. \A i \in 1 .. Len(x) : (x \o y)[i] = x[i]
      BY Concatenation
    <3>3. \A i \in 1 .. Len(y) : (x \o y)[Len(x) + i] = y[i]
      BY Concatenation
    <3> QED
      BY <2>1, <3>1, <3>2, <3>3
  <2> QED
    BY <1>2, <1>4, <2>1
<1>6. ASSUME NEW i \in 1 .. 8 + k PROVE ((a \o b) \o c)[i] = all[i]
  <2>1. CASE i <= 4
    <3>1. i \in 1 .. 4 /\ i \in 1 .. 8
      BY <2>1
    <3> QED
      BY <3>1, <1>1, <1>3, <1>4, <1>5
  <2>2. CASE i > 4 /\ i <= 8
    <3>1. i - 4 \in 1 .. 4 /\ i \in 1 .. 8 /\ 4 + (i - 4) = i
      BY <2>2
    <3> QED
      BY <3>1, <1>1, <1>3, <1>4, <1>5
  <2>3. CASE i > 8
    <3>1. i - 8 \in 1 .. k /\ 8 + (i - 8) = i
      BY <2>3
    <3> QED
      BY <3>1, <1>2, <1>3, <1>5, ZenonT(40)
  <2>4. i <= 4 \/ (i > 4 /\ i <= 8) \/ i > 8
    OBVIOUS
  <2> QED
    BY <2>1, <2>2, <2>3, <2>4
<1>7. (a \o b) \o c = all
  <2> DEFINE abc == (a \o b) \o c
  <2>1. abc \in Seq(Byte) /\ Len(abc) = Len(all) /\ \A i \in 1 .. Len(all) : abc[i] = all[i]
    BY <1>3, <1>5, <1>6
  <2> HIDE DEF abc
  <2>2. abc = all
    BY <1>3, <2>1
  <2> QED
    BY <2>2 DEF abc
<1> QED
  BY <1>7 DEF a, b, c, all

(***************************************************************************)
(* A greeting found in a buffer, if totalLen can hold its length: its bytes  *)
(* are the header, the length and the payload that it declares.             *)
(***************************************************************************)
LEMMA GreetingFound ==
  ASSUME NEW u \in Seq(Byte), Len(u) >= 2 * WordSize, Representable(u),
         Len(u) >= TotalLen(u), HeaderOf(u) = greeting,
         NEW n, n = PayloadLen(u)
  PROVE  /\ n \in Nat /\ TotalLen(u) = 2 * WordSize + n
         /\ Payload(u, n) = SubSeq(u, 2 * WordSize + 1, 2 * WordSize + n)
         /\ encode([PacketOfMsg(Payload(u, n)) EXCEPT !.datalen = n])
              = SubSeq(u, 1, 2 * WordSize + n)
<1>1. n \in Nat /\ htonl(n) = SubSeq(u, WordSize + 1, 2 * WordSize)
  BY LengthBytes
<1>2. TotalLen(u) = 2 * WordSize + n
  <2>1. 2 * WordSize + n \in Nat /\ WordSpan \in Nat
    BY <1>1, BaseAssumption DEF WordSize, WordSpan
  <2>2. 2 * WordSize + n < WordSpan
    BY DEF Representable
  <2>3. (2 * WordSize + n) % WordSpan = 2 * WordSize + n
    BY <2>1, <2>2, SmallModulus
  <2> QED
    BY <2>3 DEF TotalLen
<1>3. Payload(u, n) = SubSeq(u, 2 * WordSize + 1, 2 * WordSize + n)
  BY <1>1, <1>2 DEF Payload, WordSize
<1> DEFINE p == [PacketOfMsg(Payload(u, n)) EXCEPT !.datalen = n]
<1>4. p.hdr = greeting /\ p.validPacket /\ p.datalen = n /\ p.msg = Payload(u, n)
  BY DEF PacketOfMsg
<1> HIDE DEF p
<1>5. encode(p) = htonl(greeting) \o htonl(n) \o Payload(u, n)
  BY <1>4 DEF encode
<1>6. htonl(greeting) = SubSeq(u, 1, WordSize)
  <2>1. Len(u) >= WordSize
    BY DEF WordSize
  <2> QED
    BY <2>1, HeaderBytes
<1>7. SubSeq(u, 1, 4) \o SubSeq(u, 5, 8) \o SubSeq(u, 9, 8 + n) = SubSeq(u, 1, 8 + n)
  <2>1. Len(u) >= 8 + n
    BY <1>1, <1>2 DEF WordSize
  <2> QED
    BY <1>1, <2>1, ThreePieces
<1>8. WordSize = 4 /\ WordSize + 1 = 5 /\ 2 * WordSize = 8 /\ 8 + 1 = 9
  BY DEF WordSize
<1>9. encode(p) = SubSeq(u, 1, 2 * WordSize + n)
  BY <1>1, <1>3, <1>5, <1>6, <1>7, <1>8
<1> QED
  BY <1>1, <1>2, <1>3, <1>9 DEF p

(***************************************************************************)
(* What a buffer is parsed to is what its bytes encode.                     *)
(***************************************************************************)
LEMMA ParsedEncodes ==
  ASSUME NEW u \in Seq(Byte), Representable(u),
         parse_packet(u).status = "complete"
  PROVE  /\ parse_packet(u).bytes_consumed <= Len(u)
         /\ encode(parse_packet(u).pkt) = SubSeq(u, 1, parse_packet(u).bytes_consumed)
<1>1. Len(u) >= WordSize
  BY DEF parse_packet, Incomplete, WordSize
<1>2. ASSUME NEW t \in {ping, pong}, HeaderOf(u) = t,
             parse_packet(u) = Complete(PacketOfType(t), WordSize)
      PROVE  /\ parse_packet(u).bytes_consumed <= Len(u)
             /\ encode(parse_packet(u).pkt) = SubSeq(u, 1, parse_packet(u).bytes_consumed)
  <2>1. encode(PacketOfType(t)) = htonl(t)
    BY EncodeOfType
  <2> QED
    BY <1>1, <1>2, <2>1, HeaderBytes DEF Complete
<1>3. CASE HeaderOf(u) = ping
  <2>1. parse_packet(u) = Complete(PacketOfType(ping), WordSize)
    BY <1>1, <1>3 DEF parse_packet, create_ping, ping, pong, greeting, WordSize
  <2> QED
    BY <1>2, <1>3, <2>1
<1>4. CASE HeaderOf(u) = pong
  <2>1. parse_packet(u) = Complete(PacketOfType(pong), WordSize)
    BY <1>1, <1>4 DEF parse_packet, create_pong, ping, pong, greeting, WordSize
  <2> QED
    BY <1>2, <1>4, <2>1
<1>5. CASE HeaderOf(u) = greeting
  <2>1. parse_packet(u) = ParseGreeting(u)
    BY <1>1, <1>5 DEF parse_packet, ping, pong, greeting, WordSize
  <2>2. /\ Len(u) >= 2 * WordSize /\ Len(u) >= TotalLen(u)
        /\ ParseGreeting(u) = Complete([PacketOfMsg(Payload(u, PayloadLen(u)))
                                          EXCEPT !.datalen = PayloadLen(u)], TotalLen(u))
    <3>1. ParseGreeting(u) # Incomplete
      BY <2>1 DEF Incomplete
    <3>2. ~ (Len(u) < 2 * WordSize \/ Len(u) < TotalLen(u))
      BY <3>1 DEF ParseGreeting
    <3>3. TotalLen(u) \in Int
      <4>1. Len(u) >= 2 * WordSize
        BY <3>2 DEF WordSize
      <4> QED
        BY <4>1, <1>5, LengthBytes, BaseAssumption, SmallModulus
           DEF TotalLen, WordSize, WordSpan, Representable
    <3> QED
      BY <3>2, <3>3 DEF ParseGreeting, WordSize
  <2>3. /\ TotalLen(u) = 2 * WordSize + PayloadLen(u)
        /\ encode([PacketOfMsg(Payload(u, PayloadLen(u))) EXCEPT !.datalen = PayloadLen(u)])
             = SubSeq(u, 1, 2 * WordSize + PayloadLen(u))
    BY <1>5, <2>2, GreetingFound
  <2> QED
    BY <2>1, <2>2, <2>3 DEF Complete
<1>6. CASE HeaderOf(u) \notin {ping, pong, greeting}
  BY <1>1, <1>6 DEF parse_packet, Invalid, WordSize
<1> QED
  BY <1>3, <1>4, <1>5, <1>6

(***************************************************************************)
(* A packet in a buffer is the same packet when a byte follows it.          *)
(***************************************************************************)
LEMMA VerdictStays ==
  ASSUME NEW u \in Seq(Byte), Representable(u), NEW x \in Byte,
         parse_packet(u).status # "incomplete"
  PROVE  parse_packet(Append(u, x)) = parse_packet(u)
<1> DEFINE v == Append(u, x)
<1>1. v \in Seq(Byte) /\ Len(v) = Len(u) + 1 /\ \A i \in 1 .. Len(u) : v[i] = u[i]
  OBVIOUS
<1>2. Len(u) >= WordSize /\ ~ (Len(u) < WordSize)
  BY DEF parse_packet, Incomplete, WordSize
<1> HIDE DEF v
<1>3. HeaderOf(v) = HeaderOf(u) /\ ~ (Len(v) < WordSize)
  <2>1. v[1] = u[1] /\ v[2] = u[2] /\ v[3] = u[3] /\ v[4] = u[4]
    BY <1>1, <1>2 DEF WordSize
  <2> QED
    BY <1>1, <1>2, <2>1 DEF HeaderOf, ntohl, WordSize
<1>4. ASSUME HeaderOf(u) = greeting PROVE ParseGreeting(v) = ParseGreeting(u)
  <2>1. parse_packet(u) = ParseGreeting(u)
    BY <1>2, <1>4 DEF parse_packet, ping, pong, greeting, WordSize
  <2>2. ~ (Len(u) < 2 * WordSize \/ Len(u) < TotalLen(u))
    BY <2>1 DEF ParseGreeting, Incomplete
  <2>3. Len(u) >= 2 * WordSize
    BY <2>2 DEF WordSize
  <2>4. PayloadLen(u) \in Nat
    BY <2>3, LengthBytes
  <2>5. TotalLen(u) = 2 * WordSize + PayloadLen(u)
    <3>1. 2 * WordSize + PayloadLen(u) \in Nat /\ WordSpan \in Nat
      BY <2>4, BaseAssumption DEF WordSize, WordSpan
    <3>2. 2 * WordSize + PayloadLen(u) < WordSpan
      BY <2>3 DEF Representable
    <3> QED
      BY <3>1, <3>2, SmallModulus DEF TotalLen
  <2>6. PayloadLen(v) = PayloadLen(u)
    <3>1. \A s, t \in Seq(Byte) : 8 <= Len(s) /\ 8 <= Len(t) /\ (\A i \in 1 .. 8 : s[i] = t[i]) =>
            SubSeq(s, 5, 8) = SubSeq(t, 5, 8)
      OBVIOUS
    <3>2. 8 <= Len(u) /\ 8 <= Len(v) /\ \A i \in 1 .. 8 : v[i] = u[i]
      BY <1>1, <2>3 DEF WordSize
    <3>3. SubSeq(v, 5, 8) = SubSeq(u, 5, 8)
      BY <1>1, <3>1, <3>2
    <3>4. WordSize + 1 = 5 /\ 2 * WordSize = 8
      BY DEF WordSize
    <3> QED
      BY <3>3, <3>4 DEF PayloadLen
  <2>7. TotalLen(v) = TotalLen(u)
    BY <2>6 DEF TotalLen
  <2>8. Len(u) >= 8 + PayloadLen(u)
    BY <2>2, <2>4, <2>5 DEF WordSize
  <2>9. Payload(v, PayloadLen(u)) = Payload(u, PayloadLen(u))
    <3>1. \A s, t \in Seq(Byte), k \in Nat :
            8 + k <= Len(s) /\ 8 + k <= Len(t) /\ (\A i \in 1 .. 8 + k : s[i] = t[i]) =>
              SubSeq(s, 9, 8 + k) = SubSeq(t, 9, 8 + k)
      OBVIOUS
    <3>2. /\ 8 + PayloadLen(u) <= Len(u) /\ 8 + PayloadLen(u) <= Len(v)
          /\ \A i \in 1 .. 8 + PayloadLen(u) : v[i] = u[i]
      BY <1>1, <2>4, <2>8
    <3>3. SubSeq(v, 9, 8 + PayloadLen(u)) = SubSeq(u, 9, 8 + PayloadLen(u))
      BY <1>1, <2>4, <3>1, <3>2
    <3>4. 2 * WordSize = 8 /\ 8 + 1 = 9
      BY DEF WordSize
    <3>5. Payload(u, PayloadLen(u)) = SubSeq(u, 9, 8 + PayloadLen(u))
      BY <3>2, <3>4 DEF Payload
    <3>6. Payload(v, PayloadLen(u)) = SubSeq(v, 9, 8 + PayloadLen(u))
      BY <3>2, <3>4 DEF Payload
    <3> QED
      BY <3>3, <3>5, <3>6
  <2>10. ~ (Len(v) < 2 * WordSize \/ Len(v) < TotalLen(v))
    BY <1>1, <2>3, <2>4, <2>5, <2>7, <2>8 DEF WordSize
  <2> QED
    BY <2>2, <2>6, <2>7, <2>9, <2>10 DEF ParseGreeting
<1>5. parse_packet(v) = parse_packet(u)
  BY <1>2, <1>3, <1>4 DEF parse_packet
<1> QED
  BY <1>5 DEF v

BytesInBuffer == buffer \in Seq(Byte)

LEMMA BufferBytes == BufferSpec => []BytesInBuffer
<1>1. BufferInit => BytesInBuffer
  BY DEF BufferInit, BytesInBuffer
<1>2. BytesInBuffer /\ [BufferNext]_buffer => BytesInBuffer'
  BY DEF BufferNext, Receive, BytesInBuffer
<1> QED
  BY <1>1, <1>2, PTL DEF BufferSpec

(***************************************************************************)
(* No two packets are parsed from the same bytes: for every size of a byte   *)
(* and every buffer whose declared length totalLen can hold, a packet that   *)
(* parse_packet reports is encoded as the very bytes that it consumed.       *)
(***************************************************************************)
THEOREM ParsedIsWhatItsBytesSay == BufferSpec => []ParsedIsEncoded
<1>1. BytesInBuffer => ParsedIsEncoded
  BY ParsedEncodes DEF ParsedIsEncoded, BytesInBuffer
<1> QED
  BY <1>1, BufferBytes, PTL

(***************************************************************************)
(* A reader may parse now or after the next read: for every buffer whose     *)
(* declared length totalLen can hold, "complete" and "invalid" are final.    *)
(***************************************************************************)
THEOREM VerdictsAreFinal == BufferSpec => VerdictIsFinal
<1> DEFINE Stays == parse_packet(buffer).status # "incomplete" /\ Representable(buffer)
                    => parse_packet(buffer') = parse_packet(buffer)
<1>1. BytesInBuffer /\ [BufferNext]_buffer => [Stays]_buffer
  BY VerdictStays DEF BufferNext, Receive, BytesInBuffer
<1> QED
  BY <1>1, BufferBytes, PTL DEF BufferSpec, VerdictIsFinal

----------------------------------------------------------------------------
(***************************************************************************)
(* The streams.                                                             *)
(***************************************************************************)

\* x is the part of the sequence s that follows position at.
Holds(s, at, x) ==
  /\ at + Len(x) <= Len(s)
  /\ \A i \in 1 .. Len(x) : x[i] = s[at + i]

\* Where the first n packets end in the stream.
EndOf(d, n) == IF n < Len(sent[d]) THEN start[d][n + 1] ELSE Len(stream[d])

\* The stream is the encodings of the packets sent, one after the other.
FramesOK(d) ==
  /\ Len(start[d]) = Len(sent[d])
  /\ EndOf(d, 0) = 0
  /\ \A i \in 1 .. Len(sent[d]) :
       /\ EndOf(d, i) = start[d][i] + Len(encode(sent[d][i]))
       /\ Holds(stream[d], start[d][i], encode(sent[d][i]))

\* Where the bytes of the stream are: position at, the end of the packets already
\* parsed, is where incomingBuffer begins.
At(d) == EndOf(d, taken[d])
Held(d) == At(d) + Len(incomingBuffer[d]) + Len(wire[d]) + Len(encoded[d])

BytesOK(d) ==
  /\ taken[d] <= Len(sent[d])
  /\ Holds(stream[d], At(d), incomingBuffer[d])
  /\ Holds(stream[d], At(d) + Len(incomingBuffer[d]), wire[d])
  /\ Holds(stream[d], Len(stream[d]) - Len(encoded[d]), encoded[d])
  /\ Held(d) <= Len(stream[d])
  /\ writeEnd[d] = "open" /\ reader[d] # "gone" => Held(d) = Len(stream[d])

\* The packet at the front of incomingBuffer is all there, and no reader accepts it.
Blocked(d) ==
  /\ taken[d] < Len(sent[d])
  /\ sent[d][taken[d] + 1].hdr = invalid
  /\ Len(incomingBuffer[d]) >= Len(encode(sent[d][taken[d] + 1]))

\* The packets parsed are those sent first; those a failed call dropped were followed
\* by a packet that no reader gets past.
ReturnedOK(d) ==
  /\ Len(delivered[d]) + Len(retval[d]) <= taken[d]
  /\ \A i \in 1 .. Len(delivered[d]) : delivered[d][i] = sent[d][i]
  /\ \A i \in 1 .. Len(retval[d]) : retval[d][i] = sent[d][Len(delivered[d]) + i]
  /\ Len(delivered[d]) + Len(retval[d]) # taken[d] => Blocked(d) /\ retval[d] = <<>>
  /\ status[d] = "protocol_error" => Blocked(d)
  /\ reader[d] = "idle" => retval[d] = <<>>

\* A call of get_packets leaves no complete packet in incomingBuffer.
DrainedOK(d) ==
  reader[d] = "idle" =>
    incomingBuffer[d] = <<>> \/ parse_packet(incomingBuffer[d]).status # "complete"

StreamOK(d) == FramesOK(d) /\ BytesOK(d) /\ ReturnedOK(d) /\ DrainedOK(d)

StreamInv == StreamTypeOK /\ \A d \in Streams : StreamOK(d)

----------------------------------------------------------------------------
(***************************************************************************)
(* The two parts of a sequence cut after its first k elements.              *)
(***************************************************************************)
LEMMA Cut ==
  ASSUME NEW S, NEW s \in Seq(S), NEW k \in 0 .. Len(s)
  PROVE  /\ SubSeq(s, 1, k) \in Seq(S) /\ Len(SubSeq(s, 1, k)) = k
         /\ \A i \in 1 .. k : SubSeq(s, 1, k)[i] = s[i]
         /\ SubSeq(s, k + 1, Len(s)) \in Seq(S)
         /\ Len(SubSeq(s, k + 1, Len(s))) = Len(s) - k
         /\ \A i \in 1 .. Len(s) - k : SubSeq(s, k + 1, Len(s))[i] = s[k + i]
<1>1. /\ k \in Int /\ k + 1 \in Int /\ Len(s) \in Nat /\ k <= Len(s) /\ 0 <= k
      /\ \A i \in 1 .. k : s[i] \in S
      /\ \A i \in k + 1 .. Len(s) : s[i] \in S
  BY ElementOfSeq
<1>2. /\ SubSeq(s, 1, k) \in Seq(S)
      /\ Len(SubSeq(s, 1, k)) = IF 1 <= k THEN k - 1 + 1 ELSE 0
      /\ \A i \in 1 .. k - 1 + 1 : SubSeq(s, 1, k)[i] = s[1 + i - 1]
  BY <1>1, SubSeqProperties
<1>3. /\ SubSeq(s, k + 1, Len(s)) \in Seq(S)
      /\ Len(SubSeq(s, k + 1, Len(s)))
           = IF k + 1 <= Len(s) THEN Len(s) - (k + 1) + 1 ELSE 0
      /\ \A i \in 1 .. Len(s) - (k + 1) + 1 :
            SubSeq(s, k + 1, Len(s))[i] = s[k + 1 + i - 1]
  BY <1>1, SubSeqProperties
<1>4. ASSUME NEW i \in 1 .. k PROVE SubSeq(s, 1, k)[i] = s[i]
  <2>1. i \in 1 .. k - 1 + 1 /\ 1 + i - 1 = i
    BY <1>1
  <2> QED
    BY <1>2, <2>1
<1>5. ASSUME NEW i \in 1 .. Len(s) - k
      PROVE  SubSeq(s, k + 1, Len(s))[i] = s[k + i]
  <2>1. i \in 1 .. Len(s) - (k + 1) + 1 /\ k + 1 + i - 1 = k + i
    BY <1>1
  <2> QED
    BY <1>3, <2>1
<1>6. Len(SubSeq(s, 1, k)) = k /\ Len(SubSeq(s, k + 1, Len(s))) = Len(s) - k
  BY <1>1, <1>2, <1>3
<1> QED
  BY <1>2, <1>3, <1>4, <1>5, <1>6

(***************************************************************************)
(* Cutting a part of a sequence in two, and joining two adjacent parts.     *)
(***************************************************************************)
LEMMA HoldsCut ==
  ASSUME NEW S, NEW s \in Seq(S), NEW at \in Nat, NEW x \in Seq(S), Holds(s, at, x),
         NEW k \in 0 .. Len(x)
  PROVE  /\ Holds(s, at, SubSeq(x, 1, k))
         /\ Holds(s, at + k, SubSeq(x, k + 1, Len(x)))
<1> DEFINE a == SubSeq(x, 1, k)
           b == SubSeq(x, k + 1, Len(x))
<1>1. /\ Len(a) = k /\ \A i \in 1 .. k : a[i] = x[i]
      /\ Len(b) = Len(x) - k /\ \A i \in 1 .. Len(x) - k : b[i] = x[k + i]
  BY Cut
<1> HIDE DEF a, b
<1>2. /\ Len(x) \in Nat /\ Len(s) \in Nat /\ k \in Nat /\ k <= Len(x)
      /\ at + Len(x) <= Len(s) /\ \A i \in 1 .. Len(x) : x[i] = s[at + i]
  BY DEF Holds
<1>3. Holds(s, at, a)
  BY ONLY <1>1, <1>2, at \in Nat DEF Holds
<1>4. Holds(s, at + k, b)
  <2>1. ASSUME NEW i \in 1 .. Len(x) - k PROVE b[i] = s[(at + k) + i]
    <3>1. k + i \in 1 .. Len(x) /\ at + (k + i) = (at + k) + i
      BY <1>2
    <3> QED
      BY <1>1, <1>2, <3>1
  <2> QED
    BY <1>1, <1>2, <2>1 DEF Holds
<1> QED
  BY <1>3, <1>4 DEF a, b

LEMMA HoldsJoin ==
  ASSUME NEW S, NEW s \in Seq(S), NEW at \in Nat, NEW x \in Seq(S), NEW y \in Seq(S),
         Holds(s, at, x), Holds(s, at + Len(x), y)
  PROVE  Holds(s, at, x \o y)
<1>1. Len(x \o y) = Len(x) + Len(y)
  BY Concatenation
<1>2. \A i \in 1 .. Len(x) : (x \o y)[i] = x[i]
  BY Concatenation
<1>3. \A i \in 1 .. Len(y) : (x \o y)[Len(x) + i] = y[i]
  BY Concatenation
<1>4. Len(x) \in Nat /\ Len(y) \in Nat /\ Len(s) \in Nat
  OBVIOUS
<1>5. ASSUME NEW i \in 1 .. Len(x) + Len(y) PROVE (x \o y)[i] = s[at + i]
  <2>1. CASE i <= Len(x)
    BY <1>2, <1>4, <2>1 DEF Holds
  <2>2. CASE i > Len(x)
    <3> DEFINE j == i - Len(x)
    <3>1. j \in 1 .. Len(y) /\ Len(x) + j = i /\ (at + Len(x)) + j = at + i
      BY <1>4, <2>2
    <3> HIDE DEF j
    <3>2. (x \o y)[Len(x) + j] = y[j] /\ y[j] = s[(at + Len(x)) + j]
      BY <1>3, <3>1 DEF Holds
    <3> QED
      BY <3>1, <3>2
  <2> QED
    BY <1>4, <2>1, <2>2
<1> QED
  BY <1>1, <1>4, <1>5 DEF Holds

(***************************************************************************)
(* A part of a sequence is a part of every longer one, of which the bytes   *)
(* added are the last part.                                                 *)
(***************************************************************************)
LEMMA HoldsExtend ==
  ASSUME NEW S, NEW s \in Seq(S), NEW at \in Nat, NEW x \in Seq(S), NEW y \in Seq(S),
         Holds(s, at, x)
  PROVE  Holds(s \o y, at, x) /\ Holds(s \o y, Len(s), y)
<1>1. Len(s \o y) = Len(s) + Len(y)
  BY Concatenation
<1>2. \A i \in 1 .. Len(s) : (s \o y)[i] = s[i]
  BY Concatenation
<1>3. \A i \in 1 .. Len(y) : (s \o y)[Len(s) + i] = y[i]
  BY Concatenation
<1>4. Len(x) \in Nat /\ Len(y) \in Nat /\ Len(s) \in Nat /\ at + Len(x) <= Len(s)
  BY DEF Holds
<1>5. ASSUME NEW i \in 1 .. Len(x) PROVE x[i] = (s \o y)[at + i]
  <2>1. at + i \in 1 .. Len(s)
    BY <1>4
  <2> QED
    BY <1>2, <2>1 DEF Holds
<1>6. Holds(s \o y, at, x)
  BY <1>1, <1>4, <1>5 DEF Holds
<1>7. Holds(s \o y, Len(s), y)
  BY <1>1, <1>3, <1>4 DEF Holds
<1> QED
  BY <1>6, <1>7

----------------------------------------------------------------------------
(***************************************************************************)
(* The encoding of a packet that may be sent.                               *)
(***************************************************************************)
LEMMA EncodeType ==
  ASSUME NEW p \in Packets
  PROVE  /\ Sendable(p)
         /\ encode(p) \in Seq(Byte)
         /\ Len(encode(p)) \in Nat /\ Len(encode(p)) >= WordSize
<1>1. Sendable(p)
  BY StreamAssumption
<1>2. << >> \in Seq(Byte) /\ \A i \in 1 .. Len(<< >>) : FALSE
  OBVIOUS
<1>3. encode(p) \in Seq(Byte) /\ Len(encode(p)) >= WordSize
  BY <1>1, <1>2, ParseIsInverse
<1> QED
  BY <1>1, <1>3

(***************************************************************************)
(* A reader that has bytes has the front of the encoding of the next packet,*)
(* so that parse_packet gives that packet as soon as it is all there.       *)
(***************************************************************************)
LEMMA FrontOfBuffer ==
  ASSUME NEW d \in Streams, StreamTypeOK, FramesOK(d), BytesOK(d),
         incomingBuffer[d] # <<>>
  PROVE  LET p == sent[d][taken[d] + 1]
             u == incomingBuffer[d]
         IN  /\ taken[d] < Len(sent[d])
             /\ p \in Packets
             /\ Len(u) < Len(encode(p)) => parse_packet(u) = Incomplete
             /\ Len(u) >= Len(encode(p)) =>
                  parse_packet(u) = IF p.hdr = invalid THEN Invalid
                                    ELSE Complete(p, Len(encode(p)))
<1> DEFINE u == incomingBuffer[d]
           n == taken[d]
           p == sent[d][n + 1]
<1>1. /\ u \in Seq(Byte) /\ Len(u) \in Nat /\ Len(u) > 0
      /\ n \in Nat /\ sent[d] \in Seq(Packets)
      /\ start[d] \in Seq(Nat) /\ stream[d] \in Seq(Byte)
      /\ Len(wire[d]) \in Nat /\ Len(encoded[d]) \in Nat
  BY DEF StreamTypeOK
<1>2. n < Len(sent[d])
  <2>1. SUFFICES ASSUME ~ (n < Len(sent[d])) PROVE FALSE
    BY <1>1
  <2>2. EndOf(d, n) = Len(stream[d])
    BY <2>1 DEF EndOf
  <2>3. EndOf(d, n) + Len(u) + Len(wire[d]) + Len(encoded[d]) <= Len(stream[d])
    BY DEF BytesOK, Held, At
  <2>4. Len(stream[d]) \in Nat
    BY <1>1
  <2>5. Len(stream[d]) + Len(u) + Len(wire[d]) + Len(encoded[d]) <= Len(stream[d])
    BY <2>2, <2>3
  <2>6. \A l, a, b, c \in Nat : l + a + b + c <= l => a = 0
    OBVIOUS
  <2>7. Len(u) \in Nat /\ Len(wire[d]) \in Nat /\ Len(encoded[d]) \in Nat
    BY <1>1
  <2>8. Len(u) = 0
    BY <2>4, <2>5, <2>6, <2>7
  <2> QED
    BY <1>1, <2>8
<1>3. n + 1 \in 1 .. Len(sent[d]) /\ p \in Packets
  BY <1>1, <1>2
<1>4. EndOf(d, n) = start[d][n + 1]
  BY <1>2 DEF EndOf
<1>5. ASSUME NEW i \in 1 .. Len(u), i <= Len(encode(p))
      PROVE  u[i] = encode(p)[i]
  <2>1. u[i] = stream[d][start[d][n + 1] + i]
    BY <1>4 DEF BytesOK, At, Holds
  <2>2. i \in 1 .. Len(encode(p))
    BY <1>1, <1>3, <1>5, EncodeType
  <2>3. stream[d][start[d][n + 1] + i] = encode(p)[i]
    BY <1>3, <2>2 DEF FramesOK, Holds
  <2> QED
    BY <2>1, <2>3
<1> HIDE DEF u, p
<1>6. Sendable(p)
  BY <1>3, EncodeType DEF p
<1>7. /\ Len(u) < Len(encode(p)) => parse_packet(u) = Incomplete
      /\ Len(u) >= Len(encode(p)) =>
           parse_packet(u) = IF p.hdr = invalid THEN Invalid
                             ELSE Complete(p, Len(encode(p)))
  BY <1>1, <1>5, <1>6, ParseIsInverse
<1> QED
  BY <1>2, <1>3, <1>7 DEF u, p

(***************************************************************************)
(* What each part of the invariant depends on.                              *)
(***************************************************************************)
LEMMA FramesStable ==
  ASSUME NEW e \in Streams, FramesOK(e),
         sent'[e] = sent[e], start'[e] = start[e], stream'[e] = stream[e]
  PROVE  FramesOK(e)' /\ \A n : EndOf(e, n)' = EndOf(e, n)
<1>1. \A n : EndOf(e, n)' = EndOf(e, n)
  BY DEF EndOf
<1> QED
  BY <1>1 DEF FramesOK

LEMMA BytesStable ==
  ASSUME NEW e \in Streams, BytesOK(e), At(e)' = At(e),
         encoded'[e] = encoded[e], wire'[e] = wire[e],
         incomingBuffer'[e] = incomingBuffer[e],
         sent'[e] = sent[e], taken'[e] = taken[e], stream'[e] = stream[e],
         writeEnd'[e] = "open" /\ reader'[e] # "gone"
           => writeEnd[e] = "open" /\ reader[e] # "gone"
  PROVE  BytesOK(e)'
<1>1. Held(e)' = Held(e)
  BY DEF Held
<1> QED
  BY <1>1 DEF BytesOK, Holds

LEMMA ReturnedStable ==
  ASSUME NEW e \in Streams, ReturnedOK(e),
         incomingBuffer'[e] = incomingBuffer[e], retval'[e] = retval[e],
         status'[e] = status[e], delivered'[e] = delivered[e],
         sent'[e] = sent[e], taken'[e] = taken[e], reader'[e] \in {reader[e], "gone"}
  PROVE  ReturnedOK(e)'
BY DEF ReturnedOK, Blocked

LEMMA DrainedStable ==
  ASSUME NEW e \in Streams, DrainedOK(e),
         incomingBuffer'[e] = incomingBuffer[e], reader'[e] \in {reader[e], "gone"}
  PROVE  DrainedOK(e)'
BY DEF DrainedOK

(***************************************************************************)
(* A step that leaves a stream's variables alone keeps what holds of it.    *)
(***************************************************************************)
LEMMA OtherStream ==
  ASSUME NEW e \in Streams, StreamOK(e),
         encoded'[e] = encoded[e], wire'[e] = wire[e],
         incomingBuffer'[e] = incomingBuffer[e], retval'[e] = retval[e],
         reader'[e] = reader[e], status'[e] = status[e],
         delivered'[e] = delivered[e], writeEnd'[e] = writeEnd[e],
         sent'[e] = sent[e], taken'[e] = taken[e], start'[e] = start[e],
         stream'[e] = stream[e]
  PROVE  StreamOK(e)'
<1>1. FramesOK(e)' /\ \A n : EndOf(e, n)' = EndOf(e, n)
  BY FramesStable DEF StreamOK
<1>2. BytesOK(e)'
  <2>1. At(e)' = At(e) /\ Held(e)' = Held(e)
    BY <1>1 DEF At, Held
  <2> QED
    BY <2>1 DEF StreamOK, BytesOK, Holds
<1>3. ReturnedOK(e)' /\ DrainedOK(e)'
  BY ReturnedStable, DrainedStable DEF StreamOK
<1> QED
  BY <1>1, <1>2, <1>3 DEF StreamOK

(***************************************************************************)
(* Where a packet ends is a position of the stream.                         *)
(***************************************************************************)
LEMMA EndOfType ==
  ASSUME NEW d \in Streams, StreamTypeOK, FramesOK(d), taken[d] <= Len(sent[d])
  PROVE  EndOf(d, taken[d]) \in Nat /\ EndOf(d, taken[d]) <= Len(stream[d])
<1>1. /\ taken[d] \in Nat /\ sent[d] \in Seq(Packets) /\ start[d] \in Seq(Nat)
      /\ Len(sent[d]) \in Nat /\ Len(stream[d]) \in Nat /\ Len(start[d]) = Len(sent[d])
  BY DEF StreamTypeOK, FramesOK
<1>2. CASE taken[d] = Len(sent[d])
  BY <1>1, <1>2 DEF EndOf
<1>3. CASE taken[d] < Len(sent[d])
  <2>1. taken[d] + 1 \in 1 .. Len(sent[d]) /\ start[d][taken[d] + 1] \in Nat
    <3>1. taken[d] + 1 \in 1 .. Len(sent[d])
      BY <1>1, <1>3
    <3>2. taken[d] + 1 \in 1 .. Len(start[d])
      BY <1>1, <3>1
    <3>3. start[d][taken[d] + 1] \in Nat
      BY ONLY <1>1, <3>2, ElementOfSeq
    <3> QED
      BY <3>1, <3>3
  <2>2. EndOf(d, taken[d]) = start[d][taken[d] + 1]
    BY <1>3 DEF EndOf
  <2>3. /\ EndOf(d, taken[d] + 1)
             = start[d][taken[d] + 1] + Len(encode(sent[d][taken[d] + 1]))
        /\ start[d][taken[d] + 1] + Len(encode(sent[d][taken[d] + 1])) <= Len(stream[d])
    BY <2>1 DEF FramesOK, Holds
  <2>4. sent[d][taken[d] + 1] \in Packets
    BY <1>1, <2>1
  <2>5. Len(encode(sent[d][taken[d] + 1])) \in Nat
    BY <2>4, EncodeType
  <2> QED
    BY <1>1, <2>1, <2>2, <2>3, <2>5, SMTT(30)
<1> QED
  BY <1>1, <1>2, <1>3

----------------------------------------------------------------------------
(***************************************************************************)
(* The types that the steps below need, of the variables of one stream.     *)
(***************************************************************************)
LEMMA TypesAt ==
  ASSUME NEW d \in Streams, StreamInv
  PROVE  /\ StreamTypeOK /\ FramesOK(d) /\ BytesOK(d) /\ ReturnedOK(d) /\ DrainedOK(d)
         /\ stream[d] \in Seq(Byte) /\ Len(stream[d]) \in Nat
         /\ encoded[d] \in Seq(Byte) /\ Len(encoded[d]) \in Nat
         /\ wire[d] \in Seq(Byte) /\ Len(wire[d]) \in Nat
         /\ incomingBuffer[d] \in Seq(Byte) /\ Len(incomingBuffer[d]) \in Nat
         /\ sent[d] \in Seq(Packets) /\ Len(sent[d]) \in Nat
         /\ delivered[d] \in Seq(Packets) /\ Len(delivered[d]) \in Nat
         /\ retval[d] \in Seq(Packets) /\ Len(retval[d]) \in Nat
         /\ start[d] \in Seq(Nat) /\ taken[d] \in Nat
         /\ At(d) \in Nat
<1>1. StreamTypeOK /\ FramesOK(d) /\ BytesOK(d) /\ ReturnedOK(d) /\ DrainedOK(d)
  BY DEF StreamInv, StreamOK
<1>2. At(d) \in Nat
  BY <1>1, EndOfType DEF At, BytesOK
<1>3. /\ stream[d] \in Seq(Byte) /\ encoded[d] \in Seq(Byte) /\ wire[d] \in Seq(Byte)
      /\ incomingBuffer[d] \in Seq(Byte) /\ sent[d] \in Seq(Packets)
      /\ delivered[d] \in Seq(Packets) /\ retval[d] \in Seq(Packets)
      /\ start[d] \in Seq(Nat) /\ taken[d] \in Nat
  BY <1>1 DEF StreamTypeOK
<1>4. /\ Len(stream[d]) \in Nat /\ Len(encoded[d]) \in Nat /\ Len(wire[d]) \in Nat
      /\ Len(incomingBuffer[d]) \in Nat
  BY ONLY <1>3, LenProperties
<1>5. Len(sent[d]) \in Nat /\ Len(delivered[d]) \in Nat /\ Len(retval[d]) \in Nat
  BY ONLY <1>3, LenProperties
<1> QED
  BY <1>1, <1>2, <1>3, <1>4, <1>5

(***************************************************************************)
(* Transfer moves bytes from the writer's buffer to the end of the kernel's.*)
(***************************************************************************)
LEMMA TransferOK ==
  ASSUME NEW d \in Streams, StreamInv, NEW k \in 1 .. Len(encoded[d]), Transfer(d, k)
  PROVE  StreamTypeOK' /\ StreamOK(d)'
<1> DEFINE a == SubSeq(encoded[d], 1, k)
           b == SubSeq(encoded[d], k + 1, Len(encoded[d]))
           L == Len(stream[d])
           E == Len(encoded[d])
           W == Len(wire[d])
           U == Len(incomingBuffer[d])
           P == At(d)
<1>1. /\ encoded' = [encoded EXCEPT ![d] = b]
      /\ wire' = IF reader[d] = "gone" THEN wire
                 ELSE [wire EXCEPT ![d] = @ \o a]
      /\ writeEnd[d] = "open"
      /\ UNCHANGED <<writeEnd, incomingBuffer, retval, reader, status, delivered,
                     sent, taken, start, stream>>
  BY DEF Transfer, readerVars, historyVars
<1>2. k \in 0 .. E /\ k \in Nat
  OBVIOUS
<1>3. /\ a \in Seq(Byte) /\ Len(a) = k
      /\ b \in Seq(Byte) /\ Len(b) = E - k
  BY <1>2, TypesAt, Cut
<1>4. L \in Nat /\ E \in Nat /\ W \in Nat /\ U \in Nat /\ P \in Nat
  BY TypesAt
<1>5. /\ P + U + W + E <= L
      /\ writeEnd[d] = "open" /\ reader[d] # "gone" => P + U + W + E = L
      /\ Holds(stream[d], P, incomingBuffer[d])
      /\ Holds(stream[d], P + U, wire[d])
      /\ Holds(stream[d], L - E, encoded[d])
      /\ taken[d] <= Len(sent[d])
  BY TypesAt DEF BytesOK, Held
<1>6. encoded'[d] = b /\ wire'[d] = IF reader[d] = "gone" THEN wire[d] ELSE wire[d] \o a
  BY <1>1, TypesAt DEF StreamTypeOK
<1>7. wire[d] \o a \in Seq(Byte) /\ Len(wire[d] \o a) = W + k
  BY <1>3, TypesAt, Concatenation
<1>8. StreamTypeOK'
  BY <1>1, <1>3, <1>7, TypesAt DEF StreamTypeOK
<1>9. FramesOK(d)' /\ At(d)' = P
  BY <1>1, TypesAt, FramesStable DEF At
<1>10. ReturnedOK(d)' /\ DrainedOK(d)'
  BY <1>1, TypesAt, ReturnedStable, DrainedStable
<1>11. L - E \in Nat /\ L - E + k = L - (E - k)
  <2> HIDE DEF L, E, W, U, P
  <2> QED
    BY <1>2, <1>4, <1>5
<1>12. Holds(stream[d], L - E, a) /\ Holds(stream[d], L - (E - k), b)
  BY <1>2, <1>5, <1>11, TypesAt, HoldsCut
<1>13. ASSUME reader[d] # "gone"
       PROVE  P + U + W + E = L /\ Holds(stream[d], P + U, wire[d] \o a)
  <2>1. P + U + W + E = L
    BY <1>1, <1>5, <1>13
  <2>2. L - E = (P + U) + W /\ P + U \in Nat
    <3> HIDE DEF L, E, W, U, P
    <3> QED
      BY <1>4, <2>1
  <2>3. Holds(stream[d], (P + U) + W, a)
    BY <1>12, <2>2
  <2> QED
    BY <1>3, <1>5, <2>1, <2>2, <2>3, TypesAt, HoldsJoin
<1>14. BytesOK(d)'
  <2>1. Len(encoded'[d]) = E - k /\ Len(incomingBuffer'[d]) = U /\ Len(stream'[d]) = L
    BY <1>1, <1>3, <1>6
  <2>2. CASE reader[d] = "gone"
    <3>1. Len(wire'[d]) = W
      BY <1>6, <2>2
    <3>2. Held(d)' = P + U + W + (E - k)
      BY <1>9, <2>1, <3>1 DEF Held
    <3>3. P + U + W + (E - k) <= L
      <4> HIDE DEF L, E, W, U, P
      <4> QED
        BY <1>2, <1>4, <1>5
    <3> HIDE DEF L, E, W, U, P
    <3> QED
      BY <1>1, <1>5, <1>6, <1>9, <1>12, <2>1, <2>2, <3>2, <3>3 DEF BytesOK
  <2>3. CASE reader[d] # "gone"
    <3>1. Len(wire'[d]) = W + k
      BY <1>6, <1>7, <2>3
    <3>2. Held(d)' = P + U + (W + k) + (E - k)
      BY <1>9, <2>1, <3>1 DEF Held
    <3>3. P + U + (W + k) + (E - k) = L
      <4> HIDE DEF L, E, W, U, P
      <4> QED
        BY <1>2, <1>4, <1>13, <2>3
    <3> HIDE DEF L, E, W, U, P
    <3> QED
      BY <1>1, <1>4, <1>5, <1>6, <1>9, <1>12, <1>13, <2>1, <2>3, <3>2, <3>3 DEF BytesOK
  <2> QED
    BY <2>2, <2>3
<1> QED
  BY <1>8, <1>9, <1>10, <1>14 DEF StreamOK

(***************************************************************************)
(* read() moves bytes from the kernel to the end of incomingBuffer.         *)
(***************************************************************************)
LEMMA ReadBytesOK ==
  ASSUME NEW d \in Streams, StreamInv, NEW k \in 1 .. InBufferLen[d], ReadBytes(d, k)
  PROVE  StreamTypeOK' /\ StreamOK(d)' /\ Held(d)' = Held(d)
<1> DEFINE a == SubSeq(wire[d], 1, k)
           b == SubSeq(wire[d], k + 1, Len(wire[d]))
           L == Len(stream[d])
           E == Len(encoded[d])
           W == Len(wire[d])
           U == Len(incomingBuffer[d])
           P == At(d)
<1>1. /\ wire' = [wire EXCEPT ![d] = b]
      /\ incomingBuffer' = [incomingBuffer EXCEPT ![d] = @ \o a]
      /\ retval' = [retval EXCEPT ![d] = <<>>]
      /\ reader' = [reader EXCEPT ![d] = "parsing"]
      /\ reader[d] = "idle"
      /\ k <= W
      /\ UNCHANGED <<encoded, writeEnd, status, delivered, sent, taken, start, stream>>
  BY DEF ReadBytes, historyVars
<1>2. L \in Nat /\ E \in Nat /\ W \in Nat /\ U \in Nat /\ P \in Nat
  BY TypesAt
<1>3. k \in 0 .. W /\ k \in Nat
  <2>1. k \in Nat
    BY StreamAssumption
  <2> HIDE DEF W
  <2> QED
    BY <1>1, <1>2, <2>1
<1>4. /\ a \in Seq(Byte) /\ Len(a) = k
      /\ b \in Seq(Byte) /\ Len(b) = W - k
  BY <1>3, TypesAt, Cut
<1>5. /\ P + U + W + E <= L
      /\ writeEnd[d] = "open" /\ reader[d] # "gone" => P + U + W + E = L
      /\ Holds(stream[d], P, incomingBuffer[d])
      /\ Holds(stream[d], P + U, wire[d])
      /\ Holds(stream[d], L - E, encoded[d])
      /\ taken[d] <= Len(sent[d])
  BY TypesAt DEF BytesOK, Held
<1>6. /\ wire'[d] = b /\ incomingBuffer'[d] = incomingBuffer[d] \o a
      /\ reader'[d] = "parsing" /\ retval'[d] = <<>>
  BY <1>1, TypesAt DEF StreamTypeOK
<1>7. incomingBuffer[d] \o a \in Seq(Byte) /\ Len(incomingBuffer[d] \o a) = U + k
  BY <1>4, TypesAt, Concatenation
<1>8. StreamTypeOK'
  <2>1. wire' \in [Streams -> Seq(Byte)]
    BY <1>1, <1>4, TypesAt DEF StreamTypeOK
  <2>2. incomingBuffer' \in [Streams -> Seq(Byte)]
    BY <1>1, <1>7, TypesAt DEF StreamTypeOK
  <2>3. retval' \in [Streams -> Seq(Packets)]
    BY <1>1, TypesAt DEF StreamTypeOK
  <2>4. reader' \in [Streams -> {"idle", "parsing", "gone"}]
    BY <1>1, TypesAt DEF StreamTypeOK
  <2> QED
    BY <1>1, <2>1, <2>2, <2>3, <2>4, TypesAt DEF StreamTypeOK
<1>9. FramesOK(d)' /\ At(d)' = P
  BY <1>1, TypesAt, FramesStable DEF At
<1>10. ReturnedOK(d)'
  <2>1. retval[d] = <<>>
    BY <1>1, TypesAt DEF ReturnedOK
  <2>2. Blocked(d) => Blocked(d)'
    <3>1. SUFFICES ASSUME Blocked(d) PROVE Blocked(d)'
      OBVIOUS
    <3> DEFINE N == Len(encode(sent[d][taken[d] + 1]))
    <3>2. N \in Nat /\ U >= N
      <4>1. taken[d] + 1 \in 1 .. Len(sent[d])
        BY <3>1, TypesAt DEF Blocked
      <4>2. sent[d][taken[d] + 1] \in Packets
        BY <4>1, TypesAt
      <4> QED
        BY <3>1, <4>2, EncodeType DEF Blocked
    <3>3. U + k >= N
      <4> HIDE DEF U, N
      <4> QED
        BY <1>2, <1>3, <3>2
    <3> QED
      BY <1>1, <1>6, <1>7, <3>1, <3>3 DEF Blocked
  <2>3. /\ delivered'[d] = delivered[d] /\ taken'[d] = taken[d]
        /\ sent'[d] = sent[d] /\ status'[d] = status[d]
        /\ retval'[d] = retval[d] /\ reader'[d] = "parsing"
    BY <1>1, <1>6, <2>1
  <2> QED
    BY <2>1, <2>2, <2>3, TypesAt DEF ReturnedOK
<1>11. DrainedOK(d)'
  BY <1>6 DEF DrainedOK
<1>12. P + U \in Nat
  <2> HIDE DEF P, U
  <2> QED
    BY <1>2
<1>13. Holds(stream[d], P + U, a) /\ Holds(stream[d], (P + U) + k, b)
  BY <1>3, <1>5, <1>12, TypesAt, HoldsCut
<1>14. Holds(stream[d], P, incomingBuffer[d] \o a)
  BY <1>2, <1>4, <1>5, <1>13, TypesAt, HoldsJoin
<1>15. BytesOK(d)' /\ Held(d)' = Held(d)
  <2>1. /\ Len(encoded'[d]) = E /\ Len(incomingBuffer'[d]) = U + k
        /\ Len(wire'[d]) = W - k /\ Len(stream'[d]) = L
    BY <1>1, <1>4, <1>6, <1>7
  <2>2. Held(d)' = P + (U + k) + (W - k) + E
    BY <1>9, <2>1 DEF Held
  <2>4. Held(d) = P + U + W + E
    BY DEF Held
  <2> HIDE DEF L, E, W, U, P
  <2>3. /\ P + (U + k) + (W - k) + E = P + U + W + E
        /\ P + (U + k) = (P + U) + k
    BY <1>2, <1>3
  <2> QED
    BY <1>1, <1>5, <1>6, <1>9, <1>13, <1>14, <2>1, <2>2, <2>3, <2>4 DEF BytesOK
<1> QED
  BY <1>8, <1>9, <1>10, <1>11, <1>15 DEF StreamOK

(***************************************************************************)
(* A read that finds no bytes.                                              *)
(***************************************************************************)
LEMMA ReadClosedOK ==
  ASSUME NEW d \in Streams, StreamInv, ReadClosed(d)
  PROVE  StreamTypeOK' /\ StreamOK(d)'
<1>1. /\ status' = [status EXCEPT ![d] = "closed"]
      /\ UNCHANGED <<encoded, wire, writeEnd, incomingBuffer, retval, reader, delivered,
                     sent, taken, start, stream>>
  BY DEF ReadClosed, kernelVars, historyVars
<1>2. StreamTypeOK'
  BY <1>1, TypesAt DEF StreamTypeOK, ReadReturnStatus
<1>3. status'[d] = "closed"
  BY <1>1, TypesAt DEF StreamTypeOK
<1>4. FramesOK(d)' /\ At(d)' = At(d)
  BY <1>1, TypesAt, FramesStable DEF At
<1>5. BytesOK(d)'
  BY <1>1, <1>4, TypesAt, BytesStable
<1>6. ReturnedOK(d)' /\ DrainedOK(d)'
  BY <1>1, <1>3, TypesAt DEF ReturnedOK, Blocked, DrainedOK
<1> QED
  BY <1>2, <1>4, <1>5, <1>6 DEF StreamOK

LEMMA ReadErrorOK ==
  ASSUME NEW d \in Streams, StreamInv, ReadError(d)
  PROVE  StreamTypeOK' /\ StreamOK(d)'
<1> DEFINE L == Len(stream[d])
           E == Len(encoded[d])
           W == Len(wire[d])
           U == Len(incomingBuffer[d])
           P == At(d)
<1>1. /\ status' = [status EXCEPT ![d] = "socket_error"]
      /\ wire' = [wire EXCEPT ![d] = <<>>]
      /\ writeEnd' = [writeEnd EXCEPT ![d] = "closed"]
      /\ UNCHANGED <<encoded, incomingBuffer, retval, reader, delivered,
                     sent, taken, start, stream>>
  BY DEF ReadError, historyVars
<1>2. StreamTypeOK'
  BY <1>1, TypesAt DEF StreamTypeOK, ReadReturnStatus
<1>3. status'[d] = "socket_error" /\ wire'[d] = <<>> /\ writeEnd'[d] = "closed"
  BY <1>1, TypesAt DEF StreamTypeOK
<1>4. FramesOK(d)' /\ At(d)' = P
  BY <1>1, TypesAt, FramesStable DEF At
<1>5. L \in Nat /\ E \in Nat /\ W \in Nat /\ U \in Nat /\ P \in Nat
  BY TypesAt
<1>6. /\ P + U + W + E <= L
      /\ Holds(stream[d], P, incomingBuffer[d])
      /\ Holds(stream[d], L - E, encoded[d])
      /\ taken[d] <= Len(sent[d])
  BY TypesAt DEF BytesOK, Held
<1>7. BytesOK(d)'
  <2>1. Held(d)' = P + U + 0 + E
    BY <1>1, <1>3, <1>4 DEF Held
  <2>2. Holds(stream[d], P + U, <<>>) /\ P + U + 0 + E <= L
    <3>1. P + U + 0 <= L /\ P + U + 0 + E <= L
      <4> HIDE DEF L, E, W, U, P
      <4> QED
        BY <1>5, <1>6
    <3> QED
      BY <3>1 DEF Holds
  <2> QED
    BY <1>1, <1>3, <1>4, <1>6, <2>1, <2>2 DEF BytesOK
<1>8. ReturnedOK(d)' /\ DrainedOK(d)'
  BY <1>1, <1>3, TypesAt DEF ReturnedOK, Blocked, DrainedOK
<1> QED
  BY <1>2, <1>4, <1>7, <1>8 DEF StreamOK

(***************************************************************************)
(* The parser takes the next packet off the front of incomingBuffer, which  *)
(* then begins where the packet after it does.                              *)
(***************************************************************************)
LEMMA ParseCompleteOK ==
  ASSUME NEW d \in Streams, StreamInv, ParseComplete(d)
  PROVE  StreamTypeOK' /\ StreamOK(d)' /\ Held(d)' = Held(d)
<1> DEFINE p == sent[d][taken[d] + 1]
           N == Len(encode(p))
           b == SubSeq(incomingBuffer[d], N + 1, Len(incomingBuffer[d]))
           L == Len(stream[d])
           E == Len(encoded[d])
           W == Len(wire[d])
           U == Len(incomingBuffer[d])
           P == At(d)
           D == Len(delivered[d])
           R == Len(retval[d])
           T == taken[d]
<1>1. /\ incomingBuffer[d] # <<>> /\ reader[d] = "parsing"
      /\ parse_packet(incomingBuffer[d]).status = "complete"
      /\ retval' = [retval EXCEPT ![d] =
                      Append(@, parse_packet(incomingBuffer[d]).pkt)]
      /\ incomingBuffer' = [incomingBuffer EXCEPT ![d] =
           SubSeq(@, parse_packet(incomingBuffer[d]).bytes_consumed + 1, Len(@))]
      /\ taken' = [taken EXCEPT ![d] = @ + 1]
      /\ UNCHANGED <<encoded, wire, writeEnd, reader, status, delivered, sent, start,
                     stream>>
  BY DEF ParseComplete, kernelVars
<1>2. /\ T < Len(sent[d]) /\ p \in Packets
      /\ U < N => parse_packet(incomingBuffer[d]) = Incomplete
      /\ U >= N => parse_packet(incomingBuffer[d])
                    = IF p.hdr = invalid THEN Invalid ELSE Complete(p, N)
  BY <1>1, TypesAt, FrontOfBuffer
<1>3. /\ L \in Nat /\ E \in Nat /\ W \in Nat /\ U \in Nat /\ P \in Nat /\ N \in Nat
      /\ D \in Nat /\ R \in Nat /\ T \in Nat
  BY <1>2, TypesAt, EncodeType
<1>4. U >= N /\ p.hdr # invalid /\ parse_packet(incomingBuffer[d]) = Complete(p, N)
  <2>1. ~ (U < N)
    BY <1>1, <1>2 DEF Incomplete
  <2>2. U >= N
    <3> HIDE DEF U, N
    <3> QED
      BY <1>3, <2>1
  <2> QED
    BY <1>1, <1>2, <2>2 DEF Invalid
<1>5. /\ retval' = [retval EXCEPT ![d] = Append(@, p)]
      /\ incomingBuffer' = [incomingBuffer EXCEPT ![d] = b]
  BY <1>1, <1>4 DEF Complete
<1>6. /\ b \in Seq(Byte) /\ Len(b) = U - N
      /\ N \in 0 .. U
  <2>1. N \in 0 .. U
    <3> HIDE DEF U, N
    <3> QED
      BY <1>3, <1>4
  <2>2. incomingBuffer[d] \in Seq(Byte)
    BY TypesAt
  <2> HIDE DEF N
  <2>3. b \in Seq(Byte)
    BY <2>1, <2>2, Cut
  <2>4. Len(b) = U - N
    BY <2>1, <2>2, Cut
  <2> QED
    BY <2>1, <2>3, <2>4
<1>7. /\ Append(retval[d], p) \in Seq(Packets)
      /\ Len(Append(retval[d], p)) = R + 1
      /\ \A i \in 1 .. R : Append(retval[d], p)[i] = retval[d][i]
      /\ Append(retval[d], p)[R + 1] = p
  BY <1>2, TypesAt, AppendProperties
<1>8. StreamTypeOK'
  <2>1. incomingBuffer' \in [Streams -> Seq(Byte)]
    BY <1>5, <1>6, TypesAt DEF StreamTypeOK
  <2>2. retval' \in [Streams -> Seq(Packets)]
    BY <1>5, <1>7, TypesAt DEF StreamTypeOK
  <2>3. taken' \in [Streams -> Nat]
    <3>1. taken \in [Streams -> Nat] /\ taken' = [taken EXCEPT ![d] = @ + 1]
      BY <1>1, TypesAt DEF StreamTypeOK
    <3> QED
      BY ONLY <3>1
  <2> QED
    BY <1>1, <2>1, <2>2, <2>3, TypesAt DEF StreamTypeOK
<1>9. /\ incomingBuffer'[d] = b /\ retval'[d] = Append(retval[d], p)
      /\ taken'[d] = T + 1
  BY <1>1, <1>5, TypesAt DEF StreamTypeOK
<1>10. T + 1 \in 1 .. Len(sent[d]) /\ T + 1 <= Len(sent[d]) /\ Len(sent[d]) \in Nat
  BY <1>2, TypesAt
<1>11. FramesOK(d)' /\ At(d)' = P + N
  <2>1. FramesOK(d)' /\ \A n : EndOf(d, n)' = EndOf(d, n)
    BY <1>1, TypesAt, FramesStable
  <2>2. At(d)' = EndOf(d, T + 1)
    BY <1>1, <1>9 DEF At, EndOf
  <2>3. EndOf(d, T + 1) = start[d][T + 1] + N
    BY <1>10, TypesAt DEF FramesOK
  <2>4. P = start[d][T + 1]
    BY <1>2 DEF At, EndOf
  <2> QED
    BY <2>1, <2>2, <2>3, <2>4
<1>12. /\ P + U + W + E <= L
       /\ writeEnd[d] = "open" /\ reader[d] # "gone" => P + U + W + E = L
       /\ Holds(stream[d], P, incomingBuffer[d])
       /\ Holds(stream[d], P + U, wire[d])
       /\ Holds(stream[d], L - E, encoded[d])
  BY TypesAt DEF BytesOK, Held
<1>13. Holds(stream[d], P + N, b)
  BY <1>3, <1>6, <1>12, TypesAt, HoldsCut
<1>14. BytesOK(d)' /\ Held(d)' = Held(d)
  <2>1. /\ Len(encoded'[d]) = E /\ Len(incomingBuffer'[d]) = U - N
        /\ Len(wire'[d]) = W /\ Len(stream'[d]) = L
    BY <1>1, <1>6, <1>9
  <2>2. Held(d)' = (P + N) + (U - N) + W + E
    BY <1>11, <2>1 DEF Held
  <2>3. T + 1 <= Len(sent'[d])
    BY <1>1, <1>10
  <2>5. Held(d) = P + U + W + E
    BY DEF Held
  <2> HIDE DEF L, E, W, U, P, N
  <2>4. /\ (P + N) + (U - N) + W + E = P + U + W + E
        /\ (P + N) + (U - N) = P + U
    BY <1>3
  <2> QED
    BY <1>1, <1>9, <1>11, <1>12, <1>13, <2>1, <2>2, <2>3, <2>4, <2>5 DEF BytesOK
<1>15. ReturnedOK(d)'
  <2>1. ~ Blocked(d)
    BY <1>4 DEF Blocked
  <2>2. /\ D + R = T /\ status[d] # "protocol_error"
        /\ \A i \in 1 .. D : delivered[d][i] = sent[d][i]
        /\ \A i \in 1 .. R : retval[d][i] = sent[d][D + i]
    BY <2>1, TypesAt DEF ReturnedOK
  <2>3. ASSUME NEW i \in 1 .. R + 1 PROVE retval'[d][i] = sent[d][D + i]
    <3>1. CASE i \in 1 .. R
      BY <1>7, <1>9, <2>2, <3>1
    <3>2. CASE i = R + 1
      <4>1. D + i = T + 1
        <5> HIDE DEF D, R, T
        <5> QED
          BY <1>3, <2>2, <3>2
      <4> QED
        BY <1>7, <1>9, <3>2, <4>1
    <3>3. i \in 1 .. R \/ i = R + 1
      <4> HIDE DEF R
      <4> QED
        BY <1>3
    <3> QED
      BY <3>1, <3>2, <3>3
  <2>4. D + (R + 1) = T + 1
    <3> HIDE DEF D, R, T
    <3> QED
      BY <1>3, <2>2
  <2>5. /\ Len(retval'[d]) = R + 1 /\ Len(delivered'[d]) = D
        /\ delivered'[d] = delivered[d] /\ sent'[d] = sent[d] /\ taken'[d] = T + 1
        /\ status'[d] # "protocol_error" /\ reader'[d] # "idle"
    BY <1>1, <1>7, <1>9, <2>2
  <2> HIDE DEF D, R, T
  <2>6. D + (R + 1) <= T + 1
    BY <1>3, <2>4
  <2> QED
    BY <2>2, <2>3, <2>4, <2>5, <2>6 DEF ReturnedOK
<1>16. DrainedOK(d)'
  BY <1>1 DEF DrainedOK
<1> QED
  BY <1>8, <1>11, <1>14, <1>15, <1>16 DEF StreamOK

(***************************************************************************)
(* get_packets returns the packets it parsed.                               *)
(***************************************************************************)
LEMMA ReturnPacketsOK ==
  ASSUME NEW d \in Streams, StreamInv, ReturnPackets(d)
  PROVE  StreamTypeOK' /\ StreamOK(d)'
<1> DEFINE D == Len(delivered[d])
           R == Len(retval[d])
           all == delivered[d] \o retval[d]
<1>1. /\ incomingBuffer[d] = <<>> \/ parse_packet(incomingBuffer[d]).status = "incomplete"
      /\ status' = [status EXCEPT ![d] = "ok_packets"]
      /\ delivered' = [delivered EXCEPT ![d] = all]
      /\ retval' = [retval EXCEPT ![d] = <<>>]
      /\ reader' = [reader EXCEPT ![d] = "idle"]
      /\ reader[d] = "parsing"
      /\ UNCHANGED <<encoded, wire, writeEnd, incomingBuffer, sent, taken, start, stream>>
  BY DEF ReturnPackets, kernelVars, historyVars
<1>2. all \in Seq(Packets)
  BY TypesAt, Concatenation
<1>3. StreamTypeOK'
  <2>1. delivered' \in [Streams -> Seq(Packets)]
    BY <1>1, <1>2, TypesAt DEF StreamTypeOK
  <2>2. retval' \in [Streams -> Seq(Packets)]
    BY <1>1, TypesAt DEF StreamTypeOK
  <2> QED
    BY <1>1, <2>1, <2>2, TypesAt DEF StreamTypeOK, ReadReturnStatus
<1>4. /\ status'[d] = "ok_packets" /\ delivered'[d] = all
      /\ retval'[d] = <<>> /\ reader'[d] = "idle"
  BY <1>1, TypesAt DEF StreamTypeOK
<1>5. FramesOK(d)' /\ At(d)' = At(d)
  BY <1>1, TypesAt, FramesStable DEF At
<1>6. BytesOK(d)'
  BY <1>1, <1>5, TypesAt, BytesStable
<1>7. ReturnedOK(d)'
  <2>1. /\ D \in Nat /\ R \in Nat /\ D + R <= taken[d]
        /\ \A i \in 1 .. D : delivered[d][i] = sent[d][i]
        /\ \A i \in 1 .. R : retval[d][i] = sent[d][D + i]
        /\ D + R # taken[d] => Blocked(d)
    BY TypesAt DEF ReturnedOK
  <2>2. Len(all) = D + R /\ \A i \in 1 .. D : all[i] = delivered[d][i]
    <3>1. \A s, r \in Seq(Packets) :
             Len(s \o r) = Len(s) + Len(r) /\ \A i \in 1 .. Len(s) : (s \o r)[i] = s[i]
      BY ONLY Concatenation
    <3>2. delivered[d] \in Seq(Packets) /\ retval[d] \in Seq(Packets)
      BY TypesAt
    <3> QED
      BY ONLY <3>1, <3>2
  <2>3. \A i \in 1 .. D : all[i] = delivered[d][i]
    BY <2>2
  <2>4. \A i \in 1 .. R : all[D + i] = retval[d][i]
    <3>1. \A s, r \in Seq(Packets) : \A i \in 1 .. Len(r) : (s \o r)[Len(s) + i] = r[i]
      BY ONLY Concatenation
    <3>2. delivered[d] \in Seq(Packets) /\ retval[d] \in Seq(Packets)
      BY TypesAt
    <3> QED
      BY ONLY <3>1, <3>2
  <2>5. ASSUME NEW i \in 1 .. D + R PROVE all[i] = sent[d][i]
    <3>1. CASE i \in 1 .. D
      BY <2>1, <2>3, <3>1
    <3>2. ASSUME NEW j \in 1 .. R, i = D + j PROVE all[i] = sent[d][i]
      BY <2>1, <2>4, <3>2
    <3>3. i \in 1 .. D \/ \E j \in 1 .. R : i = D + j
      <4> HIDE DEF D, R
      <4>1. i \notin 1 .. D => i - D \in 1 .. R /\ i = D + (i - D)
        BY <2>1
      <4> QED
        BY <4>1
    <3> QED
      BY <3>1, <3>2, <3>3
  <2>6. Blocked(d) => Blocked(d)'
    BY <1>1 DEF Blocked
  <2>7. D + R + 0 = D + R
    <3> HIDE DEF D, R
    <3> QED
      BY <2>1
  <2>8. /\ Len(delivered'[d]) = D + R /\ Len(retval'[d]) = 0
        /\ sent'[d] = sent[d] /\ taken'[d] = taken[d]
    BY <1>1, <1>4, <2>2
  <2> HIDE DEF D, R, all
  <2> QED
    BY <1>4, <2>1, <2>5, <2>6, <2>7, <2>8 DEF ReturnedOK
<1>8. DrainedOK(d)'
  BY <1>1 DEF DrainedOK
<1> QED
  BY <1>3, <1>5, <1>6, <1>7, <1>8 DEF StreamOK

(***************************************************************************)
(* get_packets reports a protocol error.                                    *)
(***************************************************************************)
LEMMA ReturnInvalidOK ==
  ASSUME NEW d \in Streams, StreamInv, ReturnInvalid(d)
  PROVE  StreamTypeOK' /\ StreamOK(d)'
<1> DEFINE p == sent[d][taken[d] + 1]
           N == Len(encode(p))
           U == Len(incomingBuffer[d])
           D == Len(delivered[d])
           R == Len(retval[d])
<1>1. /\ incomingBuffer[d] # <<>>
      /\ parse_packet(incomingBuffer[d]).status = "invalid"
      /\ status' = [status EXCEPT ![d] = "protocol_error"]
      /\ retval' = [retval EXCEPT ![d] = <<>>]
      /\ reader' = [reader EXCEPT ![d] = "idle"]
      /\ UNCHANGED <<encoded, wire, writeEnd, incomingBuffer, delivered, sent, taken,
                     start, stream>>
      /\ reader[d] = "parsing"
  BY DEF ReturnInvalid, kernelVars, historyVars
<1>2. Blocked(d)
  <2>1. /\ taken[d] < Len(sent[d]) /\ p \in Packets
        /\ U < N => parse_packet(incomingBuffer[d]) = Incomplete
        /\ U >= N => parse_packet(incomingBuffer[d])
                      = IF p.hdr = invalid THEN Invalid ELSE Complete(p, N)
    BY <1>1, TypesAt, FrontOfBuffer
  <2>2. U \in Nat /\ N \in Nat
    BY <2>1, TypesAt, EncodeType
  <2>3. ~ (U < N)
    BY <1>1, <2>1 DEF Incomplete
  <2>4. U >= N
    <3> HIDE DEF U, N
    <3> QED
      BY <2>2, <2>3
  <2>5. p.hdr = invalid
    BY <1>1, <2>1, <2>4 DEF Complete
  <2> QED
    BY <2>1, <2>4, <2>5 DEF Blocked
<1>3. StreamTypeOK'
  <2>1. retval' \in [Streams -> Seq(Packets)]
    BY <1>1, TypesAt DEF StreamTypeOK
  <2> QED
    BY <1>1, <2>1, TypesAt DEF StreamTypeOK, ReadReturnStatus
<1>4. status'[d] = "protocol_error" /\ retval'[d] = <<>> /\ reader'[d] = "idle"
  BY <1>1, TypesAt DEF StreamTypeOK
<1>5. FramesOK(d)' /\ At(d)' = At(d)
  BY <1>1, TypesAt, FramesStable DEF At
<1>6. BytesOK(d)'
  BY <1>1, <1>5, TypesAt, BytesStable
<1>7. ReturnedOK(d)'
  <2>1. /\ D \in Nat /\ R \in Nat /\ taken[d] \in Nat /\ D + R <= taken[d]
        /\ \A i \in 1 .. D : delivered[d][i] = sent[d][i]
    BY TypesAt DEF ReturnedOK
  <2>2. Blocked(d)'
    BY <1>1, <1>2 DEF Blocked
  <2>3. /\ Len(delivered'[d]) = D /\ Len(retval'[d]) = 0 /\ delivered'[d] = delivered[d]
        /\ sent'[d] = sent[d] /\ taken'[d] = taken[d]
    BY <1>1, <1>4
  <2> HIDE DEF D, R
  <2>4. D + 0 <= taken[d]
    BY <2>1
  <2> QED
    BY <1>4, <2>1, <2>2, <2>3, <2>4 DEF ReturnedOK
<1>8. DrainedOK(d)'
  BY <1>1 DEF DrainedOK
<1> QED
  BY <1>3, <1>5, <1>6, <1>7, <1>8 DEF StreamOK

(***************************************************************************)
(* encode adds a frame at the end of the stream.                            *)
(***************************************************************************)
LEMMA EncodeOK ==
  ASSUME NEW d \in Streams, StreamInv, NEW p \in Packets, Encode(d, p)
  PROVE  StreamTypeOK' /\ StreamOK(d)'
<1> DEFINE x == encode(p)
           X == Len(x)
           L == Len(stream[d])
           E == Len(encoded[d])
           W == Len(wire[d])
           U == Len(incomingBuffer[d])
           P == At(d)
           M == Len(sent[d])
           T == taken[d]
<1>1. /\ encoded' = [encoded EXCEPT ![d] = @ \o x]
      /\ sent' = [sent EXCEPT ![d] = Append(@, p)]
      /\ start' = [start EXCEPT ![d] = Append(@, L)]
      /\ stream' = [stream EXCEPT ![d] = @ \o x]
      /\ writeEnd[d] = "open"
      /\ UNCHANGED <<taken, wire, writeEnd, incomingBuffer, retval, reader, status,
                     delivered>>
  BY DEF Encode, kernelVars, readerVars
<1>2. x \in Seq(Byte) /\ X \in Nat
  BY EncodeType
<1>3. /\ L \in Nat /\ E \in Nat /\ W \in Nat /\ U \in Nat /\ P \in Nat
      /\ M \in Nat /\ T \in Nat /\ Len(start[d]) = M /\ start[d] \in Seq(Nat)
  BY TypesAt DEF FramesOK
<1> HIDE DEF x
<1>4. /\ encoded'[d] = encoded[d] \o x /\ stream'[d] = stream[d] \o x
      /\ sent'[d] = Append(sent[d], p) /\ start'[d] = Append(start[d], L)
  BY <1>1, TypesAt DEF StreamTypeOK
<1>5. encoded[d] \o x \in Seq(Byte) /\ Len(encoded[d] \o x) = E + X
  BY <1>2, TypesAt, Concatenation
<1>6. stream[d] \o x \in Seq(Byte) /\ Len(stream[d] \o x) = L + X
  BY <1>2, TypesAt, Concatenation
<1>7. /\ Append(sent[d], p) \in Seq(Packets) /\ Len(Append(sent[d], p)) = M + 1
      /\ \A i \in 1 .. M : Append(sent[d], p)[i] = sent[d][i]
      /\ Append(sent[d], p)[M + 1] = p
  BY TypesAt, AppendProperties
<1>8. /\ Append(start[d], L) \in Seq(Nat) /\ Len(Append(start[d], L)) = M + 1
      /\ \A i \in 1 .. M : Append(start[d], L)[i] = start[d][i]
      /\ Append(start[d], L)[M + 1] = L
  BY <1>3, AppendProperties
<1>9. StreamTypeOK'
  <2>1. encoded' \in [Streams -> Seq(Byte)]
    BY <1>1, <1>5, TypesAt DEF StreamTypeOK
  <2>2. stream' \in [Streams -> Seq(Byte)]
    BY <1>1, <1>6, TypesAt DEF StreamTypeOK
  <2>3. sent' \in [Streams -> Seq(Packets)]
    BY <1>1, <1>7, TypesAt DEF StreamTypeOK
  <2>4. start' \in [Streams -> Seq(Nat)]
    BY <1>1, <1>8, TypesAt DEF StreamTypeOK
  <2> QED
    BY <1>1, <2>1, <2>2, <2>3, <2>4, TypesAt DEF StreamTypeOK
<1>10. ASSUME NEW n \in 0 .. M PROVE EndOf(d, n)' = EndOf(d, n)
  <2>1. n < M + 1 /\ n \in Nat
    <3> HIDE DEF M
    <3> QED
      BY <1>3
  <2>2. EndOf(d, n)' = Append(start[d], L)[n + 1]
    BY <1>4, <1>7, <2>1 DEF EndOf
  <2>3. CASE n < M
    <3>1. n + 1 \in 1 .. M
      <4> HIDE DEF M
      <4> QED
        BY <1>3, <2>1, <2>3
    <3> QED
      BY <1>8, <2>2, <2>3, <3>1 DEF EndOf
  <2>4. CASE n = M
    BY <1>3, <1>8, <2>2, <2>4 DEF EndOf
  <2> QED
    BY <2>1, <2>3, <2>4
<1>11. ASSUME NEW n, n = M + 1 PROVE EndOf(d, n)' = L + X
  <2>1. ~ (M + 1 < M + 1)
    BY <1>3
  <2> QED
    BY <1>4, <1>6, <1>7, <1>11, <2>1 DEF EndOf
<1>12. FramesOK(d)'
  <2>1. Len(start'[d]) = Len(sent'[d]) /\ Len(sent'[d]) = M + 1
    BY <1>4, <1>7, <1>8
  <2>2. EndOf(d, 0)' = 0
    <3>1. 0 \in 0 .. M /\ EndOf(d, 0) = 0
      BY <1>3, TypesAt DEF FramesOK
    <3> QED
      BY <1>10, <3>1
  <2>3. ASSUME NEW i \in 1 .. M
        PROVE  /\ EndOf(d, i)' = start'[d][i] + Len(encode(sent'[d][i]))
               /\ Holds(stream'[d], start'[d][i], encode(sent'[d][i]))
    <3>1. start'[d][i] = start[d][i] /\ sent'[d][i] = sent[d][i]
      BY <1>4, <1>7, <1>8
    <3>2. /\ EndOf(d, i) = start[d][i] + Len(encode(sent[d][i]))
          /\ Holds(stream[d], start[d][i], encode(sent[d][i]))
      BY TypesAt DEF FramesOK
    <3>3. start[d][i] \in Nat /\ sent[d][i] \in Packets
      BY <1>3, TypesAt, SMTT(30)
    <3>4. Holds(stream[d] \o x, start[d][i], encode(sent[d][i]))
      BY <1>2, <3>2, <3>3, TypesAt, EncodeType, HoldsExtend
    <3>5. EndOf(d, i)' = EndOf(d, i)
      <4>1. i \in 0 .. M
        <5> HIDE DEF M
        <5> QED
          BY <1>3
      <4> QED
        BY <1>10, <4>1
    <3> QED
      BY <1>4, <3>1, <3>2, <3>4, <3>5
  <2>4. ASSUME NEW i, i = M + 1
        PROVE  /\ EndOf(d, i)' = start'[d][i] + Len(encode(sent'[d][i]))
               /\ Holds(stream'[d], start'[d][i], encode(sent'[d][i]))
    <3>1. start'[d][i] = L /\ encode(sent'[d][i]) = x
      BY <1>4, <1>7, <1>8, <2>4 DEF x
    <3>2. Holds(stream[d], 0, <<>>) /\ <<>> \in Seq(Byte) /\ 0 \in Nat
      BY <1>3 DEF Holds
    <3>3. Holds(stream[d] \o x, L, x)
      BY <1>2, <3>2, TypesAt, HoldsExtend
    <3> QED
      BY <1>4, <1>11, <2>4, <3>1, <3>3
  <2>5. \A i \in 1 .. M + 1 : i \in 1 .. M \/ i = M + 1
    <3> HIDE DEF M
    <3> QED
      BY <1>3
  <2> HIDE DEF M
  <2>6. ASSUME NEW i \in 1 .. M + 1
        PROVE  /\ EndOf(d, i)' = start'[d][i] + Len(encode(sent'[d][i]))
               /\ Holds(stream'[d], start'[d][i], encode(sent'[d][i]))
    <3>1. CASE i \in 1 .. M
      BY <2>3, <3>1
    <3>2. CASE i = M + 1
      BY <2>4, <3>2
    <3> QED
      BY <2>5, <3>1, <3>2
  <2> QED
    BY <2>1, <2>2, <2>6 DEF FramesOK, Holds
<1>13. /\ P + U + W + E <= L
       /\ writeEnd[d] = "open" /\ reader[d] # "gone" => P + U + W + E = L
       /\ Holds(stream[d], P, incomingBuffer[d])
       /\ Holds(stream[d], P + U, wire[d])
       /\ Holds(stream[d], L - E, encoded[d])
       /\ T <= M
  BY TypesAt DEF BytesOK, Held
<1>14. At(d)' = P
  <2>1. T \in 0 .. M /\ taken'[d] = T
    <3>1. taken'[d] = T
      BY <1>1
    <3> HIDE DEF T, M
    <3> QED
      BY <1>3, <1>13, <3>1
  <2>2. At(d)' = EndOf(d, T)'
    BY <2>1 DEF At, EndOf
  <2> QED
    BY <1>10, <2>1, <2>2 DEF At
<1>15. BytesOK(d)'
  <2>1. P + U \in Nat /\ L - E \in Nat /\ (L - E) + E = L
    <3> HIDE DEF L, E, W, U, P
    <3> QED
      BY <1>3, <1>13, SMTT(30)
  <2>2. /\ Holds(stream[d] \o x, P, incomingBuffer[d])
        /\ Holds(stream[d] \o x, P + U, wire[d])
        /\ Holds(stream[d] \o x, L - E, encoded[d])
    BY <1>2, <1>3, <1>13, <2>1, TypesAt, HoldsExtend
  <2>3. Holds(stream[d] \o x, (L - E) + E, x)
    BY <1>2, <1>3, <1>13, <2>1, TypesAt, HoldsExtend
  <2>4. Holds(stream[d] \o x, L - E, encoded[d] \o x)
    BY <1>2, <1>6, <2>1, <2>2, <2>3, TypesAt, HoldsJoin
  <2>5. /\ Len(encoded'[d]) = E + X /\ Len(stream'[d]) = L + X
        /\ Len(incomingBuffer'[d]) = U /\ Len(wire'[d]) = W /\ Len(sent'[d]) = M + 1
        /\ taken'[d] = T
    BY <1>1, <1>4, <1>5, <1>6, <1>7
  <2>6. Held(d)' = P + U + W + (E + X)
    BY <1>14, <2>5 DEF Held
  <2> HIDE DEF L, E, W, U, P, X, M, T
  <2>7. /\ P + U + W + (E + X) <= L + X
        /\ P + U + W + E = L => P + U + W + (E + X) = L + X
        /\ (L + X) - (E + X) = L - E
        /\ T <= M + 1
    BY <1>2, <1>3, <1>13
  <2> QED
    BY <1>1, <1>4, <1>13, <1>14, <2>2, <2>4, <2>5, <2>6, <2>7 DEF BytesOK
<1>16. /\ T < M => T + 1 \in 1 .. M
       /\ T < M + 1 \/ ~ (T < M)
  <2> HIDE DEF T, M
  <2> QED
    BY <1>3
<1>17. Blocked(d) => Blocked(d)'
  <2>1. SUFFICES ASSUME Blocked(d) PROVE Blocked(d)'
    OBVIOUS
  <2>2. T < M /\ T < M + 1
    <3>1. T < M
      BY <2>1 DEF Blocked
    <3> HIDE DEF T, M
    <3> QED
      BY <1>3, <3>1
  <2>3. sent'[d][T + 1] = sent[d][T + 1] /\ taken'[d] = T
    BY <1>1, <1>4, <1>7, <1>16, <2>2
  <2> QED
    BY <1>1, <1>4, <1>7, <2>1, <2>2, <2>3 DEF Blocked
<1>18. ReturnedOK(d)'
  <2> DEFINE D == Len(delivered[d])
             R == Len(retval[d])
  <2>1. /\ D \in Nat /\ R \in Nat /\ D + R <= T
        /\ \A i \in 1 .. D : delivered[d][i] = sent[d][i]
        /\ \A i \in 1 .. R : retval[d][i] = sent[d][D + i]
    BY TypesAt DEF ReturnedOK
  <2>2. /\ \A i \in 1 .. D : i \in 1 .. M
        /\ \A i \in 1 .. R : D + i \in 1 .. M
    <3> HIDE DEF D, R, T, M
    <3> QED
      BY <1>3, <1>13, <2>1
  <2>3. /\ \A i \in 1 .. D : delivered[d][i] = sent'[d][i]
        /\ \A i \in 1 .. R : retval[d][i] = sent'[d][D + i]
    BY <1>4, <1>7, <2>1, <2>2
  <2> QED
    BY <1>1, <1>17, <2>3, TypesAt DEF ReturnedOK
<1>19. DrainedOK(d)'
  BY <1>1, TypesAt, DrainedStable
<1> QED
  BY <1>9, <1>12, <1>15, <1>18, <1>19 DEF StreamOK

(***************************************************************************)
(* A process ends, or a connection is reset: every stream keeps its packets.*)
(***************************************************************************)
LEMMA EndProcessOK ==
  ASSUME StreamInv, NEW W \in SUBSET Streams, NEW R \in SUBSET Streams,
         NEW how \in {"closed", "reset"}, EndProcess(W, R, how)
  PROVE  StreamInv'
<1>1. /\ writeEnd' = [d \in Streams |-> IF d \in W THEN how ELSE writeEnd[d]]
      /\ encoded' = [d \in Streams |-> IF d \in W THEN <<>> ELSE encoded[d]]
      /\ wire' = [d \in Streams |-> IF d \in R THEN <<>> ELSE wire[d]]
      /\ reader' = [d \in Streams |-> IF d \in R THEN "gone" ELSE reader[d]]
      /\ UNCHANGED <<incomingBuffer, retval, status, delivered, sent, taken, start, stream>>
  BY DEF EndProcess, historyVars
<1>2. StreamTypeOK'
  <2>1. StreamTypeOK
    BY DEF StreamInv
  <2>2. encoded' \in [Streams -> Seq(Byte)] /\ wire' \in [Streams -> Seq(Byte)]
    BY <1>1, <2>1 DEF StreamTypeOK
  <2>3. /\ writeEnd' \in [Streams -> {"open", "closed", "reset"}]
        /\ reader' \in [Streams -> {"idle", "parsing", "gone"}]
    BY <1>1, <2>1 DEF StreamTypeOK
  <2> QED
    BY <1>1, <2>1, <2>2, <2>3 DEF StreamTypeOK
<1>3. ASSUME NEW d \in Streams PROVE StreamOK(d)'
  <2> DEFINE L == Len(stream[d])
             E == Len(encoded[d])
             V == Len(wire[d])
             U == Len(incomingBuffer[d])
             P == At(d)
             e == encoded'[d]
             v == wire'[d]
  <2>1. L \in Nat /\ E \in Nat /\ V \in Nat /\ U \in Nat /\ P \in Nat
    BY TypesAt
  <2>2. /\ writeEnd'[d] = IF d \in W THEN how ELSE writeEnd[d]
        /\ e = IF d \in W THEN <<>> ELSE encoded[d]
        /\ v = IF d \in R THEN <<>> ELSE wire[d]
        /\ reader'[d] = IF d \in R THEN "gone" ELSE reader[d]
    BY <1>1
  <2>3. FramesOK(d)' /\ At(d)' = P
    BY <1>1, TypesAt, FramesStable DEF At
  <2>4. ReturnedOK(d)' /\ DrainedOK(d)'
    BY <1>1, <2>2, TypesAt, ReturnedStable, DrainedStable
  <2>5. /\ P + U + V + E <= L
        /\ writeEnd[d] = "open" /\ reader[d] # "gone" => P + U + V + E = L
        /\ Holds(stream[d], P, incomingBuffer[d])
        /\ Holds(stream[d], P + U, wire[d])
        /\ Holds(stream[d], L - E, encoded[d])
        /\ taken[d] <= Len(sent[d])
    BY TypesAt DEF BytesOK, Held
  <2>6. /\ P + U + 0 <= L /\ L - 0 + 0 <= L
        /\ P + U + V + 0 <= L /\ P + U + 0 + E <= L /\ P + U + 0 + 0 <= L
    <3> HIDE DEF L, E, V, U, P
    <3> QED
      BY <2>1, <2>5
  <2>7. Holds(stream[d], P + U, v) /\ Holds(stream[d], L - Len(e), e)
    <3>1. Len(<<>>) = 0 /\ 1 .. 0 = {}
      OBVIOUS
    <3>2. Holds(stream[d], P + U, <<>>) /\ Holds(stream[d], L - 0, <<>>)
      BY <2>6, <3>1 DEF Holds
    <3> QED
      BY <2>2, <2>5, <3>1, <3>2
  <2>8. Held(d)' = P + U + Len(v) + Len(e)
    BY <1>1, <2>3 DEF Held
  <2>9. Held(d)' <= L
    <3>1. Len(v) \in {V, 0} /\ Len(e) \in {E, 0}
      BY <2>2
    <3> HIDE DEF L, E, V, U, P, e, v
    <3> QED
      BY <2>5, <2>6, <2>8, <3>1
  <2>10. writeEnd'[d] = "open" /\ reader'[d] # "gone" => Held(d)' = L
    <3>1. SUFFICES ASSUME writeEnd'[d] = "open", reader'[d] # "gone" PROVE Held(d)' = L
      OBVIOUS
    <3>2. d \notin W /\ d \notin R
      BY <2>2, <3>1
    <3> QED
      BY <2>2, <2>5, <2>8, <3>1, <3>2
  <2>11. BytesOK(d)'
    BY <1>1, <2>3, <2>5, <2>7, <2>9, <2>10 DEF BytesOK
  <2> QED
    BY <2>3, <2>4, <2>11 DEF StreamOK
<1> QED
  BY <1>2, <1>3 DEF StreamInv

LEMMA ResetByOK ==
  ASSUME StreamInv, NEW d \in Streams, NEW back \in Streams, ResetBy(d, back)
  PROVE  StreamTypeOK' /\ StreamOK(back)'
<1>1. /\ writeEnd' = [writeEnd EXCEPT ![back] = "reset"]
      /\ UNCHANGED <<encoded, wire, incomingBuffer, retval, reader, status, delivered,
                     sent, taken, start, stream>>
  BY DEF ResetBy, readerVars, historyVars
<1>2. StreamTypeOK'
  BY <1>1, TypesAt DEF StreamTypeOK
<1>3. writeEnd'[back] = "reset"
  BY <1>1, TypesAt DEF StreamTypeOK
<1>4. FramesOK(back)' /\ At(back)' = At(back)
  BY <1>1, TypesAt, FramesStable DEF At
<1>6. BytesOK(back)'
  BY <1>1, <1>3, <1>4, TypesAt, BytesStable
<1>7. ReturnedOK(back)' /\ DrainedOK(back)'
  BY <1>1, TypesAt, ReturnedStable, DrainedStable
<1> QED
  BY <1>2, <1>4, <1>6, <1>7 DEF StreamOK

(***************************************************************************)
(* The streams other than the one a step is about.                          *)
(***************************************************************************)
LEMMA OneStream ==
  ASSUME StreamInv, NEW d \in Streams, StreamTypeOK', StreamOK(d)',
         \/ \E p \in Packets : Encode(d, p)
         \/ \E k \in 1 .. Len(encoded[d]) : Transfer(d, k)
         \/ \E k \in 1 .. InBufferLen[d] : ReadBytes(d, k)
         \/ ReadClosed(d) \/ ReadError(d)
         \/ ParseComplete(d) \/ ReturnPackets(d) \/ ReturnInvalid(d)
         \/ \E b \in Streams : ResetBy(b, d)
  PROVE  StreamInv'
<1> SUFFICES ASSUME NEW e \in Streams, e # d PROVE StreamOK(e)'
  BY DEF StreamInv
<1>1. StreamTypeOK /\ StreamOK(e)
  BY DEF StreamInv
<1> DEFINE Same == /\ encoded'[e] = encoded[e] /\ wire'[e] = wire[e]
                   /\ incomingBuffer'[e] = incomingBuffer[e] /\ retval'[e] = retval[e]
                   /\ reader'[e] = reader[e] /\ status'[e] = status[e]
                   /\ delivered'[e] = delivered[e] /\ writeEnd'[e] = writeEnd[e]
                   /\ sent'[e] = sent[e] /\ taken'[e] = taken[e]
                   /\ start'[e] = start[e] /\ stream'[e] = stream[e]
<1>2. ASSUME NEW p \in Packets, Encode(d, p) PROVE Same
  BY <1>1, <1>2 DEF Encode, StreamTypeOK, kernelVars, readerVars
<1>3. ASSUME NEW k \in 1 .. Len(encoded[d]), Transfer(d, k) PROVE Same
  BY <1>1, <1>3 DEF Transfer, StreamTypeOK, readerVars, historyVars
<1>4. ASSUME NEW k \in 1 .. InBufferLen[d], ReadBytes(d, k) PROVE Same
  BY <1>1, <1>4 DEF ReadBytes, StreamTypeOK, historyVars
<1>5. ASSUME ReadClosed(d) \/ ReadError(d) PROVE Same
  BY <1>1, <1>5, SMTT(30) DEF ReadClosed, ReadError, StreamTypeOK, kernelVars, historyVars
<1>6. ASSUME ParseComplete(d) PROVE Same
  BY <1>1, <1>6 DEF ParseComplete, StreamTypeOK, kernelVars
<1>7. ASSUME ReturnPackets(d) \/ ReturnInvalid(d) PROVE Same
  <2>1. CASE ReturnPackets(d)
    BY <1>1, <2>1 DEF ReturnPackets, StreamTypeOK, kernelVars, historyVars
  <2>2. CASE ReturnInvalid(d)
    BY <1>1, <2>2 DEF ReturnInvalid, StreamTypeOK, kernelVars, historyVars
  <2> QED
    BY <1>7, <2>1, <2>2
<1>8. ASSUME NEW b \in Streams, ResetBy(b, d) PROVE Same
  BY <1>1, <1>8 DEF ResetBy, StreamTypeOK, readerVars, historyVars
<1>9. Same
  BY <1>2, <1>3, <1>4, <1>5, <1>6, <1>7, <1>8
<1> QED
  BY <1>1, <1>9, OtherStream

----------------------------------------------------------------------------
(***************************************************************************)
(* The invariant holds at first and every step keeps it.                    *)
(***************************************************************************)
LEMMA StreamInitOK == StreamInit => StreamInv
<1> SUFFICES ASSUME StreamInit PROVE StreamInv
  OBVIOUS
<1>1. StreamTypeOK
  BY DEF StreamInit, StreamTypeOK, ReadReturnStatus
<1>2. ASSUME NEW d \in Streams PROVE StreamOK(d)
  <2>1. /\ encoded[d] = <<>> /\ wire[d] = <<>> /\ incomingBuffer[d] = <<>>
        /\ retval[d] = <<>> /\ delivered[d] = <<>> /\ sent[d] = <<>>
        /\ taken[d] = 0 /\ start[d] = <<>> /\ stream[d] = <<>>
        /\ status[d] = "ok_packets"
    BY DEF StreamInit
  <2>2. EndOf(d, 0) = 0 /\ At(d) = 0
    BY <2>1 DEF EndOf, At
  <2>3. FramesOK(d)
    BY <2>1, <2>2 DEF FramesOK
  <2>4. BytesOK(d)
    BY <2>1, <2>2 DEF BytesOK, Held, Holds
  <2>5. ReturnedOK(d) /\ DrainedOK(d)
    BY <2>1 DEF ReturnedOK, DrainedOK
  <2> QED
    BY <2>3, <2>4, <2>5 DEF StreamOK
<1> QED
  BY <1>1, <1>2 DEF StreamInv

LEMMA StreamStepOK == StreamInv /\ [StreamNext]_streamVars => StreamInv'
<1> SUFFICES ASSUME StreamInv, [StreamNext]_streamVars PROVE StreamInv'
  OBVIOUS
<1>1. CASE UNCHANGED streamVars
  <2>1. UNCHANGED <<encoded, wire, writeEnd, incomingBuffer, retval, reader, status,
                    delivered, sent, taken, start, stream>>
    BY <1>1 DEF streamVars, kernelVars, readerVars, historyVars
  <2>2. StreamTypeOK'
    BY <2>1 DEF StreamInv, StreamTypeOK
  <2>3. ASSUME NEW d \in Streams PROVE StreamOK(d)'
    BY <2>1, OtherStream DEF StreamInv
  <2> QED
    BY <2>2, <2>3 DEF StreamInv
<1>2. ASSUME NEW d \in Streams, NEW p \in Packets, Encode(d, p) PROVE StreamInv'
  BY <1>2, EncodeOK, OneStream
<1>3. ASSUME NEW d \in Streams, NEW k \in 1 .. Len(encoded[d]), Transfer(d, k)
      PROVE  StreamInv'
  BY <1>3, TransferOK, OneStream
<1>4. ASSUME NEW d \in Streams, NEW k \in 1 .. InBufferLen[d], ReadBytes(d, k)
      PROVE  StreamInv'
  BY <1>4, ReadBytesOK, OneStream
<1>5. ASSUME NEW d \in Streams, ReadClosed(d) PROVE StreamInv'
  BY <1>5, ReadClosedOK, OneStream
<1>6. ASSUME NEW d \in Streams, ReadError(d) PROVE StreamInv'
  BY <1>6, ReadErrorOK, OneStream
<1>7. ASSUME NEW d \in Streams, ParseComplete(d) PROVE StreamInv'
  BY <1>7, ParseCompleteOK, OneStream
<1>8. ASSUME NEW d \in Streams, ReturnPackets(d) PROVE StreamInv'
  BY <1>8, ReturnPacketsOK, OneStream
<1>9. ASSUME NEW d \in Streams, ReturnInvalid(d) PROVE StreamInv'
  BY <1>9, ReturnInvalidOK, OneStream
<1>10. ASSUME NEW d \in Streams, NEW back \in Streams, ResetBy(d, back) PROVE StreamInv'
  BY <1>10, ResetByOK, OneStream
<1>11. ASSUME NEW W \in SUBSET Streams, NEW R \in SUBSET Streams,
              NEW how \in {"closed", "reset"}, EndProcess(W, R, how)
       PROVE  StreamInv'
  BY <1>11, EndProcessOK
<1> QED
  BY <1>1, <1>2, <1>3, <1>4, <1>5, <1>6, <1>7, <1>8, <1>9, <1>10, <1>11 DEF StreamNext

----------------------------------------------------------------------------
(***************************************************************************)
(* What the invariant says of the properties that TLC checks.               *)
(***************************************************************************)
LEMMA SentIsDelivered ==
  ASSUME NEW d \in Streams, StreamInv, Held(d) = Len(stream[d]), encoded[d] = <<>>,
         wire[d] = <<>>, reader[d] = "idle",
         \A i \in 1 .. Len(sent[d]) : sent[d][i].hdr # invalid
  PROVE  delivered[d] = sent[d] /\ incomingBuffer[d] = <<>>
<1> DEFINE U == Len(incomingBuffer[d])
           L == Len(stream[d])
           n == taken[d]
           N == Len(sent[d])
           D == Len(delivered[d])
<1>1. U \in Nat /\ L \in Nat /\ n \in Nat /\ N \in Nat /\ D \in Nat /\ At(d) \in Nat
  BY TypesAt
<1>2. n <= N /\ At(d) + U = L
  <2>1. Len(wire[d]) = 0 /\ Len(encoded[d]) = 0
    OBVIOUS
  <2>2. n <= N /\ At(d) + U + 0 + 0 = L
    BY <2>1, TypesAt DEF BytesOK, Held
  <2> QED
    BY <1>1, <2>2
<1>3. ~ Blocked(d)
  <2>1. SUFFICES ASSUME Blocked(d) PROVE FALSE
    OBVIOUS
  <2>2. n < N /\ sent[d][n + 1].hdr = invalid
    BY <2>1 DEF Blocked
  <2>3. n + 1 \in 1 .. N
    BY <1>1, <2>2
  <2> QED
    BY <2>2, <2>3
<1>4. n = N
  <2> SUFFICES ASSUME n < N PROVE FALSE
    BY <1>1, <1>2
  <2> DEFINE p == sent[d][n + 1]
             P == Len(encode(p))
  <2>1. n + 1 \in 1 .. N /\ p \in Packets /\ p.hdr # invalid
    BY <1>1, TypesAt
  <2>2. P \in Nat /\ P >= WordSize
    BY <2>1, EncodeType
  <2>3. At(d) + P <= L
    <3>1. At(d) = start[d][n + 1]
      BY DEF At, EndOf
    <3>2. Holds(stream[d], start[d][n + 1], encode(p))
      BY <2>1, TypesAt DEF FramesOK
    <3> QED
      BY <3>1, <3>2 DEF Holds
  <2>4. U >= P /\ U > 0
    <3> HIDE DEF U, P, L
    <3> QED
      BY <1>1, <1>2, <2>2, <2>3 DEF WordSize
  <2>5. incomingBuffer[d] # <<>>
    BY <2>4
  <2>6. parse_packet(incomingBuffer[d]) = Complete(p, P)
    BY <2>1, <2>4, <2>5, FrontOfBuffer, TypesAt
  <2> QED
    BY <2>5, <2>6, TypesAt DEF DrainedOK, Complete
<1>5. incomingBuffer[d] = <<>>
  <2>1. At(d) = L
    BY <1>4 DEF At, EndOf
  <2>2. U = 0
    <3> HIDE DEF U, L
    <3> QED
      BY <1>1, <1>2, <2>1
  <2> QED
    BY <2>2, TypesAt
<1>6. D = N /\ \A i \in 1 .. D : delivered[d][i] = sent[d][i]
  <2>1. /\ retval[d] = <<>> /\ \A i \in 1 .. D : delivered[d][i] = sent[d][i]
        /\ D + Len(retval[d]) = n
    BY <1>3, TypesAt DEF ReturnedOK
  <2>2. D + 0 = n
    BY <2>1
  <2> HIDE DEF D, n, N
  <2> QED
    BY <1>1, <1>4, <2>1, <2>2
<1> QED
  BY <1>5, <1>6, TypesAt, SeqEqual

(***************************************************************************)
(* A step of the streams is a step of the packet queues, or none.           *)
(***************************************************************************)
LEMMA DeliverStep ==
  ASSUME NEW d \in Streams, StreamInv, ReturnPackets(d), StreamInv'
  PROVE  [Queue!Next]_Queue!vars
<1> DEFINE D == Len(delivered[d])
           R == Len(retval[d])
           all == delivered[d] \o retval[d]
<1>1. delivered' = [delivered EXCEPT ![d] = all] /\ sent' = sent /\ delivered'[d] = all
  BY TypesAt DEF ReturnPackets, historyVars, StreamTypeOK
<1>2. /\ D \in Nat /\ R \in Nat /\ D + R <= Len(sent[d]) /\ Len(sent[d]) \in Nat
  <2>1. D \in Nat /\ R \in Nat /\ taken[d] \in Nat /\ Len(sent[d]) \in Nat
        /\ D + R <= taken[d] /\ taken[d] <= Len(sent[d])
    BY TypesAt DEF ReturnedOK, BytesOK
  <2> HIDE DEF D, R
  <2> QED
    BY <2>1
<1>3. all \in Seq(Packets) /\ Len(all) = D + R
  BY TypesAt, Concatenation
<1>4. \A i \in 1 .. D + R : all[i] = sent[d][i]
  <2>1. ReturnedOK(d)'
    BY DEF StreamInv, StreamOK
  <2>2. \A i \in 1 .. Len(delivered'[d]) : delivered'[d][i] = sent'[d][i]
    BY <2>1 DEF ReturnedOK
  <2> QED
    BY <1>1, <1>3, <2>2
<1>5. all = SubSeq(sent[d], 1, D + R)
  <2> DEFINE K == D + R
             front == SubSeq(sent[d], 1, K)
  <2>1. K \in 0 .. Len(sent[d])
    <3> HIDE DEF D, R
    <3> QED
      BY <1>2
  <2> HIDE DEF K
  <2>2. front \in Seq(Packets) /\ Len(front) = K /\ \A i \in 1 .. K : front[i] = sent[d][i]
    BY <2>1, TypesAt, Cut
  <2>3. all \in Seq(Packets) /\ Len(all) = K /\ \A i \in 1 .. K : all[i] = sent[d][i]
    BY <1>3, <1>4 DEF K
  <2>4. all = front
    <3> HIDE DEF all, front
    <3> QED
      BY <2>2, <2>3, SeqEqual
  <2> QED
    BY <2>4 DEF K
<1>6. CASE R = 0
  <2>1. retval[d] = <<>>
    BY <1>6, TypesAt
  <2>2. delivered[d] \o <<>> = delivered[d]
    BY TypesAt, ConcatEmptySeq
  <2>3. delivered' = delivered
    BY <1>1, <2>1, <2>2, TypesAt DEF StreamTypeOK
  <2> QED
    BY <1>1, <2>3 DEF Queue!vars
<1>7. CASE R # 0
  <2>1. R \in 1 .. Len(sent[d])
    <3> HIDE DEF D, R
    <3> QED
      BY <1>2, <1>7
  <2>2. Queue!Deliver(d, R)
    BY <1>1, <1>2, <1>5 DEF Queue!Deliver
  <2>3. Queue!Next
    BY <2>1, <2>2 DEF Queue!Next
  <2> QED
    BY <2>3
<1> QED
  BY <1>6, <1>7

LEMMA QueueStep ==
  ASSUME StreamInv, [StreamNext]_streamVars, StreamInv'
  PROVE  [Queue!Next]_Queue!vars
<1>1. CASE UNCHANGED <<sent, delivered>>
  BY <1>1 DEF Queue!vars
<1>2. ASSUME NEW d \in Streams, NEW p \in Packets, Encode(d, p) PROVE Queue!Next
  <2>1. Queue!Send(d, p)
    BY <1>2 DEF Encode, readerVars, Queue!Send
  <2> QED
    BY <2>1 DEF Queue!Next
<1>3. ASSUME NEW d \in Streams, ReturnPackets(d) PROVE [Queue!Next]_Queue!vars
  BY <1>3, DeliverStep
<1>4. ASSUME ~ UNCHANGED <<sent, delivered>>
      PROVE  \E d \in Streams : ReturnPackets(d) \/ \E p \in Packets : Encode(d, p)
  BY <1>4 DEF StreamNext, streamVars, kernelVars, readerVars, historyVars, Transfer,
     ReadBytes, ReadClosed, ReadError, ParseComplete, ReturnInvalid, EndProcess, ResetBy
<1> QED
  BY <1>1, <1>2, <1>3, <1>4

----------------------------------------------------------------------------
(***************************************************************************)
(* The bytes of every stream are where they belong: the reader's            *)
(* incomingBuffer starts where a packet does, followed by the kernel's bytes *)
(* and the writer's.                                                        *)
(***************************************************************************)
THEOREM StreamInvariant == StreamSpec => []StreamInv
  BY StreamInitOK, StreamStepOK, PTL DEF StreamSpec

(***************************************************************************)
(* Type correctness: get_packets gives out nothing but packets that a       *)
(* writer may send.                                                         *)
(***************************************************************************)
THEOREM StreamTypes == StreamSpec => []StreamTypeOK
<1>1. StreamInv => StreamTypeOK
  BY DEF StreamInv
<1> QED
  BY <1>1, StreamInvariant, PTL

(***************************************************************************)
(* Framing: whatever the pieces in which the bytes are written and read, the *)
(* packets get_packets returns are the first ones sent, in order, each once. *)
(***************************************************************************)
THEOREM Framing == StreamSpec => []DeliveredInOrder
<1>1. StreamInv => DeliveredInOrder
  <2> SUFFICES ASSUME StreamInv, NEW d \in Streams
               PROVE  /\ Len(delivered[d]) <= Len(sent[d])
                      /\ \A i \in 1 .. Len(delivered[d]) : delivered[d][i] = sent[d][i]
    BY DEF DeliveredInOrder
  <2> DEFINE D == Len(delivered[d])
             R == Len(retval[d])
             N == Len(sent[d])
  <2>1. /\ D \in Nat /\ R \in Nat /\ N \in Nat /\ taken[d] \in Nat
        /\ D + R <= taken[d] /\ taken[d] <= N
    BY TypesAt DEF ReturnedOK, BytesOK
  <2>2. D <= N
    <3> HIDE DEF D, R, N
    <3> QED
      BY <2>1
  <2> QED
    BY <2>2, TypesAt DEF ReturnedOK
<1> QED
  BY <1>1, StreamInvariant, PTL

(***************************************************************************)
(* get_packets refuses, and drops, only at a packet of an unknown type.     *)
(***************************************************************************)
THEOREM Rejection == StreamSpec => []RejectsOnlyInvalid
<1>1. StreamInv => RejectsOnlyInvalid
  BY TypesAt DEF RejectsOnlyInvalid, ReturnedOK, Blocked
<1> QED
  BY <1>1, StreamInvariant, PTL

(***************************************************************************)
(* When all the bytes were read, all the packets were returned.             *)
(***************************************************************************)
THEOREM Drained == StreamSpec => []NothingLeftBehind
<1>1. StreamInv => NothingLeftBehind
  BY SentIsDelivered, TypesAt DEF NothingLeftBehind, BytesOK
<1> QED
  BY <1>1, StreamInvariant, PTL

(***************************************************************************)
(* The byte streams with get_packets implement queues of packets.           *)
(***************************************************************************)
THEOREM ImplementsQueue == StreamSpec => QueueSpec
<1>1. StreamInit => Queue!Init
  BY DEF StreamInit, Queue!Init
<1>2. StreamInv /\ StreamInv' /\ [StreamNext]_streamVars => [Queue!Next]_Queue!vars
  BY QueueStep
<1> QED
  BY <1>1, <1>2, StreamInvariant, PTL DEF StreamSpec, QueueSpec, Queue!Spec
=============================================================================
