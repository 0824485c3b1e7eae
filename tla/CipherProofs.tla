---------------------------- MODULE CipherProofs ----------------------------
(***************************************************************************)
(* Decrypt undoes Encrypt, whatever the data, the random key and the       *)
(* master key are.                                                         *)
(***************************************************************************)
EXTENDS Cipher, SequenceTheorems, WellFoundedInduction, TLAPS

\* A function on 1..n is a sequence of that length.
LEMMA FunctionSeq ==
  ASSUME NEW S, NEW n \in Nat, NEW f \in [1..n -> S]
  PROVE  f \in Seq(S) /\ Len(f) = n /\ DOMAIN f = 1..n
  <1>1. f \in Seq(S)
    BY SeqDef
  <1>2. Len(f) \in Nat /\ DOMAIN f = 1..Len(f)
    BY <1>1, LenProperties
  <1> QED BY <1>1, <1>2

\* One sequence after another.
Joined(S, s, t) ==
  /\ s \o t \in Seq(S) /\ Len(s \o t) = Len(s) + Len(t)
  /\ Len(s) \in Nat /\ Len(t) \in Nat
  /\ \A i \in 1..Len(s) : (s \o t)[i] = s[i]
  /\ \A i \in 1..Len(t) : (s \o t)[Len(s) + i] = t[i]

\* What it is made of.
LEMMA Joins == \A S : \A s, t \in Seq(S) : Joined(S, s, t)
<1> TAKE S
<1> TAKE s, t \in Seq(S)
<1>1. Len(s) \in Nat /\ Len(t) \in Nat
  BY LenProperties
<1>2. /\ s \o t \in Seq(S) /\ Len(s \o t) = Len(s) + Len(t)
      /\ \A i \in 1..Len(s) + Len(t) :
           (s \o t)[i] = IF i <= Len(s) THEN s[i] ELSE t[i - Len(s)]
  BY ConcatProperties
<1>3. \A i \in 1..Len(s) : i \in 1..Len(s) + Len(t) /\ i <= Len(s)
  BY <1>1
<1>4. \A i \in 1..Len(t) : /\ Len(s) + i \in 1..Len(s) + Len(t) /\ ~(Len(s) + i <= Len(s))
                           /\ (Len(s) + i) - Len(s) = i
  BY <1>1
<1> QED BY <1>1, <1>2, <1>3, <1>4 DEF Joined

\* How far a byte is shifted.
LEMMA ShiftRange ==
  ASSUME NEW key \in Seq(Byte), Len(key) > 0, NEW i \in Nat \ {0}
  PROVE  Shift(key, i) \in 0..510
<1> DEFINE k == key[((i - 1) % Len(key)) + 1]
           p == (i - 1) % 256
<1>1. Len(key) \in Nat
  BY LenProperties
<1>2. ((i - 1) % Len(key)) + 1 \in 1..Len(key)
  BY <1>1
<1>3. k \in 0..255
  BY <1>2, ElementOfSeq DEF Byte
<1>4. p \in 0..255
  OBVIOUS
<1>5. Shift(key, i) = k + p
  BY Zenon DEF Shift
<1> HIDE DEF k, p
<1>6. k + p \in 0..510
  BY <1>3, <1>4
<1> QED BY <1>5, <1>6

\* ShiftDecrypt undoes ShiftEncrypt under the same key.
THEOREM ShiftInverse ==
  ASSUME NEW data \in Seq(Byte), NEW key \in Seq(Byte), Len(key) > 0
  PROVE  /\ ShiftEncrypt(data, key) \in Seq(Byte)
         /\ Len(ShiftEncrypt(data, key)) = Len(data)
         /\ ShiftDecrypt(ShiftEncrypt(data, key), key) = data
<1> DEFINE n == Len(data)
           e == ShiftEncrypt(data, key)
           d == ShiftDecrypt(e, key)
<1>1. n \in Nat /\ data \in [1..n -> Byte]
  BY LenProperties
<1>2. ASSUME NEW i \in 1..n
      PROVE  data[i] \in 0..255 /\ Shift(key, i) \in 0..510
  <2>1. i \in Nat \ {0} /\ data[i] \in 0..255
    BY <1>1 DEF Byte
  <2> QED BY <2>1, ShiftRange
<1>3. e \in [1..n -> Byte]
  <2> SUFFICES ASSUME NEW i \in 1..n PROVE (data[i] + Shift(key, i)) % 256 \in Byte
    BY DEF ShiftEncrypt
  <2> DEFINE x == data[i]
             s == Shift(key, i)
  <2>1. x \in 0..255 /\ s \in 0..510
    BY <1>2
  <2> HIDE DEF x, s
  <2>2. (x + s) % 256 \in 0..255
    BY <2>1
  <2> QED BY <2>2, Zenon DEF Byte, x, s
<1>4. e \in Seq(Byte) /\ Len(e) = n
  BY <1>1, <1>3, FunctionSeq
<1>5. ASSUME NEW i \in 1..n
      PROVE  d[i] = data[i]
  <2> DEFINE x == data[i]
             s == Shift(key, i)
  <2>1. x \in 0..255 /\ s \in 0..510
    BY <1>2
  <2>2. e[i] = (x + s) % 256
    BY Zenon DEF ShiftEncrypt
  <2>3. d[i] = (e[i] - s + 512) % 256
    BY <1>4 DEF ShiftDecrypt
  <2> HIDE DEF x, s, d, e
  <2>4. (((x + s) % 256) - s + 512) % 256 = x
    BY <2>1
  <2>5. d[i] = x
    BY <2>2, <2>3, <2>4
  <2> QED BY <2>5 DEF x
<1>6. d = [i \in 1..n |-> d[i]]
  BY <1>4 DEF ShiftDecrypt
<1> QED BY <1>1, <1>4, <1>5, <1>6

-----------------------------------------------------------------------------
(* Base64, place by place.                                                 *)

LEMMA OctetType ==
  ASSUME NEW data \in Seq(Byte), NEW j \in Nat \ {0}
  PROVE  Octet(data, j) \in Byte
<1>1. CASE j <= Len(data)
  BY <1>1, ElementOfSeq, LenProperties DEF Octet
<1>2. CASE ~(j <= Len(data))
  BY <1>2 DEF Octet, Byte
<1> QED BY <1>1, <1>2

\* How many characters the bytes take.
LEMMA Places ==
  ASSUME NEW n \in Nat
  PROVE  /\ Carrying(n) \in Nat /\ Groups(n) \in Nat
         /\ Carrying(n) <= 4 * Groups(n)
         /\ n % 3 # 0 => Carrying(n) < 4 * Groups(n)
         /\ (3 * Carrying(n)) \div 4 = n
  BY DEF Carrying, Groups

\* Of a group of four characters only those are written that carry something.
LEMMA CharPlaces ==
  ASSUME NEW n \in Nat, NEW g \in Nat
  PROVE  /\ 3 * g + 1 <= n => 4 * g + 2 <= Carrying(n)
         /\ 3 * g + 2 <= n => 4 * g + 3 <= Carrying(n)
         /\ 3 * g + 3 <= n => 4 * g + 4 <= Carrying(n)
  BY DEF Carrying

\* The four characters of a group of three bytes.
LEMMA GroupOfFour ==
  ASSUME NEW data, NEW g \in Nat
  PROVE  LET a == Octet(data, 3 * g + 1)
             b == Octet(data, 3 * g + 2)
             c == Octet(data, 3 * g + 3)
         IN /\ EncodedChar(data, 4 * g + 1) = a \div 4
            /\ EncodedChar(data, 4 * g + 2) = (a % 4) * 16 + b \div 16
            /\ EncodedChar(data, 4 * g + 3) = (b % 16) * 4 + c \div 64
            /\ EncodedChar(data, 4 * g + 4) = c % 64
<1>1. /\ ((4 * g + 1) - 1) \div 4 = g /\ ((4 * g + 1) - 1) % 4 = 0
      /\ ((4 * g + 2) - 1) \div 4 = g /\ ((4 * g + 2) - 1) % 4 = 1
      /\ ((4 * g + 3) - 1) \div 4 = g /\ ((4 * g + 3) - 1) % 4 = 2
      /\ ((4 * g + 4) - 1) \div 4 = g /\ ((4 * g + 4) - 1) % 4 = 3
  OBVIOUS
<1> QED BY <1>1 DEF EncodedChar

\* Three bytes come back out of their four characters.
LEMMA Sextets ==
  ASSUME NEW a \in Byte, NEW b \in Byte, NEW c \in Byte
  PROVE  LET p == a \div 4
             q == (a % 4) * 16 + b \div 16
             r == (b % 16) * 4 + c \div 64
             s == c % 64
         IN /\ p \in Sextet /\ q \in Sextet /\ r \in Sextet /\ s \in Sextet
            /\ (4 * p + ((q \div 16) % 4)) % 256 = a
            /\ (q % 16) * 16 + ((r \div 4) % 16) = b
            /\ ((r % 4) * 64 + s) % 256 = c
<1> DEFINE q == (a % 4) * 16 + b \div 16
           r == (b % 16) * 4 + c \div 64
<1>1. a \in 0..255 /\ b \in 0..255 /\ c \in 0..255
  BY DEF Byte
<1>2. a \div 4 \in 0..63 /\ q \in 0..63 /\ r \in 0..63 /\ c % 64 \in 0..63
  BY <1>1
<1>3. (q \div 16) % 4 = a % 4 /\ q % 16 = b \div 16
  BY <1>1
<1>4. (r \div 4) % 16 = b % 16 /\ r % 4 = c \div 64
  BY <1>1
<1>5. (4 * (a \div 4) + (a % 4)) % 256 = a
  BY <1>1
<1>6. (b \div 16) * 16 + (b % 16) = b
  BY <1>1
<1>7. ((c \div 64) * 64 + (c % 64)) % 256 = c
  BY <1>1
<1> HIDE DEF q, r
<1>8. /\ (4 * (a \div 4) + ((q \div 16) % 4)) % 256 = a
      /\ (q % 16) * 16 + ((r \div 4) % 16) = b
      /\ ((r % 4) * 64 + (c % 64)) % 256 = c
  BY <1>3, <1>4, <1>5, <1>6, <1>7, Zenon
<1> QED BY <1>2, <1>8 DEF Sextet, q, r

-----------------------------------------------------------------------------
\* What Unpadded keeps: the characters up to the first '='.
LEMMA UnpaddedIs ==
  ASSUME NEW S, NEW text \in Seq(S), NEW k \in 0..Len(text),
         \A i \in 1..k : text[i] # Pad,
         k < Len(text) => text[k + 1] = Pad
  PROVE  Unpadded(text) = SubSeq(text, 1, k)
<1> DEFINE P(n) == /\ \A i \in 1..n : text[i] # Pad
                   /\ n < Len(text) => text[n + 1] = Pad
<1>1. Len(text) \in Nat
  BY LenProperties
<1>2. ASSUME NEW n \in 0..Len(text), P(n)
      PROVE  n = k
  <2>1. CASE n < k
    BY <2>1, <1>1, <1>2
  <2>2. CASE n > k
    BY <2>2, <1>1, <1>2
  <2> QED BY <2>1, <2>2, <1>1
<1>3. P(k)
  OBVIOUS
<1> HIDE DEF P
<1>4. (CHOOSE n \in 0..Len(text) : P(n)) = k
  BY <1>2, <1>3
<1> QED BY <1>4 DEF Unpadded, P

\* Every character is written, and the rest is padding.
LEMMA EncodeShape ==
  ASSUME NEW data \in Seq(Byte)
  PROVE  LET e == Base64Encode(data)
             n == Len(data)
         IN /\ e \in Seq(Sextet \cup {Pad}) /\ Len(e) = 4 * Groups(n)
            /\ \A i \in 1..Carrying(n) : e[i] = EncodedChar(data, i) /\ e[i] \in Sextet
            /\ \A i \in Carrying(n) + 1..Len(e) : e[i] = Pad
<1> DEFINE e == Base64Encode(data)
           n == Len(data)
<1>1. /\ n \in Nat /\ Carrying(n) \in Nat /\ Groups(n) \in Nat
      /\ Carrying(n) <= 4 * Groups(n)
  BY LenProperties, Places
<1>2. ASSUME NEW i \in 1..4 * Groups(n)
      PROVE  EncodedChar(data, i) \in Sextet
  <2>1. PICK g \in Nat : i \in {4 * g + 1, 4 * g + 2, 4 * g + 3, 4 * g + 4}
    <3>1. /\ (i - 1) \div 4 \in Nat
          /\ i \in {4 * ((i - 1) \div 4) + 1, 4 * ((i - 1) \div 4) + 2,
                    4 * ((i - 1) \div 4) + 3, 4 * ((i - 1) \div 4) + 4}
      BY <1>1
    <3> QED BY <3>1
  <2>2. /\ Octet(data, 3 * g + 1) \in Byte
        /\ Octet(data, 3 * g + 2) \in Byte
        /\ Octet(data, 3 * g + 3) \in Byte
    <3>1. 3 * g + 1 \in Nat \ {0} /\ 3 * g + 2 \in Nat \ {0} /\ 3 * g + 3 \in Nat \ {0}
      OBVIOUS
    <3> QED BY <3>1, OctetType
  <2>3. /\ EncodedChar(data, 4 * g + 1) \in Sextet
        /\ EncodedChar(data, 4 * g + 2) \in Sextet
        /\ EncodedChar(data, 4 * g + 3) \in Sextet
        /\ EncodedChar(data, 4 * g + 4) \in Sextet
    <3> DEFINE a == Octet(data, 3 * g + 1)
               b == Octet(data, 3 * g + 2)
               c == Octet(data, 3 * g + 3)
    <3>1. /\ EncodedChar(data, 4 * g + 1) = a \div 4
          /\ EncodedChar(data, 4 * g + 2) = (a % 4) * 16 + b \div 16
          /\ EncodedChar(data, 4 * g + 3) = (b % 16) * 4 + c \div 64
          /\ EncodedChar(data, 4 * g + 4) = c % 64
      BY GroupOfFour
    <3>2. a \in Byte /\ b \in Byte /\ c \in Byte
      BY <2>2
    <3> HIDE DEF a, b, c
    <3>3. /\ a \div 4 \in Sextet
          /\ (a % 4) * 16 + b \div 16 \in Sextet
          /\ (b % 16) * 4 + c \div 64 \in Sextet
          /\ c % 64 \in Sextet
      BY <3>2, Sextets
    <3> QED BY <3>1, <3>3
  <2> QED BY <2>1, <2>3, Zenon
<1>3. e \in [1..4 * Groups(n) -> Sextet \cup {Pad}]
  BY <1>2 DEF Base64Encode
<1>4. 4 * Groups(n) \in Nat
  BY <1>1
<1>5. e \in Seq(Sextet \cup {Pad}) /\ Len(e) = 4 * Groups(n)
  BY <1>3, <1>4, FunctionSeq
<1>6. ASSUME NEW i \in 1..Carrying(n)
      PROVE  e[i] = EncodedChar(data, i) /\ e[i] \in Sextet
  <2>1. i \in 1..4 * Groups(n) /\ i <= Carrying(n)
    BY <1>1
  <2> QED BY <2>1, <1>2 DEF Base64Encode
<1>7. ASSUME NEW i \in Carrying(n) + 1..Len(e)
      PROVE  e[i] = Pad
  <2>1. i \in 1..4 * Groups(n) /\ ~(i <= Carrying(n))
    BY <1>1, <1>5
  <2> QED BY <2>1 DEF Base64Encode
<1> QED BY <1>5, <1>6, <1>7

-----------------------------------------------------------------------------
(* A text, and what of it is bytes.                                         *)

\* Some character is the first '=', or none is.
LEMMA FirstPad ==
  ASSUME NEW S, NEW text \in Seq(S)
  PROVE  \E k \in 0..Len(text) : /\ \A i \in 1..k : text[i] # Pad
                                 /\ k < Len(text) => text[k + 1] = Pad
<1> DEFINE P == {i \in 1..Len(text) : text[i] = Pad}
<1>1. Len(text) \in Nat
  BY LenProperties
<1>2. CASE P = {}
  <2>1. \A i \in 1..Len(text) : text[i] # Pad
    BY <1>2
  <2> QED BY <1>1, <2>1
<1>3. CASE P # {}
  <2>1. P \subseteq Nat
    BY <1>1
  <2>2. PICK p \in P : \A i \in P : ~(<<i, p>> \in OpToRel(<, Nat))
    <3> HIDE DEF P
    <3> QED BY <1>3, <2>1, NatLessThanWellFounded, WFMin, Zenon
  <2>3. \A i \in P : ~(i < p)
    BY <2>1, <2>2 DEF OpToRel
  <2>4. p \in 1..Len(text) /\ text[p] = Pad
    OBVIOUS
  <2>5. \A i \in 1..p - 1 : text[i] # Pad
    BY <1>1, <2>3, <2>4
  <2>6. p - 1 \in 0..Len(text) /\ (p - 1) + 1 = p
    BY <1>1, <2>4
  <2> QED BY <2>4, <2>5, <2>6
<1> QED BY <1>2, <1>3

\* So what Unpadded keeps is characters of the alphabet, and Base64Decode makes
\* bytes of them, whatever the text.
LEMMA DecodeShape ==
  ASSUME NEW text \in Seq(Sextet \cup {Pad})
  PROVE  LET u == Unpadded(text)
         IN /\ u \in Seq(Sextet) /\ Len(u) \in 0..Len(text)
            /\ \A i \in 1..Len(u) : u[i] = text[i] /\ text[i] # Pad
            /\ Len(u) < Len(text) => text[Len(u) + 1] = Pad
            /\ Base64Decode(text) = [j \in 1..(3 * Len(u)) \div 4 |-> DecodedByte(u, j)]
            /\ Base64Decode(text) \in Seq(Byte)
            /\ Len(Base64Decode(text)) = (3 * Len(u)) \div 4
<1> DEFINE u == Unpadded(text)
<1>1. Len(text) \in Nat /\ \A i \in 1..Len(text) : text[i] \in Sextet \cup {Pad}
  BY LenProperties, ElementOfSeq
<1>2. PICK k \in 0..Len(text) : /\ \A i \in 1..k : text[i] # Pad
                                /\ k < Len(text) => text[k + 1] = Pad
  BY FirstPad
<1>3. u = SubSeq(text, 1, k)
  BY <1>2, UnpaddedIs
<1>4. Len(u) = k /\ \A i \in 1..k : u[i] = text[i]
  BY <1>1, <1>2, <1>3
<1>5. u \in Seq(Sextet)
  <2>1. u = [i \in 1..k |-> text[i]]
    BY <1>1, <1>2, <1>3
  <2>2. \A i \in 1..k : text[i] \in Sextet
    BY <1>1, <1>2
  <2> QED BY <2>1, <2>2, FunctionSeq
<1> HIDE DEF u
<1>6. \A i \in Nat \ {0} : Index(u, i) \in 0..255
  <2>1. \A i \in 1..k : u[i] \in 0..63
    <3>1. Len(u) = k
      BY <1>4
    <3> QED BY <1>5, <3>1, ElementOfSeq DEF Sextet
  <2>2. \A i \in Nat \ {0} : i <= Len(u) => i \in 1..k
    BY <1>2, <1>4
  <2> QED BY <2>1, <2>2 DEF Index, Unknown
<1>7. \A j \in Nat \ {0} : DecodedByte(u, j) \in Byte
  <2> TAKE j \in Nat \ {0}
  <2> DEFINE g == (j - 1) \div 3
             a == Index(u, 4 * g + 1)
             b == Index(u, 4 * g + 2)
             c == Index(u, 4 * g + 3)
             d == Index(u, 4 * g + 4)
  <2>1. g \in Nat /\ (j - 1) % 3 \in {0, 1, 2}
    OBVIOUS
  <2> HIDE DEF g
  <2>2. /\ 4 * g + 1 \in Nat \ {0} /\ 4 * g + 2 \in Nat \ {0}
        /\ 4 * g + 3 \in Nat \ {0} /\ 4 * g + 4 \in Nat \ {0}
    BY <2>1
  <2>3. a \in 0..255 /\ b \in 0..255 /\ c \in 0..255 /\ d \in 0..255
    BY <1>6, <2>2
  <2> DEFINE x == 4 * a + ((b \div 16) % 4)
             y == (c % 4) * 64 + d
             v == b % 16
             w == (c \div 4) % 16
  <2>4. x \in Nat /\ y \in Nat /\ v \in 0..15 /\ w \in 0..15
    <3> HIDE DEF a, b, c, d
    <3> QED BY <2>3
  <2>5. /\ (j - 1) % 3 = 0 => DecodedByte(u, j) = x % 256
        /\ (j - 1) % 3 = 1 => DecodedByte(u, j) = v * 16 + w
        /\ (j - 1) % 3 = 2 => DecodedByte(u, j) = y % 256
    BY SMTT(20) DEF DecodedByte, g
  <2> HIDE DEF x, y, v, w
  <2>6. \A i \in Nat : i % 256 \in Byte
    BY DEF Byte
  <2>7. \A i1, i2 \in 0..15 : i1 * 16 + i2 \in Byte
    BY DEF Byte
  <2>8. x % 256 \in Byte /\ v * 16 + w \in Byte /\ y % 256 \in Byte
    BY <2>4, <2>6, <2>7, Zenon
  <2>9. (j - 1) % 3 = 0 \/ (j - 1) % 3 = 1 \/ (j - 1) % 3 = 2
    BY <2>1
  <2> QED BY <2>5, <2>8, <2>9, ZenonT(20)
<1>8. (3 * k) \div 4 \in Nat
  BY <1>2
<1>9. Base64Decode(text) = [j \in 1..(3 * Len(u)) \div 4 |-> DecodedByte(u, j)]
  BY DEF Base64Decode, u
<1>10. Base64Decode(text) \in [1..(3 * k) \div 4 -> Byte]
  BY <1>4, <1>7, <1>8, <1>9
<1>11. Base64Decode(text) \in Seq(Byte) /\ Len(Base64Decode(text)) = (3 * k) \div 4
  BY <1>8, <1>10, FunctionSeq
<1>12. \A i \in 1..Len(u) : u[i] = text[i] /\ text[i] # Pad
  BY <1>2, <1>4
<1>13. Len(u) < Len(text) => text[Len(u) + 1] = Pad
  BY <1>2, <1>4
<1>14. Len(u) \in 0..Len(text)
  BY <1>2, <1>4
<1> QED BY <1>4, <1>5, <1>9, <1>11, <1>12, <1>13, <1>14 DEF u

\* The first m characters of a text determine this much of what it decodes to.
LEMMA MorePlaces ==
  ASSUME NEW m \in Nat, NEW g \in Nat
  PROVE  /\ 3 * g + 1 <= (3 * m) \div 4 => 4 * g + 2 <= m
         /\ 3 * g + 2 <= (3 * m) \div 4 => 4 * g + 3 <= m
         /\ 3 * g + 3 <= (3 * m) \div 4 => 4 * g + 4 <= m
OBVIOUS

\* A byte comes back when the characters that carry it are there.
LEMMA ByteBack ==
  ASSUME NEW data \in Seq(Byte), NEW u, Len(u) \in Nat, NEW m \in Nat, m <= Len(u),
         \A i \in 1..m : u[i] = EncodedChar(data, i),
         NEW j \in 1..Len(data),
         j <= (3 * m) \div 4 \/ m = Carrying(Len(data))
  PROVE  DecodedByte(u, j) = data[j]
<1> DEFINE n == Len(data)
           g == (j - 1) \div 3
           a == Octet(data, 3 * g + 1)
           b == Octet(data, 3 * g + 2)
           c == Octet(data, 3 * g + 3)
<1>1. n \in Nat
  BY LenProperties
<1>2. g \in Nat /\ j \in {3 * g + 1, 3 * g + 2, 3 * g + 3}
  BY <1>1
<1> HIDE DEF g
<1>3. a \in Byte /\ b \in Byte /\ c \in Byte
  <2>1. 3 * g + 1 \in Nat \ {0} /\ 3 * g + 2 \in Nat \ {0} /\ 3 * g + 3 \in Nat \ {0}
    BY <1>2
  <2> QED BY <2>1, OctetType
<1>4. /\ EncodedChar(data, 4 * g + 1) = a \div 4
      /\ EncodedChar(data, 4 * g + 2) = (a % 4) * 16 + b \div 16
      /\ EncodedChar(data, 4 * g + 3) = (b % 16) * 4 + c \div 64
      /\ EncodedChar(data, 4 * g + 4) = c % 64
  BY <1>2, GroupOfFour
<1>5. \A i \in 1..m : Index(u, i) = EncodedChar(data, i)
  BY DEF Index
<1>6. /\ j = 3 * g + 1 => data[j] = a
      /\ j = 3 * g + 2 => data[j] = b
      /\ j = 3 * g + 3 => data[j] = c
  BY <1>1 DEF Octet
<1>7. /\ j = 3 * g + 1 => 4 * g + 2 <= m
      /\ j = 3 * g + 2 => 4 * g + 3 <= m
      /\ j = 3 * g + 3 => 4 * g + 4 <= m
  BY <1>1, <1>2, MorePlaces, CharPlaces
<1> HIDE DEF a, b, c
<1>8. /\ (4 * (a \div 4) + ((((a % 4) * 16 + b \div 16) \div 16) % 4)) % 256 = a
      /\ (((a % 4) * 16 + b \div 16) % 16) * 16 + ((((b % 16) * 4 + c \div 64) \div 4) % 16) = b
      /\ ((((b % 16) * 4 + c \div 64) % 4) * 64 + (c % 64)) % 256 = c
  BY <1>3, Sextets
<1>9. CASE j = 3 * g + 1
  <2>1. 4 * g + 1 \in 1..m /\ 4 * g + 2 \in 1..m
    BY <1>2, <1>7, <1>9
  <2>2. (j - 1) \div 3 = g /\ (j - 1) % 3 = 0
    BY <1>2, <1>9
  <2>3. DecodedByte(u, j) = (4 * Index(u, 4 * g + 1) + ((Index(u, 4 * g + 2) \div 16) % 4)) % 256
    BY <2>2, SMTT(20) DEF DecodedByte
  <2>4. Index(u, 4 * g + 1) = a \div 4 /\ Index(u, 4 * g + 2) = (a % 4) * 16 + b \div 16
    BY <1>4, <1>5, <2>1, Zenon
  <2> QED BY <1>6, <1>8, <1>9, <2>3, <2>4, ZenonT(90)
<1>10. CASE j = 3 * g + 2
  <2>1. 4 * g + 2 \in 1..m /\ 4 * g + 3 \in 1..m
    BY <1>2, <1>7, <1>10
  <2>2. (j - 1) \div 3 = g /\ (j - 1) % 3 = 1
    BY <1>2, <1>10
  <2>3. DecodedByte(u, j) = (Index(u, 4 * g + 2) % 16) * 16 + ((Index(u, 4 * g + 3) \div 4) % 16)
    BY <2>2, SMTT(20) DEF DecodedByte
  <2>4. /\ Index(u, 4 * g + 2) = (a % 4) * 16 + b \div 16
        /\ Index(u, 4 * g + 3) = (b % 16) * 4 + c \div 64
    BY <1>4, <1>5, <2>1, Zenon
  <2> QED BY <1>6, <1>8, <1>10, <2>3, <2>4, ZenonT(90)
<1>11. CASE j = 3 * g + 3
  <2>1. 4 * g + 3 \in 1..m /\ 4 * g + 4 \in 1..m
    BY <1>2, <1>7, <1>11
  <2>2. (j - 1) \div 3 = g /\ (j - 1) % 3 = 2
    BY <1>2, <1>11
  <2>3. DecodedByte(u, j) = ((Index(u, 4 * g + 3) % 4) * 64 + Index(u, 4 * g + 4)) % 256
    BY <2>2, SMTT(20) DEF DecodedByte
  <2>4. Index(u, 4 * g + 3) = (b % 16) * 4 + c \div 64 /\ Index(u, 4 * g + 4) = c % 64
    BY <1>4, <1>5, <2>1, Zenon
  <2> QED BY <1>6, <1>8, <1>11, <2>3, <2>4, ZenonT(90)
<1> QED BY <1>2, <1>9, <1>10, <1>11

\* So a text decodes to the bytes that its characters carry, as far as they are
\* those of the data.
LEMMA DecodesTo ==
  ASSUME NEW data \in Seq(Byte), NEW text \in Seq(Sextet \cup {Pad}),
         \A i \in 1..Len(Unpadded(text)) :
           i <= Carrying(Len(data)) => text[i] = EncodedChar(data, i)
  PROVE  LET b == Base64Decode(text)
         IN \A j \in 1..Len(data) : j <= Len(b) => b[j] = data[j]
<1> DEFINE u == Unpadded(text)
           b == Base64Decode(text)
           c == Carrying(Len(data))
           m == IF Len(u) < c THEN Len(u) ELSE c
<1>1. Len(data) \in Nat /\ c \in Nat
  BY LenProperties, Places
<1>2. /\ Len(u) \in Nat /\ \A i \in 1..Len(u) : u[i] = text[i]
      /\ b = [j \in 1..(3 * Len(u)) \div 4 |-> DecodedByte(u, j)]
      /\ Len(b) = (3 * Len(u)) \div 4
  <2>1. Len(text) \in Nat
    BY LenProperties
  <2> QED BY <2>1, DecodeShape
<1> HIDE DEF u, b, c
<1>3. m \in Nat /\ m <= Len(u) /\ m <= c /\ (m = Len(u) \/ m = c)
  BY <1>1, <1>2
<1>4. \A i \in 1..m : u[i] = EncodedChar(data, i)
  <2> TAKE i \in 1..m
  <2>1. i \in 1..Len(u) /\ i <= c
    BY <1>1, <1>2, <1>3
  <2> QED BY <1>2, <2>1 DEF u, c
<1> HIDE DEF m
<1>5. ASSUME NEW j \in 1..Len(data), j <= Len(b)
      PROVE  b[j] = data[j]
  <2>1. j \in 1..(3 * Len(u)) \div 4
    BY <1>1, <1>2, <1>5
  <2>2. j <= (3 * m) \div 4 \/ m = Carrying(Len(data))
    BY <1>3, <2>1 DEF c
  <2>3. DecodedByte(u, j) = data[j]
    BY <1>2, <1>3, <1>4, <2>2, ByteBack
  <2> QED BY <1>2, <2>1, <2>3
<1> QED BY <1>5 DEF b

-----------------------------------------------------------------------------
\* What was encoded comes back, byte for byte; and, when the text ends in '=',
\* whatever follows it is not seen.  This is why the second of two messages that
\* arrive together is lost (Framing).
THEOREM Base64Inverse ==
  ASSUME NEW data \in Seq(Byte), NEW rest \in Seq(Sextet \cup {Pad}),
         rest = <<>> \/ Len(data) % 3 # 0
  PROVE  Base64Decode(Base64Encode(data) \o rest) = data
<1> DEFINE n == Len(data)
           m == Carrying(n)
           e == Base64Encode(data)
           text == e \o rest
           u == Unpadded(text)
<1>1. /\ n \in Nat /\ m \in Nat /\ Groups(n) \in Nat /\ m <= 4 * Groups(n)
      /\ (n % 3 # 0 => m < 4 * Groups(n)) /\ (3 * m) \div 4 = n
  BY LenProperties, Places
<1>2. /\ e \in Seq(Sextet \cup {Pad}) /\ Len(e) = 4 * Groups(n)
      /\ \A i \in 1..m : e[i] = EncodedChar(data, i) /\ e[i] \in Sextet
      /\ \A i \in m + 1..Len(e) : e[i] = Pad
  BY EncodeShape
<1> HIDE DEF e, m
<1>3. /\ text \in Seq(Sextet \cup {Pad}) /\ Len(text) = Len(e) + Len(rest)
      /\ \A i \in 1..Len(e) : text[i] = e[i]
  <2>1. e \in Seq(Sextet \cup {Pad}) /\ Len(e) \in Nat /\ Len(rest) \in Nat
    BY <1>2, LenProperties
  <2> QED BY <2>1, ConcatProperties
<1>4. Len(rest) \in Nat /\ Len(e) \in Nat /\ Len(text) \in Nat
  BY <1>2, <1>3, LenProperties
<1>5. \A i \in 1..m : text[i] = EncodedChar(data, i) /\ text[i] \in Sextet
  <2> SUFFICES ASSUME NEW i \in 1..m
               PROVE  text[i] = EncodedChar(data, i) /\ text[i] \in Sextet
    OBVIOUS
  <2>1. i \in 1..Len(e)
    BY <1>1, <1>2
  <2> QED BY <2>1, <1>2, <1>3
<1>6. m < Len(text) => text[m + 1] = Pad
  <2> SUFFICES ASSUME m < Len(text)
               PROVE  text[m + 1] = Pad
    OBVIOUS
  <2>1. m < Len(e)
    <3>1. CASE rest = <<>>
      BY <3>1, <1>1, <1>3, <1>4
    <3>2. CASE n % 3 # 0
      BY <3>2, <1>1, <1>2
    <3> QED BY <3>1, <3>2
  <2>2. m + 1 \in m + 1..Len(e) /\ m + 1 \in 1..Len(e)
    BY <2>1, <1>1, <1>4
  <2> QED BY <2>2, <1>2, <1>3
<1> HIDE DEF text
<1>7. u = SubSeq(text, 1, m)
  <2>1. m \in 0..Len(text)
    BY <1>1, <1>2, <1>3, <1>4
  <2>2. \A i \in 1..m : text[i] # Pad
    <3>1. \A x \in Sextet : x # Pad
      BY DEF Sextet, Pad
    <3> QED BY <3>1, <1>5
  <2> QED BY <2>1, <2>2, <1>3, <1>6, UnpaddedIs
<1>8. Len(u) = m /\ \A i \in 1..m : u[i] = text[i]
  BY <1>7, <1>1, <1>2, <1>3, <1>4
<1> HIDE DEF u
<1>9. ASSUME NEW j \in 1..n
      PROVE  DecodedByte(u, j) = data[j]
  <2>1. \A i \in 1..m : u[i] = EncodedChar(data, i)
    BY <1>5, <1>8
  <2>2. Len(u) \in Nat /\ m <= Len(u) /\ m = Carrying(Len(data))
    BY <1>1, <1>8 DEF m
  <2> QED BY <1>1, <2>1, <2>2, ByteBack
<1>10. Base64Decode(text) = [j \in 1..n |-> DecodedByte(u, j)]
  BY <1>1, <1>8 DEF Base64Decode, u
<1>11. data = [j \in 1..n |-> data[j]]
  BY LenProperties
<1>12. Base64Decode(text) = data
  BY <1>9, <1>10, <1>11
<1> QED BY <1>12 DEF text, e

-----------------------------------------------------------------------------
\* Whoever has the master key reads what was sent, under every random key; and
\* what follows the '=' makes no difference.
THEOREM DecryptInverse ==
  ASSUME NEW data \in Seq(Byte), Len(data) > 0,
         NEW random_key \in Seq(Byte), Len(random_key) = kKEY_SIZE,
         NEW rest \in Seq(Sextet \cup {Pad}),
         rest = <<>> \/ (kKEY_SIZE + Len(data)) % 3 # 0
  PROVE  Decrypt(Encrypt(data, random_key) \o rest) = data
<1> DEFINE k == ShiftEncrypt(random_key, master_key)
           d == ShiftEncrypt(data, random_key)
           combined == k \o d
           text == Encrypt(data, random_key) \o rest
<1>1. kKEY_SIZE \in Nat \ {0} /\ master_key \in Seq(Byte) /\ Len(master_key) > 0
  BY KeySizeAssumption, MasterKeyAssumption
<1>2. /\ k \in Seq(Byte) /\ Len(k) = kKEY_SIZE
      /\ ShiftDecrypt(k, master_key) = random_key
  BY <1>1, ShiftInverse
<1>3. /\ d \in Seq(Byte) /\ Len(d) = Len(data)
      /\ ShiftDecrypt(d, random_key) = data
  <2>1. Len(random_key) > 0
    BY <1>1
  <2> QED BY <2>1, ShiftInverse
<1> HIDE DEF k, d
<1>4. Len(data) \in Nat
  BY LenProperties
<1>5. combined \in Seq(Byte) /\ Len(combined) = kKEY_SIZE + Len(data)
  <2>1. combined \in Seq(Byte) /\ Len(combined) = Len(k) + Len(d)
    BY <1>2, <1>3, ConcatProperties
  <2> QED BY <2>1, <1>2, <1>3
<1>6. Base64Decode(text) = combined
  <2>1. text = Base64Encode(combined) \o rest
    BY DEF Encrypt, k, d
  <2>2. rest = <<>> \/ Len(combined) % 3 # 0
    BY <1>5
  <2> QED BY <2>1, <2>2, <1>5, Base64Inverse, Zenon
<1>7. SubSeq(combined, 1, kKEY_SIZE) = k
  BY <1>1, <1>2, <1>3, <1>4
<1>8. SubSeq(combined, kKEY_SIZE + 1, Len(combined)) = d
  BY <1>1, <1>2, <1>3, <1>4, <1>5
<1> HIDE DEF combined, text
<1>9. ~(Len(combined) <= kKEY_SIZE)
  BY <1>1, <1>4, <1>5
<1>10. Decrypt(text) = data
  BY <1>2, <1>3, <1>6, <1>7, <1>8, <1>9, Zenon DEF Decrypt
<1> QED BY <1>10 DEF text

\* Whatever follows a text or is missing of it, Decrypt makes the bytes that the
\* characters in front of the first '=' carry: those of the data as far as the
\* characters are those of the text.
LEMMA DecryptAgrees ==
  ASSUME NEW data \in Seq(Byte),
         NEW random_key \in Seq(Byte), Len(random_key) = kKEY_SIZE,
         NEW text \in Seq(Sextet \cup {Pad}),
         \A i \in 1..Len(Unpadded(text)) :
           i <= Carrying(kKEY_SIZE + Len(data)) => text[i] = Encrypt(data, random_key)[i]
  PROVE  LET n == (3 * Len(Unpadded(text))) \div 4
             d == Decrypt(text)
         IN /\ d \in Seq(Byte) /\ Len(d) = IF n <= kKEY_SIZE THEN 0 ELSE n - kKEY_SIZE
            /\ \A i \in 1..Len(data) : i <= Len(d) => d[i] = data[i]
<1> DEFINE k == ShiftEncrypt(random_key, master_key)
           e == ShiftEncrypt(data, random_key)
           combined == k \o e
           b == Base64Decode(text)
           n == (3 * Len(Unpadded(text))) \div 4
           d == Decrypt(text)
<1>1. /\ kKEY_SIZE \in Nat \ {0} /\ master_key \in Seq(Byte) /\ Len(master_key) > 0
      /\ Len(data) \in Nat /\ Len(random_key) > 0
  BY KeySizeAssumption, MasterKeyAssumption, LenProperties
<1>2. /\ k \in Seq(Byte) /\ Len(k) = kKEY_SIZE
      /\ ShiftDecrypt(k, master_key) = random_key
  BY <1>1, ShiftInverse
<1>3. e \in Seq(Byte) /\ Len(e) = Len(data) /\ ShiftDecrypt(e, random_key) = data
  BY <1>1, ShiftInverse
<1> HIDE DEF k, e
<1>4. /\ combined \in Seq(Byte) /\ Len(combined) = kKEY_SIZE + Len(data)
      /\ \A i \in 1..kKEY_SIZE : combined[i] = k[i]
      /\ \A i \in 1..Len(data) : combined[kKEY_SIZE + i] = e[i]
  <2>1. Joined(Byte, k, e)
    BY <1>2, <1>3, Joins, Zenon
  <2> QED BY <1>2, <1>3, <2>1 DEF Joined
<1>5. b \in Seq(Byte) /\ Len(b) = n /\ n \in Nat /\ Len(Unpadded(text)) \in Nat
  <2>1. Len(text) \in Nat
    BY LenProperties
  <2> QED BY <2>1, DecodeShape
<1> HIDE DEF n
<1>6. \A j \in 1..Len(combined) : j <= Len(b) => b[j] = combined[j]
  <2>1. Encrypt(data, random_key) = Base64Encode(combined)
    BY DEF Encrypt, k, e
  <2> HIDE DEF combined
  <2>2. \A i \in 1..Carrying(Len(combined)) :
          Base64Encode(combined)[i] = EncodedChar(combined, i)
    BY <1>4, EncodeShape
  <2>3. \A i \in 1..Len(Unpadded(text)) :
          i <= Carrying(Len(combined)) => text[i] = EncodedChar(combined, i)
    <3> TAKE i \in 1..Len(Unpadded(text))
    <3>1. Carrying(Len(combined)) \in Nat
      BY <1>1, <1>4, Places
    <3>2. i <= Carrying(Len(combined)) => i \in 1..Carrying(Len(combined))
      BY <1>5, <3>1
    <3> QED BY <1>4, <2>1, <2>2, <3>2
  <2> QED BY <1>4, <2>3, DecodesTo
<1> HIDE DEF combined, b
<1>7. CASE n <= kKEY_SIZE
  <2>1. d = <<>>
    BY <1>5, <1>7 DEF Decrypt, b
  <2> QED BY <1>7, <2>1 DEF n
<1>8. CASE ~(n <= kKEY_SIZE)
  <2> DEFINE s == SubSeq(b, kKEY_SIZE + 1, n)
  <2>1. SubSeq(b, 1, kKEY_SIZE) = k
    <3>1. \A i \in 1..kKEY_SIZE : i \in 1..Len(combined) /\ i <= Len(b) /\ b[i] \in Byte
      BY <1>1, <1>4, <1>5, <1>8, ElementOfSeq
    <3>2. \A i \in 1..kKEY_SIZE : b[i] = k[i]
      BY <1>4, <1>6, <3>1
    <3>3. /\ SubSeq(b, 1, kKEY_SIZE) \in Seq(Byte) /\ Len(SubSeq(b, 1, kKEY_SIZE)) = kKEY_SIZE
          /\ \A i \in 1..kKEY_SIZE : SubSeq(b, 1, kKEY_SIZE)[i] = b[i]
      BY <1>1, <3>1
    <3> QED BY <1>2, <3>2, <3>3, SeqEqual
  <2>2. d = ShiftDecrypt(s, random_key)
    BY <1>2, <1>5, <1>8, <2>1 DEF Decrypt, b
  <2>3. /\ s \in Seq(Byte) /\ Len(s) = n - kKEY_SIZE
        /\ \A i \in 1..n - kKEY_SIZE : s[i] = b[kKEY_SIZE + i]
    BY <1>1, <1>5, <1>8
  <2>4. \A i \in 1..Len(data) : i <= n - kKEY_SIZE => i \in 1..n - kKEY_SIZE /\ s[i] = e[i]
    <3> TAKE i \in 1..Len(data)
    <3> HAVE i <= n - kKEY_SIZE
    <3> HIDE DEF s
    <3>1. /\ i \in 1..n - kKEY_SIZE /\ kKEY_SIZE + i \in 1..Len(combined)
          /\ kKEY_SIZE + i <= Len(b)
      BY <1>1, <1>4, <1>5
    <3>2. b[kKEY_SIZE + i] = combined[kKEY_SIZE + i]
      BY <1>6, <3>1
    <3> QED BY <1>4, <2>3, <3>1, <3>2
  <2> HIDE DEF s
  <2> DEFINE l == n - kKEY_SIZE
             f(x, i) == (x - Shift(random_key, i) + 512) % 256
  <2>5. l \in Nat
    BY <1>1, <1>5, <1>8
  <2>6. d = [i \in 1..l |-> f(s[i], i)] /\ \A i \in 1..Len(data) : data[i] = f(e[i], i)
    BY <1>3, <2>2, <2>3 DEF ShiftDecrypt
  <2>7. \A i \in 1..l : f(s[i], i) \in Byte
    <3> TAKE i \in 1..l
    <3> DEFINE x == s[i]
               y == Shift(random_key, i)
    <3>1. y \in 0..510
      <4>1. i \in Nat \ {0}
        BY <2>5
      <4> QED BY <1>1, <4>1, ShiftRange, Zenon
    <3>2. x \in 0..255
      BY <2>3, ElementOfSeq DEF Byte
    <3> HIDE DEF x, y
    <3>3. (x - y + 512) % 256 \in 0..255
      BY <3>1, <3>2
    <3> QED BY <3>3 DEF Byte, x, y
  <2> HIDE DEF f
  <2>8. d \in Seq(Byte) /\ Len(d) = l
    <3>1. d \in [1..l -> Byte]
      BY <2>6, <2>7
    <3> QED BY <2>5, <3>1, FunctionSeq
  <2>9. \A i \in 1..Len(data) : i <= Len(d) => d[i] = data[i]
    BY <2>4, <2>6, <2>8
  <2> QED BY <1>8, <2>8, <2>9 DEF n
<1> QED BY <1>7, <1>8
=============================================================================
