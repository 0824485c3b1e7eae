--------------------------- MODULE MessageProofs ---------------------------
(***************************************************************************)
(* A message comes back from the bytes it became, and a header that        *)
(* exaggerates gets nothing handed on.  Integers are what the code sends,  *)
(* uint32_t: every lemma about them assumes Width = 4.                     *)
(***************************************************************************)
EXTENDS Codec, CipherProofs

-----------------------------------------------------------------------------
(* Words.                                                                  *)

\* The i-th byte of a word, the least significant first.
Digit(n, i) == (n \div 256^(i - 1)) % 256

\* The four of them, without the powers' exponents.
Digits(k) ==
  /\ Digit(k, 1) = k % 256 /\ Digit(k, 2) = (k \div 256) % 256
  /\ Digit(k, 3) = (k \div 256^2) % 256 /\ Digit(k, 4) = (k \div 256^3) % 256

\* That is what they are.
LEMMA DigitsAre ==
  ASSUME NEW k \in Nat
  PROVE  Digits(k)
<1>1. 256^(1 - 1) = 1 /\ 256^(2 - 1) = 256 /\ 256^(3 - 1) = 256^2 /\ 256^(4 - 1) = 256^3
  BY SMT
<1>2. k \div 1 = k
  BY SMT
<1> QED BY <1>1, <1>2 DEF Digit, Digits

\* Four digits make one number below 2^32: what reading a word back rests on.
LEMMA DigitsDiffer ==
  ASSUME NEW m \in 0..256^4 - 1, NEW n \in 0..256^4 - 1, \A i \in 1..4 : Digit(m, i) = Digit(n, i)
  PROVE  m = n
<1>1. m \in Nat /\ n \in Nat
  BY SMT
<1>2. Digit(m, 1) = Digit(n, 1) /\ Digit(m, 2) = Digit(n, 2) /\ Digit(m, 3) = Digit(n, 3)
      /\ Digit(m, 4) = Digit(n, 4)
  BY SMT
<1>3. /\ m % 256 = n % 256 /\ (m \div 256) % 256 = (n \div 256) % 256
      /\ (m \div 256^2) % 256 = (n \div 256^2) % 256
      /\ (m \div 256^3) % 256 = (n \div 256^3) % 256
  <2>1. Digits(m) /\ Digits(n)
    BY <1>1, DigitsAre, Zenon
  <2> QED BY <1>2, <2>1 DEF Digits
<1> QED BY <1>3, SMT

\* A word is four bytes.
LEMMA WordIs ==
  ASSUME Width = 4, NEW n \in Nat
  PROVE  /\ Word(n) \in Seq(Byte) /\ Len(Word(n)) = 4
         /\ \A i \in 1..4 : Word(n)[i] = Digit(n, i)
<1>1. Word(n) = [i \in 1..4 |-> Digit(n, i)]
  BY DEF Word, Digit
<1>2. \A k \in Nat : k % 256 \in Byte
  BY SMT DEF Byte
<1>3. (n \div 256) \in Nat /\ (n \div 256^2) \in Nat /\ (n \div 256^3) \in Nat
  BY SMT
<1>4. Digit(n, 1) \in Byte /\ Digit(n, 2) \in Byte /\ Digit(n, 3) \in Byte /\ Digit(n, 4) \in Byte
  <2>1. Digits(n)
    BY DigitsAre, Zenon
  <2> QED BY <1>2, <1>3, <2>1 DEF Digits
<1>5. \A i \in 1..4 : Digit(n, i) \in Byte
  BY <1>4, SMT
<1>6. Word(n) \in [1..4 -> Byte]
  BY <1>1, <1>5
<1> QED BY <1>1, <1>6, FunctionSeq

\* What is written of a number is its remainder.
LEMMA WordWraps ==
  ASSUME Width = 4, NEW n \in Nat
  PROVE  n % Wrap \in 0..Wrap - 1 /\ Word(n) = Word(n % Wrap)
<1> DEFINE k == n % 256^4
<1>1. k \in 0..256^4 - 1 /\ k \in Nat
  BY SMT
<1>2. /\ n % 256 = k % 256 /\ (n \div 256) % 256 = (k \div 256) % 256
      /\ (n \div 256^2) % 256 = (k \div 256^2) % 256
      /\ (n \div 256^3) % 256 = (k \div 256^3) % 256
  BY SMTT(20)
<1> HIDE DEF k
<1>3. Digits(n) /\ Digits(k)
  BY <1>1, DigitsAre, Zenon
<1>4. /\ Digit(n, 1) = Digit(k, 1) /\ Digit(n, 2) = Digit(k, 2)
      /\ Digit(n, 3) = Digit(k, 3) /\ Digit(n, 4) = Digit(k, 4)
  BY <1>2, <1>3 DEF Digits
<1>5. \A i \in 1..4 : Digit(n, i) = Digit(k, i)
  BY <1>4, SMT
<1>6. Word(n) = Word(k)
  BY <1>5 DEF Word, Digit
<1> QED BY <1>1, <1>6, Zenon DEF Wrap, k

\* Two numbers that are written alike are one.
LEMMA WordsDiffer ==
  ASSUME Width = 4, NEW m \in 0..Wrap - 1, NEW n \in 0..Wrap - 1, Word(m) = Word(n)
  PROVE  m = n
<1>1. m \in 0..256^4 - 1 /\ n \in 0..256^4 - 1
  BY DEF Wrap
<1>2. m \in Nat /\ n \in Nat
  BY <1>1, SMT
<1>3. \A i \in 1..4 : Digit(m, i) = Digit(n, i)
  BY <1>2, WordIs
<1> QED BY <1>1, <1>3, DigitsDiffer

-----------------------------------------------------------------------------
(* Words and fields in a text.                                             *)

\* Two texts put together.
LEMMA Concat == \A s, t \in Seq(Byte) : s \o t \in Seq(Byte) /\ Len(s \o t) = Len(s) + Len(t)
BY ConcatProperties

\* Texts are put together in any order of the steps.
Regrouped(s, t, u) == (s \o t) \o u = s \o (t \o u)

\* They are the same text.
LEMMA Regroup == \A s, t, u \in Seq(Byte) : Regrouped(s, t, u)
BY ConcatAssociative DEF Regrouped

\* What stands between two parts of a text is found at its place.
LEMMA SliceIs ==
  ASSUME NEW a \in Seq(Byte), NEW b \in Seq(Byte), NEW c \in Seq(Byte)
  PROVE  /\ Slice(a \o b \o c, Len(a), Len(b)) = b
         /\ a \o b \o c \in Seq(Byte) /\ Len(a \o b \o c) = Len(a) + Len(b) + Len(c)
<1> DEFINE s == a \o b \o c
<1>1. Len(a) \in Nat /\ Len(b) \in Nat /\ Len(c) \in Nat
  OBVIOUS
<1>2. /\ a \o b \in Seq(Byte) /\ Len(a \o b) = Len(a) + Len(b)
      /\ \A i \in 1..Len(a) + Len(b) : (a \o b)[i] = IF i <= Len(a) THEN a[i] ELSE b[i - Len(a)]
  BY ConcatProperties
<1>3. /\ s \in Seq(Byte) /\ Len(s) = Len(a) + Len(b) + Len(c)
      /\ \A i \in 1..Len(a) + Len(b) + Len(c) :
           s[i] = IF i <= Len(a) + Len(b) THEN (a \o b)[i] ELSE c[i - (Len(a) + Len(b))]
  BY <1>2, ConcatProperties
<1>4. \A i \in 1..Len(b) : s[Len(a) + i] = b[i]
  <2> TAKE i \in 1..Len(b)
  <2>1. /\ Len(a) + i \in 1..Len(a) + Len(b) + Len(c) /\ Len(a) + i <= Len(a) + Len(b)
        /\ Len(a) + i \in 1..Len(a) + Len(b) /\ ~(Len(a) + i <= Len(a))
        /\ (Len(a) + i) - Len(a) = i
    BY <1>1
  <2> QED BY <1>2, <1>3, <2>1
<1> HIDE DEF s
<1> DEFINE p == Len(a) + 1
           q == Len(a) + Len(b)
<1>5. p \in Int /\ q \in Int /\ q - p + 1 = Len(b) /\ (p <= q <=> Len(b) > 0)
  BY <1>1
<1>6. \A i \in p..q : s[i] \in Byte
  <2>1. \A i \in p..q : i \in 1..Len(s)
    BY <1>1, <1>3
  <2> QED BY <1>3, <2>1, ElementOfSeq
<1>7. \A i \in 1..Len(b) : p + i - 1 = Len(a) + i
  BY <1>1
<1> HIDE DEF p, q
<1>8. /\ SubSeq(s, p, q) \in Seq(Byte) /\ Len(SubSeq(s, p, q)) = IF p <= q THEN q - p + 1 ELSE 0
      /\ \A i \in 1..q - p + 1 : SubSeq(s, p, q)[i] = s[p + i - 1]
  BY <1>5, <1>6, SubSeqProperties
<1>9. Len(SubSeq(s, p, q)) = Len(b) /\ \A i \in 1..Len(b) : SubSeq(s, p, q)[i] = b[i]
  BY <1>1, <1>4, <1>5, <1>7, <1>8
<1>10. SubSeq(s, p, q) = b
  BY <1>8, <1>9, SeqEqual
<1> QED BY <1>3, <1>10 DEF Slice, p, q, s

\* A word is read as it was written.
LEMMA WordAtIs ==
  ASSUME Width = 4, NEW a \in Seq(Byte), NEW n \in 0..Wrap - 1, NEW c \in Seq(Byte)
  PROVE  WordAt(a \o Word(n) \o c, Len(a)) = n
<1>1. Wrap \in Nat /\ n \in Nat
  BY SMT DEF Wrap
<1>2. Word(n) \in Seq(Byte) /\ Len(Word(n)) = 4
  BY <1>1, WordIs
<1>3. Slice(a \o Word(n) \o c, Len(a), Width) = Word(n)
  <2>1. Slice(a \o Word(n) \o c, Len(a), Len(Word(n))) = Word(n)
    BY <1>2, SliceIs, Zenon
  <2> QED BY <1>2, <2>1
<1>4. \A m \in 0..Wrap - 1 : Word(m) = Word(n) => m = n
  BY WordsDiffer
<1> QED BY <1>3, <1>4 DEF WordAt

\* So is a field, when something stands before it.
LEMMA FieldIs ==
  ASSUME Width = 4, NEW a \in Seq(Byte), a # <<>>, NEW data \in Seq(Byte), Len(data) < Wrap,
         NEW c \in Seq(Byte)
  PROVE  LET in == a \o Field(data) \o c
         IN /\ FieldEnd(in, Len(a)) = Len(a) + 4 + Len(data)
            /\ FieldData(in, Len(a)) = data
<1> DEFINE in == a \o Field(data) \o c
           w == Word(Len(data))
<1>1. /\ Len(a) \in Nat \ {0} /\ Len(data) \in Nat /\ Len(c) \in Nat
      /\ Wrap \in Nat /\ Len(data) \in 0..Wrap - 1
  <2>1. Wrap \in Nat
    BY SMT DEF Wrap
  <2> QED BY <2>1, EmptySeq
<1>2. w \in Seq(Byte) /\ Len(w) = 4
  BY <1>1, WordIs
<1> HIDE DEF w
<1>3. in = a \o w \o (data \o c)
  <2>0. w \o data \in Seq(Byte) /\ data \o c \in Seq(Byte)
    BY <1>2, Concat, Zenon
  <2>1. Regrouped(a, w \o data, c)
    BY <2>0, Regroup, Zenon
  <2>2. Regrouped(w, data, c)
    BY <1>2, Regroup, Zenon
  <2>3. Regrouped(a, w, data \o c)
    BY <1>2, <2>0, Regroup, Zenon
  <2> QED BY <2>1, <2>2, <2>3 DEF Regrouped, Field, w
<1>4. in = (a \o w) \o data \o c
  <2>1. a \o w \in Seq(Byte)
    BY <1>2, Concat, Zenon
  <2>2. Regrouped(a \o w, data, c)
    BY <2>1, Regroup, Zenon
  <2> QED BY <1>3, <2>2 DEF Regrouped
<1>5. WordAt(in, Len(a)) = Len(data)
  <2>1. data \o c \in Seq(Byte)
    BY Concat
  <2>2. WordAt(a \o Word(Len(data)) \o (data \o c), Len(a)) = Len(data)
    BY <1>1, <2>1, WordAtIs, Zenon
  <2> QED BY <1>3, <2>2 DEF w
<1>6. Len(in) = Len(a) + 4 + Len(data) + Len(c) /\ Slice(in, Len(a) + 4, Len(data)) = data
  <2>1. a \o w \in Seq(Byte) /\ Len(a \o w) = Len(a) + 4
    <3>1. a \o w \in Seq(Byte) /\ Len(a \o w) = Len(a) + Len(w)
      BY <1>2, Concat, Zenon
    <3> QED BY <1>2, <3>1
  <2>2. /\ Slice((a \o w) \o data \o c, Len(a \o w), Len(data)) = data
        /\ Len((a \o w) \o data \o c) = Len(a \o w) + Len(data) + Len(c)
    BY <2>1, SliceIs, Zenon
  <2> QED BY <1>4, <2>1, <2>2
<1> HIDE DEF in
<1>7. FieldEnd(in, Len(a)) = Len(a) + 4 + Len(data)
  BY <1>1, <1>5, <1>6 DEF FieldEnd
<1>8. FieldEnd(in, Len(a)) - Len(a) - Width = Len(data)
  BY <1>1, <1>7
<1> QED BY <1>6, <1>7, <1>8 DEF FieldData, in

\* A field is four bytes longer than its data.
LEMMA FieldLength ==
  ASSUME Width = 4, NEW data \in Seq(Byte)
  PROVE  Field(data) \in Seq(Byte) /\ Len(Field(data)) = 4 + Len(data)
<1>1. Len(data) \in Nat
  OBVIOUS
<1>2. Word(Len(data)) \in Seq(Byte) /\ Len(Word(Len(data))) = 4
  BY <1>1, WordIs, Zenon
<1>3. /\ Word(Len(data)) \o data \in Seq(Byte)
      /\ Len(Word(Len(data)) \o data) = Len(Word(Len(data))) + Len(data)
  BY <1>2, Concat, Zenon
<1> QED BY <1>2, <1>3, Zenon DEF Field

\* The end of a text.
LEMMA NothingMore == \A s \in Seq(Byte) : s \o <<>> = s /\ <<>> \o s = s /\ <<>> \in Seq(Byte)
BY ConcatEmptySeq, EmptySeq

\* What is read of two fields behind a header, and what follows them.
Reads(h, d1, d2, tail) ==
  LET in == h \o (Field(d1) \o Field(d2) \o tail)
      front == h \o Field(d1) \o Field(d2)
      second == FieldEnd(in, Len(h))
  IN /\ FieldData(in, Len(h)) = d1 /\ FieldData(in, second) = d2
     /\ FieldEnd(in, second) = Len(front)
     /\ in = front \o tail /\ front \in Seq(Byte) /\ front # <<>>

\* Two fields, one after the other, are read, and what follows them is found.
LEMMA TwoFields ==
  ASSUME Width = 4, NEW h \in Seq(Byte), h # <<>>,
         NEW d1 \in Seq(Byte), Len(d1) < Wrap, NEW d2 \in Seq(Byte), Len(d2) < Wrap,
         NEW tail \in Seq(Byte)
  PROVE  Reads(h, d1, d2, tail)
<1> DEFINE f1 == Field(d1)
           f2 == Field(d2)
           in == h \o (f1 \o f2 \o tail)
           front == h \o f1 \o f2
<1>1. f1 \in Seq(Byte) /\ Len(f1) = 4 + Len(d1) /\ f2 \in Seq(Byte) /\ Len(f2) = 4 + Len(d2)
  BY FieldLength
<1> HIDE DEF f1, f2
<1>2. /\ h \o f1 \in Seq(Byte) /\ f1 \o f2 \in Seq(Byte) /\ f2 \o tail \in Seq(Byte)
      /\ Len(h \o f1) = Len(h) + Len(f1)
  BY <1>1, Concat, Zenon
<1>3. front \in Seq(Byte) /\ Len(front) = Len(h \o f1) + Len(f2)
  BY <1>1, <1>2, Concat, Zenon
<1>4. in = front \o tail /\ in = h \o f1 \o (f2 \o tail)
  <2>0. f1 \in Seq(Byte) /\ f2 \in Seq(Byte) /\ h \o f1 \in Seq(Byte) /\ f2 \o tail \in Seq(Byte)
    BY <1>1, <1>2
  <2>1. Regrouped(h \o f1, f2, tail) /\ Regrouped(f1, f2, tail) /\ Regrouped(h, f1, f2 \o tail)
    BY <2>0, Regroup, Zenon
  <2> QED BY <2>1 DEF Regrouped
<1>6. Len(h) \in Nat \ {0} /\ Len(d1) \in Nat /\ Len(d2) \in Nat
  BY EmptySeq
<1>7. FieldData(in, Len(h)) = d1 /\ FieldEnd(in, Len(h)) = Len(h) + 4 + Len(d1)
  <2>1. /\ FieldEnd(h \o Field(d1) \o (f2 \o tail), Len(h)) = Len(h) + 4 + Len(d1)
        /\ FieldData(h \o Field(d1) \o (f2 \o tail), Len(h)) = d1
    BY <1>2, FieldIs, Zenon
  <2> QED BY <1>4, <2>1 DEF f1
<1>8. h \o f1 # <<>> /\ front # <<>>
  <2>1. Len(h \o f1) # 0 /\ Len(front) # 0
    BY <1>1, <1>2, <1>3, <1>6
  <2> QED BY <2>1, EmptySeq
<1>9. FieldData(in, Len(h \o f1)) = d2 /\ FieldEnd(in, Len(h \o f1)) = Len(h \o f1) + 4 + Len(d2)
  <2>1. /\ FieldEnd((h \o f1) \o Field(d2) \o tail, Len(h \o f1)) = Len(h \o f1) + 4 + Len(d2)
        /\ FieldData((h \o f1) \o Field(d2) \o tail, Len(h \o f1)) = d2
    BY <1>2, <1>8, FieldIs, Zenon
  <2> QED BY <1>4, <2>1 DEF f2
<1>10. Len(h \o f1) = Len(h) + 4 + Len(d1) /\ Len(front) = Len(h \o f1) + 4 + Len(d2)
  BY <1>1, <1>2, <1>3, <1>6
<1> HIDE DEF in, front
<1>11. /\ FieldData(in, FieldEnd(in, Len(h))) = d2
       /\ FieldEnd(in, FieldEnd(in, Len(h))) = Len(front)
  <2>1. FieldEnd(in, Len(h)) = Len(h \o f1)
    BY <1>7, <1>10
  <2> QED BY <1>9, <1>10, <2>1
<1> QED BY <1>3, <1>4, <1>7, <1>8, <1>11 DEF Reads, in, front, f1, f2

\* The header in front of a body, which may claim more than there is.
LEMMA HeaderIs ==
  ASSUME Width = 4, NEW body \in Seq(Byte), NEW excess \in Nat,
         NEW sequence_id \in 0..Wrap - 1
  PROVE  LET h == Header(body, excess, sequence_id)
             in == h \o body
         IN /\ h \in Seq(Byte) /\ Len(h) = 12 /\ in \in Seq(Byte) /\ Len(in) = 12 + Len(body)
            /\ WordAt(in, 0) = kMagic /\ BodySize(in) = (Len(body) + excess) % Wrap
            /\ WordAt(in, 8) = sequence_id
<1> DEFINE w1 == Word(kMagic)
           w2 == Word(Len(body) + excess)
           w3 == Word(sequence_id)
           h == Header(body, excess, sequence_id)
           in == h \o body
<1>1. Wrap \in Nat /\ Len(body) \in Nat
  BY SMT DEF Wrap
<1>2. /\ kMagic \in 0..Wrap - 1
      /\ kMagic \in Nat /\ Len(body) + excess \in Nat /\ sequence_id \in Nat
  BY <1>1, WordAssumption DEF Wrap
<1>3. /\ w1 \in Seq(Byte) /\ Len(w1) = 4 /\ w2 \in Seq(Byte) /\ Len(w2) = 4
      /\ w3 \in Seq(Byte) /\ Len(w3) = 4
  BY <1>2, WordIs, Zenon
<1> HIDE DEF w1, w2, w3
<1>4. h = w1 \o w2 \o w3
  BY DEF Header, w1, w2, w3
<1> HIDE DEF h
<1>5. w1 \o w2 \in Seq(Byte) /\ Len(w1 \o w2) = Len(w1) + Len(w2)
      /\ w2 \o (w3 \o body) \in Seq(Byte) /\ w3 \o body \in Seq(Byte)
  BY <1>3, Concat, Zenon
<1>6. h \in Seq(Byte) /\ Len(h) = Len(w1 \o w2) + Len(w3)
  BY <1>3, <1>4, <1>5, Concat, Zenon
<1>7. in \in Seq(Byte) /\ Len(in) = Len(h) + Len(body)
  BY <1>6, Concat, Zenon
<1>8. in = (w1 \o w2) \o w3 \o body
  BY <1>4
<1>9. in = w1 \o w2 \o (w3 \o body)
  <2>1. Regrouped(w1 \o w2, w3, body)
    BY <1>3, <1>5, Regroup, Zenon
  <2> QED BY <1>8, <2>1 DEF Regrouped
<1>10. in = <<>> \o w1 \o (w2 \o (w3 \o body))
  <2>0. w1 \in Seq(Byte) /\ w2 \in Seq(Byte) /\ w3 \o body \in Seq(Byte)
    BY <1>3, <1>5
  <2>1. Regrouped(w1, w2, w3 \o body)
    BY <2>0, Regroup, Zenon
  <2>2. <<>> \o w1 = w1
    BY <1>3, NothingMore
  <2> QED BY <1>9, <2>1, <2>2 DEF Regrouped
<1>11. WordAt(in, 0) = kMagic
  <2>1. WordAt(<<>> \o Word(kMagic) \o (w2 \o (w3 \o body)), Len(<<>>)) = kMagic
    BY <1>2, <1>5, NothingMore, WordAtIs
  <2> QED BY <1>10, <2>1 DEF w1
<1>12. WordAt(in, Len(w1)) = (Len(body) + excess) % Wrap
  <2> DEFINE size == (Len(body) + excess) % Wrap
  <2>0. size \in 0..Wrap - 1 /\ w2 = Word(size)
    BY <1>2, WordWraps, Zenon DEF w2
  <2>1. w1 \in Seq(Byte) /\ w3 \o body \in Seq(Byte)
    BY <1>3, <1>5
  <2> HIDE DEF size
  <2>2. WordAt(w1 \o Word(size) \o (w3 \o body), Len(w1)) = size
    BY <2>0, <2>1, WordAtIs, Zenon
  <2> QED BY <1>9, <2>0, <2>2 DEF size
<1>13. WordAt(in, Len(w1 \o w2)) = sequence_id
  <2>1. WordAt((w1 \o w2) \o Word(sequence_id) \o body, Len(w1 \o w2)) = sequence_id
    BY <1>5, WordAtIs, Zenon
  <2> QED BY <1>8, <2>1 DEF w3
<1> QED BY <1>3, <1>5, <1>6, <1>7, <1>11, <1>12, <1>13 DEF BodySize, h

-----------------------------------------------------------------------------
(* Bodies.                                                                 *)

\* Three fields behind a header.
LEMMA RequestFields ==
  ASSUME Width = 4, NEW h \in Seq(Byte), Len(h) = 12,
         NEW d1 \in Seq(Byte), Len(d1) < Wrap, NEW d2 \in Seq(Byte), Len(d2) < Wrap,
         NEW d3 \in Seq(Byte), Len(d3) < Wrap
  PROVE  LET in == h \o (Field(d1) \o Field(d2) \o Field(d3))
             second == FieldEnd(in, 12)
             third == FieldEnd(in, second)
         IN /\ FieldData(in, 12) = d1 /\ FieldData(in, second) = d2 /\ FieldData(in, third) = d3
            /\ FieldEnd(in, third) # 0
<1> DEFINE in == h \o (Field(d1) \o Field(d2) \o Field(d3))
           front == h \o Field(d1) \o Field(d2)
           second == FieldEnd(in, 12)
           third == FieldEnd(in, second)
<1>1. h # <<>>
  <2>1. Len(h) # 0
    OBVIOUS
  <2> QED BY <2>1, EmptySeq
<1>2. Field(d3) \in Seq(Byte)
  BY FieldLength
<1>3. /\ FieldData(in, Len(h)) = d1
      /\ FieldData(in, FieldEnd(in, Len(h))) = d2
      /\ FieldEnd(in, FieldEnd(in, Len(h))) = Len(front)
      /\ in = front \o Field(d3) /\ front \in Seq(Byte) /\ front # <<>>
  <2>1. Reads(h, d1, d2, Field(d3))
    BY <1>1, <1>2, TwoFields, Zenon
  <2> QED BY <2>1 DEF Reads
<1> HIDE DEF in, front
<1>4. in = front \o Field(d3) \o <<>>
  BY <1>2, <1>3, Concat, NothingMore
<1>5. /\ FieldEnd(front \o Field(d3) \o <<>>, Len(front)) = Len(front) + 4 + Len(d3)
      /\ FieldData(front \o Field(d3) \o <<>>, Len(front)) = d3
  BY <1>3, NothingMore, FieldIs, Zenon
<1>6. third = Len(front) /\ second = FieldEnd(in, Len(h))
  BY <1>3
<1>7. Len(front) + 4 + Len(d3) # 0
  BY <1>3
<1> HIDE DEF second, third
<1>8. FieldEnd(in, third) # 0 /\ FieldData(in, third) = d3
  BY <1>4, <1>5, <1>6, <1>7
<1>9. FieldData(in, 12) = d1 /\ FieldData(in, second) = d2
  BY <1>3, <1>6
<1> QED BY <1>8, <1>9 DEF in, second, third

\* What is read of two fields and two words behind a header.
ReadsWords(h, d1, d2, m, n) ==
  LET in == h \o (Field(d1) \o Field(d2) \o Word(m) \o Word(n))
      second == FieldEnd(in, 12)
      third == FieldEnd(in, second)
  IN /\ FieldData(in, 12) = d1 /\ FieldData(in, second) = d2
     /\ WordAt(in, third) = m /\ WordAt(in, third + 4) = n
     /\ third # 0 /\ third + 8 = Len(in)

\* Two fields and two words behind a header are read.
LEMMA ResponseFields ==
  ASSUME Width = 4, NEW h \in Seq(Byte), Len(h) = 12,
         NEW d1 \in Seq(Byte), Len(d1) < Wrap, NEW d2 \in Seq(Byte), Len(d2) < Wrap,
         NEW m \in 0..Wrap - 1, NEW n \in 0..Wrap - 1
  PROVE  ReadsWords(h, d1, d2, m, n)
<1> DEFINE f1 == Field(d1)
           f2 == Field(d2)
           w1 == Word(m)
           w2 == Word(n)
           tail == w1 \o w2
           in == h \o (f1 \o f2 \o w1 \o w2)
           front == h \o f1 \o f2
           second == FieldEnd(in, 12)
           third == FieldEnd(in, second)
<1>1. h # <<>>
  <2>1. Len(h) # 0
    OBVIOUS
  <2> QED BY <2>1, EmptySeq
<1>2. m \in Nat /\ n \in Nat
  BY SMT DEF Wrap
<1>3. w1 \in Seq(Byte) /\ Len(w1) = 4 /\ w2 \in Seq(Byte) /\ Len(w2) = 4
  BY <1>2, WordIs, Zenon
<1>4. f1 \in Seq(Byte) /\ f2 \in Seq(Byte)
  BY FieldLength, Zenon
<1>5. f1 \o f2 \in Seq(Byte) /\ tail \in Seq(Byte)
  BY <1>3, <1>4, Concat
<1>6. (f1 \o f2) \o w1 \o w2 = (f1 \o f2) \o tail
  <2> HIDE DEF f1, f2, w1, w2
  <2>1. w1 \in Seq(Byte) /\ w2 \in Seq(Byte) /\ f1 \o f2 \in Seq(Byte)
    BY <1>3, <1>5
  <2>2. Regrouped(f1 \o f2, w1, w2)
    BY <2>1, Regroup, Zenon
  <2> QED BY <2>2 DEF Regrouped
<1>7. /\ FieldData(h \o (f1 \o f2 \o tail), Len(h)) = d1
      /\ FieldData(h \o (f1 \o f2 \o tail), FieldEnd(h \o (f1 \o f2 \o tail), Len(h))) = d2
      /\ FieldEnd(h \o (f1 \o f2 \o tail), FieldEnd(h \o (f1 \o f2 \o tail), Len(h))) = Len(front)
      /\ h \o (f1 \o f2 \o tail) = front \o tail /\ front \in Seq(Byte) /\ front # <<>>
  <2>1. Reads(h, d1, d2, tail)
    <3> HIDE DEF tail
    <3> QED BY <1>1, <1>5, TwoFields, Zenon
  <2> QED BY <2>1 DEF Reads
<1>8. in = h \o (f1 \o f2 \o tail)
  BY <1>6
<1> HIDE DEF f1, f2, in, front, tail
<1>9. in = front \o tail
  BY <1>7, <1>8
<1>10. third = Len(front) /\ FieldData(in, 12) = d1 /\ FieldData(in, second) = d2
  BY <1>7, <1>8
<1>11. Len(front) \in Nat \ {0}
  BY <1>7, EmptySeq
<1>12. in = front \o w1 \o w2
  <2> HIDE DEF w1, w2
  <2>1. w1 \in Seq(Byte) /\ w2 \in Seq(Byte) /\ front \in Seq(Byte)
    BY <1>3, <1>7
  <2>2. Regrouped(front, w1, w2)
    BY <2>1, Regroup, Zenon
  <2> QED BY <1>9, <2>2 DEF Regrouped, tail
<1>13. front \o w1 \in Seq(Byte) /\ Len(front \o w1) = Len(front) + 4
  <2>1. front \o w1 \in Seq(Byte) /\ Len(front \o w1) = Len(front) + Len(w1)
    BY <1>3, <1>7, Concat, Zenon
  <2> QED BY <1>3, <2>1
<1>14. in = (front \o w1) \o w2 \o <<>>
  <2>1. in \in Seq(Byte)
    BY <1>3, <1>12, <1>13, Concat
  <2> QED BY <1>12, <2>1, NothingMore
<1>15. WordAt(in, Len(front)) = m
  <2>1. WordAt(front \o Word(m) \o w2, Len(front)) = m
    BY <1>3, <1>7, WordAtIs, Zenon
  <2> QED BY <1>12, <2>1
<1>16. WordAt(in, Len(front) + 4) = n
  <2>1. WordAt((front \o w1) \o Word(n) \o <<>>, Len(front \o w1)) = n
    BY <1>13, NothingMore, WordAtIs, Zenon
  <2> QED BY <1>13, <1>14, <2>1
<1>17. Len(in) = Len(front) + 8
  <2>1. Len(in) = Len(front \o w1) + Len(w2)
    BY <1>3, <1>12, <1>13, Concat
  <2> QED BY <1>3, <1>11, <1>13, <2>1
<1> HIDE DEF second, third
<1> QED BY <1>10, <1>11, <1>15, <1>16, <1>17 DEF ReadsWords, in, f1, f2, second, third

-----------------------------------------------------------------------------
(* Messages.                                                               *)

\* The body of a message is a text, and none of its fields is longer.
LEMMA RequestBodyIs ==
  ASSUME Width = 4, NEW m \in Request
  PROVE  /\ RequestBody(m) \in Seq(Byte)
         /\ Len(RequestBody(m)) < Wrap =>
              /\ Len(m.service_name) < Wrap /\ Len(m.method_name) < Wrap /\ Len(m.payload) < Wrap
<1> DEFINE f1 == Field(m.service_name)
           f2 == Field(m.method_name)
           f3 == Field(m.payload)
<1>1. m.service_name \in Seq(Byte) /\ m.method_name \in Seq(Byte) /\ m.payload \in Seq(Byte)
  BY ContentAssumption
<1>2. /\ f1 \in Seq(Byte) /\ Len(f1) = 4 + Len(m.service_name)
      /\ f2 \in Seq(Byte) /\ Len(f2) = 4 + Len(m.method_name)
      /\ f3 \in Seq(Byte) /\ Len(f3) = 4 + Len(m.payload)
  BY <1>1, FieldLength
<1>3. RequestBody(m) = (f1 \o f2) \o f3
  BY DEF RequestBody
<1> HIDE DEF f1, f2, f3
<1>4. f1 \o f2 \in Seq(Byte) /\ Len(f1 \o f2) = Len(f1) + Len(f2)
  BY <1>2, Concat, Zenon
<1>5. RequestBody(m) \in Seq(Byte) /\ Len(RequestBody(m)) = Len(f1 \o f2) + Len(f3)
  <2>1. f1 \o f2 \in Seq(Byte) /\ f3 \in Seq(Byte)
    BY <1>2, <1>4
  <2>2. (f1 \o f2) \o f3 \in Seq(Byte) /\ Len((f1 \o f2) \o f3) = Len(f1 \o f2) + Len(f3)
    BY <2>1, Concat, Zenon
  <2> QED BY <1>3, <2>2
<1>6. Len(m.service_name) \in Nat /\ Len(m.method_name) \in Nat /\ Len(m.payload) \in Nat
  BY <1>1
<1>7. Wrap \in Nat
  BY SMT DEF Wrap
<1> DEFINE n1 == Len(m.service_name)
           n2 == Len(m.method_name)
           n3 == Len(m.payload)
           n == Len(RequestBody(m))
<1>8. n1 \in Nat /\ n2 \in Nat /\ n3 \in Nat /\ n = ((4 + n1) + (4 + n2)) + (4 + n3)
  <2>1. n = (Len(f1) + Len(f2)) + Len(f3)
    BY <1>4, <1>5
  <2> QED BY <1>2, <1>6, <2>1
<1>9. n < Wrap => n1 < Wrap /\ n2 < Wrap /\ n3 < Wrap
  <2> HIDE DEF n1, n2, n3, n
  <2> QED BY <1>7, <1>8
<1> QED BY <1>5, <1>9

\* The same of a response.
LEMMA ResponseBodyIs ==
  ASSUME Width = 4, NEW m \in Response
  PROVE  /\ ResponseBody(m) \in Seq(Byte)
         /\ Len(ResponseBody(m)) < Wrap =>
              Len(m.result_data) < Wrap /\ Len(m.error_message) < Wrap
<1> DEFINE f1 == Field(m.result_data)
           f2 == Field(m.error_message)
           w1 == Word(m.error_code)
           w2 == Word(m.sequence_id)
<1>1. /\ m.result_data \in Seq(Byte) /\ m.error_message \in Seq(Byte)
      /\ m.error_code \in Nat /\ m.sequence_id \in Nat
  <2>1. Wrap \in Nat
    BY SMT DEF Wrap
  <2> QED BY <2>1, ContentAssumption
<1>2. /\ f1 \in Seq(Byte) /\ Len(f1) = 4 + Len(m.result_data)
      /\ f2 \in Seq(Byte) /\ Len(f2) = 4 + Len(m.error_message)
  BY <1>1, FieldLength
<1>3. w1 \in Seq(Byte) /\ Len(w1) = 4 /\ w2 \in Seq(Byte) /\ Len(w2) = 4
  BY <1>1, WordIs, Zenon
<1>4. ResponseBody(m) = ((f1 \o f2) \o w1) \o w2
  BY DEF ResponseBody
<1> HIDE DEF f1, f2, w1, w2
<1>5. f1 \o f2 \in Seq(Byte) /\ Len(f1 \o f2) = Len(f1) + Len(f2)
  BY <1>2, Concat, Zenon
<1>6. (f1 \o f2) \o w1 \in Seq(Byte) /\ Len((f1 \o f2) \o w1) = Len(f1 \o f2) + Len(w1)
  BY <1>3, <1>5, Concat, Zenon
<1>7. /\ ResponseBody(m) \in Seq(Byte)
      /\ Len(ResponseBody(m)) = Len((f1 \o f2) \o w1) + Len(w2)
  <2>1. (f1 \o f2) \o w1 \in Seq(Byte) /\ w2 \in Seq(Byte)
    BY <1>3, <1>6
  <2>2. /\ ((f1 \o f2) \o w1) \o w2 \in Seq(Byte)
        /\ Len(((f1 \o f2) \o w1) \o w2) = Len((f1 \o f2) \o w1) + Len(w2)
    BY <2>1, Concat, Zenon
  <2> QED BY <1>4, <2>2
<1>8. Len(m.result_data) \in Nat /\ Len(m.error_message) \in Nat
  BY <1>1
<1>9. Wrap \in Nat
  BY SMT DEF Wrap
<1> DEFINE n1 == Len(m.result_data)
           n2 == Len(m.error_message)
           n == Len(ResponseBody(m))
<1>10. n1 \in Nat /\ n2 \in Nat /\ n = (((4 + n1) + (4 + n2)) + 4) + 4
  <2>1. n = ((Len(f1) + Len(f2)) + Len(w1)) + Len(w2)
    BY <1>5, <1>6, <1>7
  <2> QED BY <1>2, <1>3, <1>8, <2>1
<1>11. n < Wrap => n1 < Wrap /\ n2 < Wrap
  <2> HIDE DEF n1, n2, n
  <2> QED BY <1>9, <1>10
<1> QED BY <1>7, <1>11

\* A message that may be sent, and what stands in front of its body.
LEMMA Serialized ==
  ASSUME Width = 4, NEW item \in Item
  PROVE  LET m == item.message
             h == Header(Body(m), item.excess, m.sequence_id)
             in == Serialize(item)
         IN /\ m \in Message /\ Body(m) \in Seq(Byte) /\ item.excess \in Nat
            /\ in = h \o Body(m) /\ h \in Seq(Byte) /\ Len(h) = 12
            /\ in \in Seq(Byte) /\ Len(in) = 12 + Len(Body(m)) /\ Len(in) < Wrap
            /\ WordAt(in, 0) = kMagic /\ BodySize(in) = (Len(Body(m)) + item.excess) % Wrap
            /\ WordAt(in, 8) = m.sequence_id
<1> DEFINE m == item.message
           h == Header(Body(m), item.excess, m.sequence_id)
           in == Serialize(item)
<1>1. item.excess \in Nat /\ m \in Message
  BY MessageAssumption DEF Item
<1>2. m.sequence_id \in 0..Wrap - 1
  BY <1>1, ContentAssumption DEF Message
<1>3. Body(m) \in Seq(Byte)
  <2>1. CASE m \in Request
    BY <2>1, RequestBodyIs DEF Body
  <2>2. CASE m \notin Request
    <3>1. m \in Response
      BY <1>1, <2>2 DEF Message
    <3> QED BY <2>2, <3>1, ResponseBodyIs DEF Body
  <2> QED BY <2>1, <2>2
<1>4. 12 + Len(Body(m)) < Wrap
  <2>1. HeaderSize = 12
    BY DEF HeaderSize
  <2> QED BY <1>1, <2>1, ContentAssumption
<1>5. /\ h \in Seq(Byte) /\ Len(h) = 12
      /\ h \o Body(m) \in Seq(Byte) /\ Len(h \o Body(m)) = 12 + Len(Body(m))
      /\ WordAt(h \o Body(m), 0) = kMagic
      /\ BodySize(h \o Body(m)) = (Len(Body(m)) + item.excess) % Wrap
      /\ WordAt(h \o Body(m), 8) = m.sequence_id
  BY <1>1, <1>2, <1>3, HeaderIs
<1>6. in = h \o Body(m)
  BY DEF Serialize
<1> QED BY <1>1, <1>3, <1>4, <1>5, <1>6

-----------------------------------------------------------------------------
(* The whole way.                                                          *)

\* What was compressed comes back.
LEMMA CompressInverse ==
  ASSUME Width = 4, NEW data \in Seq(Byte), Len(data) < Wrap
  PROVE  /\ CompressString(data) \in Seq(Byte) /\ Len(CompressString(data)) = 4 + Len(data)
         /\ DecompressString(CompressString(data)) = data
<1> DEFINE w == Word(Len(data))
           frame == w \o data
<1>1. Len(data) \in 0..Wrap - 1 /\ Len(data) \in Nat
  <2>1. Wrap \in Nat
    BY SMT DEF Wrap
  <2>2. Len(data) \in Nat
    OBVIOUS
  <2> QED BY <2>1, <2>2
<1>2. w \in Seq(Byte) /\ Len(w) = 4
  BY <1>1, WordIs, Zenon
<1>3. WordAt(<<>> \o w \o data, Len(<<>>)) = Len(data)
  BY <1>1, NothingMore, WordAtIs, Zenon
<1> HIDE DEF w
<1>4. frame \in Seq(Byte) /\ Len(frame) = 4 + Len(data)
  <2>1. frame \in Seq(Byte) /\ Len(frame) = Len(w) + Len(data)
    BY <1>2, Concat, Zenon
  <2> QED BY <1>2, <2>1
<1>5. WordAt(frame, 0) = Len(data)
  <2>1. <<>> \o w = w /\ Len(<<>>) = 0
    BY <1>2, NothingMore, EmptySeq
  <2> QED BY <1>3, <2>1
<1>6. SubSeq(frame, 5, Len(frame)) = data
  <2>1. Slice(w \o data \o <<>>, Len(w), Len(data)) = data
    BY <1>2, NothingMore, SliceIs, Zenon
  <2>2. w \o data \o <<>> = frame
    BY <1>4, NothingMore
  <2>3. Slice(frame, 4, Len(data)) = SubSeq(frame, 5, 4 + Len(data))
    BY <1>1 DEF Slice
  <2> QED BY <1>2, <1>4, <2>1, <2>2, <2>3
<1>7. CompressString(data) = frame
  BY DEF CompressString, w
<1> HIDE DEF frame
<1>8. DecompressString(frame) = data
  BY <1>1, <1>4, <1>5, <1>6 DEF DecompressString
<1> QED BY <1>4, <1>7, <1>8

\* A frame of another length than its first word says comes to nothing.
LEMMA Decompressed ==
  ASSUME Width = 4, NEW data \in Seq(Byte), Len(data) < Wrap, NEW f \in Seq(Byte),
         \A i \in 1..4 + Len(data) : i <= Len(f) => f[i] = CompressString(data)[i]
  PROVE  DecompressString(f) = IF Len(f) = 4 + Len(data) THEN data ELSE <<>>
<1> DEFINE frame == CompressString(data)
           w == Word(Len(data))
<1>1. /\ frame \in Seq(Byte) /\ Len(frame) = 4 + Len(data) /\ DecompressString(frame) = data
      /\ Len(data) \in Nat /\ Len(f) \in Nat
  BY CompressInverse
<1>2. CASE Len(f) < 4
  <2>1. Len(f) < Width /\ Len(f) # 4 + Len(data)
    BY <1>1, <1>2
  <2> QED BY <2>1, Zenon DEF DecompressString
<1>3. CASE ~(Len(f) < 4) /\ Len(f) = 4 + Len(data)
  <2>1. \A i \in 1..Len(f) : f[i] = frame[i]
    BY <1>1, <1>3
  <2> HIDE DEF frame
  <2>2. f = frame
    BY <1>1, <1>3, <2>1, SeqEqual
  <2> QED BY <1>1, <1>3, <2>2
<1>4. CASE ~(Len(f) < 4) /\ Len(f) # 4 + Len(data)
  <2>1. w \in Seq(Byte) /\ Len(w) = 4
    BY <1>1, WordIs, Zenon
  <2>2. \A i \in 1..4 : frame[i] = w[i]
    <3>1. Joined(Byte, w, data)
      BY <2>1, Joins, Zenon
    <3> QED BY <2>1, <3>1 DEF Joined, CompressString
  <2> HIDE DEF w, frame
  <2>3. \A i \in 1..4 : i \in 1..4 + Len(data) /\ i <= Len(f) /\ f[i] \in Byte
    BY <1>1, <1>4, ElementOfSeq
  <2>4. \A i \in 1..4 : f[i] = w[i]
    BY <2>2, <2>3 DEF frame
  <2>5. /\ SubSeq(f, 1, 4) \in Seq(Byte) /\ Len(SubSeq(f, 1, 4)) = 4
        /\ \A i \in 1..4 : SubSeq(f, 1, 4)[i] = f[i]
    BY <1>1, <1>4, <2>3
  <2>6. Slice(f, 0, Width) = w
    <3>1. SubSeq(f, 1, 4) = w
      BY <2>1, <2>4, <2>5, SeqEqual
    <3> QED BY <3>1 DEF Slice
  <2>7. Len(data) \in 0..Wrap - 1
    <3>1. Wrap \in Nat
      BY SMT DEF Wrap
    <3> QED BY <1>1, <3>1
  <2>8. \A m \in 0..Wrap - 1 : Word(m) = w => m = Len(data)
    BY <2>7, WordsDiffer DEF w
  <2>9. WordAt(f, 0) = Len(data)
    BY <2>6, <2>7, <2>8 DEF WordAt, w
  <2>10. Len(f) # Width + WordAt(f, 0)
    BY <1>1, <1>4, <2>9
  <2> QED BY <1>4, <2>10, Zenon DEF DecompressString
<1> QED BY <1>2, <1>3, <1>4

\* How many bytes Base64 makes a text of, and how many characters carry them.
Size(item) == kKEY_SIZE + Len(CompressString(Serialize(item)))
Chars(item) == Carrying(Size(item))

\* A text is characters of the alphabet, and then at most two '='.
TextShape(item, t) ==
  /\ t \in Seq(Sextet \cup {Pad}) /\ Chars(item) \in Nat /\ Len(t) \in Nat
  /\ Chars(item) >= 12 /\ Chars(item) <= Len(t) /\ Len(t) <= Chars(item) + 2
  /\ item \in Padded <=> Chars(item) < Len(t)
  /\ \A i \in 1..Chars(item) : t[i] # Pad
  /\ \A i \in Chars(item) + 1..Len(t) : t[i] = Pad

\* Every message becomes one.
LEMMA TextIs ==
  ASSUME Width = 4, NEW item \in Item, NEW key \in RandomKey
  PROVE  Size(item) \in Nat /\ TextShape(item, Encoded(item, key))
<1> DEFINE in == Serialize(item)
           frame == CompressString(in)
           k == ShiftEncrypt(key, master_key)
           d == ShiftEncrypt(frame, key)
           n == Len(k \o d)
           t == Base64Encode(k \o d)
<1>1. in \in Seq(Byte) /\ Len(in) < Wrap
  BY Serialized
<1>2. frame \in Seq(Byte) /\ Len(frame) = 4 + Len(in) /\ Len(in) \in Nat
  BY <1>1, CompressInverse
<1> HIDE DEF frame, in
<1>3. key \in Seq(Byte) /\ Len(key) = kKEY_SIZE
  BY RandomKeyAssumption
<1>4. k \in Seq(Byte) /\ Len(k) = kKEY_SIZE
  BY <1>3, MasterKeyAssumption, ShiftInverse
<1>5. d \in Seq(Byte) /\ Len(d) = Len(frame)
  BY <1>2, <1>3, KeySizeAssumption, ShiftInverse
<1>6. Encoded(item, key) = t
  BY DEF Encoded, Encrypt, frame, in
<1> HIDE DEF k, d
<1>7. k \o d \in Seq(Byte) /\ n = kKEY_SIZE + Len(frame)
  <2>1. Joined(Byte, k, d)
    BY <1>4, <1>5, Joins, Zenon
  <2> QED BY <1>4, <1>5, <2>1 DEF Joined
<1>8. Size(item) = n /\ Chars(item) = Carrying(n) /\ (item \in Padded <=> n % 3 # 0)
  BY <1>7 DEF Size, Chars, Padded, frame, in
<1>9. n \in Nat /\ n >= 17
  <2>1. Len(in) >= 12
    <3>1. Len(in) = 12 + Len(Body(item.message)) /\ Body(item.message) \in Seq(Byte)
      BY Serialized DEF in
    <3>2. Len(Body(item.message)) \in Nat
      BY <3>1
    <3> QED BY <3>1, <3>2
  <2> QED BY <1>2, <1>7, <2>1, KeySizeAssumption
<1>10. /\ t \in Seq(Sextet \cup {Pad}) /\ Len(t) = 4 * Groups(n)
       /\ \A i \in 1..Carrying(n) : t[i] \in Sextet
       /\ \A i \in Carrying(n) + 1..Len(t) : t[i] = Pad
  BY <1>7, EncodeShape
<1> HIDE DEF n, t
<1>11. /\ Carrying(n) \in Nat /\ 4 * Groups(n) \in Nat
       /\ Carrying(n) >= 12 /\ Carrying(n) <= 4 * Groups(n) /\ 4 * Groups(n) <= Carrying(n) + 2
       /\ n % 3 # 0 <=> Carrying(n) < 4 * Groups(n)
  BY <1>9 DEF Carrying, Groups
<1>12. \A x \in Sextet : x # Pad
  BY DEF Sextet, Pad
<1>13. TextShape(item, t)
  BY <1>8, <1>10, <1>11, <1>12 DEF TextShape
<1> QED BY <1>6, <1>8, <1>9, <1>13

\* The text begins as the one of the item does, as far as the first '='.
Agrees(text, item, key) ==
  \A i \in 1..Len(Unpadded(text)) : i <= Chars(item) => text[i] = Encoded(item, key)[i]

\* Under any random key, whoever reads a text has the bytes that were serialized
\* or nothing: it depends on how many characters stand before the first '='.
LEMMA DecodedIs ==
  ASSUME Width = 4, NEW item \in Item, NEW key \in RandomKey,
         NEW text \in Seq(Sextet \cup {Pad}), Agrees(text, item, key)
  PROVE  Decoded(text) = IF (3 * Len(Unpadded(text))) \div 4 = Size(item)
                         THEN Serialize(item) ELSE <<>>
<1> DEFINE in == Serialize(item)
           frame == CompressString(in)
           d == Decrypt(text)
           n == (3 * Len(Unpadded(text))) \div 4
<1>1. in \in Seq(Byte) /\ Len(in) < Wrap
  BY Serialized
<1>2. frame \in Seq(Byte) /\ Len(frame) = 4 + Len(in) /\ Len(in) \in Nat
  BY <1>1, CompressInverse
<1>3. key \in Seq(Byte) /\ Len(key) = kKEY_SIZE
  BY RandomKeyAssumption
<1>4. Size(item) = kKEY_SIZE + Len(frame) /\ Encoded(item, key) = Encrypt(frame, key)
  BY DEF Size, Encoded
<1> HIDE DEF frame, in
<1>5. \A i \in 1..Len(Unpadded(text)) :
        i <= Carrying(kKEY_SIZE + Len(frame)) => text[i] = Encrypt(frame, key)[i]
  BY <1>4 DEF Agrees, Chars
<1>6. /\ d \in Seq(Byte) /\ Len(d) = IF n <= kKEY_SIZE THEN 0 ELSE n - kKEY_SIZE
      /\ \A i \in 1..Len(frame) : i <= Len(d) => d[i] = frame[i]
  BY <1>2, <1>3, <1>5, DecryptAgrees
<1>7. n \in Nat
  <2>1. Len(text) \in Nat
    BY LenProperties
  <2>2. Len(Unpadded(text)) \in Nat
    BY <2>1, DecodeShape
  <2> QED BY <2>2
<1> HIDE DEF d, n
<1>8. DecompressString(d) = IF Len(d) = 4 + Len(in) THEN in ELSE <<>>
  BY <1>1, <1>2, <1>6, Decompressed DEF frame
<1>9. Len(d) = 4 + Len(in) <=> n = Size(item)
  BY <1>2, <1>4, <1>6, <1>7, KeySizeAssumption
<1> QED BY <1>8, <1>9 DEF Decoded, d, n, in

\* How many bytes some characters make, next to those of a whole text.
LEMMA Counts ==
  ASSUME NEW n \in Nat, NEW m \in Nat
  PROVE  /\ m < Carrying(n) => (3 * m) \div 4 # n
         /\ m = Carrying(n) => (3 * m) \div 4 = n
         /\ m = Carrying(n) + 1 /\ n % 3 = 0 => (3 * m) \div 4 = n
         /\ m >= Carrying(n) + 2 => (3 * m) \div 4 # n
BY DEF Carrying

\* What an item may look like on the wire.
TextsOf(item) == {Encoded(item, key) : key \in RandomKey}

\* The characters of a text that carry something are there.
StartsAs(buf, item, t) ==
  Chars(item) <= Len(buf) /\ \A i \in 1..Chars(item) : buf[i] = t[i]

\* Nothing else is seen than the text when it is all there is, when an '='
\* follows, or, without one, when a single character follows: it makes no byte.
Seen(buf, item) ==
  LET c == Chars(item) IN
  \/ Len(buf) = c \/ buf[c + 1] = Pad
  \/ item \notin Padded /\ (Len(buf) = c + 1 \/ buf[c + 2] = Pad)

\* Then the item is read.
LEMMA ReadWhole ==
  ASSUME Width = 4, NEW item \in Item, NEW t \in TextsOf(item),
         NEW buf \in Seq(Sextet \cup {Pad}), StartsAs(buf, item, t), Seen(buf, item)
  PROVE  Decoded(buf) = Serialize(item)
<1> DEFINE u == Unpadded(buf)
           c == Chars(item)
<1>1. PICK key \in RandomKey : t = Encoded(item, key)
  BY DEF TextsOf
<1>2. Size(item) \in Nat /\ TextShape(item, t)
  BY <1>1, TextIs
<1>3. /\ Len(buf) \in Nat /\ Len(u) \in 0..Len(buf)
      /\ \A i \in 1..Len(u) : buf[i] # Pad
      /\ Len(u) < Len(buf) => buf[Len(u) + 1] = Pad
  BY LenProperties, DecodeShape
<1> HIDE DEF u
<1>4. c \in Nat /\ c <= Len(buf) /\ \A i \in 1..c : buf[i] = t[i] /\ t[i] # Pad
  BY <1>2 DEF StartsAs, TextShape
<1>5. \/ Len(buf) = c \/ buf[c + 1] = Pad
      \/ item \notin Padded /\ (Len(buf) = c + 1 \/ buf[c + 2] = Pad)
  BY DEF Seen
<1>6. Agrees(buf, item, key)
  <2> HIDE DEF c
  <2>1. \A i \in 1..Len(u) : i <= c => i \in 1..c
    BY <1>3, <1>4
  <2> QED BY <1>1, <1>4, <2>1 DEF Agrees, u, c
<1>7. item \notin Padded => Size(item) % 3 = 0
  BY DEF Padded, Size
<1> HIDE DEF c
<1>8. Len(u) \in Nat /\ (Len(u) = c \/ (item \notin Padded /\ Len(u) = c + 1))
  <2>1. ~(Len(u) < c)
    <3> SUFFICES ASSUME Len(u) < c PROVE FALSE
      OBVIOUS
    <3>1. Len(u) + 1 \in 1..c /\ Len(u) < Len(buf)
      BY <1>3, <1>4
    <3> QED BY <1>3, <1>4, <3>1
  <2>2. buf[c + 1] = Pad => Len(u) < c + 1
    <3>1. c + 1 \in 1..Len(u) => buf[c + 1] # Pad
      BY <1>3
    <3> QED BY <1>3, <1>4, <3>1
  <2>3. buf[c + 2] = Pad => Len(u) < c + 2
    <3>1. c + 2 \in 1..Len(u) => buf[c + 2] # Pad
      BY <1>3
    <3> QED BY <1>3, <1>4, <3>1
  <2> QED BY <1>3, <1>4, <1>5, <2>1, <2>2, <2>3
<1>9. (3 * Len(u)) \div 4 = Size(item)
  BY <1>2, <1>7, <1>8, Counts DEF c, Chars
<1> QED BY <1>6, <1>9, DecodedIs DEF u

\* Two characters more, and nothing is.
LEMMA ReadGarbled ==
  ASSUME Width = 4, NEW item \in Item, NEW t \in TextsOf(item),
         NEW buf \in Seq(Sextet \cup {Pad}), StartsAs(buf, item, t),
         Len(buf) >= Chars(item) + 2, buf[Chars(item) + 1] # Pad, buf[Chars(item) + 2] # Pad
  PROVE  Decoded(buf) = <<>>
<1> DEFINE u == Unpadded(buf)
           c == Chars(item)
<1>1. PICK key \in RandomKey : t = Encoded(item, key)
  BY DEF TextsOf
<1>2. Size(item) \in Nat /\ TextShape(item, t)
  BY <1>1, TextIs
<1>3. /\ Len(buf) \in Nat /\ Len(u) \in 0..Len(buf)
      /\ Len(u) < Len(buf) => buf[Len(u) + 1] = Pad
  BY LenProperties, DecodeShape
<1> HIDE DEF u
<1>4. c \in Nat /\ c <= Len(buf) /\ \A i \in 1..c : buf[i] = t[i] /\ t[i] # Pad
  BY <1>2 DEF StartsAs, TextShape
<1>5. Len(buf) >= c + 2 /\ buf[c + 1] # Pad /\ buf[c + 2] # Pad
  OBVIOUS
<1>6. Agrees(buf, item, key)
  <2> HIDE DEF c
  <2>1. \A i \in 1..Len(u) : i <= c => i \in 1..c
    BY <1>3, <1>4
  <2> QED BY <1>1, <1>4, <2>1 DEF Agrees, u, c
<1> HIDE DEF c
<1>7. Len(u) \in Nat /\ Len(u) >= c + 2
  <2> SUFFICES ASSUME ~(Len(u) >= c + 2) PROVE FALSE
    BY <1>3
  <2>1. Len(u) < Len(buf) /\ (Len(u) + 1 \in 1..c \/ Len(u) + 1 = c + 1 \/ Len(u) + 1 = c + 2)
    BY <1>3, <1>4, <1>5
  <2> QED BY <1>3, <1>4, <1>5, <2>1
<1>8. (3 * Len(u)) \div 4 # Size(item)
  BY <1>2, <1>7, Counts DEF c, Chars
<1> QED BY <1>6, <1>8, DecodedIs DEF u

\* Neither is it when a character of those that carry something is missing.
LEMMA ReadShort ==
  ASSUME Width = 4, NEW item \in Item, NEW t \in TextsOf(item),
         NEW buf \in Seq(Sextet \cup {Pad}), Len(buf) < Chars(item),
         \A i \in 1..Len(buf) : buf[i] = t[i]
  PROVE  Decoded(buf) = <<>>
<1> DEFINE u == Unpadded(buf)
<1>1. PICK key \in RandomKey : t = Encoded(item, key)
  BY DEF TextsOf
<1>2. Size(item) \in Nat /\ Chars(item) \in Nat
  BY <1>1, TextIs DEF TextShape
<1>3. Len(buf) \in Nat /\ Len(u) \in 0..Len(buf)
  BY LenProperties, DecodeShape
<1> HIDE DEF u
<1>4. Agrees(buf, item, key)
  <2>1. \A i \in 1..Len(u) : i \in 1..Len(buf)
    BY <1>3
  <2> QED BY <1>1, <2>1 DEF Agrees, u
<1>5. Len(u) \in Nat /\ Len(u) < Chars(item)
  BY <1>2, <1>3
<1>6. (3 * Len(u)) \div 4 # Size(item)
  BY <1>2, <1>5, Counts DEF Chars
<1> QED BY <1>4, <1>6, DecodedIs DEF u

\* Nor when the text begins with an '='.
LEMMA ReadPad ==
  ASSUME Width = 4, NEW buf \in Seq(Sextet \cup {Pad}), Len(buf) > 0, buf[1] = Pad
  PROVE  Decoded(buf) = <<>>
<1> DEFINE u == Unpadded(buf)
<1>1. /\ Len(buf) \in Nat /\ Len(u) \in 0..Len(buf)
      /\ \A i \in 1..Len(u) : buf[i] # Pad
      /\ Len(Base64Decode(buf)) = (3 * Len(u)) \div 4
  BY LenProperties, DecodeShape
<1> HIDE DEF u
<1>2. Len(u) = 0
  <2>1. 1 \notin 1..Len(u)
    BY <1>1
  <2> QED BY <1>1, <2>1
<1>3. Len(Base64Decode(buf)) <= kKEY_SIZE
  BY <1>1, <1>2, KeySizeAssumption
<1>4. Decrypt(buf) = <<>>
  BY <1>3 DEF Decrypt
<1>5. Len(<<>>) < Width
  BY EmptySeq
<1>6. DecompressString(<<>>) = <<>>
  BY <1>5, Zenon DEF DecompressString
<1> QED BY <1>4, <1>6 DEF Decoded

\* Whatever follows a text that ends in '=', and whatever does not follow another.
LEMMA DecodedText ==
  ASSUME Width = 4, NEW item \in Item, NEW key \in RandomKey,
         NEW rest \in Seq(Sextet \cup {Pad}), rest = <<>> \/ item \in Padded
  PROVE  /\ Decoded(Encoded(item, key) \o rest) = Serialize(item)
         /\ Len(Encoded(item, key) \o rest) \in Nat /\ Len(Encoded(item, key) \o rest) >= 12
<1> DEFINE t == Encoded(item, key)
           buf == t \o rest
           c == Chars(item)
<1>1. TextShape(item, t)
  BY TextIs
<1>2. t \in TextsOf(item)
  BY DEF TextsOf
<1> HIDE DEF t
<1>3. /\ t \in Seq(Sextet \cup {Pad}) /\ c \in Nat /\ c >= 12 /\ c <= Len(t)
      /\ (item \in Padded <=> c < Len(t)) /\ \A i \in c + 1..Len(t) : t[i] = Pad
  BY <1>1 DEF TextShape
<1>4. Joined(Sextet \cup {Pad}, t, rest)
  BY <1>3, Joins, Zenon
<1>5. /\ buf \in Seq(Sextet \cup {Pad}) /\ Len(buf) = Len(t) + Len(rest)
      /\ Len(t) \in Nat /\ Len(rest) \in Nat /\ \A i \in 1..Len(t) : buf[i] = t[i]
  BY <1>4 DEF Joined
<1> HIDE DEF buf, c
<1>6. c <= Len(buf) /\ \A i \in 1..c : buf[i] = t[i]
  <2>1. \A i \in 1..c : i \in 1..Len(t)
    BY <1>3, <1>5
  <2> QED BY <1>3, <1>5, <2>1
<1>7. Len(buf) = c \/ buf[c + 1] = Pad
  <2>1. CASE rest = <<>> /\ c = Len(t)
    <3>1. Len(rest) = 0
      BY <2>1, EmptySeq
    <3> QED BY <1>5, <2>1, <3>1
  <2>2. CASE c < Len(t)
    <3>1. c + 1 \in c + 1..Len(t) /\ c + 1 \in 1..Len(t)
      BY <1>3, <1>5, <2>2
    <3> QED BY <1>3, <1>5, <3>1
  <2> QED BY <1>3, <1>5, <2>1, <2>2
<1>8. StartsAs(buf, item, t) /\ Seen(buf, item)
  BY <1>6, <1>7 DEF StartsAs, Seen, c
<1>9. Decoded(buf) = Serialize(item)
  BY <1>2, <1>5, <1>8, ReadWhole
<1>10. Len(buf) \in Nat /\ Len(buf) >= 12
  BY <1>3, <1>5
<1> QED BY <1>9, <1>10 DEF buf, t

\* What the header says the size of the body is.
Claimed(item) == (Len(Body(item.message)) + item.excess) % Wrap
Honest(item) == Claimed(item) <= Len(Body(item.message))

\* It is no less than the size, unless the sum has wrapped.
LEMMA ClaimedIs ==
  ASSUME Width = 4, NEW item \in Item
  PROVE  LET in == Serialize(item) IN
         /\ in # <<>> /\ ~(Len(in) < HeaderSize)
         /\ HeaderSize = 12 /\ Wrap \in Nat /\ Claimed(item) \in Nat
         /\ BodySize(in) = Claimed(item) /\ (Enough(in) <=> Honest(item))
         /\ Len(in) < (BodySize(in) + HeaderSize) % Wrap => ~Honest(item)
         /\ item.excess = 0 => Honest(item) /\ Claimed(item) = Len(Body(item.message))
<1> DEFINE in == Serialize(item)
           n == Len(Body(item.message))
           x == item.excess
<1>1. /\ Body(item.message) \in Seq(Byte) /\ x \in Nat /\ in \in Seq(Byte)
      /\ Len(in) = 12 + n /\ Len(in) < Wrap /\ BodySize(in) = (n + x) % Wrap
  BY Serialized
<1>2. n \in Nat
  BY <1>1
<1> DEFINE w == Wrap
<1>3. w \in Nat \ {0} /\ HeaderSize = 12
  <2>1. w \in Nat /\ w > 0
    BY SMT DEF Wrap
  <2> QED BY <2>1 DEF HeaderSize
<1>4. Claimed(item) = (n + x) % w
  BY DEF Claimed
<1> HIDE DEF in, n, x
<1>5. in # <<>>
  <2>1. Len(in) # 0
    BY <1>1, <1>2
  <2> QED BY <2>1, EmptySeq
<1> HIDE DEF w
<1> DEFINE s == (n + x) % w
<1>6. s \in Nat /\ s < w /\ n + 12 < w /\ (x = 0 => s = n)
  <2>1. n + 12 < w /\ n < w
    BY <1>1, <1>2, <1>3 DEF w
  <2>2. s \in 0..w - 1
    BY <1>1, <1>2, <1>3
  <2>3. x = 0 => s = n
    BY <1>2, <1>3, <2>1
  <2> QED BY <1>3, <2>1, <2>2, <2>3
<1>7. BodySize(in) = s /\ Claimed(item) = s
  BY <1>1, <1>4 DEF w
<1> HIDE DEF s
<1>8. Enough(in) <=> s <= n
  BY <1>1, <1>2, <1>3, <1>6, <1>7 DEF Enough
<1>9. Honest(item) <=> s <= n
  BY <1>7 DEF Honest, n
<1>10. 12 + n < (s + 12) % w => ~(s <= n)
  <2> SUFFICES ASSUME s <= n PROVE ~(12 + n < (s + 12) % w)
    OBVIOUS
  <2>1. s + 12 \in 0..w - 1
    BY <1>2, <1>3, <1>6
  <2>2. (s + 12) % w = s + 12
    BY <1>3, <2>1
  <2> QED BY <1>2, <1>6, <2>2
<1>11. Len(in) < (BodySize(in) + HeaderSize) % Wrap => ~Honest(item)
  BY <1>1, <1>3, <1>7, <1>9, <1>10 DEF w
<1>12. ~(Len(in) < HeaderSize)
  BY <1>1, <1>2, <1>3
<1>13. x = 0 => Honest(item) /\ Claimed(item) = n
  BY <1>2, <1>6, <1>7, <1>9
<1> QED BY <1>3, <1>5, <1>6, <1>7, <1>8, <1>9, <1>11, <1>12, <1>13 DEF in, n, x, w

\* What is read of a request is the message that was sent, if the header allows.
LEMMA RequestRead ==
  ASSUME Width = 4, NEW item \in Item, item.message \in Request
  PROVE  RequestsIn(Serialize(item)) = IF Honest(item) THEN {item.message} ELSE {}
<1> DEFINE m == item.message
           h == Header(Body(m), item.excess, m.sequence_id)
           in == Serialize(item)
           second == FieldEnd(in, 12)
           third == FieldEnd(in, second)
<1>1. /\ Body(m) \in Seq(Byte) /\ in = h \o Body(m) /\ h \in Seq(Byte) /\ Len(h) = 12
      /\ Len(in) = 12 + Len(Body(m)) /\ Len(in) < Wrap
      /\ WordAt(in, 0) = kMagic
      /\ WordAt(in, 8) = m.sequence_id
  BY Serialized
<1>2. Body(m) = RequestBody(m)
  BY DEF Body
<1>3. Len(Body(m)) \in Nat /\ Len(Body(m)) < Wrap
  <2>1. Wrap \in Nat
    BY SMT DEF Wrap
  <2>2. Len(Body(m)) \in Nat
    BY <1>1
  <2> QED BY <1>1, <2>1, <2>2
<1>4. /\ m.service_name \in Seq(Byte) /\ Len(m.service_name) < Wrap
      /\ m.method_name \in Seq(Byte) /\ Len(m.method_name) < Wrap
      /\ m.payload \in Seq(Byte) /\ Len(m.payload) < Wrap
  BY <1>2, <1>3, RequestBodyIs, ContentAssumption
<1>5. in = h \o (Field(m.service_name) \o Field(m.method_name) \o Field(m.payload))
  BY <1>1, <1>2 DEF RequestBody
<1> HIDE DEF h, in
<1>6. /\ FieldData(in, 12) = m.service_name /\ FieldData(in, second) = m.method_name
      /\ FieldData(in, third) = m.payload /\ FieldEnd(in, third) # 0
  <2> DEFINE text == h \o (Field(m.service_name) \o Field(m.method_name) \o Field(m.payload))
             next == FieldEnd(text, 12)
             last == FieldEnd(text, next)
  <2>1. /\ FieldData(text, 12) = m.service_name /\ FieldData(text, next) = m.method_name
        /\ FieldData(text, last) = m.payload /\ FieldEnd(text, last) # 0
    BY <1>1, <1>4, RequestFields
  <2> QED BY <1>5, <2>1
<1>7. HeaderSize = 12 /\ 2 * Width = 8
  BY DEF HeaderSize
<1>8. ~(Len(in) < HeaderSize) /\ (Enough(in) <=> Honest(item))
  BY ClaimedIs DEF in
<1>9. CASE ~Honest(item)
  <2>1. RequestsIn(in) = {}
    BY <1>8, <1>9, Zenon DEF RequestsIn
  <2> QED BY <1>9, <2>1 DEF in
<1>10. CASE Honest(item)
  <2>1. RequestsIn(in) = {[service_name |-> m.service_name, method_name |-> m.method_name,
                           payload |-> m.payload, sequence_id |-> m.sequence_id]}
    BY <1>1, <1>6, <1>7, <1>8, <1>10, Zenon DEF RequestsIn
  <2>2. m = [service_name |-> m.service_name, method_name |-> m.method_name,
             payload |-> m.payload, sequence_id |-> m.sequence_id]
    BY ContentAssumption
  <2> QED BY <1>10, <2>1, <2>2 DEF in
<1> QED BY <1>9, <1>10

\* What is read of a response is the message that was sent, if the header has its
\* size.
LEMMA ResponseRead ==
  ASSUME Width = 4, NEW item \in Item, item.message \in Response
  PROVE  ResponsesIn(Serialize(item)) =
           IF Claimed(item) = Len(Body(item.message)) THEN {item.message} ELSE {}
<1> DEFINE m == item.message
           h == Header(Body(m), item.excess, m.sequence_id)
           in == Serialize(item)
           second == FieldEnd(in, 12)
           third == FieldEnd(in, second)
<1>1. /\ Body(m) \in Seq(Byte) /\ in = h \o Body(m) /\ h \in Seq(Byte) /\ Len(h) = 12
      /\ Len(in) = 12 + Len(Body(m)) /\ Len(in) < Wrap
      /\ WordAt(in, 0) = kMagic
  BY Serialized
<1>2. Body(m) = ResponseBody(m)
  <2>1. m \notin Request
    BY MessageAssumption
  <2> QED BY <2>1 DEF Body
<1>3. Len(Body(m)) \in Nat /\ Len(Body(m)) < Wrap
  <2>1. Wrap \in Nat
    BY SMT DEF Wrap
  <2>2. Len(Body(m)) \in Nat
    BY <1>1
  <2> QED BY <1>1, <2>1, <2>2
<1>4. /\ m.result_data \in Seq(Byte) /\ Len(m.result_data) < Wrap
      /\ m.error_message \in Seq(Byte) /\ Len(m.error_message) < Wrap
      /\ m.error_code \in 0..Wrap - 1 /\ m.sequence_id \in 0..Wrap - 1
  BY <1>2, <1>3, ResponseBodyIs, ContentAssumption
<1>5. in = h \o (Field(m.result_data) \o Field(m.error_message)
                 \o Word(m.error_code) \o Word(m.sequence_id))
  BY <1>1, <1>2 DEF ResponseBody
<1> HIDE DEF h, in
<1>6. /\ FieldData(in, 12) = m.result_data /\ FieldData(in, second) = m.error_message
      /\ WordAt(in, third) = m.error_code /\ WordAt(in, third + 4) = m.sequence_id
      /\ third # 0 /\ third + 8 = Len(in)
  <2>1. ReadsWords(h, m.result_data, m.error_message, m.error_code, m.sequence_id)
    BY <1>1, <1>4, ResponseFields, Zenon
  <2> QED BY <1>5, <2>1 DEF ReadsWords
<1>7. HeaderSize = 12 /\ 2 * Width = 8
  BY DEF HeaderSize
<1>8. ~(Len(in) < HeaderSize) /\ BodySize(in) = Claimed(item) /\ Claimed(item) \in Nat
  BY ClaimedIs DEF in
<1>9. Len(in) = BodySize(in) + HeaderSize <=> Claimed(item) = Len(Body(m))
  BY <1>1, <1>3, <1>7, <1>8
<1>10. ~(third + 2 * Width > Len(in))
  BY <1>1, <1>3, <1>6, <1>7
<1>11. CASE Claimed(item) # Len(Body(m))
  <2>1. ResponsesIn(in) = {}
    BY <1>9, <1>11, Zenon DEF ResponsesIn
  <2> QED BY <1>11, <2>1 DEF in
<1>12. CASE Claimed(item) = Len(Body(m))
  <2>1. ResponsesIn(in) = {[result_data |-> m.result_data, error_message |-> m.error_message,
                            error_code |-> m.error_code, sequence_id |-> m.sequence_id]}
    BY <1>1, <1>6, <1>7, <1>8, <1>9, <1>10, <1>12, Zenon DEF ResponsesIn
  <2>2. m = [result_data |-> m.result_data, error_message |-> m.error_message,
             error_code |-> m.error_code, sequence_id |-> m.sequence_id]
    BY ContentAssumption
  <2> QED BY <1>12, <2>1, <2>2 DEF in
<1> QED BY <1>11, <1>12

-----------------------------------------------------------------------------
(* What the ends hand on.                                                  *)

\* A request that was sent is what the server reads out of the text, byte for
\* byte, under every random key; and when the text ends in '=', whatever follows
\* it, the next message included, makes no difference: it is lost.
THEOREM RequestComesBack ==
  ASSUME Width = 4, NEW item \in Item, item.message \in Request, item.excess = 0,
         NEW key \in RandomKey, NEW rest \in Seq(Sextet \cup {Pad}),
         rest = <<>> \/ item \in Padded
  PROVE  RequestsIn(Decoded(Encoded(item, key) \o rest)) = {item.message}
<1>1. Decoded(Encoded(item, key) \o rest) = Serialize(item)
  BY DecodedText, Zenon
<1>2. Honest(item)
  BY ClaimedIs
<1> QED BY <1>1, <1>2, RequestRead

\* So is a response what the client reads.
THEOREM ResponseComesBack ==
  ASSUME Width = 4, NEW item \in Item, item.message \in Response, item.excess = 0,
         NEW key \in RandomKey, NEW rest \in Seq(Sextet \cup {Pad}),
         rest = <<>> \/ item \in Padded
  PROVE  ResponsesIn(Decoded(Encoded(item, key) \o rest)) = {item.message}
<1>1. Decoded(Encoded(item, key) \o rest) = Serialize(item)
  BY DecodedText, Zenon
<1>2. Claimed(item) = Len(Body(item.message))
  BY ClaimedIs
<1> QED BY <1>1, <1>2, ResponseRead

\* A server that has a whole request in its buffer, in however many pieces it
\* came, hands on that request and nothing else, and empties the buffer.
THEOREM ServerHandsOn ==
  ASSUME Width = 4, NEW item \in Item, item.message \in Request, item.excess = 0,
         NEW key \in RandomKey, NEW rest \in Seq(Sextet \cup {Pad}),
         rest = <<>> \/ item \in Padded,
         NEW n \in 1..2, recv_buf \o Texts(n) = Encoded(item, key) \o rest,
         end = "server", Read(n)
  PROVE  got' = Append(got, item.message) /\ recv_buf' = <<>> /\ pieces' = <<>> /\ open'
<1> DEFINE buf == Encoded(item, key) \o rest
           data == Serialize(item)
<1>1. Decoded(buf) = data /\ Len(buf) \in Nat /\ Len(buf) >= 12
  BY DecodedText
<1>2. RequestsIn(data) = {item.message}
  BY ClaimedIs, RequestRead
<1>3. ~(Len(data) < HeaderSize) /\ ~(Len(data) < (BodySize(data) + HeaderSize) % Wrap)
  BY ClaimedIs
<1>4. ~(Len(buf) < HeaderSize)
  <2>1. HeaderSize = 12
    BY DEF HeaderSize
  <2> HIDE DEF buf
  <2> QED BY <1>1, <2>1
<1>5. recv_buf \o Texts(n) = buf
  OBVIOUS
<1>6. ProgressGetMessage(n) /\ open
  BY DEF Read
<1> HIDE DEF buf, data
<1>7. Clear(n) /\ open' = open /\ got' = Append(got, item.message)
  BY <1>1, <1>2, <1>3, <1>4, <1>5, <1>6, Zenon DEF ProgressGetMessage
<1> QED BY <1>6, <1>7 DEF Clear

\* A client that has a whole response in its buffer hands it on.
THEOREM ClientHandsOn ==
  ASSUME Width = 4, NEW item \in Item, item.message \in Response, item.excess = 0,
         NEW key \in RandomKey, NEW rest \in Seq(Sextet \cup {Pad}),
         rest = <<>> \/ item \in Padded,
         NEW n \in 1..2, recv_buf \o Texts(n) = Encoded(item, key) \o rest,
         end = "client", Read(n)
  PROVE  got' = Append(got, item.message) /\ open'
<1>1. ResponsesIn(Decoded(recv_buf \o Texts(n))) = {item.message}
  BY ResponseComesBack
<1>2. ProcessResponse(n) /\ open
  BY DEF Read
<1> QED BY <1>1, <1>2, Zenon DEF ProcessResponse

\* A message whose header says that more of it is to come is handed on by
\* neither end, however much more, unless the sum of the two sizes wraps in 32
\* bits to one that is not.
THEOREM ExcessHandedOnByNone ==
  ASSUME Width = 4, NEW item \in Item, Claimed(item) > Len(Body(item.message)),
         item.message \in IF end = "server" THEN Request ELSE Response,
         NEW key \in RandomKey, NEW rest \in Seq(Sextet \cup {Pad}),
         rest = <<>> \/ item \in Padded,
         NEW n \in 1..2, recv_buf \o Texts(n) = Encoded(item, key) \o rest,
         Read(n)
  PROVE  got' = got
<1>1. Decoded(recv_buf \o Texts(n)) = Serialize(item)
  BY DecodedText
<1>2. ~Honest(item) /\ Claimed(item) # Len(Body(item.message))
  <2>1. Len(Body(item.message)) \in Nat /\ Claimed(item) \in Nat
    <3>1. Body(item.message) \in Seq(Byte)
      BY Serialized
    <3> QED BY <3>1, ClaimedIs
  <2> QED BY <2>1 DEF Honest
<1>3. CASE end = "server"
  <2>1. RequestsIn(Serialize(item)) = {}
    BY <1>2, <1>3, RequestRead
  <2> QED BY <1>1, <1>3, <2>1 DEF Read, ProgressGetMessage
<1>4. CASE end # "server"
  <2>1. ResponsesIn(Serialize(item)) = {}
    BY <1>2, <1>4, ResponseRead
  <2> QED BY <1>1, <1>4, <2>1 DEF Read, ProcessResponse
<1> QED BY <1>3, <1>4
=============================================================================
