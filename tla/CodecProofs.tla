---------------------------- MODULE CodecProofs ----------------------------
(***************************************************************************)
(* Codec is of the right type, hands messages on in order, and does byte   *)
(* by byte what Framing says of the pieces.  First what may be in a        *)
(* receive buffer, what is read of it (BeginsOutcome) and what is added to *)
(* it; then what is on its way, and what taking one piece or two off it    *)
(* does; then the order; then the inductive invariant, action by action.   *)
(***************************************************************************)
EXTENDS MessageProofs

Char == Sextet \cup {Pad}
Part == {"whole", "bit", "front", "rest", "text", "pad"}

-----------------------------------------------------------------------------
(* Texts and the pieces of a text.                                         *)

\* A text of an item, as MessageProofs has it.
LEMMA TextOf ==
  ASSUME Width = 4, NEW it \in Item, NEW text \in TextsOf(it)
  PROVE  TextShape(it, text) /\ HeaderSize = 12
<1>1. PICK key \in RandomKey : text = Encoded(it, key)
  BY DEF TextsOf
<1> QED BY <1>1, TextIs DEF HeaderSize

\* A text cut after n characters, and what the two parts are.
Cuts(it, text, n, p, q) ==
  /\ n \in 1..Len(text) - 1
  /\ \/ n >= Chars(it) /\ it \in Padded /\ p = "text" /\ q = "pad"
     \/ n < Chars(it) /\ n < 12 /\ p = "bit" /\ q = "rest"
     \/ n < Chars(it) /\ n >= 12 /\ p = "front" /\ q = "rest"

\* That is what Split makes of it.
LEMMA PartsAre ==
  ASSUME Width = 4, NEW it \in Item, NEW text \in TextsOf(it), NEW n \in 1..Len(text) - 1
  PROVE  Cuts(it, text, n, Parts(text, n)[1], Parts(text, n)[2])
<1> DEFINE c == Chars(it)
<1>1. /\ c \in Nat /\ Len(text) \in Nat /\ c >= 12 /\ c <= Len(text)
      /\ (it \in Padded <=> c < Len(text)) /\ HeaderSize = 12
      /\ \A i \in 1..c : text[i] # Pad
      /\ \A i \in c + 1..Len(text) : text[i] = Pad
  BY TextOf DEF TextShape
<1> HIDE DEF c
<1>2. CASE n >= c
  <2>1. \A i \in n + 1..Len(text) : text[i] = Pad
    BY <1>1, <1>2
  <2>2. Parts(text, n) = <<"text", "pad">>
    BY <2>1 DEF Parts
  <2>3. it \in Padded
    BY <1>1, <1>2
  <2> QED BY <1>2, <2>2, <2>3 DEF Cuts, c
<1>3. CASE n < c
  <2>1. c \in n + 1..Len(text) /\ text[c] # Pad
    BY <1>1, <1>3
  <2>2. Parts(text, n) = IF n < 12 THEN <<"bit", "rest">> ELSE <<"front", "rest">>
    BY <1>1, <2>1 DEF Parts
  <2>3. n < 12 \/ n >= 12
    OBVIOUS
  <2> QED BY <1>3, <2>2, <2>3 DEF Cuts, c
<1> QED BY <1>1, <1>2, <1>3

-----------------------------------------------------------------------------
(* What a receive buffer begins with.                                      *)

\* The first k pieces are a text of the item.
Leads(ps, it, k) ==
  /\ k \in 1..2 /\ k <= Len(ps) /\ ps[1].of = it
  /\ \/ k = 1 /\ ps[1].part = "whole"
     \/ k = 2 /\ ps[1].part \in {"bit", "front"} /\ ps[2].of = it /\ ps[2].part = "rest"
     \/ k = 2 /\ it \in Padded /\ ps[1].part = "text" /\ ps[2].of = it /\ ps[2].part = "pad"

\* And the characters are those of the text.
TextFirst(ps, t, it, k, text) ==
  /\ Leads(ps, it, k) /\ text \in TextsOf(it) /\ Len(text) <= Len(t)
  /\ \A i \in 1..Len(text) : t[i] = text[i]

\* What has become of the message does not depend on what will come: it ends in
\* '=', or is all there is, or the next one has spoilt it.
Settled(ps, t, it, k, text) ==
  \/ it \in Padded
  \/ Len(ps) = k /\ Len(t) = Len(text)
  \/ /\ Len(ps) > k /\ Len(t) >= Len(text) + 2
     /\ t[Len(text) + 1] # Pad /\ t[Len(text) + 2] # Pad

\* One character of the next message does not spoil it.
OneMore(ps, t, k, text) ==
  Len(ps) = k + 1 /\ ps[k + 1].part = "bit" /\ Len(t) = Len(text) + 1

\* The end of a text whose beginning is gone.
PadFirst(ps, t) == Len(ps) >= 1 /\ ps[1].part = "pad" /\ Len(t) >= 1 /\ t[1] = Pad

\* A buffer at the end of a text: empty, or one of the two above.
Between(ps, t) ==
  \/ ps = <<>> /\ t = <<>>
  \/ PadFirst(ps, t) /\ (IF Len(ps) = 1 THEN Len(t) < 12 ELSE Len(t) >= 12)
  \/ \E it \in Item : \E k \in 1..2, text \in TextsOf(it) :
       TextFirst(ps, t, it, k, text) /\ Settled(ps, t, it, k, text)

\* How long the buffer may be, for what its pieces are.
Fits(ps, t) ==
  /\ Len(t) < 12 => Stream!MayBeShort(ps)
  /\ Len(t) >= 12 => Stream!MayBeLong(ps)

\* A buffer that may be read: any of these, or only the first half of a text.
Begins(ps, t) ==
  \/ PadFirst(ps, t) /\ Fits(ps, t)
  \/ \E it \in Item : \E k \in 1..2, text \in TextsOf(it) :
       /\ TextFirst(ps, t, it, k, text)
       /\ Settled(ps, t, it, k, text) \/ OneMore(ps, t, k, text)
  \/ \E it \in Item : \E text \in TextsOf(it), q \in Part :
       /\ Len(ps) = 1 /\ ps[1].of = it /\ Cuts(it, text, Len(t), ps[1].part, q)
       /\ \A i \in 1..Len(t) : t[i] = text[i]

\* What comes of reading it: nothing, and Framing says so, or the first message,
\* and Framing has it.
Outcome(ps, t) ==
  \/ Decoded(t) = <<>> /\ Stream!MayFail(ps) /\ Fits(ps, t)
  \/ /\ Len(ps) >= 1 /\ ps[1].of \in Stream!Decoded(ps) /\ ps[1].part # "pad"
     /\ Decoded(t) = Serialize(ps[1].of) /\ Len(t) >= 12

\* At most the first message is complete.
LEMMA CompleteIs ==
  ASSUME NEW ps \in Seq(Stream!Piece)
  PROVE  /\ \A it \in Stream!Complete(ps) : Len(ps) >= 1 /\ it = ps[1].of /\ ps[1].part # "pad"
         /\ \A it \in Item, k \in 1..2 : Leads(ps, it, k) => it \in Stream!Complete(ps)
<1>1. Len(ps) \in Nat /\ (ps # <<>> <=> Len(ps) >= 1)
  BY EmptySeq
<1>2. ASSUME NEW it \in Stream!Complete(ps)
      PROVE  Len(ps) >= 1 /\ it = ps[1].of /\ ps[1].part # "pad"
  BY <1>1, <1>2 DEF Stream!Complete
<1>3. ASSUME NEW it \in Item, NEW k \in 1..2, Leads(ps, it, k)
      PROVE  it \in Stream!Complete(ps)
  <2>1. CASE ps[1].part \in {"whole", "text"}
    BY <1>1, <1>3, <2>1 DEF Stream!Complete, Leads
  <2>2. CASE ps[1].part \in {"bit", "front"}
    <3>1. Len(ps) > 1 /\ ps[2].of = it /\ ps[2].part = "rest" /\ ps[1].of = it
      BY <1>1, <1>3, <2>2 DEF Leads
    <3>2. ps[2] \in Stream!Piece
      BY <1>1, <3>1, ElementOfSeq
    <3>3. ps[2] = [of |-> it, part |-> "rest"]
      BY <3>1, <3>2 DEF Stream!Piece
    <3> QED BY <2>2, <3>1, <3>3 DEF Stream!Complete
  <2> QED BY <1>3, <2>1, <2>2 DEF Leads
<1> QED BY <1>2, <1>3

\* What is read of a buffer that begins with a whole text.
LEMMA TextOutcome ==
  ASSUME Width = 4, NEW ps \in Seq(Stream!Piece), NEW t \in Seq(Char),
         NEW it \in Item, NEW k \in 1..2, NEW text \in TextsOf(it),
         TextFirst(ps, t, it, k, text),
         Settled(ps, t, it, k, text) \/ OneMore(ps, t, k, text)
  PROVE  Outcome(ps, t)
<1> DEFINE c == Chars(it)
           n == Len(text)
<1>1. /\ c \in Nat /\ n \in Nat /\ c >= 12 /\ c <= n
      /\ (it \in Padded <=> c < n) /\ \A i \in c + 1..n : text[i] = Pad
  BY TextOf DEF TextShape
<1>2. /\ Leads(ps, it, k) /\ n <= Len(t) /\ \A i \in 1..n : t[i] = text[i]
  BY DEF TextFirst
<1>3. Len(ps) \in Nat /\ Len(t) \in Nat
  OBVIOUS
<1>4. /\ it \in Stream!Complete(ps) /\ Len(ps) >= 1 /\ it = ps[1].of /\ ps[1].part # "pad"
      /\ \A m \in Stream!Complete(ps) : m = it
  BY <1>2, CompleteIs
<1>5. it \notin Padded => Stream!Pieces(ps) = k
  BY <1>2 DEF Leads, Stream!Pieces
<1>6. Len(t) >= 12
  BY <1>1, <1>2, <1>3
<1>7. Settled(ps, t, it, k, text) \/ OneMore(ps, t, k, text)
  OBVIOUS
<1> HIDE DEF c, n
<1>8. StartsAs(t, it, text)
  <2>1. \A i \in 1..c : i \in 1..n
    BY <1>1
  <2>2. c <= Len(t)
    BY <1>1, <1>2, <1>3
  <2> QED BY <1>2, <2>1, <2>2 DEF StartsAs, c
<1>9. CASE it \in Padded
  <2>1. c + 1 \in c + 1..n /\ c + 1 \in 1..n
    BY <1>1, <1>9
  <2>2. t[c + 1] = Pad
    BY <1>1, <1>2, <2>1
  <2>3. Decoded(t) = Serialize(it)
    BY <1>8, <2>2, ReadWhole DEF Seen, c, Char
  <2>4. it \in Stream!Decoded(ps)
    BY <1>4, <1>9 DEF Stream!Decoded
  <2> QED BY <1>4, <1>6, <2>3, <2>4 DEF Outcome
<1>10. CASE /\ it \notin Padded
            /\ (Len(ps) = k /\ Len(t) = n) \/ OneMore(ps, t, k, text)
  <2>1. c = n
    BY <1>1, <1>10
  <2>2. Seen(t, it)
    BY <1>10, <2>1 DEF Seen, OneMore, c, n
  <2>3. Decoded(t) = Serialize(it)
    BY <1>8, <2>2, ReadWhole DEF Char
  <2>4. it \in Stream!Decoded(ps)
    <3>1. \/ Len(ps) = Stream!Pieces(ps)
          \/ Len(ps) = Stream!Pieces(ps) + 1 /\ ps[Len(ps)].part = "bit"
      BY <1>5, <1>10 DEF OneMore
    <3> QED BY <1>4, <3>1 DEF Stream!Decoded
  <2> QED BY <1>4, <1>6, <2>3, <2>4 DEF Outcome
<1>11. CASE /\ it \notin Padded /\ Len(ps) > k /\ Len(t) >= n + 2
            /\ t[n + 1] # Pad /\ t[n + 2] # Pad
  <2>1. c = n
    BY <1>1, <1>11
  <2>2. Decoded(t) = <<>>
    BY <1>8, <1>11, <2>1, ReadGarbled DEF Char, c
  <2>3. Stream!MayFail(ps)
    BY <1>4, <1>5, <1>11 DEF Stream!MayFail
  <2>4. Fits(ps, t)
    BY <1>3, <1>6, <1>11 DEF Fits, Stream!MayBeLong
  <2> QED BY <2>2, <2>3, <2>4 DEF Outcome
<1> QED BY <1>7, <1>9, <1>10, <1>11 DEF Settled, n

\* What is read of any.
LEMMA BeginsOutcome ==
  ASSUME Width = 4, NEW ps \in Seq(Stream!Piece), NEW t \in Seq(Char), Begins(ps, t)
  PROVE  Outcome(ps, t)
<1>1. Len(ps) \in Nat /\ Len(t) \in Nat
  OBVIOUS
<1>2. CASE PadFirst(ps, t) /\ Fits(ps, t)
  <2>1. Decoded(t) = <<>>
    BY <1>1, <1>2, ReadPad DEF PadFirst, Char
  <2>2. Stream!MayFail(ps)
    BY <1>2, CompleteIs DEF PadFirst, Stream!MayFail
  <2> QED BY <1>2, <2>1, <2>2 DEF Outcome
<1>3. ASSUME NEW it \in Item, NEW k \in 1..2, NEW text \in TextsOf(it),
             TextFirst(ps, t, it, k, text),
             Settled(ps, t, it, k, text) \/ OneMore(ps, t, k, text)
      PROVE  Outcome(ps, t)
  BY <1>3, TextOutcome
<1>4. ASSUME NEW it \in Item, NEW text \in TextsOf(it), NEW q \in Part,
             Len(ps) = 1, ps[1].of = it, Cuts(it, text, Len(t), ps[1].part, q),
             \A i \in 1..Len(t) : t[i] = text[i]
      PROVE  Outcome(ps, t)
  <2> DEFINE c == Chars(it)
             n == Len(text)
             l == Len(t)
  <2>1. /\ c \in Nat /\ n \in Nat /\ c >= 12 /\ c <= n
        /\ \A i \in c + 1..n : text[i] = Pad
    BY <1>4, TextOf DEF TextShape
  <2>2. l \in 1..n - 1 /\ \A i \in 1..l : t[i] = text[i]
    BY <1>4 DEF Cuts
  <2>3. ps # <<>>
    <3>1. Len(ps) # 0
      BY <1>4
    <3> QED BY <3>1, EmptySeq
  <2> HIDE DEF c, n, l
  <2>4. CASE l >= c /\ it \in Padded /\ ps[1].part = "text"
    <3>1. StartsAs(t, it, text)
      <4>1. \A i \in 1..c : i \in 1..l
        BY <2>1, <2>2, <2>4
      <4> QED BY <2>2, <2>4, <4>1 DEF StartsAs, c, l
    <3>2. l = c \/ t[c + 1] = Pad
      <4>1. l = c \/ (c + 1 \in 1..l /\ c + 1 \in c + 1..n)
        BY <2>1, <2>2, <2>4
      <4> QED BY <2>1, <2>2, <4>1
    <3>3. Seen(t, it)
      BY <3>2 DEF Seen, c, l
    <3>4. Decoded(t) = Serialize(it)
      BY <1>4, <3>1, <3>3, ReadWhole DEF Char
    <3>5. it \in Stream!Decoded(ps)
      BY <1>4, <2>3, <2>4 DEF Stream!Complete, Stream!Decoded
    <3>6. Len(t) >= 12
      BY <2>1, <2>2, <2>4 DEF l
    <3> QED BY <1>4, <2>4, <3>4, <3>5, <3>6 DEF Outcome
  <2>5. CASE l < c /\ ps[1].part = IF l < 12 THEN "bit" ELSE "front"
    <3>1. Decoded(t) = <<>>
      BY <1>4, <2>2, <2>5, ReadShort DEF Char, c, l
    <3>2. Stream!MayFail(ps)
      <4>1. \A m \in Stream!Complete(ps) : FALSE
        BY <1>4, <2>5 DEF Stream!Complete
      <4> QED BY <4>1 DEF Stream!MayFail
    <3>3. Fits(ps, t)
      <4>1. l < 12 => \A i \in 1..Len(ps) : ps[i].part \in {"bit", "pad"}
        BY <1>4, <2>5
      <4>2. l >= 12 => ~(ps[1].part \in {"bit", "pad"}) /\ 1 \in 1..Len(ps)
        BY <1>4, <2>2, <2>5
      <4> QED BY <4>1, <4>2 DEF Fits, Stream!MayBeShort, Stream!MayBeLong, l
    <3> QED BY <3>1, <3>2, <3>3 DEF Outcome
  <2> QED BY <1>4, <2>2, <2>4, <2>5 DEF Cuts, c, l
<1> QED BY <1>2, <1>3, <1>4 DEF Begins

-----------------------------------------------------------------------------
(* What is added to a receive buffer.                                      *)

\* Between texts, the buffer may be read.
LEMMA BetweenBegins ==
  ASSUME NEW ps \in Seq(Stream!Piece), NEW t \in Seq(Char), Between(ps, t), Len(ps) >= 1
  PROVE  Begins(ps, t)
<1>1. Len(ps) \in Nat /\ Len(t) \in Nat /\ ps # <<>>
  BY EmptySeq
<1>2. CASE PadFirst(ps, t) /\ (IF Len(ps) = 1 THEN Len(t) < 12 ELSE Len(t) >= 12)
  <2>1. Fits(ps, t)
    <3>1. Len(ps) = 1 => Stream!MayBeShort(ps)
      BY <1>2 DEF PadFirst, Stream!MayBeShort
    <3>2. Len(ps) # 1 => Stream!MayBeLong(ps)
      <4> DEFINE l == Len(ps)
      <4>1. l \in Nat /\ l >= 1
        BY <1>1
      <4> HIDE DEF l
      <4>2. l # 1 => l > 1
        BY <4>1
      <4> QED BY <4>2, Zenon DEF Stream!MayBeLong, l
    <3> QED BY <1>1, <1>2, <3>1, <3>2 DEF Fits
  <2> QED BY <1>2, <2>1 DEF Begins
<1>3. CASE \E it \in Item : \E k \in 1..2, text \in TextsOf(it) :
             TextFirst(ps, t, it, k, text) /\ Settled(ps, t, it, k, text)
  BY <1>3 DEF Begins
<1> QED BY <1>1, <1>2, <1>3 DEF Between

\* A whole text behind it, and it is between texts again.
LEMMA AddText ==
  ASSUME Width = 4, NEW ps \in Seq(Stream!Piece), NEW t \in Seq(Char), Between(ps, t),
         NEW us \in Seq(Stream!Piece), NEW it \in Item, Leads(us, it, Len(us)),
         NEW text \in TextsOf(it)
  PROVE  Between(ps \o us, t \o text)
<1> DEFINE n == Len(text)
           qs == ps \o us
           u == t \o text
<1>1. /\ text \in Seq(Char) /\ n \in Nat /\ n >= 12
      /\ text[1] # Pad /\ text[2] # Pad
  <2>1. /\ text \in Seq(Char) /\ Chars(it) \in Nat /\ Chars(it) >= 12 /\ Chars(it) <= n
        /\ n \in Nat /\ \A i \in 1..Chars(it) : text[i] # Pad
    BY TextOf DEF TextShape, Char
  <2> HIDE DEF n
  <2>2. 1 \in 1..Chars(it) /\ 2 \in 1..Chars(it)
    BY <2>1
  <2> QED BY <2>1, <2>2
<1>2. Len(us) \in 1..2
  BY DEF Leads
<1>3. Joined(Stream!Piece, ps, us) /\ Joined(Char, t, text)
  BY <1>1, Joins, Zenon
<1>4. /\ qs \in Seq(Stream!Piece) /\ Len(qs) = Len(ps) + Len(us) /\ Len(ps) \in Nat
      /\ \A i \in 1..Len(ps) : qs[i] = ps[i]
  BY <1>3 DEF Joined
<1>5. /\ u \in Seq(Char) /\ Len(u) = Len(t) + n /\ Len(t) \in Nat
      /\ \A i \in 1..Len(t) : u[i] = t[i]
      /\ \A i \in 1..n : u[Len(t) + i] = text[i]
  BY <1>3 DEF Joined
<1>6. CASE ps = <<>> /\ t = <<>>
  <2>1. qs = us /\ u = text
    BY <1>1, <1>6, ConcatEmptySeq
  <2>2. TextFirst(us, text, it, Len(us), text)
    BY <1>1 DEF TextFirst
  <2>3. Settled(us, text, it, Len(us), text)
    BY DEF Settled
  <2> QED BY <1>2, <2>1, <2>2, <2>3 DEF Between
<1> HIDE DEF qs, u, n
<1>7. CASE PadFirst(ps, t)
  <2>1. 1 \in 1..Len(ps) /\ 1 \in 1..Len(t)
    BY <1>4, <1>5, <1>7 DEF PadFirst
  <2>2. PadFirst(qs, u)
    BY <1>1, <1>2, <1>4, <1>5, <1>7, <2>1 DEF PadFirst
  <2>3. Len(qs) # 1 /\ Len(u) >= 12
    BY <1>1, <1>2, <1>4, <1>5, <2>1, SMTT(20)
  <2> QED BY <2>2, <2>3 DEF Between, qs, u
<1>8. ASSUME NEW it0 \in Item, NEW k \in 1..2, NEW text0 \in TextsOf(it0),
             TextFirst(ps, t, it0, k, text0), Settled(ps, t, it0, k, text0)
      PROVE  Between(qs, u)
  <2>1. Leads(ps, it0, k) /\ Len(text0) <= Len(t) /\ \A i \in 1..Len(text0) : t[i] = text0[i]
    BY <1>8 DEF TextFirst
  <2>2. Len(text0) \in Nat
    BY <1>8, TextOf DEF TextShape
  <2>3. 1 \in 1..Len(ps) /\ (k = 2 => 2 \in 1..Len(ps)) /\ k <= Len(ps)
    BY <1>4, <2>1 DEF Leads
  <2>4. Leads(qs, it0, k)
    <3>1. qs[1] = ps[1] /\ (k = 2 => qs[2] = ps[2]) /\ k <= Len(qs)
      BY <1>2, <1>4, <2>3
    <3> QED BY <2>1, <3>1 DEF Leads
  <2>5. TextFirst(qs, u, it0, k, text0)
    <3>1. \A i \in 1..Len(text0) : i \in 1..Len(t)
      BY <1>5, <2>1, <2>2
    <3>2. Len(text0) <= Len(u) /\ \A i \in 1..Len(text0) : u[i] = text0[i]
      BY <1>1, <1>5, <2>1, <2>2, <3>1
    <3> QED BY <1>8, <2>4, <3>2 DEF TextFirst
  <2>6. Settled(qs, u, it0, k, text0)
    <3>1. CASE it0 \in Padded
      BY <3>1 DEF Settled
    <3>2. CASE Len(ps) = k /\ Len(t) = Len(text0)
      <4>1. Len(qs) > k /\ Len(u) >= Len(text0) + 2
        <5>0. Len(qs) = k + Len(us)
          BY <1>4, <3>2
        <5> DEFINE l == Len(us)
        <5>1. l \in 1..2
          BY <1>2
        <5> HIDE DEF l
        <5>2. k + l > k
          BY <5>1
        <5>3. Len(u) = Len(text0) + n
          BY <1>5, <3>2
        <5> QED BY <1>1, <2>2, <5>0, <5>2, <5>3 DEF l
      <4>2. u[Len(text0) + 1] # Pad /\ u[Len(text0) + 2] # Pad
        <5>1. 1 \in 1..n /\ 2 \in 1..n
          BY <1>1
        <5> QED BY <1>1, <1>5, <3>2, <5>1
      <4> QED BY <4>1, <4>2 DEF Settled
    <3>3. CASE /\ Len(ps) > k /\ Len(t) >= Len(text0) + 2
               /\ t[Len(text0) + 1] # Pad /\ t[Len(text0) + 2] # Pad
      <4>1. Len(qs) > k /\ Len(u) >= Len(text0) + 2
        BY <1>1, <1>2, <1>4, <1>5, <2>2, <3>3
      <4>2. Len(text0) + 1 \in 1..Len(t) /\ Len(text0) + 2 \in 1..Len(t)
        BY <1>5, <2>2, <3>3
      <4>3. u[Len(text0) + 1] # Pad /\ u[Len(text0) + 2] # Pad
        BY <1>5, <3>3, <4>2
      <4> QED BY <4>1, <4>3 DEF Settled
    <3> QED BY <1>8, <3>1, <3>2, <3>3 DEF Settled
  <2> QED BY <1>8, <2>5, <2>6 DEF Between
<1> QED BY <1>6, <1>7, <1>8 DEF Between, qs, u

\* The first half of a text behind it, and it may be read.
LEMMA AddHalf ==
  ASSUME Width = 4, NEW ps \in Seq(Stream!Piece), NEW t \in Seq(Char), Between(ps, t),
         NEW it \in Item, NEW text \in TextsOf(it), NEW h \in Seq(Char),
         NEW p \in Part, NEW q \in Part, Cuts(it, text, Len(h), p, q),
         \A i \in 1..Len(h) : h[i] = text[i]
  PROVE  Begins(ps \o <<[of |-> it, part |-> p]>>, t \o h)
<1> DEFINE n == Len(h)
           us == <<[of |-> it, part |-> p]>>
           qs == ps \o us
           u == t \o h
<1>1. /\ n \in Nat /\ n >= 1 /\ (n < 12 => p = "bit")
      /\ h[1] # Pad /\ (n >= 2 => h[2] # Pad)
  <2>1. /\ Chars(it) \in Nat /\ Chars(it) >= 12 /\ Len(text) \in Nat
        /\ \A i \in 1..Chars(it) : text[i] # Pad
    BY TextOf DEF TextShape
  <2>2. n \in 1..Len(text) - 1 /\ (n < Chars(it) /\ n < 12 => p = "bit")
    <3>1. n \in 1..Len(text) - 1
      BY DEF Cuts
    <3> HIDE DEF n
    <3>2. n < Chars(it) /\ n < 12 => ~(n >= Chars(it)) /\ ~(n >= 12)
      BY <2>1, <3>1
    <3> QED BY <3>1, <3>2 DEF Cuts, n
  <2> HIDE DEF n
  <2>3. 1 \in 1..Chars(it) /\ 2 \in 1..Chars(it)
    BY <2>1
  <2>4. 1 \in 1..n /\ (n >= 2 => 2 \in 1..n) /\ n \in Nat /\ (n < 12 => n < Chars(it))
    BY <2>1, <2>2
  <2>5. \A i \in 1..n : h[i] = text[i]
    BY DEF n
  <2> QED BY <2>1, <2>2, <2>3, <2>4, <2>5
<1>2. us \in Seq(Stream!Piece) /\ Len(us) = 1 /\ us[1] = [of |-> it, part |-> p]
  BY DEF Stream!Piece, Part
<1>3. Joined(Stream!Piece, ps, us) /\ Joined(Char, t, h)
  BY <1>2, Joins, Zenon
<1>4. /\ qs \in Seq(Stream!Piece) /\ Len(qs) = Len(ps) + 1 /\ Len(ps) \in Nat
      /\ \A i \in 1..Len(ps) : qs[i] = ps[i]
      /\ qs[Len(ps) + 1] = [of |-> it, part |-> p]
  BY <1>2, <1>3 DEF Joined
<1>5. /\ u \in Seq(Char) /\ Len(u) = Len(t) + n /\ Len(t) \in Nat
      /\ \A i \in 1..Len(t) : u[i] = t[i]
      /\ \A i \in 1..n : u[Len(t) + i] = h[i]
  BY <1>3 DEF Joined
<1>6. CASE ps = <<>> /\ t = <<>>
  <2>1. qs = us /\ u = h
    BY <1>2, <1>6, ConcatEmptySeq
  <2>2. Len(us) = 1 /\ us[1].of = it /\ us[1].part = p
    BY <1>2
  <2> QED BY <2>1, <2>2 DEF Begins
<1> HIDE DEF qs, u, n, us
<1>7. CASE PadFirst(ps, t) /\ (IF Len(ps) = 1 THEN Len(t) < 12 ELSE Len(t) >= 12)
  <2>1. 1 \in 1..Len(ps) /\ 1 \in 1..Len(t)
    BY <1>4, <1>5, <1>7 DEF PadFirst
  <2>2. PadFirst(qs, u)
    BY <1>1, <1>4, <1>5, <1>7, <2>1 DEF PadFirst
  <2>3. Len(qs) > 1
    BY <1>4, <2>1
  <2>4. ASSUME Len(u) < 12
        PROVE  Stream!MayBeShort(qs)
    <3>1. Len(t) < 12 /\ n < 12
      BY <1>1, <1>5, <2>4
    <3>2. Len(ps) = 1 /\ qs[1].part = "pad" /\ qs[2].part = "bit"
      <4>1. Len(ps) = 1 /\ p = "bit"
        BY <1>1, <1>7, <3>1
      <4>2. qs[1] = ps[1] /\ qs[2] = [of |-> it, part |-> p]
        BY <1>4, <2>1, <4>1
      <4> QED BY <1>7, <4>1, <4>2 DEF PadFirst
    <3>3. \A i \in 1..Len(qs) : i = 1 \/ i = 2
      BY <1>4, <3>2
    <3> QED BY <3>2, <3>3 DEF Stream!MayBeShort
  <2>5. Fits(qs, u)
    BY <2>3, <2>4 DEF Fits, Stream!MayBeLong
  <2> QED BY <2>2, <2>5 DEF Begins, qs, u, us
<1>8. ASSUME NEW it0 \in Item, NEW k \in 1..2, NEW text0 \in TextsOf(it0),
             TextFirst(ps, t, it0, k, text0), Settled(ps, t, it0, k, text0)
      PROVE  Begins(qs, u)
  <2>1. Leads(ps, it0, k) /\ Len(text0) <= Len(t) /\ \A i \in 1..Len(text0) : t[i] = text0[i]
    BY <1>8 DEF TextFirst
  <2>2. Len(text0) \in Nat
    BY <1>8, TextOf DEF TextShape
  <2>3. 1 \in 1..Len(ps) /\ (k = 2 => 2 \in 1..Len(ps)) /\ k <= Len(ps)
    BY <1>4, <2>1 DEF Leads
  <2>4. Leads(qs, it0, k)
    <3>1. qs[1] = ps[1] /\ (k = 2 => qs[2] = ps[2]) /\ k <= Len(qs)
      BY <1>4, <2>3
    <3> QED BY <2>1, <3>1 DEF Leads
  <2>5. TextFirst(qs, u, it0, k, text0)
    <3>1. \A i \in 1..Len(text0) : i \in 1..Len(t)
      BY <1>5, <2>1, <2>2
    <3>2. Len(text0) <= Len(u) /\ \A i \in 1..Len(text0) : u[i] = text0[i]
      BY <1>1, <1>5, <2>1, <2>2, <3>1
    <3> QED BY <1>8, <2>4, <3>2 DEF TextFirst
  <2>6. Settled(qs, u, it0, k, text0) \/ OneMore(qs, u, k, text0)
    <3>1. CASE it0 \in Padded
      BY <3>1 DEF Settled
    <3>2. CASE Len(ps) = k /\ Len(t) = Len(text0) /\ n = 1
      BY <1>1, <1>4, <1>5, <3>2 DEF OneMore
    <3>3. CASE Len(ps) = k /\ Len(t) = Len(text0) /\ n >= 2
      <4>1. Len(qs) > k /\ Len(u) >= Len(text0) + 2
        BY <1>1, <1>4, <1>5, <3>3
      <4>2. u[Len(text0) + 1] # Pad /\ u[Len(text0) + 2] # Pad
        <5>1. 1 \in 1..n /\ 2 \in 1..n
          BY <1>1, <3>3
        <5> QED BY <1>1, <1>5, <3>3, <5>1
      <4> QED BY <4>1, <4>2 DEF Settled
    <3>4. CASE /\ Len(ps) > k /\ Len(t) >= Len(text0) + 2
               /\ t[Len(text0) + 1] # Pad /\ t[Len(text0) + 2] # Pad
      <4>1. Len(qs) > k /\ Len(u) >= Len(text0) + 2
        BY <1>1, <1>4, <1>5, <2>2, <3>4
      <4>2. Len(text0) + 1 \in 1..Len(t) /\ Len(text0) + 2 \in 1..Len(t)
        BY <1>5, <2>2, <3>4
      <4>3. u[Len(text0) + 1] # Pad /\ u[Len(text0) + 2] # Pad
        BY <1>5, <3>4, <4>2
      <4> QED BY <4>1, <4>3 DEF Settled
    <3>5. n = 1 \/ n >= 2
      BY <1>1
    <3> QED BY <1>8, <3>1, <3>2, <3>3, <3>4, <3>5 DEF Settled
  <2> QED BY <1>8, <2>5, <2>6 DEF Begins
<1> QED BY <1>6, <1>7, <1>8 DEF Between, qs, u, us

-----------------------------------------------------------------------------
(* What is on its way, for what has been sent.                             *)

WirePiece == [of : Item, part : Part, text : Seq(Char)]

\* From the j-th piece on, the wire has whole texts: of all that was sent after
\* the first k.
Rest(s, w, j, k) ==
  /\ j <= Len(w) + 1 /\ Len(w) + k + 1 = j + Len(s)
  /\ \A i \in j..Len(w) : /\ w[i].part = "whole" /\ w[i].text \in TextsOf(w[i].of)
                          /\ w[i].of = s[(k + 1 + i) - j]

\* Two halves of a text.
Halves(it, p, h, q, r) ==
  /\ h \in Seq(Char) /\ r \in Seq(Char) /\ p \in Part /\ q \in Part
  /\ h \o r \in TextsOf(it) /\ Cuts(it, h \o r, Len(h), p, q)

\* No text is in two halves, or one is and has not come, or half of it has.
Uncut(s, ps, t, w, k) == Between(ps, t) /\ Rest(s, w, 1, k)
CutAhead(s, ps, t, w, k) ==
  /\ Between(ps, t) /\ Len(w) >= 2 /\ k < Len(s) /\ Rest(s, w, 3, k + 1)
  /\ w[1].of = s[k + 1] /\ w[2].of = s[k + 1]
  /\ Halves(s[k + 1], w[1].part, w[1].text, w[2].part, w[2].text)
CutThrough(s, ps, t, w, k) ==
  /\ Len(w) >= 1 /\ k >= 1 /\ Rest(s, w, 2, k) /\ w[1].of = s[k]
  /\ \E qs \in Seq(Stream!Piece), u \in Seq(Char), h \in Seq(Char), p \in Part :
       /\ Between(qs, u) /\ Halves(s[k], p, h, w[1].part, w[1].text)
       /\ ps = qs \o <<[of |-> s[k], part |-> p]>> /\ t = u \o h

\* A server has handed on all of a text but the end of its padding.
PadAhead(e, s, ps, t, w, k) ==
  /\ e = "server" /\ ps = <<>> /\ t = <<>> /\ Len(w) >= 1 /\ Rest(s, w, 2, k)
  /\ w[1].part = "pad" /\ Len(w[1].text) \in 1..2 /\ w[1].text[1] = Pad

Shaped(e, s, ps, t, w, k) ==
  \/ Uncut(s, ps, t, w, k) \/ CutAhead(s, ps, t, w, k)
  \/ CutThrough(s, ps, t, w, k) \/ PadAhead(e, s, ps, t, w, k)

\* The wire without its first piece.
Dropped(w, v) == Len(v) + 1 = Len(w) /\ \A i \in 1..Len(v) : v[i] = w[i + 1]

\* It has what it had from there on.
LEMMA RestDrops ==
  ASSUME NEW s \in Seq(Item), NEW w \in Seq(WirePiece), NEW v \in Seq(WirePiece),
         Dropped(w, v), NEW j \in 2..3, NEW k \in Nat, Rest(s, w, j, k)
  PROVE  Rest(s, v, j - 1, k)
<1> DEFINE m == Len(w)
           n == Len(v)
           l == Len(s)
<1>1. m \in Nat /\ n \in Nat /\ l \in Nat
  OBVIOUS
<1>2. n + 1 = m /\ \A i \in 1..n : v[i] = w[i + 1]
  BY DEF Dropped
<1>3. /\ j <= m + 1 /\ m + k + 1 = j + l
      /\ \A i \in j..m : /\ w[i].part = "whole" /\ w[i].text \in TextsOf(w[i].of)
                         /\ w[i].of = s[(k + 1 + i) - j]
  BY DEF Rest
<1> HIDE DEF m, n, l
<1>4. j - 1 <= n + 1 /\ n + k + 1 = (j - 1) + l
  BY <1>1, <1>2, <1>3
<1>5. ASSUME NEW i \in j - 1..n
      PROVE  /\ v[i].part = "whole" /\ v[i].text \in TextsOf(v[i].of)
             /\ v[i].of = s[(k + 1 + i) - (j - 1)]
  <2>1. i \in 1..n /\ i + 1 \in j..m /\ (k + 1 + (i + 1)) - j = (k + 1 + i) - (j - 1)
    BY <1>1, <1>2
  <2>2. v[i] = w[i + 1]
    BY <1>2, <2>1
  <2>3. /\ w[i + 1].part = "whole" /\ w[i + 1].text \in TextsOf(w[i + 1].of)
        /\ w[i + 1].of = s[(k + 1 + (i + 1)) - j]
    BY <1>3, <2>1
  <2> QED BY <2>1, <2>2, <2>3
<1> QED BY <1>4, <1>5 DEF Rest, m, n, l

\* A piece that is whole is the next of those that were sent.
LEMMA RestFirst ==
  ASSUME NEW s \in Seq(Item), NEW w \in Seq(WirePiece), NEW k \in Nat, Rest(s, w, 1, k),
         Len(w) >= 1
  PROVE  /\ k < Len(s) /\ w[1].of = s[k + 1] /\ s[k + 1] \in Item
         /\ w[1].part = "whole" /\ w[1].text \in TextsOf(s[k + 1])
         /\ Rest(s, w, 2, k + 1)
<1> DEFINE m == Len(w)
           l == Len(s)
<1>1. m \in Nat /\ l \in Nat /\ m >= 1
  OBVIOUS
<1>2. /\ m + k + 1 = 1 + l
      /\ \A i \in 1..m : /\ w[i].part = "whole" /\ w[i].text \in TextsOf(w[i].of)
                         /\ w[i].of = s[(k + 1 + i) - 1]
  BY DEF Rest
<1> HIDE DEF m, l
<1>3. 1 \in 1..m /\ (k + 1 + 1) - 1 = k + 1
  BY <1>1
<1>4. w[1].part = "whole" /\ w[1].text \in TextsOf(w[1].of) /\ w[1].of = s[k + 1]
  BY <1>2, <1>3
<1>5. k < l /\ 2 <= m + 1 /\ m + (k + 1) + 1 = 2 + l /\ k + 1 \in 1..l
  <2>1. m + k + 1 = 1 + l
    BY <1>2
  <2> QED BY <1>1, <2>1
<1>6. ASSUME NEW i \in 2..m
      PROVE  /\ w[i].part = "whole" /\ w[i].text \in TextsOf(w[i].of)
             /\ w[i].of = s[((k + 1) + 1 + i) - 2]
  <2>1. i \in 1..m /\ ((k + 1) + 1 + i) - 2 = (k + 1 + i) - 1
    BY <1>1
  <2> QED BY <1>2, <2>1
<1>7. Rest(s, w, 2, k + 1)
  BY <1>5, <1>6 DEF Rest, m, l
<1>8. s[k + 1] \in Item
  BY <1>5, ElementOfSeq DEF l
<1> QED BY <1>4, <1>5, <1>7, <1>8 DEF l

\* What is sent goes to its end.
LEMMA RestGrows ==
  ASSUME NEW s \in Seq(Item), NEW w \in Seq(WirePiece), NEW j \in 1..3, NEW k \in Nat,
         Rest(s, w, j, k), NEW it \in Item, NEW text \in TextsOf(it), text \in Seq(Char)
  PROVE  LET x == [of |-> it, part |-> "whole", text |-> text]
         IN Append(w, x) \in Seq(WirePiece) /\ Rest(Append(s, it), Append(w, x), j, k)
<1> DEFINE m == Len(w)
           l == Len(s)
           x == [of |-> it, part |-> "whole", text |-> text]
           w1 == Append(w, x)
           s1 == Append(s, it)
<1>1. m \in Nat /\ l \in Nat /\ x \in WirePiece
  BY DEF WirePiece, Part
<1>2. /\ j <= m + 1 /\ m + k + 1 = j + l
      /\ \A i \in j..m : /\ w[i].part = "whole" /\ w[i].text \in TextsOf(w[i].of)
                         /\ w[i].of = s[(k + 1 + i) - j]
  BY DEF Rest
<1>3. /\ w1 \in Seq(WirePiece) /\ Len(w1) = m + 1 /\ w1[m + 1] = x
      /\ \A i \in 1..m : w1[i] = w[i]
  BY <1>1, AppendProperties
<1>4. /\ Len(s1) = l + 1 /\ s1[l + 1] = it
      /\ \A i \in 1..l : s1[i] = s[i]
  BY AppendProperties
<1>5. x.of = it /\ x.part = "whole" /\ x.text = text
  OBVIOUS
<1> HIDE DEF m, l, x, w1, s1
<1>6. j <= (m + 1) + 1 /\ (m + 1) + k + 1 = j + (l + 1)
  BY <1>1, <1>2
<1>7. ASSUME NEW i \in j..m + 1
      PROVE  /\ w1[i].part = "whole" /\ w1[i].text \in TextsOf(w1[i].of)
             /\ w1[i].of = s1[(k + 1 + i) - j]
  <2>1. CASE i <= m
    <3>1. i \in 1..m /\ i \in j..m /\ (k + 1 + i) - j \in 1..l
      BY <1>1, <1>2, <2>1
    <3>2. w1[i] = w[i] /\ s1[(k + 1 + i) - j] = s[(k + 1 + i) - j]
      BY <1>3, <1>4, <3>1
    <3> QED BY <1>2, <3>1, <3>2
  <2>2. CASE i = m + 1
    <3>1. (k + 1 + i) - j = l + 1
      BY <1>1, <1>2, <2>2
    <3> QED BY <1>3, <1>4, <1>5, <2>2, <3>1
  <2> QED BY <1>1, <2>1, <2>2
<1>8. Rest(s1, w1, j, k)
  BY <1>3, <1>4, <1>6, <1>7 DEF Rest
<1> QED BY <1>3, <1>8 DEF w1, s1, x

-----------------------------------------------------------------------------
(* One piece is taken off the wire.                                        *)

\* Sequences are put together in any order of the steps.
LEMMA Regroups == \A S : \A s, t, u \in Seq(S) : Regrouped(s, t, u)
BY ConcatAssociative DEF Regrouped

One(w) == <<[of |-> w[1].of, part |-> w[1].part]>>

\* What is taken is a piece and some characters.
LEMMA OneIs ==
  ASSUME NEW w \in Seq(WirePiece), Len(w) >= 1
  PROVE  /\ w[1] \in WirePiece /\ w[1].text \in Seq(Char)
         /\ One(w) \in Seq(Stream!Piece) /\ Len(One(w)) = 1
         /\ One(w)[1].of = w[1].of /\ One(w)[1].part = w[1].part
<1>1. w[1] \in WirePiece
  <2>1. 1 \in 1..Len(w)
    OBVIOUS
  <2> QED BY <2>1, ElementOfSeq
<1> DEFINE x == [of |-> w[1].of, part |-> w[1].part]
<1>2. x \in Stream!Piece /\ x.of = w[1].of /\ x.part = w[1].part
  BY <1>1 DEF WirePiece, Stream!Piece, Part
<1>3. One(w) = <<x>>
  BY DEF One
<1> HIDE DEF x
<1>4. <<x>> \in Seq(Stream!Piece) /\ Len(<<x>>) = 1 /\ <<x>>[1] = x
  BY <1>2
<1> QED BY <1>1, <1>2, <1>3, <1>4 DEF WirePiece

\* A whole text.
LEMMA TakeWhole ==
  ASSUME Width = 4, NEW s \in Seq(Item), NEW ps \in Seq(Stream!Piece), NEW t \in Seq(Char),
         NEW w \in Seq(WirePiece), NEW v \in Seq(WirePiece), NEW k \in Nat,
         Uncut(s, ps, t, w, k), Len(w) >= 1, Dropped(w, v)
  PROVE  /\ k < Len(s) /\ w[1].of = s[k + 1]
         /\ Uncut(s, ps \o One(w), t \o w[1].text, v, k + 1)
<1>1. Between(ps, t) /\ Rest(s, w, 1, k)
  BY DEF Uncut
<1>2. /\ k < Len(s) /\ w[1].of = s[k + 1] /\ s[k + 1] \in Item
      /\ w[1].part = "whole" /\ w[1].text \in TextsOf(s[k + 1])
      /\ Rest(s, w, 2, k + 1)
  BY <1>1, RestFirst
<1>3. Rest(s, v, 1, k + 1)
  <2>1. Rest(s, v, 2 - 1, k + 1)
    BY <1>2, RestDrops
  <2> QED BY <2>1
<1>4. /\ One(w) \in Seq(Stream!Piece) /\ Len(One(w)) = 1
      /\ One(w)[1].of = s[k + 1] /\ One(w)[1].part = "whole"
  BY <1>2, OneIs
<1>5. Leads(One(w), s[k + 1], Len(One(w)))
  BY <1>4 DEF Leads
<1>6. Between(ps \o One(w), t \o w[1].text)
  BY <1>1, <1>2, <1>4, <1>5, AddText
<1> QED BY <1>2, <1>3, <1>6 DEF Uncut

\* The first half of one.
LEMMA TakeHalf ==
  ASSUME Width = 4, NEW s \in Seq(Item), NEW ps \in Seq(Stream!Piece), NEW t \in Seq(Char),
         NEW w \in Seq(WirePiece), NEW v \in Seq(WirePiece), NEW k \in Nat,
         CutAhead(s, ps, t, w, k), Dropped(w, v)
  PROVE  /\ Begins(ps \o One(w), t \o w[1].text)
         /\ CutThrough(s, ps \o One(w), t \o w[1].text, v, k + 1)
<1> DEFINE it == s[k + 1]
           h == w[1].text
           r == w[2].text
           p == w[1].part
           q == w[2].part
<1>1. /\ Between(ps, t) /\ Len(w) >= 2 /\ k < Len(s) /\ Rest(s, w, 3, k + 1)
      /\ w[1].of = it /\ w[2].of = it /\ Halves(it, p, h, q, r)
  BY DEF CutAhead
<1>2. it \in Item
  <2>1. k + 1 \in 1..Len(s)
    BY <1>1
  <2> QED BY <2>1, ElementOfSeq
<1>3. /\ h \in Seq(Char) /\ r \in Seq(Char) /\ p \in Part /\ q \in Part
      /\ h \o r \in TextsOf(it) /\ Cuts(it, h \o r, Len(h), p, q)
  BY <1>1 DEF Halves
<1>4. \A i \in 1..Len(h) : h[i] = (h \o r)[i]
  <2>1. Joined(Char, h, r)
    BY <1>3, Joins, Zenon
  <2> QED BY <2>1 DEF Joined
<1>5. One(w) = <<[of |-> it, part |-> p]>>
  BY <1>1 DEF One
<1>6. Len(v) >= 1 /\ v[1] = w[2]
  <2>1. Len(v) + 1 = Len(w) /\ Len(v) \in Nat /\ Len(w) \in Nat
    BY DEF Dropped
  <2>2. Len(v) >= 1 /\ 1 \in 1..Len(v)
    BY <1>1, <2>1
  <2> QED BY <2>2 DEF Dropped
<1>7. Rest(s, v, 2, k + 1)
  <2>1. Rest(s, v, 3 - 1, k + 1)
    BY <1>1, RestDrops
  <2> QED BY <2>1
<1> HIDE DEF it, h, r, p, q
<1>8. Begins(ps \o One(w), t \o h)
  <2>1. Begins(ps \o <<[of |-> it, part |-> p]>>, t \o h)
    BY <1>1, <1>2, <1>3, <1>4, AddHalf
  <2> QED BY <1>5, <2>1
<1>9. CutThrough(s, ps \o One(w), t \o h, v, k + 1)
  <2>1. /\ Between(ps, t) /\ Halves(s[k + 1], p, h, v[1].part, v[1].text)
        /\ ps \o One(w) = ps \o <<[of |-> s[k + 1], part |-> p]>>
    BY <1>1, <1>5, <1>6 DEF it, r, q
  <2>2. v[1].of = s[k + 1] /\ k + 1 >= 1
    BY <1>1, <1>6 DEF it
  <2>3. \E qs \in Seq(Stream!Piece), u \in Seq(Char), h1 \in Seq(Char), p1 \in Part :
          /\ Between(qs, u) /\ Halves(s[k + 1], p1, h1, v[1].part, v[1].text)
          /\ ps \o One(w) = qs \o <<[of |-> s[k + 1], part |-> p1]>> /\ t \o h = u \o h1
    BY <1>3, <2>1, Zenon
  <2> QED BY <1>6, <1>7, <2>2, <2>3, Zenon DEF CutThrough
<1> QED BY <1>8, <1>9 DEF h

\* The second half of one.
LEMMA TakeOtherHalf ==
  ASSUME Width = 4, NEW s \in Seq(Item), NEW ps \in Seq(Stream!Piece), NEW t \in Seq(Char),
         NEW w \in Seq(WirePiece), NEW v \in Seq(WirePiece), NEW k \in 0..Len(s),
         CutThrough(s, ps, t, w, k), Dropped(w, v)
  PROVE  Uncut(s, ps \o One(w), t \o w[1].text, v, k)
<1> DEFINE it == s[k]
           r == w[1].text
           q == w[1].part
<1>1. Len(w) >= 1 /\ k >= 1 /\ Rest(s, w, 2, k) /\ w[1].of = it
  BY DEF CutThrough
<1>2. PICK qs \in Seq(Stream!Piece), u \in Seq(Char), h \in Seq(Char), p \in Part :
        /\ Between(qs, u) /\ Halves(s[k], p, h, w[1].part, w[1].text)
        /\ ps = qs \o <<[of |-> s[k], part |-> p]>> /\ t = u \o h
  BY DEF CutThrough
<1>3. it \in Item /\ k \in Nat
  <2>1. k \in 1..Len(s)
    BY <1>1
  <2> QED BY <2>1, ElementOfSeq
<1>4. /\ r \in Seq(Char) /\ q \in Part
      /\ h \o r \in TextsOf(it) /\ Cuts(it, h \o r, Len(h), p, q)
  BY <1>2 DEF Halves
<1> DEFINE a == <<[of |-> it, part |-> p]>>
           b == One(w)
<1>5. a \in Seq(Stream!Piece) /\ Len(a) = 1 /\ a[1].of = it /\ a[1].part = p
  BY <1>3 DEF Stream!Piece, Part
<1>6. b \in Seq(Stream!Piece) /\ Len(b) = 1 /\ b[1].of = it /\ b[1].part = q
  BY <1>1, OneIs
<1> HIDE DEF it, r, q, a, b
<1>7. ps \o b = qs \o (a \o b) /\ t \o r = u \o (h \o r)
  <2>1. Regrouped(qs, a, b) /\ Regrouped(u, h, r)
    BY <1>2, <1>4, <1>5, <1>6, Regroups, Zenon
  <2>2. ps = qs \o a /\ t = u \o h
    BY <1>2 DEF a, it
  <2> QED BY <2>1, <2>2, Zenon DEF Regrouped
<1>8. a \o b \in Seq(Stream!Piece) /\ Len(a \o b) = 2 /\ (a \o b)[1] = a[1] /\ (a \o b)[2] = b[1]
  <2>1. Joined(Stream!Piece, a, b)
    BY <1>5, <1>6, Joins, Zenon
  <2>2. 1 \in 1..Len(a) /\ 1 \in 1..Len(b) /\ Len(a) + 1 = 2
    BY <1>5, <1>6
  <2> QED BY <1>5, <1>6, <2>1, <2>2 DEF Joined
<1>9. Leads(a \o b, it, Len(a \o b))
  <2>1. \/ it \in Padded /\ p = "text" /\ q = "pad"
        \/ p \in {"bit", "front"} /\ q = "rest"
    BY <1>4 DEF Cuts
  <2> QED BY <1>5, <1>6, <1>8, <2>1 DEF Leads
<1>10. Between(qs \o (a \o b), u \o (h \o r))
  BY <1>2, <1>3, <1>4, <1>8, <1>9, AddText
<1>11. Rest(s, v, 1, k)
  <2>1. Rest(s, v, 2 - 1, k)
    BY <1>1, <1>3, RestDrops
  <2> QED BY <2>1
<1> QED BY <1>7, <1>10, <1>11 DEF Uncut, b, r

\* The end of a padding.
LEMMA TakePad ==
  ASSUME Width = 4, NEW s \in Seq(Item), NEW e, NEW ps \in Seq(Stream!Piece), NEW t \in Seq(Char),
         NEW w \in Seq(WirePiece), NEW v \in Seq(WirePiece), NEW k \in Nat,
         PadAhead(e, s, ps, t, w, k), Dropped(w, v)
  PROVE  /\ Uncut(s, ps \o One(w), t \o w[1].text, v, k)
         /\ w[1].part = "pad"
<1> DEFINE r == w[1].text
<1>1. /\ ps = <<>> /\ t = <<>> /\ Len(w) >= 1 /\ Rest(s, w, 2, k)
      /\ w[1].part = "pad" /\ Len(r) \in 1..2 /\ r[1] = Pad
  BY DEF PadAhead
<1>2. /\ r \in Seq(Char) /\ One(w) \in Seq(Stream!Piece) /\ Len(One(w)) = 1
      /\ One(w)[1].part = "pad"
  BY <1>1, OneIs
<1>3. ps \o One(w) = One(w) /\ t \o r = r
  BY <1>1, <1>2, ConcatEmptySeq
<1> HIDE DEF r
<1>4. Between(One(w), r)
  <2>1. Len(One(w)) >= 1 /\ Len(r) >= 1 /\ Len(r) < 12
    <3>1. Len(r) \in 1..2
      BY <1>1
    <3> DEFINE n == Len(r)
    <3> HIDE DEF n
    <3>2. n \in 1..2 => n >= 1 /\ n < 12
      OBVIOUS
    <3> QED BY <1>2, <3>1, <3>2 DEF n
  <2>2. PadFirst(One(w), r)
    BY <1>1, <1>2, <2>1, Zenon DEF PadFirst
  <2> QED BY <1>2, <2>1, <2>2 DEF Between
<1>5. Rest(s, v, 1, k)
  <2>1. Rest(s, v, 2 - 1, k)
    BY <1>1, RestDrops
  <2> QED BY <2>1
<1> QED BY <1>1, <1>3, <1>4, <1>5 DEF Uncut, r

\* The halves of a text that is cut in its padding.
LEMMA PadHalf ==
  ASSUME Width = 4, NEW it \in Item, NEW h, NEW q, NEW r, Halves(it, "text", h, q, r)
  PROVE  q = "pad" /\ Len(r) \in 1..2 /\ r[1] = Pad
<1> DEFINE c == Chars(it)
           m == Len(h)
           n == Len(r)
           text == h \o r
<1>1. /\ h \in Seq(Char) /\ r \in Seq(Char) /\ text \in TextsOf(it)
      /\ Cuts(it, text, m, "text", q)
  BY DEF Halves
<1>2. /\ Len(text) = m + n /\ m \in Nat /\ n \in Nat
      /\ \A i \in 1..n : text[m + i] = r[i]
  <2>1. Joined(Char, h, r)
    BY <1>1, Joins, Zenon
  <2> QED BY <2>1 DEF Joined
<1>3. /\ c \in Nat /\ Len(text) <= c + 2
      /\ \A i \in c + 1..Len(text) : text[i] = Pad
  BY <1>1, TextOf DEF TextShape
<1>4. m \in 1..Len(text) - 1 /\ m >= c /\ q = "pad"
  BY <1>1 DEF Cuts
<1> HIDE DEF c, m, n, text
<1>5. m + n <= c + 2 /\ m >= c /\ m + n >= m + 1
  BY <1>2, <1>3, <1>4
<1>6. n \in 1..2
  BY <1>2, <1>3, <1>5
<1>7. m + 1 \in c + 1..Len(text) /\ 1 \in 1..n
  BY <1>2, <1>3, <1>5, <1>6
<1>8. r[1] = Pad
  BY <1>2, <1>3, <1>7
<1> QED BY <1>4, <1>6, <1>8 DEF n

\* What is known of the first piece once something has come.
First(s, ps, qs, k, l) ==
  IF Len(ps) = 0 THEN qs[1].part = "pad" \/ (k < l /\ s[k + 1] = qs[1].of)
  ELSE qs[1] = ps[1]

\* And that the server may clear the buffer when a message has become complete.
Clears(e, s, ps, qs, x, l) ==
  e = "server" /\ ~(Stream!Complete(qs) \subseteq Stream!Complete(ps))
    => Shaped(e, s, <<>>, <<>>, x, l)

Taken(e, s, ps, qs, u, x, k, l) ==
  /\ Begins(qs, u) /\ Len(qs) >= 1
  /\ Uncut(s, qs, u, x, l) \/ CutThrough(s, qs, u, x, l)
  /\ First(s, ps, qs, k, l) /\ Clears(e, s, ps, qs, x, l)

\* A buffer that begins with a text goes on beginning with it.
LEMMA SameHead ==
  ASSUME NEW ps \in Seq(Stream!Piece), NEW t, Between(ps, t), Len(ps) >= 1,
         NEW qs \in Seq(Stream!Piece), qs[1] = ps[1]
  PROVE  Stream!Complete(qs) \subseteq Stream!Complete(ps)
<1>1. SUFFICES ASSUME NEW it \in Stream!Complete(qs)
               PROVE  it \in Stream!Complete(ps)
  OBVIOUS
<1>2. it = ps[1].of /\ ps[1].part # "pad"
  <2>1. it = qs[1].of /\ qs[1].part # "pad"
    BY <1>1, CompleteIs
  <2> QED BY <2>1
<1>3. ps # <<>>
  BY EmptySeq
<1>4. \E it0 \in Item : \E k \in 1..2, text \in TextsOf(it0) :
        TextFirst(ps, t, it0, k, text) /\ Settled(ps, t, it0, k, text)
  <2>1. ~PadFirst(ps, t)
    BY <1>2 DEF PadFirst
  <2> QED BY <1>3, <2>1, Zenon DEF Between
<1>5. PICK it0 \in Item, k \in 1..2 : Leads(ps, it0, k)
  BY <1>4, Zenon DEF TextFirst
<1>6. it0 = it
  BY <1>2, <1>5 DEF Leads
<1> QED BY <1>5, <1>6, CompleteIs

\* An empty buffer is between texts.
LEMMA Cleared ==
  ASSUME NEW e, NEW s, NEW ps, NEW t, NEW x, NEW l, Uncut(s, ps, t, x, l)
  PROVE  Shaped(e, s, <<>>, <<>>, x, l)
BY DEF Uncut, Shaped, Between

\* The first piece of two parts.
LEMMA HeadStays ==
  ASSUME NEW ps \in Seq(Stream!Piece), NEW us \in Seq(Stream!Piece), Len(us) = 1
  PROVE  LET qs == ps \o us IN
         /\ qs \in Seq(Stream!Piece) /\ Len(qs) >= 1
         /\ IF Len(ps) = 0 THEN qs = us ELSE qs[1] = ps[1]
<1>1. Joined(Stream!Piece, ps, us)
  BY Joins, Zenon
<1>2. CASE Len(ps) = 0
  <2>1. ps = <<>>
    BY <1>2, EmptySeq
  <2>2. ps \o us = us
    BY <2>1, ConcatEmptySeq
  <2> QED BY <1>2, <2>2
<1>3. CASE Len(ps) # 0
  <2>1. Len(ps) \in Nat /\ 1 \in 1..Len(ps)
    BY <1>1, <1>3 DEF Joined
  <2>2. (ps \o us)[1] = ps[1] /\ Len(ps \o us) >= 1
    BY <1>1, <2>1 DEF Joined
  <2> QED BY <1>1, <1>3, <2>2 DEF Joined
<1> QED BY <1>2, <1>3

\* One piece is taken off the wire, whatever the wire and the buffer are like.
LEMMA TakeOne ==
  ASSUME Width = 4, NEW e, NEW s \in Seq(Item), NEW ps \in Seq(Stream!Piece),
         NEW t \in Seq(Char), NEW w \in Seq(WirePiece), NEW v \in Seq(WirePiece),
         NEW k \in 0..Len(s), Shaped(e, s, ps, t, w, k), Len(w) >= 1, Dropped(w, v)
  PROVE  \E l \in k..Len(s) :
           /\ Taken(e, s, ps, ps \o One(w), t \o w[1].text, v, k, l)
           /\ Uncut(s, ps, t, w, k) \/ CutThrough(s, ps, t, w, k)
                => Uncut(s, ps \o One(w), t \o w[1].text, v, l)
<1> DEFINE qs == ps \o One(w)
           u == t \o w[1].text
<1>1. /\ w[1].text \in Seq(Char) /\ One(w) \in Seq(Stream!Piece) /\ Len(One(w)) = 1
      /\ One(w)[1].of = w[1].of /\ One(w)[1].part = w[1].part
  BY OneIs
<1>2. /\ qs \in Seq(Stream!Piece) /\ Len(qs) >= 1
      /\ IF Len(ps) = 0 THEN qs = One(w) ELSE qs[1] = ps[1]
  BY <1>1, HeadStays
<1>3. u \in Seq(Char)
  BY <1>1, ConcatProperties
<1>4. k \in Nat /\ Len(s) \in Nat /\ k <= Len(s)
  OBVIOUS
<1> HIDE DEF qs, u
<1>5. ASSUME NEW l \in k..Len(s), Uncut(s, qs, u, v, l), First(s, ps, qs, k, l)
      PROVE  \E i \in k..Len(s) :
               /\ Taken(e, s, ps, qs, u, v, k, i)
               /\ Uncut(s, ps, t, w, k) \/ CutThrough(s, ps, t, w, k) => Uncut(s, qs, u, v, i)
  <2>1. Begins(qs, u)
    BY <1>2, <1>3, <1>5, BetweenBegins DEF Uncut
  <2>2. Clears(e, s, ps, qs, v, l)
    BY <1>5, Cleared DEF Clears
  <2> QED BY <1>2, <1>5, <2>1, <2>2 DEF Taken
<1>6. CASE Uncut(s, ps, t, w, k)
  <2>1. k < Len(s) /\ w[1].of = s[k + 1] /\ Uncut(s, qs, u, v, k + 1)
    BY <1>4, <1>6, TakeWhole DEF qs, u
  <2>2. k + 1 \in k..Len(s) /\ k < k + 1
    BY <1>4, <2>1
  <2>3. First(s, ps, qs, k, k + 1)
    BY <1>1, <1>2, <2>1, <2>2 DEF First
  <2> QED BY <1>5, <2>1, <2>2, <2>3 DEF qs, u
<1>7. CASE CutThrough(s, ps, t, w, k)
  <2>1. Uncut(s, qs, u, v, k)
    BY <1>7, TakeOtherHalf DEF qs, u
  <2>2. Len(ps) # 0
    <3>1. PICK ps0 \in Seq(Stream!Piece), p \in Part : ps = ps0 \o <<[of |-> s[k], part |-> p]>>
      BY <1>7 DEF CutThrough
    <3>2. k \in 1..Len(s)
      BY <1>4, <1>7 DEF CutThrough
    <3>3. s[k] \in Item
      BY <3>2, ElementOfSeq
    <3>4. <<[of |-> s[k], part |-> p]>> \in Seq(Stream!Piece)
      BY <3>3 DEF Stream!Piece, Part
    <3>5. Len(<<[of |-> s[k], part |-> p]>>) = 1
      OBVIOUS
    <3>6. Len(ps) >= 1
      BY <3>1, <3>4, <3>5, HeadStays
    <3> QED BY <3>6
  <2>3. First(s, ps, qs, k, k) /\ k \in k..Len(s)
    BY <1>2, <1>4, <2>2 DEF First
  <2> QED BY <1>5, <2>1, <2>3 DEF qs, u
<1>8. CASE PadAhead(e, s, ps, t, w, k)
  <2>1. Uncut(s, qs, u, v, k) /\ w[1].part = "pad"
    BY <1>4, <1>8, TakePad DEF qs, u
  <2>2. First(s, ps, qs, k, k) /\ k \in k..Len(s)
    <3>1. Len(ps) = 0
      BY <1>8 DEF PadAhead
    <3>2. One(w)[1].part = "pad"
      BY <1>1, <2>1, Zenon
    <3>3. qs = One(w)
      BY <1>2, <3>1, Zenon
    <3> QED BY <1>4, <3>1, <3>2, <3>3 DEF First
  <2> QED BY <1>5, <2>1, <2>2 DEF qs, u
<1>9. CASE /\ CutAhead(s, ps, t, w, k)
           /\ ~Uncut(s, ps, t, w, k) /\ ~CutThrough(s, ps, t, w, k)
  <2>1. Begins(qs, u) /\ CutThrough(s, qs, u, v, k + 1)
    BY <1>4, <1>9, TakeHalf DEF qs, u
  <2>2. k < Len(s) /\ w[1].of = s[k + 1] /\ Between(ps, t)
    BY <1>9 DEF CutAhead
  <2>3. k + 1 \in k..Len(s) /\ k < k + 1
    BY <1>4, <2>2
  <2>4. First(s, ps, qs, k, k + 1)
    BY <1>1, <1>2, <2>2, <2>3 DEF First
  <2>5. Clears(e, s, ps, qs, v, k + 1)
    <3>1. SUFFICES ASSUME e = "server", ~(Stream!Complete(qs) \subseteq Stream!Complete(ps))
                   PROVE  Shaped(e, s, <<>>, <<>>, v, k + 1)
      BY DEF Clears
    <3>2. Len(ps) = 0
      <4>1. ASSUME Len(ps) # 0
            PROVE  FALSE
        <5>1. Len(ps) >= 1
          BY <4>1
        <5> QED BY <1>2, <2>2, <3>1, <4>1, <5>1, SameHead
      <4> QED BY <4>1
    <3>3. w[1].part = "text"
      <4>1. PICK it : it \in Stream!Complete(qs)
        BY <3>1
      <4>2. Len(qs) = 1 /\ qs[1].part = w[1].part
        BY <1>1, <1>2, <3>2
      <4>3. w[1].part \in {"whole", "text"}
        BY <4>1, <4>2 DEF Stream!Complete
      <4>4. w[1].part # "whole"
        BY <1>9 DEF CutAhead, Halves, Cuts
      <4> QED BY <4>3, <4>4
    <3>4. /\ Len(w) >= 2 /\ Rest(s, w, 3, k + 1)
          /\ Halves(s[k + 1], "text", w[1].text, w[2].part, w[2].text)
      BY <1>9, <3>3 DEF CutAhead
    <3>5. s[k + 1] \in Item
      <4>1. k + 1 \in 1..Len(s)
        BY <1>4, <2>2
      <4> QED BY <4>1, ElementOfSeq
    <3>6. w[2].part = "pad" /\ Len(w[2].text) \in 1..2 /\ w[2].text[1] = Pad
      BY <3>4, <3>5, PadHalf
    <3>7. Len(v) >= 1 /\ v[1] = w[2]
      <4>1. Len(v) + 1 = Len(w) /\ Len(v) \in Nat /\ Len(w) \in Nat
        BY DEF Dropped
      <4>2. Len(v) >= 1 /\ 1 \in 1..Len(v)
        BY <3>4, <4>1
      <4> QED BY <4>2 DEF Dropped
    <3>8. Rest(s, v, 2, k + 1)
      <4>1. Rest(s, v, 3 - 1, k + 1)
        BY <1>4, <3>4, RestDrops
      <4> QED BY <4>1
    <3>9. PadAhead(e, s, <<>>, <<>>, v, k + 1)
      BY <3>1, <3>6, <3>7, <3>8 DEF PadAhead
    <3> QED BY <3>9 DEF Shaped
  <2>6. Taken(e, s, ps, qs, u, v, k, k + 1)
    BY <1>2, <2>1, <2>4, <2>5 DEF Taken
  <2> QED BY <1>9, <2>3, <2>6 DEF qs, u
<1> QED BY <1>6, <1>7, <1>8, <1>9 DEF Shaped

\* The wire without its first piece, and without two.
LEMMA DropsOne ==
  ASSUME NEW w \in Seq(WirePiece), NEW n \in 1..2, n <= Len(w)
  PROVE  LET a == SubSeq(w, n, Len(w))
             b == SubSeq(w, n + 1, Len(w))
         IN /\ a \in Seq(WirePiece) /\ b \in Seq(WirePiece) /\ Dropped(a, b)
            /\ Len(a) >= 1 /\ a[1] = w[n] /\ (n = 1 => a = w)
<1> DEFINE m == Len(w)
           a == SubSeq(w, n, m)
           b == SubSeq(w, n + 1, m)
<1>1. m \in Nat /\ n \in Nat /\ n >= 1 /\ n <= m
  OBVIOUS
<1>2. /\ a \in Seq(WirePiece) /\ Len(a) = m - n + 1
      /\ \A i \in 1..m - n + 1 : a[i] = w[n + i - 1]
  BY <1>1, SubSeqProperties
<1>3. /\ b \in Seq(WirePiece) /\ Len(b) = m - (n + 1) + 1
      /\ \A i \in 1..m - (n + 1) + 1 : b[i] = w[(n + 1) + i - 1]
  BY <1>1, SubSeqProperties
<1>4. n = 1 => a = w
  BY <1>1, <1>2, SeqEqual
<1> HIDE DEF m, a, b
<1>5. Len(b) + 1 = Len(a) /\ Len(b) \in Nat
  BY <1>1, <1>2, <1>3
<1>6. ASSUME NEW i \in 1..Len(b)
      PROVE  b[i] = a[i + 1]
  <2>1. i \in 1..m - (n + 1) + 1 /\ i + 1 \in 1..m - n + 1
    BY <1>1, <1>3
  <2>2. (n + 1) + i - 1 = n + (i + 1) - 1
    BY <1>1, <2>1
  <2>3. b[i] = w[(n + 1) + i - 1] /\ a[i + 1] = w[n + (i + 1) - 1]
    BY <1>2, <1>3, <2>1
  <2> QED BY <2>2, <2>3
<1>7. Len(a) >= 1 /\ a[1] = w[n]
  <2>1. 1 \in 1..m - n + 1 /\ n + 1 - 1 = n
    BY <1>1
  <2> QED BY <1>1, <1>2, <2>1
<1> QED BY <1>2, <1>3, <1>4, <1>5, <1>6, <1>7 DEF Dropped, a, b, m

\* What has come with one Read, put together.
LEMMA CameIs ==
  ASSUME wire \in Seq(WirePiece), Len(wire) >= 1
  PROVE  /\ Came(1) = One(wire) /\ Texts(1) = wire[1].text
         /\ \A v \in Seq(WirePiece) : Len(v) >= 1 /\ v[1] = wire[2] =>
              Came(2) = One(wire) \o One(v) /\ Texts(2) = wire[1].text \o v[1].text
<1>1. Came(1) = One(wire)
  BY DEF Came, One
<1>2. Texts(1) = wire[1].text
  BY DEF Texts
<1>3. ASSUME NEW v \in Seq(WirePiece), Len(v) >= 1, v[1] = wire[2]
      PROVE  Came(2) = One(wire) \o One(v) /\ Texts(2) = wire[1].text \o v[1].text
  <2> DEFINE x == [of |-> wire[1].of, part |-> wire[1].part]
             y == [of |-> wire[2].of, part |-> wire[2].part]
  <2>1. One(wire) = <<x>> /\ One(v) = <<y>>
    BY <1>3 DEF One
  <2>2. Came(2) = <<x, y>>
    <3>1. Came(2) = [i \in 1..2 |-> [of |-> wire[i].of, part |-> wire[i].part]]
      BY DEF Came
    <3> QED BY <3>1
  <2> HIDE DEF x, y
  <2>3. <<x>> \o <<y>> = <<x, y>>
    <3> DEFINE a == <<x>>
               b == <<y>>
               c == <<x, y>>
    <3>1. /\ a \in Seq({x, y}) /\ Len(a) = 1 /\ a[1] = x
          /\ b \in Seq({x, y}) /\ Len(b) = 1 /\ b[1] = y
          /\ c \in Seq({x, y}) /\ Len(c) = 2 /\ c[1] = x /\ c[2] = y
      OBVIOUS
    <3> HIDE DEF a, b, c
    <3>2. Joined({x, y}, a, b)
      BY <3>1, Joins, Zenon
    <3>3. 1 \in 1..Len(a) /\ 1 \in 1..Len(b) /\ Len(a) + 1 = 2 /\ Len(a) + Len(b) = 2
      BY <3>1
    <3>4. /\ a \o b \in Seq({x, y}) /\ Len(a \o b) = 2
          /\ (a \o b)[1] = x /\ (a \o b)[2] = y
      BY <3>1, <3>2, <3>3 DEF Joined
    <3>5. \A i \in 1..2 : (a \o b)[i] = c[i]
      <4>1. \A i \in 1..2 : i = 1 \/ i = 2
        OBVIOUS
      <4> QED BY <3>1, <3>4, <4>1
    <3>6. a \o b = c
      BY <3>1, <3>4, <3>5, SeqEqual
    <3> QED BY <3>6 DEF a, b, c
  <2>4. Texts(2) = wire[1].text \o v[1].text
    BY <1>3 DEF Texts
  <2> QED BY <2>1, <2>2, <2>3, <2>4
<1> QED BY <1>1, <1>2, <1>3

\* One piece is taken, or two.
LEMMA TakeSome ==
  ASSUME Width = 4, sent \in Seq(Item), pieces \in Seq(Stream!Piece),
         recv_buf \in Seq(Char), wire \in Seq(WirePiece),
         NEW k \in 0..Len(sent), Shaped(end, sent, pieces, recv_buf, wire, k),
         NEW n \in 1..2, n <= Len(wire)
  PROVE  LET qs == pieces \o Came(n)
             u == recv_buf \o Texts(n)
             x == SubSeq(wire, n + 1, Len(wire))
         IN /\ qs \in Seq(Stream!Piece) /\ u \in Seq(Char) /\ x \in Seq(WirePiece)
            /\ \E l \in k..Len(sent) : Taken(end, sent, pieces, qs, u, x, k, l)
<1> DEFINE v == SubSeq(wire, 2, Len(wire))
           ps1 == pieces \o One(wire)
           t1 == recv_buf \o wire[1].text
<1>1. Len(wire) >= 1 /\ Len(sent) \in Nat
  OBVIOUS
<1>2. v \in Seq(WirePiece) /\ Dropped(wire, v)
  <2>1. 1 \in 1..2 /\ 1 <= Len(wire) /\ 1 + 1 = 2
    BY <1>1
  <2>2. /\ SubSeq(wire, 1 + 1, Len(wire)) \in Seq(WirePiece)
        /\ Dropped(SubSeq(wire, 1, Len(wire)), SubSeq(wire, 1 + 1, Len(wire)))
        /\ SubSeq(wire, 1, Len(wire)) = wire
    BY <2>1, DropsOne
  <2> QED BY <2>1, <2>2
<1>3. wire[1].text \in Seq(Char) /\ One(wire) \in Seq(Stream!Piece) /\ Len(One(wire)) = 1
  BY <1>1, OneIs
<1>4. ps1 \in Seq(Stream!Piece) /\ Len(ps1) >= 1
  BY <1>3, HeadStays
<1>5. t1 \in Seq(Char)
  BY <1>3, ConcatProperties
<1>6. PICK l \in k..Len(sent) : Taken(end, sent, pieces, ps1, t1, v, k, l)
    BY <1>1, <1>2, TakeOne
<1>7. Came(1) = One(wire) /\ Texts(1) = wire[1].text
  BY <1>1, CameIs
<1> HIDE DEF v, ps1, t1
<1>8. CASE n = 1
  <2>1. pieces \o Came(n) = ps1 /\ recv_buf \o Texts(n) = t1
    BY <1>7, <1>8 DEF ps1, t1
  <2>2. SubSeq(wire, n + 1, Len(wire)) = v
    <3>1. n + 1 = 2
      BY <1>8
    <3> QED BY <3>1 DEF v
  <2> QED BY <1>2, <1>4, <1>5, <1>6, <2>1, <2>2
<1>9. CASE n = 2
  <2> DEFINE x == SubSeq(wire, 3, Len(wire))
             qs == ps1 \o One(v)
             u == t1 \o v[1].text
  <2>1. x \in Seq(WirePiece) /\ Dropped(v, x) /\ Len(v) >= 1 /\ v[1] = wire[2]
    <3>1. 2 \in 1..2 /\ 2 <= Len(wire) /\ 2 + 1 = 3
      BY <1>9
    <3>2. LET a == SubSeq(wire, 2, Len(wire))
              b == SubSeq(wire, 2 + 1, Len(wire))
          IN b \in Seq(WirePiece) /\ Dropped(a, b) /\ Len(a) >= 1 /\ a[1] = wire[2]
      BY <3>1, DropsOne
    <3> QED BY <3>1, <3>2 DEF v
  <2>2. v[1].text \in Seq(Char) /\ One(v) \in Seq(Stream!Piece) /\ Len(One(v)) = 1
    BY <1>2, <2>1, OneIs
  <2>3. /\ qs \in Seq(Stream!Piece) /\ Len(qs) >= 1 /\ qs[1] = ps1[1]
        /\ u \in Seq(Char)
    <3>1. qs \in Seq(Stream!Piece) /\ Len(qs) >= 1 /\ (Len(ps1) # 0 => qs[1] = ps1[1])
      BY <1>4, <2>2, HeadStays
    <3>2. u \in Seq(Char)
      BY <1>5, <2>2, ConcatProperties
    <3> QED BY <1>4, <3>1, <3>2
  <2>4. /\ Uncut(sent, ps1, t1, v, l) \/ CutThrough(sent, ps1, t1, v, l)
        /\ First(sent, pieces, ps1, k, l)
    BY <1>6 DEF Taken
  <2>5. l \in 0..Len(sent) /\ l \in k..Len(sent)
    BY <1>1
  <2>6. PICK i \in l..Len(sent) :
          /\ Taken(end, sent, ps1, qs, u, x, l, i)
          /\ Uncut(sent, ps1, t1, v, l) \/ CutThrough(sent, ps1, t1, v, l)
               => Uncut(sent, qs, u, x, i)
    <3>1. Shaped(end, sent, ps1, t1, v, l)
      BY <2>4 DEF Shaped
    <3> HIDE DEF x
    <3> QED BY <1>2, <1>4, <1>5, <2>1, <2>5, <3>1, TakeOne
  <2> HIDE DEF x, qs, u
  <2>7. Taken(end, sent, pieces, qs, u, x, k, i)
    <3>1. Begins(qs, u) /\ Uncut(sent, qs, u, x, i)
      BY <2>4, <2>6, Zenon DEF Taken
    <3>2. Clears(end, sent, pieces, qs, x, i)
      BY <3>1, Cleared DEF Clears
    <3>3. First(sent, pieces, qs, k, i)
      <4>1. k < l => k < i
        BY <1>1, <2>5, <2>6
      <4>2. First(sent, pieces, ps1, k, l)
        BY <2>4
      <4> QED BY <2>3, <4>1, <4>2 DEF First
    <3> QED BY <2>3, <3>1, <3>2, <3>3, Zenon DEF Taken
  <2>8. pieces \o Came(n) = qs /\ recv_buf \o Texts(n) = u
    <3>1. Came(n) = One(wire) \o One(v) /\ Texts(n) = wire[1].text \o v[1].text
      <4>1. Came(2) = One(wire) \o One(v) /\ Texts(2) = wire[1].text \o v[1].text
        BY <1>1, <1>2, <2>1, CameIs
      <4> QED BY <1>9, <4>1
    <3>2. /\ Regrouped(pieces, One(wire), One(v))
          /\ Regrouped(recv_buf, wire[1].text, v[1].text)
      BY <1>3, <2>2, Regroups, Zenon
    <3> QED BY <3>1, <3>2 DEF Regrouped, qs, u, ps1, t1
  <2>9. SubSeq(wire, n + 1, Len(wire)) = x
    <3>1. n + 1 = 3
      BY <1>9
    <3> QED BY <3>1 DEF x
  <2>10. i \in k..Len(sent)
    BY <1>1, <2>5, <2>6
  <2> QED BY <2>1, <2>3, <2>7, <2>8, <2>9, <2>10
<1> QED BY <1>8, <1>9

-----------------------------------------------------------------------------
(* The order of the messages handed on.                                    *)

\* What a server has handed on are messages of the first k that were sent.
Ordered(e, g, s, k) ==
  e = "server" =>
    \E f \in [1..Len(g) -> 1..k] :
      /\ \A i \in 1..Len(g) : g[i] = s[f[i]].message
      /\ \A i, j \in 1..Len(g) : i < j => f[i] < f[j]

\* And none of them is the one at the head of the buffer, or a later one.
Order(e, g, s, ps, k) ==
  \/ Len(ps) = 0 /\ Ordered(e, g, s, k)
  \/ Len(ps) >= 1 /\ ps[1].part = "pad" /\ Ordered(e, g, s, k)
  \/ Len(ps) >= 1 /\ \E h \in 1..k : s[h] = ps[1].of /\ Ordered(e, g, s, h - 1)

\* They are of the first l too, whatever is sent after those.
LEMMA OrderedMore ==
  ASSUME NEW e, NEW g, NEW s, NEW r, NEW k \in Nat, NEW l \in Nat, k <= l,
         Ordered(e, g, s, k), \A i \in 1..k : r[i] = s[i]
  PROVE  Ordered(e, g, r, l)
<1>1. SUFFICES ASSUME e = "server"
               PROVE  \E f \in [1..Len(g) -> 1..l] :
                        /\ \A i \in 1..Len(g) : g[i] = r[f[i]].message
                        /\ \A i, j \in 1..Len(g) : i < j => f[i] < f[j]
  BY DEF Ordered
<1>2. PICK f \in [1..Len(g) -> 1..k] :
        /\ \A i \in 1..Len(g) : g[i] = s[f[i]].message
        /\ \A i, j \in 1..Len(g) : i < j => f[i] < f[j]
  BY <1>1 DEF Ordered
<1>3. 1..k \subseteq 1..l
  OBVIOUS
<1>4. f \in [1..Len(g) -> 1..l]
  BY <1>3
<1>5. \A i \in 1..Len(g) : g[i] = r[f[i]].message
  BY <1>2
<1> QED BY <1>2, <1>4, <1>5

\* The next one is handed on.
LEMMA OrderedNext ==
  ASSUME NEW e, NEW S, NEW g \in Seq(S), NEW s, NEW h \in Nat, h >= 1, s[h].message \in S,
         Ordered(e, g, s, h - 1)
  PROVE  Ordered(e, Append(g, s[h].message), s, h)
<1> DEFINE n == Len(g)
           m == s[h].message
           g1 == Append(g, m)
<1>1. n \in Nat /\ Len(g1) = n + 1 /\ g1[n + 1] = m /\ \A i \in 1..n : g1[i] = g[i]
  BY AppendProperties
<1> HIDE DEF n, g1
<1>2. SUFFICES ASSUME e = "server"
               PROVE  \E f \in [1..n + 1 -> 1..h] :
                        /\ \A i \in 1..n + 1 : g1[i] = s[f[i]].message
                        /\ \A i, j \in 1..n + 1 : i < j => f[i] < f[j]
  BY <1>1 DEF Ordered, g1
<1>3. PICK f \in [1..n -> 1..h - 1] :
        /\ \A i \in 1..n : g[i] = s[f[i]].message
        /\ \A i, j \in 1..n : i < j => f[i] < f[j]
  BY <1>2 DEF Ordered, n
<1> DEFINE f1 == [i \in 1..n + 1 |-> IF i = n + 1 THEN h ELSE f[i]]
<1>4. \A i \in 1..n + 1 : i = n + 1 \/ i \in 1..n
  BY <1>1
<1>5. \A i \in 1..n : f[i] \in 1..h /\ f[i] < h /\ i # n + 1 /\ i \in 1..n + 1
  BY <1>1
<1>6. f1 \in [1..n + 1 -> 1..h]
  BY <1>4, <1>5
<1>7. n + 1 \in 1..n + 1
  BY <1>1
<1>8. f1[n + 1] = h /\ \A i \in 1..n : f1[i] = f[i]
  BY <1>5, <1>7
<1> HIDE DEF f1
<1>9. ASSUME NEW i \in 1..n + 1
      PROVE  g1[i] = s[f1[i]].message
  BY <1>1, <1>3, <1>4, <1>8 DEF m
<1>10. ASSUME NEW i \in 1..n + 1, NEW j \in 1..n + 1, i < j
       PROVE  f1[i] < f1[j]
  <2>1. i \in 1..n
    BY <1>1, <1>10
  <2> QED BY <1>3, <1>4, <1>5, <1>8, <1>10, <2>1
<1> QED BY <1>6, <1>9, <1>10

\* And so on, as more comes.
LEMMA OrderGoesOn ==
  ASSUME NEW e, NEW g, NEW s, Len(s) \in Nat, NEW ps \in Seq(Stream!Piece), NEW qs, NEW k \in Nat,
         NEW l \in k..Len(s), Order(e, g, s, ps, k), First(s, ps, qs, k, l), Len(qs) >= 1
  PROVE  Order(e, g, s, qs, l)
<1>1. l \in Nat /\ k <= l
  OBVIOUS
<1>2. Ordered(e, g, s, k) => Ordered(e, g, s, l)
  BY <1>1, OrderedMore
<1>3. CASE Len(ps) = 0
  <2>1. Ordered(e, g, s, k)
    BY <1>3 DEF Order
  <2>2. CASE qs[1].part = "pad"
    BY <1>2, <2>1, <2>2 DEF Order
  <2>3. CASE k < l /\ s[k + 1] = qs[1].of
    <3>1. k + 1 \in 1..l /\ (k + 1) - 1 = k
      BY <1>1, <2>3
    <3>2. Ordered(e, g, s, (k + 1) - 1)
      BY <2>1, <3>1
    <3> QED BY <2>3, <3>1, <3>2 DEF Order
  <2> QED BY <1>3, <2>2, <2>3 DEF First
<1>4. CASE Len(ps) # 0
  <2>1. qs[1] = ps[1]
    BY <1>4 DEF First
  <2>2. CASE ps[1].part = "pad" /\ Ordered(e, g, s, k)
    BY <1>2, <2>1, <2>2 DEF Order
  <2>3. CASE \E h \in 1..k : s[h] = ps[1].of /\ Ordered(e, g, s, h - 1)
    <3>1. PICK h \in 1..k : s[h] = ps[1].of /\ Ordered(e, g, s, h - 1)
      BY <2>3
    <3>2. h \in 1..l
      BY <1>1
    <3> QED BY <2>1, <3>1, <3>2 DEF Order
  <2> QED BY <1>4, <2>2, <2>3 DEF Order
<1> QED BY <1>3, <1>4

\* And so on, as more is sent.
LEMMA OrderGrows ==
  ASSUME NEW e, NEW g, NEW s \in Seq(Item), NEW it \in Item, NEW ps, NEW k \in 0..Len(s),
         Order(e, g, s, ps, k)
  PROVE  Order(e, g, Append(s, it), ps, k)
<1> DEFINE r == Append(s, it)
<1>1. \A i \in 1..Len(s) : r[i] = s[i]
  BY AppendProperties
<1>2. Len(s) \in Nat /\ k \in Nat /\ k <= Len(s)
  OBVIOUS
<1> HIDE DEF r
<1>3. ASSUME NEW j \in 0..k, Ordered(e, g, s, j)
      PROVE  Ordered(e, g, r, j)
  <2>1. j \in Nat /\ j <= j /\ \A i \in 1..j : i \in 1..Len(s)
    BY <1>2
  <2>2. \A i \in 1..j : r[i] = s[i]
    BY <1>1, <2>1
  <2> QED BY <1>3, <2>1, <2>2, OrderedMore
<1>4. k \in 0..k /\ \A h \in 1..k : h - 1 \in 0..k /\ h \in 1..Len(s)
  BY <1>2
<1> QED BY <1>1, <1>3, <1>4 DEF Order, r

-----------------------------------------------------------------------------
(* What is sent, and what TCP cuts.                                        *)

\* Another text goes to the end of the wire, whatever is before it.
LEMMA ShapeGrows ==
  ASSUME NEW e, NEW s \in Seq(Item), NEW ps, NEW t, NEW w \in Seq(WirePiece),
         NEW k \in 0..Len(s), Shaped(e, s, ps, t, w, k),
         NEW it \in Item, NEW text \in TextsOf(it), text \in Seq(Char)
  PROVE  LET x == [of |-> it, part |-> "whole", text |-> text]
         IN /\ Append(w, x) \in Seq(WirePiece)
            /\ Shaped(e, Append(s, it), ps, t, Append(w, x), k)
<1> DEFINE x == [of |-> it, part |-> "whole", text |-> text]
           s1 == Append(s, it)
           w1 == Append(w, x)
<1>1. /\ Len(s1) = Len(s) + 1 /\ Len(s) \in Nat /\ Len(w) \in Nat
      /\ \A i \in 1..Len(s) : s1[i] = s[i]
  BY AppendProperties
<1>2. /\ x \in WirePiece
      /\ w1 \in Seq(WirePiece) /\ Len(w1) = Len(w) + 1 /\ \A i \in 1..Len(w) : w1[i] = w[i]
  <2>1. x \in WirePiece
    BY DEF WirePiece, Part
  <2> HIDE DEF x
  <2> QED BY <2>1, AppendProperties
<1>3. k \in Nat /\ k <= Len(s)
  BY <1>1
<1>4. ASSUME NEW j \in 1..3, NEW i \in Nat, Rest(s, w, j, i)
      PROVE  Rest(s1, w1, j, i)
  BY <1>4, RestGrows
<1> HIDE DEF s1, w1
<1>5. CASE Uncut(s, ps, t, w, k)
  <2>1. Rest(s1, w1, 1, k)
    BY <1>3, <1>4, <1>5 DEF Uncut
  <2>2. Uncut(s1, ps, t, w1, k)
    BY <1>5, <2>1 DEF Uncut
  <2> QED BY <1>2, <2>2 DEF Shaped, s1, w1
<1>6. CASE CutAhead(s, ps, t, w, k)
  <2>1. Len(w) >= 2 /\ k < Len(s) /\ Rest(s, w, 3, k + 1)
    BY <1>6 DEF CutAhead
  <2>2. /\ 1 \in 1..Len(w) /\ 2 \in 1..Len(w) /\ Len(w1) >= 2
        /\ k + 1 \in 1..Len(s) /\ k < Len(s1) /\ k + 1 \in Nat
    BY <1>1, <1>2, <1>3, <2>1
  <2>3. w1[1] = w[1] /\ w1[2] = w[2] /\ s1[k + 1] = s[k + 1]
    BY <1>1, <1>2, <2>2
  <2>4. Rest(s1, w1, 3, k + 1)
    BY <1>4, <2>1, <2>2
  <2>5. CutAhead(s1, ps, t, w1, k)
    BY <1>6, <2>2, <2>3, <2>4 DEF CutAhead
  <2> QED BY <1>2, <2>5 DEF Shaped, s1, w1
<1>7. CASE CutThrough(s, ps, t, w, k)
  <2>1. Len(w) >= 1 /\ k >= 1 /\ Rest(s, w, 2, k)
    BY <1>7 DEF CutThrough
  <2>2. 1 \in 1..Len(w) /\ Len(w1) >= 1 /\ k \in 1..Len(s)
    BY <1>1, <1>2, <1>3, <2>1
  <2>3. w1[1] = w[1] /\ s1[k] = s[k]
    BY <1>1, <1>2, <2>2
  <2>4. Rest(s1, w1, 2, k)
    BY <1>3, <1>4, <2>1
  <2>5. CutThrough(s1, ps, t, w1, k)
    BY <1>7, <2>2, <2>3, <2>4 DEF CutThrough
  <2> QED BY <1>2, <2>5 DEF Shaped, s1, w1
<1>8. CASE PadAhead(e, s, ps, t, w, k)
  <2>1. Len(w) >= 1 /\ Rest(s, w, 2, k)
    BY <1>8 DEF PadAhead
  <2>2. 1 \in 1..Len(w) /\ Len(w1) >= 1
    BY <1>2, <2>1
  <2>3. w1[1] = w[1]
    BY <1>2, <2>2
  <2>4. Rest(s1, w1, 2, k)
    BY <1>3, <1>4, <2>1
  <2>5. PadAhead(e, s1, ps, t, w1, k)
    BY <1>8, <2>2, <2>3, <2>4 DEF PadAhead
  <2> QED BY <1>2, <2>5 DEF Shaped, s1, w1
<1> QED BY <1>5, <1>6, <1>7, <1>8 DEF Shaped

\* The two parts of a text that is cut.
LEMMA CutIs ==
  ASSUME Width = 4, NEW it \in Item, NEW text \in TextsOf(it), text \in Seq(Char),
         NEW n \in 1..Len(text) - 1
  PROVE  Halves(it, Parts(text, n)[1], SubSeq(text, 1, n),
                Parts(text, n)[2], SubSeq(text, n + 1, Len(text)))
<1> DEFINE m == Len(text)
           h == SubSeq(text, 1, n)
           r == SubSeq(text, n + 1, m)
           p == Parts(text, n)[1]
           q == Parts(text, n)[2]
<1>1. m \in Nat /\ n \in Nat /\ n >= 1 /\ n < m
  OBVIOUS
<1>2. /\ h \in Seq(Char) /\ Len(h) = n - 1 + 1
      /\ \A i \in 1..n - 1 + 1 : h[i] = text[1 + i - 1]
  BY <1>1, SubSeqProperties
<1>3. /\ r \in Seq(Char) /\ Len(r) = m - (n + 1) + 1
      /\ \A i \in 1..m - (n + 1) + 1 : r[i] = text[(n + 1) + i - 1]
  BY <1>1, SubSeqProperties
<1>4. Joined(Char, h, r)
  BY <1>2, <1>3, Joins, Zenon
<1>5. Cuts(it, text, n, p, q)
  BY PartsAre
<1> HIDE DEF m, h, r, p, q
<1>6. h \o r = text
  <2>1. Len(h \o r) = m
    BY <1>1, <1>2, <1>3, <1>4 DEF Joined
  <2>2. ASSUME NEW i \in 1..m
        PROVE  (h \o r)[i] = text[i]
    <3>1. CASE i <= n
      <4>1. i \in 1..Len(h) /\ i \in 1..n - 1 + 1 /\ 1 + i - 1 = i
        BY <1>1, <1>2, <3>1
      <4>2. (h \o r)[i] = h[i] /\ h[i] = text[1 + i - 1]
        BY <1>2, <1>4, <4>1 DEF Joined
      <4> QED BY <4>1, <4>2
    <3>2. CASE i > n
      <4> DEFINE j == i - n
      <4>1. /\ j \in 1..Len(r) /\ j \in 1..m - (n + 1) + 1 /\ (n + 1) + j - 1 = i
            /\ Len(h) + j = i
        BY <1>1, <1>2, <1>3, <3>2
      <4> HIDE DEF j
      <4>2. (h \o r)[Len(h) + j] = r[j] /\ r[j] = text[(n + 1) + j - 1]
        BY <1>3, <1>4, <4>1 DEF Joined
      <4> QED BY <4>1, <4>2
    <3>3. i <= n \/ i > n
      BY <1>1
    <3> QED BY <3>1, <3>2, <3>3, Zenon
  <2> QED BY <1>4, <2>1, <2>2, SeqEqual DEF Joined, m
<1>7. p \in Part /\ q \in Part
  BY <1>5 DEF Cuts, Part
<1>8. Len(h) = n
  BY <1>1, <1>2
<1> QED BY <1>2, <1>3, <1>5, <1>6, <1>7, <1>8 DEF Halves, m, h, r, p, q

\* Only a text that is not cut is cut, and there is no other that is.
LEMMA WholeFirst ==
  ASSUME NEW e, NEW s \in Seq(Item), NEW ps, NEW t, NEW w \in Seq(WirePiece),
         NEW k \in 0..Len(s), Shaped(e, s, ps, t, w, k), w[1].part = "whole"
  PROVE  Uncut(s, ps, t, w, k)
<1>1. ~CutAhead(s, ps, t, w, k)
  BY DEF CutAhead, Halves, Cuts
<1>2. ~CutThrough(s, ps, t, w, k)
  <2>1. SUFFICES ASSUME NEW h, NEW p, Halves(s[k], p, h, w[1].part, w[1].text)
                 PROVE  FALSE
    BY DEF CutThrough
  <2> QED BY <2>1 DEF Halves, Cuts
<1>3. ~PadAhead(e, s, ps, t, w, k)
  BY DEF PadAhead
<1> QED BY <1>1, <1>2, <1>3 DEF Shaped

\* And then it is ahead.
LEMMA SplitShape ==
  ASSUME Width = 4, NEW s \in Seq(Item), NEW ps \in Seq(Stream!Piece), NEW t \in Seq(Char),
         NEW w \in Seq(WirePiece), NEW k \in 0..Len(s), Uncut(s, ps, t, w, k), Len(w) >= 1,
         NEW n \in 1..Len(w[1].text), n < Len(w[1].text)
  PROVE  LET text == w[1].text
             a == [of |-> w[1].of, part |-> Parts(text, n)[1], text |-> SubSeq(text, 1, n)]
             b == [of |-> w[1].of, part |-> Parts(text, n)[2],
                   text |-> SubSeq(text, n + 1, Len(text))]
             w1 == <<a, b>> \o Tail(w)
         IN w1 \in Seq(WirePiece) /\ CutAhead(s, ps, t, w1, k)
<1> DEFINE text == w[1].text
           a == [of |-> w[1].of, part |-> Parts(text, n)[1], text |-> SubSeq(text, 1, n)]
           b == [of |-> w[1].of, part |-> Parts(text, n)[2],
                 text |-> SubSeq(text, n + 1, Len(text))]
           c == <<a, b>>
           d == Tail(w)
           w1 == c \o d
           it == s[k + 1]
<1>1. Between(ps, t) /\ Rest(s, w, 1, k) /\ k \in Nat
  BY DEF Uncut
<1>2. /\ k < Len(s) /\ w[1].of = it /\ it \in Item
      /\ w[1].part = "whole" /\ text \in TextsOf(it) /\ Rest(s, w, 2, k + 1)
  BY <1>1, RestFirst
<1>3. text \in Seq(Char) /\ n \in 1..Len(text) - 1
  <2>1. text \in Seq(Char)
    BY OneIs
  <2> DEFINE m == Len(text)
  <2>2. m \in Nat /\ n \in 1..m /\ n < m
    BY <2>1
  <2> HIDE DEF m
  <2>3. n \in 1..m - 1
    BY <2>2
  <2> QED BY <2>1, <2>3 DEF m
<1>4. Halves(it, Parts(text, n)[1], SubSeq(text, 1, n),
             Parts(text, n)[2], SubSeq(text, n + 1, Len(text)))
  BY <1>2, <1>3, CutIs
<1>5. /\ a.of = it /\ b.of = it /\ Halves(it, a.part, a.text, b.part, b.text)
      /\ a \in WirePiece /\ b \in WirePiece
  <2>1. /\ a = [of |-> it, part |-> Parts(text, n)[1], text |-> SubSeq(text, 1, n)]
        /\ b = [of |-> it, part |-> Parts(text, n)[2],
                text |-> SubSeq(text, n + 1, Len(text))]
    BY <1>2
  <2>2. /\ Parts(text, n)[1] \in Part /\ Parts(text, n)[2] \in Part
        /\ SubSeq(text, 1, n) \in Seq(Char) /\ SubSeq(text, n + 1, Len(text)) \in Seq(Char)
    BY <1>4 DEF Halves
  <2> HIDE DEF text, it
  <2> QED BY <1>2, <1>4, <2>1, <2>2 DEF WirePiece
<1>6. /\ d \in Seq(WirePiece) /\ Len(d) + 1 = Len(w) /\ Len(w) \in Nat
      /\ \A i \in 1..Len(d) : d[i] = w[i + 1]
  <2>1. w # <<>>
    BY EmptySeq
  <2>2. d \in Seq(WirePiece) /\ Len(d) = Len(w) - 1 /\ \A i \in 1..Len(d) : d[i] = w[i + 1]
    BY <2>1, HeadTailProperties
  <2> QED BY <2>2
<1> HIDE DEF a, b, d, it, text
<1>7. c \in Seq(WirePiece) /\ Len(c) = 2 /\ c[1] = a /\ c[2] = b
  BY <1>5
<1> HIDE DEF c
<1>8. Joined(WirePiece, c, d)
  BY <1>6, <1>7, Joins, Zenon
<1>9. /\ w1 \in Seq(WirePiece) /\ Len(w1) = Len(w) + 1 /\ w1[1] = a /\ w1[2] = b
      /\ \A i \in 1..Len(d) : w1[2 + i] = d[i]
  <2>1. 1 \in 1..Len(c) /\ 2 \in 1..Len(c) /\ Len(d) \in Nat
    BY <1>6, <1>7
  <2>2. Len(w1) = 2 + Len(d)
    BY <1>7, <1>8 DEF Joined
  <2>3. Len(w1) = Len(w) + 1
    BY <1>6, <2>1, <2>2
  <2> QED BY <1>7, <1>8, <2>1, <2>3 DEF Joined
<1> HIDE DEF w1
<1>10. Rest(s, w1, 3, k + 1)
  <2> DEFINE m == Len(w)
             l == Len(s)
  <2>1. /\ m \in Nat /\ m >= 1 /\ l \in Nat /\ m + (k + 1) + 1 = 2 + l
        /\ \A i \in 2..m : /\ w[i].part = "whole" /\ w[i].text \in TextsOf(w[i].of)
                           /\ w[i].of = s[((k + 1) + 1 + i) - 2]
    BY <1>2 DEF Rest
  <2>2. Len(w1) = m + 1 /\ Len(d) + 1 = m /\ Len(d) \in Nat
    BY <1>6, <1>9
  <2> HIDE DEF m, l
  <2>3. 3 <= (m + 1) + 1 /\ (m + 1) + (k + 1) + 1 = 3 + l
    BY <1>1, <2>1
  <2>4. ASSUME NEW i \in 3..m + 1
        PROVE  /\ w1[i].part = "whole" /\ w1[i].text \in TextsOf(w1[i].of)
               /\ w1[i].of = s[((k + 1) + 1 + i) - 3]
    <3> DEFINE j == i - 2
    <3>1. /\ j \in 1..Len(d) /\ 2 + j = i /\ j + 1 \in 2..m
          /\ ((k + 1) + 1 + (j + 1)) - 2 = ((k + 1) + 1 + i) - 3
      BY <1>1, <2>1, <2>2
    <3> HIDE DEF j
    <3>2. w1[2 + j] = d[j] /\ d[j] = w[j + 1]
      BY <1>6, <1>9, <3>1
    <3>3. /\ w[j + 1].part = "whole" /\ w[j + 1].text \in TextsOf(w[j + 1].of)
          /\ w[j + 1].of = s[((k + 1) + 1 + (j + 1)) - 2]
      BY <2>1, <3>1
    <3> QED BY <3>1, <3>2, <3>3
  <2> QED BY <2>2, <2>3, <2>4 DEF Rest, l
<1>11. CutAhead(s, ps, t, w1, k)
  <2>1. Len(w1) >= 2
    BY <1>6, <1>9
  <2> QED BY <1>1, <1>2, <1>5, <1>9, <1>10, <2>1 DEF CutAhead, it
<1> QED BY <1>9, <1>11 DEF w1, c, d, a, b, text

-----------------------------------------------------------------------------
(* What a Read does.                                                       *)

Kept(qs, u) == recv_buf' = u /\ pieces' = qs

\* A server waits, or gives up, or hands the message on and empties the buffer.
ServerReads(qs, u) ==
  \/ /\ got' = got /\ open' = open /\ Kept(qs, u)
     /\ Stream!MayBeShort(qs) \/ ~Honest(qs[1].of)
  \/ /\ got' = got /\ open' = FALSE /\ Kept(qs, u)
     /\ (Stream!MayBeLong(qs) /\ Stream!MayFail(qs)) \/ ~Honest(qs[1].of)
  \/ /\ Honest(qs[1].of) /\ qs[1].part # "pad" /\ qs[1].of \in Stream!Decoded(qs)
     /\ got' = Append(got, qs[1].of.message) /\ open' = open /\ Kept(<<>>, <<>>)

\* A client keeps it all.
ClientReads(qs, u) ==
  /\ open' = open /\ Kept(qs, u)
  /\ \/ /\ got' = got
        /\ Stream!MayFail(qs) \/ Claimed(qs[1].of) # Len(Body(qs[1].of.message))
     \/ /\ Claimed(qs[1].of) = Len(Body(qs[1].of.message))
        /\ qs[1].of \in Stream!Decoded(qs) /\ got' = Append(got, qs[1].of.message)

\* A short buffer has no whole message.
LEMMA ShortIsIncomplete ==
  ASSUME NEW ps \in Seq(Stream!Piece), Stream!MayBeShort(ps)
  PROVE  Stream!Complete(ps) = {}
<1>1. SUFFICES ASSUME NEW it \in Stream!Complete(ps)
               PROVE  FALSE
  OBVIOUS
<1>2. Len(ps) \in Nat /\ Len(ps) >= 1
  BY <1>1, CompleteIs
<1>3. 1 \in 1..Len(ps) /\ (Len(ps) > 1 => 2 \in 1..Len(ps))
  BY <1>2
<1>4. ps[1].part \in {"bit", "pad"} /\ (Len(ps) > 1 => ps[2].part \in {"bit", "pad"})
  BY <1>3 DEF Stream!MayBeShort
<1>5. Len(ps) > 1 /\ ps[2] = [of |-> it, part |-> "rest"]
  BY <1>1, <1>4 DEF Stream!Complete
<1>6. ps[2].part = "rest"
  BY <1>5
<1> QED BY <1>4, <1>5, <1>6

\* Nothing can be made of nothing.
LEMMA NothingIn ==
  ASSUME Width = 4
  PROVE  RequestsIn(<<>>) = {} /\ ResponsesIn(<<>>) = {} /\ HeaderSize = 12
<1>1. HeaderSize = 12
  BY DEF HeaderSize
<1>2. Len(<<>>) < HeaderSize
  BY <1>1
<1> QED BY <1>1, <1>2 DEF RequestsIn, ResponsesIn

\* What is at the head of a buffer is a message, or what is left of one.
LEMMA HeadItem ==
  ASSUME NEW ps \in Seq(Stream!Piece), Len(ps) >= 1
  PROVE  ps[1] \in Stream!Piece /\ ps[1].of \in Item
<1>1. 1 \in 1..Len(ps)
  OBVIOUS
<1>2. ps[1] \in Stream!Piece
  BY <1>1, ElementOfSeq
<1> QED BY <1>2 DEF Stream!Piece

\* A server, with what it has read.
LEMMA ServerOutcome ==
  ASSUME Width = 4, NEW n \in 1..2, NEW qs \in Seq(Stream!Piece), NEW u \in Seq(Char),
         qs = pieces \o Came(n), u = recv_buf \o Texts(n), Len(qs) >= 1,
         Outcome(qs, u), qs[1].part = "pad" \/ qs[1].of.message \in Request,
         ProgressGetMessage(n)
  PROVE  ServerReads(qs, u)
<1> DEFINE it == qs[1].of
           data == Decoded(u)
           Waiting == \/ Len(u) < HeaderSize
                      \/ /\ data # <<>>
                         /\ \/ Len(data) < HeaderSize
                            \/ /\ WordAt(data, 0) = kMagic
                               /\ Len(data) < (BodySize(data) + HeaderSize) % Wrap
<1>1. it \in Item
  BY HeadItem
<1>2. \/ Waiting /\ Keep(n) /\ UNCHANGED <<got, open>>
      \/ /\ ~Waiting /\ RequestsIn(data) = {} /\ open' = FALSE
         /\ Keep(n) /\ UNCHANGED got
      \/ /\ ~Waiting /\ \E m \in RequestsIn(data) : got' = Append(got, m)
         /\ Clear(n) /\ UNCHANGED open
  BY DEF ProgressGetMessage
<1>3. /\ Keep(n) => Kept(qs, u)
      /\ Clear(n) => Kept(<<>>, <<>>)
  BY DEF Keep, Clear, Kept
<1>4. HeaderSize = 12 /\ Len(u) \in Nat
  BY NothingIn
<1>5. CASE data = <<>> /\ Stream!MayFail(qs) /\ Fits(qs, u)
  <2>1. Waiting <=> Len(u) < 12
    BY <1>4, <1>5
  <2>2. RequestsIn(data) = {}
    BY <1>5, NothingIn
  <2> HIDE DEF Waiting, data
  <2>3. CASE Waiting
    <3>1. Stream!MayBeShort(qs)
      BY <1>5, <2>1, <2>3 DEF Fits
    <3> QED BY <1>2, <1>3, <2>3, <3>1 DEF ServerReads
  <2>4. CASE ~Waiting
    <3>1. Len(u) >= 12
      BY <1>4, <2>1, <2>4
    <3>2. Stream!MayBeLong(qs)
      BY <1>5, <3>1 DEF Fits
    <3> QED BY <1>2, <1>3, <1>5, <2>2, <2>4, <3>2 DEF ServerReads
  <2> QED BY <2>3, <2>4
<1>6. CASE /\ it \in Stream!Decoded(qs) /\ qs[1].part # "pad"
           /\ data = Serialize(it) /\ Len(u) >= 12
  <2>1. it.message \in Request
    BY <1>6
  <2>2. RequestsIn(data) = IF Honest(it) THEN {it.message} ELSE {}
    BY <1>1, <1>6, <2>1, RequestRead
  <2>3. Waiting => ~Honest(it)
    <3>1. ~(Len(u) < HeaderSize)
      BY <1>4, <1>6
    <3>2. /\ ~(Len(data) < HeaderSize)
          /\ Len(data) < (BodySize(data) + HeaderSize) % Wrap => ~Honest(it)
      BY <1>1, <1>6, ClaimedIs
    <3> QED BY <3>1, <3>2, Zenon
  <2> HIDE DEF Waiting, data, it
  <2>4. CASE Honest(it)
    <3>1. \E m \in {it.message} : got' = Append(got, m)
      BY <1>2, <2>2, <2>3, <2>4
    <3>2. Clear(n) /\ open' = open
      BY <1>2, <2>2, <2>3, <2>4
    <3> QED BY <1>3, <1>6, <2>4, <3>1, <3>2 DEF ServerReads, it
  <2>5. CASE ~Honest(it)
    <3>1. Keep(n) /\ got' = got /\ (open' = open \/ open' = FALSE)
      BY <1>2, <2>2, <2>5
    <3> QED BY <1>3, <2>5, <3>1 DEF ServerReads, it
  <2> QED BY <2>4, <2>5
<1> QED BY <1>5, <1>6 DEF Outcome

\* A client, with what it has.
LEMMA ClientOutcome ==
  ASSUME Width = 4, NEW n \in 1..2, NEW qs \in Seq(Stream!Piece), NEW u \in Seq(Char),
         qs = pieces \o Came(n), u = recv_buf \o Texts(n), Len(qs) >= 1,
         Outcome(qs, u), qs[1].part = "pad" \/ qs[1].of.message \in Response,
         ProcessResponse(n)
  PROVE  ClientReads(qs, u)
<1> DEFINE it == qs[1].of
           found == ResponsesIn(Decoded(u))
<1>1. it \in Item
  BY HeadItem
<1>2. /\ Keep(n) /\ open' = open
      /\ IF found = {} THEN got' = got ELSE \E m \in found : got' = Append(got, m)
  BY DEF ProcessResponse
<1>3. Kept(qs, u)
  BY <1>2 DEF Keep, Kept
<1>4. CASE Decoded(u) = <<>> /\ Stream!MayFail(qs)
  <2>1. found = {}
    BY <1>4, NothingIn
  <2> HIDE DEF found
  <2>2. got' = got
    BY <1>2, <2>1
  <2> QED BY <1>2, <1>3, <1>4, <2>2 DEF ClientReads
<1>5. CASE /\ it \in Stream!Decoded(qs) /\ qs[1].part # "pad" /\ Decoded(u) = Serialize(it)
  <2>1. it.message \in Response
    BY <1>5
  <2>2. found = IF Claimed(it) = Len(Body(it.message)) THEN {it.message} ELSE {}
    BY <1>1, <1>5, <2>1, ResponseRead
  <2> HIDE DEF found, it
  <2>3. CASE Claimed(it) = Len(Body(it.message))
    <3>1. found = {it.message}
      BY <2>2, <2>3
    <3>2. got' = Append(got, it.message)
      BY <1>2, <3>1
    <3> QED BY <1>2, <1>3, <1>5, <2>3, <3>2 DEF ClientReads, it
  <2>4. CASE Claimed(it) # Len(Body(it.message))
    <3>1. got' = got
      BY <1>2, <2>2, <2>4
    <3> QED BY <1>2, <1>3, <2>4, <3>1 DEF ClientReads, it
  <2> QED BY <2>3, <2>4
<1> QED BY <1>4, <1>5 DEF Outcome

-----------------------------------------------------------------------------
(* The inductive invariant.                                                *)

\* One end sends requests, the other responses.
Sides == \A i \in 1..Len(sent) : sent[i].message \in IF end = "server" THEN Request ELSE Response

\* The first k messages that were sent have come, all but half a text at most.
Placed(k) ==
  /\ Shaped(end, sent, pieces, recv_buf, wire, k)
  /\ Order(end, got, sent, pieces, k)

\* A message that a server has left in its buffer is one it will not hand on.
Refused == end = "server" => \A it \in Stream!Complete(pieces) : ~Honest(it)

Typed == TypeOK /\ wire \in Seq(WirePiece)

IInv ==
  /\ Typed /\ Sides /\ InOrder
  /\ open => Refused /\ \E k \in 0..Len(sent) : Placed(k)

\* What is known after a Read, of what is in the buffer and on its way.
ReadResult(qs, u, x, l) ==
  /\ qs \in Seq(Stream!Piece) /\ Len(qs) >= 1 /\ u \in Seq(Char) /\ x \in Seq(WirePiece)
  /\ Shaped(end, sent, qs, u, x, l) /\ Order(end, got, sent, qs, l)
  /\ Clears(end, sent, pieces, qs, x, l)
  /\ qs[1].part = "pad" \/ \E h \in 1..l : sent[h] = qs[1].of
  /\ IF end = "server" THEN ServerReads(qs, u) ELSE ClientReads(qs, u)

LEMMA ReadIs ==
  ASSUME Width = 4, IInv, NEW n \in 1..2, Read(n)
  PROVE  LET qs == pieces \o Came(n)
             u == recv_buf \o Texts(n)
             x == SubSeq(wire, n + 1, Len(wire))
         IN \E l \in 0..Len(sent) : ReadResult(qs, u, x, l)
<1> DEFINE qs == pieces \o Came(n)
           u == recv_buf \o Texts(n)
           x == SubSeq(wire, n + 1, Len(wire))
<1>1. /\ sent \in Seq(Item) /\ pieces \in Seq(Stream!Piece) /\ wire \in Seq(WirePiece)
      /\ recv_buf \in Seq(Char) /\ Sides /\ Len(sent) \in Nat
  BY DEF IInv, Typed, TypeOK, Char
<1>2. /\ open /\ n <= Len(wire)
      /\ IF end = "server" THEN ProgressGetMessage(n) ELSE ProcessResponse(n)
  BY DEF Read
<1>3. PICK k \in 0..Len(sent) : Placed(k)
  BY <1>2 DEF IInv
<1>4. /\ qs \in Seq(Stream!Piece) /\ u \in Seq(Char) /\ x \in Seq(WirePiece)
      /\ \E l \in k..Len(sent) : Taken(end, sent, pieces, qs, u, x, k, l)
  BY <1>1, <1>2, <1>3, TakeSome DEF Placed
<1>5. qs = pieces \o Came(n) /\ u = recv_buf \o Texts(n)
  OBVIOUS
<1> HIDE DEF qs, u, x
<1>6. PICK l \in k..Len(sent) : Taken(end, sent, pieces, qs, u, x, k, l)
  BY <1>4
<1>7. l \in 0..Len(sent) /\ k \in Nat
  BY <1>1
<1>8. /\ Begins(qs, u) /\ Len(qs) >= 1 /\ First(sent, pieces, qs, k, l)
      /\ Shaped(end, sent, qs, u, x, l) /\ Clears(end, sent, pieces, qs, x, l)
  BY <1>6 DEF Taken, Shaped
<1>9. Order(end, got, sent, qs, l)
  BY <1>1, <1>3, <1>7, <1>8, OrderGoesOn DEF Placed
<1>10. qs[1].part = "pad" \/ \E h \in 1..l : sent[h] = qs[1].of
  BY <1>8, <1>9 DEF Order
<1>11. \/ qs[1].part = "pad"
       \/ qs[1].of.message \in IF end = "server" THEN Request ELSE Response
  <2>1. \A h \in 1..l : h \in 1..Len(sent)
    BY <1>1, <1>7
  <2> QED BY <1>1, <1>10, <2>1 DEF Sides
<1>12. Outcome(qs, u)
  BY <1>4, <1>8, BeginsOutcome
<1>13. IF end = "server" THEN ServerReads(qs, u) ELSE ClientReads(qs, u)
  BY <1>2, <1>4, <1>5, <1>8, <1>11, <1>12, ServerOutcome, ClientOutcome
<1>14. ReadResult(qs, u, x, l)
  BY <1>4, <1>8, <1>9, <1>10, <1>13, Zenon DEF ReadResult
<1> QED BY <1>7, <1>14 DEF qs, u, x

\* Nothing has been sent.
LEMMA InitHolds == Init => IInv
<1> SUFFICES ASSUME Init PROVE IInv
  OBVIOUS
<1> USE DEF Init
<1>1. Typed
  BY BoundAssumption DEF Typed, TypeOK
<1>2. Sides
  BY DEF Sides
<1>3. Ordered(end, got, sent, 0)
  <2> DEFINE f == [i \in 1..0 |-> 0]
  <2>1. 1..0 = {} /\ Len(got) = 0
    OBVIOUS
  <2>2. f \in [1..0 -> 1..0]
    BY <2>1
  <2> QED BY <2>1, <2>2 DEF Ordered
<1>4. InOrder
  <2>1. Len(sent) = 0
    OBVIOUS
  <2> QED BY <1>3, <2>1 DEF Ordered, InOrder
<1>5. Refused
  BY DEF Refused, Stream!Complete
<1>6. 0 \in 0..Len(sent) /\ Placed(0)
  <2>1. Between(pieces, recv_buf)
    BY DEF Between
  <2>2. Rest(sent, wire, 1, 0)
    <3>1. Len(sent) = 0 /\ Len(wire) = 0
      OBVIOUS
    <3> QED BY <3>1 DEF Rest
  <2>3. Order(end, got, sent, pieces, 0)
    <3>1. Len(pieces) = 0
      OBVIOUS
    <3> QED BY <1>3, <3>1 DEF Order
  <2> QED BY <2>1, <2>2, <2>3 DEF Placed, Shaped, Uncut
<1> QED BY <1>1, <1>2, <1>4, <1>5, <1>6 DEF IInv

\* A message is sent.
LEMMA WriteHolds ==
  ASSUME Width = 4, IInv, NEW it \in Item, NEW key \in RandomKey, Write(it, key)
  PROVE  IInv'
<1> DEFINE text == Encoded(it, key)
           x == [of |-> it, part |-> "whole", text |-> text]
<1>1. /\ sent \in Seq(Item) /\ pieces \in Seq(Stream!Piece) /\ wire \in Seq(WirePiece)
      /\ recv_buf \in Seq(Char) /\ Len(sent) \in Nat /\ got \in Seq(Message)
      /\ end \in {"server", "client"} /\ open \in BOOLEAN /\ Sides /\ InOrder
  BY DEF IInv, Typed, TypeOK, Char
<1>2. /\ open /\ Len(sent) < MaxMessages
      /\ it.message \in IF end = "server" THEN Request ELSE Response
      /\ sent' = Append(sent, it) /\ wire' = Append(wire, x)
      /\ UNCHANGED <<end, recv_buf, pieces, got, open>>
  BY DEF Write
<1>3. text \in TextsOf(it) /\ text \in Seq(Char)
  <2>1. text \in TextsOf(it)
    BY DEF TextsOf
  <2> QED BY <2>1, TextOf DEF TextShape, Char
<1>4. PICK k \in 0..Len(sent) : Placed(k)
  BY <1>2 DEF IInv
<1> HIDE DEF text
<1>5. wire' \in Seq(WirePiece) /\ Shaped(end, sent', pieces, recv_buf, wire', k)
  BY <1>1, <1>2, <1>3, <1>4, ShapeGrows DEF Placed
<1> HIDE DEF x
<1>6. /\ sent' \in Seq(Item) /\ Len(sent') = Len(sent) + 1
      /\ \A i \in 1..Len(sent) : sent'[i] = sent[i]
      /\ sent'[Len(sent) + 1] = it
  BY <1>1, <1>2, AppendProperties
<1>7. Typed'
  <2>1. Len(sent') <= MaxMessages
    BY <1>1, <1>2, <1>6, BoundAssumption
  <2>2. \A i \in 1..Len(wire') : wire'[i].of \in Item /\ wire'[i].text \in Seq(Char)
    <3>1. \A i \in 1..Len(wire') : wire'[i] \in WirePiece
      BY <1>5, ElementOfSeq
    <3> QED BY <3>1 DEF WirePiece
  <2> QED BY <1>1, <1>2, <1>5, <1>6, <2>1, <2>2 DEF Typed, TypeOK, Char
<1>8. Sides'
  <2>1. \A i \in 1..Len(sent) + 1 : i \in 1..Len(sent) \/ i = Len(sent) + 1
    BY <1>1
  <2> QED BY <1>1, <1>2, <1>6, <2>1 DEF Sides
<1>9. InOrder'
  <2>1. Ordered(end, got, sent, Len(sent))
    BY <1>1 DEF Ordered, InOrder
  <2>2. Ordered(end, got, sent', Len(sent'))
    <3>1. Len(sent') \in Nat /\ Len(sent) <= Len(sent')
      BY <1>1, <1>6
    <3> QED BY <1>1, <1>6, <2>1, <3>1, OrderedMore
  <2> QED BY <1>2, <2>2 DEF Ordered, InOrder
<1>10. Refused'
  BY <1>2 DEF IInv, Refused
<1>11. k \in 0..Len(sent')
  BY <1>1, <1>6
<1>12. Placed(k)'
  <2>1. Order(end, got, sent', pieces, k)
    BY <1>1, <1>2, <1>4, OrderGrows DEF Placed
  <2> QED BY <1>2, <1>5, <2>1 DEF Placed
<1> QED BY <1>7, <1>8, <1>9, <1>10, <1>11, <1>12 DEF IInv

\* A text is cut in two.
LEMMA SplitHolds ==
  ASSUME Width = 4, IInv, wire # <<>>, NEW n \in 1..Len(wire[1].text), Split(n)
  PROVE  IInv'
<1> DEFINE text == wire[1].text
           a == [of |-> wire[1].of, part |-> Parts(text, n)[1], text |-> SubSeq(text, 1, n)]
           b == [of |-> wire[1].of, part |-> Parts(text, n)[2],
                 text |-> SubSeq(text, n + 1, Len(text))]
<1>1. /\ sent \in Seq(Item) /\ pieces \in Seq(Stream!Piece) /\ wire \in Seq(WirePiece)
      /\ recv_buf \in Seq(Char) /\ Len(sent) \in Nat
  BY DEF IInv, Typed, TypeOK, Char
<1>2. /\ open /\ wire[1].part = "whole" /\ n < Len(text)
      /\ wire' = <<a, b>> \o Tail(wire)
      /\ UNCHANGED <<end, sent, recv_buf, pieces, got, open>>
  BY DEF Split
<1>3. PICK k \in 0..Len(sent) : Placed(k)
  BY <1>2 DEF IInv
<1>4. Uncut(sent, pieces, recv_buf, wire, k)
  BY <1>1, <1>2, <1>3, WholeFirst DEF Placed
<1>5. Len(wire) >= 1
  BY <1>1, EmptySeq
<1>6. wire' \in Seq(WirePiece) /\ CutAhead(sent, pieces, recv_buf, wire', k)
  BY <1>1, <1>2, <1>4, <1>5, SplitShape
<1> HIDE DEF text, a, b
<1>7. Placed(k)'
  BY <1>2, <1>3, <1>6 DEF Placed, Shaped
<1>8. Typed'
  <2>1. \A i \in 1..Len(wire') : wire'[i].of \in Item /\ wire'[i].text \in Seq(Char)
    <3>1. \A i \in 1..Len(wire') : wire'[i] \in WirePiece
      BY <1>6, ElementOfSeq
    <3> QED BY <3>1 DEF WirePiece
  <2>2. TypeOK'
    BY <1>2, <2>1 DEF IInv, Typed, TypeOK, Char
  <2> QED BY <1>6, <2>2 DEF Typed
<1>9. Sides' /\ InOrder' /\ Refused'
  BY <1>2 DEF IInv, Sides, InOrder, Refused
<1>10. k \in 0..Len(sent')
  BY <1>2
<1> QED BY <1>7, <1>8, <1>9, <1>10 DEF IInv

\* Something is read, and kept or handed on.
LEMMA ReadHolds ==
  ASSUME Width = 4, IInv, NEW n \in 1..2, Read(n)
  PROVE  IInv'
<1> DEFINE qs == pieces \o Came(n)
           u == recv_buf \o Texts(n)
           x == SubSeq(wire, n + 1, Len(wire))
<1>1. /\ sent \in Seq(Item) /\ Len(sent) \in Nat /\ Len(sent) <= MaxMessages
      /\ got \in Seq(Message) /\ end \in {"server", "client"} /\ Sides /\ InOrder
  BY DEF IInv, Typed, TypeOK
<1>2. open /\ Refused /\ wire' = x /\ UNCHANGED <<end, sent>>
  BY DEF Read, IInv
<1>3. PICK l \in 0..Len(sent) : ReadResult(qs, u, x, l)
  BY ReadIs
<1> HIDE DEF qs, u, x
<1>4. /\ qs \in Seq(Stream!Piece) /\ Len(qs) >= 1 /\ u \in Seq(Char) /\ x \in Seq(WirePiece)
      /\ Shaped(end, sent, qs, u, x, l) /\ Order(end, got, sent, qs, l)
      /\ Clears(end, sent, pieces, qs, x, l)
      /\ IF end = "server" THEN ServerReads(qs, u) ELSE ClientReads(qs, u)
  BY <1>3 DEF ReadResult
<1>5. qs[1] \in Stream!Piece /\ qs[1].of \in Item /\ qs[1].of.message \in Message
  <2>1. qs[1] \in Stream!Piece /\ qs[1].of \in Item
    BY <1>4, HeadItem
  <2> QED BY <2>1 DEF Item
<1>6. wire' \in Seq(WirePiece) /\ l \in 0..Len(sent') /\ Sides'
  BY <1>1, <1>2, <1>4 DEF Sides
<1>7. \A i \in 1..Len(wire') : wire'[i].of \in Item /\ wire'[i].text \in Seq(Char)
  <2>1. \A i \in 1..Len(wire') : wire'[i] \in WirePiece
    BY <1>6, ElementOfSeq
  <2> QED BY <2>1 DEF WirePiece
<1>8. ASSUME Kept(qs, u) \/ Kept(<<>>, <<>>), got' \in Seq(Message), open' \in BOOLEAN
      PROVE  Typed'
  <2>1. recv_buf' \in Seq(Char) /\ pieces' \in Seq(Stream!Piece)
    <3>1. CASE Kept(qs, u)
      BY <1>4, <3>1 DEF Kept
    <3>2. CASE Kept(<<>>, <<>>)
      BY <3>2 DEF Kept
    <3> QED BY <1>8, <3>1, <3>2
  <2> QED BY <1>1, <1>2, <1>6, <1>7, <1>8, <2>1 DEF Typed, TypeOK, Char
<1>9. ASSUME got' = got, Kept(qs, u), open' = open \/ open' = FALSE,
             open' => \A it \in Stream!Complete(qs) : end = "server" => ~Honest(it)
      PROVE  IInv'
  <2>1. open' \in BOOLEAN
    BY <1>9 DEF IInv, Typed, TypeOK
  <2>2. Typed' /\ InOrder'
    BY <1>1, <1>2, <1>8, <1>9, <2>1 DEF InOrder
  <2>3. Placed(l)'
    BY <1>2, <1>4, <1>9 DEF Placed, Kept
  <2>4. open' => Refused'
    BY <1>2, <1>9 DEF Refused, Kept
  <2> QED BY <1>6, <2>2, <2>3, <2>4 DEF IInv
<1>10. CASE end = "server"
  <2>1. ServerReads(qs, u)
    BY <1>4, <1>10
  <2>2. CASE /\ got' = got /\ open' = open /\ Kept(qs, u)
             /\ Stream!MayBeShort(qs) \/ ~Honest(qs[1].of)
    <3>1. \A it \in Stream!Complete(qs) : ~Honest(it)
      BY <1>4, <2>2, ShortIsIncomplete, CompleteIs
    <3> QED BY <1>9, <2>2, <3>1
  <2>3. CASE got' = got /\ open' = FALSE /\ Kept(qs, u)
    BY <1>9, <2>3
  <2>4. CASE /\ Honest(qs[1].of) /\ qs[1].part # "pad" /\ qs[1].of \in Stream!Decoded(qs)
             /\ got' = Append(got, qs[1].of.message) /\ open' = open /\ Kept(<<>>, <<>>)
    <3>1. got' \in Seq(Message) /\ open' \in BOOLEAN
      BY <1>1, <1>2, <1>5, <2>4, AppendProperties
    <3>2. Typed'
      BY <1>8, <2>4, <3>1
    <3>3. Shaped(end, sent, <<>>, <<>>, x, l)
      <4>1. qs[1].of \in Stream!Complete(qs)
        BY <2>4 DEF Stream!Decoded
      <4>2. ~(Stream!Complete(qs) \subseteq Stream!Complete(pieces))
        BY <1>2, <1>10, <2>4, <4>1 DEF Refused
      <4> QED BY <1>4, <1>10, <4>2 DEF Clears
    <3>4. PICK h \in 1..l : sent[h] = qs[1].of /\ Ordered(end, got, sent, h - 1)
      BY <1>4, <2>4 DEF Order
    <3>5. h \in Nat /\ h >= 1 /\ h <= l /\ l \in Nat /\ l <= Len(sent)
      BY <1>1
    <3>6. Ordered(end, Append(got, sent[h].message), sent, h)
      BY <1>1, <1>5, <3>4, <3>5, OrderedNext
    <3>7. Ordered(end, got', sent, l) /\ Ordered(end, got', sent, Len(sent))
      <4>1. Ordered(end, got', sent, h)
        BY <2>4, <3>4, <3>6
      <4>2. h <= Len(sent)
        BY <1>1, <3>5
      <4>3. \A i \in 1..h : sent[i] = sent[i]
        OBVIOUS
      <4> QED BY <1>1, <3>5, <4>1, <4>2, <4>3, OrderedMore
    <3>8. InOrder'
      BY <1>2, <3>7 DEF InOrder, Ordered
    <3>9. Order(end, got', sent, <<>>, l)
      <4>1. Len(<<>>) = 0
        OBVIOUS
      <4> QED BY <3>7, <4>1 DEF Order
    <3>10. Placed(l)'
      BY <1>2, <2>4, <3>3, <3>9 DEF Placed, Kept
    <3>11. Refused'
      BY <2>4 DEF Refused, Kept, Stream!Complete
    <3> QED BY <1>6, <3>2, <3>8, <3>10, <3>11 DEF IInv
  <2> QED BY <2>1, <2>2, <2>3, <2>4 DEF ServerReads
<1>11. CASE end = "client"
  <2>1. /\ open' = open /\ Kept(qs, u)
        /\ got' = got \/ got' = Append(got, qs[1].of.message)
    BY <1>4, <1>11 DEF ClientReads
  <2>2. got' \in Seq(Message) /\ open' \in BOOLEAN
    BY <1>1, <1>2, <1>5, <2>1, AppendProperties
  <2>3. Typed'
    BY <1>8, <2>1, <2>2
  <2>4. Order(end, got', sent, qs, l)
    BY <1>4, <1>11 DEF Order, Ordered
  <2>5. Placed(l)'
    BY <1>2, <1>4, <2>1, <2>4 DEF Placed, Kept
  <2>6. InOrder' /\ Refused'
    BY <1>2, <1>11 DEF InOrder, Refused
  <2> QED BY <1>6, <2>3, <2>5, <2>6 DEF IInv
<1> QED BY <1>1, <1>10, <1>11

\* The head of the buffer is the same whether one piece has come or two.
LEMMA HeadIs ==
  ASSUME pieces \in Seq(Stream!Piece), wire \in Seq(WirePiece), NEW n \in 1..2, n <= Len(wire)
  PROVE  Head(pieces \o Came(1)) = (pieces \o Came(n))[1]
<1>1. Len(wire) >= 1 /\ Len(pieces) \in Nat
  OBVIOUS
<1>2. ASSUME NEW m \in 1..2, m <= Len(wire)
      PROVE  /\ Came(m) \in Seq(Stream!Piece) /\ Len(Came(m)) = m
             /\ Came(m)[1] = [of |-> wire[1].of, part |-> wire[1].part]
  <2>1. Came(m) = [i \in 1..m |-> [of |-> wire[i].of, part |-> wire[i].part]]
    BY DEF Came
  <2>2. \A i \in 1..m : [of |-> wire[i].of, part |-> wire[i].part] \in Stream!Piece
    <3>1. \A i \in 1..m : i \in 1..Len(wire)
      BY <1>2
    <3>2. \A i \in 1..m : wire[i] \in WirePiece
      BY <3>1, ElementOfSeq
    <3> QED BY <3>2 DEF WirePiece, Stream!Piece, Part
  <2>3. Came(m) \in [1..m -> Stream!Piece] /\ m \in Nat /\ 1 \in 1..m
    BY <2>1, <2>2
  <2> QED BY <2>1, <2>3
<1> DEFINE a == Came(1)
           b == Came(n)
<1>3. /\ a \in Seq(Stream!Piece) /\ Len(a) = 1 /\ b \in Seq(Stream!Piece) /\ Len(b) = n
      /\ a[1] = b[1]
  <2>1. 1 \in 1..2 /\ 1 <= Len(wire)
    BY <1>1
  <2>2. /\ a \in Seq(Stream!Piece) /\ Len(a) = 1
        /\ a[1] = [of |-> wire[1].of, part |-> wire[1].part]
    BY <1>2, <2>1
  <2>3. /\ b \in Seq(Stream!Piece) /\ Len(b) = n
        /\ b[1] = [of |-> wire[1].of, part |-> wire[1].part]
    BY <1>2
  <2> QED BY <2>2, <2>3
<1> HIDE DEF a, b
<1>4. Joined(Stream!Piece, pieces, a) /\ Joined(Stream!Piece, pieces, b)
  BY <1>3, Joins, Zenon
<1>5. (pieces \o a)[1] = (pieces \o b)[1] /\ Len(pieces \o a) >= 1
  <2>1. Len(pieces \o a) >= 1
    BY <1>1, <1>3, <1>4 DEF Joined
  <2>2. CASE Len(pieces) = 0
    <3>1. 1 \in 1..Len(a) /\ 1 \in 1..Len(b) /\ Len(pieces) + 1 = 1
      BY <1>3, <2>2
    <3>2. (pieces \o a)[Len(pieces) + 1] = a[1] /\ (pieces \o b)[Len(pieces) + 1] = b[1]
      BY <1>4, <3>1 DEF Joined
    <3> QED BY <1>3, <2>1, <3>1, <3>2
  <2>3. CASE Len(pieces) # 0
    <3>1. 1 \in 1..Len(pieces)
      BY <1>1, <2>3
    <3> QED BY <1>4, <2>1, <3>1 DEF Joined
  <2> QED BY <2>2, <2>3
<1>6. Head(pieces \o a) = (pieces \o a)[1]
  <2> DEFINE c == pieces \o a
  <2>1. c \in Seq(Stream!Piece) /\ Len(c) >= 1
    BY <1>4, <1>5 DEF Joined
  <2> HIDE DEF c
  <2>2. Head(c) = c[1]
    BY <2>1
  <2> QED BY <2>2 DEF c
<1> QED BY <1>5, <1>6 DEF a, b

-----------------------------------------------------------------------------
(* The theorems.                                                           *)

\* A step that changes nothing.
LEMMA StutterHolds == IInv /\ UNCHANGED vars => IInv'
<1> SUFFICES ASSUME IInv, UNCHANGED vars PROVE IInv'
  OBVIOUS
<1>1. UNCHANGED <<end, sent, wire, recv_buf, pieces, got, open>>
  BY DEF vars
<1>2. Typed'
  BY <1>1 DEF IInv, Typed, TypeOK
<1>3. Sides' /\ InOrder'
  BY <1>1 DEF IInv, Sides, InOrder
<1>4. open' => Refused'
  BY <1>1 DEF IInv, Refused
<1>5. ASSUME NEW k \in 0..Len(sent), Placed(k)
      PROVE  Placed(k)'
  BY <1>1, <1>5 DEF Placed
<1> QED BY <1>1, <1>2, <1>3, <1>4, <1>5 DEF IInv

\* The invariant is inductive.
THEOREM InvHolds == ASSUME Width = 4 PROVE Spec => []IInv
<1>1. IInv /\ [Next]_vars => IInv'
  <2>1. SUFFICES ASSUME IInv, [Next]_vars
                 PROVE  IInv'
    OBVIOUS
  <2>2. ASSUME NEW it \in Item, NEW key \in RandomKey, Write(it, key)
        PROVE  IInv'
    BY <2>1, <2>2, WriteHolds
  <2>3. ASSUME wire # <<>>, NEW n \in 1..Len(wire[1].text), Split(n)
        PROVE  IInv'
    BY <2>1, <2>3, SplitHolds
  <2>4. ASSUME NEW n \in 1..2, Read(n)
        PROVE  IInv'
    BY <2>1, <2>4, ReadHolds
  <2>5. CASE UNCHANGED vars
    BY <2>1, <2>5, StutterHolds
  <2> QED BY <2>1, <2>2, <2>3, <2>4, <2>5 DEF Next
<1> QED BY <1>1, InitHolds, PTL DEF Spec

\* Every variable is of its type: what the receive buffer holds is characters.
THEOREM TypeCorrect == ASSUME Width = 4 PROVE Spec => []TypeOK
<1>1. IInv => TypeOK
  BY DEF IInv, Typed
<1> QED BY <1>1, InvHolds, PTL

\* A server hands every message on at most once, in the order they were sent.
THEOREM HandedOnInOrder == ASSUME Width = 4 PROVE Spec => []InOrder
<1>1. IInv => InOrder
  BY DEF IInv
<1> QED BY <1>1, InvHolds, PTL

\* What AsFraming says of one Read.
AsFramed(n) ==
  LET buf == pieces \o Came(n)
      decoded == Stream!Decoded(buf)
  IN (\A i \in 1..Len(buf) : buf[i].of.excess = 0) =>
       \/ open' /\ \E it \in decoded : got' = Append(got, it.message)
       \/ open' /\ got' = got /\ end = "server" /\ Stream!MayBeShort(buf)
       \/ open' /\ got' = got /\ end = "client" /\ Stream!MayFail(buf)
       \/ ~open' /\ got' = got /\ end = "server" /\ Stream!MayBeLong(buf) /\ Stream!MayFail(buf)

\* It is so of every one.
LEMMA ReadAsFraming ==
  ASSUME Width = 4, IInv, NEW n \in 1..2, Read(n)
  PROVE  AsFramed(n)
<1> DEFINE qs == pieces \o Came(n)
           u == recv_buf \o Texts(n)
           x == SubSeq(wire, n + 1, Len(wire))
<1>1. open /\ end \in {"server", "client"}
  BY DEF Read, IInv, Typed, TypeOK
<1>2. PICK l \in 0..Len(sent) : ReadResult(qs, u, x, l)
  BY ReadIs
<1>3. SUFFICES ASSUME \A i \in 1..Len(qs) : qs[i].of.excess = 0
               PROVE  \/ open' /\ \E it \in Stream!Decoded(qs) : got' = Append(got, it.message)
                      \/ open' /\ got' = got /\ end = "server" /\ Stream!MayBeShort(qs)
                      \/ open' /\ got' = got /\ end = "client" /\ Stream!MayFail(qs)
                      \/ /\ ~open' /\ got' = got /\ end = "server"
                         /\ Stream!MayBeLong(qs) /\ Stream!MayFail(qs)
  BY DEF AsFramed
<1> HIDE DEF qs, u, x
<1>4. /\ qs \in Seq(Stream!Piece) /\ Len(qs) >= 1
      /\ IF end = "server" THEN ServerReads(qs, u) ELSE ClientReads(qs, u)
  BY <1>2 DEF ReadResult
<1>5. Honest(qs[1].of) /\ Claimed(qs[1].of) = Len(Body(qs[1].of.message))
  <2>1. 1 \in 1..Len(qs) /\ qs[1].of \in Item
    BY <1>4, HeadItem
  <2> QED BY <1>3, <2>1, ClaimedIs
<1>6. CASE end = "server"
  BY <1>1, <1>4, <1>5, <1>6 DEF ServerReads
<1>7. CASE end = "client"
  BY <1>1, <1>4, <1>5, <1>7 DEF ClientReads
<1> QED BY <1>1, <1>6, <1>7

\* Byte by byte, a receiver does what Framing says of the pieces.
THEOREM DoesAsFraming == ASSUME Width = 4 PROVE Spec => AsFraming
<1>1. IInv /\ [Next]_vars => [\A n \in 1..2 : Read(n) => AsFramed(n)]_vars
  BY ReadAsFraming
<1> QED BY <1>1, InvHolds, PTL DEF Spec, AsFraming, AsFramed

\* A message that is not all there is not handed on.
THEOREM NothingIsMissing == ASSUME Width = 4 PROVE Spec => NothingMissing
<1>1. ASSUME IInv, [Next]_vars, got' # got
      PROVE  LET it == Head(pieces \o Came(1)).of IN
             (Len(Body(it.message)) + it.excess) % Wrap <= Len(Body(it.message))
  <2>1. PICK n \in 1..2 : Read(n)
    BY <1>1 DEF Next, Write, Split, vars
  <2> DEFINE qs == pieces \o Came(n)
             u == recv_buf \o Texts(n)
             x == SubSeq(wire, n + 1, Len(wire))
             it == Head(pieces \o Came(1)).of
  <2>2. PICK l \in 0..Len(sent) : ReadResult(qs, u, x, l)
    BY <1>1, <2>1, ReadIs
  <2>3. it = qs[1].of
    BY <1>1, <2>1, HeadIs DEF IInv, Typed, TypeOK, Read
  <2> HIDE DEF qs, u, x, it
  <2>4. Honest(it) \/ Claimed(it) = Len(Body(it.message))
    BY <1>1, <2>2, <2>3 DEF ReadResult, ServerReads, ClientReads
  <2>5. it \in Item
    BY <2>2, <2>3, HeadItem DEF ReadResult
  <2>6. Claimed(it) <= Len(Body(it.message))
    <3>1. Len(Body(it.message)) \in Nat
      BY <2>5, Serialized
    <3> QED BY <2>4, <3>1 DEF Honest
  <2> QED BY <2>6 DEF Claimed, it
<1>2. IInv /\ [Next]_vars =>
        [got' # got => LET it == Head(pieces \o Came(1)).of IN
           (Len(Body(it.message)) + it.excess) % Wrap <= Len(Body(it.message))]_vars
  BY <1>1
<1> QED BY <1>2, InvHolds, PTL DEF Spec, NothingMissing
=============================================================================
