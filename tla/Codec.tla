------------------------------- MODULE Codec -------------------------------
(***************************************************************************)
(* What a message becomes between the two ends of a connection, byte by    *)
(* byte: RpcRequest and RpcResponse into words and fields, libzstd, the    *)
(* cipher, and back, out of a receive buffer that holds whatever TCP has   *)
(* delivered.  One connection, seen from the end that receives: a server's *)
(* Connect or a client's.                                                  *)
(*                                                                         *)
(* A definition named X_Y, Y being what goes wrong, is X with a plausible  *)
(* mistake in it and no part of the specification.                         *)
(***************************************************************************)
EXTENDS Cipher

CONSTANTS
  Width,       \* bytes of a uint32_t, 4 in the code: the integers wrap at 256^Width
  kMagic,
  Request,     \* records of service_name, method_name, payload and sequence_id
  Response,    \* records of result_data, error_message, error_code and sequence_id
  RandomKey,   \* what GenerateRandomKey may return
  Excess,      \* by how much a header exaggerates the size of its body
  MaxMessages  \* bound: how many messages are sent

\* This code sends no excess; another program at the other end might.
Message == Request \cup Response
Item == [message : Message, excess : Excess]

ASSUME WordAssumption == Width \in Nat \ {0} /\ kMagic \in 0..256^Width - 1
ASSUME RandomKeyAssumption ==
  RandomKey \subseteq Seq(Byte) /\ \A k \in RandomKey : Len(k) = kKEY_SIZE
ASSUME MessageAssumption == Request \cap Response = {} /\ 0 \in Excess /\ Excess \subseteq Nat
ASSUME BoundAssumption == MaxMessages \in Nat

VARIABLES
  end,       \* which end receives: "server" or "client"
  sent,      \* the items sent
  wire,      \* pieces on their way: of, part and text
  recv_buf,  \* the receive buffer, a sequence of characters
  pieces,    \* the pieces that recv_buf is made of
  got,       \* the messages handed on
  open       \* the connection has not been given up

vars == <<end, sent, wire, recv_buf, pieces, got, open>>

-----------------------------------------------------------------------------
(* Serializer and Deserializer.                                            *)

Wrap == 256 ^ Width
Word(n) == [i \in 1..Width |-> (n \div 256 ^ (i - 1)) % 256]
HeaderSize == 3 * Width

Header(body, excess, sequence_id) ==
  Word(kMagic) \o Word(Len(body) + excess) \o Word(sequence_id)
Field(data) == Word(Len(data)) \o data

RequestBody(m) == Field(m.service_name) \o Field(m.method_name) \o Field(m.payload)
ResponseBody(m) ==
  Field(m.result_data) \o Field(m.error_message) \o Word(m.error_code) \o Word(m.sequence_id)

Body(m) == IF m \in Request THEN RequestBody(m) ELSE ResponseBody(m)
Serialize(item) ==
  Header(Body(item.message), item.excess, item.message.sequence_id) \o Body(item.message)

\* Strings are bytes, and numbers uint32_t.  That the length of a message is one
\* too is what the code takes for granted: nothing looks.
ASSUME ContentAssumption ==
  /\ Request \subseteq [service_name : Seq(Byte), method_name : Seq(Byte),
                        payload : Seq(Byte), sequence_id : 0..Wrap - 1]
  /\ Response \subseteq [result_data : Seq(Byte), error_message : Seq(Byte),
                         error_code : 0..Wrap - 1, sequence_id : 0..Wrap - 1]
  /\ \A m \in Message : HeaderSize + Len(Body(m)) < Wrap

\* pos counts from 0, as in the code.
Slice(in, pos, n) == SubSeq(in, pos + 1, pos + n)
WordAt(in, pos) == CHOOSE n \in 0..Wrap - 1 : Word(n) = Slice(in, pos, Width)
BodySize(in) == WordAt(in, Width)

\* A field at pos: its end, or 0 when the input is too small.
FieldEnd(in, pos) ==
  LET end_ == pos + Width + WordAt(in, pos) IN
  IF pos = 0 \/ pos + Width > Len(in) \/ end_ > Len(in) THEN 0 ELSE end_
FieldData_WithSize(in, pos) == Slice(in, pos, FieldEnd(in, pos) - pos)
FieldData(in, pos) == Slice(in, pos + Width, FieldEnd(in, pos) - pos - Width)

\* In 64 bits, unlike total_size below.
Enough_Wraps(in) == Len(in) >= (BodySize(in) + HeaderSize) % Wrap
Enough(in) == Len(in) >= BodySize(in) + HeaderSize

\* Deserializer returns the messages it can make of the input: one, or none.
RequestsIn(in) ==
  LET second == FieldEnd(in, HeaderSize)
      third == FieldEnd(in, second)
  IN IF \/ Len(in) < HeaderSize \/ WordAt(in, 0) # kMagic
        \/ ~Enough(in) \/ FieldEnd(in, third) = 0
     THEN {}
     ELSE {[service_name |-> FieldData(in, HeaderSize), method_name |-> FieldData(in, second),
            payload |-> FieldData(in, third), sequence_id |-> WordAt(in, 2 * Width)]}

ResponsesIn(in) ==
  LET second == FieldEnd(in, HeaderSize)
      third == FieldEnd(in, second)
  IN IF \/ Len(in) < HeaderSize \/ WordAt(in, 0) # kMagic
        \/ Len(in) # BodySize(in) + HeaderSize
        \/ third = 0 \/ third + 2 * Width > Len(in)
     THEN {}
     ELSE {[result_data |-> FieldData(in, HeaderSize), error_message |-> FieldData(in, second),
            error_code |-> WordAt(in, third), sequence_id |-> WordAt(in, third + Width)]}

-----------------------------------------------------------------------------
(* libzstd: a frame that says how much it holds, and is refused when it    *)
(* holds less or something follows it.                                     *)

CompressString(data) == Word(Len(data)) \o data
DecompressString(frame) ==
  IF Len(frame) < Width \/ Len(frame) # Width + WordAt(frame, 0) THEN <<>>
  ELSE SubSeq(frame, Width + 1, Len(frame))

-----------------------------------------------------------------------------
Encoded(item, key) == Encrypt(CompressString(Serialize(item)), key)
Decoded(text) == DecompressString(Decrypt(text))

\* The same, as the other modules have it: in pieces.
Padded == {it \in Item : (kKEY_SIZE + Len(CompressString(Serialize(it)))) % 3 # 0}
Stream == INSTANCE Framing WITH Message <- Item

Init ==
  /\ end \in {"server", "client"}
  /\ sent = <<>> /\ wire = <<>> /\ recv_buf = <<>> /\ pieces = <<>> /\ got = <<>> /\ open = TRUE

Write(item, key) ==
  /\ open /\ Len(sent) < MaxMessages
  /\ item.message \in IF end = "server" THEN Request ELSE Response
  /\ sent' = Append(sent, item)
  /\ wire' = Append(wire, [of |-> item, part |-> "whole", text |-> Encoded(item, key)])
  /\ UNCHANGED <<end, recv_buf, pieces, got, open>>

\* What the first n characters of a text, and the rest, are to Framing.
Parts(text, n) ==
  IF \A i \in n + 1..Len(text) : text[i] = Pad THEN <<"text", "pad">>
  ELSE IF n < HeaderSize THEN <<"bit", "rest">> ELSE <<"front", "rest">>

\* TCP may deliver a text in two.
Split(n) ==
  /\ open /\ wire # <<>> /\ wire[1].part = "whole" /\ n < Len(wire[1].text)
  /\ LET text == wire[1].text
         Half(i, half) == [of |-> wire[1].of, part |-> Parts(text, n)[i], text |-> half]
     IN wire' = <<Half(1, SubSeq(text, 1, n)), Half(2, SubSeq(text, n + 1, Len(text)))>> \o Tail(wire)
  /\ UNCHANGED <<end, sent, recv_buf, pieces, got, open>>

-----------------------------------------------------------------------------
(* Read takes all that has come.                                           *)

Texts(n) == IF n = 1 THEN wire[1].text ELSE wire[1].text \o wire[2].text
Came(n) == [i \in 1..n |-> [of |-> wire[i].of, part |-> wire[i].part]]

Keep(n) == recv_buf' = recv_buf \o Texts(n) /\ pieces' = pieces \o Came(n)
Clear_Forgotten(n) == Keep(n)
Clear(n) == recv_buf' = <<>> /\ pieces' = <<>>

\* ProgressGetMessage.  uint32_t total_size wraps.
ProgressGetMessage(n) ==
  LET buf == recv_buf \o Texts(n)
      data == Decoded(buf)
      Waiting == \/ Len(buf) < HeaderSize
                 \/ /\ data # <<>>
                    /\ \/ Len(data) < HeaderSize
                       \/ /\ WordAt(data, 0) = kMagic
                          /\ Len(data) < (BodySize(data) + HeaderSize) % Wrap
  IN \/ Waiting /\ Keep(n) /\ UNCHANGED <<got, open>>
     \/ /\ ~Waiting /\ RequestsIn(data) = {} /\ open' = FALSE
        /\ Keep(n) /\ UNCHANGED got
     \/ /\ ~Waiting /\ \E m \in RequestsIn(data) : got' = Append(got, m)
        /\ Clear(n) /\ UNCHANGED open

\* ProcessResponse.  The buffer stays as it is.
ProcessResponse(n) ==
  LET found == ResponsesIn(Decoded(recv_buf \o Texts(n))) IN
  /\ Keep(n)
  /\ IF found = {} THEN UNCHANGED got ELSE \E m \in found : got' = Append(got, m)
  /\ UNCHANGED open

\* One piece, or two that came together.
Read(n) ==
  /\ open /\ n <= Len(wire)
  /\ wire' = SubSeq(wire, n + 1, Len(wire))
  /\ IF end = "server" THEN ProgressGetMessage(n) ELSE ProcessResponse(n)
  /\ UNCHANGED <<end, sent>>

Next ==
  \/ \E item \in Item, key \in RandomKey : Write(item, key)
  \/ wire # <<>> /\ \E n \in 1..Len(wire[1].text) : Split(n)
  \/ \E n \in 1..2 : Read(n)

Spec == Init /\ [][Next]_vars

-----------------------------------------------------------------------------
(* Properties.                                                             *)

TypeOK ==
  /\ end \in {"server", "client"} /\ open \in BOOLEAN
  /\ sent \in Seq(Item) /\ Len(sent) <= MaxMessages
  /\ \A i \in 1..Len(wire) : wire[i].of \in Item /\ wire[i].text \in Seq(Sextet \cup {Pad})
  /\ recv_buf \in Seq(Sextet \cup {Pad}) /\ pieces \in Seq(Stream!Piece)
  /\ got \in Seq(Message)

\* Byte by byte, the receiver does what Framing says of the pieces: it hands on
\* the message that is complete at the head of the buffer when that is all there
\* is or the message is padded, exactly as it was sent, and nothing otherwise;
\* and a server gives the connection up unless that may be too short.  EventLoop
\* and RpcClient rest on this.
AsFraming ==
  [][\A n \in 1..2 : Read(n) =>
       LET buf == pieces \o Came(n)
           decoded == Stream!Decoded(buf)
       IN (\A i \in 1..Len(buf) : buf[i].of.excess = 0) =>
            \/ open' /\ \E it \in decoded : got' = Append(got, it.message)
            \/ open' /\ got' = got /\ end = "server" /\ Stream!MayBeShort(buf)
            \/ open' /\ got' = got /\ end = "client" /\ Stream!MayFail(buf)
            \/ ~open' /\ got' = got /\ end = "server" /\ Stream!MayBeLong(buf) /\ Stream!MayFail(buf)
    ]_vars

\* A message whose header says that its body is longer than it is, is not handed
\* on, whatever the sum of the two sizes is in 32 bits.
NothingMissing ==
  [][got' # got => LET it == Head(pieces \o Came(1)).of IN
                   (Len(Body(it.message)) + it.excess) % Wrap <= Len(Body(it.message))]_vars

\* A server hands on every message at most once, in the order they were sent.
InOrder ==
  end = "server" =>
    \E f \in [1..Len(got) -> 1..Len(sent)] :
      /\ \A i \in 1..Len(got) : got[i] = sent[f[i]].message
      /\ \A i, j \in 1..Len(got) : i < j => f[i] < f[j]

=============================================================================
