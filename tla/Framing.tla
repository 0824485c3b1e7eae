------------------------------ MODULE Framing ------------------------------
(***************************************************************************)
(* How rpc_mt finds messages in a stream: it does not.  Both ends take     *)
(* whatever their receive buffer holds for one message.  A buffer is a     *)
(* sequence of pieces, as TCP delivered them.                              *)
(***************************************************************************)
EXTENDS Integers, Sequences

CONSTANTS
  Message,   \* what is sent
  Padded     \* the messages whose Base64 form ends in '='

\* whole: the message.  bit: its first bytes, fewer than sizeof(RpcHeader).
\* front: more than that.  rest: what follows a bit or a front.  text: all of a
\* padded message that carries anything, without the end of the padding.  pad:
\* what follows a text, one or two '='.
Piece == [of : Message, part : {"whole", "bit", "front", "rest", "text", "pad"}]

\* Fewer bytes than a header: wait for more.  A pad and a bit may be or not.
MayBeShort(buf) == \A i \in 1..Len(buf) : buf[i].part \in {"bit", "pad"}
MayBeLong(buf) == Len(buf) > 1 \/ ~MayBeShort(buf)

\* The messages complete at the head of a buffer, and how many pieces they take.
Complete(buf) ==
  {m \in Message :
     \/ buf # <<>> /\ buf[1].of = m /\ buf[1].part \in {"whole", "text"}
     \/ /\ Len(buf) > 1 /\ buf[1].of = m /\ buf[1].part \in {"bit", "front"}
        /\ buf[2] = [of |-> m, part |-> "rest"]}

Pieces(buf) == IF buf[1].part \in {"whole", "text"} THEN 1 ELSE 2

\* Base64Decode stops at the first '=': what follows a padded message is not
\* seen.  Otherwise what follows, or a piece that lacks its rest, makes the
\* decompression fail; but a bit of one character decodes to no byte.
Decoded(buf) ==
  {m \in Complete(buf) :
     \/ Len(buf) = Pieces(buf) \/ m \in Padded
     \/ Len(buf) = Pieces(buf) + 1 /\ buf[Len(buf)].part = "bit"}
MayFail(buf) == \A m \in Complete(buf) : Len(buf) > Pieces(buf) /\ m \notin Padded

=============================================================================
