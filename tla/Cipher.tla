------------------------------- MODULE Cipher -------------------------------
(***************************************************************************)
(* rpc::AesEncrypt: a shift cipher under a random key, the key itself      *)
(* shifted by the master key in front, and Base64 around both.  Bytes are  *)
(* numbers; a character of Base64 is its place in BASE_64_CHARS.           *)
(*                                                                         *)
(* A definition named X_Y, Y being what goes wrong, is X with a plausible  *)
(* mistake in it and no part of the specification.                         *)
(***************************************************************************)
EXTENDS Integers, Sequences

CONSTANTS
  kKEY_SIZE,    \* 32 in the code
  master_key    \* read from the configuration of both ends

Byte == 0..255
Sextet == 0..63
Pad == 64       \* '='
Unknown == 255  \* the index of a character that is not in BASE_64_CHARS, and of '\0'

ASSUME KeySizeAssumption == kKEY_SIZE \in Nat \ {0}
\* An empty master key would be a division by zero in ShiftEncrypt.
ASSUME MasterKeyAssumption == master_key \in Seq(Byte) /\ Len(master_key) > 0

-----------------------------------------------------------------------------
(* Base64.                                                                 *)

Octet(data, j) == IF j <= Len(data) THEN data[j] ELSE 0

\* How many characters carry n bytes, and how many with the padding.
Carrying(n) == (4 * n + 2) \div 3
Groups(n) == (n + 2) \div 3

EncodedChar(data, i) ==
  LET g == (i - 1) \div 4
      a == Octet(data, 3 * g + 1)
      b == Octet(data, 3 * g + 2)
      c == Octet(data, 3 * g + 3)
  IN CASE (i - 1) % 4 = 0 -> a \div 4
       [] (i - 1) % 4 = 1 -> (a % 4) * 16 + b \div 16
       [] (i - 1) % 4 = 2 -> (b % 16) * 4 + c \div 64
       [] (i - 1) % 4 = 3 -> c % 64

Base64Encode(data) ==
  [i \in 1..4 * Groups(Len(data)) |->
     IF i <= Carrying(Len(data)) THEN EncodedChar(data, i) ELSE Pad]

\* The characters before the first '='.
Unpadded_SkipsPad(text) == SelectSeq(text, LAMBDA ch : ch # Pad)
Unpadded(text) ==
  SubSeq(text, 1, CHOOSE n \in 0..Len(text) :
                    /\ \A i \in 1..n : text[i] # Pad
                    /\ n < Len(text) => text[n + 1] = Pad)

Index(chars, i) == IF i <= Len(chars) THEN chars[i] ELSE Unknown

\* The shifts are on unsigned characters.
DecodedByte(chars, j) ==
  LET g == (j - 1) \div 3
      a == Index(chars, 4 * g + 1)
      b == Index(chars, 4 * g + 2)
      c == Index(chars, 4 * g + 3)
      d == Index(chars, 4 * g + 4)
  IN CASE (j - 1) % 3 = 0 -> (4 * a + ((b \div 16) % 4)) % 256
       [] (j - 1) % 3 = 1 -> (b % 16) * 16 + ((c \div 4) % 16)
       [] (j - 1) % 3 = 2 -> ((c % 4) * 64 + d) % 256

Base64Decode(text) ==
  [j \in 1..(3 * Len(Unpadded(text))) \div 4 |-> DecodedByte(Unpadded(text), j)]

-----------------------------------------------------------------------------
(* The shift: by the key, which repeats, and by the position.              *)

Shift(key, i) == key[((i - 1) % Len(key)) + 1] + ((i - 1) % 256)

ShiftEncrypt(data, key) == [i \in 1..Len(data) |-> (data[i] + Shift(key, i)) % 256]

ShiftDecrypt(data, key) == [i \in 1..Len(data) |-> (data[i] - Shift(key, i) + 512) % 256]

-----------------------------------------------------------------------------
(* Both ends of a message.  The data are not empty, and neither is what    *)
(* Decrypt returns; <<>> stands for its failure.                           *)

Encrypt(data, random_key) ==
  Base64Encode(ShiftEncrypt(random_key, master_key) \o ShiftEncrypt(data, random_key))

Decrypt(text) ==
  LET decoded == Base64Decode(text)
      key == ShiftDecrypt(SubSeq(decoded, 1, kKEY_SIZE), master_key)
  IN IF Len(decoded) <= kKEY_SIZE THEN <<>>
     ELSE ShiftDecrypt(SubSeq(decoded, kKEY_SIZE + 1, Len(decoded)), key)

=============================================================================
