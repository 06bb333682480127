-------------------------------- MODULE Encode --------------------------------
(***************************************************************************)
(* The hexadecimal and the base64 encodings of utility/src/encode.cpp.     *)
(*                                                                         *)
(* Bytes and characters are numbers below 256; the characters of base64    *)
(* are the numbers 0..63 they stand for, and Equals for the padding.  What *)
(* the loops of hex_encode and hex_decode do to a text is given for every  *)
(* position at once.  transform_width, an iterator of Boost, is modelled   *)
(* by the bits it regroups and by when a loop over it stops.               *)
(***************************************************************************)
EXTENDS PackedWord, Sequences

CONSTANT Texts   \* the byte strings that are encoded

ASSUME EncodeAssumption == Texts \subseteq Seq(0..255)

-----------------------------------------------------------------------------
\* The character of a digit: '0'..'9', 'a'..'f'.
HexChar(digit) == IF digit < 10 THEN 48 + digit ELSE 97 + (digit - 10)

\* hex << setw(2) << setfill('0') of every byte.
hex_encode(txt) ==
  [i \in 1..(2 * Len(txt)) |->
     LET c == txt[(i + 1) \div 2] IN IF i % 2 = 1 THEN HexChar(c \div 16) ELSE HexChar(c % 16)]

\* Of any other character than a decimal digit, what it is from 'a'.
hex_char_decode(c) == IF c \in 48..57 THEN c - 48 ELSE (c - 97) + 10

DecodedSize(n) == n \div 2

\* (high << 4) | low, of integers that may be negative, cut to a byte.
hex_decode(txt) ==
  [i \in 1..DecodedSize(Len(txt)) |->
     LET high == hex_char_decode(txt[(2 * i) - 1])
         low == hex_char_decode(txt[2 * i])
     IN  Number(Bits((16 * high) % 256, 8) \cup Bits(low % 256, 8), 8)]

-----------------------------------------------------------------------------
Equals == 64

\* Bit j of a text of characters of `width' bits, the highest of each first;
\* 0 beyond its end.
BitAt(txt, width, j) ==
  LET c == j \div width
  IN  IF c < Len(txt) THEN (txt[c + 1] \div 2^((width - 1) - (j % width))) % 2 ELSE 0

\* n characters of `out' bits made from the bits of txt.
Regrouped(txt, in, out, n) ==
  [i \in 1..n |-> Number({b \in 0..(out - 1) : BitAt(txt, in, (out * i) - (b + 1)) = 1}, out)]

\* base64_padding[_txt.size() % 3]
Padding(n) == [i \in 1..((3 - (n % 3)) % 3) |-> Equals]

\* Variant: the last bits are left out if they fill no character.
base64_encode_cut(txt) ==
  Regrouped(txt, 8, 6, (8 * Len(txt)) \div 6) \o Padding(Len(txt))

\* The last character is filled up with zeroes.
base64_encode(txt) ==
  Regrouped(txt, 8, 6, (8 * Len(txt) + 5) \div 6) \o Padding(Len(txt))

\* Variant: only one padding character is removed.
UnpaddedOne(txt) ==
  LET n == Len(txt)
  IN  IF n > 0 /\ txt[n] = Equals THEN SubSeq(txt, 1, n - 1) ELSE txt

Unpadded(txt) ==
  LET n == Len(txt)
  IN  IF n > 0 /\ txt[n] = Equals
      THEN IF n > 1 /\ txt[n - 1] = Equals THEN SubSeq(txt, 1, n - 2) ELSE SubSeq(txt, 1, n - 1)
      ELSE txt

\* How many characters of 6 bits the decoder has taken when it has given k
\* bytes; its loop stops only if that is exactly what there is.
Taken(k) == (8 * k + 5) \div 6

Stops(n) == \E k \in 0..n : Taken(k) = n

base64_decode(txt) ==
  LET chars == Unpadded(txt)
  IN  Regrouped(chars, 6, 8, CHOOSE k \in 0..Len(chars) : Taken(k) = Len(chars))

-----------------------------------------------------------------------------
VARIABLES
  text,      \* what is encoded
  encoding,  \* "none", "hex" or "base64"
  encoded,   \* what the encoder has returned
  received,  \* as much of it as the decoder is given, maybe in upper case
  decoded    \* what the decoder has returned

vars == <<text, encoding, encoded, received, decoded>>

NotYet == <<256>>

Init ==
  /\ text \in Texts
  /\ encoding = "none"
  /\ encoded = NotYet /\ received = NotYet /\ decoded = NotYet

Encoder(e) ==
  /\ encoding = "none"
  /\ encoding' = e
  /\ encoded' = IF e = "hex" THEN hex_encode(text) ELSE base64_encode(text)
  /\ UNCHANGED <<text, received, decoded>>

\* The letters of a hexadecimal text in upper case.
Upper(txt) == [i \in DOMAIN txt |-> IF txt[i] \in 97..102 THEN txt[i] - 32 ELSE txt[i]]

HexDecoder ==
  /\ encoding = "hex" /\ decoded = NotYet
  /\ \E n \in 0..Len(encoded) :
       received' \in {SubSeq(encoded, 1, n), Upper(SubSeq(encoded, 1, n))}
  /\ decoded' = hex_decode(received')
  /\ UNCHANGED <<text, encoding, encoded>>

Base64Decoder ==
  /\ encoding = "base64" /\ decoded = NotYet
  /\ Stops(Len(Unpadded(encoded)))
  /\ received' = encoded
  /\ decoded' = base64_decode(received')
  /\ UNCHANGED <<text, encoding, encoded>>

Next == (\E e \in {"hex", "base64"} : Encoder(e)) \/ HexDecoder \/ Base64Decoder

Spec == Init /\ [][Next]_vars

\* The functions are not interrupted.
FairSpec == Spec /\ WF_vars(Next)

-----------------------------------------------------------------------------
\* c with the bits of the number 224 set.
Blurred(c) == Number(Bits(c, 8) \cup {5, 6, 7}, 8)

(***************************************************************************)
(* Decoding what was encoded gives the text back, whatever bytes it holds; *)
(* of a hexadecimal text that was cut off, the bytes that arrived whole.   *)
(* Of one that another program wrote in upper case, a byte is lost if its  *)
(* second digit is a letter, and then it is at least 224: no byte is ever  *)
(* taken for another character of ASCII.                                   *)
(***************************************************************************)
RoundTrip ==
  decoded # NotYet =>
    decoded = IF encoding = "hex"
              THEN [i \in 1..(Len(received) \div 2) |->
                      IF received[2 * i] \in 65..70 THEN Blurred(text[i]) ELSE text[i]]
              ELSE text

(***************************************************************************)
(* The iterator of base64_decode compares for equality with the end and    *)
(* would run past it.  It never does on what base64_encode has returned:   *)
(* each of the three paddings, once removed, leaves a number of characters *)
(* that the decoder takes exactly.                                         *)
(***************************************************************************)
DecoderStops == encoding = "base64" ~> decoded # NotYet

=============================================================================
