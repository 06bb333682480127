---------------------------- MODULE EncodingProofs ----------------------------
(***************************************************************************)
(* Proofs about the two parts of utility/src/encode.cpp.                   *)
(*                                                                         *)
(* StreamDigest, for every size of the buffer and of the stream: what      *)
(* sha256 has digested is what it has read, and a digest that it returns   *)
(* is that of the whole stream.                                            *)
(*                                                                         *)
(* Encode, for every text of bytes: decoding what hex_encode and           *)
(* base64_encode have returned gives the text back.                        *)
(***************************************************************************)
EXTENDS Encode, StreamDigest, SequenceTheorems, TLAPS

(***************************************************************************)
(* The positions between two places of a stream are a sequence of them.    *)
(***************************************************************************)
LEMMA BytesSeq ==
  ASSUME NEW a \in Nat, NEW b \in Nat, NEW n \in Nat, a <= b, b <= n
  PROVE  /\ Bytes(a, b) \in Seq(1..n)
         /\ Len(Bytes(a, b)) = b - a
         /\ \A i \in 1..(b - a) : Bytes(a, b)[i] = a + i
<1>1. b - a \in Nat  OBVIOUS
<1>2. \A i \in 1..(b - a) : a + i \in 1..n  OBVIOUS
<1>3. Bytes(a, b) \in [1..(b - a) -> 1..n]  BY <1>2 DEF Bytes
<1>4. Bytes(a, b) \in Seq(1..n)  BY <1>1, <1>3
<1>5. Len(Bytes(a, b)) = b - a  BY <1>1, <1>3, <1>4, LenProperties DEF Bytes
<1> QED  BY <1>4, <1>5 DEF Bytes

(***************************************************************************)
(* What is read from one place to another and on to a third is what lies   *)
(* between the first and the third.                                        *)
(***************************************************************************)
LEMMA BytesConcat ==
  ASSUME NEW a \in Nat, NEW b \in Nat, NEW c \in Nat, a <= b, b <= c
  PROVE  Bytes(a, b) \o Bytes(b, c) = Bytes(a, c)
<1> DEFINE s == Bytes(a, b)
           t == Bytes(b, c)
           u == Bytes(a, c)
<1>1. s \in Seq(1..c) /\ Len(s) = b - a /\ \A i \in 1..(b - a) : s[i] = a + i
  BY BytesSeq
<1>2. t \in Seq(1..c) /\ Len(t) = c - b /\ \A i \in 1..(c - b) : t[i] = b + i
  BY BytesSeq
<1>3. u \in Seq(1..c) /\ Len(u) = c - a /\ \A i \in 1..(c - a) : u[i] = a + i
  BY BytesSeq
<1> HIDE DEF s, t, u
<1>4. /\ s \o t \in Seq(1..c)
      /\ Len(s \o t) = Len(s) + Len(t)
      /\ \A i \in 1..(Len(s) + Len(t)) :
           (s \o t)[i] = IF i <= Len(s) THEN s[i] ELSE t[i - Len(s)]
  <2> DEFINE S == 1..c
  <2>1. s \in Seq(S) /\ t \in Seq(S)  BY <1>1, <1>2
  <2> HIDE DEF S
  <2>2. /\ s \o t \in Seq(S)
        /\ Len(s \o t) = Len(s) + Len(t)
        /\ \A i \in 1..(Len(s) + Len(t)) :
             (s \o t)[i] = IF i <= Len(s) THEN s[i] ELSE t[i - Len(s)]
    BY <2>1, ConcatProperties
  <2> QED  BY <2>2 DEF S
<1>5. ASSUME NEW i \in 1..(c - a)
      PROVE  (s \o t)[i] = u[i]
  <2>0. i \in Int /\ a \in Int /\ b \in Int /\ c \in Int  OBVIOUS
  <2>1. (s \o t)[i] = IF i <= b - a THEN s[i] ELSE t[i - (b - a)]
    <3>1. (b - a) + (c - b) = c - a  BY <2>0
    <3>2. i \in 1..((b - a) + (c - b))  BY <3>1
    <3>3. \A j \in 1..((b - a) + (c - b)) :
            (s \o t)[j] = IF j <= b - a THEN s[j] ELSE t[j - (b - a)]
      BY <1>1, <1>2, <1>4, Zenon
    <3> QED  BY <3>2, <3>3, Zenon
  <2>2. CASE i <= b - a
    BY <1>1, <1>3, <2>1, <2>2
  <2>3. CASE i > b - a
    <3>1. i - (b - a) \in 1..(c - b)  BY <2>3
    <3>2. t[i - (b - a)] = b + (i - (b - a))  BY <1>2, <3>1
    <3> QED  BY <1>3, <2>1, <2>3, <3>2
  <2>4. i <= b - a \/ i > b - a  BY <2>0
  <2> QED  BY <2>2, <2>3, <2>4
<1>6. s \o t = u
  <2>1. Len(s \o t) = c - a /\ Len(u) = c - a  BY <1>1, <1>2, <1>3, <1>4
  <2>2. \A i \in 1..Len(s \o t) : (s \o t)[i] = u[i]  BY <1>5, <2>1
  <2> QED  BY <1>3, <1>4, <2>1, <2>2, SeqEqual
<1> QED  BY <1>6 DEF s, t, u

(***************************************************************************)
(* A sequence is the beginning of whatever it is put before.               *)
(***************************************************************************)
LEMMA Prefix ==
  ASSUME NEW S, NEW s \in Seq(S), NEW t \in Seq(S)
  PROVE  SubSeq(s \o t, 1, Len(s)) = s
<1>1. CASE s = <<>>
  <2>1. Len(s) = 0 /\ 1 \in Int /\ 0 \in Int /\ 0 < 1  BY <1>1
  <2>2. SubSeq(s \o t, 1, 0) = <<>>  BY <2>1, SubSeqEmpty
  <2> QED  BY <1>1, <2>1, <2>2
<1>2. CASE s # <<>>
  <2>1. Len(s) \in Nat \ {0}  BY <1>2, EmptySeq
  <2>2. 1 \in 1..Len(s) /\ Len(s) \in 1..Len(s)  BY <2>1
  <2>3. SubSeq(s \o t, 1, Len(s)) = SubSeq(s, 1, Len(s))
    BY <2>2, SubSeqOfConcat1
  <2> QED  BY <2>3, SubSeqFull
<1> QED  BY <1>1, <1>2

(***************************************************************************)
(* After a read() that got n bytes the first n bytes of the buffer are the *)
(* stream's next ones, whatever the buffer had before.                     *)
(***************************************************************************)
LEMMA GotBytes ==
  ASSUME TypeOK, NEW n \in 0..Capacity, pos + n <= size, Got(n)
  PROVE  /\ gcount' = n /\ pos' = pos + n
         /\ buf' \in Seq(1..size) /\ Len(buf') <= Capacity
         /\ SubSeq(buf', 1, n) = Bytes(pos, pos + n)
<1> DEFINE s == Bytes(pos, pos + n)
           t == SubSeq(buf, n + 1, Len(buf))
<1>0. /\ Capacity \in Nat /\ n \in Nat /\ pos \in Nat /\ size \in Nat
      /\ buf \in Seq(1..size) /\ Len(buf) \in Nat /\ Len(buf) <= Capacity
  BY DigestAssumption DEF TypeOK
<1>1. s \in Seq(1..size) /\ Len(s) = n
  <2>1. pos + n \in Nat /\ (pos + n) - pos = n  BY <1>0
  <2>2. pos <= pos + n  BY <1>0
  <2> QED  BY <1>0, <2>1, <2>2, BytesSeq
<1>2. t \in Seq(1..size) /\ Len(t) = IF n + 1 <= Len(buf) THEN Len(buf) - n ELSE 0
  <2>1. \A i \in (n + 1)..Len(buf) : buf[i] \in 1..size
    BY <1>0, ElementOfSeq
  <2>2. /\ t \in Seq(1..size)
        /\ Len(t) = IF n + 1 <= Len(buf) THEN Len(buf) - (n + 1) + 1 ELSE 0
    BY <1>0, <2>1, SubSeqProperties
  <2> QED  BY <1>0, <2>2
<1>3. gcount' = n /\ pos' = pos + n /\ buf' = s \o t  BY DEF Got
<1> HIDE DEF s, t
<1>4. /\ s \o t \in Seq(1..size)
      /\ Len(s \o t) = Len(s) + Len(t)
      /\ \A i \in 1..(Len(s) + Len(t)) :
           (s \o t)[i] = IF i <= Len(s) THEN s[i] ELSE t[i - Len(s)]
  BY <1>1, <1>2, ConcatProperties
<1>5. Len(buf') <= Capacity  BY <1>0, <1>1, <1>2, <1>3, <1>4
<1>6. SubSeq(s \o t, 1, n) = s  BY <1>1, <1>2, Prefix
<1> QED  BY <1>3, <1>4, <1>5, <1>6 DEF s

-----------------------------------------------------------------------------
(***************************************************************************)
(* The inductive invariant: the digest and what waits in the buffer are    *)
(* what was read, the end is only met at the end, and the loop is only     *)
(* left there.                                                             *)
(***************************************************************************)
DigestInv ==
  /\ TypeOK
  /\ DigestFollows
  /\ eof => pos = size
  /\ pc = "returned" => eof

(***************************************************************************)
(* A round of the loop that gets n bytes keeps the invariant, if it sets   *)
(* eofbit only at the end of the stream.                                   *)
(***************************************************************************)
LEMMA RoundKeepsInv ==
  ASSUME DigestInv, NEW n \in 0..Capacity, pos + n <= size, Got(n),
         pc = "loop", pc' = "update",
         size' = size, start' = start, digested' = digested,
         eof' \in BOOLEAN, bad' \in BOOLEAN, eof' => pos + n = size
  PROVE  DigestInv'
<1>1. /\ gcount' = n /\ pos' = pos + n
      /\ buf' \in Seq(1..size) /\ Len(buf') <= Capacity
      /\ SubSeq(buf', 1, n) = Bytes(pos, pos + n)
  BY GotBytes DEF DigestInv
<1>2. /\ size \in Nat /\ start \in 0..size /\ pos \in start..size
      /\ digested \in Seq(1..size) /\ n \in Nat /\ Capacity \in Nat
  BY DigestAssumption DEF DigestInv, TypeOK
<1>3. TypeOK'
  <2>1. pos + n \in start..size  BY <1>2
  <2> QED  BY <1>1, <1>2, <2>1 DEF TypeOK
<1>4. DigestFollows'
  <2>1. digested = Bytes(start, pos)
    <3>1. digested \o <<>> = Bytes(start, pos)  BY DEF DigestInv, DigestFollows
    <3> QED  BY <1>2, <3>1, ConcatEmptySeq
  <2>2. Bytes(start, pos) \o Bytes(pos, pos + n) = Bytes(start, pos + n)
    <3>1. /\ start \in Nat /\ pos \in Nat /\ pos + n \in Nat
          /\ start <= pos /\ pos <= pos + n
      BY <1>2
    <3> QED  BY <3>1, BytesConcat
  <2> QED  BY <1>1, <2>1, <2>2 DEF DigestFollows
<1>5. (eof => pos = size)'  BY <1>1
<1> QED  BY <1>3, <1>4, <1>5 DEF DigestInv

\* It holds when sha256 is called.
LEMMA InitDigest == DigestInit => DigestInv
<1> SUFFICES ASSUME DigestInit PROVE DigestInv  OBVIOUS
<1>1. size \in Nat /\ start \in 0..size /\ pos = start
  BY DigestAssumption DEF DigestInit
<1>2. <<>> \in Seq(1..size) /\ Len(<<>>) = 0  BY EmptySeq
<1>3. TypeOK
  BY <1>1, <1>2, DigestAssumption DEF DigestInit, TypeOK
<1>4. DigestFollows
  <2>1. /\ Bytes(start, start) \in Seq(1..size) /\ Len(Bytes(start, start)) = start - start
    BY <1>1, BytesSeq
  <2>2. Bytes(start, start) = <<>>
    BY <1>1, <2>1, EmptySeq
  <2>3. <<>> \o <<>> = <<>>  BY <1>2, ConcatEmptySeq
  <2> QED  BY <1>1, <2>2, <2>3 DEF DigestInit, DigestFollows
<1> QED  BY <1>3, <1>4 DEF DigestInit, DigestInv

\* Every step of sha256 keeps it.
LEMMA NextDigest == DigestInv /\ [DigestNext]_digestVars => DigestInv'
<1> SUFFICES ASSUME DigestInv, [DigestNext]_digestVars PROVE DigestInv'  OBVIOUS
<1> USE DigestAssumption
<1>0. /\ size \in Nat /\ start \in 0..size /\ pos \in start..size
      /\ eof \in BOOLEAN /\ bad \in BOOLEAN /\ gcount \in 0..Capacity
      /\ buf \in Seq(1..size) /\ digested \in Seq(1..size) /\ Len(buf) <= Capacity
  BY DEF DigestInv, TypeOK
<1>1. CASE Read
  <2>1. /\ Available \in 0..Capacity /\ pos + Available <= size
        /\ Available < Capacity => pos + Available = size
    BY <1>0 DEF Available
  <2>2. /\ Got(Available) /\ pc = "loop" /\ pc' = "update"
        /\ size' = size /\ start' = start /\ digested' = digested
        /\ eof' = (Available < Capacity) /\ bad' = bad
    BY <1>1 DEF Read
  <2> HIDE DEF Available
  <2>3. eof' \in BOOLEAN /\ bad' \in BOOLEAN  BY <1>0, <2>2
  <2>4. eof' => pos + Available = size  BY <2>1, <2>2
  <2> QED  BY <2>1, <2>2, <2>3, <2>4, RoundKeepsInv
<1>2. CASE ReadBreaks
  <2>1. PICK n \in 0..(Capacity - 1) : pos + n <= size /\ Got(n)
    BY <1>2 DEF ReadBreaks
  <2>2. n \in 0..Capacity  OBVIOUS
  <2>3. /\ pc = "loop" /\ pc' = "update" /\ ~ eof
        /\ size' = size /\ start' = start /\ digested' = digested
        /\ eof' = eof /\ bad' = TRUE
    BY <1>2 DEF ReadBreaks
  <2> QED  BY <1>0, <2>1, <2>2, <2>3, RoundKeepsInv
<1>3. CASE ReadNothing
  <2>1. /\ pc = "loop" /\ pc' = "update" /\ gcount' = 0
        /\ UNCHANGED <<size, start, pos, eof, bad, buf, digested>>
    BY <1>3 DEF ReadNothing
  <2>2. TypeOK'  BY <1>0, <2>1 DEF TypeOK
  <2>3. SubSeq(buf, 1, 0) = <<>>  BY SubSeqEmpty
  <2> QED  BY <2>1, <2>2, <2>3 DEF DigestInv, DigestFollows
<1>4. CASE Update
  <2>1. /\ pc = "update" /\ pc' = "loop"
        /\ digested' = digested \o SubSeq(buf, 1, gcount)
        /\ UNCHANGED <<size, start, pos, eof, bad, gcount, buf>>
    BY <1>4 DEF Update
  <2>2. digested' = Bytes(start, pos)  BY <2>1 DEF DigestInv, DigestFollows
  <2>3. digested' \in Seq(1..size)
    <3>1. start \in Nat /\ pos \in Nat /\ start <= pos /\ pos <= size  BY <1>0
    <3> QED  BY <1>0, <2>2, <3>1, BytesSeq
  <2>4. TypeOK'  BY <1>0, <2>1, <2>3 DEF TypeOK
  <2>5. digested' \o <<>> = digested'  BY <2>3, ConcatEmptySeq
  <2> QED  BY <2>1, <2>2, <2>4, <2>5 DEF DigestInv, DigestFollows
<1>5. CASE Return
  BY <1>5 DEF Return, DigestInv, TypeOK, DigestFollows
<1>6. CASE UNCHANGED digestVars
  BY <1>6 DEF digestVars, DigestInv, TypeOK, DigestFollows
<1> QED  BY <1>1, <1>2, <1>3, <1>4, <1>5, <1>6 DEF DigestNext

(***************************************************************************)
(* Every buffer that is digested lies within the stream and the buffer's   *)
(* bounds, and the digest is what was read, once and in order.             *)
(***************************************************************************)
THEOREM DigestInvariant == DigestSpec => [](TypeOK /\ DigestFollows)
<1>1. DigestInv => TypeOK /\ DigestFollows  BY DEF DigestInv
<1> QED  BY <1>1, InitDigest, NextDigest, PTL DEF DigestSpec

(***************************************************************************)
(* The digest that is returned is that of the whole stream from where it   *)
(* was when sha256 was called.                                             *)
(***************************************************************************)
THEOREM WholeDigest == DigestSpec => []DigestIsWhole
<1>1. ASSUME DigestInv PROVE DigestIsWhole
  <2> SUFFICES ASSUME pc = "returned" PROVE digested = Bytes(start, size)
    BY DEF DigestIsWhole
  <2>1. digested \in Seq(1..size) /\ pos = size
    BY <1>1 DEF DigestInv, TypeOK
  <2>2. digested \o <<>> = Bytes(start, size)
    BY <1>1, <2>1 DEF DigestInv, DigestFollows
  <2> QED  BY <2>1, <2>2, ConcatEmptySeq
<1> QED  BY <1>1, InitDigest, NextDigest, PTL DEF DigestSpec

(***************************************************************************)
(* From a stream that fails before its end has been met there is no        *)
(* digest: the second half of EndsUnlessBad.                               *)
(***************************************************************************)
FailedBefore == bad /\ ~ eof /\ pc # "returned"

THEOREM NoDigestOfFailed == DigestSpec => [](FailedBefore => [](pc # "returned"))
<1>1. FailedBefore /\ [DigestNext]_digestVars => FailedBefore'
  <2> SUFFICES ASSUME FailedBefore, [DigestNext]_digestVars
               PROVE  FailedBefore'
    OBVIOUS
  <2>1. ~ Read /\ ~ ReadBreaks /\ ~ Return
    BY DEF FailedBefore, Read, ReadBreaks, Return, good
  <2>2. CASE ReadNothing \/ Update \/ UNCHANGED digestVars
    <3>1. bad' = bad /\ eof' = eof /\ (pc' = pc \/ pc' = "update" \/ pc' = "loop")
      BY <2>2 DEF ReadNothing, Update, digestVars
    <3> QED
      BY <3>1 DEF FailedBefore
  <2> QED
    BY <2>1, <2>2 DEF DigestNext
<1>2. FailedBefore => pc # "returned"
  BY DEF FailedBefore
<1> QED
  BY <1>1, <1>2, PTL DEF DigestSpec

(***************************************************************************)
(* On a stream that does not fail every step of the loop comes nearer to   *)
(* the return, also the read() that gets nothing: the loop has at most as  *)
(* many steps as Ahead says.                                               *)
(***************************************************************************)
Ahead ==
  2 * (size - pos) + (IF eof THEN 0 ELSE 2)
    + (IF pc = "update" THEN 2 ELSE IF pc = "loop" THEN 1 ELSE 0)

THEOREM DigestAdvances ==
  DigestSpec => [][~ bad' => Ahead \in Nat /\ Ahead' \in Nat /\ Ahead' < Ahead]_digestVars
<1> DEFINE Round == ~ bad' => Ahead \in Nat /\ Ahead' \in Nat /\ Ahead' < Ahead
<1>1. ASSUME DigestInv, DigestInv', DigestNext, ~ bad'
      PROVE  Ahead \in Nat /\ Ahead' \in Nat /\ Ahead' < Ahead
  <2>1. /\ size \in Nat /\ pos \in Nat /\ pos <= size /\ eof \in BOOLEAN
        /\ size' \in Nat /\ pos' \in Nat /\ pos' <= size' /\ eof' \in BOOLEAN
        /\ Capacity \in Nat \ {0}
    BY <1>1, DigestAssumption DEF DigestInv, TypeOK
  <2>2. CASE Read
    <3>1. /\ pc = "loop" /\ pc' = "update" /\ size' = size /\ eof = FALSE
          /\ pos' = pos + Available /\ eof' = (Available < Capacity)
      BY <2>1, <2>2 DEF Read, Got
    <3>2. Available \in Nat
      BY <2>1 DEF Available
    <3> HIDE DEF Available
    <3>3. CASE Available < Capacity
      <4>1. eof' = TRUE
        BY <3>1, <3>3
      <4>2. Ahead = 2 * (size - pos) + 2 + 1 /\ Ahead' = 2 * (size - pos') + 0 + 2
        BY <3>1, <4>1 DEF Ahead
      <4> QED
        BY <2>1, <3>1, <3>2, <4>2
    <3>4. CASE ~ (Available < Capacity)
      BY <2>1, <3>1, <3>2, <3>4 DEF Ahead
    <3> QED
      BY <3>3, <3>4
  <2>3. CASE ReadBreaks \/ ReadNothing
    BY <1>1, <2>3 DEF ReadBreaks, ReadNothing
  <2>4. CASE Update
    BY <2>1, <2>4 DEF Update, Ahead
  <2>5. CASE Return
    BY <2>1, <2>5 DEF Return, Ahead
  <2> QED
    BY <1>1, <2>2, <2>3, <2>4, <2>5 DEF DigestNext
<1>2. DigestInv /\ DigestInv' /\ [DigestNext]_digestVars => [Round]_digestVars
  BY <1>1
<1>3. DigestSpec => []DigestInv
  BY InitDigest, NextDigest, PTL DEF DigestSpec
<1> QED
  BY <1>2, <1>3, PTL DEF DigestSpec

-----------------------------------------------------------------------------
(***************************************************************************)
(* Words of six and of eight bits and the numbers they hold.               *)
(***************************************************************************)
\* One bit of a word.
Bit(word, b) == IF b \in word THEN 1 ELSE 0

\* The powers of two that words of a byte need.
LEMMA Powers ==
  /\ 2^0 = 1 /\ 2^1 = 2 /\ 2^2 = 4 /\ 2^3 = 8 /\ 2^4 = 16
  /\ 2^5 = 32 /\ 2^6 = 64 /\ 2^7 = 128 /\ 2^8 = 256
  OBVIOUS

LEMMA InBits ==
  ASSUME NEW n, NEW width, NEW b
  PROVE  b \in Bits(n, width) <=> b \in 0..(width - 1) /\ (n \div 2^b) % 2 = 1
  BY DEF Bits

LEMMA InByte ==
  ASSUME NEW n \in Int
  PROVE  /\ Bits(n, 8) \subseteq {0, 1, 2, 3, 4, 5, 6, 7}
         /\ 0 \in Bits(n, 8) <=> n % 2 = 1
         /\ 1 \in Bits(n, 8) <=> (n \div 2) % 2 = 1
         /\ 2 \in Bits(n, 8) <=> (n \div 4) % 2 = 1
         /\ 3 \in Bits(n, 8) <=> (n \div 8) % 2 = 1
         /\ 4 \in Bits(n, 8) <=> (n \div 16) % 2 = 1
         /\ 5 \in Bits(n, 8) <=> (n \div 32) % 2 = 1
         /\ 6 \in Bits(n, 8) <=> (n \div 64) % 2 = 1
         /\ 7 \in Bits(n, 8) <=> (n \div 128) % 2 = 1
<1>1. 8 - 1 = 7 /\ 0..7 = {0, 1, 2, 3, 4, 5, 6, 7} /\ n \div 1 = n
  OBVIOUS
<1>2. \A b : b \in Bits(n, 8) <=> b \in {0, 1, 2, 3, 4, 5, 6, 7} /\ (n \div 2^b) % 2 = 1
  BY <1>1, InBits
<1>3. /\ Bits(n, 8) \subseteq {0, 1, 2, 3, 4, 5, 6, 7}
      /\ 0 \in Bits(n, 8) <=> (n \div 2^0) % 2 = 1
      /\ 1 \in Bits(n, 8) <=> (n \div 2^1) % 2 = 1
      /\ 2 \in Bits(n, 8) <=> (n \div 2^2) % 2 = 1
      /\ 3 \in Bits(n, 8) <=> (n \div 2^3) % 2 = 1
      /\ 4 \in Bits(n, 8) <=> (n \div 2^4) % 2 = 1
      /\ 5 \in Bits(n, 8) <=> (n \div 2^5) % 2 = 1
      /\ 6 \in Bits(n, 8) <=> (n \div 2^6) % 2 = 1
      /\ 7 \in Bits(n, 8) <=> (n \div 2^7) % 2 = 1
  BY <1>2, Zenon
<1> QED
  BY <1>1, <1>3, Powers

\* Every word of 6 bits holds a number, which is the one that Number is.
LEMMA SixBits ==
  ASSUME NEW word \in SUBSET (0..5)
  PROVE  Number(word, 6) \in 0..63 /\ Bits(Number(word, 6), 6) = word
<1> DEFINE n == Bit(word, 0) + 2 * Bit(word, 1) + 4 * Bit(word, 2)
                  + 8 * Bit(word, 3) + 16 * Bit(word, 4) + 32 * Bit(word, 5)
<1>1. \A b \in 0..5 : Bit(word, b) \in {0, 1}
  BY DEF Bit
<1>2. n \in 0..63
  BY <1>1
<1>3. /\ n % 2 = Bit(word, 0) /\ (n \div 2) % 2 = Bit(word, 1)
      /\ (n \div 4) % 2 = Bit(word, 2) /\ (n \div 8) % 2 = Bit(word, 3)
      /\ (n \div 16) % 2 = Bit(word, 4) /\ (n \div 32) % 2 = Bit(word, 5)
  BY <1>1
<1> HIDE DEF n
<1>4. \A b \in 0..5 : (n \div 2^b) % 2 = Bit(word, b)
  <2>1. \A b \in 0..5 : b = 0 \/ b = 1 \/ b = 2 \/ b = 3 \/ b = 4 \/ b = 5
    OBVIOUS
  <2>2. n \div 1 = n
    BY <1>2
  <2>3. /\ (n \div 2^0) % 2 = Bit(word, 0) /\ (n \div 2^1) % 2 = Bit(word, 1)
        /\ (n \div 2^2) % 2 = Bit(word, 2) /\ (n \div 2^3) % 2 = Bit(word, 3)
        /\ (n \div 2^4) % 2 = Bit(word, 4) /\ (n \div 2^5) % 2 = Bit(word, 5)
    BY <1>3, <2>2, Powers
  <2> QED
    BY <2>1, <2>3, Zenon
<1>5. Bits(n, 6) = word
  <2>1. 6 - 1 = 5
    OBVIOUS
  <2>2. \A b \in 0..5 : (n \div 2^b) % 2 = 1 <=> b \in word
    <3> SUFFICES ASSUME NEW b \in 0..5 PROVE (n \div 2^b) % 2 = 1 <=> b \in word
      OBVIOUS
    <3>1. (n \div 2^b) % 2 = Bit(word, b)
      BY <1>4
    <3>2. Bit(word, b) = 1 <=> b \in word
      BY DEF Bit
    <3> QED
      BY <3>1, <3>2
  <2>3. \A b : b \in Bits(n, 6) <=> b \in word
    BY <2>1, <2>2, InBits
  <2> QED
    BY <2>3
<1>6. \E m \in 0..(2^6 - 1) : Bits(m, 6) = word
  BY <1>2, <1>5, Powers
<1> QED
  BY <1>6, Powers DEF Number

\* A byte is the sum of its bits.
LEMMA ByteSum ==
  ASSUME NEW n \in 0..255
  PROVE  n = (n % 2) + 2 * ((n \div 2) % 2) + 4 * ((n \div 4) % 2) + 8 * ((n \div 8) % 2)
               + 16 * ((n \div 16) % 2) + 32 * ((n \div 32) % 2) + 64 * ((n \div 64) % 2)
               + 128 * ((n \div 128) % 2)
<1>1. n = (n % 2) + 2 * (n \div 2)
  OBVIOUS
<1>2. n \div 2 = ((n \div 2) % 2) + 2 * (n \div 4)
  OBVIOUS
<1>3. n \div 4 = ((n \div 4) % 2) + 2 * (n \div 8)
  OBVIOUS
<1>4. n \div 8 = ((n \div 8) % 2) + 2 * (n \div 16)
  OBVIOUS
<1>5. n \div 16 = ((n \div 16) % 2) + 2 * (n \div 32)
  OBVIOUS
<1>6. n \div 32 = ((n \div 32) % 2) + 2 * (n \div 64)
  OBVIOUS
<1>7. n \div 64 = ((n \div 64) % 2) + 2 * (n \div 128)
  OBVIOUS
<1>8. n \div 128 = (n \div 128) % 2
  OBVIOUS
<1> QED
  BY <1>1, <1>2, <1>3, <1>4, <1>5, <1>6, <1>7, <1>8

\* It is the only one with its bits.
LEMMA ByteOfBits ==
  ASSUME NEW n \in 0..255
  PROVE  Number(Bits(n, 8), 8) = n
<1>1. ASSUME NEW m \in 0..255, NEW k \in 0..255, Bits(m, 8) = Bits(k, 8) PROVE m = k
  <2>1. \A x \in Int : x % 2 = 0 \/ x % 2 = 1
    OBVIOUS
  <2>2. /\ m % 2 = k % 2 /\ (m \div 2) % 2 = (k \div 2) % 2
        /\ (m \div 4) % 2 = (k \div 4) % 2 /\ (m \div 8) % 2 = (k \div 8) % 2
        /\ (m \div 16) % 2 = (k \div 16) % 2 /\ (m \div 32) % 2 = (k \div 32) % 2
        /\ (m \div 64) % 2 = (k \div 64) % 2 /\ (m \div 128) % 2 = (k \div 128) % 2
    BY <1>1, <2>1, InByte
  <2> QED
    BY <2>2, ByteSum
<1>2. \E m \in 0..(2^8 - 1) : Bits(m, 8) = Bits(n, 8)
  BY Powers
<1> DEFINE c == CHOOSE m \in 0..(2^8 - 1) : Bits(m, 8) = Bits(n, 8)
<1>3. c \in 0..255 /\ Bits(c, 8) = Bits(n, 8)
  BY <1>2, Powers
<1>4. c = Number(Bits(n, 8), 8)
  BY DEF Number
<1> HIDE DEF c
<1> QED
  BY <1>1, <1>3, <1>4

\* A byte has the bits of its two digits.
LEMMA DigitBits ==
  ASSUME NEW h \in 0..15, NEW l \in 0..15
  PROVE  Bits(16 * h, 8) \cup Bits(l, 8) = Bits(16 * h + l, 8)
<1>1. PICK n \in 0..255 : n = 16 * h + l
  OBVIOUS
<1>2. PICK m \in 0..255 : m = 16 * h
  OBVIOUS
<1>3. /\ n % 2 = l % 2 /\ m % 2 = 0
      /\ (n \div 2) % 2 = (l \div 2) % 2 /\ (m \div 2) % 2 = 0
      /\ (n \div 4) % 2 = (l \div 4) % 2 /\ (m \div 4) % 2 = 0
      /\ (n \div 8) % 2 = (l \div 8) % 2 /\ (m \div 8) % 2 = 0
  BY <1>1, <1>2
<1>4. /\ n \div 16 = m \div 16 /\ l \div 16 = 0
      /\ n \div 32 = m \div 32 /\ l \div 32 = 0
      /\ n \div 64 = m \div 64 /\ l \div 64 = 0
      /\ n \div 128 = m \div 128 /\ l \div 128 = 0
      /\ 0 % 2 = 0
  BY <1>1, <1>2
<1>5. Bits(m, 8) \cup Bits(l, 8) = Bits(n, 8)
  BY <1>3, <1>4, InByte
<1> QED
  BY <1>1, <1>2, <1>5

\* 224 more than a digit are three bits.
LEMMA BlurredBits ==
  ASSUME NEW l \in 0..15
  PROVE  Bits(l + 224, 8) = Bits(l, 8) \cup {5, 6, 7}
<1>1. PICK n \in 0..255 : n = l + 224
  OBVIOUS
<1>2. /\ n % 2 = l % 2
      /\ (n \div 2) % 2 = (l \div 2) % 2
      /\ (n \div 4) % 2 = (l \div 4) % 2
      /\ (n \div 8) % 2 = (l \div 8) % 2
  BY <1>1
<1>3. /\ n \div 16 = 14 /\ l \div 16 = 0 /\ 14 % 2 = 0 /\ 0 % 2 = 0
      /\ n \div 32 = 7 /\ 7 % 2 = 1
      /\ n \div 64 = 3 /\ 3 % 2 = 1
      /\ n \div 128 = 1 /\ 1 % 2 = 1
  BY <1>1
<1>4. Bits(n, 8) = Bits(l, 8) \cup {5, 6, 7}
  BY <1>2, <1>3, InByte
<1> QED
  BY <1>1, <1>4

-----------------------------------------------------------------------------
\* The two characters of a byte.
LEMMA HexChars ==
  ASSUME NEW txt \in Seq(0..255)
  PROVE  /\ hex_encode(txt) \in Seq(0..255)
         /\ Len(hex_encode(txt)) = 2 * Len(txt)
         /\ \A i \in 1..Len(txt) :
              /\ hex_encode(txt)[(2 * i) - 1] = HexChar(txt[i] \div 16)
              /\ hex_encode(txt)[2 * i] = HexChar(txt[i] % 16)
<1> DEFINE n == Len(txt)
           e == hex_encode(txt)
           C(i) == txt[(i + 1) \div 2]
<1>1. n \in Nat /\ \A i \in 1..n : txt[i] \in 0..255
  BY LenProperties, ElementOfSeq
<1> HIDE DEF n
<1>2. ASSUME NEW i \in 1..(2 * n)
      PROVE  /\ (i + 1) \div 2 \in 1..n
             /\ (IF i % 2 = 1 THEN HexChar(C(i) \div 16) ELSE HexChar(C(i) % 16)) \in 0..255
  <2>1. (i + 1) \div 2 \in 1..n
    BY <1>1, <1>2
  <2>2. C(i) \in 0..255
    BY <1>1, <2>1
  <2> HIDE DEF C
  <2>3. \A c \in 0..255 : c \div 16 \in 0..15 /\ c % 16 \in 0..15
    OBVIOUS
  <2>4. \A d \in 0..15 : HexChar(d) \in 0..255
    BY DEF HexChar
  <2> QED
    BY <2>1, <2>2, <2>3, <2>4
<1>3. e = [i \in 1..(2 * n) |-> IF i % 2 = 1 THEN HexChar(C(i) \div 16) ELSE HexChar(C(i) % 16)]
  BY DEF hex_encode, n
<1> HIDE DEF e
<1>4. e \in [1..(2 * n) -> 0..255]
  BY <1>2, <1>3
<1>5. PICK k \in Nat : k = 2 * n
  BY <1>1
<1>6. e \in Seq(0..255) /\ Len(e) = 2 * n
  <2>1. e \in [1..k -> 0..255]
    BY <1>4, <1>5
  <2>2. e \in Seq(0..255)
    BY <2>1
  <2> QED
    BY <1>5, <2>1, <2>2, LenProperties
<1>7. ASSUME NEW i \in 1..n
      PROVE  e[(2 * i) - 1] = HexChar(txt[i] \div 16) /\ e[2 * i] = HexChar(txt[i] % 16)
  <2>1. /\ (2 * i) - 1 \in 1..(2 * n) /\ ((2 * i) - 1) % 2 = 1 /\ (((2 * i) - 1) + 1) \div 2 = i
        /\ 2 * i \in 1..(2 * n) /\ (2 * i) % 2 # 1 /\ ((2 * i) + 1) \div 2 = i
    BY <1>1, <1>7
  <2> QED
    BY <1>3, <2>1
<1> QED
  BY <1>6, <1>7 DEF e, n

\* A character as it is or in upper case.
Cases(c) == {c, IF c \in 97..102 THEN c - 32 ELSE c}

\* A digit from a lower-case character is itself; from one in upper case 32
\* less.
LEMMA DigitRead ==
  ASSUME NEW d \in 0..15, NEW c \in Cases(HexChar(d))
  PROVE  IF c \in 65..70 THEN hex_char_decode(c) = d - 32 ELSE hex_char_decode(c) = d
<1>1. HexChar(d) = IF d < 10 THEN 48 + d ELSE 87 + d
  BY DEF HexChar
<1>2. CASE d < 10
  <2>1. c = 48 + d
    BY <1>1, <1>2 DEF Cases
  <2> QED
    BY <1>2, <2>1 DEF hex_char_decode
<1>3. CASE d >= 10
  <2>1. c = 87 + d \/ c = 55 + d
    BY <1>1, <1>3 DEF Cases
  <2>2. CASE c = 87 + d
    BY <1>3, <2>2 DEF hex_char_decode
  <2>3. CASE c = 55 + d
    BY <1>3, <2>3 DEF hex_char_decode
  <2> QED
    BY <2>1, <2>2, <2>3
<1> QED
  BY <1>2, <1>3

\* What hex_decode makes of two characters.
ByteOf(x, y) ==
  Number(Bits((16 * hex_char_decode(x)) % 256, 8) \cup Bits(hex_char_decode(y) % 256, 8), 8)

(***************************************************************************)
(* The byte of two characters is the one they stand for, or is blurred if  *)
(* the second is a letter in upper case.                                   *)
(***************************************************************************)
LEMMA ByteRead ==
  ASSUME NEW byte \in 0..255,
         NEW x \in Cases(HexChar(byte \div 16)), NEW y \in Cases(HexChar(byte % 16))
  PROVE  ByteOf(x, y) = IF y \in 65..70 THEN Blurred(byte) ELSE byte
<1>1. PICK h \in 0..15 : h = byte \div 16
  OBVIOUS
<1>2. PICK l \in 0..15 : l = byte % 16
  OBVIOUS
<1>3. byte = 16 * h + l
  BY <1>1, <1>2
<1>4. (16 * hex_char_decode(x)) % 256 = 16 * h
  <2>1. hex_char_decode(x) = h \/ hex_char_decode(x) = h - 32
    BY <1>1, DigitRead
  <2>2. (16 * h) % 256 = 16 * h /\ (16 * (h - 32)) % 256 = 16 * h
    OBVIOUS
  <2> QED
    BY <2>1, <2>2
<1>5. Bits(16 * h, 8) \cup Bits(l, 8) = Bits(byte, 8)
  BY <1>3, DigitBits
<1>6. CASE y \in 65..70
  <2>1. hex_char_decode(y) = l - 32
    BY <1>2, <1>6, DigitRead
  <2>2. hex_char_decode(y) % 256 = l + 224
    BY <2>1
  <2>3. Bits(hex_char_decode(y) % 256, 8) = Bits(l, 8) \cup {5, 6, 7}
    BY <2>2, BlurredBits
  <2>4. Bits(16 * h, 8) \cup Bits(hex_char_decode(y) % 256, 8) = Bits(byte, 8) \cup {5, 6, 7}
    BY <1>5, <2>3
  <2> QED
    BY <1>4, <1>6, <2>4 DEF Blurred, ByteOf
<1>7. CASE y \notin 65..70
  <2>1. hex_char_decode(y) = l
    BY <1>2, <1>7, DigitRead
  <2>2. hex_char_decode(y) % 256 = l
    BY <2>1
  <2> QED
    BY <1>4, <1>5, <1>7, <2>2, ByteOfBits DEF ByteOf
<1> QED
  BY <1>6, <1>7

(***************************************************************************)
(* What hex_decode makes of the beginning of an encoded text, whichever    *)
(* characters of it are in upper case.                                     *)
(***************************************************************************)
LEMMA HexRoundTrip ==
  ASSUME NEW txt \in Seq(0..255), NEW rcv \in Seq(Int), Len(rcv) <= 2 * Len(txt),
         \A j \in 1..Len(rcv) : rcv[j] \in Cases(hex_encode(txt)[j])
  PROVE  hex_decode(rcv) = [i \in 1..(Len(rcv) \div 2) |->
                              IF rcv[2 * i] \in 65..70 THEN Blurred(txt[i]) ELSE txt[i]]
<1>1. Len(txt) \in Nat /\ Len(rcv) \in Nat /\ \A i \in 1..Len(txt) : txt[i] \in 0..255
  BY LenProperties, ElementOfSeq
<1>2. ASSUME NEW i \in 1..(Len(rcv) \div 2)
      PROVE  ByteOf(rcv[(2 * i) - 1], rcv[2 * i])
               = IF rcv[2 * i] \in 65..70 THEN Blurred(txt[i]) ELSE txt[i]
  <2>1. (2 * i) - 1 \in 1..Len(rcv) /\ 2 * i \in 1..Len(rcv) /\ i \in 1..Len(txt)
    BY <1>1, <1>2
  <2>2. PICK b \in 0..255 : b = txt[i]
    BY <1>1, <2>1
  <2>3. /\ rcv[(2 * i) - 1] \in Cases(HexChar(b \div 16))
        /\ rcv[2 * i] \in Cases(HexChar(b % 16))
    BY <2>1, <2>2, HexChars
  <2>4. \A x \in Cases(HexChar(b \div 16)) : \A y \in Cases(HexChar(b % 16)) :
          ByteOf(x, y) = IF y \in 65..70 THEN Blurred(b) ELSE b
    BY ByteRead
  <2>5. ByteOf(rcv[(2 * i) - 1], rcv[2 * i]) = IF rcv[2 * i] \in 65..70 THEN Blurred(b) ELSE b
    BY <2>3, <2>4, Zenon
  <2> QED
    BY <2>2, <2>5, Zenon
<1> QED
  BY <1>2 DEF hex_decode, DecodedSize, ByteOf

-----------------------------------------------------------------------------
LEMMA RegroupedSeq ==
  ASSUME NEW txt, NEW n \in Nat
  PROVE  /\ Regrouped(txt, 8, 6, n) \in Seq(0..63)
         /\ Len(Regrouped(txt, 8, 6, n)) = n
<1> DEFINE r == Regrouped(txt, 8, 6, n)
           w(i) == {b \in 0..(6 - 1) : BitAt(txt, 8, (6 * i) - (b + 1)) = 1}
<1>1. r = [i \in 1..n |-> Number(w(i), 6)]
  BY DEF Regrouped
<1>2. \A i \in 1..n : w(i) \in SUBSET (0..5)
  OBVIOUS
<1> HIDE DEF r, w
<1>3. \A i \in 1..n : Number(w(i), 6) \in 0..63
  BY <1>2, SixBits
<1>4. r \in [1..n -> 0..63]
  BY <1>1, <1>3
<1>5. r \in Seq(0..63)
  BY <1>4
<1> QED
  BY <1>4, <1>5, LenProperties DEF r

\* A character is never the padding, so all of the padding is removed and
\* nothing else is.
LEMMA PaddingRemoved ==
  ASSUME NEW s \in Seq(0..63), NEW n \in Nat, Len(s) = (8 * n + 5) \div 6
  PROVE  Unpadded(s \o Padding(n)) = s
<1> DEFINE p == Padding(n)
           k == (3 - (n % 3)) % 3
           t == s \o p
<1>1. k \in {0, 1, 2} /\ Len(s) \in Nat /\ (k # 0 => Len(s) > 0)
  BY LenProperties
<1>2. p = [i \in 1..k |-> Equals]
  BY DEF Padding
<1> HIDE DEF k, p
<1>3. p \in Seq(0..64) /\ Len(p) = k /\ \A i \in 1..k : p[i] = 64
  <2>1. p \in [1..k -> 0..64]
    BY <1>2 DEF Equals
  <2>2. p \in Seq(0..64)
    BY <1>1, <2>1
  <2> QED
    BY <1>1, <1>2, <2>1, <2>2, LenProperties DEF Equals
<1>4. s \in Seq(0..64) /\ \A i \in 1..Len(s) : s[i] # 64
  <2>1. 0..63 \subseteq 0..64 /\ 64 \notin 0..63
    OBVIOUS
  <2>2. s \in Seq(0..64)
    BY <2>1, SeqMonotonic
  <2>3. \A i \in 1..Len(s) : s[i] \in 0..63
    BY ElementOfSeq
  <2> QED
    BY <2>1, <2>2, <2>3
<1>5. /\ t \in Seq(0..64) /\ Len(t) = Len(s) + k
      /\ \A i \in 1..(Len(s) + k) : t[i] = IF i <= Len(s) THEN s[i] ELSE p[i - Len(s)]
  <2> DEFINE S == 0..64
  <2>1. s \in Seq(S) /\ p \in Seq(S)
    BY <1>3, <1>4
  <2> HIDE DEF S
  <2>2. /\ s \o p \in Seq(S)
        /\ Len(s \o p) = Len(s) + Len(p)
        /\ \A i \in 1..(Len(s) + Len(p)) :
             (s \o p)[i] = IF i <= Len(s) THEN s[i] ELSE p[i - Len(s)]
    BY <2>1, ConcatProperties
  <2> QED
    BY <1>3, <2>2 DEF S
<1>6. SubSeq(t, 1, Len(s)) = s
  BY <1>3, <1>4, Prefix
<1> HIDE DEF t
<1>7. ASSUME k = 0 PROVE Unpadded(t) = s
  <2>1. t = s
    BY <1>5, <1>6, <1>7, SubSeqFull
  <2>2. Len(s) > 0 => Len(s) \in 1..Len(s)
    BY <1>1
  <2>3. Len(s) > 0 => s[Len(s)] # 64
    BY <1>4, <2>2
  <2> QED
    BY <2>1, <2>3 DEF Unpadded, Equals
<1>8. ASSUME k = 1 PROVE Unpadded(t) = s
  <2>1. Len(t) = Len(s) + 1 /\ Len(t) > 1 /\ Len(t) - 1 = Len(s)
    BY <1>1, <1>5, <1>8
  <2>2. t[Len(t)] = 64 /\ t[Len(t) - 1] # 64
    BY <1>1, <1>3, <1>4, <1>5, <1>8, <2>1
  <2> QED
    BY <1>6, <2>1, <2>2 DEF Unpadded, Equals
<1>9. ASSUME k = 2 PROVE Unpadded(t) = s
  <2>1. Len(t) = Len(s) + 2 /\ Len(t) > 1 /\ Len(t) - 2 = Len(s)
    BY <1>1, <1>5, <1>9
  <2>2. t[Len(t)] = 64 /\ t[Len(t) - 1] = 64
    BY <1>1, <1>3, <1>5, <1>9, <2>1
  <2> QED
    BY <1>6, <2>1, <2>2 DEF Unpadded, Equals
<1> QED
  BY <1>1, <1>7, <1>8, <1>9 DEF t, p

\* The number of bytes that were encoded is the one the decoder stops at.
LEMMA TakenIsExact ==
  ASSUME NEW n \in Nat
  PROVE  (CHOOSE k \in 0..Taken(n) : Taken(k) = Taken(n)) = n
<1>1. n \in 0..Taken(n)
  BY DEF Taken
<1>2. \A k \in Nat : Taken(k) = Taken(n) => k = n
  BY DEF Taken
<1> QED
  BY <1>1, <1>2

\* The bits of the characters are those of the text.
LEMMA SameBits ==
  ASSUME NEW txt, NEW n \in Nat, Len(txt) = n, NEW j \in 0..(8 * n - 1)
  PROVE  BitAt(Regrouped(txt, 8, 6, Taken(n)), 6, j) = 1 <=> BitAt(txt, 8, j) = 1
<1> DEFINE r == Regrouped(txt, 8, 6, Taken(n))
           word == {b \in 0..5 : BitAt(txt, 8, (6 * ((j \div 6) + 1)) - (b + 1)) = 1}
<1>1. PICK c \in Nat : c = j \div 6
  OBVIOUS
<1>2. PICK d \in 0..5 : d = 5 - (j % 6)
  OBVIOUS
<1>3. (6 * (c + 1)) - (d + 1) = j /\ c < Taken(n) /\ c + 1 \in 1..Taken(n)
  BY <1>1, <1>2 DEF Taken
<1>4. Taken(n) \in Nat
  BY DEF Taken
<1>5. Len(r) = Taken(n)
  BY <1>4, RegroupedSeq
<1>6. r[c + 1] = Number(word, 6)
  BY <1>1, <1>3 DEF Regrouped
<1> HIDE DEF r
<1>7. d \in word <=> BitAt(txt, 8, j) = 1
  BY <1>1, <1>3
<1>8. word \in SUBSET (0..5)
  OBVIOUS
<1> HIDE DEF word
<1>9. d \in Bits(r[c + 1], 6) <=> BitAt(txt, 8, j) = 1
  BY <1>6, <1>7, <1>8, SixBits
<1>10. BitAt(r, 6, j) = (r[c + 1] \div 2^d) % 2
  <2>1. (6 - 1) - (j % 6) = d
    BY <1>2
  <2> QED
    BY <1>1, <1>3, <1>5, <2>1 DEF BitAt
<1>11. BitAt(r, 6, j) = 1 <=> d \in Bits(r[c + 1], 6)
  <2>1. d \in 0..(6 - 1)
    OBVIOUS
  <2> QED
    BY <1>10, <2>1, InBits
<1> QED
  BY <1>9, <1>11 DEF r

\* Without the padding it is the characters, and the decoder takes them exactly.
LEMMA CharsOfText ==
  ASSUME NEW txt \in Seq(0..255)
  PROVE  LET r == Regrouped(txt, 8, 6, Taken(Len(txt)))
         IN  /\ Unpadded(base64_encode(txt)) = r
             /\ Len(r) = Taken(Len(txt)) /\ Stops(Len(r))
<1> DEFINE n == Len(txt)
           r == Regrouped(txt, 8, 6, Taken(n))
<1>1. n \in Nat
  BY LenProperties
<1>2. Taken(n) \in Nat /\ n \in 0..Taken(n)
  BY <1>1 DEF Taken
<1>3. base64_encode(txt) = r \o Padding(n)
  BY DEF base64_encode, Taken
<1> HIDE DEF n
<1>4. r \in Seq(0..63) /\ Len(r) = Taken(n)
  BY <1>2, RegroupedSeq
<1> HIDE DEF r
<1>5. Len(r) = (8 * n + 5) \div 6
  BY <1>4 DEF Taken
<1>6. Unpadded(base64_encode(txt)) = r
  BY <1>1, <1>3, <1>4, <1>5, PaddingRemoved
<1>7. Stops(Len(r))
  BY <1>2, <1>4 DEF Stops
<1> QED
  BY <1>4, <1>6, <1>7 DEF r, n

\* Decoding what base64_encode has returned gives the text back.
LEMMA Base64RoundTrip ==
  ASSUME NEW txt \in Seq(0..255)
  PROVE  base64_decode(base64_encode(txt)) = txt
<1> DEFINE n == Len(txt)
           r == Regrouped(txt, 8, 6, Taken(n))
<1>1. n \in Nat /\ \A i \in 1..n : txt[i] \in 0..255
  BY LenProperties, ElementOfSeq
<1>2. txt = [i \in 1..n |-> txt[i]]
  BY LenProperties
<1> HIDE DEF n
<1>3. Unpadded(base64_encode(txt)) = r /\ Len(r) = Taken(n)
  BY CharsOfText DEF n
<1>4. base64_decode(base64_encode(txt)) = Regrouped(r, 6, 8, n)
  <2> HIDE DEF r
  <2>1. base64_decode(base64_encode(txt))
          = Regrouped(r, 6, 8, CHOOSE k \in 0..Taken(n) : Taken(k) = Taken(n))
    BY <1>3 DEF base64_decode
  <2>2. (CHOOSE k \in 0..Taken(n) : Taken(k) = Taken(n)) = n
    BY <1>1, TakenIsExact
  <2> QED
    BY <2>1, <2>2
<1>5. ASSUME NEW i \in 1..n
      PROVE  Number({b \in 0..7 : BitAt(r, 6, (8 * i) - (b + 1)) = 1}, 8) = txt[i]
  <2>1. ASSUME NEW b \in 0..7
        PROVE  BitAt(r, 6, (8 * i) - (b + 1)) = 1 <=> b \in Bits(txt[i], 8)
    <3>1. PICK j \in 0..(8 * n - 1) : j = (8 * i) - (b + 1)
      BY <1>1
    <3>2. PICK c \in Nat : c = i - 1 /\ c < n /\ c + 1 = i
      BY <1>1
    <3>3. j \div 8 = c /\ (8 - 1) - (j % 8) = b
      <4>1. PICK a \in 0..7 : a = 7 - b
        OBVIOUS
      <4>2. j = 8 * c + a
        BY <3>1, <3>2, <4>1
      <4>3. (8 * c + a) \div 8 = c /\ (8 * c + a) % 8 = a
        OBVIOUS
      <4> QED
        BY <4>1, <4>2, <4>3
    <3>4. BitAt(txt, 8, j) = (txt[i] \div 2^b) % 2
      BY <3>2, <3>3 DEF BitAt, n
    <3>5. BitAt(r, 6, j) = 1 <=> BitAt(txt, 8, j) = 1
      BY <1>1, SameBits DEF n
    <3>6. b \in 0..(8 - 1)
      OBVIOUS
    <3> HIDE DEF r
    <3> QED
      BY <3>1, <3>4, <3>5, <3>6, InBits
  <2>2. \A b : b \in Bits(txt[i], 8) => b \in 0..7
    <3>1. 8 - 1 = 7
      OBVIOUS
    <3> QED
      BY <3>1, InBits
  <2> HIDE DEF r
  <2>3. {b \in 0..7 : BitAt(r, 6, (8 * i) - (b + 1)) = 1} = Bits(txt[i], 8)
    BY <2>1, <2>2
  <2> QED
    BY <1>1, <2>3, ByteOfBits
<1>6. 8 - 1 = 7
  OBVIOUS
<1> HIDE DEF r
<1>7. Regrouped(r, 6, 8, n) = [i \in 1..n |-> txt[i]]
  BY <1>5, <1>6 DEF Regrouped
<1> QED
  BY <1>2, <1>4, <1>7

-----------------------------------------------------------------------------
(***************************************************************************)
(* The inductive invariant: the encoder has returned the encoding of the   *)
(* text, and what the decoder has returned is what RoundTrip says.         *)
(***************************************************************************)
EncodeInv ==
  /\ text \in Texts
  /\ encoding = "none" => decoded = NotYet
  /\ encoding = "hex" => encoded = hex_encode(text)
  /\ encoding = "base64" => encoded = base64_encode(text)
  /\ RoundTrip

\* The decoder is given the beginning of the text, some of it in upper case.
LEMMA Arrived ==
  ASSUME NEW s \in Seq(0..255), NEW n \in 0..Len(s),
         NEW rcv \in {SubSeq(s, 1, n), Upper(SubSeq(s, 1, n))}
  PROVE  /\ rcv \in Seq(Int) /\ Len(rcv) = n
         /\ \A j \in 1..n : rcv[j] \in Cases(s[j])
<1> DEFINE t == SubSeq(s, 1, n)
<1>1. n \in Nat /\ n <= Len(s) /\ \A i \in 1..Len(s) : s[i] \in 0..255
  BY LenProperties, ElementOfSeq
<1>2. /\ t \in Seq(0..255) /\ Len(t) = n /\ \A i \in 1..n : t[i] = s[i]
  <2>1. \A i \in 1..n : s[i] \in 0..255
    BY <1>1
  <2>2. /\ t \in Seq(0..255) /\ Len(t) = IF 1 <= n THEN n - 1 + 1 ELSE 0
        /\ \A i \in 1..(n - 1 + 1) : t[i] = s[1 + i - 1]
    BY <1>1, <2>1, SubSeqProperties
  <2> QED
    BY <1>1, <2>2
<1> HIDE DEF t
<1>3. t \in Seq(Int) /\ DOMAIN t = 1..n /\ \A i \in 1..n : t[i] \in 0..255
  <2>1. 0..255 \subseteq Int
    OBVIOUS
  <2>2. t \in Seq(Int)
    BY <1>2, <2>1, SeqMonotonic
  <2>3. DOMAIN t = 1..n
    BY <1>2, LenProperties
  <2>4. \A i \in 1..n : t[i] \in 0..255
    BY <1>2, ElementOfSeq
  <2> QED
    BY <2>2, <2>3, <2>4
<1>4. CASE rcv = t
  BY <1>2, <1>3, <1>4 DEF Cases
<1>5. CASE rcv = Upper(t)
  <2>1. rcv = [i \in 1..n |-> IF t[i] \in 97..102 THEN t[i] - 32 ELSE t[i]]
    BY <1>3, <1>5 DEF Upper
  <2>2. \A i \in 1..n : (IF t[i] \in 97..102 THEN t[i] - 32 ELSE t[i]) \in Int
    BY <1>3
  <2>3. rcv \in [1..n -> Int]
    BY <2>1, <2>2
  <2>4. rcv \in Seq(Int)
    BY <1>1, <2>3
  <2>5. Len(rcv) = n
    BY <1>1, <2>3, <2>4, LenProperties
  <2> QED
    BY <1>2, <2>1, <2>4, <2>5 DEF Cases
<1> QED
  BY <1>4, <1>5 DEF t

LEMMA InitEncode == Init => EncodeInv
  BY DEF Init, EncodeInv, RoundTrip

LEMMA NextEncode == EncodeInv /\ [Next]_vars => EncodeInv'
<1> SUFFICES ASSUME EncodeInv, [Next]_vars
             PROVE  EncodeInv'
  OBVIOUS
<1>0. text \in Seq(0..255)
  BY EncodeAssumption DEF EncodeInv
<1>1. ASSUME NEW e \in {"hex", "base64"}, Encoder(e)
      PROVE  EncodeInv'
  BY <1>1 DEF Encoder, EncodeInv, RoundTrip
<1>2. CASE HexDecoder
  <2>1. PICK n \in 0..Len(encoded) : received' \in {SubSeq(encoded, 1, n), Upper(SubSeq(encoded, 1, n))}
    BY <1>2 DEF HexDecoder
  <2>2. encoded = hex_encode(text) /\ Len(encoded) = 2 * Len(text) /\ encoded \in Seq(0..255)
    BY <1>0, <1>2, HexChars DEF HexDecoder, EncodeInv
  <2>3. /\ received' \in Seq(Int) /\ Len(received') = n
        /\ \A j \in 1..n : received'[j] \in Cases(encoded[j])
    BY <2>1, <2>2, Arrived
  <2>4. Len(received') <= 2 * Len(text)
    BY <1>0, <2>2, <2>3, LenProperties
  <2>5. hex_decode(received') = [i \in 1..(Len(received') \div 2) |->
                                   IF received'[2 * i] \in 65..70 THEN Blurred(text[i]) ELSE text[i]]
    BY <1>0, <2>2, <2>3, <2>4, HexRoundTrip
  <2>6. /\ decoded' = hex_decode(received') /\ encoding' = "hex" /\ encoding = "hex"
        /\ text' = text /\ encoded' = encoded
    BY <1>2 DEF HexDecoder
  <2>7. RoundTrip'
    BY <2>5, <2>6 DEF RoundTrip
  <2> QED
    BY <2>2, <2>6, <2>7 DEF EncodeInv
<1>3. CASE Base64Decoder
  <2>1. /\ decoded' = base64_decode(encoded) /\ encoding' = "base64" /\ encoding = "base64"
        /\ text' = text /\ encoded' = encoded
    BY <1>3 DEF Base64Decoder
  <2>2. encoded = base64_encode(text)
    BY <2>1 DEF EncodeInv
  <2>3. decoded' = text
    BY <1>0, <2>1, <2>2, Base64RoundTrip
  <2> QED
    BY <2>1, <2>2, <2>3 DEF EncodeInv, RoundTrip
<1>4. CASE UNCHANGED vars
  BY <1>4 DEF vars, EncodeInv, RoundTrip
<1> QED
  BY <1>1, <1>2, <1>3, <1>4 DEF Next

(***************************************************************************)
(* Decoding what hex_encode or base64_encode has returned gives the text   *)
(* back, of every length and with every byte in it.                        *)
(***************************************************************************)
THEOREM EncodingRoundTrip == Spec => []RoundTrip
<1>1. EncodeInv => RoundTrip
  BY DEF EncodeInv
<1> QED
  BY <1>1, InitEncode, NextEncode, PTL DEF Spec

(***************************************************************************)
(* Whatever base64_encode has returned, without its padding it is a number *)
(* of characters at which the loop of base64_decode meets the end exactly: *)
(* the iterator never runs past it.                                        *)
(***************************************************************************)
EndIsMet == encoding = "base64" => Stops(Len(Unpadded(encoded)))

THEOREM DecoderMeetsEnd == Spec => []EndIsMet
<1>1. EncodeInv => EndIsMet
  BY EncodeAssumption, CharsOfText DEF EncodeInv, EndIsMet
<1> QED
  BY <1>1, InitEncode, NextEncode, PTL DEF Spec

=============================================================================
