----------------------------- MODULE StreamDigest -----------------------------
(***************************************************************************)
(* sha256(std::istream&) (utility/src/encode.cpp): read the stream in      *)
(* buffers until eof() and digest what each read() has got.  The digest is *)
(* represented by the positions of the stream that went into it, in order. *)
(*                                                                         *)
(* The stream is external.  A read() that reaches the end sets eofbit and  *)
(* failbit, one that the file fails sets badbit, either after it has given *)
(* some bytes; on a stream that is not good() it gives none and sets       *)
(* failbit.  The caller may pass a stream at any position, at its end, or  *)
(* one that has failed already, such as that of a file that does not open. *)
(***************************************************************************)
EXTENDS Naturals, Sequences

CONSTANTS
  Capacity,   \* bufsz
  MaxSize     \* bound on the bytes of a stream

ASSUME DigestAssumption == Capacity \in Nat \ {0} /\ MaxSize \in Nat

VARIABLES
  pc,        \* "loop", "update" or "returned"
  size,      \* the number of bytes of the stream
  start,     \* where the stream was when sha256 was called
  pos,       \* where it is now
  eof,       \* eofbit
  bad,       \* failbit without eofbit, or badbit
  gcount,    \* what the last read() has got
  buf,       \* the stream's bytes in the buffer, the last ones maybe stale
  digested   \* the positions of the bytes that are in the digest

digestVars == <<pc, size, start, pos, eof, bad, gcount, buf, digested>>

Bytes(from, to) == [i \in 1..(to - from) |-> from + i]

DigestInit ==
  /\ pc = "loop"
  /\ size \in 0..MaxSize
  /\ start \in 0..size /\ pos = start
  /\ bad \in BOOLEAN
  /\ eof \in BOOLEAN /\ (eof => pos = size)
  /\ gcount = 0 /\ buf = <<>> /\ digested = <<>>

good == ~ eof /\ ~ bad

Available == IF size - pos < Capacity THEN size - pos ELSE Capacity

\* read() gets n bytes, which lie over the buffer's old ones.
Got(n) ==
  /\ gcount' = n
  /\ pos' = pos + n
  /\ buf' = Bytes(pos, pos + n) \o SubSeq(buf, n + 1, Len(buf))

\* Variant: the loop reads only while there is something to read.
ReadMore ==
  /\ pc = "loop" /\ ~ eof /\ good
  /\ pos < size
  /\ Got(Available)
  /\ pc' = "update"
  /\ UNCHANGED <<size, start, eof, bad, digested>>

Read ==
  /\ pc = "loop" /\ ~ eof /\ good
  /\ Got(Available)
  /\ eof' = (Available < Capacity)
  /\ pc' = "update"
  /\ UNCHANGED <<size, start, bad, digested>>

\* read() fails after n bytes.
ReadBreaks ==
  /\ pc = "loop" /\ ~ eof /\ good
  /\ \E n \in 0..(Capacity - 1) : pos + n <= size /\ Got(n)
  /\ bad' = TRUE
  /\ pc' = "update"
  /\ UNCHANGED <<size, start, eof, digested>>

\* read() on a stream that has failed.
ReadNothing ==
  /\ pc = "loop" /\ ~ eof /\ bad
  /\ gcount' = 0
  /\ pc' = "update"
  /\ UNCHANGED <<size, start, pos, eof, bad, buf, digested>>

\* EVP_DigestUpdate.
Update ==
  /\ pc = "update"
  /\ digested' = digested \o SubSeq(buf, 1, gcount)
  /\ pc' = "loop"
  /\ UNCHANGED <<size, start, pos, eof, bad, gcount, buf>>

\* Variant: while (_ris).
ReturnNotGood ==
  /\ pc = "loop" /\ ~ good
  /\ pc' = "returned"
  /\ UNCHANGED <<size, start, pos, eof, bad, gcount, buf, digested>>

Return ==
  /\ pc = "loop" /\ eof
  /\ pc' = "returned"
  /\ UNCHANGED <<size, start, pos, eof, bad, gcount, buf, digested>>

-----------------------------------------------------------------------------
DigestNext == Read \/ ReadBreaks \/ ReadNothing \/ Update \/ Return

DigestSpec == DigestInit /\ [][DigestNext]_digestVars

\* The function is one thread's, which keeps running.  The file never has to
\* fail.
FairDigestSpec == DigestSpec /\ WF_digestVars(Read \/ ReadNothing \/ Update \/ Return)

-----------------------------------------------------------------------------
TypeOK ==
  /\ pc \in {"loop", "update", "returned"}
  /\ size \in Nat /\ start \in 0..size /\ pos \in start..size
  /\ eof \in BOOLEAN /\ bad \in BOOLEAN
  /\ gcount \in 0..Capacity
  /\ buf \in Seq(1..size) /\ Len(buf) <= Capacity
  /\ digested \in Seq(1..size)

\* What is in the digest is what was read, once and in order.
DigestFollows ==
  digested \o (IF pc = "update" THEN SubSeq(buf, 1, gcount) ELSE <<>>) = Bytes(start, pos)

(***************************************************************************)
(* A digest that is returned is that of the whole rest of the stream, also *)
(* when the size is a multiple of the buffer's and the last read() gets    *)
(* nothing, and never that of a part after which the stream has failed:    *)
(* the function does not return from such a stream.                        *)
(***************************************************************************)
DigestIsWhole == pc = "returned" => digested = Bytes(start, size)

(***************************************************************************)
(* A stream that does not fail is digested to its end; for one that fails  *)
(* before it has met its end, the loop never ends.                         *)
(***************************************************************************)
EndsUnlessBad ==
  /\ <>(pc = "returned") \/ <>(bad)
  /\ (pc = "loop" /\ bad /\ ~ eof) ~> [](pc # "returned")

=============================================================================
