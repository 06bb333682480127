------------------------------- MODULE MCEncode -------------------------------
(***************************************************************************)
(* Texts of every length modulo 3 (the padding) and modulo 2, with bytes   *)
(* at the ends of a char's ranges and digits on both sides of 9.           *)
(***************************************************************************)
EXTENDS Encode

Strings(S, n) == UNION {[1..k -> S] : k \in 0..n}

MCTexts == Strings({0, 9, 127, 128, 175, 255}, 3) \cup Strings({0, 171, 255}, 4) \cup Strings({1, 254}, 7)

=============================================================================
