------------------------------ MODULE PackedWord ------------------------------
(***************************************************************************)
(* Words and the bit-fields in them.  A word is the set of the positions   *)
(* of its 1 bits, so that | is \cup, & is \cap and & ~ is \.  A bit-field  *)
(* is the place of its lowest bit and its width; compilers of the System V *)
(* and the Microsoft ABI lay the bit-fields of a union's struct out from   *)
(* bit 0 in the order they are declared.                                   *)
(***************************************************************************)
EXTENDS Integers

BitField(at, width) == [at |-> at, width |-> width]

Positions(f) == 0..(f.width - 1)

BitFields == [at : Nat, width : Nat]

Disjoint(f, g) == f.at + f.width <= g.at \/ g.at + g.width <= f.at

\* Reading a bit-field.
Get(word, f) == {b - f.at : b \in {c \in word : c >= f.at /\ c < f.at + f.width}}

\* Variant: all bits of x are assigned.
PutUncut(word, f, x) ==
  {b \in word : b < f.at \/ b >= f.at + f.width} \cup {f.at + b : b \in x}

\* Variant: the field is not cleared first.
PutOver(word, f, x) == word \cup {f.at + b : b \in {c \in x : c < f.width}}

\* Assigning x to a bit-field: the bits of x that fit in it.
Put(word, f, x) ==
  {b \in word : b < f.at \/ b >= f.at + f.width} \cup {f.at + b : b \in {c \in x : c < f.width}}

\* The word of `width' bits that holds the number n.
Bits(n, width) == {b \in 0..(width - 1) : (n \div 2^b) % 2 = 1}

\* The number that a word of `width' bits holds.
Number(word, width) == CHOOSE n \in 0..(2^width - 1) : Bits(n, width) = word

=============================================================================
