-------------------------- MODULE AppItemEntryProofs --------------------------
(***************************************************************************)
(* AppItemEntry implements AppItemFields: the packed words behave as       *)
(* independent fields, for any programs, states, names and words.          *)
(***************************************************************************)
EXTENDS AppItemEntry, TLAPS

-----------------------------------------------------------------------------
(***************************************************************************)
(* Bit-fields.                                                             *)
(***************************************************************************)
Cut(x, f) == {c \in x : c < f.width}

\* A bit-field reads as what was assigned to it, cut to its width.
LEMMA GetPutSame ==
  ASSUME NEW f \in BitFields, NEW word \in SUBSET Nat, NEW x \in SUBSET Nat
  PROVE  Get(Put(word, f, x), f) = Cut(x, f)
<1>1. f.at \in Nat /\ f.width \in Nat
  BY DEF BitFields
<1>2. ASSUME NEW c \in Get(Put(word, f, x), f) PROVE c \in Cut(x, f)
  <2>1. PICK b \in Put(word, f, x) : b >= f.at /\ b < f.at + f.width /\ c = b - f.at
    BY <1>2 DEF Get
  <2>2. PICK d \in x : d < f.width /\ b = f.at + d
    BY <2>1, <1>1 DEF Put
  <2> QED
    BY <1>1, <2>1, <2>2 DEF Cut
<1>3. ASSUME NEW c \in Cut(x, f) PROVE c \in Get(Put(word, f, x), f)
  <2>1. c \in x /\ c \in Nat /\ c < f.width
    BY <1>3 DEF Cut
  <2>2. f.at + c \in Put(word, f, x)
    BY <2>1 DEF Put
  <2>3. f.at + c >= f.at /\ f.at + c < f.at + f.width /\ c = (f.at + c) - f.at
    BY <1>1, <2>1
  <2> QED
    BY <2>2, <2>3 DEF Get
<1> QED
  BY <1>2, <1>3

\* Assigning to a bit-field leaves the others as they are.
LEMMA GetPutOther ==
  ASSUME NEW f \in BitFields, NEW g \in BitFields, Disjoint(f, g),
         NEW word \in SUBSET Nat, NEW x \in SUBSET Nat
  PROVE  Get(Put(word, f, x), g) = Get(word, g)
<1>1. f.at \in Nat /\ f.width \in Nat /\ g.at \in Nat /\ g.width \in Nat
  BY DEF BitFields
<1>2. ASSUME NEW b \in Nat, b >= g.at, b < g.at + g.width
      PROVE  b \in Put(word, f, x) <=> b \in word
  <2>1. b < f.at \/ b >= f.at + f.width
    BY <1>1, <1>2 DEF Disjoint
  <2>2. ASSUME NEW c \in Cut(x, f) PROVE b # f.at + c
    BY <1>1, <2>1, <2>2 DEF Cut
  <2> QED
    BY <2>1, <2>2 DEF Put, Cut
<1>3. Put(word, f, x) \subseteq Nat
  BY <1>1 DEF Put
<1> QED
  BY <1>2, <1>3 DEF Get

LEMMA PutType ==
  ASSUME NEW f \in BitFields, f.at + f.width <= WordWidth,
         NEW word \in Words, NEW x \in SUBSET Nat
  PROVE  Put(word, f, x) \in Words
<1>1. f.at \in Nat /\ f.width \in Nat
  BY DEF BitFields
<1>2. ASSUME NEW b \in Put(word, f, x), b \notin word PROVE b \in 0..(WordWidth - 1)
  <2>1. PICK c \in x : c < f.width /\ b = f.at + c
    BY <1>2 DEF Put
  <2> QED
    BY <1>1, <2>1 DEF WordWidth
<1> QED
  BY <1>2 DEF Words

LEMMA GetType ==
  ASSUME NEW f \in BitFields, NEW word \in SUBSET Nat
  PROVE  Get(word, f) \subseteq Positions(f)
  BY DEF BitFields, Get, Positions

\* The layout of the union: three bit-fields that do not overlap.
LEMMA Layout ==
  /\ {StateField, TypeField, FlagsField} \subseteq BitFields
  /\ \A f \in {StateField, TypeField, FlagsField} : f.at + f.width <= WordWidth
  /\ Disjoint(StateField, TypeField) /\ Disjoint(TypeField, StateField)
  /\ Disjoint(StateField, FlagsField) /\ Disjoint(FlagsField, StateField)
  /\ Disjoint(TypeField, FlagsField) /\ Disjoint(FlagsField, TypeField)
  BY DEF StateField, TypeField, FlagsField, BitField, BitFields, Disjoint, WordWidth

LEMMA CutIsCap ==
  ASSUME NEW f \in BitFields, NEW x \in SUBSET Nat
  PROVE  Cut(x, f) = x \cap Positions(f)
<1>1. f.width \in Nat
  BY DEF BitFields
<1>2. ASSUME NEW c \in Nat PROVE c < f.width <=> c \in Positions(f)
  BY <1>1 DEF Positions
<1> QED
  BY <1>2 DEF Cut

LEMMA WordsType == ASSUME NEW word \in Words PROVE word \in SUBSET Nat
  BY DEF Words, WordWidth

\* What an assignment to one of them does to all of them.
LEMMA PutFields ==
  ASSUME NEW word \in Words, NEW x \in SUBSET Nat
  PROVE  /\ Fields(Put(word, StateField, x))
              = [Fields(word) EXCEPT !.state = x \cap Positions(StateField)]
         /\ Fields(Put(word, TypeField, x))
              = [Fields(word) EXCEPT !.type = x \cap Positions(TypeField)]
         /\ Fields(Put(word, FlagsField, x))
              = [Fields(word) EXCEPT !.flags = x \cap Positions(FlagsField)]
<1>1. word \in SUBSET Nat
  BY WordsType
<1>2. /\ Get(Put(word, StateField, x), StateField) = x \cap Positions(StateField)
      /\ Get(Put(word, TypeField, x), TypeField) = x \cap Positions(TypeField)
      /\ Get(Put(word, FlagsField, x), FlagsField) = x \cap Positions(FlagsField)
  BY <1>1, Layout, GetPutSame, CutIsCap
<1>3. /\ Get(Put(word, StateField, x), TypeField) = Get(word, TypeField)
      /\ Get(Put(word, StateField, x), FlagsField) = Get(word, FlagsField)
  BY <1>1, Layout, GetPutOther
<1>4. /\ Get(Put(word, TypeField, x), StateField) = Get(word, StateField)
      /\ Get(Put(word, TypeField, x), FlagsField) = Get(word, FlagsField)
  BY <1>1, Layout, GetPutOther
<1>5. /\ Get(Put(word, FlagsField, x), StateField) = Get(word, StateField)
      /\ Get(Put(word, FlagsField, x), TypeField) = Get(word, TypeField)
  BY <1>1, Layout, GetPutOther
<1>6. Fields(Put(word, StateField, x)) = [Fields(word) EXCEPT !.state = x \cap Positions(StateField)]
  BY <1>2, <1>3 DEF Fields
<1>7. Fields(Put(word, TypeField, x)) = [Fields(word) EXCEPT !.type = x \cap Positions(TypeField)]
  BY <1>2, <1>4 DEF Fields
<1>8. Fields(Put(word, FlagsField, x)) = [Fields(word) EXCEPT !.flags = x \cap Positions(FlagsField)]
  BY <1>2, <1>5 DEF Fields
<1> QED
  BY <1>6, <1>7, <1>8

LEMMA PutWords ==
  ASSUME NEW f \in {StateField, TypeField, FlagsField}, NEW word \in Words, NEW x \in SUBSET Nat
  PROVE  Put(word, f, x) \in Words
  BY Layout, PutType

LEMMA BitsType ==
  ASSUME NEW n, NEW width \in Nat
  PROVE  Bits(n, width) \in SUBSET Nat /\ Bits(n, width) \subseteq 0..(width - 1)
  BY DEF Bits

\* A name is that of a flag, or gives Invalid.
LEMMA FlagType ==
  ASSUME NEW n
  PROVE  app_item_flag(n) \in {Invalid, 0, 1}
<1> DEFINE found == {f \in 0..(Len(FlagNames) - 1) : casecmp(n, Name(FlagNames[f + 1]))}
<1>1. found \subseteq {0, 1}
  BY DEF FlagNames
<1>2. found # {} => Min(found) \in found
  <2>1. found \in {{0}, {1}, {0, 1}} \/ found = {}
    BY <1>1
  <2> QED
    BY <2>1 DEF Min
<1> QED
  BY <1>1, <1>2 DEF app_item_flag

\* A flag shifts to its own bit, and Invalid to any word.
LEMMA ShiftedFlags ==
  /\ \A f \in {0, 1} : Shifted(f) = {{f}}
  /\ \A one \in Shifted(Invalid) : one \in SUBSET Nat
<1>1. \A f \in {0, 1} : Shifted(f) = {{f}}
  BY DEF Shifted, WordWidth
<1>2. (Invalid + 256) % 256 = 255
  BY DEF Invalid
<1>3. Shifted(Invalid) = UndefinedShift
  BY <1>2 DEF Shifted, WordWidth
<1>4. \A one \in UndefinedShift : one \in SUBSET Nat
  BY AppItemAssumption, WordsType
<1> QED
  BY <1>1, <1>3, <1>4

-----------------------------------------------------------------------------
LEMMA InitType == Init => TypeOK
  BY DEF Init, TypeOK, Words

LEMMA StoreType ==
  ASSUME TypeOK, NEW p \in Programs, NEW word \in Words, Store(p, word)
  PROVE  TypeOK' /\ entry'[p] = word
  BY DEF TypeOK, Store

LEMMA FlagsType ==
  ASSUME TypeOK, NEW p \in Programs
  PROVE  flags(p) \in SUBSET Nat /\ flags(p) \subseteq Positions(FlagsField)
  BY WordsType, Layout, GetType DEF TypeOK, flags, Positions

\* What state(), type() and flags() of all copies return.
Abstraction == [p \in Programs |-> Fields(entry[p])]

LEMMA StoreFields ==
  ASSUME TypeOK, NEW p \in Programs, NEW word \in Words, Store(p, word)
  PROVE  Abstraction' = [Abstraction EXCEPT ![p] = Fields(word)]
  BY DEF TypeOK, Store, Abstraction, Fields

LEMMA EntryType == ASSUME TypeOK, NEW p \in Programs PROVE entry[p] \in Words
  BY DEF TypeOK

(***************************************************************************)
(* Each operation is that operation on the fields.                         *)
(***************************************************************************)
LEMMA StateStep ==
  ASSUME TypeOK, NEW p \in Programs, NEW s, SetState(p, s)
  PROVE  TypeOK' /\ ItemFields!SetState(p, Bits(s, 8)) /\ call' = <<"state", p, Bits(s, 8)>>
<1> DEFINE x == Bits(s, 8)
           word == Put(entry[p], StateField, x)
<1>1. x \in SUBSET Nat /\ x \cap Positions(StateField) = x
  BY BitsType DEF Positions, StateField, BitField
<1>2. word \in Words
  BY <1>1, EntryType, PutWords
<1>3. Fields(word) = [Fields(entry[p]) EXCEPT !.state = x \cap Positions(StateField)]
  BY <1>1, EntryType, PutFields
<1>4. Store(p, word) /\ call' = <<"state", p, x>>
  BY DEF SetState, Called
<1> HIDE DEF x, word
<1>5. TypeOK' /\ Abstraction' = [Abstraction EXCEPT ![p] = Fields(word)]
  BY <1>2, <1>4, StoreType, StoreFields
<1> QED
  BY <1>1, <1>3, <1>4, <1>5 DEF ItemFields!SetState, ItemFields!Called, Abstraction, x

LEMMA TypeStep ==
  ASSUME TypeOK, NEW p \in Programs, NEW t, SetType(p, t)
  PROVE  LET x == Bits(t, 8) \cap Positions(TypeField)
         IN  TypeOK' /\ ItemFields!SetType(p, x) /\ call' = <<"type", p, x>>
<1> DEFINE x == Bits(t, 8) \cap Positions(TypeField)
           word == Put(entry[p], TypeField, Bits(t, 8))
<1>1. Bits(t, 8) \in SUBSET Nat
  BY BitsType
<1>2. word \in Words
  BY <1>1, EntryType, PutWords
<1>3. Fields(word) = [Fields(entry[p]) EXCEPT !.type = x]
  BY <1>1, EntryType, PutFields
<1>4. Store(p, word) /\ call' = <<"type", p, x>>
  BY DEF SetType, Called
<1> HIDE DEF x, word
<1>5. TypeOK' /\ Abstraction' = [Abstraction EXCEPT ![p] = Fields(word)]
  BY <1>2, <1>4, StoreType, StoreFields
<1> QED
  BY <1>3, <1>4, <1>5 DEF ItemFields!SetType, ItemFields!Called, Abstraction, x

\* Any assignment to the flags.
LEMMA FlagsStore ==
  ASSUME TypeOK, NEW p \in Programs, NEW x \in SUBSET Nat, Store(p, Put(entry[p], FlagsField, x))
  PROVE  /\ TypeOK'
         /\ Abstraction' = [Abstraction EXCEPT ![p].flags = x \cap Positions(FlagsField)]
<1> DEFINE word == Put(entry[p], FlagsField, x)
<1>1. word \in Words
  BY EntryType, PutWords
<1>2. Fields(word) = [Fields(entry[p]) EXCEPT !.flags = x \cap Positions(FlagsField)]
  BY EntryType, PutFields
<1> HIDE DEF word
<1>3. TypeOK' /\ Abstraction' = [Abstraction EXCEPT ![p] = Fields(word)]
  BY <1>1, StoreType, StoreFields DEF word
<1> QED
  BY <1>2, <1>3 DEF Abstraction

LEMMA FlagsStep ==
  ASSUME TypeOK, NEW p \in Programs, NEW x \in SUBSET Nat, SetFlags(p, x)
  PROVE  LET F == x \cap Positions(FlagsField)
         IN  TypeOK' /\ ItemFields!SetFlags(p, F) /\ call' = <<"flags", p, F>>
<1>1. TypeOK' /\ Abstraction' = [Abstraction EXCEPT ![p].flags = x \cap Positions(FlagsField)]
  BY FlagsStore DEF SetFlags
<1> QED
  BY <1>1 DEF SetFlags, Called, ItemFields!SetFlags, ItemFields!Called, Abstraction

LEMMA AbstractFlags ==
  ASSUME NEW p \in Programs
  PROVE  Abstraction[p].flags = flags(p)
  BY DEF Abstraction, Fields, flags

\* An assignment to the flags changes them and nothing else.
LEMMA OnlyFlags ==
  ASSUME NEW p \in Programs, NEW F, Abstraction' = [Abstraction EXCEPT ![p].flags = F]
  PROVE  Abstraction' = [Abstraction EXCEPT ![p].flags = Abstraction'[p].flags]
<1>1. Abstraction'[p].flags = F
  BY DEF Abstraction, Fields
<1> QED
  BY <1>1

LEMMA SetFlagStep ==
  ASSUME TypeOK, NEW p \in Programs, NEW f \in {Invalid, 0, 1}, SetFlag(p, f)
  PROVE  /\ TypeOK'
         /\ \/ ItemFields!SetFlag(p, f) /\ call' = <<"setFlag", p, f>>
            \/ ItemFields!NoFlag(p, f) /\ call' = <<"noFlag", p, f>>
<1>1. PICK one \in Shifted(f) : Store(p, Put(entry[p], FlagsField, flags(p) \cup one))
  BY DEF SetFlag
<1>2. one \in SUBSET Nat /\ flags(p) \in SUBSET Nat /\ flags(p) \subseteq Positions(FlagsField)
  BY ShiftedFlags, FlagsType
<1>3. /\ TypeOK'
      /\ Abstraction' = [Abstraction EXCEPT ![p].flags = (flags(p) \cup one) \cap Positions(FlagsField)]
  BY <1>1, <1>2, FlagsStore
<1>4. CASE f = Invalid
  BY <1>3, <1>4, OnlyFlags
  DEF SetFlag, FlagCalled, Called, ItemFields!NoFlag, ItemFields!Called, Abstraction
<1>5. CASE f \in {0, 1}
  <2>1. f # Invalid /\ {f} \subseteq Positions(FlagsField)
    BY <1>5 DEF Invalid, Positions, FlagsField, BitField
  <2>2. (flags(p) \cup one) \cap Positions(FlagsField) = flags(p) \cup {f}
    BY <1>2, <1>5, <2>1, ShiftedFlags
  <2>3. Abstraction' = [Abstraction EXCEPT ![p].flags = @ \cup {f}]
    BY <1>3, <2>2, AbstractFlags
  <2> QED
    BY <1>3, <2>1, <2>3 DEF SetFlag, FlagCalled, Called, ItemFields!SetFlag, ItemFields!Called, Abstraction
<1> QED
  BY <1>4, <1>5

LEMMA ResetFlagStep ==
  ASSUME TypeOK, NEW p \in Programs, NEW f \in {Invalid, 0, 1}, ResetFlag(p, f)
  PROVE  /\ TypeOK'
         /\ \/ ItemFields!ResetFlag(p, f) /\ call' = <<"resetFlag", p, f>>
            \/ ItemFields!NoFlag(p, f) /\ call' = <<"noFlag", p, f>>
<1>1. PICK one \in Shifted(f) : Store(p, Put(entry[p], FlagsField, flags(p) \ one))
  BY DEF ResetFlag
<1>2. flags(p) \in SUBSET Nat /\ flags(p) \subseteq Positions(FlagsField)
  BY FlagsType
<1>3. /\ TypeOK'
      /\ Abstraction' = [Abstraction EXCEPT ![p].flags = (flags(p) \ one) \cap Positions(FlagsField)]
  BY <1>1, <1>2, FlagsStore
<1>4. CASE f = Invalid
  BY <1>3, <1>4, OnlyFlags
  DEF ResetFlag, FlagCalled, Called, ItemFields!NoFlag, ItemFields!Called, Abstraction
<1>5. CASE f \in {0, 1}
  <2>1. f # Invalid
    BY <1>5 DEF Invalid
  <2>2. (flags(p) \ one) \cap Positions(FlagsField) = flags(p) \ {f}
    BY <1>2, <1>5, ShiftedFlags
  <2>3. Abstraction' = [Abstraction EXCEPT ![p].flags = @ \ {f}]
    BY <1>3, <2>2, AbstractFlags
  <2> QED
    BY <1>3, <2>1, <2>3 DEF ResetFlag, FlagCalled, Called, ItemFields!ResetFlag, ItemFields!Called, Abstraction
<1> QED
  BY <1>4, <1>5

LEMMA ValueStep ==
  ASSUME TypeOK, NEW p \in Programs, NEW word \in Words, SetValue(p, word)
  PROVE  TypeOK' /\ ItemFields!Assign(p, Fields(word)) /\ call' = <<"value", p, Fields(word)>>
  BY StoreType, StoreFields DEF SetValue, Called, ItemFields!Assign, ItemFields!Called, Abstraction

LEMMA ReceiveStep ==
  ASSUME TypeOK, NEW p \in Programs, NEW q \in Programs, Receive(p, q)
  PROVE  TypeOK' /\ ItemFields!Receive(p, q) /\ call' = <<"receive", p, q>>
<1>1. TypeOK' /\ Abstraction' = [Abstraction EXCEPT ![p] = Fields(entry[q])]
  BY EntryType, StoreType, StoreFields DEF Receive
<1> QED
  BY <1>1 DEF Receive, Called, ItemFields!Receive, ItemFields!Called, Abstraction

\* The word of an entry that was just constructed.
LEMMA BlankFields == {} \in Words /\ Fields({}) = [state |-> {}, type |-> {}, flags |-> {}]
  BY DEF Words, Fields, Get

LEMMA ConstructStep ==
  ASSUME TypeOK, NEW p \in Programs, NEW s, Construct(p, s)
  PROVE  LET r == [state |-> Bits(s, 8), type |-> {}, flags |-> {}]
         IN  TypeOK' /\ ItemFields!Assign(p, r) /\ call' = <<"value", p, r>>
<1> DEFINE x == Bits(s, 8)
           word == Put({}, StateField, x)
           r == [state |-> x, type |-> {}, flags |-> {}]
<1>1. x \in SUBSET Nat /\ x \cap Positions(StateField) = x
  BY BitsType DEF Positions, StateField, BitField
<1>2. word \in Words
  BY <1>1, BlankFields, PutWords
<1>3. Fields(word) = [Fields({}) EXCEPT !.state = x \cap Positions(StateField)]
  BY <1>1, BlankFields, PutFields
<1>4. Fields(word) = r
  BY <1>1, <1>3, BlankFields
<1>5. Store(p, word) /\ call' = <<"value", p, r>>
  BY DEF Construct, Called
<1> HIDE DEF x, word, r
<1>6. TypeOK' /\ Abstraction' = [Abstraction EXCEPT ![p] = r]
  BY <1>2, <1>4, <1>5, StoreType, StoreFields
<1> QED
  BY <1>5, <1>6 DEF ItemFields!Assign, ItemFields!Called, Abstraction, r, x

LEMMA NextStep ==
  ASSUME TypeOK, [Next]_vars
  PROVE  TypeOK' /\ [ItemFields!Next]_<<Abstraction, call>>
<1>1. ASSUME NEW p \in Programs, NEW s, SetState(p, s)
      PROVE  TypeOK' /\ ItemFields!Next
  BY <1>1, StateStep DEF ItemFields!Next
<1>2. ASSUME NEW p \in Programs, NEW s, Construct(p, s)
      PROVE  TypeOK' /\ ItemFields!Next
  <2>1. PICK r : TypeOK' /\ ItemFields!Assign(p, r) /\ call' = <<"value", p, r>>
    BY <1>2, ConstructStep
  <2> QED
    BY <2>1 DEF ItemFields!Next
<1>3. ASSUME NEW p \in Programs, NEW n, SetStateByName(p, n)
      PROVE  TypeOK' /\ ItemFields!Next
  BY <1>1, <1>3 DEF SetStateByName
<1>4. ASSUME NEW p \in Programs, NEW t, SetType(p, t)
      PROVE  TypeOK' /\ ItemFields!Next
  <2>1. PICK x : TypeOK' /\ ItemFields!SetType(p, x) /\ call' = <<"type", p, x>>
    BY <1>4, TypeStep
  <2> QED
    BY <2>1 DEF ItemFields!Next
<1>5. ASSUME NEW p \in Programs, NEW word \in FlagWords, SetFlags(p, word)
      PROVE  TypeOK' /\ ItemFields!Next
  <2>1. word \in SUBSET Nat
    BY AppItemAssumption, WordsType
  <2>2. PICK F : TypeOK' /\ ItemFields!SetFlags(p, F) /\ call' = <<"flags", p, F>>
    BY <1>5, <2>1, FlagsStep
  <2> QED
    BY <2>2 DEF ItemFields!Next
<1>6. ASSUME NEW p \in Programs, NEW n, SetFlag(p, app_item_flag(n))
      PROVE  TypeOK' /\ ItemFields!Next
  BY <1>6, FlagType, SetFlagStep DEF ItemFields!Next
<1>7. ASSUME NEW p \in Programs, NEW n, ResetFlag(p, app_item_flag(n))
      PROVE  TypeOK' /\ ItemFields!Next
  BY <1>7, FlagType, ResetFlagStep DEF ItemFields!Next
<1>8. ASSUME NEW p \in Programs, NEW word \in RawValues, SetValue(p, word)
      PROVE  TypeOK' /\ ItemFields!Next
  BY <1>8, AppItemAssumption, ValueStep DEF ItemFields!Next
<1>9. ASSUME NEW p \in Programs, NEW q \in Programs, Receive(p, q)
      PROVE  TypeOK' /\ ItemFields!Next
  BY <1>9, ReceiveStep DEF ItemFields!Next
<1>10. CASE UNCHANGED vars
  BY <1>10 DEF vars, TypeOK, Abstraction
<1> QED
  BY <1>1, <1>2, <1>3, <1>4, <1>5, <1>6, <1>7, <1>8, <1>9, <1>10 DEF Next

LEMMA InitStep == Init => ItemFields!Init
  BY BlankFields DEF Init, ItemFields!Init

(***************************************************************************)
(* Every copy of an item is a word of 64 bits.                             *)
(***************************************************************************)
THEOREM TypeCorrect == Spec => []TypeOK
  BY InitType, NextStep, PTL DEF Spec

(***************************************************************************)
(* AppItemEntry implements AppItemFields: whatever the programs do with    *)
(* their copies, state(), type() and flags() are those of a record.        *)
(***************************************************************************)
THEOREM FieldsImplemented == Spec => IndependentFields
<1>1. [Next]_vars /\ TypeOK => [ItemFields!Next]_<<Abstraction, call>>
  BY NextStep
<1> QED
  BY <1>1, InitStep, TypeCorrect, PTL DEF Spec, IndependentFields, ItemFields!Spec, Abstraction

-----------------------------------------------------------------------------
\* One bit of a word.
Bit(word, b) == IF b \in word THEN 1 ELSE 0

\* Every word of 8 bits holds a number.
LEMMA WordIsNumber ==
  ASSUME NEW word \in SUBSET (0..7)
  PROVE  Number(word, 8) \in 0..255
<1> DEFINE n == Bit(word, 0) + 2 * Bit(word, 1) + 4 * Bit(word, 2) + 8 * Bit(word, 3)
                  + 16 * Bit(word, 4) + 32 * Bit(word, 5) + 64 * Bit(word, 6) + 128 * Bit(word, 7)
<1>1. \A b \in 0..7 : Bit(word, b) \in {0, 1}
  BY DEF Bit
<1>2. n \in 0..255
  BY <1>1
<1>3. /\ n % 2 = Bit(word, 0) /\ (n \div 2) % 2 = Bit(word, 1)
      /\ (n \div 4) % 2 = Bit(word, 2) /\ (n \div 8) % 2 = Bit(word, 3)
      /\ (n \div 16) % 2 = Bit(word, 4) /\ (n \div 32) % 2 = Bit(word, 5)
      /\ (n \div 64) % 2 = Bit(word, 6) /\ (n \div 128) % 2 = Bit(word, 7)
  BY <1>1
<1> HIDE DEF n
<1>4. /\ 2^0 = 1 /\ 2^1 = 2 /\ 2^2 = 4 /\ 2^3 = 8 /\ 2^4 = 16
      /\ 2^5 = 32 /\ 2^6 = 64 /\ 2^7 = 128 /\ 2^8 = 256 /\ n \div 1 = n
  BY <1>2
<1>5. \A b \in 0..7 : (n \div 2^b) % 2 = Bit(word, b)
  <2>1. \A b \in 0..7 : b = 0 \/ b = 1 \/ b = 2 \/ b = 3 \/ b = 4 \/ b = 5 \/ b = 6 \/ b = 7
    OBVIOUS
  <2>2. /\ (n \div 2^0) % 2 = Bit(word, 0) /\ (n \div 2^1) % 2 = Bit(word, 1)
        /\ (n \div 2^2) % 2 = Bit(word, 2) /\ (n \div 2^3) % 2 = Bit(word, 3)
        /\ (n \div 2^4) % 2 = Bit(word, 4) /\ (n \div 2^5) % 2 = Bit(word, 5)
        /\ (n \div 2^6) % 2 = Bit(word, 6) /\ (n \div 2^7) % 2 = Bit(word, 7)
    BY <1>3, <1>4
  <2> QED
    BY <2>1, <2>2
<1>6. Bits(n, 8) = word
  <2>1. 8 - 1 = 7
    OBVIOUS
  <2>2. \A b \in 0..7 : (n \div 2^b) % 2 = 1 <=> b \in word
    <3> SUFFICES ASSUME NEW b \in 0..7 PROVE (n \div 2^b) % 2 = 1 <=> b \in word
      OBVIOUS
    <3>1. (n \div 2^b) % 2 = Bit(word, b)
      BY <1>5
    <3>2. Bit(word, b) = 1 <=> b \in word
      BY DEF Bit
    <3> QED
      BY <3>1, <3>2
  <2>3. \A b : b \in Bits(n, 8) <=> b \in word
    BY <2>1, <2>2 DEF Bits
  <2> QED
    BY <2>3
<1>7. \E m \in 0..(2^8 - 1) : Bits(m, 8) = word
  BY <1>2, <1>4, <1>6
<1> QED
  BY <1>4, <1>7 DEF Number

LEMMA ElevenStates == StateCount = 11 /\ StateCount - 1 = 10
  BY DEF StateCount, StateNames

\* No two states have the same name, and none has the empty one.
LEMMA NamesDiffer ==
  /\ \A i \in 1..11, j \in 1..11 : StateNames[i] = StateNames[j] => i = j
  /\ \A i \in 1..11 : StateNames[i] # ""
<1> DEFINE place == [none |-> 1, deleting |-> 2, trash |-> 3, private_alpha |-> 4,
                     review_request |-> 5, review_started |-> 6, review_accepted |-> 7,
                     review_rejected |-> 8, public_alpha |-> 9, public_beta |-> 10,
                     public_release |-> 11]
<1>1. ASSUME NEW i \in 1..11 PROVE StateNames[i] \in DOMAIN place /\ place[StateNames[i]] = i
  <2>1. \/ i = 1 \/ i = 2 \/ i = 3 \/ i = 4 \/ i = 5 \/ i = 6
        \/ i = 7 \/ i = 8 \/ i = 9 \/ i = 10 \/ i = 11
    OBVIOUS
  <2> QED
    BY <2>1 DEF StateNames
<1>2. "" \notin DOMAIN place
  OBVIOUS
<1> HIDE DEF place
<1> QED
  BY <1>1, <1>2

LEMMA NameOfState ==
  ASSUME NEW s \in 0..255
  PROVE  app_item_state_from_name(app_item_state_name(s)) = IF s < StateCount THEN s ELSE StateCount
<1> DEFINE n == app_item_state_name(s)
           found == {t \in 0..(StateCount - 1) : casecmp(n, app_item_state_name(t))}
<1>1. ASSUME NEW t \in 0..10
      PROVE  app_item_state_name(t) = Name(StateNames[t + 1])
  <2>1. t < StateCount
    BY ElevenStates
  <2> QED
    BY <2>1 DEF app_item_state_name
<1>2. ASSUME NEW t \in 0..10, NEW v \in 0..10
      PROVE  StateNames[t + 1] # "" /\ (StateNames[t + 1] = StateNames[v + 1] => t = v)
  <2>1. PICK i \in 1..11 : i = t + 1
    OBVIOUS
  <2>2. PICK j \in 1..11 : j = v + 1
    OBVIOUS
  <2>3. StateNames[i] # "" /\ (StateNames[i] = StateNames[j] => i = j)
    BY NamesDiffer, Zenon
  <2>4. i = j => t = v
    BY <2>1, <2>2
  <2> QED
    BY <2>1, <2>2, <2>3, <2>4
<1>3. ASSUME s < StateCount PROVE found = {s}
  <2>1. s \in 0..10 /\ n = Name(StateNames[s + 1])
    BY <1>1, <1>3, ElevenStates
  <2>2. ASSUME NEW t \in 0..10 PROVE casecmp(n, app_item_state_name(t)) <=> t = s
    <3>1. n.text = StateNames[s + 1]
      BY <2>1 DEF Name
    <3>2. app_item_state_name(t).text = StateNames[t + 1]
      BY <1>1 DEF Name
    <3>3. StateNames[s + 1] = StateNames[t + 1] <=> t = s
      BY <1>2, <2>1
    <3> HIDE DEF n
    <3> QED
      BY <3>1, <3>2, <3>3 DEF casecmp
  <2> HIDE DEF n
  <2> QED
    BY <2>1, <2>2, ElevenStates
<1>4. ASSUME ~ (s < StateCount) PROVE found = {}
  <2>1. n = Name("")
    BY <1>4 DEF app_item_state_name
  <2>2. ASSUME NEW t \in 0..10 PROVE ~ casecmp(n, app_item_state_name(t))
    <3>1. n.text = ""
      <4>1. Name("").text = ""
        BY DEF Name
      <4> HIDE DEF n
      <4> QED
        BY <2>1, <4>1
    <3>2. app_item_state_name(t).text = StateNames[t + 1]
      BY <1>1 DEF Name
    <3>3. StateNames[t + 1] # ""
      BY <1>2
    <3> HIDE DEF n
    <3> QED
      BY <3>1, <3>2, <3>3 DEF casecmp
  <2> HIDE DEF n
  <2> QED
    BY <2>2, ElevenStates
<1>5. app_item_state_from_name(n) = IF found = {} THEN StateCount ELSE Min(found)
  BY DEF app_item_state_from_name
<1>6. Min({s}) = s
  BY DEF Min
<1> HIDE DEF found
<1> QED
  BY <1>3, <1>4, <1>5, <1>6

(***************************************************************************)
(* A state told by its name arrives as the same state, whatever state an   *)
(* item has; one without a name arrives as none that exists.               *)
(***************************************************************************)
THEOREM StateNamesTell == Spec => []NameTellsState
<1>1. ASSUME TypeOK, NEW p \in Programs
      PROVE  StateOf(p) \in 0..255
  <2>1. entry[p] \in SUBSET Nat
    BY <1>1, WordsType DEF TypeOK
  <2>2. state(p) \subseteq Positions(StateField)
    BY <2>1, Layout, GetType DEF state
  <2>3. Positions(StateField) = 0..7 /\ StateField.width = 8
    BY DEF Positions, StateField, BitField
  <2> QED
    BY <2>2, <2>3, WordIsNumber DEF StateOf
<1>2. TypeOK => NameTellsState
  BY <1>1, NameOfState DEF NameTellsState
<1> QED
  BY <1>2, TypeCorrect, PTL

=============================================================================
