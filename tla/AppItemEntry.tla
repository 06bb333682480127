------------------------------ MODULE AppItemEntry ------------------------------
(***************************************************************************)
(* AppItemEntry (utility/protocol.hpp): the state, the type and the flags  *)
(* of an item of an application packed into a word of 64 bits.  Programs   *)
(* hold copies of the word and send it to each other, as `value' of the    *)
(* entry in ChangeAppItemStateRequest and FetchAppResponse or in a cereal  *)
(* archive; the item's name travels along unchanged and is left out.       *)
(*                                                                         *)
(* States and flags can also be given by name, without regard to case.  A  *)
(* name is the name it equals in all but case and whether the case is      *)
(* equal, too.                                                             *)
(***************************************************************************)
EXTENDS PackedWord, Sequences, FiniteSetsExt

CONSTANTS
  Programs,   \* those that hold a copy of the item
  SetStates,  \* the states that state(_state) and the constructor are given
  Names,      \* the names that states are looked up by
  RawValues,  \* the words that value(_value) is given
  FlagWords,  \* the words that flags(_flags) is given
  UndefinedShift  \* the words that a shift by more than 63 may give

WordWidth == 64
Words == SUBSET (0..(WordWidth - 1))

ASSUME AppItemAssumption ==
  /\ SetStates \subseteq 0..255
  /\ RawValues \subseteq Words /\ FlagWords \subseteq Words
  /\ UndefinedShift \subseteq Words

VARIABLES
  entry,   \* u_.value_ of each program's copy
  call     \* the last operation, as AppItemFields has it

vars == <<entry, call>>

-----------------------------------------------------------------------------
StateField == BitField(0, 8)
TypeField == BitField(8, 4)
FlagsField == BitField(12, 52)

\* AppItemStateE, from Invalid to PublicRelease, and app_item_state_name.
StateNames ==
  <<"none", "deleting", "trash", "private_alpha", "review_request", "review_started",
    "review_accepted", "review_rejected", "public_alpha", "public_beta", "public_release">>

StateCount == Len(StateNames)

Name(text) == [text |-> text, exact |-> TRUE]

casecmp(n, m) == n.text = m.text

app_item_state_name(s) == IF s < StateCount THEN Name(StateNames[s + 1]) ELSE Name("")

\* Variant: review_accepted is compared with twice.
StateFromNameTwice(n) ==
  LET found == {s \in 0..(StateCount - 1) :
                  casecmp(n, app_item_state_name(IF s = 7 THEN 6 ELSE s))}
  IN  IF found = {} THEN StateCount ELSE Min(found)

\* The first state that has the name; StateCount, which is none, if none has.
app_item_state_from_name(n) ==
  LET found == {s \in 0..(StateCount - 1) : casecmp(n, app_item_state_name(s))}
  IN  IF found = {} THEN StateCount ELSE Min(found)

\* AppItemFlagE: Invalid is -1.
Invalid == -1

FlagNames == <<"ReviewAccepted", "ReviewRejected">>

app_item_flag(n) ==
  LET found == {f \in 0..(Len(FlagNames) - 1) : casecmp(n, Name(FlagNames[f + 1]))}
  IN  IF found = {} THEN Invalid ELSE Min(found)

\* A name in another case, or none of the list.
OtherNames(list) == {[text |-> list[Len(list)], exact |-> FALSE], Name("")}

NamesOf(list) == {Name(list[i]) : i \in DOMAIN list} \cup OtherNames(list)

(***************************************************************************)
(* 1ULL << static_cast<uint8_t>(_flag).  Invalid becomes 255, and a shift  *)
(* by more than 63 is undefined: which word comes of it is up to the       *)
(* compiler and the machine, and may differ from one use to the next.      *)
(***************************************************************************)
Shifted(f) ==
  LET n == (f + 256) % 256
  IN  IF n < WordWidth THEN {{n}} ELSE UndefinedShift

state(p) == Get(entry[p], StateField)
type(p) == Get(entry[p], TypeField)
flags(p) == Get(entry[p], FlagsField)

-----------------------------------------------------------------------------
Fields(word) ==
  [state |-> Get(word, StateField), type |-> Get(word, TypeField), flags |-> Get(word, FlagsField)]

Init ==
  /\ entry = [p \in Programs |-> {}]
  /\ call = <<>>

Store(p, word) == entry' = [entry EXCEPT ![p] = word]

Called(name, p, arg) == call' = <<name, p, arg>>

SetState(p, s) ==
  /\ Store(p, Put(entry[p], StateField, Bits(s, 8)))
  /\ Called("state", p, Bits(s, 8))

SetStateByName(p, n) == SetState(p, app_item_state_from_name(n))

SetType(p, t) ==
  /\ Store(p, Put(entry[p], TypeField, Bits(t, 8)))
  /\ Called("type", p, Bits(t, 8) \cap Positions(TypeField))

SetFlags(p, word) ==
  /\ Store(p, Put(entry[p], FlagsField, word))
  /\ Called("flags", p, word \cap Positions(FlagsField))

\* The call that an operation on the flag f is for the caller.
FlagCalled(name, p, f) == IF f = Invalid THEN Called("noFlag", p, f) ELSE Called(name, p, f)

SetFlag(p, f) ==
  /\ \E one \in Shifted(f) : Store(p, Put(entry[p], FlagsField, flags(p) \cup one))
  /\ FlagCalled("setFlag", p, f)

ResetFlag(p, f) ==
  /\ \E one \in Shifted(f) : Store(p, Put(entry[p], FlagsField, flags(p) \ one))
  /\ FlagCalled("resetFlag", p, f)

\* value(_value) and the constructor from a value.
SetValue(p, word) ==
  /\ Store(p, word)
  /\ Called("value", p, Fields(word))

\* The constructor from a name and a state.
Construct(p, s) ==
  /\ Store(p, Put({}, StateField, Bits(s, 8)))
  /\ Called("value", p, [state |-> Bits(s, 8), type |-> {}, flags |-> {}])

\* p reads an entry that q has written.
Receive(p, q) ==
  /\ Store(p, entry[q])
  /\ Called("receive", p, q)

-----------------------------------------------------------------------------
Next ==
  \E p \in Programs :
    \/ \E s \in SetStates : SetState(p, s) \/ Construct(p, s)
    \/ \E n \in Names : SetStateByName(p, n)
    \/ \E t \in {0, 1} : SetType(p, t)
    \/ \E word \in FlagWords : SetFlags(p, word)
    \/ \E n \in NamesOf(FlagNames) : SetFlag(p, app_item_flag(n)) \/ ResetFlag(p, app_item_flag(n))
    \/ \E word \in RawValues : SetValue(p, word)
    \/ \E q \in Programs : Receive(p, q)

Spec == Init /\ [][Next]_vars

-----------------------------------------------------------------------------
TypeOK == entry \in [Programs -> Words]

(***************************************************************************)
(* The packed words behave as independent fields: no setter spills into a  *)
(* neighbour and a flag is what it was last made.  The flag of an unknown  *)
(* name shifts by 255: that may set or reset any flags of the item, those  *)
(* that exist included, but it changes nothing else.                       *)
(***************************************************************************)
ItemFields == INSTANCE AppItemFields WITH
  fields <- [p \in Programs |-> Fields(entry[p])],
  Blank <- [state |-> {}, type |-> {}, flags |-> {}]

IndependentFields == ItemFields!Spec

\* The state as the number it is.
StateOf(p) == Number(state(p), StateField.width)

(***************************************************************************)
(* A state told to another program by its name arrives as the same state;  *)
(* one that has no name, because a newer program or value() made it,       *)
(* arrives as StateCount and never as a state that exists.                 *)
(***************************************************************************)
NameTellsState ==
  \A p \in Programs :
    LET s == StateOf(p)
    IN  app_item_state_from_name(app_item_state_name(s)) = IF s < StateCount THEN s ELSE StateCount

=============================================================================
