------------------------------- MODULE FlagWords -------------------------------
(***************************************************************************)
(* The flags and options of utility/protocol.hpp: Application::flags_,     *)
(* ApplicationListItem::flags_, Build::Configuration::flags_ and the       *)
(* bitset of Build::FetchOptionsE.  A word is the set of the positions of  *)
(* its 1 bits, as in PackedWord.                                           *)
(*                                                                         *)
(* Programs send their words to each other.  They may be of later versions *)
(* than this source: enumerations have "add above" notes where new flags   *)
(* go, so that a program that knows more has the same numbers for the      *)
(* flags that both know.  The program of the lowest version is this source.*)
(***************************************************************************)
EXTENDS Naturals

CONSTANTS
  Programs,
  Known,      \* how many flags of each kind each program's source has
  Operands,   \* the flags of each kind that operations are on
  ItemWords   \* the words that ApplicationListItem::flags(_flags) is given

VARIABLES
  kind,   \* of which of the four all the words are
  word,   \* the word of each program
  call    \* the last operation, as FlagSets has it

vars == <<kind, word, call>>

Kinds == {"application", "item", "configuration", "options"}

\* FetchOptionsE::FetchCount.
OptionsCount == 9

\* The bits that each kind has.
Width == [application |-> 64, item |-> 32, configuration |-> 64, options |-> OptionsCount]

\* The flags of this source.
Enumerated == [application |-> 1, item |-> 3, configuration |-> 1, options |-> OptionsCount]

ASSUME FlagAssumption ==
  /\ Known \in [Programs -> [Kinds -> Nat]]
  /\ \A p \in Programs, k \in Kinds : Enumerated[k] <= Known[p][k] /\ Known[p][k] <= Width[k]
  /\ Operands \in [Kinds -> SUBSET Nat]
  /\ ItemWords \subseteq SUBSET Nat

Positions(n) == 0..(n - 1)

\* Variant: 1U << _flag.
LiteralWidthsInt == [k \in Kinds |-> {32}]

\* The width of the literal that is shifted: 1ULL, 1UL, and a bitset's own.
\* A long has 64 bits, or 32 on Windows.  Configuration has no reset.
LiteralWidths ==
  [application |-> {64}, item |-> {32, 64}, configuration |-> {64}, options |-> {OptionsCount}]

Init ==
  /\ kind \in Kinds
  /\ word = [p \in Programs |-> {}]
  /\ call = <<>>

-----------------------------------------------------------------------------
Called(name, p, arg) == call' = <<name, p, arg>>

\* The word is converted to the type of the member.
Store(p, w) ==
  /\ word' = [word EXCEPT ![p] = w \cap Positions(Width[kind])]
  /\ UNCHANGED kind

\* setFlag and set_option.
SetFlag(p, f) ==
  /\ kind # "configuration"
  /\ f < Known[p][kind]
  /\ Store(p, word[p] \cup {f})
  /\ Called("set", p, f)

\* resetFlag and reset_option: & ~ of the shifted literal.
ResetFlag(p, f) ==
  /\ kind # "configuration"
  /\ f < Known[p][kind]
  /\ \E n \in LiteralWidths[kind] : Store(p, word[p] \cap (Positions(n) \ {f}))
  /\ Called("reset", p, f)

\* isFlagSet, has_option and hasHiddenDirectoryFlag.
IsSet(p, f) == word[p] \cap {f} # {}

\* ApplicationListItem::flags(_flags).
SetFlags(p, w) ==
  /\ kind = "item"
  /\ Store(p, w)
  /\ Called("assign", p, w \cap Positions(Width[kind]))

(***************************************************************************)
(* Configuration's flags by name.  A name is the number of the flag whose  *)
(* name it is, in any case; which of a program's flag_names it equals is   *)
(* found by comparing it with each.                                        *)
(***************************************************************************)
flag(p, name) == {i \in Positions(Known[p].configuration) : i = name}

compute_flags(p, names) == UNION {flag(p, name) : name \in names}

\* The names for_each_flag passes to _f.
for_each_flag(p) == {i \in Positions(Known[p].configuration) : IsSet(p, i)}

\* flags_ = compute_flags(...).
ComputeFlags(p, names) ==
  /\ kind = "configuration"
  /\ Store(p, compute_flags(p, names))
  /\ Called("assign", p, names \cap Positions(Known[p].configuration))

\* p computes its flags from the names that q's for_each_flag gives.
TellNames(p, q) ==
  /\ kind = "configuration"
  /\ Store(p, compute_flags(p, for_each_flag(q)))
  /\ Called("tell", p, q)

\* p reads the record that q has sent.
Receive(p, q) ==
  /\ Store(p, word[q])
  /\ Called("receive", p, q)

-----------------------------------------------------------------------------
Next ==
  \E p \in Programs :
    \/ \E f \in Operands[kind] : SetFlag(p, f) \/ ResetFlag(p, f)
    \/ \E w \in ItemWords : SetFlags(p, w)
    \/ \E names \in SUBSET Operands.configuration : ComputeFlags(p, names)
    \/ \E q \in Programs : TellNames(p, q) \/ Receive(p, q)

Spec == Init /\ [][Next]_vars

-----------------------------------------------------------------------------
TypeOK ==
  /\ kind \in Kinds
  /\ word \in [Programs -> SUBSET Positions(Width[kind])]

(***************************************************************************)
(* The words are sets of flags.  A program that resets a flag keeps those  *)
(* of later versions whatever the width of the literal it shifts, and a    *)
(* later version that gets the word back finds them; told by name, flags   *)
(* that both programs know arrive and no others appear.                    *)
(***************************************************************************)
Sets == INSTANCE FlagSets WITH
  sets <- [p \in Programs |-> {f \in Positions(Width[kind]) : IsSet(p, f)}],
  knows <- [p \in Programs |-> Positions(Known[p][kind])]

FlagsAreSets == Sets!Spec

=============================================================================
