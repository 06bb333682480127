---------------------------- MODULE FlagWordsProofs ----------------------------
(***************************************************************************)
(* FlagWords implements FlagSets, for any programs of this source and of   *)
(* later versions.                                                         *)
(***************************************************************************)
EXTENDS FlagWords, TLAPS

\* The sets that the words are.
Abstraction == [p \in Programs |-> {f \in Positions(Width[kind]) : IsSet(p, f)}]

\* The flags that the programs know.
Knows == [p \in Programs |-> Positions(Known[p][kind])]

-----------------------------------------------------------------------------
(***************************************************************************)
(* Widths.                                                                 *)
(***************************************************************************)
LEMMA WidthType ==
  ASSUME NEW k \in Kinds
  PROVE  Width[k] \in Nat
  BY DEF Kinds, Width, OptionsCount

\* No literal is narrower than the member it masks.
LEMMA LiteralsCover ==
  ASSUME NEW k \in Kinds, NEW n \in LiteralWidths[k]
  PROVE  Positions(Width[k]) \subseteq Positions(n)
  BY DEF Kinds, Width, LiteralWidths, OptionsCount, Positions

\* What a program knows fits in the word.
LEMMA KnownFits ==
  ASSUME NEW k \in Kinds, NEW p \in Programs
  PROVE  /\ Known[p][k] \in Nat
         /\ Positions(Known[p][k]) \subseteq Positions(Width[k])
<1>1. Known[p][k] \in Nat /\ Known[p][k] <= Width[k]
  BY FlagAssumption
<1>2. Width[k] \in Nat
  BY WidthType
<1> QED
  BY <1>1, <1>2 DEF Positions

LEMMA KnownFlag ==
  ASSUME NEW k \in Kinds, NEW p \in Programs, NEW f \in Nat, f < Known[p][k]
  PROVE  f \in Positions(Known[p][k]) /\ f \in Positions(Width[k])
  BY KnownFits DEF Positions

-----------------------------------------------------------------------------
(***************************************************************************)
(* The word of a program is the set of its flags.                          *)
(***************************************************************************)
LEMMA WordIsSet == TypeOK => Abstraction = word
  BY DEF TypeOK, Abstraction, IsSet

LEMMA StoreStep ==
  ASSUME TypeOK, NEW p \in Programs, NEW w \in SUBSET Positions(Width[kind]), Store(p, w)
  PROVE  /\ TypeOK'
         /\ Knows' = Knows
         /\ Abstraction' = [Abstraction EXCEPT ![p] = w]
<1>1. kind' = kind /\ word' = [word EXCEPT ![p] = w]
  BY DEF Store
<1>2. TypeOK'
  BY <1>1 DEF TypeOK
<1>3. Abstraction' = word'
  BY <1>2, WordIsSet DEF TypeOK, Abstraction, IsSet
<1> QED
  BY <1>1, <1>2, <1>3, WordIsSet DEF Knows

-----------------------------------------------------------------------------
LEMMA InitStep == Init => TypeOK /\ Sets!Init
<1> SUFFICES ASSUME Init PROVE TypeOK /\ Sets!Init
  OBVIOUS
<1>1. TypeOK
  BY DEF Init, TypeOK
<1>2. Abstraction = [p \in Programs |-> {}]
  BY <1>1, WordIsSet DEF Init
<1>3. Knows \in [Programs -> SUBSET Nat]
  BY <1>1, KnownFits DEF Knows, Positions, TypeOK
<1> QED
  BY <1>1, <1>2, <1>3 DEF Init, Sets!Init, Abstraction, Knows

LEMMA SetStep ==
  ASSUME TypeOK, NEW p \in Programs, NEW f \in Nat, SetFlag(p, f)
  PROVE  TypeOK' /\ Knows' = Knows /\ Sets!Set(p, f) /\ call' = <<"set", p, f>>
<1>1. kind \in Kinds /\ word[p] \in SUBSET Positions(Width[kind])
  BY DEF TypeOK
<1>2. f \in Knows[p] /\ f \in Positions(Width[kind])
  BY <1>1, KnownFlag DEF SetFlag, Knows
<1>3. TypeOK' /\ Knows' = Knows /\ Abstraction' = [Abstraction EXCEPT ![p] = word[p] \cup {f}]
  BY <1>1, <1>2, StoreStep DEF SetFlag
<1>4. Abstraction[p] = word[p]
  BY WordIsSet
<1> QED
  BY <1>2, <1>3, <1>4 DEF SetFlag, Called, Sets!Set, Sets!Called, Abstraction, Knows

LEMMA ResetStep ==
  ASSUME TypeOK, NEW p \in Programs, NEW f \in Nat, ResetFlag(p, f)
  PROVE  TypeOK' /\ Knows' = Knows /\ Sets!Reset(p, f) /\ call' = <<"reset", p, f>>
<1>1. kind \in Kinds /\ word[p] \in SUBSET Positions(Width[kind])
  BY DEF TypeOK
<1>2. f \in Knows[p]
  BY <1>1, KnownFlag DEF ResetFlag, Knows
<1>3. PICK n \in LiteralWidths[kind] : Store(p, word[p] \cap (Positions(n) \ {f}))
  BY DEF ResetFlag
<1>4. word[p] \cap (Positions(n) \ {f}) = word[p] \ {f}
  BY <1>1, LiteralsCover
<1>5. TypeOK' /\ Knows' = Knows /\ Abstraction' = [Abstraction EXCEPT ![p] = word[p] \ {f}]
  BY <1>1, <1>3, <1>4, StoreStep
<1>6. Abstraction[p] = word[p]
  BY WordIsSet
<1> QED
  BY <1>2, <1>5, <1>6 DEF ResetFlag, Called, Sets!Reset, Sets!Called, Abstraction, Knows

LEMMA AssignStep ==
  ASSUME TypeOK, NEW p \in Programs, NEW w, SetFlags(p, w)
  PROVE  LET F == w \cap Positions(Width[kind])
         IN  TypeOK' /\ Knows' = Knows /\ Sets!Assign(p, F) /\ call' = <<"assign", p, F>>
<1> DEFINE F == w \cap Positions(Width[kind])
<1>1. Store(p, F)
  BY DEF SetFlags, Store
<1>2. TypeOK' /\ Knows' = Knows /\ Abstraction' = [Abstraction EXCEPT ![p] = F]
  BY <1>1, StoreStep
<1> QED
  BY <1>2 DEF SetFlags, Called, Sets!Assign, Sets!Called, Abstraction

\* The flags computed from names are those the program has a name for.
LEMMA ComputedFlags ==
  ASSUME NEW p \in Programs, NEW names
  PROVE  compute_flags(p, names) = names \cap Positions(Known[p].configuration)
  BY DEF compute_flags, flag

LEMMA ComputeStep ==
  ASSUME TypeOK, NEW p \in Programs, NEW names, ComputeFlags(p, names)
  PROVE  LET F == names \cap Positions(Known[p].configuration)
         IN  TypeOK' /\ Knows' = Knows /\ Sets!Assign(p, F) /\ call' = <<"assign", p, F>>
<1> DEFINE F == names \cap Positions(Known[p].configuration)
<1>1. Store(p, F) /\ kind = "configuration" /\ kind \in Kinds
  BY ComputedFlags DEF ComputeFlags, TypeOK
<1>2. F \in SUBSET Positions(Width[kind])
  BY <1>1, KnownFits
<1>3. TypeOK' /\ Knows' = Knows /\ Abstraction' = [Abstraction EXCEPT ![p] = F]
  BY <1>1, <1>2, StoreStep
<1> QED
  BY <1>3 DEF ComputeFlags, Called, Sets!Assign, Sets!Called, Abstraction

LEMMA TellStep ==
  ASSUME TypeOK, NEW p \in Programs, NEW q \in Programs, TellNames(p, q)
  PROVE  TypeOK' /\ Knows' = Knows /\ Sets!Tell(p, q) /\ call' = <<"tell", p, q>>
<1> DEFINE F == word[q] \cap Positions(Known[q].configuration) \cap Positions(Known[p].configuration)
<1>1. kind = "configuration" /\ kind \in Kinds
  BY DEF TellNames, TypeOK
<1>2. for_each_flag(q) = word[q] \cap Positions(Known[q].configuration)
  BY DEF for_each_flag, IsSet
<1>3. Store(p, F)
  BY <1>2, ComputedFlags DEF TellNames
<1>4. F \in SUBSET Positions(Width[kind])
  BY <1>1, KnownFits
<1>5. TypeOK' /\ Knows' = Knows /\ Abstraction' = [Abstraction EXCEPT ![p] = F]
  BY <1>3, <1>4, StoreStep
<1>6. F = Abstraction[q] \cap Knows[q] \cap Knows[p]
  BY <1>1, WordIsSet DEF Knows
<1> QED
  BY <1>5, <1>6 DEF TellNames, Called, Sets!Tell, Sets!Called, Abstraction, Knows

LEMMA ReceiveStep ==
  ASSUME TypeOK, NEW p \in Programs, NEW q \in Programs, Receive(p, q)
  PROVE  TypeOK' /\ Knows' = Knows /\ Sets!Receive(p, q) /\ call' = <<"receive", p, q>>
<1>1. word[q] \in SUBSET Positions(Width[kind]) /\ Store(p, word[q])
  BY DEF TypeOK, Receive
<1>2. TypeOK' /\ Knows' = Knows /\ Abstraction' = [Abstraction EXCEPT ![p] = word[q]]
  BY <1>1, StoreStep
<1>3. word[q] = Abstraction[q]
  BY WordIsSet
<1> QED
  BY <1>2, <1>3 DEF Receive, Called, Sets!Receive, Sets!Called, Abstraction

LEMMA NextStep ==
  ASSUME TypeOK, [Next]_vars
  PROVE  TypeOK' /\ [Sets!Next]_<<Abstraction, Knows, call>>
<1>1. ASSUME NEW p \in Programs, NEW f \in Operands[kind], SetFlag(p, f) \/ ResetFlag(p, f)
      PROVE  TypeOK' /\ Sets!Next
  <2>1. f \in Nat
    BY FlagAssumption DEF TypeOK
  <2> QED
    BY <1>1, <2>1, SetStep, ResetStep DEF Sets!Next, Knows
<1>2. ASSUME NEW p \in Programs, NEW w \in ItemWords, SetFlags(p, w)
      PROVE  TypeOK' /\ Sets!Next
  <2>1. PICK F : TypeOK' /\ Knows' = Knows /\ Sets!Assign(p, F) /\ call' = <<"assign", p, F>>
    BY <1>2, AssignStep
  <2> QED
    BY <2>1 DEF Sets!Next, Knows
<1>3. ASSUME NEW p \in Programs, NEW names, ComputeFlags(p, names)
      PROVE  TypeOK' /\ Sets!Next
  <2>1. PICK F : TypeOK' /\ Knows' = Knows /\ Sets!Assign(p, F) /\ call' = <<"assign", p, F>>
    BY <1>3, ComputeStep
  <2> QED
    BY <2>1 DEF Sets!Next, Knows
<1>4. ASSUME NEW p \in Programs, NEW q \in Programs, TellNames(p, q)
      PROVE  TypeOK' /\ Sets!Next
  BY <1>4, TellStep DEF Sets!Next, Knows
<1>5. ASSUME NEW p \in Programs, NEW q \in Programs, Receive(p, q)
      PROVE  TypeOK' /\ Sets!Next
  BY <1>5, ReceiveStep DEF Sets!Next, Knows
<1>6. CASE UNCHANGED vars
  BY <1>6 DEF vars, TypeOK, Abstraction, Knows, IsSet
<1> QED
  BY <1>1, <1>2, <1>3, <1>4, <1>5, <1>6 DEF Next

-----------------------------------------------------------------------------
(***************************************************************************)
(* No word has a bit its member has not.                                   *)
(***************************************************************************)
THEOREM TypeCorrect == Spec => []TypeOK
<1>1. Init => TypeOK
  BY InitStep
<1>2. TypeOK /\ [Next]_vars => TypeOK'
  BY NextStep
<1> QED
  BY <1>1, <1>2, PTL DEF Spec

(***************************************************************************)
(* The words of every kind are sets of flags for programs of any versions: *)
(* resetting one flag keeps all others, those it does not know too, and    *)
(* names lose only flags that one of the two programs has no name for.     *)
(***************************************************************************)
THEOREM FlagsImplemented == Spec => FlagsAreSets
<1>1. Init => Sets!Init
  BY InitStep
<1>2. TypeOK /\ [Next]_vars => [Sets!Next]_<<Abstraction, Knows, call>>
  BY NextStep
<1> QED
  BY <1>1, <1>2, TypeCorrect, PTL DEF Spec, FlagsAreSets, Sets!Spec, Abstraction, Knows

=============================================================================
