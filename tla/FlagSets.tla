------------------------------- MODULE FlagSets -------------------------------
(***************************************************************************)
(* What the flags and options of utility/protocol.hpp are for their users: *)
(* a set that each program has a copy of.  Programs are of different       *)
(* versions.  A program sets and resets the flags it knows and keeps those *)
(* it does not; only where flags are told by name are they lost, and then  *)
(* just those that one of the two programs has no name for.                *)
(***************************************************************************)
EXTENDS Naturals

CONSTANT Programs

VARIABLES
  sets,    \* the set that each program has
  knows,   \* the flags that each program's source has
  call     \* the last operation: its name, its program, its argument

Called(name, p, arg) == call' = <<name, p, arg>>

Init ==
  /\ sets = [p \in Programs |-> {}]
  /\ knows \in [Programs -> SUBSET Nat]
  /\ call = <<>>

Set(p, f) ==
  /\ Called("set", p, f)
  /\ f \in knows[p]
  /\ sets' = [sets EXCEPT ![p] = @ \cup {f}]

Reset(p, f) ==
  /\ Called("reset", p, f)
  /\ f \in knows[p]
  /\ sets' = [sets EXCEPT ![p] = @ \ {f}]

Assign(p, F) ==
  Called("assign", p, F) /\ sets' = [sets EXCEPT ![p] = F]

Receive(p, q) ==
  Called("receive", p, q) /\ sets' = [sets EXCEPT ![p] = sets[q]]

\* q tells p the names of its flags.
Tell(p, q) ==
  /\ Called("tell", p, q)
  /\ sets' = [sets EXCEPT ![p] = sets[q] \cap knows[q] \cap knows[p]]

\* A step is the operation that `call' names.
Next ==
  /\ UNCHANGED knows
  /\ call' # <<>>
  /\ \E p \in Programs : LET arg == call'[3]
                        IN  \/ Set(p, arg) \/ Reset(p, arg) \/ Assign(p, arg)
                            \/ Receive(p, arg) \/ Tell(p, arg)

Spec == Init /\ [][Next]_<<sets, knows, call>>

=============================================================================
