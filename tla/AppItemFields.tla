----------------------------- MODULE AppItemFields -----------------------------
(***************************************************************************)
(* What the users of AppItemEntry (utility/protocol.hpp) may count on: the *)
(* state, the type and the flags of an item are independent.  An operation *)
(* changes the one it is named for and no other, a flag stays as it was    *)
(* last set or reset unless an operation is given a flag that does not     *)
(* exist, and a copy sent to another program has all three.                *)
(***************************************************************************)
CONSTANTS
  Programs,   \* those that hold a copy of the item
  Blank       \* the fields of an entry that was just constructed

VARIABLES
  fields,     \* what state(), type() and flags() of each copy return
  call        \* the last operation: its name, its program, its argument

Called(name, p, arg) == call' = <<name, p, arg>>

Init ==
  /\ fields = [p \in Programs |-> Blank]
  /\ call = <<>>

SetState(p, s) ==
  Called("state", p, s) /\ fields' = [fields EXCEPT ![p].state = s]

SetType(p, t) ==
  Called("type", p, t) /\ fields' = [fields EXCEPT ![p].type = t]

SetFlags(p, F) ==
  Called("flags", p, F) /\ fields' = [fields EXCEPT ![p].flags = F]

SetFlag(p, f) ==
  Called("setFlag", p, f) /\ fields' = [fields EXCEPT ![p].flags = @ \cup {f}]

ResetFlag(p, f) ==
  Called("resetFlag", p, f) /\ fields' = [fields EXCEPT ![p].flags = @ \ {f}]

\* An operation on a flag that does not exist: it may do anything to the
\* flags of the copy.
NoFlag(p, f) ==
  /\ Called("noFlag", p, f)
  /\ fields' = [fields EXCEPT ![p].flags = fields'[p].flags]

\* All three at once.
Assign(p, r) ==
  Called("value", p, r) /\ fields' = [fields EXCEPT ![p] = r]

Receive(p, q) ==
  Called("receive", p, q) /\ fields' = [fields EXCEPT ![p] = fields[q]]

\* A step is the operation that `call' names.
Next ==
  /\ call' # <<>>
  /\ \E p \in Programs : LET arg == call'[3]
                        IN  \/ SetState(p, arg) \/ SetType(p, arg) \/ SetFlags(p, arg)
                            \/ SetFlag(p, arg) \/ ResetFlag(p, arg) \/ NoFlag(p, arg)
                            \/ Assign(p, arg) \/ Receive(p, arg)

Spec == Init /\ [][Next]_<<fields, call>>

=============================================================================
