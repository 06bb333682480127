---------------------------- MODULE MCAppItemEntry ----------------------------
(***************************************************************************)
(* Words are not scaled down.  The flags that flags(_flags) is given are   *)
(* at both ends of the field and one bit beyond it; the raw value is that  *)
(* of a newer program: a state and a flag this source does not know.       *)
(* States are two that follow each other, the last one, and those that     *)
(* have no name.  The undefined shift gives the bit of 255 modulo 64, as a *)
(* machine may have it, or the bit of a flag that exists.                  *)
(***************************************************************************)
EXTENDS AppItemEntry

FewNames == {Name("review_accepted"), [text |-> "public_release", exact |-> FALSE], Name("")}

MCSetStates == {7}
MCRawValues == {{3, 4, 7, 8, 11, 13, 63}}
MCFlagWords == {{0, 51, 52}}
MCUndefinedShift == {{63}, {0}}

=============================================================================
