----------------------------- MODULE MCFlagWords -----------------------------
(***************************************************************************)
(* A program of this source and one that has all the flags there can be.   *)
(* Operations are on the first flags and on the last, and on one beyond    *)
(* the 32 bits of an int; a caller's word has bits an item has not.        *)
(***************************************************************************)
EXTENDS FlagWords

CONSTANTS current, later

MCPrograms == {current, later}
MCKnown == [p \in MCPrograms |-> IF p = current THEN Enumerated ELSE Width]
MCOperands ==
  [application |-> {0, 31, 32, 63}, item |-> {0, 2, 31},
   configuration |-> {0, 1, 33, 63}, options |-> {0, 1, 8}]
MCItemWords == {{0, 1, 31, 32, 40}, {}}

=============================================================================
