---------------------------- MODULE ErrorCatalog ----------------------------
(***************************************************************************)
(* The errors of utility/error.hpp and utility/src/error.cpp: the name of  *)
(* an enumerator, the number that travels as error_ of a response, and the *)
(* condition that make_error makes of the number.  A condition is its      *)
(* number, the category being one; a text of ErrorCategory::message is the *)
(* name of the enumerator it has a case for.                               *)
(*                                                                         *)
(* Programs of several releases tell each other errors.  "Always add at    *)
(* the end" says the enumeration: Later is what was added after this       *)
(* source, and release n of a program has the first n of it.               *)
(***************************************************************************)
EXTENDS Naturals, Sequences

CONSTANT Later

ErrorNames ==
  <<"Generic", "Exist", "Backend", "Pending", "Version", "State", "RequestInvalid",
    "AuthenticationInvalid", "AuthenticationValidate", "AuthenticationLocked",
    "AuthenticationWait", "AuthenticationRelogin", "AuthenticationDemo",
    "AuthenticationDemoInvalid", "AuthenticationConnectionCount", "AccountInvalid",
    "AccountApplicationQuota", "AccountStorageQuota", "AccountNoReservation", "Storage",
    "StorageLimit", "StorageSum", "StorageZip", "StorageSize", "StorageInvalid",
    "ApplicationInvalid", "ApplicationReservation", "ApplicationSystem", "Retry",
    "ArgumentInvalid", "RequestCount">>

\* Variant: what is new is put where it belongs, before "RequestInvalid".
ErrorESorted(release) ==
  SubSeq(ErrorNames, 1, 6) \o SubSeq(Later, 1, release) \o SubSeq(ErrorNames, 7, 31)

\* The enumeration of a release.  Its numbers begin with 1.
ErrorE(release) == ErrorNames \o SubSeq(Later, 1, release)

Known(release) == {ErrorE(release)[i] : i \in DOMAIN ErrorE(release)}

\* An enumeration has no name twice, in any release, and message() says of no
\* error what it says of 0 and of numbers it has no case for.
ASSUME CatalogAssumption ==
  /\ Later \in Seq(STRING)
  /\ \A i, j \in DOMAIN ErrorE(Len(Later)) :
       ErrorE(Len(Later))[i] = ErrorE(Len(Later))[j] => i = j
  /\ {"Success", "Unknown"} \cap Known(Len(Later)) = {}

cast(release, e) == CHOOSE i \in DOMAIN ErrorE(release) : ErrorE(release)[i] = e

\* The switch of message(): it has a case for 0 and for each enumerator.
message(release, ev) ==
  IF ev = 0 THEN "Success"
  ELSE IF ev \in DOMAIN ErrorE(release) THEN ErrorE(release)[ev] ELSE "Unknown"

\* The constants error_generic to error_storage_size, each named for its
\* enumerator.
Condition(release, e) == cast(release, e)

\* make_error: the number becomes the condition's value, whatever it is.
MakeError(err) == err

=============================================================================
