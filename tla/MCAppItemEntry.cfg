CONSTANTS
  Programs = {client, server}
  SetStates <- MCSetStates
  Names <- FewNames
  RawValues <- MCRawValues
  FlagWords <- MCFlagWords
  UndefinedShift <- MCUndefinedShift
SPECIFICATION Spec
INVARIANTS
  TypeOK
  NameTellsState
PROPERTIES
  IndependentFields
