CONSTANTS
  current = current
  later = later
  Programs <- MCPrograms
  Known <- MCKnown
  Operands <- MCOperands
  ItemWords <- MCItemWords
SPECIFICATION Spec
PROPERTIES
  FlagsAreSets
