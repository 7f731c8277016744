CONSTANTS
  Letters <- MCLetters
  Digits <- MCDigits
  Upper <- MCUpper
  NumberOf <- MCNumberOf
  Width <- MCWidth
  Statements <- MCStatements
  Atoms <- MCAtoms
  MaxEdits <- MCMaxEdits
SPECIFICATION Spec
INVARIANTS RoundTrip AcceptedAsWritten MutationsLogged
CHECK_DEADLOCK FALSE
