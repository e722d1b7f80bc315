SPECIFICATION Spec
CONSTANTS
  Inputs <- MCInputs
  Alphabet <- MCAlphabet
  IntMax = 127
  Garbage = {0, 7}
  MaxText = 3
  MaxWords = 4
INVARIANTS
  TypeOK
  ScannerFollowsRules
  ParserFollowsGrammar
  MeaningIsKept
\* The program ends after the last expression, or when a division kills it.
CHECK_DEADLOCK FALSE
