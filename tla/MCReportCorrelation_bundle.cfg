SPECIFICATION Spec
CONSTANTS
  MessageRules = {"ips"}
  NoMessageRule = ""
  NoRef = ""
  MaxRecords = 3
  MaxEvaluations = 5
  Inputs <- MCInputs
  Reports = {"r1", "r2"}
  BindingsOf <- MCBindingsOf
  Names <- MCNames
  ValuesOf <- MCValuesOf
  EarlyNames <- MCEarlyNames
  NameOrder <- MCNameOrder
  SegmentsOf <- MCSegmentsOf
  Outcomes <- MCOutcomes
  Correlations = {"c1", "c2"}
  FamilyOf <- MCFamilyOf
  MinSystemsOf <- MCMinSystemsOf
  RequiredOf <- MCRequiredOf
  ResultOf <- MCResultOf
  Spelling <- MCSpelling
  KeysBefore <- MCKeysBefore
INVARIANTS
  TypeOK
  CorrelationsAreRight
  ContextsAgree
  OutputReadsBack
\* The analysis of a bundle ends.
CHECK_DEADLOCK FALSE
