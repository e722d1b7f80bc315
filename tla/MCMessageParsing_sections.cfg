SPECIFICATION Spec
CONSTANTS
  Letters = {"a", "b"}
  MaxLength = 2
  Messages <- MCMessages
  Inputs <- MCInputs
  RuleOf <- MCRuleOf
  Preset <- MCPreset
  Sections <- MCSections
  Ids = {"rule1", "rule2", "set1", "set2"}
  Names <- MCNames
  NoId = ""
  NoName <- MCNoName
  NoRuleset = ""
  ChildrenOf <- MCChildrenOf
  EngineOf <- MCEngineOf
  Nameless = {"blank"}
  RefersTo <- MCRefersTo
  ExtractOf <- MCExtractOf
  LocatorOf <- MCLocatorOf
  Unset = 100
INVARIANTS
  TypeOK
  PositionsSpellTheText
  LocatorsAdvance
  ExtractionIsExact
  PropertiesSeeTheirSection
  LoadingFollowsFiles
  CapturesKeepTheirGroup
\* A message that is parsed is the end of a behaviour.
CHECK_DEADLOCK FALSE
