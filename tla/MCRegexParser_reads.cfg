SPECIFICATION ParserSpec
CONSTANTS
  NumRules = 2
  Patterns <- MCPatterns
  Tokens = {"a", "b", "c"}
  Values = {"yes", "no"}
  Anchors = {"h", "k"}
  PatternsOf <- MCPatternsOf
  TokensOf <- MCTokensOf
  AssertOf <- MCAssertOf
  AnchorsOf <- MCAnchorsOf
  Precedence <- MCPrecedence
  MatchType <- MCMatchType
  ReadsOf <- MCReadsOf
  NoAssert = "none"
  Messages <- MCMessages
  MaxMessages = 2
  MaxFields = 3
  BaseReads <- OtherReads
  Directories <- MCDirectories
  IdOrder <- MCIdOrder
  Commands <- MCCommands
  Absent = Absent
INVARIANT PropertiesReadThisMessage
\* The program ends after its messages, or with the first error.
CHECK_DEADLOCK FALSE
