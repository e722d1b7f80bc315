\* All short texts and nested JSON texts, searched, indexed, edited and asked for paths.
SPECIFICATION PathSpec
CONSTANTS
    Names <- MCNames
    EmptyName = "empty"
    Primitives = {"1"}
    Odd = "?"
    Texts <- MCTexts
    Fragments <- MCFragments
    InQuotes <- MCInQuotes
    Subscript <- MCSubscript
    MaxEdits = 1
    IntBound = 2
    Callers <- MCCallers
    Reads <- MCReads
    Asks <- MCAsks
INVARIANTS
    TypeOK
    LinksAreSound
    JsonIsParsed
    PathsAreRight
    EditsStayJson
    SearchIsRight
    PathsAreCompiled
    LookupsFollowTheText
PROPERTIES
    EditsAreAllOrNothing
\* A text that is refused, or a parser that is not used any more.
CHECK_DEADLOCK FALSE
