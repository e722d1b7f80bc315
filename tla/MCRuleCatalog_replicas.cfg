\* Two replicas that share one rule file.
SPECIFICATION Spec
CONSTANTS
    None = None
    ParserRules = {alpha}
    ReportRules = {}
    Contents = {c1, c2}
    Workers = {w1, w2}
    MaxMtime = 2
    MaxTime = 2
    MaxEdits = 3
    MaxDeaths = 2
SYMMETRY Symmetry
INVARIANTS
    TypeOK
    QuietCatalogMatches
\* Every worker may have finished its sync.
CHECK_DEADLOCK FALSE
