\* Two clients, two workers, every kind of fault, in every interleaving.
SPECIFICATION Spec
CONSTANTS
    None = None
    BundleIds = {b1, b2}
    Payloads = {good, bad}
    Unparsable = {bad}
    Requests = {r1, r2}
    Workers = {w1, w2}
    BatchSize = 1
    FaultKinds = {"mongo_error", "lost_reply", "parser_error", "worker_killed", "api_killed"}
    MaxFaults = 2
SYMMETRY Symmetry
INVARIANTS
    TypeOK
    WorkConsistent
    SingleClaim
    CompletedHasResults
    RepliesAreTrue
    AbandonedAreCounted
PROPERTY ImplementsLifecycle
\* Served requests and an idle stream: the system may come to rest.
CHECK_DEADLOCK FALSE
