\* Two clients and two workers; faults, but no lost reply.
SPECIFICATION FairSpec
CONSTANTS
    None = None
    BundleIds = {b1, b2}
    Payloads = {good}
    Unparsable = {}
    Requests = {r1, r2}
    Workers = {w1, w2}
    BatchSize = 1
    FaultKinds = {"mongo_error", "parser_error", "worker_killed"}
    MaxFaults = 1
PROPERTIES
    CoveredIsClaimed
    ProcessingEnds
CHECK_DEADLOCK FALSE
