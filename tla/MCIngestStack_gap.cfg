\* No fault at all: one client, one worker.
SPECIFICATION FairSpec
CONSTANTS
    None = None
    BundleIds = {b1}
    Payloads = {good}
    Unparsable = {}
    Requests = {r1}
    Workers = {w1}
    BatchSize = 2
    FaultKinds = {}
    MaxFaults = 0
PROPERTY EveryInsertIsClaimed
CHECK_DEADLOCK FALSE
