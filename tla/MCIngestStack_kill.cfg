\* The worker container is killed once and restarted.
SPECIFICATION FairSpec
CONSTANTS
    None = None
    BundleIds = {b1}
    Payloads = {good}
    Unparsable = {}
    Requests = {r1}
    Workers = {w1}
    BatchSize = 2
    FaultKinds = {"worker_killed"}
    MaxFaults = 1
PROPERTY EveryClaimIsMarked
CHECK_DEADLOCK FALSE
