\* One Contract contended by two workers served by two processes, with renewals, stale
\* clock readings, fair time and maintenance: every lease is closed in the end.
CONSTANTS
    c1 = c1  c2 = c2  w1 = w1  w2 = w2  r1 = r1  r2 = r2
    Contracts = {c1}
    Workers = {w1, w2}
    NoWorker = NoWorker
    MaxVersion = 1
    Profile <- OneProfile
    HoldIds = {}
    Edges <- NoEdges
    Assignable = {}
    Sessions = {s1, s2}
    Requests = {r1, r2}
    Signer <- TwoSigners
    NoRequest = NoRequest
    NoContract = NoContract
    MaxLease = 1
    LockWait = 1
    MaxClock = 3
    MaxRenewals = 2
    MaxCandidates = 1
SPECIFICATION FairSpec
INVARIANTS ExpiredRanOut RebuildMatches
PROPERTIES ImplementsFairTaskAttempt
CHECK_DEADLOCK FALSE
