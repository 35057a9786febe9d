\* Two processes serve one signed request for two Contracts that may wait for each other,
\* while holds, links, assignments and registrations change.
CONSTANTS
    c1 = c1  c2 = c2  w1 = w1  w2 = w2  r1 = r1  r2 = r2
    Contracts = {c1, c2}
    Workers = {w1, w2}
    NoWorker = NoWorker
    MaxVersion = 2
    Profile <- ChangingProfile
    HoldIds = {h1}
    Edges <- Ring
    Assignable = {c1}
    Sessions = {s1, s2}
    Requests = {r1}
    Signer <- TwoSigners
    NoRequest = NoRequest
    NoContract = NoContract
    MaxLease = 1
    LockWait = 0
    MaxClock = 1
    MaxRenewals = 0
    MaxCandidates = 0
SYMMETRY SessionsOnly
SPECIFICATION Spec
INVARIANTS ClaimsRespectGates OneGrantPerRequest LinksAcyclic
PROPERTIES GrantsAreEligible
CHECK_DEADLOCK FALSE
