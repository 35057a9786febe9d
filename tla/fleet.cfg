\* Two processes start, stop and restart two generations of a service with one slot;
\* one process is killed.
CONSTANTS
    k1 = k1  k2 = k2  s1 = s1  s2 = s2
    Commands = {k1, k2}
    Slots = {s1}
    MaxGeneration = 2
    MaxCrashes = 1
SPECIFICATION FairSpec
INVARIANTS OneService EndedIsDrained AnsweredStopHasEnded
PROPERTIES MetadataMovesForward StopIsHeard
CHECK_DEADLOCK FALSE
