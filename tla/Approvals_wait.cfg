CONSTANTS
    p = p  q = q  a = a  b = b  h = h  n = n  x = x  k1 = k1  k2 = k2
    Procs = {p}
    Watching = {p}
    Requests = {b, n}
    Clicks = {k1}
    InboxCapacity = 2
    StoreErrors = FALSE
    MaxStarts = 2
    MaxNoise = 1
    Owner <- Owners
    Corr <- Corrs
    Channel <- Routes
    Contract <- Verdicts
    Forced <- Marked
SPECIFICATION FairSpec
INVARIANTS TypeOK ApprovedByHuman DecisionHeard AuditCloses
PROPERTIES WaitEnds ExpiredIsSealed
CHECK_DEADLOCK FALSE
