CONSTANTS
    p = p  q = q  a = a  b = b  h = h  n = n  x = x  k1 = k1  k2 = k2
    Procs = {p}
    Watching = {p}
    Requests = {b}
    Clicks = {k1, k2}
    InboxCapacity = 4
    StoreErrors = FALSE
    MaxStarts = 1
    MaxNoise = 0
    Owner <- Owners
    Corr <- Corrs
    Channel <- Routes
    Contract <- Verdicts
    Forced <- Marked
SPECIFICATION Spec
INVARIANT OneVerdict
CHECK_DEADLOCK FALSE
