CONSTANTS
    a = a  b = b  c = c  d = d  o = o  s = s  t = t
    Local = {a}
    Remote = {c, d}
    Old <- OneOld
    Subs = {s}
    Capacity <- Capacities
    Wants <- Filters
    RingCapacity = 2
    BatchSize = 2
    MaxBatches = 2
    Serial = FALSE
    CursorErrors = FALSE
SPECIFICATION Spec
INVARIANT NothingSkipped
CHECK_DEADLOCK FALSE
