CONSTANTS
    a = a  b = b  c = c  d = d  o = o  s = s  t = t
    Local = {a, b}
    Remote = {c}
    Old <- OneOld
    Subs = {t}
    Capacity <- Capacities
    Wants <- Filters
    RingCapacity = 1
    BatchSize = 1
    MaxBatches = 2
    Serial = TRUE
    CursorErrors = TRUE
SPECIFICATION FairSpec
INVARIANTS TypeOK NothingSkipped DeliveryBound
PROPERTY AtLeastOnce
CHECK_DEADLOCK FALSE
