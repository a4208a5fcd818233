CONSTANTS
    s1 = s1  s2 = s2
    e1 = e1  e2 = e2  e3 = e3  o1 = o1  o2 = o2
    written = written  edited = edited
    Streams = {s1, s2}
    Events = {e1, e2}
    Data = {written, edited}
    Written = written
    Edited = edited
    p1 = p1  p2 = p2
    Procs = {p1, p2}
    Verifiers = {p2}
    OldStores <- OnlyFresh
    CommitFailures = {"rolled_back", "left_open"}
    MaxDamage = 0
SPECIFICATION Spec
INVARIANT NoFalseAlarm
CHECK_DEADLOCK FALSE
