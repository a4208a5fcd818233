CONSTANTS
    s1 = s1  s2 = s2
    e1 = e1  e2 = e2  e3 = e3  o1 = o1  o2 = o2
    written = written  edited = edited
    Streams = {s1, s2}
    Events = {e1, e2, o1, o2}
    Data = {written, edited}
    Written = written
    Edited = edited
    p1 = p1  p2 = p2
    Procs = {p1}
    Verifiers = {p1}
    OldStores <- OnlyUpgraded
    CommitFailures = {"rolled_back", "left_open"}
    MaxDamage = 2
SPECIFICATION FairDamageSpec
INVARIANTS VerifyCatchesDamage NoFalseAlarm
PROPERTY LockReleased
CHECK_DEADLOCK FALSE
