SPECIFICATION FairSpec
CONSTANTS
    w1 = w1
    w2 = w2
    w3 = w3
    Writers = {w1, w2, w3}
    Parts = 2
    Faults = {"denied", "disk_full", "stuck", "stdout", "kill"}
    NoWriter = NoWriter
INVARIANTS NeverMixed FragmentsExplained ShownIsRecorded
PROPERTIES ImplementsTrail EveryCommandEnds
