SPECIFICATION FairSpec
CONSTANTS
    Timeout = 6
    ExplainCap = 9
    ExplainGrace = 2
    ExplainReserve = 1
    CloseGrace = 2
INVARIANTS NothingQueued OnlyReadOnly ArmedRight FailOpenWorks
PROPERTIES PlanEndsInTime KeepsPromise SessionEnds
