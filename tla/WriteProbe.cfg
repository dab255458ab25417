SPECIFICATION FairSpec
CONSTANTS
    Deadline = 2
    Cap = 2
    Grace = 1
INVARIANTS NoSilentOrphan TheirsSurvives VerdictIsTrue NoFalseAlarm
PROPERTIES DoctorEnds
CHECK_DEADLOCK FALSE
