SPECIFICATION Spec
CONSTANTS
    Engines = {"sqlite", "postgres", "clickhouse", "mongodb", "redis"}
    Timeout = 4
    Second = 2
    Slack = 1
    Limit = 2
    NoReply = NoReply
    NoRecord = NoRecord
    NoAnswer = NoAnswer
INVARIANTS RunsOnceAndIsNamed AttemptsShare PartialIsFlagged UnjudgedIsFlagged RawStaysInside LogAgreesWithAnswer
