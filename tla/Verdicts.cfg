SPECIFICATION Spec
CONSTANTS
    Builtin <- TheBuiltin
    Family <- TheFamily
    Sampling <- TheSampling
    Tables <- TheTables
    Views <- TheViews
    SqlPolicies <- TheSqlPolicies
    Statements <- TheStatements
    Methods <- TheMethods
    StageOps <- TheStageOps
    Operators <- TheOperators
    Catalogs <- TheCatalogs
    MaxDepth = 9
    Stored <- TheStored
    MongoPolicies <- TheMongoPolicies
    MongoCalls <- TheMongoCalls
    RedisPolicies <- TheRedisPolicies
    RedisLines <- TheRedisLines
    Served <- TheServed
    RowLimit = 2
    Matching = {0, 1, 2, 3}
INVARIANTS SqlOnlyReads SqlProtectedStaysInside SqlStricterIsNarrower MongoOnlyReads MongoProtectedStaysInside CutIsFlagged RedisOnlyReads
CHECK_DEADLOCK FALSE
