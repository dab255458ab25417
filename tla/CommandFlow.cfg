SPECIFICATION Spec
CONSTANTS
    Absent = Absent
    Unread = Unread
    DefaultMaxCost = 2
    DefaultMaxRows = 3
    Real <- MCReal
    Inputs <- MCInputs
    Plans <- MCPlans
INVARIANTS ScopeHolds PolicyIgnoresEnvironment TouchedIsRecorded RawIsWithheld ExplainForetellsQuery GrownStaysRefused
