SPECIFICATION PlanFairSpec
CONSTANTS
    Cids <- MCCids
    Contents <- MCContents
    Content <- MCContent
    NoContent = NoContent
    Serves <- MCServes
    Raw <- MCRaw
    Gateways = 2
    Concurrency = 2
    Budgets <- MCBudgets
    DefaultBudget = 8
    Targets <- MCTargets
    UploadCap = 2
    MaxFaults = 1
    MaxSessions = 3
CHECK_DEADLOCK FALSE
INVARIANT PlanNests
INVARIANT ClaimsAreWorked
INVARIANT DrainedIsPlanned
PROPERTY RunnerSettles
