SPECIFICATION FairSpec
CONSTANTS
    here = here
    there = there
    Instances = {here, there}
    Datasets = {"uls"}
    StaleAfter = 1
    RetryAfter = 1
    RenewAfter = 1
    Stalls = FALSE
    MaxCuts = 1
INVARIANT OneRefreshAtATime
PROPERTY LastUpdatedIsTrue
PROPERTY DueIsTried
PROPERTY RequestStands
