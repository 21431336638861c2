CONSTANTS
    r1 = r1  r2 = r2
    Requests <- MCRequests
    Handles = 2
    Groups = 2
    Quota <- MCQuota
    Filters <- MCFilters
    PriorityOf <- MCPriorityOf
    Refusals = 1
SPECIFICATION Spec
INVARIANTS
    QueueIsKept
PROPERTIES
    SentIsAnswered
    StopEnds
