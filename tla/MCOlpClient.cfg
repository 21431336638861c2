CONSTANTS
    c1 = c1  c2 = c2
    r1 = r1  r2 = r2  r3 = r3
    Caller = Caller
    MaxAttempts = 3
    Cancellers <- MCCancellers
    Settings <- MCSettings
    Requests <- MCRequests
    Calls <- MCCalls
    Proxies <- MCProxies
    NoProxy = NoProxy
    NoRequest = NoRequest
    token_cache_limit = 1
    Lifetime = 2
    MaxTime = 3
SPECIFICATION MCSpec
INVARIANTS
    AttemptsAreCancelled
    
    ProxyIsUsed
    KeptTokenIsFresh
PROPERTIES
    ImplementsRequest
    
CHECK_DEADLOCK FALSE
