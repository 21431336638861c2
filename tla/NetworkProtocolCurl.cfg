\* Three requests share a handle; an option of one of them may be refused.
CONSTANTS
    NoRequest = NoRequest
    Requests = {r1, r2, r3}
    OptionFails = {r3}
    Handles = 1
    Cancels = 1
    MaxRetries = 1
SPECIFICATION Spec
INVARIANTS
    HandlesAreKept
PROPERTIES
    
    SentIsAnswered
