CONSTANTS
    r1 = r1  r2 = r2  r3 = r3
    None = None
    Requests <- MCRequests
    Keys <- MCKeys
    KeyOf <- MCKeyOf
SPECIFICATION Spec
INVARIANTS
    AtMostOneResponse
    RequestsShareOperation
PROPERTY
    AnsweredUnlessCancelled
