CONSTANTS
    w1 = w1  w2 = w2  p1 = p1  p2 = p2  t1 = t1  t2 = t2  t3 = t3
    Workers <- MCWorkers
    Producers <- MCProducers
    Tasks <- MCTasks
SPECIFICATION MCSpec
INVARIANTS
    HandOver
    NoTaskStranded
    BucketsAreSound
PROPERTIES
    DestructorReturns
    ImplementsTaskScheduler
    ImplementsLruOrder
