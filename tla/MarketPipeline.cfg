SPECIFICATION Spec
CONSTANTS
    consumer = consumer
    request = request
    closed = closed
    Callers = {consumer, request}
    Times <- MCTimes
    BucketOf <- MCBucketOf
    NoBucket = closed
    Absent = Absent
    MaxTicks = 3
    Interruptions = {"cancel", "crash"}
INVARIANTS  BarsFollowEventTime 
PROPERTIES KeepsBarLog EndedBarsAreEvaluated
