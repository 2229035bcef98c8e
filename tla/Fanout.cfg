SPECIFICATION FairSpec
CONSTANTS
    e1 = e1  s1 = s1  s2 = s2  w1 = w1  w2 = w2  r1 = r1
    NoLimit = NoLimit  NoRun = NoRun  NoTracker = NoTracker  NoTask = NoTask
    Events = {e1}
    Subscribers = {s1, s2}
    Subscriptions = {1, 2, 3, 4, 5}
    Tables = {{1, 2, 3, 4, 5}}
    MaxChanges = 0
    Owner <- FanoutOwner
    Pattern <- FanoutPattern
    Filter <- FanoutFilter
    Limit <- FanoutLimit
    DefaultRetries = 1
    MaxParallel <- FanoutParallel
    Known = {s1, s2}
    Workers = {w1, w2}
    Runs = {r1}
    ChanSize = 1
    QueueSize = 1
    DbMayFail = FALSE
    CacheMayFail = FALSE
    MaxStops = 1
    MaxCrashes = 1
INVARIANTS TypeOK HeldIsResumable FailedMeansExhausted OneTaskPerSubscriber NoRedelivery
    AttemptsBounded
PROPERTIES FinalIsFinal Settles StopEnds
