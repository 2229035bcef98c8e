SPECIFICATION ReplaySpec
CONSTANTS
    e1 = e1  e2 = e2  s1 = s1  s2 = s2  s3 = s3  s4 = s4
    w1 = w1  w2 = w2  r1 = r1  r2 = r2  r3 = r3
    NoLimit = NoLimit  NoRun = NoRun  NoTracker = NoTracker  NoTask = NoTask
    Events = {e1, e2}
    Subscribers = {s1, s2, s3, s4}
    Subscriptions = {1, 2, 3, 4, 5}
    Tables = {{1, 2, 3, 4, 5}}
    MaxChanges = 0
    Owner <- PipelineOwner
    Pattern <- PipelinePattern
    Filter <- PipelineFilter
    Limit <- PipelineLimit
    DefaultRetries = 1
    MaxParallel <- PipelineParallel
    Known = {s1, s2, s3}
    Workers = {w1, w2}
    Runs = {r1, r2, r3}
    ChanSize = 1
    QueueSize = 1
    g1 = g1
    NoReplay = NoReplay
    Goroutines = {g1}
    MaxReplays = 1
    DbMayFail = FALSE
    CacheMayFail = FALSE
    MaxStops = 2
    MaxCrashes = 0
PROPERTIES StopsDrained
SYMMETRY Alike
