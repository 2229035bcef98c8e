SPECIFICATION Spec
CONSTANTS
    e1 = e1  s1 = s1  s2 = s2  s3 = s3  w1 = w1  w2 = w2  r1 = r1
    NoLimit = NoLimit  NoRun = NoRun  NoTracker = NoTracker  NoTask = NoTask
    Events = {e1}
    Subscribers = {s1, s2, s3}
    Subscriptions = {1, 2, 3, 4}
    Tables <- ChurnTables
    MaxChanges = 1
    Owner <- ChurnOwner
    Pattern <- ChurnPattern
    Filter <- ChurnFilter
    Limit <- ChurnLimit
    DefaultRetries = 1
    MaxParallel <- ChurnParallel
    Known = {s1, s2}
    Workers = {w1, w2}
    Runs = {r1}
    ChanSize = 1
    QueueSize = 1
    DbMayFail = TRUE
    CacheMayFail = TRUE
    MaxStops = 1
    MaxCrashes = 1
INVARIANTS DeliveredToAll
PROPERTIES ImplementsContract
SYMMETRY Alike
