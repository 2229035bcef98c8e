SPECIFICATION FairSpec
CONSTANTS
    s1 = s1  s2 = s2  t1 = t1  t2 = t2  t3 = t3  t4 = t4
    i1 = i1  i2 = i2  i3 = i3  i4 = i4  i5 = i5
    Subscribers = {s1}
    Tasks = {t1, t2, t3}
    To <- Targets
    Sizes <- SomeSizes
    Workers = 2
    Addresses = {i1, i2, i3, i4, i5}
    NoSemaphore = NoSemaphore
    Unloaded = Unloaded
    DefaultRetries = 1
    MaxEdits = 2
    MaxRestarts = 1
INVARIANTS TypeOK SlotPerPost LimitHonoured
PROPERTIES Completes
