SPECIFICATION Spec
CONSTANTS
    e1 = e1  e2 = e2  e3 = e3  c1 = c1  p1 = p1  p2 = p2
    NotStored = NotStored  Nobody = Nobody  NoID = NoID
    Events = {e1, e2, e3}
    Supplied = {0}
    Publishers = {p1, p2}
    Channels = {c1}
    BufferSize = 1
    MaxMessages = 3
    noFilter = noFilter  order = order  paid = paid
    Filters = {noFilter, order, paid}
    NoFilter = noFilter
    Filter <- OneFilter
    Selected <- ByQuery
    Streamed <- ByStream
    Link <- ByLink
    eventsPerPage = 1
    MaxRestarts = 1
INVARIANTS TypeOK NoGap PagesCover
PROPERTIES NeverHeldUp
