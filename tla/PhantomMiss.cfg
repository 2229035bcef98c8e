SPECIFICATION Spec
CONSTANTS
    u1 = u1  h1 = h1  h2 = h2  r1 = r1  r2 = r2  p1 = p1  p2 = p2  e1 = e1
    Nobody = Nobody
    Handlers = {h1, h2}
    Readers = {r1}
    Urls = {u1}
    Settings = {1, 2}
    Patterns = {p1, p2}
    Terms = {1, 2}
    Subjects = {e1}
    Matches <- MatchesE1
    Registrations <- Bodies
    Stored <- OneStored
    MaxRequests = 2
    DbMayFail = FALSE
PROPERTIES EmptyMeansNone
SYMMETRY Alike
