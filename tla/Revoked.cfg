SPECIFICATION Spec
CONSTANTS
    k1 = k1  k2 = k2  s1 = s1  s2 = s2  s3 = s3  s4 = s4  t1 = t1
    all = all  r1 = r1  h1 = h1  h2 = h2
    Nothing = Nothing  Absent = Absent
    Characters = {"a", "b", "*", "_"}
    Secrets = {k1, k2}
    Stored = {k1}
    Subjects <- OneSubject
    SubjectPatterns <- OnePattern
    PropertyLists = {all}
    Subs = {s1, s2, s3, s4}
    Host <- ConsoleHost
    Associated = {s3}
    Choices <- SomeChoices
    Tokens = {t1}
    AdminConfigured = TRUE
    Readers = {r1}
    Handlers = {h1, h2}
    MaxRequests = 1
    MaxRestarts = 0
    DbMayFail = FALSE
INVARIANTS RevokedAtOnce
SYMMETRY Alike
