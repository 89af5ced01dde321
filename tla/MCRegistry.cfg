\* Both limits can be reached: two sessions want the one place on u1, and three
\* want the two slots.
CONSTANTS
    c1 = c1  c2 = c2  c3 = c3  c4 = c4
    s1 = s1  s2 = s2  s3 = s3
    u1 = u1  u2 = u2  u3 = u3
    Null = Null
    Clients = {c1, c2, c3, c4}
    Sessions = {s1, s2, s3}
    Urls = {u1, u2, u3}
    Removers = {t1, t2}
    SessionOf <- SharedSession
    UrlOf <- OnThreeUrls
    MaxConnections = 2
    MaxByUrl = 1
    CounterWrap = 4
    SerialSessions = TRUE
SPECIFICATION FairSpec
INVARIANTS
    IndInv
    ConnectionCap
    UrlCap
    ViewsAgree
    RemovedOnce
PROPERTIES
    ImplementsAdmission
    CallsReturn
