\* Two sessions compete for one slot, one place and one url.
\* The server rests when no request, callback or message is left.
CHECK_DEADLOCK FALSE
CONSTANTS
    c1 = c1  c2 = c2  c3 = c3
    s1 = s1  s2 = s2
    u1 = u1
    Null = Null
    Clients = {c1, c3}
    Sessions = {s1, s2}
    Urls = {u1}
    Removers <- MCRemovers
    SessionOf <- MCSessionOf
    UrlOf <- MCUrlOf
    MaxConnections = 1
    MaxByUrl = 1
    CounterWrap = 2
    Handlers = {"peer"}
    SerialSessions = TRUE
    OneAtATime = TRUE
SPECIFICATION EntranceSpec
INVARIANTS
    DeadIsNoticed
    RefusedLeavesNothing

    
