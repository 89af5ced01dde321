\* One session enters, is lost, and enters again; both callbacks fire.
\* The server rests when no request, callback or message is left.
CHECK_DEADLOCK FALSE
CONSTANTS
    c1 = c1  c2 = c2  c3 = c3
    s1 = s1  s2 = s2
    u1 = u1
    Null = Null
    Clients = {c1, c2}
    Sessions = {s1, s2}
    Urls = {u1}
    Removers <- MCRemovers
    SessionOf <- MCSessionOf
    UrlOf <- MCUrlOf
    MaxConnections = 2
    MaxByUrl = 1
    CounterWrap = 4
    Handlers = {"ice", "peer"}
    SerialSessions = TRUE
    OneAtATime = TRUE
SPECIFICATION EntranceFairSpec
PROPERTIES
    
    LostIsReleased
    EnterReturns
