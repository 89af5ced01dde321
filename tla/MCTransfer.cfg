SPECIFICATION FairSpec
CHECK_DEADLOCK FALSE
CONSTANTS
    A = A
    B = B
    a1 = a1
    a2 = a2
    b1 = b1
    ping = ping
    pong = pong
    spent = spent
    forged = forged
    Null = Null
    Sessions = {A, B}
    Conns = {a1, a2, b1}
    SessionOf <- MCSessionOf
    Transfers = {ping, pong, spent, forged}
    From <- MCFrom
    To <- MCTo
    Ttl <- MCTtl
    Genuine = {ping, pong, spent}
INVARIANTS
    
    AnswersAreRight
PROPERTIES
    CirculationEnds
