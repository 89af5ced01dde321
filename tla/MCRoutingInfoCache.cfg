\* Every client exchanges a bounded number of times and leaves once.
CHECK_DEADLOCK FALSE
CONSTANTS
    c1 = c1  c2 = c2  c3 = c3
    Clients = {c1, c2, c3}
    Interval = 2
    RoutingInfoMax = 2
    MaxExchanges = 2
    MaxTime = 4
SPECIFICATION Spec
INVARIANTS
    OwnInfoServed
    PurgedStayGone
PROPERTY RefreshesAreSpaced
SYMMETRY Symmetry
