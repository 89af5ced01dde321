\* The list changes once and one node goes down.
CONSTANTS
    n1 = n1  n2 = n2  c1 = c1  c2 = c2  u1 = u1
    Nodes = {n1, n2}
    ClusterHost = ClusterHost
    Clients = {c1, c2}
    Urls = {u1}
    Hash <- MCHash
    Lists <- SomeLists
    None = None
    StartTries = 1
    MaxPublishes = 1
    MaxCrashes = 1
SPECIFICATION Spec
INVARIANTS
    AtMostOneRedirect
PROPERTIES
    RefusedOnlyOnDisagreement
    ServedTogether
    AllServed
