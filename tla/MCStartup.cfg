\* Two nodes, one step or process that fails, and one request to update.
\* The system rests when no node is left.
CHECK_DEADLOCK FALSE
CONSTANTS
    n1 = n1  n2 = n2
    Request = Request
    Nodes = {n1, n2}
    Role = "CellServer"
    Stage = "dev"
    Deployments <- AllDeployments
    StartTries = 2
    MaxFailures = 1
    MaxRequests = 1
SPECIFICATION StartupSpec
INVARIANT ServersAreFound
PROPERTIES
    RecordsAreUnique
    SuccessIsExact
    RunningKeepsRecords
    NodeServes
