\* A node started with the command of README.md and nothing in its environment.
CHECK_DEADLOCK FALSE
CONSTANTS
    n1 = n1  n2 = n2
    Request = Request
    Nodes = {n1}
    Role = "CellServer"
    Stage = "dev"
    Deployments <- OnlyReadme
    StartTries = 2
    MaxFailures = 0
    MaxRequests = 0
SPECIFICATION StartupSpec
PROPERTY CommandServes
