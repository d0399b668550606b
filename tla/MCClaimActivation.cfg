CONSTANTS
    Jobs = {j1}
    Initial = j1
    Deletion = del
    Workers = {w1}
    Clients = {c1}
    None = none
    MaxRetries = 1
    Requests = {"initial_ingestion", "document_deletion"}
    Disturbances = {}
    MaxFaults = 0
    MaxErrors = 0
SPECIFICATION Spec
SYMMETRY Symmetry
PROPERTIES
    DeletionBlocksActivation
CHECK_DEADLOCK FALSE
