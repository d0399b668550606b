CONSTANTS
    Jobs = {j1}
    Initial = j1
    Deletion = del
    Workers = {w1, w2}
    Clients = {c1}
    None = none
    MaxRetries = 1
    Requests = {"initial_ingestion", "document_deletion"}
    Disturbances = {"crash", "kill", "publish", "retry", "redeliver", "republish"}
    MaxFaults = 1
    MaxErrors = 1
SPECIFICATION FairSpec
PROPERTIES
    AcceptedWorkSettles
    DeletionIsCarriedOut
CHECK_DEADLOCK FALSE
