CONSTANTS
    Jobs = {j1, j2, j3}
    Initial = j1
    Deletion = del
    Workers = {w1, w2}
    Clients = {c1}
    None = none
    MaxRetries = 1
    Requests = {"initial_ingestion", "replacement_ingestion", "reindex", "document_deletion"}
    Disturbances = {"crash", "redeliver", "kill", "api"}
    MaxFaults = 1
    MaxErrors = 2
SPECIFICATION Spec
SYMMETRY Symmetry
INVARIANTS
    TypeOK
    PointersResolve
    DeletedIsUnsearchable
    OneLifecycleOperation
    SucceededIsIndexed
    OneProcessorPerJob
PROPERTIES
    ServiceContinues
    ActivationMovesForward
CHECK_DEADLOCK FALSE
