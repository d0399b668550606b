CONSTANTS
    Jobs = {j1, j2, j3}
    Initial = j1
    Deletion = del
    Workers = {w1, w2}
    Clients = {c1, c2}
    None = none
    MaxRetries = 1
    Requests = {"initial_ingestion", "replacement_ingestion", "reindex", "document_deletion"}
    Disturbances = {"publish", "retry", "broker", "commit"}
    MaxFaults = 1
    MaxErrors = 2
SPECIFICATION Spec
SYMMETRY Symmetry
INVARIANTS
    StatusesAgree
    CommittedSourceKept
    NoOrphanSource
PROPERTIES
    ImplementsServedDocument
    LegalCandidateSteps
CHECK_DEADLOCK FALSE
