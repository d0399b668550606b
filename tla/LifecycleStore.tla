--------------------------- MODULE LifecycleStore ---------------------------
(***************************************************************************)
(* The shared state of the document lifecycle of one logical document: the *)
(* PostgreSQL rows, the source objects on disk, the Redis queue, the       *)
(* advisory locks, and the local state of the worker processes and of the  *)
(* API requests.  The API, the ingestion worker, the deletion worker and   *)
(* the broker are modules over this state; DocumentLifecycle composes them.*)
(*                                                                         *)
(* One identity names three rows: an upload or a replacement inserts a     *)
(* version, its first generation and its job in one transaction, a reindex *)
(* inserts a generation and its job.  So the job j stands for its own      *)
(* generation, and the version of an upload or replacement has the name of *)
(* the job that ingests it.                                                *)
(***************************************************************************)
EXTENDS Integers, FiniteSets

CONSTANTS
    Jobs,           \* ingestion jobs (uuid4 values, never reused)
    Initial,        \* the job of the upload that creates the document
    Deletion,       \* the document_deletion job
    Workers,        \* Celery worker processes
    Clients,        \* concurrent API requests
    None,           \* SQL NULL, and the holder of a free lock
    MaxRetries,     \* settings.celery_max_retries
    Requests,       \* operations the clients of a run ask for
    Disturbances,   \* kinds of fault a run admits
    MaxFaults,      \* bound on the faults of a behaviour
    MaxErrors       \* bound on its parser, provider, storage and SQL errors

FaultKind ==
    {"crash", "kill", "redeliver", "publish", "retry", "broker", "api", "republish",
     "commit"}

Operation == {"initial_ingestion", "replacement_ingestion", "reindex",
              "document_deletion"}

ASSUME JobsAssumption ==
    Initial \in Jobs /\ Deletion \notin Jobs /\ None \notin Jobs \cup Workers
ASSUME BoundsAssumption ==
    MaxRetries \in Nat /\ MaxFaults \in Nat /\ MaxErrors \in Nat
ASSUME EnvironmentAssumption ==
    Disturbances \subseteq FaultKind /\ Requests \subseteq Operation

VARIABLES
    doc,        \* the documents row: status, active_version_id, next_version_number
    version,    \* document_versions rows; status "none" is an absent row, and
                \* failed says that failed_at is set, which nothing clears
    generation, \* document_index_generations.status; "none" is an absent row
    chunks,     \* generations with source units and chunks in the index
    job,        \* processing_jobs rows; "none" not yet inserted, "purged" deleted
    files,      \* versions whose source object is in storage
    queue,      \* messages <<job, retries>> the broker holds
    lock,       \* pg_advisory_lock holder per ingestion job
    worker,     \* what each worker process is doing
    request,    \* what each API request is doing
    faults, errors

rows == <<doc, version, generation, chunks, job>>
vars == <<rows, files, queue, lock, worker, request, faults, errors>>

AllJobs == Jobs \cup {Deletion}

DocumentStatus ==
    {"none", "pending", "processing", "available", "failed", "deleting", "deleted"}
VersionStatus == {"none", "pending", "processing", "active", "superseded", "failed"}
JobStatus ==
    {"none", "queued", "running", "retrying", "succeeded", "failed", "purged"}
ActiveJobStatus == {"queued", "running", "retrying"}

Message == AllJobs \X (0 .. MaxRetries)

(* The attributes a transaction read; the ORM writes back what it changed. *)
Snapshot == [job : JobStatus, ver : VersionStatus, gen : VersionStatus,
             doc : DocumentStatus, active : Jobs \cup {None}]

WorkerStep == {"idle", "claim", "work", "publish", "failRead", "failCommit",
               "retry", "delClaim", "delFiles", "done"}
RequestStep == {"idle", "loaded", "committed", "unsure", "failed"}

NoVersion == [status |-> "none", gen |-> None, number |-> 0, failed |-> FALSE]
NoSnapshot == [job |-> "none", ver |-> "none", gen |-> "none", doc |-> "none",
               active |-> None]
IdleWorker == [step |-> "idle", msg |-> <<Deletion, 0>>, snap |-> NoSnapshot,
               keys |-> {}]
IdleRequest == [step |-> "idle", op |-> "document_deletion", job |-> None,
                active |-> None, next |-> 0]

DocumentRecord ==
    [status : DocumentStatus, active : Jobs \cup {None}, next : Nat]
VersionRecord ==
    [status : VersionStatus, gen : Jobs \cup {None}, number : Nat, failed : BOOLEAN]
JobRecord == [status : JobStatus, op : Operation, ver : Jobs]
WorkerRecord ==
    [step : WorkerStep, msg : Message, snap : Snapshot, keys : SUBSET Jobs]
RequestRecord ==
    [step : RequestStep, op : Operation, job : AllJobs \cup {None},
     active : Jobs \cup {None}, next : Nat]

StoreTypeOK ==
    /\ doc \in DocumentRecord
    /\ version \in [Jobs -> VersionRecord]
    /\ generation \in [Jobs -> VersionStatus]
    /\ chunks \in SUBSET Jobs
    /\ job \in [AllJobs -> JobRecord]
    /\ files \in SUBSET Jobs
    /\ queue \in SUBSET Message
    /\ lock \in [Jobs -> Workers \cup {None}]
    /\ worker \in [Workers -> WorkerRecord]
    /\ request \in [Clients -> RequestRecord]
    /\ faults \in Nat
    /\ errors \in Nat

(* The document starts without a row: the upload inserts it.               *)
Init ==
    /\ doc = [status |-> "none", active |-> None, next |-> 2]
    /\ version = [v \in Jobs |-> NoVersion]
    /\ generation = [g \in Jobs |-> "none"]
    /\ chunks = {}
    /\ job = [j \in AllJobs |->
                [status |-> "none",
                 op |-> IF j = Deletion THEN "document_deletion"
                        ELSE "initial_ingestion",
                 ver |-> IF j = Deletion THEN Initial ELSE j]]
    /\ files = {}
    /\ queue = {}
    /\ lock = [j \in Jobs |-> None]
    /\ worker = [w \in Workers |-> IdleWorker]
    /\ request = [c \in Clients |-> IdleRequest]
    /\ faults = 0
    /\ errors = 0

-----------------------------------------------------------------------------
(* Budgets.  A fault or an error is possible only while its bound lasts.   *)
Fault(kind) == kind \in Disturbances /\ faults < MaxFaults /\ faults' = faults + 1
Error == errors < MaxErrors /\ errors' = errors + 1

JobRow(j) == job[j].status \notin {"none", "purged"}
VersionRow(v) == version[v].status # "none"
Unreadable == {"deleting", "deleted"}

(* uq_processing_jobs_active_lifecycle: a second replacement or reindex in *)
(* an active status.                                                       *)
LifecycleJob(j) == job[j].op \in {"replacement_ingestion", "reindex"}
LifecycleBusyUnlessRetrying(others) ==  \* mutant: "retrying" left out
    \E k \in others : LifecycleJob(k) /\ job[k].status \in {"queued", "running"}
LifecycleBusy(others) ==
    \E k \in others : LifecycleJob(k) /\ job[k].status \in ActiveJobStatus

(* SQLAlchemy's unit of work: an attribute is written only when its new    *)
(* value differs from the one this session loaded.                         *)
Flushed(current, loaded, new) == IF loaded = new THEN current ELSE new
==============================================================================
