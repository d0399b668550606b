-------------------------- MODULE DocumentLifecycle --------------------------
(***************************************************************************)
(* The document lifecycle: API requests, Celery workers, the broker and    *)
(* the reconciler over one document's rows and source objects.             *)
(***************************************************************************)
EXTENDS LifecycleApi, IngestionWorker, DeletionWorker, Broker

WorkerStepOf(w) == TaskStep(w) \/ IngestionStep(w) \/ DeletionStep(w)

Next ==
    \/ \E c \in Clients : ApiStep(c)
    \/ \E w \in Workers : WorkerStepOf(w)
    \/ BrokerStep

Spec == Init /\ [][Next]_vars

(* Workers keep consuming and finish what they start; the queue is a Redis *)
(* list, first in first out, so no message is passed over for ever;        *)
(* requests end; and the operator runs the reconciler again and again.     *)
Delivery(m) == \E w \in Workers : Begin(w, m) \/ BeginDeletion(w, m)

Fairness ==
    /\ \A w \in Workers : WF_vars(WorkerStepOf(w))
    /\ \A m \in Message : SF_vars(Delivery(m))
    /\ \A c \in Clients : WF_vars(CommitUpload(c) \/ CommitReplacement(c)
            \/ CommitReindex(c) \/ Refuse(c) \/ DiscardUnsure(c) \/ PublishJob(c))
    /\ \A j \in AllJobs : WF_vars(RepublishStale(j))

FairSpec == Spec /\ Fairness

-----------------------------------------------------------------------------
(* The type invariant; it includes that no message carries more retries    *)
(* than Celery's budget and that ids refer to the rows' own kinds.         *)
TypeOK == StoreTypeOK

(* What retrieval joins on: the active version exists, its active          *)
(* generation is one of its own generations and its chunks are there, so a *)
(* search never follows a pointer to a half-published or purged set.       *)
PointersResolve ==
    \A v \in Jobs : doc.active = v =>
        /\ VersionRow(v)
        /\ version[v].gen # None
        /\ version[v].gen \in chunks
        /\ job[version[v].gen].ver = v

(* Nothing of a deleted document is left for retrieval to find, whatever   *)
(* workers were still processing it when it was purged.                    *)
DeletedIsUnsearchable ==
    doc.status = "deleted" => doc.active = None /\ chunks = {}

ToldOfError(c, v) == request[c].step = "failed" /\ request[c].job = v

(* The source of a committed version stays in storage until a deletion is  *)
(* requested, whatever requests fail and clean up meanwhile.  The only     *)
(* exception is a version whose own request lost the acknowledgement of    *)
(* its commit, and whose client was told that it had failed.               *)
CommittedSourceKept ==
    job[Deletion].status = "none" =>
        \A v \in Jobs : VersionRow(v) =>
            v \in files \/ \E c \in Clients : ToldOfError(c, v)

(* At most one replacement or reindex of the document is under way, across *)
(* requests, retries and duplicate deliveries.                             *)
OneLifecycleOperation ==
    \A j, k \in Jobs :
        /\ LifecycleJob(j) /\ job[j].status \in ActiveJobStatus
        /\ LifecycleJob(k) /\ job[k].status \in ActiveJobStatus
        => j = k

(* A job reported as succeeded has its chunks in the index.                *)
SucceededIsIndexed ==
    \A j \in Jobs : job[j].status = "succeeded" => j \in chunks

(* Two deliveries of one ingestion job never work on it at the same time.  *)
OneProcessorPerJob ==
    \A u, w \in Workers :
        /\ worker[u].step \in {"claim", "work", "publish"}
        /\ worker[w].step \in {"claim", "work", "publish"}
        /\ Job(u) = Job(w)
        => u = w
==============================================================================
