------------------------- MODULE LifecycleInvariant -------------------------
(***************************************************************************)
(* The strengthening that makes the safety invariants of DocumentLifecycle *)
(* inductive: what a request in progress knows, who holds a job's advisory *)
(* lock, and how job, version and source rows stand to each other.         *)
(***************************************************************************)
EXTENDS DocumentLifecycle

Attempting == {"claim", "work", "publish"}
DeletionAttempt == {"delClaim", "delFiles"}

(* A request between its steps names a job; a reindex has loaded an active *)
(* version.                                                                *)
RequestsNamed ==
    \A c \in Clients :
        /\ request[c].step # "idle" => request[c].job \in AllJobs
        /\ request[c].step = "loaded" =>
            /\ request[c].job \in Jobs
            /\ request[c].op = "initial_ingestion" => request[c].job = Initial
            /\ request[c].op = "reindex" => request[c].active \in Jobs

(* Whoever is between claim and publication holds the job's advisory lock. *)
LockHeld ==
    \A w \in Workers : worker[w].step \in Attempting =>
        Job(w) \in Jobs /\ lock[Job(w)] = w

(* The identity of an uncommitted request has no row yet, and no other     *)
(* request uses it.                                                        *)
FreshRequests ==
    \A c \in Clients : request[c].step = "loaded" =>
        /\ job[request[c].job].status = "none"
        /\ \A d \in Clients : request[d].step = "loaded"
                /\ request[d].job = request[c].job => d = c

(* A version and a chunk set appear with or after their job row, and a job *)
(* row never outlives the version it points to.                            *)
RowsLinked ==
    \A j \in Jobs :
        /\ job[j].status = "none" => ~VersionRow(j) /\ j \notin chunks
        /\ JobRow(j) => VersionRow(job[j].ver)

(* A deletion is processed only once it has been accepted.                 *)
DeletionAccepted ==
    \A w \in Workers : worker[w].step \in DeletionAttempt =>
        job[Deletion].status # "none"

(* Until then a stored source stays for the request that stored it.        *)
StoredForRequest ==
    job[Deletion].status = "none" =>
        \A c \in Clients : request[c].step = "loaded" /\ request[c].op # "reindex"
            => request[c].job \in files

(* A request that does not know whether it committed did: its job has a    *)
(* row.                                                                    *)
UnsureCommitted ==
    \A c \in Clients : request[c].step = "unsure" =>
        request[c].job \in Jobs /\ job[request[c].job].status # "none"

TypeInv == TypeOK /\ RequestsNamed /\ LockHeld

SourceInv ==
    FreshRequests /\ UnsureCommitted /\ DeletionAccepted /\ StoredForRequest
    /\ CommittedSourceKept

IInv ==
    /\ TypeInv
    /\ RowsLinked /\ PointersResolve /\ DeletedIsUnsearchable
    /\ SucceededIsIndexed /\ OneLifecycleOperation
    /\ SourceInv

(* What keeps service moving forward.  An upload or replacement has ended  *)
(* when it was published, or given up once.                                *)
Ended(j) == job[j].status = "succeeded" \/ version[j].failed

(* Only a reindex works on another job's version, and only an upload is    *)
(* no lifecycle job.                                                       *)
JobsKnown ==
    \A j \in Jobs :
        /\ job[j].op # "reindex" => job[j].ver = j
        /\ job[j].status # "none" /\ j # Initial => LifecycleJob(j)

(* Rows are purged by a deletion only, and no version belongs to a reindex.*)
VersionsOwned ==
    \A j \in Jobs :
        /\ job[j].status # "purged"
        /\ job[j].status = "none" \/ VersionRow(j) \/ j = Initial => job[j].op # "reindex"

(* The numbers below next_version_number are taken, so a request whose     *)
(* loaded number is not is the newest.                                     *)
NumbersKnown ==
    /\ doc.next >= 2
    /\ \A n \in 2 .. doc.next - 1 : NumberTaken(n)
    /\ \A c \in Clients :
        request[c].step = "loaded" /\ request[c].op = "replacement_ingestion"
            => request[c].next \in 2 .. doc.next
    /\ \A u \in Jobs : VersionRow(u) => version[u].number < doc.next

(* A version that has not ended keeps the slot of uq_processing_jobs, so   *)
(* no newer one can have been inserted.                                    *)
UnendedIsNewest ==
    \A j \in Jobs : job[j].op # "reindex" /\ VersionRow(j) /\ ~Ended(j) =>
        /\ job[j].status \in ActiveJobStatus /\ version[j].status # "active"
        /\ \A u \in Jobs : VersionRow(u) => version[u].number <= version[j].number

(* Nothing replaces or reindexes a document before its upload has ended.   *)
UploadEndsFirst ==
    /\ \A j \in Jobs \ {Initial} : job[j].status # "none" => Ended(Initial)
    /\ \A c \in Clients : request[c].step = "loaded" /\ request[c].op # "initial_ingestion"
            => Ended(Initial)

ServedHasEnded == \A v \in Jobs : doc.active = v => Ended(v)
FailedHasRow == \A v \in Jobs : version[v].failed => VersionRow(v)

(* No attempt claims a job that has succeeded; and a failure that found    *)
(* its version active writes nothing that was not written before.          *)
ReadsOfEnded ==
    \A w \in Workers : Job(w) \in Jobs =>
        /\ worker[w].step = "claim" => job[Job(w)].status # "succeeded"
        /\ worker[w].step = "failCommit" /\ worker[w].snap.ver = "active" =>
            /\ JobRow(Job(w))
            /\ job[Job(w)].op # "reindex" =>
                    worker[w].snap.job = "succeeded" \/ version[Job(w)].failed

ForwardInv ==
    job[Deletion].status = "none" =>
        /\ JobsKnown /\ VersionsOwned /\ NumbersKnown /\ UnendedIsNewest
        /\ UploadEndsFirst /\ ServedHasEnded /\ FailedHasRow /\ ReadsOfEnded
==============================================================================
