--------------------------- MODULE IngestionWorker ---------------------------
(***************************************************************************)
(* verify_original_task and process_job: take the job's advisory lock,     *)
(* claim the job in one transaction, verify, parse and embed outside any   *)
(* transaction, and publish the chunk set in a second transaction.         *)
(***************************************************************************)
EXTENDS WorkerProcess

(* The early returns of the first transaction: missing, stale, complete.   *)
ClaimStops(r) ==
    \/ r.job \in {"none", "purged", "succeeded"}
    \/ r.doc \in Unreadable \cup {"none"}
    \/ r.ver = "none" \/ r.gen = "none"

LockIgnored(j) == TRUE                               \* mutant: lock not tested
LockFree(j) == lock[j] = None

(* A worker takes the lock and reads; "already-running" is acknowledged    *)
(* without doing anything.                                                 *)
Begin(w, m) ==
    LET j == m[1]
        stops == ~LockFree(j) \/ ClaimStops(Read(j))
    IN  /\ At(w, "idle")
        /\ m \in queue
        /\ j # Deletion
        /\ queue' = queue \ {m}
        /\ lock' = IF LockFree(j) THEN [lock EXCEPT ![j] = w] ELSE lock
        /\ worker' = [worker EXCEPT ![w] =
                        [step |-> IF stops THEN "done" ELSE "claim",
                         msg |-> m,
                         snap |-> IF stops THEN NoSnapshot ELSE Read(j),
                         keys |-> {}]]
        /\ UNCHANGED <<rows, files, request, faults, errors>>

(* The claim is written by primary key, from what Begin read.              *)
ClaimedJob(w) == Flushed(job[Job(w)].status, worker[w].snap.job, "running")

(* The flush is refused when the row was deleted since, or when the job    *)
(* would be a second active replacement or reindex of the document.        *)
ClaimRefused(w) ==
    \/ ~JobRow(Job(w))
    \/ /\ LifecycleJob(Job(w))
       /\ ClaimedJob(w) \in ActiveJobStatus
       /\ LifecycleBusy(Jobs \ {Job(w)})

Claim(w) ==
    LET j == Job(w)
        r == worker[w].snap
        v == job[j].ver
    IN  /\ At(w, "claim")
        /\ ~ClaimRefused(w)
        /\ job' = [job EXCEPT ![j].status = ClaimedJob(w)]
        /\ version' = IF job[j].op = "reindex" THEN version
                      ELSE [version EXCEPT ![v].status =
                                Flushed(version[v].status, r.ver, "processing")]
        /\ generation' = [generation EXCEPT ![j] =
                                Flushed(generation[j], r.gen, "processing")]
        /\ doc' = IF r.active # None THEN doc
                  ELSE [doc EXCEPT !.status = Flushed(doc.status, r.doc, "processing")]
        /\ GotoWith(w, "work", NoSnapshot)
        /\ UNCHANGED <<chunks, files, queue, lock, request, faults, errors>>

ClaimFails(w) ==
    /\ At(w, "claim")
    /\ ClaimRefused(w)
    /\ Raise(w, "retry")
    /\ UNCHANGED <<rows, files, queue, request, faults, errors>>

(* Verification, parsing, chunking and embedding, outside transactions.    *)
Source(w) == job[Job(w)].ver

Prepare(w) ==
    /\ At(w, "work")
    /\ Source(w) \in files
    /\ Goto(w, "publish")
    /\ UNCHANGED <<rows, files, queue, lock, request, faults, errors>>

SourceMissing(w) ==
    /\ At(w, "work")
    /\ Source(w) \notin files
    /\ Goto(w, "failRead")
    /\ UNCHANGED <<rows, files, queue, lock, request, faults, errors>>

PermanentFailure(w) ==
    /\ At(w, "work")
    /\ Error
    /\ Goto(w, "failRead")
    /\ UNCHANGED <<rows, files, queue, lock, request, faults>>

(* An OSError or a transient provider error marks the job RETRYING and     *)
(* raises; a Retry-After beyond the retry budget gives up at once.  The    *)
(* mark is refused when a FAILED job, delivered again, would become a      *)
(* second active replacement or reindex.                                   *)
MarksRetrying(j) == JobRow(j) /\ job[j].status # "succeeded"
RetryingRefused(j) == MarksRetrying(j) /\ LifecycleJob(j) /\ LifecycleBusy(Jobs \ {j})

TransientFailure(w) ==
    LET j == Job(w)
    IN  /\ At(w, "work")
        /\ Error
        /\ \/ /\ RetryingRefused(j)
              /\ job' = job
              /\ Raise(w, "retry")
           \/ /\ ~RetryingRefused(j)
              /\ job' = IF MarksRetrying(j)
                        THEN [job EXCEPT ![j].status = "retrying"] ELSE job
              /\ \E step \in {"retry", "failRead"} : Raise(w, step)
        /\ UNCHANGED <<doc, version, generation, chunks, files, queue, request, faults>>

(* Publication, under the job's, the document's and the version's row lock.*)
PublicationStaleButReindexed(j) ==      \* mutant: reindex of a version not active
    \/ ~JobRow(j) \/ ~VersionRow(job[j].ver)
    \/ doc.status \in Unreadable
    \/ generation[j] # "processing"
    \/ job[j].status = "succeeded"
PublicationStale(j) ==
    \/ ~JobRow(j) \/ ~VersionRow(job[j].ver)
    \/ doc.status \in Unreadable
    \/ generation[j] # "processing"
    \/ job[j].op = "reindex" /\ doc.active # job[j].ver
    \/ job[j].status = "succeeded"

(* The previous generation of this version, and the previously active      *)
(* version, are superseded before the pointers move.                       *)
ActivatedGenerations(j) ==
    [g \in Jobs |-> IF g = j THEN "active"
                    ELSE IF g = version[job[j].ver].gen THEN "superseded"
                    ELSE generation[g]]
ActivatedVersionsNoPointer(j) ==        \* mutant: active_generation_id not set
    [v \in Jobs |->
        IF v = job[j].ver THEN [version[v] EXCEPT !.status = "active"]
        ELSE IF v = doc.active THEN [version[v] EXCEPT !.status = "superseded"]
        ELSE version[v]]
ActivatedVersionsNoSupersede(j) ==      \* mutant: the previous version stays active
    [version EXCEPT ![job[j].ver].status = "active", ![job[j].ver].gen = j]
ActivatedVersions(j) ==
    [v \in Jobs |->
        IF v = job[j].ver THEN [version[v] EXCEPT !.status = "active", !.gen = j]
        ELSE IF v = doc.active THEN [version[v] EXCEPT !.status = "superseded"]
        ELSE version[v]]

(* Only this generation's chunks are replaced.                             *)
IndexedAlone(j) == {j}                  \* mutant: the document's chunks are deleted
Indexed(j) == chunks \cup {j}

Publish(w) ==
    LET j == Job(w)
    IN  /\ At(w, "publish")
        /\ ~PublicationStale(j)
        /\ chunks' = Indexed(j)
        /\ generation' = ActivatedGenerations(j)
        /\ version' = ActivatedVersions(j)
        /\ doc' = [doc EXCEPT !.active = job[j].ver, !.status = "available"]
        /\ job' = [job EXCEPT ![j].status = "succeeded"]
        /\ Goto(w, "done")
        /\ UNCHANGED <<files, queue, lock, request, faults, errors>>

PublishRefused(w) ==
    /\ At(w, "publish")
    /\ PublicationStale(Job(w))
    /\ Goto(w, "done")
    /\ UNCHANGED <<rows, files, queue, lock, request, faults, errors>>

(* ... and the writes of _mark_failed, guarded by what FailRead saw: a     *)
(* version or generation that is ACTIVE keeps its status, and the document *)
(* fails only when it has no active version.                               *)
FailsAnyDocument(r) == r.doc # "none"   \* mutant: an active version does not matter
FailsDocument(r) == r.doc # "none" /\ r.active = None /\ r.doc # "available"

RowsVanished(w) == ~JobRow(Job(w)) /\ worker[w].snap.job \notin {"none", "purged"}

MarkFailed(w) ==
    LET j == Job(w)
        r == worker[w].snap
        v == job[j].ver
        found == r.job \notin {"none", "purged"}
    IN  /\ At(w, "failCommit")
        /\ j # Deletion
        /\ ~RowsVanished(w)
        /\ job' = IF found /\ r.job # "succeeded"
                  THEN [job EXCEPT ![j].status = Flushed(job[j].status, r.job, "failed")]
                  ELSE job
        /\ version' = IF found /\ r.ver # "active"
                      THEN [version EXCEPT ![v].failed = TRUE, ![v].status =
                                Flushed(version[v].status, r.ver, "failed")]
                      ELSE version
        /\ generation' = IF found /\ r.gen # "active"
                         THEN [generation EXCEPT ![j] =
                                Flushed(generation[j], r.gen, "failed")]
                         ELSE generation
        /\ doc' = IF FailsDocument(r)
                  THEN [doc EXCEPT !.status = Flushed(doc.status, r.doc, "failed")]
                  ELSE doc
        /\ GotoWith(w, "done", NoSnapshot)
        /\ UNCHANGED <<chunks, files, queue, lock, request, faults, errors>>

(* The rows were purged between the reads and the flush: StaleDataError.   *)
MarkFailedRefused(w) ==
    /\ At(w, "failCommit")
    /\ RowsVanished(w)
    /\ Raise(w, IF Exhausted(w) THEN "done" ELSE "retry")
    /\ UNCHANGED <<rows, files, queue, request, faults, errors>>

IngestionStep(w) ==
    \/ \E m \in queue : Begin(w, m)
    \/ Claim(w) \/ ClaimFails(w)
    \/ Prepare(w) \/ SourceMissing(w) \/ PermanentFailure(w) \/ TransientFailure(w)
    \/ Publish(w) \/ PublishRefused(w)
    \/ MarkFailed(w) \/ MarkFailedRefused(w)
==============================================================================
