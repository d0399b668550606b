---------------------------- MODULE DeletionWorker ----------------------------
(***************************************************************************)
(* delete_document_task and process_deletion.  Nothing excludes two        *)
(* deliveries of the deletion job: it takes no advisory lock.              *)
(***************************************************************************)
EXTENDS WorkerProcess

DeletionStops(r) == r.doc # "deleting" \/ r.job \in {"none", "succeeded"}

BeginDeletion(w, m) ==
    LET stops == DeletionStops(Read(Deletion))
    IN  /\ At(w, "idle")
        /\ m \in queue
        /\ m[1] = Deletion
        /\ queue' = queue \ {m}
        /\ worker' = [worker EXCEPT ![w] =
                        [step |-> IF stops THEN "done" ELSE "delClaim",
                         msg |-> m,
                         snap |-> IF stops THEN NoSnapshot ELSE Read(Deletion),
                         keys |-> {}]]
        /\ UNCHANGED <<rows, files, lock, request, faults, errors>>

(* The claim is flushed and the storage keys of the versions are read.     *)
ClaimDeletion(w) ==
    /\ At(w, "delClaim")
    /\ job' = [job EXCEPT ![Deletion].status =
                    Flushed(job[Deletion].status, worker[w].snap.job, "running")]
    /\ worker' = [worker EXCEPT ![w].step = "delFiles", ![w].snap = NoSnapshot,
                                ![w].keys = {v \in Jobs : VersionRow(v)}]
    /\ UNCHANGED <<doc, version, generation, chunks, files, queue, lock, request,
                   faults, errors>>

(* Source objects go one at a time, outside any transaction; an absent one *)
(* is already deleted.                                                     *)
RemoveSource(w) ==
    /\ At(w, "delFiles")
    /\ \E v \in worker[w].keys :
        /\ files' = files \ {v}
        /\ worker' = [worker EXCEPT ![w].keys = @ \ {v}]
    /\ UNCHANGED <<rows, queue, lock, request, faults, errors>>

(* An OSError puts the job back to RETRYING, whatever its status is by now.*)
AfterStorageError == "retrying"

StorageError(w) ==
    /\ At(w, "delFiles")
    /\ worker[w].keys # {}
    /\ Error
    /\ job' = [job EXCEPT ![Deletion].status = AfterStorageError]
    /\ worker' = [worker EXCEPT ![w].step = "retry", ![w].keys = {}]
    /\ UNCHANGED <<doc, version, generation, chunks, files, queue, lock, request, faults>>

(* The purge, under the document's row lock: pointers are cleared, every   *)
(* other job and every version (with its generations, units and chunks) is *)
(* deleted, and the document becomes a tombstone.                          *)
TombstoneWithPointer == [doc EXCEPT !.status = "deleted"]   \* mutant: pointer kept
TombstoneStillDeleting == [doc EXCEPT !.active = None]      \* mutant: status kept
Tombstone == [doc EXCEPT !.status = "deleted", !.active = None]
PurgedJobs ==
    [j \in AllJobs |->
        IF j = Deletion THEN [job[j] EXCEPT !.status = "succeeded"]
        ELSE IF JobRow(j) THEN [job[j] EXCEPT !.status = "purged"]
        ELSE job[j]]

Purge(w) ==
    /\ At(w, "delFiles")
    /\ worker[w].keys = {}
    /\ doc.status = "deleting"
    /\ doc' = Tombstone
    /\ version' = [v \in Jobs |-> NoVersion]
    /\ generation' = [g \in Jobs |-> "none"]
    /\ chunks' = {}
    /\ job' = PurgedJobs
    /\ Goto(w, "done")
    /\ UNCHANGED <<files, queue, lock, request, faults, errors>>

PurgeRefused(w) ==
    /\ At(w, "delFiles")
    /\ worker[w].keys = {}
    /\ doc.status # "deleting"
    /\ Goto(w, "done")
    /\ UNCHANGED <<rows, files, queue, lock, request, faults, errors>>

(* mark_deletion_retry_exhausted.                                          *)
MarkDeletionFailed(w) ==
    /\ At(w, "failCommit")
    /\ Job(w) = Deletion
    /\ job' = IF worker[w].snap.job # "succeeded"
              THEN [job EXCEPT ![Deletion].status =
                        Flushed(job[Deletion].status, worker[w].snap.job, "failed")]
              ELSE job
    /\ GotoWith(w, "done", NoSnapshot)
    /\ UNCHANGED <<doc, version, generation, chunks, files, queue, lock, request,
                   faults, errors>>

DeletionStep(w) ==
    \/ \E m \in queue : BeginDeletion(w, m)
    \/ ClaimDeletion(w) \/ RemoveSource(w) \/ StorageError(w)
    \/ Purge(w) \/ PurgeRefused(w)
    \/ MarkDeletionFailed(w)
==============================================================================
