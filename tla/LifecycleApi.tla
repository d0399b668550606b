---------------------------- MODULE LifecycleApi ----------------------------
(***************************************************************************)
(* The four requests that change a document: upload, replace, reindex and  *)
(* delete.  Each commits durable intent and only then publishes the job.   *)
(* A request that keeps reading after it loaded the document works on the  *)
(* attributes it loaded: SELECT ... FOR UPDATE of a row already in the     *)
(* session's identity map locks it without refreshing it.                  *)
(***************************************************************************)
EXTENDS LifecycleStore

RequestAt(c, step, op) == request[c].step = step /\ request[c].op = op

(* A fresh uuid4 for the new version, generation and job.                  *)
Fresh(j) ==
    /\ job[j].status = "none"
    /\ j \notin files
    /\ \A c \in Clients : request[c].job # j

Asks(c, op) == request[c].step = "idle" /\ op \in Requests

Loaded(c, op, j) ==
    request' = [request EXCEPT ![c] =
        [step |-> "loaded", op |-> op, job |-> j,
         active |-> doc.active, next |-> doc.next]]
Committed(c) == request' = [request EXCEPT ![c].step = "committed"]

(* COMMIT takes effect, and its acknowledgement arrives or is lost with    *)
(* the connection.                                                         *)
CommitReturns(c) ==
    \/ Committed(c) /\ UNCHANGED faults
    \/ Fault("commit") /\ request' = [request EXCEPT ![c].step = "unsure"]

(* The client is answered with an error the request did not expect.  The   *)
(* step stays, as a history of what the client was told.                   *)
EndsInError(c) == request' = [request EXCEPT ![c].step = "failed"]
Answered(c) == request' = [request EXCEPT ![c] = IdleRequest]

InsertVersion(v, number) ==
    version' = [version EXCEPT ![v] =
        [status |-> "pending", gen |-> None, number |-> number, failed |-> FALSE]]
InsertGeneration(g) == generation' = [generation EXCEPT ![g] = "pending"]
InsertJob(j, op, v) ==
    job' = [job EXCEPT ![j] = [status |-> "queued", op |-> op, ver |-> v]]

(* Upload: the source object is stored first, then the four rows commit.   *)
StoreUpload(c) ==
    /\ Asks(c, "initial_ingestion")
    /\ doc.status = "none"
    /\ Fresh(Initial)
    /\ files' = files \cup {Initial}
    /\ Loaded(c, "initial_ingestion", Initial)
    /\ UNCHANGED <<rows, queue, lock, worker, faults, errors>>

CommitUpload(c) ==
    /\ RequestAt(c, "loaded", "initial_ingestion")
    /\ doc' = [doc EXCEPT !.status = "pending"]
    /\ InsertVersion(Initial, 1)
    /\ InsertGeneration(Initial)
    /\ InsertJob(Initial, "initial_ingestion", Initial)
    /\ CommitReturns(c)
    /\ UNCHANGED <<chunks, files, queue, lock, worker, errors>>

(* Replacement: the loaded document must be available; the object is       *)
(* stored before the document row is locked.                               *)
HasActiveSource == doc.status = "available" /\ doc.active # None

StoreReplacement(c, j) ==
    /\ Asks(c, "replacement_ingestion")
    /\ HasActiveSource
    /\ Fresh(j)
    /\ files' = files \cup {j}
    /\ Loaded(c, "replacement_ingestion", j)
    /\ UNCHANGED <<rows, queue, lock, worker, faults, errors>>

(* The status test after the row lock repeats the one made on the loaded   *)
(* attributes; the query for an active job and uq_document_versions_order  *)
(* see the database.  The number written is the loaded one plus one.       *)
NumberTaken(n) == \E v \in Jobs : VersionRow(v) /\ version[v].number = n

ReplacementAllowed(c) == ~LifecycleBusy(Jobs) /\ ~NumberTaken(request[c].next)

CommitReplacement(c) ==
    LET j == request[c].job
    IN  /\ RequestAt(c, "loaded", "replacement_ingestion")
        /\ ReplacementAllowed(c)
        /\ InsertVersion(j, request[c].next)
        /\ doc' = [doc EXCEPT !.next = request[c].next + 1]
        /\ InsertGeneration(j)
        /\ InsertJob(j, "replacement_ingestion", j)
        /\ CommitReturns(c)
        /\ UNCHANGED <<chunks, files, queue, lock, worker, errors>>

(* Reindex: a generation of the version that was active when loaded.       *)
LoadReindex(c, j) ==
    /\ Asks(c, "reindex")
    /\ HasActiveSource
    /\ Fresh(j)
    /\ Loaded(c, "reindex", j)
    /\ UNCHANGED <<rows, files, queue, lock, worker, faults, errors>>

ReindexAllowed(c) == VersionRow(request[c].active) /\ ~LifecycleBusy(Jobs)

CommitReindex(c) ==
    LET j == request[c].job
    IN  /\ RequestAt(c, "loaded", "reindex")
        /\ ReindexAllowed(c)
        /\ InsertGeneration(j)
        /\ InsertJob(j, "reindex", request[c].active)
        /\ Committed(c)
        /\ UNCHANGED <<doc, version, chunks, files, queue, lock, worker, faults, errors>>

(* Any refusal before the commit: invalid content, a replayed or           *)
(* conflicting Idempotency-Key, an identical source, a conflicting job, a  *)
(* version number already taken, an SQL error inside the try statement.  A *)
(* stored object is removed.                                               *)
KeptOnRefusal(c) == files                \* mutant: the stored object stays
DiscardedSource(c) ==                    \* mutant: a refused reindex removes its source
    IF request[c].op = "reindex" THEN files \ {request[c].active}
    ELSE files \ {request[c].job}
Discarded(c) ==
    IF request[c].op = "reindex" THEN files ELSE files \ {request[c].job}

Refuse(c) ==
    /\ request[c].step = "loaded"
    /\ files' = Discarded(c)
    /\ Answered(c)
    /\ UNCHANGED <<rows, queue, lock, worker, faults, errors>>

(* The queries for the Idempotency-Key and for an identical source come    *)
(* after the object was stored and before the try statement: their error   *)
(* removes nothing.                                                        *)
ReplacementQueryFails(c) ==
    /\ RequestAt(c, "loaded", "replacement_ingestion")
    /\ Error
    /\ EndsInError(c)
    /\ UNCHANGED <<rows, files, queue, lock, worker, faults>>

(* The except clause of the lost acknowledgement cannot tell it from a     *)
(* commit that failed: the object of the committed version is removed.     *)
DiscardUnsure(c) ==
    /\ request[c].step = "unsure"
    /\ files' = files \ {request[c].job}
    /\ EndsInError(c)
    /\ UNCHANGED <<rows, queue, lock, worker, faults, errors>>

(* Delete: one deletion job per document, whatever its status; a second    *)
(* request is answered with the existing job.                              *)
AcceptDeletion(c) ==
    /\ Asks(c, "document_deletion")
    /\ doc.status # "none"
    /\ job[Deletion].status = "none"
    /\ doc' = [doc EXCEPT !.status = "deleting"]
    /\ InsertJob(Deletion, "document_deletion", Initial)
    /\ request' = [request EXCEPT ![c] =
                    [IdleRequest EXCEPT !.step = "committed", !.job = Deletion]]
    /\ UNCHANGED <<version, generation, chunks, files, queue, lock, worker,
                   faults, errors>>

(* apply_async after the commit; an exception is swallowed.                *)
PublishJob(c) ==
    /\ request[c].step = "committed"
    /\ queue' = queue \cup {<<request[c].job, 0>>}
    /\ Answered(c)
    /\ UNCHANGED <<rows, files, lock, worker, faults, errors>>

PublishJobFails(c) ==
    /\ request[c].step = "committed"
    /\ Fault("publish")
    /\ Answered(c)
    /\ UNCHANGED <<rows, files, queue, lock, worker, errors>>

(* The API process dies, or the request is cancelled, which                *)
(* `except Exception` does not catch: nothing is cleaned up.               *)
AbandonRequest(c) ==
    /\ request[c].step \notin {"idle", "failed"}
    /\ Fault("api")
    /\ Answered(c)
    /\ UNCHANGED <<rows, files, queue, lock, worker, errors>>

ApiStep(c) ==
    \/ StoreUpload(c) \/ CommitUpload(c)
    \/ \E j \in Jobs : StoreReplacement(c, j) \/ LoadReindex(c, j)
    \/ CommitReplacement(c) \/ CommitReindex(c) \/ Refuse(c)
    \/ ReplacementQueryFails(c) \/ DiscardUnsure(c)
    \/ AcceptDeletion(c)
    \/ PublishJob(c) \/ PublishJobFails(c) \/ AbandonRequest(c)
==============================================================================
