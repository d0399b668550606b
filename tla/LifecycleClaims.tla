--------------------------- MODULE LifecycleClaims ---------------------------
(***************************************************************************)
(* What the documentation and the transition tables of app/lifecycle.py    *)
(* say of the lifecycle.  The claims about candidates hold while every     *)
(* message is delivered once; runs with duplicate deliveries or a deletion *)
(* show which of them the code gives up.                                   *)
(***************************************************************************)
EXTENDS DocumentLifecycle

(* "deleting and deleted cannot return": a tombstone stays a tombstone.    *)
TombstoneIsFinal ==
    [][doc.status = "deleted" => doc'.status = "deleted"]_vars

(* Until a deletion is accepted the served version is only ever replaced   *)
(* by a later one (or by a new generation of itself), however messages are *)
(* delivered: nothing but the partial unique index keeps a late            *)
(* replacement from publishing over a newer version.  The only way back is *)
(* to a version whose ingestion had been given up, by the delivery of its  *)
(* FAILED job again, so "Duplicate delivery is safe" is not quite true.    *)
(* After a purge no version is left to compare a number with.              *)
ActivationMovesForward ==
    [][\A v \in Jobs :
            job[Deletion].status = "none" /\ doc'.active = v /\ doc.active # None
            => \/ version'[v].number >= version[doc.active].number
               \/ version[v].failed]_vars

(* What a search finds of the document: the joins of retrieval.py ask for  *)
(* an available document, its active version and that version's active     *)
(* generation, all three by pointer and by status.                         *)
Found ==
    IF /\ doc.status = "available"
       /\ doc.active # None
       /\ version[doc.active].status = "active"
       /\ version[doc.active].gen # None
       /\ generation[version[doc.active].gen] = "active"
    THEN version[doc.active].gen
    ELSE None

Served == INSTANCE ServedDocument WITH
    Generations <- Jobs,
    Nothing <- None,
    served <- Found,
    fresh <- {g \in Jobs : job[g].status \notin {"succeeded", "purged"}},
    withdrawn <- job[Deletion].status # "none"

(* Delivered once, the lifecycle implements ServedDocument: whatever fails *)
(* or is retried, a search finds one whole generation, which only a new    *)
(* one or a deletion takes away, in a single step, and which never returns.*)
ImplementsServedDocument == Served!Spec

(* "The prior active version remains searchable": whatever happens to the  *)
(* candidates, a search that finds the document goes on finding it until a *)
(* deletion is accepted.  One step is the exception: the failure mark of a *)
(* delivery that has used up its retries, and with them the advisory lock, *)
(* while another delivery of the same job published.                       *)
ServiceContinues ==
    [][Found # None /\ Found' = None =>
            \/ doc'.status = "deleting"
            \/ \E w \in Workers : Exhausted(w) /\ MarkFailed(w)]_vars

(* The three pointers and the three statuses agree: the active version and *)
(* its active generation carry the status active, and nothing else does.   *)
StatusesAgree ==
    /\ \A v \in Jobs : version[v].status = "active" <=> doc.active = v
    /\ \A v \in Jobs : doc.active = v => generation[version[v].gen] = "active"
    /\ doc.status = "available" => doc.active # None

(* VERSION_TRANSITIONS and GENERATION_TRANSITIONS, with publication going  *)
(* through ready to active in one transaction, and insertion.              *)
CandidateSteps ==
    {<<"none", "pending">>, <<"pending", "processing">>, <<"pending", "failed">>,
     <<"processing", "active">>, <<"processing", "failed">>,
     <<"active", "superseded">>, <<"superseded", "active">>}

(* The step the table forbids and the code takes: a reindex of a version   *)
(* that was superseded before the reindex committed is given up, and       *)
(* _mark_failed writes FAILED over SUPERSEDED.                             *)
FailedWithReindex(v) ==
    /\ version[v].status = "superseded" /\ version'[v].status = "failed"
    /\ \E j \in Jobs : /\ job[j].op = "reindex" /\ job[j].ver = v
                      /\ job[j].status # "failed" /\ job'[j].status = "failed"

(* Delivered once, generations take only the steps of the table and        *)
(* versions only these and that one more, however replacements and         *)
(* reindexes overlap with the workers; in particular failed is terminal.   *)
LegalCandidateSteps ==
    [][\A j \in Jobs :
        /\ \/ version'[j].status \in {version[j].status, "none"}
           \/ <<version[j].status, version'[j].status>> \in CandidateSteps
           \/ FailedWithReindex(j)
        /\ \/ generation'[j] \in {generation[j], "none"}
           \/ <<generation[j], generation'[j]>> \in CandidateSteps]_vars

(* "blocks activation": once a deletion is accepted nothing more of the    *)
(* document becomes searchable.                                            *)
DeletionBlocksActivation ==
    [][job[Deletion].status # "none" => chunks' \subseteq chunks]_vars

(* "Storage failure leaves the document unavailable and the job retryable":*)
(* a deletion that is not done has a job someone will run again.           *)
DeletionStaysRetryable ==
    doc.status = "deleting" => job[Deletion].status \in ActiveJobStatus

(* Identities whose rows a request has not committed yet.                  *)
InFlight == {request[c].job : c \in {d \in Clients : request[d].step = "loaded"}}

(* "The logical document tombstone contains no private snapshot data": no  *)
(* version row, and no source object outside an unfinished request.        *)
TombstoneIsEmpty ==
    doc.status = "deleted" =>
        files \subseteq InFlight /\ \A v \in Jobs : ~VersionRow(v)

(* No upload that ends leaves a source object without a version row        *)
(* behind, and no replacement but one whose query failed outside its try   *)
(* statement, however they overlap; a deletion removes rows and objects in *)
(* its own order.                                                          *)
NoOrphanSource ==
    job[Deletion].status = "none" => \A v \in files :
        \/ VersionRow(v)
        \/ v \in InFlight
        \/ \E c \in Clients :
                ToldOfError(c, v) /\ request[c].op = "replacement_ingestion"

(* "If publishing fails, the just-created rows and file are removed": a    *)
(* request that could not publish leaves no queued job.                    *)
FailedPublicationUndone ==
    [][\A c \in Clients : PublishJobFails(c) =>
            job'[request[c].job].status # "queued"]_vars

(* A RUNNING row no message and no worker answers for any more.  The       *)
(* reconciler passes it over, so it stays, and with it the document's one  *)
(* lifecycle operation.                                                    *)
Stranded(j) ==
    /\ job[j].status = "running"
    /\ \A m \in queue : m[1] # j
    /\ \A w \in Workers : At(w, "idle") \/ Job(w) # j

(* That takes a fault, such as a time limit or a retry the broker refused; *)
(* or an ingestion given up by one delivery while another one claimed it;  *)
(* or a reindex whose version was superseded before it committed.  The     *)
(* last two end in a publication refused as stale, which marks nothing.    *)
LostForGood(j) ==
    /\ Stranded(j)
    /\ \/ faults > 0
       \/ version[job[j].ver].failed
       \/ job[j].op = "reindex" /\ doc.active # job[j].ver

(* Accepted work is settled: a job that is under way ends succeeded or     *)
(* failed, with two workers, duplicates and the reconciler at work, unless *)
(* a deletion is requested or it is lost for good.                         *)
AcceptedWorkSettles ==
    \A j \in Jobs : job[j].status \in ActiveJobStatus ~>
        \/ job[j].status \notin ActiveJobStatus
        \/ job[Deletion].status # "none"
        \/ LostForGood(j)

IngestionUnderWay ==
    \E w \in Workers : ~At(w, "idle") /\ ~At(w, "done") /\ Job(w) # Deletion

(* A deletion that no ingestion attempt is racing with is carried out, its *)
(* job is marked failed after the last retry, or a fault strands it.       *)
DeletionIsCarriedOut ==
    (doc.status = "deleting" /\ ~IngestionUnderWay) ~>
        (doc.status = "deleted" \/ job[Deletion].status = "failed"
            \/ LostForGood(Deletion))
==============================================================================
