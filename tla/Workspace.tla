-------------------------------- MODULE Workspace --------------------------------
(***************************************************************************)
(* A collection that is deleted while its documents are uploaded and       *)
(* replaced and an answer in it is rated: the deletion takes the rows of   *)
(* both in one transaction.  Exports of the audit trail go on beside it.   *)
(***************************************************************************)
EXTENDS CollectionRemoval, AnswerFeedback

vars == <<collectionVars, feedbackVars, exportVars, begun>>

Init == CollectionInit /\ FeedbackInit

\* The transaction of the deletion cascades to the conversations.
DeleteCollection(c) == DeleteRows(c) /\ AnswerGoes

\* The conversation of the answer is deleted by its owner.
DeleteConversation == answer /\ AnswerGoes

Counted == begun < MaxRequests /\ begun' = begun + 1

Arriving ==
    \/ \E c \in Clients : CollectionRequest(c) /\ UNCHANGED <<feedbackVars, exportVars>>
    \/ \E t \in Tabs, asks \in Submissions :
            Counted /\ ReadFeedback(t, asks) /\ UNCHANGED <<collectionVars, exportVars>>
    \/ \E e \in Exporters :
            Counted /\ BeginExport(e) /\ UNCHANGED <<collectionVars, feedbackVars>>

Working ==
    \/ \E c \in Clients : \/ CollectionStep(c) /\ UNCHANGED <<feedbackVars, exportVars>>
                          \/ DeleteCollection(c) /\ UNCHANGED exportVars
    \/ DeleteConversation /\ UNCHANGED <<collectionVars, exportVars>>
    \/ \E t \in Tabs : FeedbackStep(t) /\ UNCHANGED <<collectionVars, exportVars>>
    \/ \E e \in Exporters : ExportStep(e) /\ UNCHANGED <<collectionVars, feedbackVars>>
    \/ Tick /\ UNCHANGED <<collectionVars, feedbackVars>>

Next == Arriving \/ (Working /\ UNCHANGED begun)

Spec == Init /\ [][Next]_vars

\* A request that is being worked on goes on, and whoever asked for the
\* deletion repeats the DELETE as long as it is not answered with success.
FairSpec ==
    /\ Spec
    /\ \A c \in Clients : WF_vars(CleaningStep(c) /\ UNCHANGED <<feedbackVars, exportVars, begun>>)
    /\ \A c \in Clients : WF_vars(RepeatDeletion(c) /\ UNCHANGED <<feedbackVars, exportVars, begun>>)

--------------------------------------------------------------------------------
(* Properties.                                                              *)

\* Every variable has its type, and an object has a generated key.
TypeOK == CollectionTypeOK /\ FeedbackTypeOK

\* Once the collection row is gone nothing of it is left, whatever was being
\* uploaded, replaced or rated when its deletion committed (the foreign keys
\* and cascades delete_collection relies on).
NothingSurvivesTheRows ==
    ~collection => VersionRows = {} /\ ~answer /\ opinion = NoOpinion

\* A tombstone that says complete is true: none of the objects it lists is
\* left, also when two requests removed them and one of them failed midway.
CompleteMeansErased ==
    tombstone # None /\ tombstone.status = "complete" => tombstone.keys \cap objects = {}

\* The objects somebody still answers for: of a version row, of a pending
\* tombstone or of a request in progress.
Answered ==
    VersionRows
    \cup (IF tombstone # None /\ tombstone.status = "pending" THEN tombstone.keys ELSE {})
    \cup {k \in Keys : \E c \in Clients :
              clients[c].op \in {"upload", "replace.lock", "replace.commit"} /\ clients[c].key = k}

\* No object is left behind by the deletion of its collection: its exact keys
\* are in the tombstone before its row goes.
NothingStranded == objects \subseteq Answered

\* No uploaded object is left behind: the insert of a document either waits for
\* the deletion and is refused, or is committed before the keys are listed.
NoUploadStranded == objects \ ReplacementKeys \subseteq Answered

\* A deletion that committed ends with its objects removed, through any storage
\* error and any process death, if the DELETE is repeated until it succeeds.
CleanUpCompletes ==
    (tombstone # None) ~> (tombstone # None /\ tombstone.status = "complete")

\* An answer has one feedback row, and one feedback.created event for it,
\* however many tabs submit the first rating at the same time.
RatedOnce == created <= 1 /\ (opinion # NoOpinion => created = 1)

\* An export that asks after others were committed is let through when RateLimit
\* has passed since the time each of them bears, whichever finished last and
\* however long they took (export_audit_events).  That time is the start of a
\* transaction, and the limit is asked for later: see RecordedTimesAreSpaced.
ExportsAreSpaced ==
    \A e, f \in exports : (e # f /\ e.asked > f.committed) => e.asked >= f.at + RateLimit

\* The times that exports bear in the trail are spaced as well.  They are not: a
\* request that is slow before the limit is asked for bears the time it began.
RecordedTimesAreSpaced ==
    \A e, f \in exports : (e # f /\ e.at > f.committed) => e.at >= f.at + RateLimit

\* The feedback row is one that FeedbackInput accepts: a helpful answer has no
\* negative reason.
OpinionIsValid == opinion # NoOpinion => Valid(opinion)
=================================================================================
