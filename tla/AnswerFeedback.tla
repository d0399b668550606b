------------------------------ MODULE AnswerFeedback ------------------------------
(***************************************************************************)
(* The feedback of one user on one answer, submitted from several tabs,    *)
(* and the export of the audit trail with its rate limit (feedback and     *)
(* export_audit_events of src/backend/app/api/enterprise.py).  Both look a *)
(* row up without locking it and write in the same transaction.            *)
(***************************************************************************)
EXTENDS Naturals, FiniteSets

CONSTANTS
    Tabs,           \* feedback requests that may be in progress at the same time
    Submissions,    \* the ratings and reasons that are submitted
    Exporters,      \* export requests of one administrator in progress together
    MaxTime,        \* bound: seconds that pass
    RateLimit,      \* audit_export_rate_limit_seconds
    NoOpinion       \* the marker of an absent feedback row

Rating == {"helpful", "not_helpful"}
Reason == {"none", "incorrect", "other"}    \* two of the six reasons, and none

\* FeedbackInput: a helpful answer has no negative reason.
Valid(opinion) == opinion.rating = "helpful" => opinion.reason = "none"
Opinion == [rating : Rating, reason : Reason]

ASSUME FeedbackAssumption ==
    /\ Submissions \subseteq {o \in Opinion : Valid(o)}
    /\ NoOpinion \notin Opinion
    /\ MaxTime \in Nat /\ RateLimit \in Nat

VARIABLES
    answer,         \* whether the answer, and so its conversation, exists
    opinion,        \* the feedback row
    tabs,           \* what each feedback request has read
    created,        \* feedback.created events
    now,            \* the clock, of the application and of the database
    exporters,      \* what each export request has read
    exports         \* audit.exported events: their time, which is the start of their
                    \* transaction, when the limit was asked for, and the commit

feedbackVars == <<answer, opinion, tabs, created>>
exportVars == <<now, exporters, exports>>

Waiting == [op |-> "idle"]

\* An export request: its transaction has started, it has read the clock, and
\* it has passed the limit.
Exporting ==
    {Waiting}
    \cup [op : {"clock"}, at : 0..MaxTime]
    \cup [op : {"check", "commit"}, at : 0..MaxTime, asked : 0..MaxTime]

FeedbackTypeOK ==
    /\ answer \in BOOLEAN
    /\ opinion \in Opinion \cup {NoOpinion}
    /\ tabs \in [Tabs -> {Waiting} \cup [op : {"write"}, asks : Submissions,
                                         found : Opinion \cup {NoOpinion}]]
    /\ created \in Nat
    /\ now \in 0..MaxTime
    /\ exporters \in [Exporters -> Exporting]
    /\ exports \subseteq [at : 0..MaxTime, asked : 0..MaxTime, committed : 0..MaxTime]

FeedbackInit ==
    /\ answer = TRUE /\ opinion = NoOpinion /\ created = 0
    /\ tabs = [t \in Tabs |-> Waiting]
    /\ now = 0 /\ exports = {}
    /\ exporters = [e \in Exporters |-> Waiting]

--------------------------------------------------------------------------------
(* feedback.                                                                *)

ReadFeedback(t, asks) ==
    /\ tabs[t] = Waiting
    /\ answer
    /\ tabs' = [tabs EXCEPT ![t] = [op |-> "write", asks |-> asks, found |-> opinion]]
    /\ UNCHANGED <<answer, opinion, created>>

Done(t) == tabs' = [tabs EXCEPT ![t] = Waiting]

\* Mutant: the table has no unique index, a second row takes the place of the first.
InsertableAlways == answer

\* The answer the row refers to is there, and no other row is.
Insertable == answer /\ opinion = NoOpinion

InsertFeedback(t) ==
    /\ tabs[t].op = "write" /\ tabs[t].found = NoOpinion
    /\ IF Insertable
       THEN opinion' = tabs[t].asks /\ created' = created + 1
       ELSE UNCHANGED <<opinion, created>>
    /\ Done(t)
    /\ UNCHANGED answer

\* The session writes the columns that differ from the row it read, one by one.
Flushed(row, found, asks) ==
    [column \in DOMAIN asks |-> IF asks[column] # found[column] THEN asks[column] ELSE row[column]]

\* An update of a row that is gone fails; without a difference there is no
\* update, and the submission is acknowledged and audited all the same.
ChangeFeedback(t) ==
    LET found == tabs[t].found  asks == tabs[t].asks IN
    /\ tabs[t].op = "write" /\ found # NoOpinion
    /\ opinion' = IF opinion = NoOpinion THEN NoOpinion ELSE Flushed(opinion, found, asks)
    /\ Done(t)
    /\ UNCHANGED <<answer, created>>

\* The conversation is deleted, and the answer and its feedback with it.
AnswerGoes == answer' = FALSE /\ opinion' = NoOpinion /\ UNCHANGED <<tabs, created>>

--------------------------------------------------------------------------------
(* export_audit_events.                                                     *)

\* Mutant: the limit is measured from the first export.
PreviousFirst == {e \in exports : \A f \in exports : e.at <= f.at}

\* The latest export event of the administrator that is committed.
Previous == {e \in exports : \A f \in exports : e.at >= f.at}

Exports(e, state) == exporters' = [exporters EXCEPT ![e] = state]

\* The query that authenticates the request begins its transaction: this is
\* what now() of the database says until it ends.
BeginExport(e) ==
    /\ exporters[e] = Waiting
    /\ Exports(e, [op |-> "clock", at |-> now])
    /\ UNCHANGED <<now, exports>>

\* datetime.now(UTC), after the membership was read.
ReadClock(e) ==
    /\ exporters[e].op = "clock"
    /\ Exports(e, [op |-> "check", at |-> exporters[e].at, asked |-> now])
    /\ UNCHANGED <<now, exports>>

\* The limit, with what is committed by the time of the query.
CheckLimit(e) ==
    /\ exporters[e].op = "check"
    /\ \A previous \in Previous : exporters[e].asked >= previous.at + RateLimit
    /\ Exports(e, [exporters[e] EXCEPT !.op = "commit"])
    /\ UNCHANGED <<now, exports>>

\* The export came too early, is over the row limit, or fails: nothing is recorded.
RefuseExport(e) ==
    /\ exporters[e] # Waiting
    /\ Exports(e, Waiting)
    /\ UNCHANGED <<now, exports>>

\* created_at of the event is the start of its transaction.
CommitExport(e) ==
    /\ exporters[e].op = "commit"
    /\ exports' = exports \cup {[at |-> exporters[e].at, asked |-> exporters[e].asked,
                               committed |-> now]}
    /\ Exports(e, Waiting)
    /\ UNCHANGED now

\* Only differences of times matter: the clock starts with the first export.
Tick ==
    /\ exports # {} \/ \E e \in Exporters : exporters[e] # Waiting
    /\ now < MaxTime /\ now' = now + 1
    /\ UNCHANGED <<exporters, exports>>

--------------------------------------------------------------------------------
FeedbackStep(t) == InsertFeedback(t) \/ ChangeFeedback(t)
ExportStep(e) == ReadClock(e) \/ CheckLimit(e) \/ RefuseExport(e) \/ CommitExport(e)
=================================================================================
