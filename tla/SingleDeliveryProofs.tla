------------------------- MODULE SingleDeliveryProofs -------------------------
(***************************************************************************)
(* While every message is delivered once, and for every set of jobs,       *)
(* workers and clients: DocumentLifecycle implements ServedDocument, the   *)
(* statuses agree with the pointers, and candidates take the documented    *)
(* steps and one more.  SingleDelivery has the inductive invariants; the   *)
(* proof first follows the messages, then the rows, and last the           *)
(* candidates.                                                             *)
(***************************************************************************)
EXTENDS DocumentLifecycleProofs, SingleDelivery

(* How a step moves the messages of the ingestion jobs.                    *)
Loses ==
    /\ queue' \subseteq queue
    /\ \A w \in Workers, j \in Jobs : Holds(w, j)' => Holds(w, j)
    /\ \A c \in Clients, j \in Jobs : Owes(c, j)' => Owes(c, j)

Takes(w, m) ==
    /\ m \in queue /\ queue' = queue \ {m}
    /\ \A j \in Jobs : ~Holds(w, j)
    /\ \A u \in Workers, j \in Jobs : Holds(u, j)' => Holds(u, j) \/ (u = w /\ j = m[1])
    /\ \A c \in Clients, j \in Jobs : Owes(c, j)' => Owes(c, j)

PutsBack(w, m) ==
    /\ Holds(w, m[1]) /\ queue' = queue \cup {m}
    /\ \A u \in Workers, j \in Jobs : Holds(u, j)' => Holds(u, j) /\ u # w
    /\ \A c \in Clients, j \in Jobs : Owes(c, j)' => Owes(c, j)

Sends(c, m) ==
    /\ Owes(c, m[1]) /\ queue' = queue \cup {m}
    /\ \A w \in Workers, j \in Jobs : Holds(w, j)' => Holds(w, j)
    /\ \A d \in Clients, j \in Jobs : Owes(d, j)' => Owes(d, j) /\ d # c

Commits(c, j) ==
    /\ queue' = queue /\ job[j].status = "none" /\ j \in Jobs
    /\ \A w \in Workers, k \in Jobs : Holds(w, k)' => Holds(w, k)
    /\ \A d \in Clients, k \in Jobs : Owes(d, k)' => Owes(d, k) \/ (d = c /\ k = j)

Moves ==
    \/ Loses
    \/ \E w \in Workers, m \in Message : Takes(w, m) \/ PutsBack(w, m)
    \/ \E c \in Clients, m \in Message : Sends(c, m)

\* A worker that goes on in its task, or ends it, keeps at most its message.
LEMMA GoesOn ==
    ASSUME NEW w \in Workers,
           \A u \in Workers \ {w} : worker'[u] = worker[u],
           \/ worker'[w].step \in {"idle", "done"}
           \/ ~At(w, "idle") /\ ~At(w, "done") /\ worker'[w].msg = worker[w].msg,
           queue' \subseteq queue, UNCHANGED request
    PROVE Loses
  BY DEF Loses, Holds, Owes, At, Job

\* A step that leaves queue, workers and requests alone moves no message.
LEMMA NothingMoves == UNCHANGED <<queue, worker, request>> => Loses
  BY DEF Loses, Holds, Owes, At, Job

\* Goto, GotoWith and Raise keep the message.
LEMMA StepsOn ==
    ASSUME TypeInv, NEW w \in Workers, NEW step, NEW snap, ~At(w, "idle"),
           Goto(w, step) \/ GotoWith(w, step, snap),
           step = "done" \/ ~At(w, "done"), queue' \subseteq queue, UNCHANGED request
    PROVE Loses
  <1>1. \A u \in Workers \ {w} : worker'[u] = worker[u]
    BY GotoWorker, GotoWithWorker DEF TypeInv
  <1>2. worker'[w].step = step /\ worker'[w].msg = worker[w].msg
    BY GotoWorker, GotoWithWorker DEF TypeInv
  <1> QED
    BY <1>1, <1>2, GoesOn

\* Idle gives the message up.
LEMMA GivesUp ==
    ASSUME TypeInv, NEW w \in Workers, Idle(w), queue' \subseteq queue, UNCHANGED request
    PROVE Loses
  <1>1. /\ \A u \in Workers \ {w} : worker'[u] = worker[u]
        /\ worker'[w].step = "idle"
    BY DEF Idle, IdleWorker, TypeInv, TypeOK, StoreTypeOK
  <1> QED
    BY <1>1, GoesOn

\* A retry puts the message back and ends the task.
LEMMA RetryMoves == ASSUME TypeInv, NEW w \in Workers, Retry(w) PROVE Moves
  <1> DEFINE m == <<Job(w), Tries(w) + 1>>
  <1>1. m \in Message /\ m[1] = Job(w)
    BY MessageType, BoundsAssumption DEF TypeInv, Retry, MayRetry, Message
  <1>2. /\ \A u \in Workers \ {w} : worker'[u] = worker[u]
        /\ worker'[w].step = "done"
    BY GotoWorker DEF TypeInv, Retry
  <1>3. PutsBack(w, m)
    BY <1>1, <1>2 DEF PutsBack, Retry, Holds, Owes, At, Job
  <1> QED
    BY <1>1, <1>3 DEF Moves

\* Begin and BeginDeletion take a message.
LEMMA BeginMoves ==
    ASSUME TypeInv, NEW w \in Workers, NEW m \in queue, Begin(w, m) \/ BeginDeletion(w, m)
    PROVE Moves
  <1>1. m \in Message
    BY DEF TypeInv, TypeOK, StoreTypeOK
  <1>2. /\ \A u \in Workers \ {w} : worker'[u] = worker[u]
        /\ worker'[w].msg = m
    BY DEF Begin, BeginDeletion, TypeInv, TypeOK, StoreTypeOK
  <1>3. At(w, "idle") /\ queue' = queue \ {m} /\ UNCHANGED request
    BY DEF Begin, BeginDeletion
  <1>4. Takes(w, m)
    BY <1>2, <1>3 DEF Takes, Holds, Owes, At, Job
  <1> QED
    BY <1>1, <1>4 DEF Moves

\* Worker steps move messages.
LEMMA WorkerMoves == ASSUME TypeInv, NEW w \in Workers, WorkerStepOf(w) PROVE Moves
  <1>1. CASE TaskStep(w)
    <2>1. CASE RetryLost(w) \/ GiveUp(w) \/ FailRead(w) \/ SqlError(w)
      BY <2>1, StepsOn DEF Moves, RetryLost, GiveUp, FailRead, SqlError, Raise, At,
         InTransaction
    <2>2. CASE Acknowledge(w)
      BY <2>2, GivesUp DEF Moves, Acknowledge
    <2> QED
      BY <1>1, <2>1, <2>2, RetryMoves DEF TaskStep
  <1>2. CASE IngestionStep(w)
    <2>1. CASE Claim(w) \/ ClaimFails(w) \/ Prepare(w) \/ SourceMissing(w)
               \/ PermanentFailure(w) \/ TransientFailure(w)
      BY <2>1, StepsOn DEF Moves, Claim, ClaimFails, Prepare, SourceMissing,
         PermanentFailure, TransientFailure, Raise, At
    <2>2. CASE Publish(w) \/ PublishRefused(w) \/ MarkFailed(w) \/ MarkFailedRefused(w)
      BY <2>2, StepsOn DEF Moves, Publish, PublishRefused, MarkFailed, MarkFailedRefused,
         Raise, At
    <2> QED
      BY <1>2, <2>1, <2>2, BeginMoves DEF IngestionStep
  <1>3. CASE DeletionStep(w)
    <2>1. CASE ClaimDeletion(w) \/ RemoveSource(w) \/ StorageError(w)
      <3>1. /\ \A u \in Workers \ {w} : worker'[u] = worker[u]
            /\ worker'[w].msg = worker[w].msg
        BY <2>1 DEF ClaimDeletion, RemoveSource, StorageError, TypeInv, TypeOK,
           StoreTypeOK, WorkerRecord
      <3> QED
        BY <2>1, <3>1, GoesOn DEF Moves, ClaimDeletion, RemoveSource, StorageError, At
    <2>2. CASE Purge(w) \/ PurgeRefused(w) \/ MarkDeletionFailed(w)
      BY <2>2, StepsOn DEF Moves, Purge, PurgeRefused, MarkDeletionFailed, At
    <2> QED
      BY <1>3, <2>1, <2>2, BeginMoves DEF DeletionStep
  <1> QED
    BY <1>1, <1>2, <1>3 DEF WorkerStepOf

\* Delivered once, the broker only loses messages.
LEMMA BrokerMoves == ASSUME TypeInv, DeliveredOnce, BrokerStep PROVE Moves
  <1>1. ASSUME NEW w \in Workers, WorkerLost(w) \/ Redeliver(w) PROVE FALSE
    BY <1>1 DEF WorkerLost, Redeliver, Fault, DeliveredOnce
  <1>2. ASSUME NEW w \in Workers, TaskKilled(w) PROVE Moves
    BY <1>2, GivesUp DEF TaskKilled, Moves
  <1>3. CASE LoseMessages
    BY <1>3 DEF LoseMessages, Moves, Loses, Holds, Owes, At, Job
  <1>4. ASSUME NEW j \in AllJobs, RepublishStale(j) PROVE FALSE
    BY <1>4 DEF RepublishStale, DeliveredOnce
  <1> QED
    BY <1>1, <1>2, <1>3, <1>4 DEF BrokerStep

\* A commit owes the message of a job that had none; publication sends it.
LEMMA ApiMoves ==
    ASSUME TypeInv, FreshRequests, NEW c \in Clients, ApiStep(c)
    PROVE Moves \/ (Commits(c, request[c].job) /\ Inserts(c))
  <1>0. request \in [Clients -> RequestRecord] /\ RequestsNamed
    BY DEF TypeInv, TypeOK, StoreTypeOK
  <1>1. UNCHANGED worker
    BY DEF ApiStep, StoreUpload, CommitUpload, StoreReplacement, CommitReplacement,
       LoadReindex, CommitReindex, Refuse, ReplacementQueryFails, DiscardUnsure,
       AcceptDeletion, PublishJob, PublishJobFails, AbandonRequest
  <1>2. \A w \in Workers, j \in Jobs : Holds(w, j)' => Holds(w, j)
    BY <1>1 DEF Holds, At, Job
  <1>3. CASE Inserts(c)
    <2>1. /\ \A d \in Clients \ {c} : request'[d] = request[d]
          /\ request'[c].job = request[c].job
      BY <1>3, CommitReturnsStep DEF Inserts, CommitUpload, CommitReplacement,
         CommitReindex, RequestAt
    <2>2. queue' = queue
      BY <1>3 DEF Inserts, CommitUpload, CommitReplacement, CommitReindex
    <2>3. request[c].job \in Jobs /\ job[request[c].job].status = "none"
      BY <1>0, <1>3 DEF Inserts, CommitUpload, CommitReplacement, CommitReindex, RequestAt,
         FreshRequests, RequestsNamed
    <2> QED
      BY <1>2, <1>3, <2>1, <2>2, <2>3 DEF Commits, Owes
  <1>4. CASE PublishJob(c)
    <2> DEFINE m == <<request[c].job, 0>>
    <2>1. m \in Message /\ m[1] = request[c].job
      BY <1>0, <1>4, BoundsAssumption DEF PublishJob, RequestsNamed, Message
    <2>2. /\ \A d \in Clients \ {c} : request'[d] = request[d]
          /\ request'[c].step = "idle"
      BY <1>0, <1>4 DEF PublishJob, Answered, IdleRequest
    <2>3. Sends(c, m)
      BY <1>2, <1>4, <2>1, <2>2 DEF Sends, PublishJob, Owes
    <2> QED
      BY <2>1, <2>3 DEF Moves
  <1>5. CASE AcceptDeletion(c)
    <2>1. /\ \A d \in Clients \ {c} : request'[d] = request[d]
          /\ request'[c].job = Deletion
      BY <1>0, <1>5 DEF AcceptDeletion, IdleRequest
    <2>2. \A d \in Clients, j \in Jobs : Owes(d, j)' => Owes(d, j)
      BY <2>1, JobsAssumption DEF Owes
    <2> QED
      BY <1>2, <1>5, <2>2 DEF AcceptDeletion, Loses, Moves
  <1>6. CASE \/ StoreUpload(c) \/ Refuse(c) \/ PublishJobFails(c) \/ AbandonRequest(c)
             \/ \E j \in Jobs : StoreReplacement(c, j) \/ LoadReindex(c, j)
    <2>1. /\ \A d \in Clients \ {c} : request'[d] = request[d]
          /\ request'[c].step # "committed"
      BY <1>0, <1>6 DEF StoreUpload, StoreReplacement, LoadReindex, Refuse,
         PublishJobFails, AbandonRequest, Loaded, Answered, IdleRequest
    <2>2. queue' = queue
      BY <1>6 DEF StoreUpload, StoreReplacement, LoadReindex, Refuse,
         PublishJobFails, AbandonRequest
    <2> QED
      BY <1>2, <2>1, <2>2 DEF Moves, Loses, Owes
  <1>7. CASE ReplacementQueryFails(c) \/ DiscardUnsure(c)
    <2>1. /\ \A d \in Clients \ {c} : request'[d] = request[d]
          /\ request'[c].step = "failed"
      BY <1>7, RequestMove DEF ReplacementQueryFails, RequestAt, DiscardUnsure, EndsInError
    <2>2. queue' = queue
      BY <1>7 DEF ReplacementQueryFails, DiscardUnsure
    <2> QED
      BY <1>2, <2>1, <2>2 DEF Moves, Loses, Owes
  <1> QED
    BY <1>3, <1>4, <1>5, <1>6, <1>7 DEF ApiStep, Inserts

\* The message moves of Next.
LEMMA MessageMoves ==
    ASSUME TypeInv, FreshRequests, DeliveredOnce, [Next]_vars
    PROVE Moves \/ \E c \in Clients : (Commits(c, request[c].job) /\ Inserts(c))
  <1>1. CASE UNCHANGED vars
    BY <1>1, NothingMoves DEF vars, Moves
  <1> QED
    BY <1>1, WorkerMoves, BrokerMoves, ApiMoves DEF Next

\* A move creates no message for a job that had none.
LEMMA MovesCarry == ASSUME Moves, NEW j \in Jobs, Carried(j)' PROVE Carried(j)
  <1>1. CASE Loses
    BY <1>1 DEF Loses, Carried, Queued
  <1>2. ASSUME NEW w \in Workers, NEW m \in Message, Takes(w, m) PROVE Carried(j)
    BY <1>2 DEF Takes, Carried, Queued
  <1>3. ASSUME NEW w \in Workers, NEW m \in Message, PutsBack(w, m) PROVE Carried(j)
    BY <1>3 DEF PutsBack, Carried, Queued
  <1>4. ASSUME NEW c \in Clients, NEW m \in Message, Sends(c, m) PROVE Carried(j)
    BY <1>4 DEF Sends, Carried, Queued
  <1> QED
    BY <1>1, <1>2, <1>3, <1>4 DEF Moves

\* Only the committed job gets a message.
LEMMA CommitsCarry ==
    ASSUME NEW c \in Clients, NEW i, Commits(c, i), NEW j \in Jobs, Carried(j)', j # i
    PROVE Carried(j)
  BY DEF Commits, Carried, Queued

\* One message of a job, in one place.
LEMMA OneMessageNext ==
    ASSUME TypeInv, FreshRequests, DeliveredOnce, OneMessage, CarriedIsBusy, [Next]_vars
    PROVE OneMessage'
  <1>1. CASE Loses
    BY <1>1 DEF Loses, OneMessage, Queued
  <1>2. ASSUME NEW w \in Workers, NEW m \in Message, Takes(w, m) PROVE OneMessage'
    BY <1>2 DEF Takes, OneMessage, Queued
  <1>3. ASSUME NEW w \in Workers, NEW m \in Message, PutsBack(w, m) PROVE OneMessage'
    BY <1>3 DEF PutsBack, OneMessage, Queued
  <1>4. ASSUME NEW c \in Clients, NEW m \in Message, Sends(c, m) PROVE OneMessage'
    BY <1>4 DEF Sends, OneMessage, Queued
  <1>5. ASSUME NEW c \in Clients, NEW i, Commits(c, i) PROVE OneMessage'
    <2>1. i \in Jobs /\ ~Carried(i)
      BY <1>5 DEF Commits, CarriedIsBusy, Busy, ActiveJobStatus
    <2> QED
      BY <1>5, <2>1 DEF Commits, OneMessage, Queued, Carried
  <1> QED
    BY <1>1, <1>2, <1>3, <1>4, <1>5, MessageMoves DEF Moves

-----------------------------------------------------------------------------
(* What the steps do to the rows.                                          *)

RestInv ==
    /\ CarriedIsBusy /\ OneBusy /\ JobsKnown /\ InitialFirst /\ ServedIsSettled
    /\ ReadIsCurrent /\ AfterPurge /\ StatusesAgree

New == {g \in Jobs : job[g].status \notin {"succeeded", "purged"}}
Withdrawn == job[Deletion].status # "none"
Stutters == UNCHANGED <<Found, New, Withdrawn>>

\* What a search finds depends on the active version and its generation.
LEMMA FoundStays ==
    ASSUME doc'.active = doc.active,
           doc.active # None =>
                /\ doc'.status = doc.status
                /\ version'[doc.active].status = version[doc.active].status
                /\ version'[doc.active].gen = version[doc.active].gen
                /\ generation'[version[doc.active].gen] = generation[version[doc.active].gen]
    PROVE UNCHANGED Found
  BY DEF Found

\* A worker at an ingestion job whose row is there is the only one.
LEMMA HolderAlone ==
    ASSUME IInv, OnceInv, NEW w \in Workers, NEW j \in Jobs, Holds(w, j), JobRow(j)
    PROVE /\ Busy(j)
          /\ \A u \in Workers, k \in Jobs : Holds(u, k) /\ JobRow(k) => u = w
          /\ \A k \in Jobs : Carried(k) => job[k].status # "purged"
          /\ doc.active # j
          /\ \A v \in Jobs : doc.active = v => version[v].gen # j
  <1>1. Busy(j) /\ job[j].status # "purged"
    BY DEF OnceInv, CarriedIsBusy, Carried, JobRow
  <1>2. \A u \in Workers, k \in Jobs : Holds(u, k) /\ JobRow(k) => u = w
    <2> SUFFICES ASSUME NEW u \in Workers, NEW k \in Jobs, Holds(u, k), JobRow(k)
                 PROVE u = w
      OBVIOUS
    <2>1. Busy(k)
      BY DEF OnceInv, CarriedIsBusy, Carried, JobRow
    <2> QED
      BY <1>1, <2>1 DEF OnceInv, OneBusy, OneMessage
  <1>3. \A k \in Jobs : Carried(k) => job[k].status # "purged"
    BY <1>1 DEF OnceInv, AfterPurge
  <1>4. doc.active # j /\ \A v \in Jobs : doc.active = v => version[v].gen # j
    BY <1>1 DEF OnceInv, ServedIsSettled, Busy, ActiveJobStatus
  <1> QED
    BY <1>1, <1>2, <1>3, <1>4

(* The statuses a worker writes at its job, short of publication.          *)
HolderMarks(w, j) ==
    /\ Holds(w, j) /\ JobRow(j) /\ RowsMarked /\ Loses
    /\ job'[Deletion] = job[Deletion]
    /\ \A k \in Jobs \ {j} : job'[k].status = job[k].status
    /\ \/ job'[j].status \in ActiveJobStatus
       \/ job'[j].status = "failed" /\ worker'[w].step = "done"
    /\ \A v \in Jobs :
        \/ version'[v].status = version[v].status
        \/ doc.active # v /\ version'[v].status # "active"
    /\ \A g \in Jobs \ {j} : generation'[g] = generation[g]
    /\ \/ doc'.status = doc.status
       \/ doc.active = None /\ doc'.status # "available"
    /\ \A u \in Workers \ {w} : worker'[u] = worker[u]
    /\ worker'[w].step \notin Reading
    /\ UNCHANGED request

\* Marking statuses keeps the invariant and what a search finds.
LEMMA HolderRest ==
    ASSUME IInv, OnceInv, NEW w \in Workers, NEW j \in Jobs, HolderMarks(w, j)
    PROVE RestInv' /\ Stutters
  <1>0. /\ TypeInv /\ RowsMarked /\ Busy(j)
        /\ \A v \in Jobs : version[v].gen \in Jobs \cup {None}
        /\ \A k \in Jobs : job[k].ver \in Jobs
    BY HolderAlone DEF HolderMarks, IInv, TypeInv, TypeOK, StoreTypeOK, VersionRecord,
       AllJobs, JobRecord
  <1>1. \A k \in Jobs : Carried(k)' => Carried(k)
    BY MovesCarry DEF HolderMarks, Moves
  <1>2. CarriedIsBusy'
    <2>1. job'[j].status = "failed" /\ worker'[w].step = "done" => ~Carried(j)'
      BY DEF HolderMarks, Loses, Carried, Queued, Holds, At, OnceInv, OneMessage
    <2> SUFFICES ASSUME NEW k \in Jobs, Carried(k)' PROVE Busy(k)' \/ job'[k].status = "purged"
      BY DEF CarriedIsBusy
    <2> QED
      BY <1>1, <2>1 DEF HolderMarks, OnceInv, CarriedIsBusy, Busy
  <1>3. OneBusy'
    <2>1. \A k \in Jobs : Busy(k)' => Busy(k)
      BY <1>0 DEF HolderMarks, Busy
    <2> QED
      BY <2>1 DEF OnceInv, OneBusy
  <1>4. JobsKnown'
    BY <1>0 DEF OnceInv, JobsKnown, RowsMarked, LifecycleJob
  <1>5. InitialFirst'
    <2>1. Settled(Initial) => Settled(Initial)'
      <3>1. Settled(Initial) => Initial # j
        BY <1>0 DEF Settled, Busy, ActiveJobStatus
      <3> QED
        BY <3>1, JobsAssumption DEF HolderMarks, Settled
    <2> QED
      BY <1>0, <2>1 DEF HolderMarks, OnceInv, InitialFirst, RowsMarked
  <1>6. ServedIsSettled'
    <2> SUFFICES ASSUME NEW v \in Jobs, doc'.active = v
                 PROVE /\ job'[v].status = "succeeded"
                       /\ job'[version'[v].gen].status = "succeeded"
      BY DEF ServedIsSettled
    <2>1. /\ job[v].status = "succeeded" /\ job[version[v].gen].status = "succeeded"
          /\ version[v].gen \in Jobs
      BY <1>0 DEF RowsMarked, OnceInv, ServedIsSettled, IInv, PointersResolve
    <2>2. v # j /\ version[v].gen # j
      BY <1>0, <2>1 DEF Busy, ActiveJobStatus
    <2> QED
      BY <1>0, <2>1, <2>2 DEF HolderMarks, RowsMarked
  <1>7. ReadIsCurrent'
    <2> SUFFICES ASSUME NEW u \in Workers, worker'[u].step \in Reading, Job(u)' \in Jobs,
                        JobRow(Job(u))'
                 PROVE FALSE
      BY DEF ReadIsCurrent
    <2>1. u # w /\ worker'[u] = worker[u]
      BY DEF HolderMarks
    <2>2. Holds(u, Job(u)) /\ Job(u) \in Jobs /\ JobRow(Job(u))
      BY <1>0, <2>1 DEF Holds, At, Job, Reading, RowsMarked
    <2> QED
      BY <2>1, <2>2, HolderAlone DEF HolderMarks
  <1>8. AfterPurge'
    <2>1. \A k \in Jobs : job'[k].status = "purged" => job[k].status = "purged" /\ ~Carried(k)
      BY <1>0, HolderAlone DEF HolderMarks, Busy, ActiveJobStatus
    <2>2. job[Deletion].status # "none" => job'[Deletion].status # "none"
      BY DEF HolderMarks
    <2> QED
      BY <1>1, <2>1, <2>2 DEF OnceInv, AfterPurge
  <1>9. StatusesAgree'
    <2>1. \A v \in Jobs : doc.active = v => version[v].gen \in Jobs \ {j}
      BY <1>0, HolderAlone DEF HolderMarks, IInv, PointersResolve
    <2>2. \A v \in Jobs : version'[v].status = "active" <=> doc'.active = v
      BY <1>0 DEF HolderMarks, RowsMarked, OnceInv, StatusesAgree
    <2>3. \A v \in Jobs : doc'.active = v => generation'[version'[v].gen] = "active"
      BY <1>0, <2>1 DEF HolderMarks, RowsMarked, OnceInv, StatusesAgree
    <2>4. doc'.status = "available" => doc'.active # None
      BY <1>0 DEF HolderMarks, RowsMarked, OnceInv, StatusesAgree
    <2> QED
      BY <2>2, <2>3, <2>4 DEF StatusesAgree
  <1>10. Stutters
    <2>1. New' = New
      <3>1. \A k \in Jobs : k \in New' <=> k \in New
        BY <1>0 DEF HolderMarks, New, Busy, ActiveJobStatus
      <3> QED
        BY <3>1 DEF New
    <2>2. Withdrawn' = Withdrawn
      BY DEF HolderMarks, Withdrawn
    <2>3. UNCHANGED Found
      <3>1. doc.active # None =>
              doc.active \in Jobs /\ version[doc.active].gen \in Jobs \ {j}
        BY <1>0, HolderAlone DEF HolderMarks, IInv, PointersResolve, TypeInv, TypeOK,
           StoreTypeOK, DocumentRecord
      <3>2. doc.active # None => version'[doc.active].status = version[doc.active].status
        BY <3>1 DEF HolderMarks
      <3> QED
        BY <1>0, <3>1, <3>2, FoundStays DEF HolderMarks, RowsMarked
    <2> QED
      BY <2>1, <2>2, <2>3 DEF Stutters
  <1> QED
    BY <1>2, <1>3, <1>4, <1>5, <1>6, <1>7, <1>8, <1>9, <1>10 DEF RestInv

\* What a worker read before its write is what is there, at a job with a row.
LEMMA ReadStillTrue ==
    ASSUME OnceInv, NEW w \in Workers, worker[w].step \in Reading,
           Job(w) \in Jobs, JobRow(Job(w))
    PROVE /\ Holds(w, Job(w))
          /\ worker[w].snap.active = doc.active
          /\ worker[w].snap.job = job[Job(w)].status
          /\ worker[w].snap.ver = version[job[Job(w)].ver].status
  BY DEF OnceInv, ReadIsCurrent, Reading, Holds, At

\* The claim is such a marking.
LEMMA ClaimHolds ==
    ASSUME IInv, OnceInv, NEW w \in Workers, Claim(w) PROVE HolderMarks(w, Job(w))
  <1> DEFINE j == Job(w)
             v == job[j].ver
             r == worker[w].snap
  <1>0. TypeInv /\ RowsMarked /\ Loses
    <2>1. TypeInv /\ RowsLinked
      BY DEF IInv
    <2> QED
      BY <2>1, ClaimMarks, StepsOn DEF Claim, At
  <1>1. j \in Jobs /\ JobRow(j) /\ v \in Jobs /\ j # Deletion /\ j \in AllJobs
    BY <1>0, JobsAssumption DEF TypeInv, LockHeld, Claim, At, Attempting, ClaimRefused,
       TypeOK, StoreTypeOK, AllJobs, JobRecord
  <1>2. /\ Holds(w, j) /\ r.active = doc.active /\ r.job = job[j].status
        /\ r.ver = version[v].status
    BY <1>1, ReadStillTrue DEF Claim, At, Reading
  <1>3. Busy(j) /\ doc.active # j
    BY <1>1, <1>2, HolderAlone
  <1>4. /\ job'[j].status = "running"
        /\ \A k \in AllJobs \ {j} : job'[k] = job[k]
    BY <1>0, <1>1, <1>2 DEF Claim, ClaimedJob, Flushed, TypeInv, TypeOK, StoreTypeOK,
       JobRecord
  <1>5. \A u \in Jobs :
            \/ version'[u].status = version[u].status
            \/ doc.active # u /\ version'[u].status # "active"
    <2>1. CASE job[j].op = "reindex"
      BY <2>1 DEF Claim
    <2>2. CASE job[j].op # "reindex"
      <3>1. v = j
        BY <1>1, <2>2 DEF OnceInv, JobsKnown
      <3>2. \A u \in Jobs \ {j} : version'[u] = version[u]
        BY <2>2, <3>1, <1>0 DEF Claim, TypeInv, TypeOK, StoreTypeOK
      <3>3. version'[j].status \in {version[j].status, "processing"}
        BY <2>2, <3>1, <1>0, <1>1 DEF Claim, Flushed, TypeInv, TypeOK, StoreTypeOK,
           VersionRecord
      <3> QED
        BY <3>2, <3>3, <1>3
    <2> QED
      BY <2>1, <2>2
  <1>6. \A g \in Jobs \ {j} : generation'[g] = generation[g]
    BY <1>0 DEF Claim, TypeInv, TypeOK, StoreTypeOK
  <1>7. doc'.status = doc.status \/ (doc.active = None /\ doc'.status # "available")
    BY <1>0, <1>2 DEF Claim, Flushed, TypeInv, TypeOK, StoreTypeOK, DocumentRecord
  <1>8. /\ \A u \in Workers \ {w} : worker'[u] = worker[u]
        /\ worker'[w].step = "work"
    BY <1>0, GotoWithWorker DEF Claim, TypeInv
  <1> QED
    BY <1>0, <1>1, <1>2, <1>4, <1>5, <1>6, <1>7, <1>8
       DEF HolderMarks, Claim, Busy, ActiveJobStatus, Reading, AllJobs

\* So is a job put back to retrying.
LEMMA TransientFailureHolds ==
    ASSUME IInv, OnceInv, NEW w \in Workers, TransientFailure(w)
    PROVE UNCHANGED rows \/ HolderMarks(w, Job(w))
  <1> DEFINE j == Job(w)
  <1>0. TypeInv /\ RowsMarked
    BY TransientFailureMarks DEF IInv
  <1>1. j \in Jobs /\ j # Deletion /\ j \in AllJobs
    BY <1>0, JobsAssumption DEF TypeInv, LockHeld, TransientFailure, At, Attempting, AllJobs
  <1>2. CASE job' = job
    BY <1>2 DEF TransientFailure, rows
  <1>3. CASE job' # job
    <2>1. JobRow(j) /\ job' = [job EXCEPT ![j].status = "retrying"]
      BY <1>3 DEF TransientFailure, MarksRetrying
    <2>2. PICK step \in {"retry", "failRead"} : Raise(w, step)
      BY <1>3 DEF TransientFailure
    <2>3. /\ \A u \in Workers \ {w} : worker'[u] = worker[u]
          /\ worker'[w].step = step
      BY <1>0, <2>2, GotoWithWorker DEF Raise, TypeInv
    <2>4. Holds(w, j) /\ Loses
      BY <1>0, <2>2, StepsOn DEF TransientFailure, At, Holds, Raise
    <2>5. /\ job'[j].status = "retrying"
          /\ \A k \in AllJobs \ {j} : job'[k] = job[k]
      BY <1>0, <1>1, <2>1 DEF TypeInv, TypeOK, StoreTypeOK, JobRecord
    <2> QED
      BY <1>0, <1>1, <2>1, <2>3, <2>4, <2>5
         DEF HolderMarks, TransientFailure, Busy, ActiveJobStatus, Reading, AllJobs
  <1> QED
    BY <1>2, <1>3

\* So is a failure that is written while the rows are there.
LEMMA MarkFailedHolds ==
    ASSUME IInv, OnceInv, NEW w \in Workers, MarkFailed(w), JobRow(Job(w))
    PROVE HolderMarks(w, Job(w))
  <1> DEFINE j == Job(w)
             v == job[j].ver
             r == worker[w].snap
  <1>0. TypeInv /\ RowsMarked /\ Loses
    <2>1. TypeInv /\ RowsLinked
      BY DEF IInv
    <2> QED
      BY <2>1, MarkFailedMarks, StepsOn DEF MarkFailed, At
  <1>1. j \in Jobs /\ v \in Jobs /\ j # Deletion /\ j \in AllJobs
    BY <1>0, MessageType DEF TypeInv, MarkFailed, TypeOK, StoreTypeOK, AllJobs, JobRecord
  <1>2. /\ Holds(w, j) /\ r.active = doc.active /\ r.job = job[j].status
        /\ r.ver = version[v].status
    BY <1>1, ReadStillTrue DEF MarkFailed, At, Reading
  <1>3. Busy(j) /\ r.job \notin {"none", "purged", "succeeded", "failed"}
    BY <1>1, <1>2, HolderAlone DEF Busy, ActiveJobStatus
  <1>4. /\ job'[j].status = "failed"
        /\ \A k \in AllJobs \ {j} : job'[k] = job[k]
    BY <1>0, <1>1, <1>2, <1>3 DEF MarkFailed, Flushed, TypeInv, TypeOK, StoreTypeOK,
       JobRecord
  <1>5. \A u \in Jobs :
            \/ version'[u].status = version[u].status
            \/ doc.active # u /\ version'[u].status # "active"
    <2>1. CASE version[v].status = "active"
      BY <2>1, <1>2 DEF MarkFailed
    <2>2. CASE version[v].status # "active"
      <3>1. \A u \in Jobs \ {v} : version'[u] = version[u]
        BY <1>0 DEF MarkFailed, TypeInv, TypeOK, StoreTypeOK
      <3>2. version'[v].status \in {version[v].status, "failed"}
        BY <1>0, <1>1 DEF MarkFailed, Flushed, TypeInv, TypeOK, StoreTypeOK, VersionRecord
      <3>3. doc.active # v
        BY <1>1, <2>2 DEF OnceInv, StatusesAgree
      <3> QED
        BY <3>1, <3>2, <3>3
    <2> QED
      BY <2>1, <2>2
  <1>6. \A g \in Jobs \ {j} : generation'[g] = generation[g]
    BY <1>0 DEF MarkFailed, TypeInv, TypeOK, StoreTypeOK
  <1>7. doc'.status = doc.status \/ (doc.active = None /\ doc'.status # "available")
    BY <1>0, <1>2 DEF MarkFailed, FailsDocument, Flushed, TypeInv, TypeOK, StoreTypeOK,
       DocumentRecord
  <1>8. /\ \A u \in Workers \ {w} : worker'[u] = worker[u]
        /\ worker'[w].step = "done"
    BY <1>0, GotoWithWorker DEF MarkFailed, TypeInv
  <1> QED
    BY <1>0, <1>1, <1>2, <1>4, <1>5, <1>6, <1>7, <1>8
       DEF HolderMarks, MarkFailed, Reading, AllJobs

\* A worker about to write either read before this step, or reads in it.
LEMMA ReadsNow ==
    ASSUME TypeInv, [Next]_vars, NEW u \in Workers, worker'[u].step \in Reading
    PROVE \/ worker'[u] = worker[u]
          \/ worker'[u].snap = Read(worker'[u].msg[1])
  <1>0. worker \in [Workers -> WorkerRecord]
    BY DEF TypeInv, TypeOK, StoreTypeOK
  <1>1. ASSUME NEW w \in Workers, WorkerStepOf(w), u # w PROVE worker'[u] = worker[u]
    <2>1. CASE TaskStep(w)
      BY <2>1, <1>0, <1>1 DEF TaskStep, Retry, RetryLost, GiveUp, FailRead, SqlError, Raise,
         Acknowledge, Idle, Goto, GotoWith
    <2>2. CASE IngestionStep(w)
      BY <2>2, <1>0, <1>1 DEF IngestionStep, Begin, Claim, ClaimFails, Prepare,
         SourceMissing, PermanentFailure, TransientFailure, Publish, PublishRefused,
         MarkFailed, MarkFailedRefused, Raise, Goto, GotoWith
    <2>3. CASE DeletionStep(w)
      BY <2>3, <1>0, <1>1 DEF DeletionStep, BeginDeletion, ClaimDeletion, RemoveSource,
         StorageError, Purge, PurgeRefused, MarkDeletionFailed, Goto, GotoWith
    <2> QED
      BY <1>1, <2>1, <2>2, <2>3 DEF WorkerStepOf
  <1>2. ASSUME WorkerStepOf(u) PROVE worker'[u].snap = Read(worker'[u].msg[1])
    <2>1. CASE FailRead(u)
      BY <2>1, <1>0 DEF FailRead, GotoWith, Job, WorkerRecord
    <2>2. CASE Retry(u) \/ RetryLost(u) \/ GiveUp(u) \/ SqlError(u) \/ Acknowledge(u)
      BY <2>2, <1>0 DEF Retry, RetryLost, GiveUp, SqlError, Raise, Acknowledge, Idle,
         IdleWorker, Goto, GotoWith, Reading, WorkerRecord
    <2>3. ASSUME NEW m \in queue, Begin(u, m)
          PROVE worker'[u].snap = Read(worker'[u].msg[1])
      <3>1. worker'[u].msg = m /\ (worker'[u].step = "claim" => worker'[u].snap = Read(m[1]))
        BY <2>3, <1>0 DEF Begin
      <3>2. worker'[u].step \in {"done", "claim"}
        BY <2>3, <1>0 DEF Begin
      <3> QED
        BY <3>1, <3>2 DEF Reading
    <2>4. CASE \/ Claim(u) \/ ClaimFails(u) \/ Prepare(u) \/ SourceMissing(u)
               \/ PermanentFailure(u) \/ TransientFailure(u) \/ Publish(u)
               \/ PublishRefused(u) \/ MarkFailed(u) \/ MarkFailedRefused(u)
      BY <2>4, <1>0 DEF Claim, ClaimFails, Prepare, SourceMissing, PermanentFailure,
         TransientFailure, Publish, PublishRefused, MarkFailed, MarkFailedRefused, Raise,
         Goto, GotoWith, Reading, WorkerRecord
    <2>5. CASE DeletionStep(u)
      <3>1. worker'[u].step \in {"done", "delClaim", "delFiles", "retry"}
        BY <2>5, <1>0 DEF DeletionStep, BeginDeletion, ClaimDeletion, RemoveSource,
           StorageError, Purge, PurgeRefused, MarkDeletionFailed, Goto, GotoWith, At,
           WorkerRecord
      <3> QED
        BY <3>1 DEF Reading
    <2> QED
      BY <1>2, <2>1, <2>2, <2>3, <2>4, <2>5 DEF WorkerStepOf, TaskStep, IngestionStep
  <1>3. CASE BrokerStep
    <2>1. ASSUME NEW w \in Workers, WorkerLost(w) \/ TaskKilled(w)
          PROVE worker'[u] = worker[u]
      BY <2>1, <1>0 DEF WorkerLost, TaskKilled, Idle, IdleWorker, Reading
    <2> QED
      BY <1>3, <2>1 DEF BrokerStep, Redeliver, LoseMessages, RepublishStale
  <1>4. ASSUME NEW c \in Clients, ApiStep(c) PROVE UNCHANGED worker
    BY <1>4 DEF ApiStep, StoreUpload, CommitUpload, StoreReplacement, CommitReplacement,
       LoadReindex, CommitReindex, Refuse, ReplacementQueryFails, DiscardUnsure,
       AcceptDeletion, PublishJob, PublishJobFails, AbandonRequest
  <1>5. CASE UNCHANGED vars
    BY <1>5 DEF vars
  <1> QED
    BY <1>1, <1>2, <1>3, <1>4, <1>5 DEF Next

(* What a worker saw of a job it starts on: a document that can be read,   *)
(* or a deletion that was accepted.                                        *)
Startable(j) ==
    IF j = Deletion THEN job[Deletion].status # "none" ELSE doc.status \notin Unreadable

\* A worker starts on such a job only.
LEMMA StartsStartable ==
    ASSUME TypeInv, DeliveredOnce, [Next]_vars,
           NEW w \in Workers, NEW j \in AllJobs, Holds(w, j)', ~Holds(w, j)
    PROVE Startable(j)
  <1>1. ASSUME NEW u \in Workers, NEW m \in queue, Begin(u, m) PROVE Startable(j)
    <2>1. u = w
      BY <1>1 DEF Begin, Holds, At, Job, TypeInv, TypeOK, StoreTypeOK
    <2>2. worker'[w].step # "done" /\ worker'[w].msg[1] = j
      BY DEF Holds, At, Job
    <2> QED
      BY <1>1, <2>1, <2>2 DEF Begin, ClaimStops, Read, TypeInv, TypeOK, StoreTypeOK,
         Startable
  <1>2. ASSUME NEW u \in Workers, NEW m \in queue, BeginDeletion(u, m) PROVE Startable(j)
    <2>1. u = w
      BY <1>2 DEF BeginDeletion, Holds, At, Job, TypeInv, TypeOK, StoreTypeOK
    <2>2. worker'[w].step # "done" /\ worker'[w].msg[1] = j
      BY DEF Holds, At, Job
    <2> QED
      BY <1>2, <2>1, <2>2 DEF BeginDeletion, DeletionStops, Read, TypeInv, TypeOK,
         StoreTypeOK, Startable
  <1>3. ASSUME NEW u \in Workers, WorkerStepOf(u) PROVE Startable(j)
    <2>1. CASE \/ TaskStep(u)
               \/ Claim(u) \/ ClaimFails(u) \/ Prepare(u) \/ SourceMissing(u)
               \/ PermanentFailure(u) \/ TransientFailure(u) \/ Publish(u)
               \/ PublishRefused(u) \/ MarkFailed(u) \/ MarkFailedRefused(u)
               \/ ClaimDeletion(u) \/ RemoveSource(u) \/ StorageError(u)
               \/ Purge(u) \/ PurgeRefused(u) \/ MarkDeletionFailed(u)
      <3>1. worker \in [Workers -> WorkerRecord]
        BY DEF TypeInv, TypeOK, StoreTypeOK
      <3>2. \A x \in Workers \ {u} : worker'[x] = worker[x]
        BY <2>1, <3>1 DEF TaskStep, Retry, RetryLost, GiveUp, FailRead, SqlError, Raise,
           Acknowledge, Idle, Goto, GotoWith, Claim, ClaimFails, Prepare,
           SourceMissing, PermanentFailure, TransientFailure, Publish, PublishRefused,
           MarkFailed, MarkFailedRefused, ClaimDeletion, RemoveSource,
           StorageError, Purge, PurgeRefused, MarkDeletionFailed
      <3>3. worker'[u].msg = worker[u].msg \/ worker'[u].step = "idle"
        <4>1. CASE TaskStep(u)
          BY <3>1, <4>1 DEF TaskStep, Retry, RetryLost, GiveUp, FailRead, SqlError, Raise,
             Acknowledge, Idle, IdleWorker, Goto, GotoWith, WorkerRecord
        <4>2. CASE \/ Claim(u) \/ ClaimFails(u) \/ Prepare(u) \/ SourceMissing(u)
                   \/ PermanentFailure(u) \/ TransientFailure(u)
          BY <3>1, <4>2 DEF Raise, Goto, GotoWith, Claim, ClaimFails, Prepare, SourceMissing,
             PermanentFailure, TransientFailure, WorkerRecord
        <4>3. CASE \/ Publish(u) \/ PublishRefused(u) \/ MarkFailed(u) \/ MarkFailedRefused(u)
          BY <3>1, <4>3 DEF Raise, Goto, GotoWith, Publish, PublishRefused, MarkFailed,
             MarkFailedRefused, WorkerRecord
        <4>4. CASE \/ ClaimDeletion(u) \/ RemoveSource(u) \/ StorageError(u)
                   \/ Purge(u) \/ PurgeRefused(u) \/ MarkDeletionFailed(u)
          BY <3>1, <4>4 DEF Raise, Goto, GotoWith, ClaimDeletion, RemoveSource, StorageError,
             Purge, PurgeRefused, MarkDeletionFailed, WorkerRecord
        <4> QED
          BY <2>1, <4>1, <4>2, <4>3, <4>4
      <3>4. worker[u].step = "done" => worker'[u].step \in {"done", "idle"}
        BY <2>1, <3>1 DEF TaskStep, Retry, RetryLost, GiveUp, FailRead, SqlError, Raise,
           InTransaction, At, Acknowledge, Idle, IdleWorker, Claim, ClaimFails, Prepare,
           SourceMissing, PermanentFailure, TransientFailure, Publish, PublishRefused,
           MarkFailed, MarkFailedRefused, ClaimDeletion, RemoveSource,
           StorageError, Purge, PurgeRefused, MarkDeletionFailed
      <3>5. worker[u].step # "idle"
        BY <2>1 DEF TaskStep, Retry, RetryLost, GiveUp, FailRead, SqlError,
           InTransaction, At, Acknowledge, Claim, ClaimFails, Prepare,
           SourceMissing, PermanentFailure, TransientFailure, Publish, PublishRefused,
           MarkFailed, MarkFailedRefused, ClaimDeletion, RemoveSource,
           StorageError, Purge, PurgeRefused, MarkDeletionFailed
      <3> QED
        BY <3>2, <3>3, <3>4, <3>5 DEF Holds, At, Job
    <2> QED
      BY <1>3, <2>1, <1>1, <1>2 DEF WorkerStepOf, IngestionStep, DeletionStep
  <1>4. CASE BrokerStep
    <2>1. ASSUME NEW u \in Workers, TaskKilled(u) PROVE FALSE
      BY <2>1 DEF TaskKilled, Idle, IdleWorker, Holds, At, Job, TypeInv, TypeOK, StoreTypeOK
    <2>2. ASSUME NEW u \in Workers, WorkerLost(u) PROVE FALSE
      BY <2>2 DEF WorkerLost, Fault, DeliveredOnce
    <2> QED
      BY <1>4, <2>1, <2>2 DEF BrokerStep, Redeliver, LoseMessages, RepublishStale, Holds,
         At, Job
  <1>5. ASSUME NEW c \in Clients, ApiStep(c) PROVE FALSE
    BY <1>5 DEF ApiStep, StoreUpload, CommitUpload, StoreReplacement, CommitReplacement,
       LoadReindex, CommitReindex, Refuse, ReplacementQueryFails, DiscardUnsure,
       AcceptDeletion, PublishJob, PublishJobFails, AbandonRequest, Holds, At, Job
  <1>6. CASE UNCHANGED vars
    BY <1>6 DEF vars, Holds, At, Job
  <1> QED
    BY <1>3, <1>4, <1>5, <1>6 DEF Next

\* A replacement or reindex is loaded only of a document with an active version.
LEMMA LoadsActive ==
    ASSUME TypeInv, [Next]_vars, NEW c \in Clients, request'[c].step = "loaded",
           request'[c].op # "initial_ingestion"
    PROVE \/ request[c].step = "loaded" /\ request[c].op # "initial_ingestion"
          \/ doc.active # None
  BY LoadsNext

(* A step that touches no job, version or generation of the document, and  *)
(* makes it available to no search.                                        *)
RowsKept ==
    /\ \A j \in Jobs : job'[j] = job[j]
    /\ version' = version /\ generation' = generation /\ doc'.active = doc.active
    /\ doc'.status = doc.status \/ doc'.status # "available"

\* Such a step keeps the invariant, if it keeps a tombstone some job is late for.
LEMMA KeptRest ==
    ASSUME IInv, OnceInv, DeliveredOnce, [Next]_vars, Moves, RowsKept,
           \A k \in Jobs : job[k].status = "purged" /\ Carried(k)' =>
                doc'.status = doc.status
    PROVE RestInv'
  <1>0. TypeInv /\ RowInv /\ FreshRequests
    BY DEF IInv, RowInv, SourceInv
  <1>1. CarriedIsBusy'
    BY MovesCarry DEF RowsKept, OnceInv, CarriedIsBusy, Busy
  <1>2. OneBusy'
    BY DEF RowsKept, OnceInv, OneBusy, Busy
  <1>3. JobsKnown'
    BY DEF RowsKept, OnceInv, JobsKnown, LifecycleJob
  <1>4. InitialFirst'
    <2>1. Settled(Initial)' <=> Settled(Initial)
      BY JobsAssumption DEF RowsKept, Settled
    <2>2. \A c \in Clients :
              request'[c].step = "loaded" /\ request'[c].op # "initial_ingestion"
                  => Settled(Initial)
      BY <1>0, LoadsActive DEF OnceInv, InitialFirst
    <2> QED
      BY <2>1, <2>2 DEF RowsKept, OnceInv, InitialFirst
  <1>5. ServedIsSettled'
    <2> SUFFICES ASSUME NEW v \in Jobs, doc'.active = v
                 PROVE /\ job'[v].status = "succeeded"
                       /\ job'[version'[v].gen].status = "succeeded"
      BY DEF ServedIsSettled
    <2>1. version[v].gen \in Jobs
      BY <1>0 DEF RowsKept, RowInv, PointersResolve, TypeInv, TypeOK, StoreTypeOK,
         VersionRecord
    <2> QED
      BY <2>1 DEF RowsKept, OnceInv, ServedIsSettled
  <1>6. ReadIsCurrent'
    <2> SUFFICES ASSUME NEW u \in Workers, worker'[u].step \in Reading,
                        NEW j \in Jobs, j = worker'[u].msg[1], JobRow(j)'
                 PROVE /\ worker'[u].snap.active = doc'.active
                       /\ worker'[u].snap.job = job'[j].status
                       /\ worker'[u].snap.ver = version'[job'[j].ver].status
      BY DEF ReadIsCurrent, Job
    <2>1. JobRow(j)
      BY DEF RowsKept, JobRow
    <2>2. CASE worker'[u] = worker[u]
      BY <2>1, <2>2 DEF RowsKept, OnceInv, ReadIsCurrent, Job
    <2>3. CASE worker'[u].snap = Read(j)
      BY <2>3, JobsAssumption DEF RowsKept, Read
    <2> QED
      BY <1>0, <2>2, <2>3, ReadsNow
  <1>7. AfterPurge'
    <2> SUFFICES ASSUME NEW j \in Jobs, job'[j].status = "purged"
                 PROVE /\ job'[Deletion].status # "none"
                       /\ Carried(j)' =>
                          /\ doc'.status = "deleted"
                          /\ \A k \in Jobs : Carried(k)' /\ job'[k].status = "purged" => k = j
                          /\ \A w \in Workers, k \in Jobs : Holds(w, k)' => k = j
      BY DEF AfterPurge
    <2>1. job[j].status = "purged"
      BY DEF RowsKept
    <2>2. job'[Deletion].status # "none"
      BY <1>0, <2>1, AcceptedStays DEF OnceInv, AfterPurge
    <2>3. ASSUME Carried(j)'
          PROVE /\ doc'.status = "deleted" /\ doc.status = "deleted"
                /\ \A k \in Jobs : Carried(k)' /\ job'[k].status = "purged" => k = j
                /\ \A w \in Workers, k \in Jobs : Holds(w, k) => k = j
      <3>1. Carried(j) /\ doc'.status = doc.status
        BY <2>1, <2>3, MovesCarry
      <3> QED
        BY <2>1, <3>1, MovesCarry DEF RowsKept, OnceInv, AfterPurge
    <2>4. ASSUME Carried(j)', NEW w \in Workers, NEW k \in Jobs, Holds(w, k)' PROVE k = j
      BY <1>0, <2>3, <2>4, StartsStartable, JobsAssumption
         DEF Startable, Unreadable, AllJobs
    <2> QED
      BY <2>2, <2>3, <2>4
  <1>8. StatusesAgree'
    BY DEF RowsKept, OnceInv, StatusesAgree
  <1> QED
    BY <1>1, <1>2, <1>3, <1>4, <1>5, <1>6, <1>7, <1>8 DEF RestInv

\* A step that leaves the rows alone.
LEMMA QuietRest ==
    ASSUME IInv, OnceInv, DeliveredOnce, [Next]_vars, UNCHANGED rows
    PROVE RestInv' /\ Stutters
  <1>0. TypeInv /\ FreshRequests
    BY DEF IInv, SourceInv
  <1>1. RowsKept
    BY DEF RowsKept, rows
  <1>2. ASSUME NEW c \in Clients, Commits(c, request[c].job), Inserts(c) PROVE FALSE
    <2>1. job'[request[c].job].status = "queued"
      BY <1>0, <1>2 DEF Inserts, CommitUpload, CommitReplacement, CommitReindex, InsertJob,
         TypeInv, TypeOK, StoreTypeOK, AllJobs, Commits, RequestAt, RequestsNamed
    <2> QED
      BY <1>2, <2>1 DEF Commits, rows
  <1>3. Moves
    BY <1>0, <1>2, MessageMoves
  <1>4. Stutters
    BY DEF Stutters, Found, New, Withdrawn, rows
  <1> QED
    BY <1>1, <1>3, <1>4, KeptRest DEF rows

\* A failure written after the purge.
LEMMA LateFailureRest ==
    ASSUME IInv, OnceInv, DeliveredOnce, [Next]_vars,
           NEW w \in Workers, MarkFailed(w), ~JobRow(Job(w))
    PROVE RestInv' /\ Stutters
  <1> DEFINE r == worker[w].snap
  <1>0. TypeInv
    BY DEF IInv
  <1>1. PICK j : j = Job(w)
    OBVIOUS
  <1>2. /\ j \in Jobs /\ Holds(w, j)
        /\ r.job \in {"none", "purged"}
        /\ worker'[w].step = "done" /\ \A u \in Workers \ {w} : worker'[u] = worker[u]
    BY <1>0, <1>1, MessageType, GotoWithWorker DEF TypeInv, MarkFailed, RowsVanished,
       AllJobs, At, Holds
  <1>3. job[j].status = "purged" /\ Carried(j)
    BY <1>1, <1>2 DEF Carried, OnceInv, CarriedIsBusy, Busy, ActiveJobStatus, JobRow
  <1>4. doc.status = "deleted" /\ doc.active = None
    BY <1>2, <1>3 DEF OnceInv, AfterPurge, IInv, DeletedIsUnsearchable
  <1>5. RowsKept /\ job' = job /\ doc'.status # "available"
    <2>1. UNCHANGED <<job, version, generation>>
      BY <1>2 DEF MarkFailed
    <2>2. doc'.active = doc.active /\ doc'.status \in {doc.status, "failed"}
      BY <1>0 DEF MarkFailed, Flushed, TypeInv, TypeOK, StoreTypeOK, DocumentRecord
    <2> QED
      BY <2>1, <2>2, <1>4 DEF RowsKept
  <1>6. Loses
    BY <1>0, StepsOn DEF MarkFailed, At
  <1>7. ~Carried(j)'
    BY <1>2, <1>6 DEF Loses, Carried, Queued, Holds, At, OnceInv, OneMessage
  <1>8. \A k \in Jobs : job[k].status = "purged" => ~Carried(k)'
    <2>1. \A k \in Jobs : job[k].status = "purged" /\ Carried(k)' => k = j
      BY <1>2, <1>3, <1>6, MovesCarry DEF Moves, OnceInv, AfterPurge
    <2> QED
      BY <1>7, <2>1
  <1>9. Stutters
    <2>1. UNCHANGED Found
      BY <1>4, <1>5 DEF Found, RowsKept
    <2> QED
      BY <1>5, <2>1 DEF Stutters, New, Withdrawn
  <1> QED
    BY <1>5, <1>6, <1>8, <1>9, KeptRest DEF Moves

\* The deletion worker writes only its own job before the purge.
LEMMA DeletionRest ==
    ASSUME IInv, OnceInv, DeliveredOnce, [Next]_vars, NEW w \in Workers,
           ClaimDeletion(w) \/ StorageError(w) \/ MarkDeletionFailed(w)
    PROVE RestInv' /\ Stutters
  <1>0. TypeInv /\ RowInv /\ FreshRequests /\ DeletionAccepted
    BY DEF IInv, RowInv, SourceInv
  <1>1. UNCHANGED <<doc, version, generation>> /\ \A k \in Jobs : job'[k] = job[k]
    BY <1>0, JobsAssumption DEF ClaimDeletion, StorageError, MarkDeletionFailed, TypeInv,
       TypeOK, StoreTypeOK, AllJobs
  <1>2. Moves
    <2>1. WorkerStepOf(w)
      BY DEF WorkerStepOf, DeletionStep
    <2> QED
      BY <1>0, <2>1, WorkerMoves
  <1>3. job[Deletion].status # "none"
    BY <1>0 DEF ClaimDeletion, StorageError, MarkDeletionFailed, At, DeletionAccepted,
       DeletionAttempt, OnceInv, DeletionHeld, Holds
  <1>4. job'[Deletion].status # "none"
    BY <1>0, <1>3, AcceptedStays
  <1>5. Stutters
    BY <1>1, <1>3, <1>4 DEF Stutters, Found, New, Withdrawn
  <1> QED
    BY <1>1, <1>2, <1>5, KeptRest DEF RowsKept

Withdraws == ~Withdrawn /\ Withdrawn' = TRUE /\ Found' = None /\ New' = New

\* The acceptance of a deletion.
LEMMA AcceptRest ==
    ASSUME IInv, OnceInv, DeliveredOnce, [Next]_vars, NEW c \in Clients, AcceptDeletion(c)
    PROVE RestInv' /\ Withdraws
  <1>0. TypeInv /\ FreshRequests
    BY DEF IInv, SourceInv
  <1>1. /\ UNCHANGED <<version, generation>> /\ \A k \in Jobs : job'[k] = job[k]
        /\ doc'.active = doc.active /\ doc'.status = "deleting"
    BY <1>0, JobsAssumption DEF AcceptDeletion, InsertJob, TypeInv, TypeOK, StoreTypeOK,
       AllJobs, DocumentRecord
  <1>2. job[Deletion].status = "none" /\ job'[Deletion].status # "none"
    BY <1>0, AcceptRows
  <1>3. \A k \in Jobs : job[k].status # "purged"
    BY <1>2 DEF OnceInv, AfterPurge
  <1>4. ~Inserts(c)
    BY DEF AcceptDeletion, Asks, Inserts, CommitUpload, CommitReplacement, CommitReindex,
       RequestAt
  <1>5. Moves
    <2>1. ApiStep(c)
      BY DEF ApiStep
    <2> QED
      BY <1>0, <1>4, <2>1, ApiMoves
  <1>6. Withdraws
    <2>1. Found' = None
      BY <1>1 DEF Found
    <2> QED
      BY <1>1, <1>2, <2>1 DEF Withdraws, Withdrawn, New
  <1> QED
    BY <1>1, <1>3, <1>5, <1>6, KeptRest DEF RowsKept

Activates(j) == j \in New /\ Found' = j /\ New' = New \ {j} /\ Withdrawn' = Withdrawn

\* What publication does to the statuses.
LEMMA PublishStatuses ==
    ASSUME IInv, OnceInv, NEW w \in Workers, Publish(w), NEW j, j = Job(w)
    PROVE /\ RowsPublished(j, job[j].ver) /\ Holds(w, j)
          /\ job'[Deletion] = job[Deletion] /\ generation'[j] = "active"
          /\ \A v \in Jobs : version'[v].status = "active" <=> v = job[j].ver
          /\ job[j].op = "reindex" => doc.active = job[j].ver
          /\ worker'[w].step = "done" /\ \A u \in Workers \ {w} : worker'[u] = worker[u]
          /\ UNCHANGED request /\ Loses
  <1>0. TypeInv /\ PointersResolve
    BY DEF IInv
  <1>1. RowsPublished(j, job[j].ver)
    BY <1>0, PublishRows
  <1>2. j \in Jobs /\ job[j].ver \in Jobs
    BY <1>1 DEF RowsPublished
  <1>3. Holds(w, j) /\ (job[j].op = "reindex" => doc.active = job[j].ver)
    BY DEF Publish, Holds, At, PublicationStale
  <1>4. job'[Deletion] = job[Deletion] /\ generation'[j] = "active"
    BY <1>0, <1>2, JobsAssumption DEF Publish, ActivatedGenerations, TypeInv, TypeOK,
       StoreTypeOK, AllJobs
  <1>5. ASSUME NEW v \in Jobs PROVE version'[v].status = "active" <=> v = job[j].ver
    <2>1. version'[v] = ActivatedVersions(j)[v] /\ version[v] \in VersionRecord
      BY <1>0 DEF Publish, TypeInv, TypeOK, StoreTypeOK
    <2>2. CASE v = job[j].ver
      BY <2>1, <2>2 DEF ActivatedVersions, VersionRecord
    <2>3. CASE v # job[j].ver /\ v = doc.active
      BY <2>1, <2>3 DEF ActivatedVersions, VersionRecord
    <2>4. CASE v # job[j].ver /\ v # doc.active
      BY <2>1, <2>4 DEF ActivatedVersions, OnceInv, StatusesAgree
    <2> QED
      BY <2>2, <2>3, <2>4
  <1>6. worker'[w].step = "done" /\ \A u \in Workers \ {w} : worker'[u] = worker[u]
    BY <1>0, GotoWorker DEF Publish, TypeInv
  <1>7. UNCHANGED request /\ Loses
    BY <1>0, StepsOn DEF Publish, At
  <1> QED
    BY <1>1, <1>3, <1>4, <1>5, <1>6, <1>7

\* Publication takes its generation into service.
LEMMA PublishRest ==
    ASSUME IInv, OnceInv, NEW w \in Workers, Publish(w)
    PROVE RestInv' /\ \E j \in Jobs : Activates(j)
  <1>1. PICK j : j = Job(w)
    OBVIOUS
  <1> DEFINE v == job[j].ver
  <1>2. /\ RowsPublished(j, v) /\ Holds(w, j)
        /\ job'[Deletion] = job[Deletion] /\ generation'[j] = "active"
        /\ \A u \in Jobs : version'[u].status = "active" <=> u = v
        /\ job[j].op = "reindex" => doc.active = v
        /\ worker'[w].step = "done" /\ \A u \in Workers \ {w} : worker'[u] = worker[u]
        /\ UNCHANGED request /\ Loses
    BY <1>1, PublishStatuses
  <1>3. /\ j \in Jobs /\ v \in Jobs /\ JobRow(j)
        /\ doc'.active = v /\ doc'.status = "available" /\ version'[v].gen = j
        /\ \A k \in Jobs :
            /\ job'[k].ver = job[k].ver /\ job'[k].op = job[k].op
            /\ job'[k].status = IF k = j THEN "succeeded" ELSE job[k].status
    BY <1>2 DEF RowsPublished
  <1>4. /\ Busy(j)
        /\ \A u \in Workers, k \in Jobs : Holds(u, k) /\ JobRow(k) => u = w
        /\ \A k \in Jobs : Carried(k) => job[k].status # "purged"
    BY <1>2, <1>3, HolderAlone
  <1>5. \A k \in Jobs : Carried(k)' => Carried(k) /\ k # j
    <2>1. ~Carried(j)'
      BY <1>2, <1>3 DEF Loses, Carried, Queued, Holds, At, OnceInv, OneMessage
    <2> QED
      BY <1>2, <2>1, MovesCarry DEF Moves
  <1>6. None \notin Jobs
    BY JobsAssumption
  <1>7. CarriedIsBusy'
    BY <1>3, <1>5 DEF OnceInv, CarriedIsBusy, Busy
  <1>8. OneBusy'
    BY <1>3 DEF OnceInv, OneBusy, Busy, ActiveJobStatus
  <1>9. JobsKnown'
    BY <1>3, <1>4 DEF OnceInv, JobsKnown, LifecycleJob, Busy, ActiveJobStatus
  <1>10. Settled(Initial)'
    <2>1. Initial = j \/ Settled(Initial)
      BY <1>3, <1>4 DEF OnceInv, InitialFirst, Busy, ActiveJobStatus
    <2> QED
      BY <1>3, <2>1, JobsAssumption DEF Settled
  <1>11. InitialFirst'
    BY <1>10 DEF InitialFirst
  <1>12. ServedIsSettled'
    <2>1. job'[v].status = "succeeded"
      BY <1>2, <1>3 DEF OnceInv, JobsKnown, ServedIsSettled
    <2> QED
      BY <1>3, <2>1 DEF ServedIsSettled
  <1>13. ReadIsCurrent'
    <2> SUFFICES ASSUME NEW u \in Workers, worker'[u].step \in Reading,
                        NEW k \in Jobs, k = worker'[u].msg[1], JobRow(k)'
                 PROVE FALSE
      BY DEF ReadIsCurrent, Job
    <2>1. u # w /\ worker'[u] = worker[u]
      BY <1>2 DEF Reading
    <2>2. Holds(u, k) /\ JobRow(k)
      BY <1>3, <2>1 DEF Holds, At, Job, Reading, JobRow
    <2> QED
      BY <1>4, <2>1, <2>2
  <1>14. AfterPurge'
    BY <1>2, <1>3, <1>4, <1>5 DEF OnceInv, AfterPurge
  <1>15. StatusesAgree'
    BY <1>2, <1>3, <1>6 DEF StatusesAgree
  <1>16. Activates(j)
    <2>1. Found' = j
      BY <1>2, <1>3, <1>6 DEF Found
    <2>2. New' = New \ {j}
      BY <1>3 DEF New
    <2>3. j \in New
      BY <1>3, <1>4 DEF New, Busy, ActiveJobStatus
    <2> QED
      BY <1>2, <2>1, <2>2, <2>3 DEF Activates, Withdrawn
  <1> QED
    BY <1>3, <1>7, <1>8, <1>9, <1>11, <1>12, <1>13, <1>14, <1>15, <1>16 DEF RestInv

Forgets ==
    /\ Withdrawn /\ Withdrawn' = TRUE /\ Found = None /\ Found' = None
    /\ New' \subseteq New

\* The purge forgets generations and keeps at most one late job.
LEMMA PurgeRest ==
    ASSUME IInv, OnceInv, NEW w \in Workers, Purge(w) PROVE RestInv' /\ Forgets
  <1>0. TypeInv /\ RowsPurged /\ DeletionAccepted
    BY PurgeRows DEF IInv, SourceInv
  <1>1. /\ doc'.active = None /\ doc'.status = "deleted" /\ doc.status = "deleting"
        /\ \A j \in Jobs :
            /\ job'[j].ver = job[j].ver /\ job'[j].op = job[j].op
            /\ job'[j].status = IF JobRow(j) THEN "purged" ELSE job[j].status
        /\ \A v \in Jobs : ~VersionRow(v)'
    BY <1>0 DEF RowsPurged, Purge
  <1>2. job[Deletion].status # "none" /\ job'[Deletion].status = "succeeded"
    BY <1>0 DEF Purge, At, DeletionAccepted, DeletionAttempt, PurgedJobs, TypeInv,
       TypeOK, StoreTypeOK, AllJobs, JobRecord
  <1>3. Loses /\ UNCHANGED request
    BY <1>0, StepsOn DEF Purge, At
  <1>4. /\ worker'[w].step = "done" /\ \A u \in Workers \ {w} : worker'[u] = worker[u]
        /\ \A j \in Jobs : ~Carried(j) \/ Busy(j)
    <2>1. \A j \in Jobs : ~Carried(j) \/ Busy(j)
      BY <1>1 DEF OnceInv, CarriedIsBusy, AfterPurge
    <2> QED
      BY <1>0, <2>1, GotoWorker DEF Purge, TypeInv
  <1>5. \A j \in Jobs : Carried(j)' => Busy(j)
    BY <1>3, <1>4, MovesCarry DEF Moves
  <1>6. \A j \in Jobs : Busy(j) => JobRow(j)
    BY DEF Busy, ActiveJobStatus, JobRow
  <1>7. CarriedIsBusy'
    BY <1>1, <1>5, <1>6 DEF CarriedIsBusy
  <1>8. OneBusy'
    BY <1>1, <1>6 DEF OneBusy, Busy, ActiveJobStatus
  <1>9. JobsKnown'
    BY <1>1 DEF OnceInv, JobsKnown, LifecycleJob, JobRow
  <1>10. InitialFirst'
    <2>1. Settled(Initial) => Settled(Initial)'
      BY <1>1, JobsAssumption DEF Settled, JobRow
    <2> QED
      BY <1>1, <1>3, <2>1 DEF OnceInv, InitialFirst, JobRow
  <1>11. ServedIsSettled' /\ StatusesAgree'
    BY <1>1, JobsAssumption DEF ServedIsSettled, StatusesAgree, VersionRow
  <1>12. ReadIsCurrent'
    <2> SUFFICES ASSUME NEW k \in Jobs, JobRow(k)' PROVE FALSE
      BY DEF ReadIsCurrent, Job
    <2> QED
      BY <1>1 DEF JobRow
  <1>13. AfterPurge'
    <2>1. \A w1 \in Workers, k \in Jobs : Holds(w1, k)' => Busy(k)
      BY <1>5 DEF Carried
    <2> QED
      BY <1>1, <1>2, <1>5, <2>1 DEF AfterPurge, OnceInv, OneBusy
  <1>14. Forgets
    <2>1. Found = None /\ Found' = None
      BY <1>1 DEF Found
    <2>2. New' \subseteq New
      BY <1>1 DEF New, JobRow
    <2> QED
      BY <1>2, <2>1, <2>2 DEF Forgets, Withdrawn
  <1> QED
    BY <1>7, <1>8, <1>9, <1>10, <1>11, <1>12, <1>13, <1>14 DEF RestInv

(* What the commit of an upload, a replacement or a reindex does.          *)
Inserted(j) ==
    /\ j \in Jobs /\ job[j].status = "none" /\ ~VersionRow(j)
    /\ job'[j].status = "queued"
    /\ job'[j].op # "reindex" => job'[j].ver = j
    /\ \A k \in AllJobs \ {j} : job'[k] = job[k]
    /\ \A u \in Jobs \ {j} : version'[u] = version[u] /\ generation'[u] = generation[u]
    /\ version'[j].status # "active"
    /\ doc'.active = doc.active /\ worker' = worker
    /\ \A c \in Clients : request'[c].step = "loaded" => request'[c] = request[c]
    /\ \/ j = Initial /\ doc'.status = "pending"
       \/ /\ Settled(Initial) /\ ~LifecycleBusy(Jobs) /\ doc'.status = doc.status
          /\ job'[j].op \in {"replacement_ingestion", "reindex"}

\* The three commits, as one.
LEMMA InsertEffects ==
    ASSUME IInv, OnceInv, NEW c \in Clients, Inserts(c), NEW j, j = request[c].job
    PROVE Inserted(j)
  <1>0. TypeInv /\ FreshRequests /\ RowsLinked
    BY DEF IInv, SourceInv
  <1>1. /\ request[c].step = "loaded" /\ j \in Jobs /\ job[j].status = "none"
        /\ ~VersionRow(j)
    <2>1. request[c].step = "loaded" /\ j \in Jobs
      BY <1>0, InsertRows
    <2> QED
      BY <1>0, <2>1 DEF FreshRequests, RowsLinked
  <1>2. worker' = worker
    BY DEF Inserts, CommitUpload, CommitReplacement, CommitReindex
  <1>3. \A d \in Clients : request'[d].step = "loaded" => request'[d] = request[d]
    BY <1>0, <1>1, CommitReturnsStep DEF Inserts, CommitUpload, CommitReplacement,
       CommitReindex
  <1>4. CASE CommitUpload(c)
    <2>1. j = Initial
      BY <1>0, <1>1, <1>4 DEF CommitUpload, RequestAt, TypeInv, RequestsNamed
    <2>2. doc'.active = doc.active /\ doc'.status = "pending"
      BY <1>0, <1>4 DEF CommitUpload, TypeInv, TypeOK, StoreTypeOK, DocumentRecord
    <2>3. /\ job' = [job EXCEPT ![j] =
                [status |-> "queued", op |-> "initial_ingestion", ver |-> j]]
          /\ version' = [version EXCEPT ![j] =
                [status |-> "pending", gen |-> None, number |-> 1,
                 failed |-> FALSE]]
          /\ generation' = [generation EXCEPT ![j] = "pending"]
      BY <1>4, <2>1 DEF CommitUpload, InsertJob, InsertVersion, InsertGeneration
    <2> QED
      BY <1>0, <1>1, <1>2, <1>3, <2>1, <2>2, <2>3 DEF Inserted, TypeInv, TypeOK,
         StoreTypeOK, AllJobs
  <1>5. CASE CommitReplacement(c)
    <2>1. Settled(Initial) /\ ~LifecycleBusy(Jobs)
      BY <1>5 DEF CommitReplacement, RequestAt, ReplacementAllowed, OnceInv, InitialFirst
    <2>2. doc'.active = doc.active /\ doc'.status = doc.status
      BY <1>0, <1>5 DEF CommitReplacement, TypeInv, TypeOK, StoreTypeOK, DocumentRecord
    <2>3. /\ job' = [job EXCEPT ![j] =
                [status |-> "queued", op |-> "replacement_ingestion", ver |-> j]]
          /\ version' = [version EXCEPT ![j] =
                [status |-> "pending", gen |-> None, number |-> request[c].next,
                 failed |-> FALSE]]
          /\ generation' = [generation EXCEPT ![j] = "pending"]
      BY <1>5 DEF CommitReplacement, InsertJob, InsertVersion, InsertGeneration
    <2> QED
      BY <1>0, <1>1, <1>2, <1>3, <2>1, <2>2, <2>3 DEF Inserted, TypeInv, TypeOK,
         StoreTypeOK, AllJobs
  <1>6. CASE CommitReindex(c)
    <2>1. Settled(Initial) /\ ~LifecycleBusy(Jobs)
      BY <1>6 DEF CommitReindex, RequestAt, ReindexAllowed, OnceInv, InitialFirst
    <2>2. UNCHANGED <<doc, version>> /\ version[j].status # "active"
      BY <1>1, <1>6 DEF CommitReindex, VersionRow
    <2>3. /\ job' = [job EXCEPT ![j] =
                [status |-> "queued", op |-> "reindex", ver |-> request[c].active]]
          /\ generation' = [generation EXCEPT ![j] = "pending"]
      BY <1>6 DEF CommitReindex, InsertJob, InsertGeneration
    <2> QED
      BY <1>0, <1>1, <1>2, <1>3, <2>1, <2>2, <2>3 DEF Inserted, TypeInv, TypeOK,
         StoreTypeOK, AllJobs
  <1> QED
    BY <1>4, <1>5, <1>6 DEF Inserts

\* A commit adds a generation that no search finds yet.
LEMMA InsertRest ==
    ASSUME IInv, OnceInv, DeliveredOnce, [Next]_vars, NEW c \in Clients, Inserts(c)
    PROVE RestInv' /\ Stutters
  <1>1. PICK j : j = request[c].job
    OBVIOUS
  <1>2. Inserted(j)
    BY <1>1, InsertEffects
  <1>0. /\ TypeInv /\ FreshRequests /\ RowsLinked /\ PointersResolve
        /\ \A v \in Jobs : version[v].gen \in Jobs \cup {None}
        /\ \A k \in Jobs : job[k].ver \in Jobs
        /\ j \in Jobs /\ j # Deletion /\ Initial \in Jobs /\ None \notin Jobs
        /\ Deletion \in AllJobs /\ \A k \in Jobs : k \in AllJobs
    BY <1>2, JobsAssumption DEF IInv, SourceInv, TypeInv, TypeOK, StoreTypeOK,
       VersionRecord, AllJobs, JobRecord, Inserted
  <1>3. \A k \in Jobs : k # j /\ Carried(k)' => Carried(k)
    <2>1. ApiStep(c)
      BY DEF Inserts, ApiStep
    <2>2. Moves \/ Commits(c, j)
      BY <1>0, <1>1, <2>1, ApiMoves
    <2> QED
      BY <2>2, MovesCarry, CommitsCarry
  <1>4. ~Carried(j) /\ ~Settled(j) /\ ~Busy(j)
    BY <1>0, <1>2 DEF Inserted, OnceInv, CarriedIsBusy, Busy, ActiveJobStatus, Settled
  <1>5. /\ doc.active # None => doc.active # j /\ version[doc.active].gen \in Jobs \ {j}
        /\ doc.active # None => doc.active \in Jobs /\ Settled(Initial)
    BY <1>0, <1>2 DEF Inserted, OnceInv, ServedIsSettled, InitialFirst, PointersResolve,
       TypeInv, TypeOK, StoreTypeOK, DocumentRecord
  <1>6. j = Initial => doc.active = None /\ \A k \in Jobs \ {j} : job[k].status = "none"
    BY <1>4, <1>5 DEF OnceInv, InitialFirst
  <1>7. Initial # j => Settled(Initial) /\ ~LifecycleBusy(Jobs) /\ doc'.status = doc.status
    BY <1>2 DEF Inserted
  <1>8. \A k \in Jobs \ {j} : ~Busy(k)
    <2> SUFFICES ASSUME NEW k \in Jobs \ {j}, Busy(k) PROVE FALSE
      OBVIOUS
    <2>1. job[k].status # "none" /\ Initial # j
      BY <1>6 DEF Busy, ActiveJobStatus
    <2>2. k # Initial
      BY <1>7, <2>1 DEF Busy, Settled, ActiveJobStatus
    <2>3. LifecycleJob(k)
      BY <2>1, <2>2 DEF OnceInv, JobsKnown
    <2> QED
      BY <1>7, <2>1, <2>3 DEF LifecycleBusy, Busy
  <1>9. CarriedIsBusy'
    <2> SUFFICES ASSUME NEW k \in Jobs, Carried(k)'
                 PROVE Busy(k)' \/ job'[k].status = "purged"
      BY DEF CarriedIsBusy
    <2>1. CASE k = j
      BY <1>2, <2>1 DEF Inserted, Busy, ActiveJobStatus
    <2>2. CASE k # j
      BY <1>0, <1>2, <1>3, <2>2 DEF Inserted, OnceInv, CarriedIsBusy, Busy
    <2> QED
      BY <2>1, <2>2
  <1>10. OneBusy'
    BY <1>0, <1>2, <1>8 DEF Inserted, OneBusy, Busy
  <1>11. JobsKnown'
    BY <1>0, <1>2 DEF Inserted, OnceInv, JobsKnown, LifecycleJob
  <1>12. InitialFirst'
    <2>1. CASE j = Initial
      <3>1. \A d \in Clients : request'[d].step = "loaded"
                => request'[d].op = "initial_ingestion"
        BY <1>2, <1>4, <2>1 DEF Inserted, OnceInv, InitialFirst
      <3> QED
        BY <1>0, <1>2, <1>6, <2>1, <3>1 DEF Inserted, InitialFirst
    <2>2. CASE j # Initial
      BY <1>0, <1>2, <1>7, <2>2 DEF Inserted, Settled, InitialFirst
    <2> QED
      BY <2>1, <2>2
  <1>13. ServedIsSettled'
    <2> SUFFICES ASSUME NEW v \in Jobs, doc.active = v
                 PROVE /\ job'[v].status = "succeeded"
                       /\ job'[version'[v].gen].status = "succeeded"
      BY <1>2 DEF ServedIsSettled, Inserted
    <2>1. v # j /\ version[v].gen \in Jobs \ {j}
      BY <1>0, <1>5
    <2> QED
      BY <1>0, <1>2, <2>1 DEF Inserted, OnceInv, ServedIsSettled
  <1>14. ReadIsCurrent'
    <2> SUFFICES ASSUME NEW u \in Workers, worker[u].step \in Reading,
                        NEW k \in Jobs, k = Job(u), JobRow(k)'
                 PROVE /\ worker[u].snap.active = doc'.active
                       /\ worker[u].snap.job = job'[k].status
                       /\ worker[u].snap.ver = version'[job'[k].ver].status
      BY <1>2 DEF ReadIsCurrent, Job, Inserted
    <2>1. k # j
      BY <1>4 DEF Carried, Holds, At, Reading
    <2>2. job'[k] = job[k] /\ JobRow(k)
      BY <1>0, <1>2, <2>1 DEF Inserted, JobRow
    <2>3. job[k].ver \in Jobs /\ job[k].ver # j
      BY <1>0, <1>2, <2>2 DEF Inserted, RowsLinked
    <2> QED
      BY <1>2, <2>2, <2>3 DEF Inserted, OnceInv, ReadIsCurrent
  <1>15. AfterPurge'
    <2> SUFFICES ASSUME NEW k \in Jobs, job'[k].status = "purged"
                 PROVE /\ job'[Deletion].status # "none"
                       /\ Carried(k)' =>
                          /\ doc'.status = "deleted"
                          /\ \A i \in Jobs : Carried(i)' /\ job'[i].status = "purged" => i = k
                          /\ \A w \in Workers, i \in Jobs : Holds(w, i)' => i = k
      BY DEF AfterPurge
    <2>1. k # j /\ job[k].status = "purged" /\ Initial # j
      BY <1>0, <1>2, <1>6 DEF Inserted
    <2>2. \A i \in Jobs : job'[i].status = "purged" => i # j /\ job[i].status = "purged"
      BY <1>0, <1>2 DEF Inserted
    <2>3. \A w \in Workers, i \in Jobs : Holds(w, i)' => Holds(w, i)
      BY <1>2 DEF Inserted, Holds, At, Job
    <2>4. job'[Deletion] = job[Deletion]
      BY <1>0, <1>2 DEF Inserted
    <2>5. job'[Deletion].status # "none"
      BY <2>1, <2>4 DEF OnceInv, AfterPurge
    <2> QED
      BY <1>3, <1>7, <2>1, <2>2, <2>3, <2>5 DEF OnceInv, AfterPurge
  <1>16. StatusesAgree'
    <2>1. \A v \in Jobs : version'[v].status = "active" <=> doc'.active = v
      BY <1>0, <1>2, <1>5 DEF Inserted, OnceInv, StatusesAgree
    <2>2. \A v \in Jobs : doc'.active = v => generation'[version'[v].gen] = "active"
      BY <1>0, <1>2, <1>5 DEF Inserted, OnceInv, StatusesAgree
    <2>3. doc'.status = "available" => doc'.active # None
      BY <1>2 DEF Inserted, OnceInv, StatusesAgree
    <2> QED
      BY <2>1, <2>2, <2>3 DEF StatusesAgree
  <1>17. Stutters
    <2>1. UNCHANGED Found
      <3>1. doc.active # None => doc'.status = doc.status
        BY <1>6, <1>7
      <3> QED
        BY <1>2, <1>5, <3>1, FoundStays DEF Inserted
    <2>2. New' = New
      BY <1>0, <1>2 DEF Inserted, New
    <2>3. Withdrawn' = Withdrawn
      BY <1>0, <1>2 DEF Inserted, Withdrawn
    <2> QED
      BY <2>1, <2>2, <2>3 DEF Stutters
  <1> QED
    BY <1>9, <1>10, <1>11, <1>12, <1>13, <1>14, <1>15, <1>16, <1>17 DEF RestInv

-----------------------------------------------------------------------------
(* The invariant of single delivery, and the refinement.                   *)

\* The initial state satisfies the invariant.
LEMMA InitOnce == Init => OnceInv
  <1> SUFFICES ASSUME Init PROVE OnceInv
    OBVIOUS
  <1>1. /\ \A j \in AllJobs : job[j].status = "none"
        /\ \A j \in Jobs : j \in AllJobs /\ job[j].ver = j
    BY JobsAssumption DEF Init, AllJobs
  <1>2. /\ queue = {} /\ \A w \in Workers : worker[w].step = "idle"
        /\ \A c \in Clients : request[c].step = "idle"
    BY DEF Init, IdleWorker, IdleRequest
  <1>3. doc.active = None /\ doc.status = "none" /\ None \notin Jobs
        /\ \A v \in Jobs : version[v].status = "none"
    BY JobsAssumption DEF Init, NoVersion
  <1>4. \A w \in Workers, j \in AllJobs : ~Holds(w, j)
    BY <1>2 DEF Holds, At
  <1>5. \A j \in Jobs : ~Carried(j)
    BY <1>1, <1>2, <1>4 DEF Carried, Queued, Owes
  <1>6. DeletionHeld /\ OneMessage /\ CarriedIsBusy
    BY <1>1, <1>2, <1>4, <1>5
       DEF DeletionHeld, OneMessage, CarriedIsBusy, Carried, AllJobs
  <1>7. OneBusy /\ JobsKnown /\ InitialFirst
    BY <1>1, <1>2, <1>3 DEF OneBusy, Busy, ActiveJobStatus, JobsKnown, InitialFirst
  <1>8. ServedIsSettled /\ ReadIsCurrent /\ AfterPurge /\ StatusesAgree
    BY <1>1, <1>2, <1>3
       DEF ServedIsSettled, ReadIsCurrent, Reading, AfterPurge, StatusesAgree
  <1> QED
    BY <1>6, <1>7, <1>8 DEF OnceInv

ServedSteps ==
    Stutters \/ (\E j \in Jobs : Activates(j)) \/ Withdraws \/ Forgets

\* Every step keeps the invariant and is a step of ServedDocument.
LEMMA OnceSteps ==
    ASSUME IInv, OnceInv, DeliveredOnce, [Next]_vars
    PROVE RestInv' /\ ServedSteps
  <1>0. TypeInv /\ RowsLinked
    BY DEF IInv
  <1>1. CASE UNCHANGED rows
    BY <1>1, QuietRest DEF ServedSteps
  <1>2. ASSUME NEW w \in Workers, Claim(w) \/ TransientFailure(w) \/ MarkFailed(w)
        PROVE RestInv' /\ ServedSteps
    <2>1. PICK j : j = Job(w)
      OBVIOUS
    <2>2. \/ UNCHANGED rows \/ HolderMarks(w, j)
          \/ MarkFailed(w) /\ ~JobRow(j)
      BY <1>2, <2>1, ClaimHolds, TransientFailureHolds, MarkFailedHolds
    <2>3. j \in Jobs
      BY <1>0, <1>2, <2>1, MessageType DEF TypeInv, LockHeld, Claim, TransientFailure,
         MarkFailed, At, Attempting, AllJobs
    <2>4. CASE HolderMarks(w, j)
      BY <2>3, <2>4, HolderRest DEF ServedSteps
    <2>5. CASE MarkFailed(w) /\ ~JobRow(j)
      BY <2>1, <2>5, LateFailureRest DEF ServedSteps
    <2> QED
      BY <1>1, <2>2, <2>4, <2>5
  <1>3. ASSUME NEW w \in Workers, Publish(w) PROVE RestInv' /\ ServedSteps
    BY <1>3, PublishRest DEF ServedSteps
  <1>4. ASSUME NEW w \in Workers, Purge(w) PROVE RestInv' /\ ServedSteps
    BY <1>4, PurgeRest DEF ServedSteps
  <1>5. ASSUME NEW w \in Workers,
               ClaimDeletion(w) \/ StorageError(w) \/ MarkDeletionFailed(w)
        PROVE RestInv' /\ ServedSteps
    BY <1>5, DeletionRest DEF ServedSteps
  <1>6. ASSUME NEW c \in Clients, Commit(c) PROVE RestInv' /\ ServedSteps
    BY <1>6, InsertRest, AcceptRest DEF Commit, Inserts, ServedSteps
  <1>7. ASSUME NEW w \in Workers, WorkerStepOf(w)
        PROVE \/ UNCHANGED rows
              \/ Claim(w) \/ TransientFailure(w) \/ MarkFailed(w) \/ Publish(w)
              \/ ClaimDeletion(w) \/ StorageError(w) \/ MarkDeletionFailed(w) \/ Purge(w)
    BY <1>7 DEF WorkerStepOf, TaskStep, Retry, RetryLost, GiveUp, FailRead, SqlError,
       Acknowledge, IngestionStep, Begin, ClaimFails, Prepare, SourceMissing,
       PermanentFailure, PublishRefused, MarkFailedRefused, DeletionStep,
       BeginDeletion, RemoveSource, PurgeRefused
  <1>8. CASE Next
    BY <1>8, <1>1, <1>2, <1>3, <1>4, <1>5, <1>6, <1>7, ApiRows, BrokerRows DEF Next
  <1>9. CASE UNCHANGED vars
    BY <1>1, <1>9 DEF vars
  <1> QED
    BY <1>8, <1>9

\* The invariant of single delivery is inductive.
LEMMA OnceNext ==
    ASSUME IInv, OnceInv, DeliveredOnce, [Next]_vars PROVE OnceInv'
  <1>0. TypeInv /\ RowInv /\ FreshRequests /\ Deletion \in AllJobs
    BY DEF IInv, RowInv, SourceInv, AllJobs
  <1>1. RestInv'
    BY OnceSteps
  <1>2. OneMessage'
    BY <1>0, OneMessageNext DEF OnceInv
  <1>3. DeletionHeld'
    <2> SUFFICES ASSUME NEW w \in Workers, Holds(w, Deletion)'
                 PROVE job'[Deletion].status # "none"
      BY DEF DeletionHeld
    <2>1. job[Deletion].status # "none"
      BY <1>0, StartsStartable DEF Startable, OnceInv, DeletionHeld
    <2> QED
      BY <1>0, <2>1, AcceptedStays
  <1> QED
    BY <1>1, <1>2, <1>3 DEF OnceInv, RestInv

(* While every message is delivered once, a job has one message in one     *)
(* place, one ingestion at most is busy, and what a worker writes back is  *)
(* what it read.                                                           *)
THEOREM SingleDeliveryInvariant == ASSUME DeliveredOnce PROVE Spec => [](IInv /\ OnceInv)
  <1>1. Init => IInv /\ OnceInv
    BY InitInv, InitOnce
  <1>2. IInv /\ OnceInv /\ [Next]_vars => (IInv /\ OnceInv)'
    BY NextInv, OnceNext
  <1> QED
    BY <1>1, <1>2, PTL DEF Spec

(* Delivered once, exactly the version the document points to is active,   *)
(* and its generation is.                                                  *)
THEOREM StatusesAlwaysAgree == ASSUME DeliveredOnce PROVE Spec => []StatusesAgree
  <1>1. OnceInv => StatusesAgree
    BY DEF OnceInv
  <1> QED
    BY <1>1, SingleDeliveryInvariant, PTL

(* Delivered once, the lifecycle implements ServedDocument: a search finds *)
(* one whole generation, taken into service in one step and at most once,  *)
(* which only a newer one or a deletion takes away.                        *)
THEOREM LifecycleServes == ASSUME DeliveredOnce PROVE Spec => ImplementsServedDocument
  <1>1. Init => Served!Init
    <2> SUFFICES ASSUME Init PROVE Served!Init
      OBVIOUS
    <2>1. Found = None
      BY DEF Init, Found
    <2>2. \A j \in AllJobs : job[j].status = "none"
      BY DEF Init
    <2> QED
      BY <2>1, <2>2 DEF Served!Init, AllJobs
  <1>2. IInv /\ OnceInv /\ [Next]_vars => [Served!Next]_(Served!vars)
    <2> SUFFICES ASSUME IInv, OnceInv, [Next]_vars PROVE [Served!Next]_(Served!vars)
      OBVIOUS
    <2>1. CASE Stutters
      BY <2>1 DEF Stutters, New, Withdrawn, Served!vars
    <2>2. ASSUME NEW j \in Jobs, Activates(j) PROVE Served!Activate(j)
      BY <2>2 DEF Activates, New, Withdrawn, Served!Activate
    <2>3. CASE Withdraws
      BY <2>3 DEF Withdraws, New, Withdrawn, Served!Withdraw, Served!Next
    <2>4. CASE Forgets
      BY <2>4 DEF Forgets, New, Withdrawn, Served!Forget, Served!Next
    <2> QED
      BY <2>1, <2>2, <2>3, <2>4, OnceSteps DEF ServedSteps, Served!Next
  <1> QED
    BY <1>1, <1>2, SingleDeliveryInvariant, PTL
       DEF Spec, ImplementsServedDocument, Served!Spec

-----------------------------------------------------------------------------
(* The statuses of candidates.                                             *)

Moved(old, new) == new \in {old, "none"} \/ <<old, new>> \in CandidateSteps
LegalStep ==
    \A j \in Jobs :
        /\ Moved(version[j].status, version'[j].status) \/ FailedWithReindex(j)
        /\ Moved(generation[j], generation'[j])

\* Nothing busy but j: only j's candidate has to be known.
LEMMA OneCandidate ==
    ASSUME OnceInv', NEW j \in Jobs, Busy(j)',
           \A k \in Jobs : job'[k].status = "none" => generation'[k] = "none",
           generation'[j] \in {"pending", "processing"},
           job'[j].op # "reindex" =>
                /\ version'[j].gen = None
                /\ version'[j].status \in {"pending", "processing"}
                /\ generation'[j] = "processing" => version'[j].status = "processing"
    PROVE CandidatesKnown'
  BY DEF OnceInv, OneBusy, CandidatesKnown

\* Nothing busy at all.
LEMMA NoCandidate ==
    ASSUME \A k \in Jobs : ~Busy(k)',
           \A k \in Jobs : job'[k].status = "none" => generation'[k] = "none"
    PROVE CandidatesKnown'
  BY DEF CandidatesKnown

\* The claim.
LEMMA ClaimCandidates ==
    ASSUME IInv, OnceInv, OnceInv', CandidatesKnown, NEW w \in Workers, Claim(w)
    PROVE CandidatesKnown' /\ LegalStep
  <1>1. PICK j : j = Job(w)
    OBVIOUS
  <1> DEFINE v == job[j].ver
             r == worker[w].snap
  <1>0. TypeInv /\ HolderMarks(w, j) /\ RowsMarked
    BY <1>1, ClaimHolds DEF IInv, HolderMarks
  <1>2. j \in Jobs /\ JobRow(j) /\ v \in Jobs
    BY <1>0, <1>1 DEF TypeInv, LockHeld, Claim, At, Attempting, ClaimRefused,
       TypeOK, StoreTypeOK, AllJobs, JobRecord
  <1>3. Busy(j) /\ r.ver = version[v].status /\ r.job = job[j].status
    <2>1. Holds(w, j) /\ r.ver = version[v].status /\ r.job = job[j].status
      BY <1>1, <1>2, ReadStillTrue DEF Claim, At, Reading
    <2> QED
      BY <1>2, <2>1, HolderAlone
  <1>4. job'[j].status = "running" /\ job'[j].op = job[j].op
    BY <1>0, <1>1, <1>2, <1>3 DEF Claim, ClaimedJob, Flushed, TypeInv, TypeOK, StoreTypeOK,
       JobRecord, AllJobs
  <1>5. /\ generation'[j] \in {generation[j], "processing"}
        /\ \A k \in Jobs \ {j} : generation'[k] = generation[k]
    BY <1>0, <1>1, <1>2 DEF Claim, Flushed, TypeInv, TypeOK, StoreTypeOK
  <1>6. /\ generation[j] \in {"pending", "processing"}
        /\ job[j].op # "reindex" =>
            version[j].gen = None /\ version[j].status \in {"pending", "processing"}
    BY <1>2, <1>3 DEF CandidatesKnown
  <1>7. /\ job[j].op = "reindex" => version' = version
        /\ job[j].op # "reindex" =>
            /\ version'[j].status = "processing" /\ version'[j].gen = version[j].gen
            /\ \A u \in Jobs \ {j} : version'[u] = version[u]
    <2>1. CASE job[j].op = "reindex"
      BY <1>1, <2>1 DEF Claim
    <2>2. CASE job[j].op # "reindex"
      <3>1. v = j
        BY <1>2, <2>2 DEF OnceInv, JobsKnown
      <3>2. version' = [version EXCEPT ![j].status = "processing"]
        <4>1. Flushed(version[j].status, r.ver, "processing") = "processing"
          BY <1>3, <3>1 DEF Flushed
        <4> QED
          BY <1>1, <2>2, <3>1, <4>1 DEF Claim
      <3> QED
        BY <1>0, <1>2, <2>2, <3>2 DEF TypeInv, TypeOK, StoreTypeOK, VersionRecord
    <2> QED
      BY <2>1, <2>2
  <1>8. CandidatesKnown'
    <2>1. \A k \in Jobs : job'[k].status = "none" => generation'[k] = "none"
      BY <1>0, <1>4, <1>5 DEF RowsMarked, CandidatesKnown
    <2>2. Busy(j)'
      BY <1>4 DEF Busy, ActiveJobStatus
    <2> QED
      BY <1>2, <1>4, <1>5, <1>6, <1>7, <2>1, <2>2, OneCandidate
  <1>9. LegalStep
    BY <1>5, <1>6, <1>7 DEF LegalStep, Moved, CandidateSteps
  <1> QED
    BY <1>8, <1>9

\* A job put back to retrying.
LEMMA TransientCandidates ==
    ASSUME IInv, OnceInv, OnceInv', CandidatesKnown, NEW w \in Workers, TransientFailure(w)
    PROVE CandidatesKnown' /\ LegalStep
  <1>0. TypeInv /\ RowsMarked /\ UNCHANGED <<version, generation>>
    BY TransientFailureMarks DEF IInv, TransientFailure
  <1>1. \A k \in Jobs : Busy(k)' => Busy(k)
    <2>1. CASE UNCHANGED rows
      BY <2>1 DEF rows, Busy
    <2>2. CASE HolderMarks(w, Job(w))
      <3>1. PICK j : j = Job(w)
        OBVIOUS
      <3>2. j \in Jobs /\ Holds(w, j) /\ JobRow(j)
        BY <1>0, <2>2, <3>1 DEF HolderMarks, TypeInv, LockHeld, TransientFailure, At,
           Attempting
      <3> QED
        BY <2>2, <3>1, <3>2, HolderAlone DEF HolderMarks, Busy
    <2> QED
      BY <2>1, <2>2, TransientFailureHolds
  <1>2. CandidatesKnown'
    BY <1>0, <1>1 DEF RowsMarked, CandidatesKnown
  <1> QED
    BY <1>0, <1>2 DEF LegalStep, Moved

\* A failure written while the rows are there.
LEMMA MarkFailedCandidates ==
    ASSUME IInv, OnceInv, CandidatesKnown, NEW w \in Workers, MarkFailed(w), JobRow(Job(w))
    PROVE CandidatesKnown' /\ LegalStep
  <1>1. PICK j : j = Job(w)
    OBVIOUS
  <1> DEFINE v == job[j].ver
             r == worker[w].snap
  <1>0. TypeInv /\ RowsLinked /\ HolderMarks(w, j) /\ RowsMarked
    BY <1>1, MarkFailedHolds DEF IInv, HolderMarks
  <1>2. j \in Jobs /\ JobRow(j) /\ v \in Jobs /\ VersionRow(v)
    BY <1>0, <1>1, MessageType DEF TypeInv, MarkFailed, TypeOK, StoreTypeOK, AllJobs,
       JobRecord, RowsLinked
  <1>3. Busy(j) /\ r.ver = version[v].status /\ r.job = job[j].status
    <2>1. Holds(w, j) /\ r.ver = version[v].status /\ r.job = job[j].status
      BY <1>1, <1>2, ReadStillTrue DEF MarkFailed, At, Reading
    <2> QED
      BY <1>2, <2>1, HolderAlone
  <1>4. job'[j].status = "failed"
    BY <1>0, <1>1, <1>2, <1>3 DEF MarkFailed, Flushed, TypeInv, TypeOK, StoreTypeOK,
       JobRecord, AllJobs, Busy, ActiveJobStatus
  <1>5. /\ generation'[j] \in {generation[j], "failed"}
        /\ generation[j] \in {"pending", "processing"}
    <2>1. generation'[j] \in {generation[j], "failed"}
      BY <1>0, <1>1, <1>2 DEF MarkFailed, Flushed, TypeInv, TypeOK, StoreTypeOK
    <2> QED
      BY <1>2, <1>3, <2>1 DEF CandidatesKnown
  <1>6. /\ \A u \in Jobs \ {v} : version'[u] = version[u]
        /\ \/ version'[v].status = version[v].status
           \/ version[v].status # "active" /\ version'[v].status = "failed"
    <2>1. CASE version[v].status = "active"
      BY <1>1, <1>3, <2>1 DEF MarkFailed
    <2>2. CASE version[v].status # "active"
      BY <1>0, <1>1, <1>2, <2>2 DEF MarkFailed, Flushed, TypeInv, TypeOK, StoreTypeOK,
         VersionRecord
    <2> QED
      BY <2>1, <2>2
  <1>7. version[v].status \in {"pending", "processing", "active", "superseded", "failed"}
    BY <1>0, <1>2 DEF VersionRow, TypeInv, TypeOK, StoreTypeOK, VersionRecord, VersionStatus
  <1>8. \A k \in Jobs \ {j} : generation'[k] = generation[k] /\ ~Busy(k)'
    BY <1>2, <1>3 , <1>0 DEF HolderMarks, OnceInv, OneBusy, Busy
  <1>9. CandidatesKnown'
    <2>1. \A k \in Jobs : ~Busy(k)'
      BY <1>4, <1>8 DEF Busy, ActiveJobStatus
    <2>2. \A k \in Jobs : job'[k].status = "none" => generation'[k] = "none"
      BY <1>0, <1>4, <1>8 DEF RowsMarked, CandidatesKnown
    <2> QED
      BY <2>1, <2>2, NoCandidate
  <1>11. version[v].status = "superseded" /\ version'[v].status = "failed"
            => FailedWithReindex(v)
    <2>1. job[j].op # "reindex" => v = j /\ version[j].status # "superseded"
      BY <1>2, <1>3 DEF OnceInv, JobsKnown, CandidatesKnown
    <2> QED
      BY <1>2, <1>3, <1>4, <2>1 DEF FailedWithReindex, Busy, ActiveJobStatus
  <1>10. LegalStep
    BY <1>2, <1>5, <1>6, <1>7, <1>8, <1>11 DEF LegalStep, Moved, CandidateSteps
  <1> QED
    BY <1>9, <1>10

\* Publication: the candidate becomes active, what was active is superseded.
LEMMA PublishCandidates ==
    ASSUME IInv, OnceInv, OnceInv', CandidatesKnown, NEW w \in Workers, Publish(w)
    PROVE CandidatesKnown' /\ LegalStep
  <1>1. PICK j : j = Job(w)
    OBVIOUS
  <1> DEFINE v == job[j].ver
             g == version[v].gen
  <1>2. /\ TypeInv /\ RowsPublished(j, v) /\ Holds(w, j)
        /\ \A u \in Jobs : version'[u].status = "active" <=> u = v
        /\ job[j].op = "reindex" => doc.active = v
    BY <1>1, PublishStatuses DEF IInv
  <1>3. j \in Jobs /\ v \in Jobs /\ JobRow(j)
        /\ \A k \in Jobs : job'[k].status = IF k = j THEN "succeeded" ELSE job[k].status
    BY <1>2 DEF RowsPublished
  <1>4. Busy(j)
    BY <1>2, <1>3, HolderAlone
  <1>5. /\ generation[j] = "processing" /\ generation'[j] = "active"
        /\ \A k \in Jobs \ {j} :
            generation'[k] = IF k = g THEN "superseded" ELSE generation[k]
    BY <1>1, <1>2, <1>3 DEF Publish, PublicationStale, ActivatedGenerations
  <1>6. \A u \in Jobs \ {v} :
            version'[u].status = IF u = doc.active THEN "superseded" ELSE version[u].status
    <2>1. \A u \in Jobs : version'[u].status = IF u = v THEN "active"
                                ELSE IF u = doc.active THEN "superseded"
                                ELSE version[u].status
      BY <1>1, <1>2, PublishedVersions
    <2> QED
      BY <2>1
  <1>7. /\ job[j].op = "reindex" => generation[g] = "active" /\ version[v].status = "active"
        /\ job[j].op # "reindex" => g = None /\ version[v].status = "processing"
    <2>1. CASE job[j].op = "reindex"
      BY <1>2, <1>3, <2>1 DEF OnceInv, StatusesAgree
    <2>2. CASE job[j].op # "reindex"
      BY <1>3, <1>4, <1>5, <2>2 DEF OnceInv, JobsKnown, CandidatesKnown
    <2> QED
      BY <2>1, <2>2
  <1>8. None \notin Jobs
    BY JobsAssumption
  <1>9. \A u \in Jobs : u = doc.active => version[u].status = "active"
    BY DEF OnceInv, StatusesAgree
  <1>10. CandidatesKnown'
    <2>1. \A k \in Jobs : ~Busy(k)'
      BY <1>3, <1>4 DEF OnceInv, OneBusy, Busy, ActiveJobStatus
    <2>2. \A k \in Jobs : job'[k].status = "none" => generation'[k] = "none"
      <3> SUFFICES ASSUME NEW k \in Jobs, job'[k].status = "none" PROVE generation'[k] = "none"
        OBVIOUS
      <3>1. k # j /\ generation[k] = "none"
        BY <1>3 DEF CandidatesKnown
      <3>2. k # g
        BY <1>7, <1>8, <3>1
      <3> QED
        BY <1>5, <3>1, <3>2
    <2> QED
      BY <2>1, <2>2, NoCandidate
  <1>11. LegalStep
    <2>1. \A u \in Jobs : Moved(version[u].status, version'[u].status)
      <3>1. Moved(version[v].status, version'[v].status)
        BY <1>2, <1>3, <1>7 DEF Moved, CandidateSteps
      <3> QED
        BY <1>6, <1>9, <3>1 DEF Moved, CandidateSteps
    <2>2. \A k \in Jobs : Moved(generation[k], generation'[k])
      BY <1>5, <1>7, <1>8 DEF Moved, CandidateSteps
    <2> QED
      BY <2>1, <2>2 DEF LegalStep
  <1> QED
    BY <1>10, <1>11

\* The purge removes every candidate.
LEMMA PurgeCandidates ==
    ASSUME IInv, NEW w \in Workers, Purge(w) PROVE CandidatesKnown' /\ LegalStep
  <1>1. RowsPurged
    BY PurgeRows DEF IInv
  <1>2. \A k \in Jobs : ~Busy(k)'
    BY <1>1 DEF RowsPurged, Busy, JobRow, ActiveJobStatus
  <1>3. \A k \in Jobs : version'[k].status = "none" /\ generation'[k] = "none"
    BY <1>1 DEF RowsPurged, VersionRow, Purge
  <1> QED
    BY <1>2, <1>3, NoCandidate DEF LegalStep, Moved

\* A commit starts the only candidate.
LEMMA InsertCandidates ==
    ASSUME IInv, OnceInv, OnceInv', CandidatesKnown, NEW c \in Clients, Inserts(c)
    PROVE CandidatesKnown' /\ LegalStep
  <1>1. PICK j : j = request[c].job
    OBVIOUS
  <1>2. Inserted(j)
    BY <1>1, InsertEffects
  <1>3. /\ j \in Jobs /\ j # Deletion /\ generation[j] = "none"
        /\ version[j].status = "none" /\ Busy(j)'
        /\ \A k \in Jobs \ {j} : generation'[k] = generation[k] /\ job'[k] = job[k]
    BY <1>2, JobsAssumption DEF Inserted, VersionRow, CandidatesKnown, Busy,
       ActiveJobStatus, AllJobs
  <1>4. generation'[j] = "pending"
        /\ \/ version'[j].status = "pending" /\ version'[j].gen = None
           \/ job'[j].op = "reindex" /\ version' = version
    <2>0. TypeInv
      BY DEF IInv
    <2>1. CASE CommitUpload(c)
      <3>1. j = Initial
        BY <1>1, <2>0, <2>1 DEF CommitUpload, RequestAt, TypeInv, RequestsNamed
      <3> QED
        BY <1>3, <2>0, <2>1, <3>1 DEF CommitUpload, InsertVersion, InsertGeneration,
           TypeInv, TypeOK, StoreTypeOK
    <2>2. CASE CommitReplacement(c)
      BY <1>1, <1>3, <2>0, <2>2 DEF CommitReplacement, InsertVersion, InsertGeneration,
         TypeInv, TypeOK, StoreTypeOK
    <2>3. CASE CommitReindex(c)
      BY <1>1, <1>3, <2>0, <2>3 DEF CommitReindex, InsertJob, InsertGeneration, TypeInv,
         TypeOK, StoreTypeOK, AllJobs
    <2> QED
      BY <2>1, <2>2, <2>3 DEF Inserts
  <1>5. CandidatesKnown'
    <2>1. \A k \in Jobs : job'[k].status = "none" => generation'[k] = "none"
      BY <1>2, <1>3 DEF Inserted, CandidatesKnown
    <2> QED
      BY <1>3, <1>4, <2>1, OneCandidate
  <1>6. LegalStep
    BY <1>2, <1>3, <1>4 DEF Inserted, LegalStep, Moved, CandidateSteps
  <1> QED
    BY <1>5, <1>6

\* Candidates stay known and take legal steps.
LEMMA CandidatesNext ==
    ASSUME IInv, OnceInv, OnceInv', CandidatesKnown, DeliveredOnce, [Next]_vars
    PROVE CandidatesKnown' /\ LegalStep
  <1>0. TypeInv
    BY DEF IInv
  <1>1. ASSUME UNCHANGED <<version, generation>>, \A k \in Jobs : job'[k] = job[k]
        PROVE CandidatesKnown' /\ LegalStep
    BY <1>1 DEF CandidatesKnown, Busy, LegalStep, Moved
  <1>2. CASE UNCHANGED rows
    BY <1>1, <1>2 DEF rows
  <1>3. ASSUME NEW w \in Workers,
               ClaimDeletion(w) \/ StorageError(w) \/ MarkDeletionFailed(w)
        PROVE CandidatesKnown' /\ LegalStep
    <2>1. UNCHANGED <<version, generation>> /\ \A k \in Jobs : job'[k] = job[k]
      BY <1>0, <1>3, JobsAssumption DEF ClaimDeletion, StorageError, MarkDeletionFailed,
         TypeInv, TypeOK, StoreTypeOK, AllJobs
    <2> QED
      BY <1>1, <2>1
  <1>4. ASSUME NEW c \in Clients, AcceptDeletion(c) PROVE CandidatesKnown' /\ LegalStep
    <2>1. UNCHANGED <<version, generation>> /\ \A k \in Jobs : job'[k] = job[k]
      BY <1>0, <1>4, JobsAssumption DEF AcceptDeletion, InsertJob, TypeInv, TypeOK,
         StoreTypeOK, AllJobs
    <2> QED
      BY <1>1, <2>1
  <1>5. ASSUME NEW w \in Workers, MarkFailed(w), ~JobRow(Job(w))
        PROVE CandidatesKnown' /\ LegalStep
    <2>1. UNCHANGED <<job, version, generation>>
      BY <1>5 DEF MarkFailed, RowsVanished
    <2> QED
      BY <1>1, <2>1
  <1> QED
    BY <1>2, <1>3, <1>4, <1>5, RowActions, ClaimCandidates, TransientCandidates,
       MarkFailedCandidates, PublishCandidates, PurgeCandidates, InsertCandidates

\* The invariant of the candidates is inductive with the others.
LEMMA InitCandidates == Init => CandidatesKnown
  <1> SUFFICES ASSUME Init PROVE CandidatesKnown
    OBVIOUS
  <1>1. \A j \in Jobs : job[j].status = "none" /\ generation[j] = "none" /\ ~VersionRow(j)
    BY DEF Init, NoVersion, AllJobs, VersionRow
  <1> QED
    BY <1>1 DEF CandidatesKnown, Busy, ActiveJobStatus

\* The three invariants hold together.
LEMMA CandidateInvariant == ASSUME DeliveredOnce PROVE Spec => [](IInv /\ OnceInv /\ CandidatesKnown)
  <1>1. Init => IInv /\ OnceInv /\ CandidatesKnown
    BY InitInv, InitOnce, InitCandidates
  <1>2. IInv /\ OnceInv /\ CandidatesKnown /\ [Next]_vars => (IInv /\ OnceInv /\ CandidatesKnown)'
    <2> SUFFICES ASSUME IInv, OnceInv, CandidatesKnown, [Next]_vars
                 PROVE (IInv /\ OnceInv /\ CandidatesKnown)'
      OBVIOUS
    <2>1. IInv' /\ OnceInv'
      BY NextInv, OnceNext
    <2>2. CandidatesKnown'
      BY <2>1, CandidatesNext
    <2> QED
      BY <2>1, <2>2
  <1> QED
    BY <1>1, <1>2, PTL DEF Spec

(* Delivered once, generations take the steps of their transition table    *)
(* only, and versions those of theirs and one more: superseded to failed,  *)
(* when the reindex of a version that has been superseded is given up.  In *)
(* particular what failed stays failed.                                    *)
THEOREM CandidatesStepLegally == ASSUME DeliveredOnce PROVE Spec => LegalCandidateSteps
  <1>1. /\ IInv /\ OnceInv /\ CandidatesKnown /\ (IInv /\ OnceInv /\ CandidatesKnown)'
        /\ [Next]_vars
        => [\A j \in Jobs :
             /\ \/ version'[j].status \in {version[j].status, "none"}
                \/ <<version[j].status, version'[j].status>> \in CandidateSteps
                \/ FailedWithReindex(j)
             /\ \/ generation'[j] \in {generation[j], "none"}
                \/ <<generation[j], generation'[j]>> \in CandidateSteps]_vars
    BY CandidatesNext DEF LegalStep, Moved
  <1> QED
    BY <1>1, CandidateInvariant, PTL DEF Spec, LegalCandidateSteps
=================================================================================
