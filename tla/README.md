# Formal model of the Atlas enterprise RAG platform

TLA+ modules, TLC runs and TLAPS proofs for the parts of the platform whose
correctness depends on the order in which several processes act. The reference is the code
under `src/`; a module's definitions are listed with the lines they model in `PROJECT.json`
("map").

## 1. Inventory

| Component (source) | State it keeps | Operations | Interacts with | What makes it correct |
| --- | --- | --- | --- | --- |
| Upload API (`api/documents.py`) | `documents`, `document_versions`, `document_index_generations`, `processing_jobs` rows, one source object | upload | storage, broker | nothing half made is left; committed work is queued or recoverable |
| Lifecycle API (`api/lifecycle.py`) | same rows | replace, reindex, delete | storage, broker, each other | one operation at a time; sources kept; a deletion is final |
| Ingestion worker (`tasks.py: process_job`) | job, version, generation, document rows; advisory lock | claim, prepare, publish, mark failed, mark retrying | storage, embedding provider, database | searches see a complete chunk set or none; statuses agree with pointers |
| Deletion worker (`tasks.py: process_deletion`) | same rows, source objects | claim, remove files, purge, mark failed | storage, database | a tombstone is empty and stays one |
| Celery application and Redis (`worker.py`, `compose.yaml`) | messages, retry counts | deliver, requeue, retry, time limits, loss | all workers | at-least-once delivery while Redis lives |
| Job reconciler (`job_reconciliation.py`) | none | republish QUEUED and RETRYING jobs | broker | accepted work is settled |
| Storage and its reconciler (`storage.py`, `storage_reconciliation.py`) | source objects | store, verify, delete, count | API, workers | an object exists exactly for its version |
| Database schema (`db/models.py`, migrations) | all rows, unique and partial unique indexes, cascades | constraints | everything | invariants across tables |
| Embedding backfill (`embedding_backfill.py`) | chunk embeddings | select, embed, update | provider | never touches a purged or foreign generation |
| Conversations (`api/conversations.py`) | conversations, turns, messages, citations | create, ask, delete, list | rewriting, retrieval, answering | one pending turn; a key answers once; messages in order; stable pages |
| Answering (`answering.py`, `api/answers.py`) | none | select context, generate, validate citations, retry, refuse | provider, database | every citation refers to a supplied source that is still served |
| Search (`retrieval.py`, `api/search.py`) | none | vector scan with exact fallback, lexical scan, identifier lookup, reciprocal rank fusion | database, documents published meanwhile | deterministic, duplicate-free ranking of a fixed size |
| Reranking (`reranking.py`) | model, executor | score with a timeout, fall back | executor thread | an order of the candidates, also on a fallback |
| Rewriting (`rewriting.py`, `assistant_intents.py`) | none | bounded history, rewrite | provider | history within its limits |
| Embedding provider (`embeddings.py`) | none | batches, retries with Retry-After | HTTP | one vector for each input, in order; bounded waiting |
| Chunking, cleaning, parsing (`ingestion/`) | none | chunk, clean, parse | worker | chunks cover the unit, stay within the maximum, and progress |
| Membership, invitations, grants (`api/enterprise.py`) | accounts, memberships, invitations, grants, audit events | update member; create, edit, replace, revoke, remove, list, accept an invitation; put and delete a grant | identity, collections | an active owner; an invitation admits once; no lost update; the trail tells what happened |
| Audit export, feedback, analytics (`api/enterprise.py`) | audit events, feedback rows | rate, export, list, aggregate | conversations | one row for each answer; exports are spaced |
| Identity, collections (`api/identity.py`) | collections, `collection_deletions`, objects | create, delete, repeat the clean-up | uploads, replacements, storage, conversations | nothing survives the rows; objects of deleted rows go |
| Authentication (`auth.py`) | JWKS cache, asyncio lock | verify, refresh on expiry or an unknown kid; permission checks | identity provider | rotated keys become usable, bounded refreshes, fail closed |
| Frontend session and proxy (`frontend/lib`, `frontend/app/api`) | session cookie | sign in, refresh, proxy, sign out | identity provider, API, other requests of the browser | a refresh does not lose the session |
| UI, observability, metadata validation, evaluation, bootstrap, operations | - | - | - | presentation, pure functions or one-shot scripts |

What is hard, and is listed line by line under "hazards" in `PROJECT.json`:
unlocked reads followed by writes by primary key (`tasks.py:195`, `:130`), a `FOR UPDATE`
that locks but does not refresh an object the session holds (`api/lifecycle.py:238`),
at-least-once delivery with late acknowledgement, a broker without persistence, failure
marks that run outside the lock of the attempt they belong to, two-store updates (objects
and rows) with a crash or a lost acknowledgement between, and retries that end; in a conversation, a turn that is
committed before the providers are called, a row lock held during those calls, a deletion
that deadlocks with it, and sources purged while an answer that cites them is generated. In
the administration, rows that are read without a lock and written by key, unique indexes that
decide what a query did not see, and versions a page showed some time ago; in the removal of a
collection, keys listed before the last document lock is free, and a clean-up that is resumed by
a later request; in the browser, a refresh token that works once, answers that arrive in any
order or not at all, and errors after the exchange; in a search, several snapshots of a corpus that moves.

## 2. Plan

1. **Document lifecycle** (done): store, API, ingestion worker, deletion worker, broker,
   reconciler, composed in `DocumentLifecycle`; safety proved.
2. **What retrieval is promised** (done): `ServedDocument`, and `DocumentLifecycle` shown to
   implement it by a refinement mapping; model-checked and proved.
3. **Conversation turns** (done): idempotency key, pending-turn index, the answer's
   transaction, conversation deletion, citations against a concurrent purge; safety proved,
   and the conversation shown to implement `ConversationLog`.
4. **Collection deletion** (done): its tombstone and storage clean-up against uploads,
   replacements and feedback, in `Workspace`; safety proved, completion model-checked.
5. **Membership, invitations and grants** (done): `Administration`; safety proved, and the
   administration shown to implement `MembershipRegister`.
6. **JWKS cache and frontend session** (done): `TokenVerification` and `BrowserSession`; proved.
7. **Sequential parts** (done): preparation of a document, the evidence of an answer, and the
   listings, checked together in `SequentialParts` over bounded inputs; all five properties proved.

What the plan has left: the history of a rewrite, and the quotas of uploads.

## 3. Modules and how they correspond to the code

| Module | Models |
| --- | --- |
| `LifecycleStore` | constants and their assumptions, the variables, types, initial state, the partial unique index, and what an ORM flush writes |
| `WorkerProcess` | what both Celery tasks share: retry, giving up, failure-mark reads, SQL errors, acknowledgement |
| `IngestionWorker` | `process_job`, `_mark_failed`, `_mark_retrying`, `mark_retry_exhausted` |
| `DeletionWorker` | `process_deletion`, `mark_deletion_retry_exhausted` |
| `LifecycleApi` | `upload_document`, `replace_document`, `reindex_document`, `delete_document` |
| `Broker` | lost workers, time limits, redelivery, Redis loss, `republish_stale_jobs` |
| `DocumentLifecycle` | the composition, fairness, and the safety properties |
| `LifecycleClaims` | what the documents and the transition tables say, the refinement mapping, and liveness |
| `ServedDocument` | the abstract specification of what a search finds of one document |
| `LifecycleInvariant` | the inductive invariant |
| `DocumentLifecycleProofs` | the proofs of the types, of the safety properties, and that requests orphan no source |
| `SingleDelivery`, `SingleDeliveryProofs` | the inductive invariants while every message is delivered once, and the proofs of the refinement and of the documented transitions |
| `MCDocumentLifecycle` | symmetry, and the root module of the lifecycle runs |
| `ConversationTurns` | `create_message`, the part of `ask` that fails, retries and validates, `delete_conversation`, and the life of the cited chunks; its properties and the two claims |
| `ConversationLog` | the abstract specification of what a conversation promises those who ask in it and read it |
| `ConversationProofs` | the inductive invariant of `ConversationTurns`, the proofs, and the refinement of `ConversationLog` |
| `MCConversation` | the root module of the conversation runs |
| `AccessControl` | the permission tables and `require_membership`, `require_collection_permission` as functions of the rows they read |
| `Administration` | every route of `api/enterprise.py` that changes a member, an invitation or a grant |
| `MembershipRegister` | the abstract specification of who belongs to the organization and what they may reach |
| `AdministrationProofs`, `MCAdministration` | the inductive invariant of `Administration`, the proofs, and the refinement of `MembershipRegister`; its instance |
| `CollectionRemoval` | `delete_collection` with its tombstone and clean-up, and the uploads and replacements it races with |
| `AnswerFeedback` | `feedback`, and the rate limit of `export_audit_events` |
| `Workspace` | the two together: one transaction takes the rows of both |
| `WorkspaceProofs`, `MCWorkspace` | its inductive invariant and proofs; its instance |
| `TokenVerification` | `JWKSCache` |
| `BrowserSession` | the session cookie, the refresh and the backend proxy of the frontend, over `TokenVerification` |
| `BrowserSessionProofs`, `MCBrowserSession` | its inductive invariant and proofs; its instance |
| `Ordering` | ORDER BY and `list.sort`: the members of a finite set in a strict order |
| `OrderingProofs` | the lemmas about data that the proofs share: least members, induction, sorted lists, functions defined along a list |
| `Retrieval` | fusion, identifier injection, reranking, selection and context as operators on rankings |
| `AnswerEvidence` | one search or question as steps over `Retrieval`, while documents change |
| `DocumentPreparation` | chunking, batching, embedding and the retry delay of one job |
| `Listing` | the six paged listings |
| `SequentialParts`, `SequentialPartsProofs` | the last three side by side, without common state; the proofs of their properties |
| `MCAnswerEvidence`, `MCDocumentPreparation`, `MCListing`, `MCSequentialParts` | their instances |

The state of the lifecycle modules is that of **one document**. A worker's and a request's local variables are
records: `worker[w].step` says between which transactions a task stands, `snap` holds the
attributes it read and may still write from, `keys` the objects a deletion still has to
remove; `request[c]` holds the attributes the session loaded. One identity names a version,
its generation and its job, because an upload and a replacement insert the three together;
a reindex inserts a generation and a job under a fresh identity and points to a version.

Granularity: one action for each stretch between two points at which another process can
act. `process_job` is `Begin` (lock and SELECTs), `Claim` (the flush of the first
transaction), `Prepare` or an error (outside any transaction), `Publish` or
`PublishRefused` (the second transaction, under row locks); `_mark_failed` is `FailRead` and
`MarkFailed`. `process_deletion` is `BeginDeletion`, `ClaimDeletion`, one `RemoveSource` for
each file, and `Purge`. `replace_document` is `StoreReplacement` and `CommitReplacement`;
publication to the broker is always a step of its own, after the commit. How a request ends before
its publication decides what becomes of its object: `Refuse` (a refusal, or an error inside the
`try` statement) removes it; an error of the two queries before that statement
(`lifecycle.py:204-231`) leaves it (`ReplacementQueryFails`); a commit whose acknowledgement is lost
took effect, and the `except` clause removes the object of a committed version (`CommitReturns`,
`DiscardUnsure`); a process that dies leaves everything (`AbandonRequest`). `request[c]` then
keeps the step `failed`, as a history of what the client was told.

Two things of SQLAlchemy decide what a step writes. A flush writes an attribute only if
its new value differs from the one loaded (`Flushed`), and by primary key, whatever the row
has become. `SELECT ... FOR UPDATE` of an object already in the session waits for the row
lock but keeps the attributes loaded before.

### One conversation

A turn is named by its `Idempotency-Key` and is one record: its row, whether it has an
assistant message and a stored response, and the chunks whose excerpts that response holds.
`citation[k][s]` is the `source_status` of the citation rows. `asker[c]` is a request
between two commits: `numbered` (the last sequence number was read), `asked` (the pending
turn is committed), `rewriting`, `generating`, `answered` (everything is ready but not
committed) and `failing` (in the `except` clause, after the rollback).

The attributes written after the rewrite are flushed by the first query of `ask`
(autoflush), so from then on the request holds the turn's row lock while it calls the
providers; the first insert of a message needs the conversation's row as well.
`DELETE` of the conversation locks in the opposite order. The model has all outcomes:
`RemoveConversation` waits for `HoldsTurn`, `Complete` needs `conversation = "open"`, and the deadlock
ends by `Raise` or by `RemovalAborted`. In a purge the document's row lock excludes the
foreign-key check of a citation that is being inserted, so `Purge` and `Complete` are
atomic with respect to each other; a citation of a purged chunk is refused
(`ReferencesHold`) and the turn fails. The lifecycle of a chunk is the view that retrieval,
validation and citations have of `DocumentLifecycle`: indexed, superseded, deleting, purged.

`ConversationLog` is what those see who ask and read: the question of each key, the one that is
open, the list of answers, the links of their citations. An abandoned question stays open in it, as
the pending turn does. The refinement mapping takes `GET .../messages`, the completed turns ordered by
their numbers (`Listed`), for the list; an answer leaves it only by the failure mark after a lost
acknowledgement, or with the conversation.

### What a search is promised

`ServedDocument` knows a generation that is served, the generations that may still be taken
into service, and whether the document was withdrawn. `LifecycleClaims` maps the lifecycle to
it: what is served is what the joins of `retrieval.py` find (`Found`: three pointers and three
statuses), a generation is fresh while its job neither succeeded nor was purged, and the document
is withdrawn when a deletion was accepted. Publication is `Activate`, the acceptance of a deletion
`Withdraw`, the purge `Forget`; every other step of every process must be a stutter, so a claim,
a failing or retried candidate, a refused request or an error never changes what is found, and
supersession is never seen half done. It holds while messages are delivered once
(`DeliveredOnce`: no worker dies, no visibility timeout passes, and the reconciler does not
republish), which is proved for every instance (section 5). With a
duplicate delivery it fails: the failure mark of a given-up delivery takes the served document
out of service. What remains then is `ServiceContinues`, where that mark is the one exception.

### The administration

A request is one transaction under READ COMMITTED, in two or three steps: what it read is in
`requests[r]`, and the locks it holds follow from the step it is at (`MemberLocked`,
`InvitationLocked`, `AccountLocked`). Reads without `FOR UPDATE` (the owner count, the pending
invitation of an address, the expired invitations of the list route, the grant that is changed)
are a step before the write that relies on them, so everything may happen in between; unique
indexes and foreign keys decide at the write (`InsertConflicts`, `AcceptFails`, `StillThere`).
What was refused, rolled back or replayed writes nothing; a change of a member waits for the row
and compares `expected_version` with what it finds (`LockMember`). `trail` is the set of audit
events, added in the transaction of the change. Row and event go together; what is not given is
that they still agree after other requests wrote the same row by its key.
`TrailTellsEveryChange` says in one direction that nothing is as it is without its event
(memberships, invitations in every status, grants), and in both directions for changes of a member,
acceptances and removals. The other direction does not hold for grants, whose routes also record
the change or removal of a row that is already gone (`enterprise.py:890`, `:930`), nor for the
expiry of an invitation that was accepted meanwhile.

`MembershipRegister` has no requests, locks or rows: members with a version, open offers, spent
invitations, whom they admitted, grants and collections, and nine steps that each read and write
at once. That `Administration` implements it says that what the requests read without a lock, or
some time before they write, never shows: a change of a member is one of its latest version; an
acceptance adds to what the subject holds at that moment, on the terms the invitation has then,
and only for the address it was made to; a spent invitation never offers again; a grant is given
to somebody who is a member, in a collection that exists. What does not follow from row locks
follows from the indexes and foreign keys that fail the write. The register promises neither one
offer for an address (two `create_invitation` may both find none) nor an owner
(`MCClaimFinalOwner`), because the code does not keep them.

### A collection, its documents and its ratings

A version is named by its storage key. `delete_collection` is `ListKeys` (the collection is
locked, the keys are read), `DeleteRows` (after the last document lock is free: documents,
versions, conversations and feedback go, the tombstone comes) and the clean-up, object by
object, by the same request or by a repeated `DELETE`. The tombstone in the session of the
deleting request is not refreshed by its second lock, so two clean-ups may run one after the
other over the same keys, and only a column that differs from the row that was read is written.
The feedback of an answer and the export limit are read-then-write races over a unique index
and over the latest committed event; they share the deletion and the budget of requests. An export
has two instants: its event bears the start of the transaction (`now()` of PostgreSQL, begun by the
query that authenticates), and the limit is asked for with the application's clock, read later. One
clock is assumed for both. `ExportsAreSpaced` is about the second instant; the times in the trail
can be closer (`RecordedTimesAreSpaced`, section 4).

### Keys and sessions

A call looks into the cache without the lock, waits for it in order of arrival, and refreshes at
most once; the provider's answer and its installation are two steps, and rotation, expiry and
other calls come between any two. `steady` is a history variable: the key of the token was
published all the time since the call began. A page (a browser request) carries a copy of the
cookie. The proxy exchanges the refresh token if the access token is due, calls the API, and answers
with the new pair, with a cleared cookie, or with neither; a fetch that throws, before or after the
exchange (`route.ts:34` comes after `setSession`), is an error page without a cookie (`RouteFails`,
`ApiAnswerFails`), and an answer may not arrive (`AnswerLost`). The acceptance of an invitation uses
the session as it is, and so does the change of the demo role, which then writes back the copy it
read (`demo-role/route.ts:15-30`). The browser keeps what arrives last. `alone` says that no other
request of the browser was in progress since this one was sent; `lost` is a history variable, the
pairs that were exchanged without the browser getting or keeping the successor.

### One search, one document, one listing

`AnswerEvidence` is a request with a step for every SELECT and every provider call, `Publish`
and `Withdraw` of documents between them; the vector scan may miss rows, the rankings of SQL are
any order of matching rows, scores, generated citations and refusals are choices. `Retrieval`
holds the pure functions, with reciprocal rank fusion computed exactly on fractions. What the
code sorts, or collects in a loop over identifiers or documents, is `InOrder` of a set: the members
by their sort key. Where a loop carries a budget (`build_answer_context`, `token_batches`) it is a
recursive function over the positions of the list.
`DocumentPreparation` cuts any cleaned text character by character with the offsets of
`chunking.py`, and counts the seconds of every retry delay. `Listing` walks through a listing
page by page with the cursor the route hands out, and rows come and go between the pages.

### Abstractions

- The SELECTs of one transaction's start are one read. Between them READ COMMITTED could
  show more interleavings; the row writes are still separate steps.
- `ready` is set and left inside the publication transaction and is not a visible status.
- Contents, checksums, parsing, chunks and vectors: a set `chunks` of generations that are
  indexed, completely or not at all. A verification fails if the object is gone.
- Every reason a request is refused before its commit (invalid content, replayed or
  conflicting `Idempotency-Key`, identical source, SQL error inside the `try` statement) is
  `Refuse`: all of them end the request and remove the object it stored. A file that was written in
  part and a validation that fails with another error than `UploadValidationError` are left out.
- A commit of a reindex or of a deletion whose acknowledgement is lost leaves committed work that
  is not published, as `PublishJobFails` does, and is not a step of its own.
- Accepting a deletion is one step; a second concurrent request would be refused by
  `uq_processing_jobs_idempotency`. Uploads of other documents do not interact.
- The queue is a set: two equal messages are one, and redelivery puts one back.
- Conversation: any question may be of the workspace kind; retrieval returns any set of
  searchable chunks, the provider any citations of them, every call may fail; a chunk stands
  for its own document; texts, usage, titles and the contents of the history are left out.
  A replay, a busy key and a conflict change nothing and are not actions, which is why
  `Ask` needs `Lookup = "new"`. The two messages of a turn have the numbers 2n-1 and 2n, so
  their order is that of the turns.
- The retry delay and the reconciler's 60 second cutoff and batch size are left out: a retry
  or a republication may happen at any time. The reconciler does not publish what is queued.
- Losing a message on redelivery or Redis loss affects the queued ones; a message in a
  worker's hands is lost by a time limit.
- Administration: an organization, its bootstrapped owners and seeded members; rate limits,
  names, tokens' text and quotas are left out. A signed preview token is the role it names. The
  clock is one flag `due` for each invitation. A second read of a row that the transaction has
  locked is the same row.
- Workspace: the document lifecycle inside a replacement is one lock and one insert; only the
  difference between an upload and a replacement matters to the deletion. A unique generated key
  is never used twice.
- Session: the identity provider rotates refresh tokens and always sends a new one. Verifying the
  claims of a token is a choice. CSRF and path checks are one refusal. The session's demo role is
  data and left out; what its route does to the token pair is not.
- Retrieval: a source block is its sizes in tokens and in characters; like the code, the model does
  not count the blank lines between blocks. Left out are metadata filters (they decide which
  documents there are) and the query-embedding cache.
- Preparation: one source unit; a chunk has as many tokens as characters.
- Listing: messages come one at a time; the expiry sweep of the invitation list is in
  `Administration`.

## 4. Runs

Deadlock checking is off: when all identities
are used and the budgets are spent the system rests, and that is not an error.
In the lifecycle `MaxRetries` is 1 instead of 3 (one retry that may follow and one that may not), `MaxFaults` bounds
crashes, redeliveries, lost messages and dead requests together, `MaxErrors` bounds parser,
provider, storage and SQL errors.

| Run | Instance | Shows |
| --- | --- | --- |
| `MCLifecycleFaults` | 3 identities, 2 workers, 1 client, 1 crash / redelivery / time limit / API death, 2 errors | `TypeOK`, `PointersResolve`, `DeletedIsUnsearchable`, `OneLifecycleOperation`, `SucceededIsIndexed`, `OneProcessorPerJob`, `ServiceContinues`, `ActivationMovesForward` |
| `MCLifecycleOnce` | 3 identities, 2 workers, 2 clients, 1 lost publication / retry / queue / commit acknowledgement, 2 errors; no duplicate delivery | `StatusesAgree`, `CommittedSourceKept`, `NoOrphanSource`, `ImplementsServedDocument`, `LegalCandidateSteps` |
| `MCLifecycleSettles` | 1 identity, 2 workers, 1 client, 1 crash / time limit / lost publication / lost retry / redelivery, 1 error, the reconciler at any time; fair | `AcceptedWorkSettles`, `DeletionIsCarriedOut` |
| `MCConversation` | 2 keys, 2 bodies, 2 requests, 1 citable chunk, 1 fault (SQL error, failed failure mark, process death, lost acknowledgement); fair | `OneAnswerInProgress`, `AnswerStoredWhole`, `CitationsResolve`, `ImplementsConversationLog`, `NewMessagesAtEnd`, `SettledKeyIsSpent`, `PendingTurnSettles` |
| `MCAdministration` | 1 owner, 1 member, 1 newcomer with the member's address, 2 invitations, 1 collection, 2 requests at a time and 3 in all, versions up to 3 | `TrailTellsEveryChange`, `AdmitsOnce`, `NoLostUpdate`, `ImplementsMembershipRegister` |
| `MCWorkspace` | 1 seeded document, 1 key for an upload and 1 for a replacement, 2 clients, 2 tabs, 2 exports, 3 requests, 1 outage, instants 0 to 2 with a limit of 2; fair | `NothingSurvivesTheRows`, `CompleteMeansErased`, `NoUploadStranded`, `RatedOnce`, `ExportsAreSpaced`, `CleanUpCompletes` |
| `MCBrowserSession` | 2 requests, 2 signing keys, 2 token pairs | `PublishedKeysAreKnown`, `AloneStaysSignedIn`, `FailClosed` |
| `MCSequentialParts` | all cleaned texts of up to 6 characters over a letter, a full stop, a space and a line break; 4 chunks of 2 documents, one with two editions; 5 rows, two pairs of them of one moment, pages of 2 | `PreparedWhole`, `WaitsWithinBudget`, `EvidenceIsSound`, `OneEditionPerAnswer`, `CursorIsStable` |

Three identities are the least with which an upload, a replacement and a reindex (or two
replacements) meet; two workers and one duplicate are the least for a race of two
deliveries; two errors are the least for a failed attempt followed by a last failed attempt.
Symmetry is used for safety only. The two safety runs allow all operations; the single distinction
is whether a message may be delivered twice, because the refinement and the documented transitions
hold only if it may not. Settling is about one job and its deletion, so one identity suffices there,
but it takes two workers: a duplicate delivery, and a deletion beside an ingestion.

Two keys are the least for a sequence number that became stale before its insert and for
two visible turns in order; two bodies for a conflicting reuse of a key; two requests meet
in every pair of steps because the model has no step of three requests. One chunk suffices
for the race of a citation with a purge, since chunks of different documents share nothing.
The invariants of the proofs were also checked with three keys.

In the administration a race is between two transactions; the third request is the one that
prepared what they race for (an invitation, a changed version). A member may reach version 3: one
change by each of two tabs that showed version 1, of which the second is refused as stale, and one
more that saw the first. Two subjects with one address
are an account that was recreated at the identity provider: the least for an invitation that
could admit two. In the workspace a third key separates what a deletion loses (a replacement)
from what it does not (an upload), and three instants with a limit of two allow an export that
is allowed, one that is refused and one that began before another and asks after it. Two token pairs
are a session and its refresh, and the second use of the first is what is refused; the proof covers
any number. Two signing keys are a rotation. Texts of six characters
with a target of three, a maximum of four and an overlap of two are cut up to five times, with
every kind of boundary; `MaxRetries` is 7 there, although the default is 3, so that the delays
reach the 120 second budget. Five rows in pages of two are three pages, the last of one row.

Runs that show a documented statement violated by what the code does:

| Run | Statement | What happens |
| --- | --- | --- |
| `MCClaimActivation` | a deletion "blocks activation" | a claim that read the document earlier writes `processing` over `deleting`, and publishes |
| `MCClaimFinalOwner` | "The final active owner cannot be demoted" | two owners demote each other: each counts two active owners, without a lock |
| `MCClaimStranded` | the tombstone "captures exact storage keys" | a replacement commits after the keys were listed; its row is deleted and its object stays |
| `MCClaimPages` | "List endpoints use bounded cursor pagination" | the cursor is the first row that was not shown, and the next page starts after it |

Met with the same modules and without a run of their own. The formula, where one is named, is in
the module.

- `TombstoneIsFinal`: a failure mark that read the document before its purge writes `failed`
  over `deleted`, although the transition table gives `deleted` no successor; a replacement that
  loaded the document before its deletion commits a version after the purge (`TombstoneIsEmpty`),
  and the two together serve a document that was purged.
- "Duplicate delivery is safe" (`docs/DOCUMENT_LIFECYCLE.md:58`) with two exceptions, which
  the properties name: a FAILED job that is delivered again is run again, and a version that was
  given up is activated over a later one (`ActivationMovesForward`); and the failure mark of a
  delivery that has used up its retries hides what another delivery of the job published
  (`ServiceContinues`, `ImplementsServedDocument`).
- The source of a committed version is removed by its own request when the acknowledgement of the
  commit is lost (`lifecycle.py:320`, `documents.py:164`); the client gets an error, and the job can
  only fail (`CommittedSourceKept` admits it). A replacement whose query fails before the `try`
  statement leaves its object in storage (`NoOrphanSource` admits it).
- `DeletionStaysRetryable`: after the last attempt the deletion job is `failed`, the document
  stays `deleting`, and nothing runs it again.
- `FailedPublicationUndone`: when the publication to the broker fails, rows and file stay and the
  answer is 202, where the text says they are removed.
- `PurgedExcerptIsGone`: the response stored for replays of a key still holds the excerpts of a
  purged source. `NeverLockedPending`: an SQL error in the deterministic answer, outside the
  `try`, leaves the turn pending for ever.
- A job left `running` by a dead worker whose message Redis lost is never republished
  (`docs/OPERATIONS.md:3` promises it for queued and retrying jobs only); a storage error of a
  duplicate deletion delivery puts a finished deletion job back to `retrying`. `LostForGood` lists
  how a job is left `running` with nobody to answer for it, which `AcceptedWorkSettles` excepts: a
  lost message; the failure mark of one delivery and the claim of another; and a reindex whose
  version was superseded before it committed, without any fault: its publication is refused as
  stale, which marks nothing, and its row bars every later replacement and reindex of the document.
- A lost acknowledgement turns a completed answer into a failed turn that keeps its message and
  citations (`SettledKeyIsSpent` admits this step); a reindex that fails after its version was
  superseded marks that version `failed`, which `VERSION_TRANSITIONS` forbids (`FailedWithReindex`,
  the one step `LegalCandidateSteps` admits besides the table).
- `RecordedTimesAreSpaced`: an export that is slow before it asks for the limit bears the time it
  began, so two exports in the trail may be closer than `audit_export_rate_limit_seconds`.
- `EvidenceGroupKept` (`docs/RERANKING.md:92-94`): the group of an exact match is not preserved when
  it outgrows the pool, the candidates or a bound of the context, where a block that does not fit
  is passed over (`docs/ANSWERS.md:13` describes those bounds).
- `AcceptedStays`: the sweep of the list route writes `expired` over an invitation that was
  accepted after it was selected (`enterprise.py:454`).
- `OpinionIsValid`: two tabs that change one rating write its columns one by one and can leave a
  helpful answer with a negative reason.
- `OneEditionPerResult` (`docs/ROADMAP.md:75`): a hybrid search shows an edition beside the newer
  one when a publication falls between its two queries. `TotalWithinBudget` (`tasks.py:59`): the
  Retry-After a delay follows is not part of the maxima that are subtracted for earlier delays.
- The cache of query embeddings belongs to a provider instance that is made for each request
  (`search.py:189`), so it never hits; the collection list looks up a grant by key after a second
  query, and fails if it went in between; a 401 of the API clears the whole session
  (`route.ts:35`), so a JWKS outage signs every user out; a fetch of the API that throws after a
  refresh, or a change of the demo role beside one, loses the session, and the next request of the
  browser, though alone, is signed out (`AloneStaysSignedIn` excepts it by `lost`).

### Fairness

`FairSpec` assumes that each worker keeps executing what it can (`compose.yaml` runs the
worker with `--concurrency=2` and restarts it), that no message is passed over for ever
(the broker is a Redis list, first in first out: strong fairness for each message), that
a request which loaded a document ends, and that the operator runs the reconciler again and
again. No fairness is assumed of new requests, errors or faults.

For a conversation it assumes that every request's own steps go on (an asyncio task runs
until it returns; every provider call has a timeout) and that a waiting `DELETE` proceeds once
its locks are free. `Complete` is strongly fair: an answer waiting for the conversation's row
is granted it before a `DELETE` that comes later, because row locks queue. Nothing is assumed
of new questions, new deletions, documents or faults. A pending turn that a fault left without
a request stays pending, so `PendingTurnSettles` makes that the only exception.

For the removal of a collection it assumes that a clean-up in progress goes on and that the
client repeats its `DELETE` while it is not answered with success, which is the procedure
`docs/AUTHENTICATION.md` gives for a 503: no worker of the system resumes a clean-up by itself.

## 5. Proofs

`DocumentLifecycleProofs` proves, for all values of the constants that satisfy
`JobsAssumption`, `BoundsAssumption` and `EnvironmentAssumption`, that `TypeInv` (types, who is named by a
request, and that a worker between claim and publication holds its job's lock) is inductive;
`TypeOK` and `OneProcessorPerJob` follow. There is one lemma for each action.

It then proves that `IInv` is inductive. The safety properties are not:

- `PointersResolve` needs that a job row never outlives its version (`RowsLinked`), or a
  publication could set a pointer to a purged version;
- `SucceededIsIndexed` and `DeletedIsUnsearchable` need that an identity without a job row
  has no version and no chunks (`RowsLinked`);
- `OneLifecycleOperation` needs that the identity a request is about to insert is unused
  (`FreshRequests`);
- `CommittedSourceKept` needs that what a refusing request removes belongs to no version
  (`FreshRequests`), that the object is still there when its version is inserted
  (`StoredForRequest`), that files are otherwise only removed by a deletion that was accepted
  (`DeletionAccepted`), and that a request that does not know its outcome did commit
  (`UnsureCommitted`), so that what it removes is the source of its own version and of no other.

The argument goes over kinds of row changes rather than actions: every step either marks
statuses (`RowsMarked`), publishes (`RowsPublished`), purges (`RowsPurged`) or inserts
(`RowsInserted`), which is proved once (`RowEffects`); each property of the rows is then
preserved by the four kinds.

With duplicate deliveries and every other disturbance it proves `ActivationMovesForward`, from
`ForwardInv`, which holds until a deletion is accepted: a version that was neither published nor
given up keeps the slot of the partial unique index and is therefore the newest
(`UnendedIsNewest`), because the numbers below `next_version_number` are all taken and a request
that loaded an old one is refused (`NumbersKnown`); nothing is replaced or reindexed before the
upload has ended (`UploadEndsFirst`); the served version has ended (`ServedHasEnded`); and a late
failure mark that read its version as active belongs to a job that had ended too (`ReadsOfEnded`).

Last, it proves `NoOrphanSource` for runs in which no request dies between its
two steps (`RequestsEnd`: `"api"` is not among the disturbances), with all other faults: a source
is stored by a request in progress, its commit inserts the version row, a refusal removes it, the
one that does not is recorded as told of an error, and before a deletion is accepted no row goes.

`SingleDeliveryProofs` proves, under `DeliveredOnce` and with every other fault (killed tasks,
lost publications, retries, queues and commit acknowledgements, dead requests), that `OnceInv` of `SingleDelivery` is
inductive with `IInv`, and with it `StatusesAgree` and the refinement
`ImplementsServedDocument`:

- a job's message is in one place, the queue, one worker, or the request that has not published
  it yet (`OneMessage`), and only a busy or purged job has one (`CarriedIsBusy`);
- one ingestion at most is busy (`OneBusy`), of all three kinds: a replacement or reindex needs
  an active version, which only a finished upload gives (`InitialFirst`);
- so whoever works is alone, and what a worker read and is about to write from is still true
  (`ReadIsCurrent`), unless the rows were purged; the one message a purge can leave behind writes
  to nothing (`AfterPurge`).

Messages move in few ways (`Moves`: a message is lost, taken, put back, sent), rows change in few
(`HolderMarks`, publication, purge, the acceptance of a deletion, a commit), and each way is shown
once to keep the invariant and to be a step of `ServedDocument` or a stutter. `CandidateInv` adds
what is known of the one candidate: its statuses (`CandidatesKnown`), which gives
`LegalCandidateSteps`. Without `DeliveredOnce` these properties are false (section 4). The
invariants were checked by TLC on two-worker instances before they were proved.

`ConversationProofs` proves for all keys, bodies, sources, clients and fault bounds that
`IInv` of a conversation is inductive, with one lemma for each action. The safety properties
of `ConversationTurns` follow, and need more than themselves:

- `NumbersContiguous`: the numbers of the turns are 1 to their maximum. A number read before
  the insert is then either taken, and refused by the index, or still the next one, which
  gives `NewMessagesAtEnd`;
- `PendingIsLast` and `NumbersUnique`: the turn that becomes visible has the highest number;
- `AskersOwnTurns`: a request past its insert works on the pending turn with its own number
  and body, or on one the removal took; with the one-pending index this is
  `OneAnswerInProgress`;
- `RowsWellFormed`: a key without a turn has an empty record, a turn has a positive number,
  a removed conversation has no turns;
- `CitesIndexed`: what a request is about to cite was indexed at some time.

From the same invariant it proves that `ConversationTurns` implements `ConversationLog`, with the
list of visible turns in the order of their numbers for `shown`. Steps are of few kinds
(`StepKinds`): a commit of a turn is `Ask`; a commit of an answer appends to the list, because the
pending turn has the highest number (`CompletionAnswers`); a failure mark is `GiveUp`, or
`WithdrawAnswer` when the commit had taken effect and its acknowledgement was lost
(`MarkWithdraws`); a purge is `Erase`; the rest is not seen. A sorted list of a set is unique
(`SortedOnce` of `OrderingProofs`), so what `Append` and `RemoveAt` make is what the query
returns. It needs besides that the rows are finitely many (`RowsFinite`); `Keys` need not be.
`TypeOK` of `ConversationTurns` is part of the proved invariant; no run lists it.

`AdministrationProofs` proves for any users, addresses, collections, invitations and requests
that the following is inductive, besides the types:

- `AcceptorHolds`: the invitation somebody is accepting is pending, below the limit of attempts,
  and nobody else is accepting it; `AdmitsOnce` and `AcceptanceOnlyAdds` follow, because every
  other writer of the row waits for its lock;
- `ChangerHolds`: the member that is being changed still has the version that was compared, and
  one request is changing it; this is `NoLostUpdate`;
- `RowsInv`: the part of `TrailTellsEveryChange` that holds in both directions (`MembersAreTold`)
  with what it needs: a pending invitation has a link and admitted
  nobody (`PendingIsOpen`), and no event is about a row that was never inserted
  (`NothingBeforeTheRow`);
- `NewIsOpen`, `ExpiredStand`: the rows two kinds of request are about to write.

The argument goes over who may write what: one lemma for each way a row changes, and
`MemberWriters` and `SubjectWriters` for the action properties. The rest of `TrailTellsEveryChange`
(`Told`: ends of invitations, and grants) is inductive beside it: the trail only grows, and every
row that is written is told in the same step (`ToldStays`, `ToldWritten`).

From it follows `AdministrationIsARegister`, with `OpenOffers`, `Spent`, `Admitted` and `Held` for
the register's variables. It needs besides (`Ready`) that every grant is of a collection that exists
(`GrantsStand`), and that what a request has prepared still fits when it writes (`Fits`): the
invitation it is accepting has the address of its subject and still names the grants it found
missing, who is to be granted something is a member, and who had joined already still has. Locked
rows keep their terms (`TermsStand`), and no step ends a membership, so `Fits` of the other
requests stays (`ReadyStays`). Then there is one lemma for each way the register moves: a row that
is written changes one offer (`RowWritten`), or none (`TermsUnmoved`), or closes it
(`OfferCloses`); `SupersedeShown` is `Renew`, `ExpiryShown` closes the offers among the listed
rows that are still open, `AcceptanceShown` is `Admit`, `ChangeShown` is `Change`, and a grant
that is written is `Give`, `Take`, or what it was (`GrantShown`). `AcceptanceOnlyAdds`, proved on
its own, states one consequence in terms of the rows; no run lists it, because the refinement
implies it.

`WorkspaceProofs` proves for any keys, clients, tabs, exporters and bounds:
`NothingSurvivesTheRows` needs that only a request with the collection's lock deletes it
(`OneDeletes`) and that a replacement that holds its document's lock still has its collection;
`CompleteMeansErased` needs that a clean-up in progress still has every listed object that exists
on its list; `NoUploadStranded` needs that the keys a deletion read include every upload with a row
(`ClientsStand`), which is what fails for replacements. `RatedOnce` needs `FirstRating`, and
`ExportsAreSpaced` that an export past its check was allowed by every export committed before it
asked (`ExportInv`).

`BrowserSessionProofs` proves for any requests, signing keys and token pairs: the first call of
the lock's queue is the only one that fetches; an answer that was fetched holds every key that was
published since (`KeyInv`, for `PublishedKeysAreKnown`); a cookie whose refresh token was spent is
about to be replaced by the page that spent it, or is `lost`, what a page brings nobody else has,
and a page that is alone has the cookie and no company (`CookieIsReplaced`, `BroughtIsNew`,
`AloneIsAlone`, for `AloneStaysSignedIn`); and `FailClosed` as an action
property.

`SequentialPartsProofs` proves the five properties of `SequentialParts` for any texts, corpora,
rows, limits and sizes. No part writes a variable of another, so each property has an invariant of
its own part, which the steps of the others leave alone:

- `CursorIsStable` (`WalkInv`): what was shown is in order and ends with the cursor, and a row that
  was there since the first page was shown or comes after the cursor. The six listings are walked;
  the property, like the invariant, is about those that hand out the last row shown.
- `PreparedWhole` (`PreparationInv`): before the batches are made, the chunks cover the text up to
  the next start, which a cut always moves forward (`NextStartFits`); afterwards the vectors and the
  batches that are left, in this order, are the chunks (`BatchesFollow`).
- `WaitsWithinBudget` (`BudgetInv`): what was waited is at most the largest sum of the earlier
  delays, which is what the code subtracts. `2 ** n` is the function `PowerOfTwo`.
- `EvidenceIsSound` (`EvidenceInv`): every list of the request is a ranking, of chunks and without
  repetitions, whatever a query returned. From this the pool is sound (`InjectedPoolIsSound`): the
  fused scores are a strict order (`ScoresAreStrict`, by cross products), a chunk both lists rank
  ahead of another has the higher score (`BothAheadScoresMore`), and injection and truncation keep
  the order and lose nothing of a pool that is not full. And the context is sound
  (`SelectedContextIsSound`): the candidates begin with the pinned units, and the context takes from
  them in order, within its bounds in chunks, tokens and characters (`AddKeepsBuilt`; both running
  totals are `Total` of a weight).
- `OneEditionPerAnswer` (`EditionInv`): `Validate` reads the pointers of everything it accepts in
  one snapshot, and nothing that was published or withdrawn later changes an outcome.

`OrderingProofs` has what these need of the data: a set of numbers has a least member, induction
over the positions of a list (as the inclusion of a set, since the library's induction theorems take
an operator the provers cannot instantiate), that `InOrder` lists exactly the set, once and in the
order, and that a first value and a step define a function along a list. All invariants were checked
by TLC before they were proved.

Only model-checked: the liveness properties (`AcceptedWorkSettles`, `DeletionIsCarriedOut`,
`PendingTurnSettles`, `CleanUpCompletes`), which need fairness and ENABLED, out of the prover's
reach. The properties of the four runs that expect a violation are false and have no theorem.

## 6. Not modelled

The components with status `not_modelled` in `PROJECT.json`, with the reason there. The embedding
backfill is run by hand, rolls back on any change it did not expect and shares no step with another
process; metadata validation and the evaluation metrics are pure functions without a property that
takes several steps; observability and the user interface keep no state the system relies on;
bootstrap, restore and deployment are run once by an operator with the service stopped. Within
the lifecycle: metrics, tracing, audit events of the routes, and the read routes; the permission
checks are `AccessControl`, applied where a role changes what may happen next. Within
conversations: titles, the contents of the history, and the text of answers. Within the
administration: analytics, which only reads, and the limits of the input.
