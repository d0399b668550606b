-------------------------- MODULE ConversationTurns --------------------------
(***************************************************************************)
(* One conversation: the requests that ask questions in it, the request    *)
(* that deletes it, and the documents its answers cite while they are      *)
(* replaced, deleted and purged.                                           *)
(*                                                                         *)
(* A turn is named by its Idempotency-Key.  A question is committed as a   *)
(* pending turn first; the providers are called afterwards, inside the     *)
(* transaction that later stores the answer.  Its first query autoflushes  *)
(* the turn, so that the request holds the turn's row lock from then until *)
(* its commit or rollback.                                                 *)
(***************************************************************************)
EXTENDS Ordering

CONSTANTS
    Keys,           \* Idempotency-Key values
    Bodies,         \* request bodies, by their fingerprint
    Sources,        \* citable chunks, each of a version of its own document
    Clients,        \* concurrent POST .../messages requests
    None,           \* no key, no body
    Disturbances,   \* kinds of fault a run admits
    MaxFaults       \* bound on the faults of a behaviour

FaultKind == {"write", "mark", "crash", "acknowledgement"}

ASSUME NamesAssumption == None \notin Keys \cup Bodies
ASSUME FaultsAssumption == Disturbances \subseteq FaultKind /\ MaxFaults \in Nat

VARIABLES
    conversation,   \* "open"; "removing" while DELETE holds its row; "removed"
    turn,           \* conversation_turns rows and the assistant message of each
    citation,       \* conversation_citations.source_status of each turn's answer
    source,         \* lifecycle of each citable chunk
    asker,          \* local state of each request
    faults

vars == <<conversation, turn, citation, source, asker, faults>>

TurnStatus == {"none", "pending", "completed", "failed"}
SourceStatus == {"absent", "available", "superseded", "deleting", "purged"}
AskerStep == {"idle", "numbered", "asked", "rewriting", "generating", "answered",
              "failing"}

NoTurn == [status |-> "none", number |-> 0, body |-> None, message |-> FALSE,
           stored |-> FALSE, excerpts |-> {}]
NoCitations == [s \in Sources |-> "none"]
IdleAsker == [step |-> "idle", key |-> None, body |-> None, number |-> 0,
              context |-> {}, attempt |-> 1, cites |-> {}]

TurnRecord ==
    [status : TurnStatus, number : Nat, body : Bodies \cup {None},
     message : BOOLEAN, stored : BOOLEAN, excerpts : SUBSET Sources]
AskerRecord ==
    [step : AskerStep, key : Keys \cup {None}, body : Bodies \cup {None},
     number : Nat, context : SUBSET Sources, attempt : 1 .. 2,
     cites : SUBSET Sources]

(* Types: rows, locals and the fault budget keep their shape, and a        *)
(* generation is attempted at most twice (answers.py:330).                 *)
TypeOK ==
    /\ conversation \in {"open", "removing", "removed"}
    /\ turn \in [Keys -> TurnRecord]
    /\ citation \in [Keys -> [Sources -> {"none", "available", "deleted"}]]
    /\ source \in [Sources -> SourceStatus]
    /\ asker \in [Clients -> AskerRecord]
    /\ faults \in 0 .. MaxFaults

(* An empty conversation over a collection without documents.              *)
Init ==
    /\ conversation = "open"
    /\ turn = [k \in Keys |-> NoTurn]
    /\ citation = [k \in Keys |-> NoCitations]
    /\ source = [s \in Sources |-> "absent"]
    /\ asker = [c \in Clients |-> IdleAsker]
    /\ faults = 0

Fault(kind) == kind \in Disturbances /\ faults < MaxFaults /\ faults' = faults + 1

-----------------------------------------------------------------------------
(* Rows and locks.                                                         *)
TurnRow(k) == turn[k].status # "none"
Visible(k) == turn[k].status = "completed"
NumberTaken(n) == \E k \in Keys : TurnRow(k) /\ turn[k].number = n
Numbers == {turn[k].number : k \in Keys} \cup {0}
LastNumber(n) == n \in Numbers /\ \A m \in Numbers : m <= n

Key(c) == asker[c].key
At(c, step) == asker[c].step = step
Goto(c, step) == asker' = [asker EXCEPT ![c].step = step]
Answered(c) == asker' = [asker EXCEPT ![c] = IdleAsker]

(* From the autoflush (or the flush of a clarification) to the commit.     *)
HoldsTurn(c) == asker[c].step \in {"generating", "answered"}

(* uq_conversation_turn_one_pending, _sequence and _idempotency, and the   *)
(* foreign key to the conversation.                                        *)
InsertableBesidePending(k, n) ==         \* mutant: no index on pending turns
    conversation = "open" /\ ~TurnRow(k) /\ ~NumberTaken(n)
InsertableTwice(k, n) ==                 \* mutant: sequence numbers not unique
    /\ conversation = "open" /\ ~TurnRow(k)
    /\ \A t \in Keys : turn[t].status # "pending"
InsertableOverFailure(k, n) ==           \* mutant: an upsert replaces a failed turn
    /\ conversation = "open" /\ turn[k].status \in {"none", "failed"}
    /\ \A t \in Keys \ {k} : ~(TurnRow(t) /\ turn[t].number = n)
    /\ \A t \in Keys : turn[t].status # "pending"
Insertable(k, n) ==
    /\ conversation = "open"
    /\ ~TurnRow(k)
    /\ ~NumberTaken(n)
    /\ \A t \in Keys : turn[t].status # "pending"

-----------------------------------------------------------------------------
(* What the key of a request finds.  A replay answers with the stored      *)
(* response and does nothing else; a busy or conflicting key is a 409.     *)
Lookup(k, b) ==
    CASE ~TurnRow(k) -> "new"
      [] TurnRow(k) /\ turn[k].body # b -> "conflict"
      [] Visible(k) /\ turn[k].body = b /\ turn[k].stored -> "replay"
      [] OTHER -> "busy"

(* The key is new: the next sequence number is read, without a lock.       *)
Ask(c, k, b) ==
    /\ At(c, "idle")
    /\ conversation # "removed"
    /\ Lookup(k, b) = "new"
    /\ \E n \in Numbers :
         /\ LastNumber(n)
         /\ asker' = [asker EXCEPT ![c] =
              [step |-> "numbered", key |-> k, body |-> b, number |-> n + 1,
               context |-> {}, attempt |-> 1, cites |-> {}]]
    /\ UNCHANGED <<conversation, turn, citation, source, faults>>

(* The pending turn and the user message commit.  An insert waits while a  *)
(* DELETE holds the conversation's row.                                    *)
InsertTurn(c) ==
    /\ At(c, "numbered")
    /\ Insertable(Key(c), asker[c].number)
    /\ turn' = [turn EXCEPT ![Key(c)] =
         [status |-> "pending", number |-> asker[c].number, body |-> asker[c].body,
          message |-> FALSE, stored |-> FALSE, excerpts |-> {}]]
    /\ Goto(c, "asked")
    /\ UNCHANGED <<conversation, citation, source, faults>>

InsertRefused(c) ==
    /\ At(c, "numbered")
    /\ conversation # "removing"
    /\ ~Insertable(Key(c), asker[c].number)
    /\ Answered(c)
    /\ UNCHANGED <<conversation, turn, citation, source, faults>>

-----------------------------------------------------------------------------
(* A turn's answer is one flush and commit: the assistant message, its     *)
(* citations, the status and the stored response.                          *)
Settled(k, cites) ==
    turn' = [turn EXCEPT ![k] =
        [status |-> "completed", number |-> turn[k].number, body |-> turn[k].body,
         message |-> TRUE, stored |-> TRUE, excerpts |-> cites]]
CitationRows(k, cites) ==
    citation' = [citation EXCEPT ![k] =
        [s \in Sources |-> IF s \in cites THEN "available" ELSE "none"]]

(* A message of the workspace kind (any question may be one), or a         *)
(* collection without an available document, is answered from a table.     *)
(* This path is outside the try statement: an error leaves the turn as it  *)
(* is, unless the conversation's removal took it along.                    *)
ReadyDocuments == \E s \in Sources : source[s] \in {"available", "superseded"}

AnswerDeterministically(c) ==
    /\ At(c, "asked")
    /\ conversation = "open"
    /\ Settled(Key(c), {})
    /\ CitationRows(Key(c), {})
    /\ Answered(c)
    /\ UNCHANGED <<conversation, source, faults>>

DeterministicRefused(c) ==
    /\ At(c, "asked")
    /\ conversation = "removed"
    /\ Answered(c)
    /\ UNCHANGED <<conversation, turn, citation, source, faults>>

DeterministicFails(c) ==
    /\ At(c, "asked")
    /\ Fault("write")
    /\ Answered(c)
    /\ UNCHANGED <<conversation, turn, citation, source>>

(* A document question reads the history and may be rewritten.             *)
StartAnswer(c) ==
    /\ At(c, "asked")
    /\ ReadyDocuments
    /\ Goto(c, "rewriting")
    /\ UNCHANGED <<conversation, turn, citation, source, faults>>

(* The rewriter wants a clarification, which only a history makes possible:*)
(* the flush that follows updates the turn.                                *)
Clarify(c) ==
    /\ At(c, "rewriting")
    /\ TurnRow(Key(c))
    /\ \E k \in Keys : Visible(k)
    /\ Goto(c, "answered")
    /\ UNCHANGED <<conversation, turn, citation, source, faults>>

(* Retrieval selects among the chunks searchable now; low relevance or a   *)
(* refusal leaves no source.                                               *)
Searchable == {s \in Sources : source[s] = "available"}

Retrieve(c) ==
    /\ At(c, "rewriting")
    /\ TurnRow(Key(c))
    /\ \E context \in SUBSET Searchable :
         asker' = [asker EXCEPT ![c].step = "generating", ![c].context = context]
    /\ UNCHANGED <<conversation, turn, citation, source, faults>>

(* The answer is validated against the supplied sources and the database.  *)
Valid(c, cites) == cites \subseteq asker[c].context \cap Searchable

Generate(c) ==
    /\ At(c, "generating")
    /\ \E cites \in SUBSET asker[c].context :
         /\ Valid(c, cites)
         /\ asker' = [asker EXCEPT ![c].step = "answered", ![c].cites = cites]
    /\ UNCHANGED <<conversation, turn, citation, source, faults>>

(* An invalid answer is asked for once more; the second one is replaced by *)
(* the answer that says the context is insufficient.                       *)
LastAttempt(c) == asker[c].attempt = 2

GenerateAgain(c) ==
    /\ At(c, "generating")
    /\ asker[c].context # {}
    /\ ~LastAttempt(c)
    /\ asker' = [asker EXCEPT ![c].attempt = asker[c].attempt + 1]
    /\ UNCHANGED <<conversation, turn, citation, source, faults>>

FallBack(c) ==
    /\ At(c, "generating")
    /\ asker[c].context # {}
    /\ LastAttempt(c)
    /\ Goto(c, "answered")
    /\ UNCHANGED <<conversation, turn, citation, source, faults>>

-----------------------------------------------------------------------------
(* The commit of an answer.  Its citations refer to rows that still exist, *)
(* and its message to a conversation no DELETE holds.                      *)
ReferencesHold(cites) == \A s \in cites : source[s] # "purged"

Complete(c) ==
    /\ At(c, "answered")
    /\ conversation = "open"
    /\ ReferencesHold(asker[c].cites)
    /\ Settled(Key(c), asker[c].cites)
    /\ CitationRows(Key(c), asker[c].cites)
    /\ Answered(c)
    /\ UNCHANGED <<conversation, source, faults>>

(* The commit took effect and its acknowledgement was lost.                *)
CompleteUnacknowledged(c) ==
    /\ At(c, "answered")
    /\ conversation = "open"
    /\ ReferencesHold(asker[c].cites)
    /\ Fault("acknowledgement")
    /\ Settled(Key(c), asker[c].cites)
    /\ CitationRows(Key(c), asker[c].cites)
    /\ Goto(c, "failing")
    /\ UNCHANGED <<conversation, source>>

(* except Exception, after its rollback: a provider failed, the flush met  *)
(* a removed turn, a citation refers to a purged chunk, the commit failed, *)
(* or PostgreSQL chose this transaction to break a deadlock.               *)
RaisesOnProvider(c) == asker[c].step \in {"rewriting", "generating"}
RaisesOnReference(c) == At(c, "answered") /\ ~ReferencesHold(asker[c].cites)
Deadlocked(c) == At(c, "answered") /\ conversation = "removing"
Undetected(c) == FALSE                   \* mutant: the deadlock lasts
DeadlockDetected(c) == Deadlocked(c)

Raise(c) ==
    /\ RaisesOnProvider(c) \/ RaisesOnReference(c) \/ DeadlockDetected(c)
    /\ Goto(c, "failing")
    /\ UNCHANGED <<conversation, turn, citation, source, faults>>

CompleteFails(c) ==
    /\ At(c, "answered")
    /\ Fault("write")
    /\ Goto(c, "failing")
    /\ UNCHANGED <<conversation, turn, citation, source>>

(* The turn is read again and marked, whatever its status has become.      *)
FailedWithAnswer(t) ==                   \* mutant: the session was not rolled back
    [t EXCEPT !.status = "failed", !.message = TRUE]
FailedForRetry(t) ==                     \* mutant: a failed turn waits to be retried
    [t EXCEPT !.status = "pending"]
Failed(t) == [t EXCEPT !.status = "failed"]

MarkTurnFailed(c) ==
    /\ At(c, "failing")
    /\ conversation # "removing"
    /\ turn' = IF TurnRow(Key(c))
               THEN [turn EXCEPT ![Key(c)] = Failed(turn[Key(c)])]
               ELSE turn
    /\ Answered(c)
    /\ UNCHANGED <<conversation, citation, source, faults>>

MarkFails(c) ==
    /\ At(c, "failing")
    /\ Fault("mark")
    /\ Answered(c)
    /\ UNCHANGED <<conversation, turn, citation, source>>

(* The API process dies, or the task is cancelled.                         *)
Crash(c) ==
    /\ asker[c].step # "idle"
    /\ Fault("crash")
    /\ Answered(c)
    /\ UNCHANGED <<conversation, turn, citation, source>>

-----------------------------------------------------------------------------
(* delete_conversation: the DELETE takes the conversation's row and then,  *)
(* by cascade, its turns.  It waits for a turn another transaction holds,  *)
(* or is the one that PostgreSQL aborts.                                   *)
RequestRemoval ==
    /\ conversation = "open"
    /\ conversation' = "removing"
    /\ UNCHANGED <<turn, citation, source, asker, faults>>

RemoveConversation ==
    /\ conversation = "removing"
    /\ \A c \in Clients : ~HoldsTurn(c)
    /\ conversation' = "removed"
    /\ turn' = [k \in Keys |-> NoTurn]
    /\ citation' = [k \in Keys |-> NoCitations]
    /\ UNCHANGED <<source, asker, faults>>

RemovalAborted ==
    /\ conversation = "removing"
    /\ \E c \in Clients : DeadlockDetected(c)
    /\ conversation' = "open"
    /\ UNCHANGED <<turn, citation, source, asker, faults>>

-----------------------------------------------------------------------------
(* The documents.  A purge locks the document, turns the citations it then *)
(* finds into tombstones and deletes the chunks; an answer that commits a  *)
(* citation holds the document's key share, so each sees the other whole.  *)
Index(s) ==
    /\ source[s] = "absent"
    /\ source' = [source EXCEPT ![s] = "available"]
    /\ UNCHANGED <<conversation, turn, citation, asker, faults>>

Supersede(s) ==
    /\ source[s] = "available"
    /\ source' = [source EXCEPT ![s] = "superseded"]
    /\ UNCHANGED <<conversation, turn, citation, asker, faults>>

AcceptDeletion(s) ==
    /\ source[s] \in {"available", "superseded"}
    /\ source' = [source EXCEPT ![s] = "deleting"]
    /\ UNCHANGED <<conversation, turn, citation, asker, faults>>

RedactedOfCompleted(s) ==                \* mutant: citations of failed turns are missed
    [k \in Keys |-> IF citation[k][s] = "available" /\ Visible(k)
                    THEN [citation[k] EXCEPT ![s] = "deleted"] ELSE citation[k]]
Redacted(s) ==
    [k \in Keys |-> IF citation[k][s] = "available"
                    THEN [citation[k] EXCEPT ![s] = "deleted"] ELSE citation[k]]

Purge(s) ==
    /\ source[s] = "deleting"
    /\ source' = [source EXCEPT ![s] = "purged"]
    /\ citation' = Redacted(s)
    /\ UNCHANGED <<conversation, turn, asker, faults>>

-----------------------------------------------------------------------------
AskerAdvances(c) ==
    \/ InsertTurn(c) \/ InsertRefused(c)
    \/ AnswerDeterministically(c) \/ DeterministicRefused(c) \/ StartAnswer(c)
    \/ Clarify(c) \/ Retrieve(c) \/ Generate(c) \/ GenerateAgain(c) \/ FallBack(c)
    \/ Complete(c) \/ Raise(c) \/ MarkTurnFailed(c)

AskerDisturbed(c) ==
    \/ DeterministicFails(c) \/ CompleteUnacknowledged(c) \/ CompleteFails(c)
    \/ MarkFails(c) \/ Crash(c)

SourceStep(s) == Index(s) \/ Supersede(s) \/ AcceptDeletion(s) \/ Purge(s)

Next ==
    \/ \E c \in Clients :
         \/ \E k \in Keys, b \in Bodies : Ask(c, k, b)
         \/ AskerAdvances(c)
         \/ AskerDisturbed(c)
    \/ RequestRemoval \/ RemoveConversation \/ RemovalAborted
    \/ \E s \in Sources : SourceStep(s)

Spec == Init /\ [][Next]_vars

(* Requests and a waiting DELETE go on.  An answer that waits for the      *)
(* conversation's row is served before a later DELETE: row locks queue.    *)
Fairness ==
    /\ \A c \in Clients : WF_vars(AskerAdvances(c)) /\ SF_vars(Complete(c))
    /\ WF_vars(RemoveConversation)
FairSpec == Spec /\ Fairness

-----------------------------------------------------------------------------
(* At most one request works on an answer (conversations.py:487-496), and  *)
(* the turn it works on carries its number and body, whatever other        *)
(* requests with the same key or a number read earlier tried.              *)
Working(c) == asker[c].step \in {"asked", "rewriting", "generating", "answered"}
OneAnswerInProgress ==
    /\ \A c, d \in Clients : Working(c) /\ Working(d) => c = d
    /\ \A c \in Clients : Working(c) /\ TurnRow(Key(c)) =>
         /\ turn[Key(c)].status = "pending"
         /\ turn[Key(c)].number = asker[c].number
         /\ turn[Key(c)].body = asker[c].body

(* The assistant message, the stored response and the citation rows of a   *)
(* turn appear together, for an answer that was completed: an open turn    *)
(* has none of them, a completed one has all (conversations.py:627-680).   *)
AnswerStoredWhole ==
    \A k \in Keys :
      /\ turn[k].message <=> turn[k].stored
      /\ turn[k].status = "completed" => turn[k].stored
      /\ turn[k].status \in {"none", "pending"} => ~turn[k].stored
      /\ turn[k].excerpts = {s \in Sources : citation[k][s] # "none"}

(* Every citation still marked available leads to a chunk, also for an     *)
(* answer that was generated while its document was being purged, and for  *)
(* an answer a later failure mark hid (tasks.py:539-556, models.py:1125).  *)
CitationsResolve ==
    \A k \in Keys, s \in Sources :
      citation[k][s] = "available" => source[s] \notin {"absent", "purged"}

(* Messages appear only after every message the list shows already, so     *)
(* that a reader's sequence cursor skips none (conversations.py:345-357).  *)
NewMessagesAtEnd ==
    [][\A k, u \in Keys :
         ~Visible(k) /\ Visible(k)' /\ Visible(u) => turn[u].number < turn'[k].number]_vars

(* A settled key is used up: until the conversation is removed it is never *)
(* answered again, with another body or another response, and a failed     *)
(* turn never turns into an answer (conversations.py:442-451).             *)
SettledKeyIsSpent ==
    [][\A k \in Keys : turn[k].status \in {"completed", "failed"} =>
         \/ turn'[k] = turn[k]
         \/ turn'[k] = [turn[k] EXCEPT !.status = "failed"]
         \/ conversation' = "removed"]_vars

(* Whatever providers, validations, deletions and deadlocks do, a pending  *)
(* turn is settled or removed.  It can be left without a request only by a *)
(* fault: a process death, an SQL error or a lost acknowledgement.         *)
(* (conversations.py:681-695)                                              *)
Abandoned(k) == \A c \in Clients : Key(c) # k
PendingTurnSettles ==
    \A k \in Keys : turn[k].status = "pending" ~>
                     (turn[k].status # "pending" \/ (faults > 0 /\ Abandoned(k)))

-----------------------------------------------------------------------------
(* GET .../messages returns the visible turns in the order of their        *)
(* numbers.  For those who ask and read, every step of the requests, of    *)
(* the DELETE and of the documents is one of ConversationLog or changes    *)
(* nothing: a key is answered once, an answer comes whole and last, a      *)
(* failure mark takes only its own answer away (conversations.py:345-357,  *)
(* 442-496, 627-695).                                                      *)
VisibleTurns == {k \in Keys : Visible(k)}
Numbering == [k \in VisibleTurns |-> turn[k].number]
Listed == InOrder(VisibleTurns, By(VisibleTurns, Numbering))

Log == INSTANCE ConversationLog WITH
    question <- [k \in Keys |-> turn[k].body],
    open <- {k \in Keys : turn[k].status = "pending"},
    shown <- Listed,
    links <- [k \in Keys |-> {s \in Sources : citation[k][s] = "available"}],
    gone <- {s \in Sources : source[s] = "purged"},
    removed <- conversation = "removed"
ImplementsConversationLog == Log!Spec

-----------------------------------------------------------------------------
(* What the documentation and a comment say, and the code does not do.     *)

(* "Exact excerpts, metadata, location, and all document/version/          *)
(* generation/chunk foreign keys are cleared" before the derived rows of a *)
(* deleted document are purged (docs/DOCUMENT_LIFECYCLE.md:68): a replay   *)
(* of the key would return no excerpt of a purged source.                  *)
Replayed(k) == IF Visible(k) /\ turn[k].stored THEN turn[k].excerpts ELSE {}
PurgedExcerptIsGone == \A k \in Keys : \A s \in Replayed(k) : source[s] # "purged"

(* Failure cleanup must not "leave the conversation permanently locked as  *)
(* pending" (conversations.py:687-689), here after one SQL error.          *)
NeverLockedPending ==
    \A k \in Keys : turn[k].status = "pending" ~> turn[k].status # "pending"
==============================================================================
