---------------------------- MODULE CollectionRemoval ----------------------------
(***************************************************************************)
(* One collection, the documents in it and their source objects, and its   *)
(* deletion (src/backend/app/api/identity.py) while clients upload and     *)
(* replace documents (api/documents.py, api/lifecycle.py).  The rows go in *)
(* one transaction that leaves a tombstone with the storage keys; the      *)
(* objects are removed after it, by that request or by a repeated DELETE.  *)
(*                                                                         *)
(* A version is named by its storage key, and a document by the key of its *)
(* first version, whose identifier it shares.                              *)
(***************************************************************************)
EXTENDS Naturals, FiniteSets

CONSTANTS
    Keys,           \* storage keys that may be used
    ReplacementKeys,\* those that are generated for replacements, not for uploads
    Seeded,         \* the first versions the collection has at the start
    Clients,        \* requests that may be in progress at the same time
    MaxRequests,    \* bound: uploads and replacements (and the requests of AnswerFeedback)
    MaxOutages,     \* bound: storage errors and deaths of the API process
    None            \* the marker of an absent row

\* A row of collection_deletions.
Tombstone == [keys : SUBSET Keys, status : {"pending", "complete"}, failed : BOOLEAN]

ASSUME CollectionAssumption ==
    /\ ReplacementKeys \subseteq Keys /\ None \notin Keys /\ None \notin Tombstone
    /\ Seeded \subseteq Keys \ ReplacementKeys
    /\ MaxRequests \in Nat /\ MaxOutages \in Nat

VARIABLES
    collection,     \* whether the collection row exists
    versions,       \* version rows: the document a key belongs to, None without a row
    objects,        \* source objects in the document storage
    tombstone,      \* the row of collection_deletions
    clients,        \* what each request in progress has done and read
    used,           \* keys that were ever generated
    begun,          \* requests made so far
    outages         \* storage errors and process deaths so far

collectionVars == <<collection, versions, objects, tombstone, clients, used, outages>>

Idle == [op |-> "idle"]
Client ==
    {Idle}
    \cup [op : {"upload", "replace.lock", "replace.commit"}, key : Keys, document : Keys]
    \cup [op : {"delete.rows"}, keys : SUBSET Keys]
    \cup [op : {"clean.lock"}]
    \cup [op : {"clean"}, todo : SUBSET Keys, failed : BOOLEAN]

CollectionTypeOK ==
    /\ collection \in BOOLEAN
    /\ versions \in [Keys -> Keys \cup {None}]
    /\ objects \subseteq used /\ used \subseteq Keys
    /\ tombstone \in Tombstone \cup {None}
    /\ clients \in [Clients -> Client]
    /\ begun \in 0..MaxRequests /\ outages \in 0..MaxOutages

CollectionInit ==
    /\ collection = TRUE
    /\ versions = [k \in Keys |-> IF k \in Seeded THEN k ELSE None]
    /\ objects = Seeded /\ used = Seeded
    /\ tombstone = None
    /\ clients = [c \in Clients |-> Idle]
    /\ begun = 0 /\ outages = 0

Goes(c, state) == clients' = [clients EXCEPT ![c] = state]
Ends(c) == Goes(c, Idle)
Arrives(c) == clients[c] = Idle
Begins(c) == Arrives(c) /\ begun < MaxRequests /\ begun' = begun + 1

\* FOR UPDATE locks: the collection row until the deletion commits, a document
\* row until its replacement does, the tombstone while its objects are removed.
CollectionLocked == \E c \in Clients : clients[c].op = "delete.rows"
DocumentLocked(d) == \E c \in Clients :
    clients[c].op = "replace.commit" /\ clients[c].document = d
TombstoneLocked == \E c \in Clients : clients[c].op = "clean"

VersionRows == {k \in Keys : versions[k] # None}

--------------------------------------------------------------------------------
(* Uploads and replacements: the object is stored first, the rows follow.   *)

Store(c, op, k, d) ==
    /\ k \notin used
    /\ objects' = objects \cup {k} /\ used' = used \cup {k}
    /\ Goes(c, [op |-> op, key |-> k, document |-> d])
    /\ UNCHANGED <<collection, versions, tombstone, outages>>

StoreUpload(c, k) == Begins(c) /\ collection /\ Store(c, "upload", k, k)

StoreReplacement(c, k, d) ==
    /\ Begins(c)
    /\ versions[d] = d
    /\ Store(c, "replace.lock", k, d)

\* The rows are refused: the transaction is rolled back and the object removed.
Discard(c) ==
    /\ objects' = objects \ {clients[c].key}
    /\ Ends(c)
    /\ UNCHANGED <<collection, versions, tombstone, used, outages>>

Insert(c) ==
    /\ versions' = [versions EXCEPT ![clients[c].key] = clients[c].document]
    /\ Ends(c)
    /\ UNCHANGED <<collection, objects, tombstone, used, outages>>

\* Mutant: documents have no foreign key to their collection.
CollectionThereAlways == TRUE

\* The foreign key of a document row: it shares the lock of the collection row.
CollectionThere == collection

InsertUpload(c) ==
    /\ clients[c].op = "upload"
    /\ ~CollectionLocked
    /\ IF CollectionThere THEN Insert(c) ELSE Discard(c)

\* The document is locked, and gone when its collection was deleted meanwhile.
LockDocument(c) ==
    LET d == clients[c].document IN
    /\ clients[c].op = "replace.lock"
    /\ ~DocumentLocked(d)
    /\ IF versions[d] = d
       THEN /\ Goes(c, [clients[c] EXCEPT !.op = "replace.commit"])
            /\ UNCHANGED <<collection, versions, objects, tombstone, used, outages>>
       ELSE Discard(c)

\* Validation, an active operation or a duplicate source refuses the rows.
RefuseRows(c) == clients[c].op \in {"upload", "replace.lock", "replace.commit"} /\ Discard(c)

CommitReplacement(c) == clients[c].op = "replace.commit" /\ Insert(c)

--------------------------------------------------------------------------------
(* delete_collection.                                                       *)

\* The collection is locked and the keys of its versions are listed.
ListKeys(c) ==
    /\ Arrives(c)
    /\ collection /\ ~CollectionLocked
    /\ Goes(c, [op |-> "delete.rows", keys |-> VersionRows])
    /\ UNCHANGED <<collection, versions, objects, tombstone, used, outages>>

\* Mutant: the tombstone forgets the keys of the versions.
BuriedWithoutKeys(keys) == [keys |-> {}, status |-> "pending", failed |-> FALSE]

Buried(keys) == [keys |-> keys, status |-> "pending", failed |-> FALSE]

\* The pointers are cleared, which waits for every document lock, and then the
\* rows go: documents, versions, conversations and what hangs on them.
DeleteRows(c) ==
    /\ clients[c].op = "delete.rows"
    /\ \A d \in Keys : ~DocumentLocked(d)
    /\ collection' = FALSE
    /\ versions' = [k \in Keys |-> None]
    /\ tombstone' = Buried(clients[c].keys)
    /\ Goes(c, [op |-> "clean.lock"])
    /\ UNCHANGED <<objects, used, outages>>

\* The deleting request locks its tombstone again.  The row in its session is
\* not refreshed: it still reads pending, whatever a repeated DELETE has done.
LockOwnTombstone(c) ==
    /\ clients[c].op = "clean.lock"
    /\ ~TombstoneLocked
    /\ Goes(c, [op |-> "clean", todo |-> tombstone.keys, failed |-> FALSE])
    /\ UNCHANGED <<collection, versions, objects, tombstone, used, outages>>

\* Mutant: a clean-up that failed is not taken up again.
MayRepeatUnlessFailed == tombstone.status = "pending" /\ ~tombstone.failed

MayRepeat == tombstone.status = "pending"

\* The same DELETE again, once the collection is gone; a complete one is answered.
RepeatDeletion(c) ==
    /\ Arrives(c)
    /\ ~collection /\ tombstone # None /\ ~TombstoneLocked
    /\ MayRepeat
    /\ Goes(c, [op |-> "clean", todo |-> tombstone.keys, failed |-> tombstone.failed])
    /\ UNCHANGED <<collection, versions, objects, tombstone, used, outages>>

\* Objects are removed one at a time; one that is missing is no error.
RemoveObject(c, k) ==
    /\ clients[c].op = "clean"
    /\ k \in clients[c].todo
    /\ objects' = objects \ {k}
    /\ Goes(c, [clients[c] EXCEPT !.todo = @ \ {k}])
    /\ UNCHANGED <<collection, versions, tombstone, used, outages>>

\* Mutant: a storage error counts as the end of the clean-up.
FailedAsComplete(found) == [tombstone EXCEPT !.status = "complete"]

\* Only a column that differs from the row that was read is written.
Failed(found) == [tombstone EXCEPT !.failed = IF found THEN @ ELSE TRUE]
Completed(found) ==
    [tombstone EXCEPT !.status = "complete", !.failed = IF found THEN FALSE ELSE @]

\* OSError: the request answers 503 and the clean-up is left to a repeated DELETE.
StorageFails(c) ==
    /\ clients[c].op = "clean" /\ clients[c].todo # {}
    /\ outages < MaxOutages /\ outages' = outages + 1
    /\ tombstone' = Failed(clients[c].failed)
    /\ Ends(c)
    /\ UNCHANGED <<collection, versions, objects, used>>

Complete(c) ==
    /\ clients[c].op = "clean" /\ clients[c].todo = {}
    /\ tombstone' = Completed(clients[c].failed)
    /\ Ends(c)
    /\ UNCHANGED <<collection, versions, objects, used, outages>>

\* The process dies, or the database aborts the transaction (a deadlock with a
\* worker): what was not committed is undone, what was removed stays removed.
DeletionDies(c) ==
    /\ clients[c].op \in {"delete.rows", "clean.lock", "clean"}
    /\ outages < MaxOutages /\ outages' = outages + 1
    /\ Ends(c)
    /\ UNCHANGED <<collection, versions, objects, tombstone, used>>

--------------------------------------------------------------------------------
CollectionRequest(c) ==
    \/ \E k \in Keys \ ReplacementKeys : StoreUpload(c, k)
    \/ \E k \in ReplacementKeys, d \in Keys : StoreReplacement(c, k, d)

CleaningStep(c) ==
    \/ LockOwnTombstone(c)
    \/ \E k \in Keys : RemoveObject(c, k)
    \/ Complete(c)

CollectionStep(c) ==
    \/ InsertUpload(c) \/ LockDocument(c) \/ RefuseRows(c) \/ CommitReplacement(c)
    \/ ListKeys(c) \/ RepeatDeletion(c) \/ CleaningStep(c)
    \/ StorageFails(c) \/ DeletionDies(c)
=================================================================================
