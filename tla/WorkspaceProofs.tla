----------------------------- MODULE WorkspaceProofs -----------------------------
(***************************************************************************)
(* What the deletion of a collection leaves, proved for any keys, clients, *)
(* tabs and exports and any number of requests and outages.                *)
(***************************************************************************)
EXTENDS Workspace, TLAPS

--------------------------------------------------------------------------------
(* The inductive invariant, part by part.                                   *)

\* The rows go together, with the collection.
RowsGo ==
    /\ ~collection => versions = [k \in Keys |-> None] /\ ~answer
    /\ ~answer => opinion = NoOpinion
    /\ collection <=> tombstone = None

\* One first rating, and none before it was counted.
FirstRating == RatedOnce /\ (answer /\ opinion = NoOpinion => created = 0)

\* A key that stands anywhere was generated.
KeysUsed ==
    /\ VersionRows \subseteq used /\ Seeded \subseteq used
    /\ tombstone # None => tombstone.keys \subseteq used
    /\ \A c \in Clients :
        /\ clients[c].op \in {"upload", "replace.lock", "replace.commit"} =>
              clients[c].key \in used
        /\ clients[c].op = "delete.rows" => clients[c].keys \subseteq used

\* Who may still write what.
ClientsStand ==
    \A c \in Clients :
        /\ clients[c].op \in {"replace.lock", "replace.commit"} =>
              clients[c].key \in ReplacementKeys
        /\ clients[c].op \in {"replace.commit", "delete.rows"} => collection
        /\ clients[c].op \in {"clean.lock", "clean"} => ~collection
        /\ clients[c].op = "delete.rows" => VersionRows \ ReplacementKeys \subseteq clients[c].keys
        /\ clients[c].op = "clean" => tombstone.keys \cap objects \subseteq clients[c].todo
OneDeletes ==
    \A c, d \in Clients : clients[c].op = "delete.rows" /\ clients[d].op = "delete.rows" => c = d

IInv ==
    /\ TypeOK
    /\ RowsGo /\ FirstRating /\ KeysUsed /\ ClientsStand /\ OneDeletes
    /\ CompleteMeansErased /\ NoUploadStranded

--------------------------------------------------------------------------------
(* The state of a client by what it is doing.                               *)
LEMMA ClientFields ==
  ASSUME NEW x \in Client
  PROVE  /\ x.op \in {"idle", "upload", "replace.lock", "replace.commit", "delete.rows",
                      "clean.lock", "clean"}
         /\ x.op \in {"upload", "replace.lock", "replace.commit"} =>
              /\ x = [op |-> x.op, key |-> x.key, document |-> x.document]
              /\ x.key \in Keys /\ x.document \in Keys
         /\ x.op = "delete.rows" => x = [op |-> "delete.rows", keys |-> x.keys] /\ x.keys \in SUBSET Keys
         /\ x.op = "clean" => /\ x = [op |-> "clean", todo |-> x.todo, failed |-> x.failed]
                              /\ x.todo \in SUBSET Keys /\ x.failed \in BOOLEAN
BY DEF Client, Idle

\* A row of collection_deletions, field by field.
LEMMA TombstoneFields ==
  ASSUME NEW t \in Tombstone
  PROVE  /\ t = [keys |-> t.keys, status |-> t.status, failed |-> t.failed]
         /\ t.keys \in SUBSET Keys /\ t.status \in {"pending", "complete"} /\ t.failed \in BOOLEAN
BY DEF Tombstone

\* One client moves on, the others stay.
LEMMA ClientGoes ==
  ASSUME clients \in [Clients -> Client], NEW c \in Clients, NEW state \in Client, Goes(c, state)
  PROVE  /\ clients' \in [Clients -> Client]
         /\ clients'[c] = state
         /\ \A d \in Clients : d # c => clients'[d] = clients[d]
BY DEF Goes

--------------------------------------------------------------------------------
(* Types.                                                                   *)
LEMMA TypeInit == Init => TypeOK
<1> SUFFICES ASSUME Init PROVE TypeOK
  OBVIOUS
<1>1. CollectionTypeOK
  BY CollectionAssumption DEF Init, CollectionInit, CollectionTypeOK, Client
<1>2. FeedbackTypeOK
  BY FeedbackAssumption DEF Init, FeedbackInit, FeedbackTypeOK, Exporting
<1> QED
  BY <1>1, <1>2 DEF TypeOK

\* The types of the rows and of the clients, apart from the count of requests.
RowTypes ==
    /\ collection \in BOOLEAN
    /\ versions \in [Keys -> Keys \cup {None}]
    /\ objects \subseteq used /\ used \subseteq Keys
    /\ tombstone \in Tombstone \cup {None}
    /\ clients \in [Clients -> Client]
    /\ outages \in 0..MaxOutages

\* The steps of an upload keep the types.
LEMMA UploadTypes ==
  ASSUME RowTypes, NEW c \in Clients,
         \/ \E k \in Keys, d \in Keys, op \in {"upload", "replace.lock"} : Store(c, op, k, d)
         \/ InsertUpload(c) \/ LockDocument(c) \/ RefuseRows(c) \/ CommitReplacement(c)
  PROVE  RowTypes'
<1> USE DEF RowTypes
<1>1. Idle \in Client
  BY DEF Client
<1>2. clients[c] \in Client
  OBVIOUS
<1>3. CASE \E k \in Keys, d \in Keys, op \in {"upload", "replace.lock"} : Store(c, op, k, d)
  <2>1. PICK k \in Keys, d \in Keys, op \in {"upload", "replace.lock"} : Store(c, op, k, d)
    BY <1>3
  <2>2. [op |-> op, key |-> k, document |-> d] \in Client
    BY <2>1 DEF Client
  <2> QED
    BY <2>1, <2>2, ClientGoes DEF Store
<1>4. CASE Discard(c)
  BY <1>1, <1>4, ClientGoes DEF Discard, Ends
<1>5. CASE clients[c].op \in {"upload", "replace.commit"} /\ Insert(c)
  BY <1>1, <1>2, <1>5, ClientFields, ClientGoes DEF Insert, Ends
<1>6. CASE LockDocument(c) /\ ~Discard(c)
  <2>1. [clients[c] EXCEPT !.op = "replace.commit"] \in Client
    BY <1>2, <1>6, ClientFields DEF LockDocument, Client
  <2> QED
    BY <1>6, <2>1, ClientGoes DEF LockDocument
<1> QED
  BY <1>3, <1>4, <1>5, <1>6 DEF InsertUpload, LockDocument, RefuseRows, CommitReplacement

\* The steps of a deletion keep the types.
LEMMA DeletionTypes ==
  ASSUME RowTypes, ClientsStand, RowsGo, NEW c \in Clients,
         \/ ListKeys(c) \/ DeleteRows(c) \/ RepeatDeletion(c) \/ CleaningStep(c)
         \/ StorageFails(c) \/ DeletionDies(c)
  PROVE  RowTypes'
<1> USE DEF RowTypes
<1>1. Idle \in Client
  BY DEF Client
<1>2. clients[c] \in Client
  OBVIOUS
<1>3. CASE ListKeys(c)
  <2>1. [op |-> "delete.rows", keys |-> VersionRows] \in Client
    BY DEF Client, VersionRows
  <2> QED
    BY <1>3, <2>1, ClientGoes DEF ListKeys
<1>4. CASE DeleteRows(c)
  <2>1. [op |-> "clean.lock"] \in Client
    BY DEF Client
  <2>2. Buried(clients[c].keys) \in Tombstone
    BY <1>2, <1>4, ClientFields DEF DeleteRows, Buried, Tombstone
  <2> QED
    BY <1>4, <2>1, <2>2, ClientGoes DEF DeleteRows
<1>5. ASSUME NEW failed \in BOOLEAN, tombstone # None,
             Goes(c, [op |-> "clean", todo |-> tombstone.keys, failed |-> failed]),
             UNCHANGED <<collection, versions, objects, tombstone, used, outages>>
      PROVE  RowTypes'
  <2>1. [op |-> "clean", todo |-> tombstone.keys, failed |-> failed] \in Client
    BY <1>5, TombstoneFields DEF Client
  <2> QED
    BY <1>5, <2>1, ClientGoes
<1>6. CASE RepeatDeletion(c)
  BY <1>5, <1>6, TombstoneFields DEF RepeatDeletion
<1>7. CASE \E k \in Keys : RemoveObject(c, k)
  <2>1. PICK k \in Keys : RemoveObject(c, k)
    BY <1>7
  <2>2. [clients[c] EXCEPT !.todo = @ \ {k}] \in Client
    BY <1>2, <2>1, ClientFields DEF RemoveObject, Client
  <2> QED
    BY <2>1, <2>2, ClientGoes DEF RemoveObject
<1>8. CASE LockOwnTombstone(c)
  <2>1. tombstone # None
    BY <1>8 DEF LockOwnTombstone, ClientsStand, RowsGo
  <2> QED
    BY <1>5, <1>8, <2>1 DEF LockOwnTombstone
<1>9. CASE Complete(c)
  <2>1. tombstone # None
    BY <1>9 DEF Complete, ClientsStand, RowsGo
  <2>2. Completed(clients[c].failed) \in Tombstone
    BY <2>1 DEF Completed, Tombstone
  <2> QED
    BY <1>1, <1>9, <2>2, ClientGoes DEF Complete, Ends
<1>10. CASE StorageFails(c)
  <2>1. tombstone # None
    BY <1>10 DEF StorageFails, ClientsStand, RowsGo
  <2>2. Failed(clients[c].failed) \in Tombstone
    BY <2>1 DEF Failed, Tombstone
  <2>3. outages' \in 0..MaxOutages
    BY <1>10, CollectionAssumption DEF StorageFails
  <2> QED
    BY <1>1, <1>10, <2>2, <2>3, ClientGoes DEF StorageFails, Ends
<1>11. CASE DeletionDies(c)
  <2>1. outages' \in 0..MaxOutages
    BY <1>11, CollectionAssumption DEF DeletionDies
  <2> QED
    BY <1>1, <1>11, <2>1, ClientGoes DEF DeletionDies, Ends
<1> QED
  BY <1>3, <1>4, <1>6, <1>7, <1>8, <1>9, <1>10, <1>11 DEF CleaningStep

\* What the other side changes, apart from the count of requests.
OtherTypes ==
    /\ answer \in BOOLEAN
    /\ opinion \in Opinion \cup {NoOpinion}
    /\ tabs \in [Tabs -> {Waiting} \cup [op : {"write"}, asks : Submissions,
                                         found : Opinion \cup {NoOpinion}]]
    /\ created \in Nat
    /\ now \in 0..MaxTime
    /\ exporters \in [Exporters -> Exporting]
    /\ exports \subseteq [at : 0..MaxTime, asked : 0..MaxTime, committed : 0..MaxTime]

\* The steps of a rating keep the types.
LEMMA FeedbackTypes ==
  ASSUME OtherTypes, UNCHANGED exportVars,
         \/ \E t \in Tabs : FeedbackStep(t)
         \/ \E t \in Tabs, asks \in Submissions : ReadFeedback(t, asks)
         \/ AnswerGoes
  PROVE  OtherTypes'
<1> USE DEF OtherTypes, exportVars
<1>1. ASSUME NEW o \in Opinion \cup {NoOpinion}, NEW asks \in Submissions
      PROVE  Flushed(opinion, o, asks) \in Opinion \/ opinion = NoOpinion \/ o = NoOpinion
  BY FeedbackAssumption DEF Flushed, Opinion
<1>2. CASE \E t \in Tabs : InsertFeedback(t)
  <2>1. PICK t \in Tabs : InsertFeedback(t)
    BY <1>2
  <2>2. tabs[t].asks \in Submissions /\ Submissions \subseteq Opinion
    BY <2>1, FeedbackAssumption DEF InsertFeedback, Waiting
  <2>3. tabs' = [tabs EXCEPT ![t] = Waiting]
    BY <2>1 DEF InsertFeedback, Done
  <2>4. opinion' \in Opinion \cup {NoOpinion} /\ created' \in Nat
    BY <2>1, <2>2 DEF InsertFeedback
  <2> QED
    BY <2>1, <2>3, <2>4 DEF InsertFeedback
<1>3. CASE \E t \in Tabs : ChangeFeedback(t)
  <2>1. PICK t \in Tabs : ChangeFeedback(t)
    BY <1>3
  <2>2. /\ tabs[t].asks \in Submissions
        /\ tabs[t].found \in Opinion
    BY <2>1 DEF ChangeFeedback, Waiting
  <2>3. opinion' \in Opinion \cup {NoOpinion}
    BY <1>1, <2>1, <2>2 DEF ChangeFeedback
  <2>4. tabs' = [tabs EXCEPT ![t] = Waiting]
    BY <2>1 DEF ChangeFeedback, Done
  <2> QED
    BY <2>1, <2>3, <2>4 DEF ChangeFeedback
<1>4. CASE \E t \in Tabs, asks \in Submissions : ReadFeedback(t, asks)
  BY <1>4 DEF ReadFeedback
<1>5. CASE AnswerGoes
  BY <1>5 DEF AnswerGoes
<1> QED
  BY <1>2, <1>3, <1>4, <1>5 DEF FeedbackStep

\* The steps of an export keep the types.
LEMMA ExportTypes ==
  ASSUME OtherTypes, UNCHANGED feedbackVars,
         Tick \/ \E e \in Exporters : BeginExport(e) \/ ExportStep(e)
  PROVE  OtherTypes'
<1> USE DEF OtherTypes, feedbackVars
<1>1. CASE Tick
  BY <1>1, FeedbackAssumption DEF Tick
<1>2. CASE \E e \in Exporters : BeginExport(e)
  BY <1>2 DEF BeginExport, Exports, Exporting
<1>3. CASE \E e \in Exporters : RefuseExport(e)
  BY <1>3 DEF RefuseExport, Exports, Exporting
<1>4. CASE \E e \in Exporters : CommitExport(e)
  BY <1>4 DEF CommitExport, Waiting, Exports, Exporting
<1>5. CASE \E e \in Exporters : ReadClock(e)
  BY <1>5 DEF ReadClock, Waiting, Exports, Exporting
<1>6. CASE \E e \in Exporters : CheckLimit(e)
  <2>1. PICK e \in Exporters : CheckLimit(e)
    BY <1>6
  <2>2. exporters[e] \in [op : {"check", "commit"}, at : 0..MaxTime, asked : 0..MaxTime]
    BY <2>1 DEF CheckLimit, Waiting, Exporting
  <2>3. [exporters[e] EXCEPT !.op = "commit"] \in Exporting
    BY <2>2 DEF Exporting
  <2> QED
    BY <2>1, <2>3 DEF CheckLimit, Exports
<1> QED
  BY <1>1, <1>2, <1>3, <1>4, <1>5, <1>6 DEF ExportStep

--------------------------------------------------------------------------------
(* What holds of the collection, its objects and its tombstone.             *)
CollectionInv ==
    /\ RowTypes /\ RowsGo /\ KeysUsed /\ ClientsStand /\ OneDeletes
    /\ CompleteMeansErased /\ NoUploadStranded

\* A new object belongs to the request that stored it.
LEMMA StoreKeeps ==
  ASSUME CollectionInv, UNCHANGED <<answer, opinion>>,
         NEW c \in Clients, NEW k \in Keys, NEW d \in Keys,
         NEW op \in {"upload", "replace.lock"},
         op = "replace.lock" => k \in ReplacementKeys,
         Arrives(c), Store(c, op, k, d)
  PROVE  CollectionInv'
<1> USE DEF CollectionInv
<1>1. RowTypes'
  BY UploadTypes
<1> DEFINE request == [op |-> op, key |-> k, document |-> d]
<1>2. request \in Client
  BY DEF Client
<1>3. /\ clients'[c] = request
      /\ \A e \in Clients : e # c => clients'[e] = clients[e]
  BY <1>2, ClientGoes DEF Store, RowTypes
<1>4. /\ k \notin used /\ objects' = objects \cup {k} /\ used' = used \cup {k}
      /\ UNCHANGED <<collection, versions, tombstone, outages>>
  BY DEF Store
<1>5. RowsGo'
  BY <1>4 DEF RowsGo
<1>6. KeysUsed'
  BY <1>3, <1>4 DEF KeysUsed, VersionRows
<1>7. ClientsStand'
  <2>1. tombstone # None => k \notin tombstone.keys
    BY <1>4 DEF KeysUsed
  <2> SUFFICES ASSUME NEW e \in Clients
               PROVE  ClientsStand!(e)'
    BY DEF ClientsStand
  <2>2. CASE e = c
    BY <1>3, <2>2
  <2>3. CASE e # c
    <3>1. clients'[e] = clients[e]
      BY <1>3, <2>3
    <3>2. clients[e].op = "clean" => tombstone # None
      BY DEF ClientsStand, RowsGo
    <3> QED
      BY <1>4, <2>1, <3>1, <3>2 DEF ClientsStand, VersionRows
  <2> QED
    BY <2>2, <2>3
<1>8. OneDeletes'
  BY <1>3 DEF OneDeletes
<1>9. CompleteMeansErased'
  BY <1>4 DEF CompleteMeansErased, KeysUsed
<1>10. NoUploadStranded'
  <2> SUFFICES ASSUME NEW o \in objects' \ ReplacementKeys PROVE o \in Answered'
    BY DEF NoUploadStranded
  <2>1. CASE o = k
    BY <1>3, <2>1 DEF Answered
  <2>2. CASE o # k
    <3>1. o \in Answered
      BY <1>4, <2>2 DEF NoUploadStranded
    <3>2. ASSUME NEW e \in Clients, clients[e].op \in {"upload", "replace.lock", "replace.commit"}
          PROVE  clients'[e] = clients[e]
      BY <1>3, <3>2 DEF Arrives, Idle
    <3> QED
      BY <1>4, <3>1, <3>2 DEF Answered, VersionRows
  <2> QED
    BY <2>1, <2>2
<1> QED
  BY <1>1, <1>5, <1>6, <1>7, <1>8, <1>9, <1>10

\* A refused request takes its object with it.
LEMMA DiscardKeeps ==
  ASSUME CollectionInv, UNCHANGED <<answer, opinion>>, NEW c \in Clients,
         clients[c].op \in {"upload", "replace.lock", "replace.commit"}, Discard(c)
  PROVE  CollectionInv'
<1> USE DEF CollectionInv
<1>1. RowTypes'
  BY UploadTypes DEF RefuseRows
<1>2. /\ clients'[c] = Idle
      /\ \A e \in Clients : e # c => clients'[e] = clients[e]
  BY ClientGoes DEF Discard, Ends, RowTypes, Client
<1>3. /\ objects' = objects \ {clients[c].key}
      /\ UNCHANGED <<collection, versions, tombstone, used>>
  BY DEF Discard
<1>4. RowsGo' /\ CompleteMeansErased'
  BY <1>3 DEF RowsGo, CompleteMeansErased
<1>5. KeysUsed'
  BY <1>2, <1>3 DEF KeysUsed, VersionRows, Idle
<1>6. ClientsStand'
  BY <1>2, <1>3 DEF ClientsStand, VersionRows, Idle
<1>7. OneDeletes'
  BY <1>2 DEF OneDeletes, Idle
<1>8. NoUploadStranded'
  <2> SUFFICES ASSUME NEW o \in objects' \ ReplacementKeys PROVE o \in Answered'
    BY DEF NoUploadStranded
  <2>1. o \in Answered /\ o # clients[c].key
    BY <1>3 DEF NoUploadStranded
  <2>2. ASSUME NEW e \in Clients, clients[e].key = o
        PROVE  clients'[e] = clients[e]
    BY <1>2, <2>1, <2>2
  <2> QED
    BY <1>3, <2>1, <2>2 DEF Answered, VersionRows
<1> QED
  BY <1>1, <1>4, <1>5, <1>6, <1>7, <1>8

\* A row is inserted while the collection stands; under the collection's lock
\* only the row of a replacement is.
LEMMA InsertKeeps ==
  ASSUME CollectionInv, UNCHANGED <<answer, opinion>>, NEW c \in Clients,
         \/ clients[c].op = "upload" /\ ~CollectionLocked
         \/ clients[c].op = "replace.commit",
         collection, Insert(c)
  PROVE  CollectionInv'
<1> USE DEF CollectionInv
<1>1. clients[c].key \in Keys /\ clients[c].document \in Keys
  BY ClientFields DEF RowTypes
<1>2. RowTypes'
  BY UploadTypes DEF InsertUpload, CommitReplacement, CollectionThere
<1>3. /\ clients'[c] = Idle
      /\ \A e \in Clients : e # c => clients'[e] = clients[e]
  BY ClientGoes DEF Insert, Ends, RowTypes, Client
<1>4. UNCHANGED <<collection, objects, tombstone, used>>
  BY DEF Insert
<1>5. VersionRows' = VersionRows \cup {clients[c].key}
  BY <1>1, CollectionAssumption DEF Insert, VersionRows, RowTypes
<1>6. RowsGo' /\ CompleteMeansErased'
  BY <1>4 DEF RowsGo, CompleteMeansErased
<1>7. KeysUsed'
  BY <1>3, <1>4, <1>5 DEF KeysUsed, Idle
<1>8. ClientsStand'
  <2> SUFFICES ASSUME NEW e \in Clients PROVE ClientsStand!(e)'
    BY DEF ClientsStand
  <2>1. CASE e = c
    BY <1>3, <2>1 DEF Idle
  <2>2. CASE e # c
    <3>1. clients'[e] = clients[e]
      BY <1>3, <2>2
    <3>2. clients[e].op = "delete.rows" => clients[c].key \in ReplacementKeys
      BY DEF CollectionLocked, ClientsStand
    <3> QED
      BY <1>4, <1>5, <3>1, <3>2 DEF ClientsStand
  <2> QED
    BY <2>1, <2>2
<1>9. OneDeletes'
  BY <1>3 DEF OneDeletes, Idle
<1>10. NoUploadStranded'
  <2> SUFFICES ASSUME NEW o \in objects' \ ReplacementKeys PROVE o \in Answered'
    BY DEF NoUploadStranded
  <2>1. o \in Answered
    BY <1>4 DEF NoUploadStranded
  <2>2. CASE o = clients[c].key
    BY <1>5, <2>2 DEF Answered
  <2>3. CASE o # clients[c].key
    BY <1>3, <1>4, <1>5, <2>1, <2>3 DEF Answered
  <2> QED
    BY <2>2, <2>3
<1> QED
  BY <1>2, <1>6, <1>7, <1>8, <1>9, <1>10

\* A locked document stands, and so does its collection.
LEMMA LockKeeps ==
  ASSUME CollectionInv, UNCHANGED <<answer, opinion>>, NEW c \in Clients,
         LockDocument(c), ~Discard(c)
  PROVE  CollectionInv'
<1> USE DEF CollectionInv
<1> DEFINE locked == [clients[c] EXCEPT !.op = "replace.commit"]
<1>1. RowTypes'
  BY UploadTypes
<1>2. /\ clients[c].op = "replace.lock" /\ Goes(c, locked)
      /\ versions[clients[c].document] = clients[c].document
      /\ UNCHANGED <<collection, versions, objects, tombstone, used, outages>>
  BY DEF LockDocument
<1>3. clients[c].document \in Keys /\ clients[c].key \in Keys
      /\ clients[c] = [op |-> "replace.lock", key |-> clients[c].key,
                       document |-> clients[c].document]
  BY <1>2, ClientFields DEF RowTypes
<1>4. locked \in Client /\ locked.op = "replace.commit" /\ locked.key = clients[c].key
  BY <1>3 DEF Client
<1>5. /\ clients'[c].op = "replace.commit" /\ clients'[c].key = clients[c].key
      /\ \A e \in Clients : e # c => clients'[e] = clients[e]
  BY <1>2, <1>4, ClientGoes DEF RowTypes
<1>6. collection
  BY <1>2, <1>3, CollectionAssumption DEF RowsGo
<1>7. RowsGo' /\ CompleteMeansErased'
  BY <1>2 DEF RowsGo, CompleteMeansErased
<1>8. KeysUsed'
  BY <1>2, <1>5 DEF KeysUsed, VersionRows
<1>9. ClientsStand'
  <2> SUFFICES ASSUME NEW e \in Clients PROVE ClientsStand!(e)'
    BY DEF ClientsStand
  <2>1. CASE e = c
    BY <1>2, <1>5, <1>6, <2>1 DEF ClientsStand
  <2>2. CASE e # c
    BY <1>2, <1>5, <2>2 DEF ClientsStand, VersionRows
  <2> QED
    BY <2>1, <2>2
<1>10. OneDeletes'
  BY <1>5 DEF OneDeletes
<1>11. NoUploadStranded'
  BY <1>2, <1>5 DEF NoUploadStranded, Answered, VersionRows
<1> QED
  BY <1>1, <1>7, <1>8, <1>9, <1>10, <1>11

\* A request that gives up before or after the rows changes nothing but itself.
LEMMA EndKeeps ==
  ASSUME CollectionInv, UNCHANGED <<answer, opinion>>, NEW c \in Clients, RowTypes',
         clients[c].op \in {"delete.rows", "clean.lock", "clean"}, Ends(c),
         UNCHANGED <<collection, versions, objects, tombstone, used>>
  PROVE  CollectionInv'
<1> USE DEF CollectionInv
<1>1. /\ clients'[c] = Idle
      /\ \A e \in Clients : e # c => clients'[e] = clients[e]
  BY ClientGoes DEF Ends, RowTypes, Client
<1>2. RowsGo' /\ CompleteMeansErased'
  BY DEF RowsGo, CompleteMeansErased
<1>3. KeysUsed'
  BY <1>1 DEF KeysUsed, VersionRows, Idle
<1>4. ClientsStand'
  BY <1>1 DEF ClientsStand, VersionRows, Idle
<1>5. OneDeletes'
  BY <1>1 DEF OneDeletes, Idle
<1>6. NoUploadStranded'
  BY <1>1 DEF NoUploadStranded, Answered, VersionRows
<1> QED
  BY <1>2, <1>3, <1>4, <1>5, <1>6

\* The keys are listed by one deletion at a time.
LEMMA ListKeeps ==
  ASSUME CollectionInv, UNCHANGED <<answer, opinion>>, NEW c \in Clients, ListKeys(c)
  PROVE  CollectionInv'
<1> USE DEF CollectionInv
<1> DEFINE deletes == [op |-> "delete.rows", keys |-> VersionRows]
<1>1. RowTypes'
  BY DeletionTypes
<1>2. deletes \in Client
  BY DEF Client, VersionRows
<1>3. /\ clients[c] = Idle /\ collection /\ ~CollectionLocked
      /\ UNCHANGED <<collection, versions, objects, tombstone, used>>
  BY DEF ListKeys, Arrives
<1>4. /\ clients'[c] = deletes
      /\ \A e \in Clients : e # c => clients'[e] = clients[e]
  BY <1>2, ClientGoes DEF ListKeys, RowTypes
<1>5. RowsGo' /\ CompleteMeansErased'
  BY <1>3 DEF RowsGo, CompleteMeansErased
<1>6. KeysUsed'
  BY <1>3, <1>4 DEF KeysUsed, VersionRows
<1>7. ClientsStand'
  <2> SUFFICES ASSUME NEW e \in Clients PROVE ClientsStand!(e)'
    BY DEF ClientsStand
  <2>1. CASE e = c
    BY <1>3, <1>4, <2>1 DEF VersionRows
  <2>2. CASE e # c
    BY <1>3, <1>4, <2>2 DEF ClientsStand, VersionRows
  <2> QED
    BY <2>1, <2>2
<1>8. OneDeletes'
  BY <1>3, <1>4 DEF OneDeletes, CollectionLocked
<1>9. NoUploadStranded'
  BY <1>3, <1>4 DEF NoUploadStranded, Answered, VersionRows, Idle
<1> QED
  BY <1>1, <1>5, <1>6, <1>7, <1>8, <1>9

\* When the rows go no replacement is under way to its commit, and the listed
\* keys are still those of all the uploads.
LEMMA DeleteKeeps ==
  ASSUME CollectionInv, AnswerGoes, NEW c \in Clients, DeleteRows(c)
  PROVE  CollectionInv'
<1> USE DEF CollectionInv
<1> DEFINE keys == clients[c].keys
<1>1. RowTypes'
  BY DeletionTypes
<1>2. [op |-> "clean.lock"] \in Client
  BY DEF Client
<1>3. /\ clients'[c] = [op |-> "clean.lock"]
      /\ \A e \in Clients : e # c => clients'[e] = clients[e]
  BY <1>2, ClientGoes DEF DeleteRows, RowTypes
<1>4. /\ clients[c].op = "delete.rows" /\ collection /\ tombstone = None
      /\ VersionRows \ ReplacementKeys \subseteq keys /\ keys \subseteq used
  BY DEF DeleteRows, ClientsStand, RowsGo, KeysUsed
<1>5. /\ ~collection' /\ versions' = [k \in Keys |-> None] /\ VersionRows' = {}
      /\ tombstone' = [keys |-> keys, status |-> "pending", failed |-> FALSE]
      /\ UNCHANGED <<objects, used>>
  BY DEF DeleteRows, Buried, VersionRows
<1>6. tombstone' # None
  <2>1. keys \in SUBSET Keys
    BY <1>4 DEF RowTypes
  <2>2. tombstone' \in Tombstone
    BY <1>5, <2>1 DEF Tombstone
  <2> QED
    BY <2>2, CollectionAssumption
<1>7. RowsGo'
  BY <1>5, <1>6 DEF RowsGo, AnswerGoes
<1>8. CompleteMeansErased'
  BY <1>5 DEF CompleteMeansErased
<1>9. KeysUsed'
  BY <1>3, <1>4, <1>5 DEF KeysUsed
<1>10. \A e \in Clients : clients[e].op # "replace.commit"
  BY ClientFields DEF DeleteRows, DocumentLocked, RowTypes
<1>11. \A e \in Clients : e # c => clients[e].op \notin {"delete.rows", "clean.lock", "clean"}
  BY <1>4 DEF ClientsStand, OneDeletes
<1>12. ClientsStand'
  <2> SUFFICES ASSUME NEW e \in Clients PROVE ClientsStand!(e)'
    BY DEF ClientsStand
  <2>1. CASE e = c
    BY <1>3, <1>5, <2>1
  <2>2. CASE e # c
    BY <1>3, <1>5, <1>10, <1>11, <2>2 DEF ClientsStand
  <2> QED
    BY <2>1, <2>2
<1>13. OneDeletes'
  BY <1>3, <1>11 DEF OneDeletes
<1>14. NoUploadStranded'
  <2> SUFFICES ASSUME NEW o \in objects' \ ReplacementKeys PROVE o \in Answered'
    BY DEF NoUploadStranded
  <2>1. o \in Answered
    BY <1>5 DEF NoUploadStranded
  <2>2. CASE o \in VersionRows
    BY <1>4, <1>5, <1>6, <2>2 DEF Answered
  <2>3. CASE o \notin VersionRows
    <3>1. PICK e \in Clients :
            clients[e].op \in {"upload", "replace.lock", "replace.commit"} /\ clients[e].key = o
      BY <1>4, <2>1, <2>3 DEF Answered
    <3>2. o \in Keys /\ clients'[e] = clients[e]
      BY <1>3, <1>4, <2>1, <3>1, CollectionAssumption DEF Answered, RowTypes
    <3> QED
      BY <3>1, <3>2 DEF Answered
  <2> QED
    BY <2>2, <2>3
<1> QED
  BY <1>1, <1>7, <1>8, <1>9, <1>12, <1>13, <1>14

\* Removing objects under the lock of the tombstone starts with all its keys.
LEMMA CleanKeeps ==
  ASSUME CollectionInv, UNCHANGED <<answer, opinion>>, NEW c \in Clients,
         LockOwnTombstone(c) \/ RepeatDeletion(c)
  PROVE  CollectionInv'
<1> USE DEF CollectionInv
<1>1. RowTypes'
  BY DeletionTypes DEF CleaningStep
<1>2. /\ ~collection /\ tombstone # None
      /\ clients[c].op \in {"idle", "clean.lock"}
      /\ UNCHANGED <<collection, versions, objects, tombstone, used>>
  BY DEF LockOwnTombstone, RepeatDeletion, ClientsStand, RowsGo, Arrives, Idle
<1>3. PICK failed \in BOOLEAN : Goes(c, [op |-> "clean", todo |-> tombstone.keys, failed |-> failed])
  BY <1>2, TombstoneFields DEF LockOwnTombstone, RepeatDeletion, RowTypes
<1> DEFINE cleans == [op |-> "clean", todo |-> tombstone.keys, failed |-> failed]
<1>4. cleans \in Client
  BY <1>2, TombstoneFields DEF Client, RowTypes
<1>5. /\ clients'[c] = cleans
      /\ \A e \in Clients : e # c => clients'[e] = clients[e]
  BY <1>3, <1>4, ClientGoes DEF RowTypes
<1>6. RowsGo' /\ CompleteMeansErased'
  BY <1>2 DEF RowsGo, CompleteMeansErased
<1>7. KeysUsed'
  BY <1>2, <1>5 DEF KeysUsed, VersionRows
<1>8. ClientsStand'
  <2> SUFFICES ASSUME NEW e \in Clients PROVE ClientsStand!(e)'
    BY DEF ClientsStand
  <2>1. CASE e = c
    BY <1>2, <1>5, <2>1
  <2>2. CASE e # c
    BY <1>2, <1>5, <2>2 DEF ClientsStand, VersionRows
  <2> QED
    BY <2>1, <2>2
<1>9. OneDeletes'
  BY <1>5 DEF OneDeletes
<1>10. NoUploadStranded'
  BY <1>2, <1>5 DEF NoUploadStranded, Answered, VersionRows
<1> QED
  BY <1>1, <1>6, <1>7, <1>8, <1>9, <1>10

\* What is left to remove still holds every object of the tombstone.
LEMMA RemoveKeeps ==
  ASSUME CollectionInv, UNCHANGED <<answer, opinion>>, NEW c \in Clients, NEW k \in Keys,
         RemoveObject(c, k)
  PROVE  CollectionInv'
<1> USE DEF CollectionInv
<1> DEFINE rest == [clients[c] EXCEPT !.todo = @ \ {k}]
<1>1. RowTypes'
  BY DeletionTypes DEF CleaningStep
<1>2. /\ clients[c].op = "clean" /\ objects' = objects \ {k}
      /\ UNCHANGED <<collection, versions, tombstone, used>>
  BY DEF RemoveObject
<1>3. rest \in Client /\ rest.op = "clean" /\ rest.todo = clients[c].todo \ {k}
  <2>1. clients[c] = [op |-> "clean", todo |-> clients[c].todo, failed |-> clients[c].failed]
        /\ clients[c].todo \in SUBSET Keys /\ clients[c].failed \in BOOLEAN
    BY <1>2, ClientFields DEF RowTypes
  <2> QED
    BY <2>1 DEF Client
<1>4. /\ clients'[c] = rest
      /\ \A e \in Clients : e # c => clients'[e] = clients[e]
  BY <1>3, ClientGoes DEF RemoveObject, RowTypes
<1>5. RowsGo' /\ CompleteMeansErased'
  BY <1>2 DEF RowsGo, CompleteMeansErased
<1>6. KeysUsed'
  BY <1>2, <1>3, <1>4 DEF KeysUsed, VersionRows
<1>7. ClientsStand'
  <2> SUFFICES ASSUME NEW e \in Clients PROVE ClientsStand!(e)'
    BY DEF ClientsStand
  <2>1. CASE e = c
    BY <1>2, <1>3, <1>4, <2>1 DEF ClientsStand
  <2>2. CASE e # c
    BY <1>2, <1>4, <2>2 DEF ClientsStand, VersionRows
  <2> QED
    BY <2>1, <2>2
<1>8. OneDeletes'
  BY <1>3, <1>4 DEF OneDeletes
<1>9. NoUploadStranded'
  BY <1>2, <1>3, <1>4 DEF NoUploadStranded, Answered, VersionRows
<1> QED
  BY <1>1, <1>5, <1>6, <1>7, <1>8, <1>9

\* The tombstone is complete when none of its objects is left; a storage error
\* leaves its status alone.
LEMMA TombstoneKeeps ==
  ASSUME CollectionInv, UNCHANGED <<answer, opinion>>, NEW c \in Clients,
         Complete(c) \/ StorageFails(c)
  PROVE  CollectionInv'
<1> USE DEF CollectionInv
<1>1. RowTypes'
  BY DeletionTypes DEF CleaningStep
<1>2. /\ clients[c].op = "clean" /\ ~collection /\ tombstone # None
      /\ UNCHANGED <<collection, versions, objects, used>>
  BY DEF Complete, StorageFails, ClientsStand, RowsGo
<1>3. /\ clients'[c] = Idle
      /\ \A e \in Clients : e # c => clients'[e] = clients[e]
  BY ClientGoes DEF Complete, StorageFails, Ends, RowTypes, Client
<1>4. tombstone \in Tombstone
  BY <1>2 DEF RowTypes
<1>5. /\ tombstone' \in Tombstone /\ tombstone' # None /\ tombstone'.keys = tombstone.keys
      /\ \/ tombstone'.status = tombstone.status
         \/ tombstone'.status = "complete" /\ tombstone.keys \cap objects = {}
  <2>1. CASE StorageFails(c)
    BY <1>4, <2>1, CollectionAssumption DEF StorageFails, Failed, Tombstone
  <2>2. CASE Complete(c)
    <3>1. tombstone.keys \cap objects = {}
      BY <2>2 DEF Complete, ClientsStand
    <3> QED
      BY <1>4, <2>2, <3>1, CollectionAssumption DEF Complete, Completed, Tombstone
  <2> QED
    BY <2>1, <2>2
<1>6. RowsGo'
  BY <1>2, <1>5 DEF RowsGo
<1>7. CompleteMeansErased'
  BY <1>2, <1>5 DEF CompleteMeansErased
<1>8. KeysUsed'
  BY <1>2, <1>3, <1>5 DEF KeysUsed, VersionRows, Idle
<1>9. ClientsStand'
  BY <1>2, <1>3, <1>5 DEF ClientsStand, VersionRows, Idle
<1>10. OneDeletes'
  BY <1>3 DEF OneDeletes, Idle
<1>11. NoUploadStranded'
  <2> SUFFICES ASSUME NEW o \in objects' \ ReplacementKeys PROVE o \in Answered'
    BY DEF NoUploadStranded
  <2>1. o \in Answered /\ o \in objects
    BY <1>2 DEF NoUploadStranded
  <2>2. CASE tombstone.status = "pending" /\ o \in tombstone.keys
    BY <1>2, <1>4, <1>5, <2>1, <2>2 DEF Answered
  <2>3. CASE ~(tombstone.status = "pending" /\ o \in tombstone.keys)
    BY <1>2, <1>3, <2>1, <2>3 DEF Answered, VersionRows
  <2> QED
    BY <2>2, <2>3
<1> QED
  BY <1>1, <1>6, <1>7, <1>8, <1>9, <1>10, <1>11

--------------------------------------------------------------------------------
(* What holds of the answer and its feedback.                               *)

\* The first rating is counted when the row is inserted, and the row stays
\* until the answer goes.
LEMMA FeedbackKeeps ==
  ASSUME OtherTypes, RowsGo, FirstRating, UNCHANGED <<collection, versions, tombstone>>,
         \/ \E t \in Tabs : FeedbackStep(t)
         \/ \E t \in Tabs, asks \in Submissions : ReadFeedback(t, asks)
         \/ AnswerGoes
  PROVE  RowsGo' /\ FirstRating'
<1> USE DEF RowsGo, FirstRating, RatedOnce
<1>1. CASE \E t \in Tabs : InsertFeedback(t)
  <2>1. PICK t \in Tabs : InsertFeedback(t)
    BY <1>1
  <2>2. tabs[t].asks # NoOpinion
    BY <2>1, FeedbackAssumption DEF InsertFeedback, Waiting, OtherTypes
  <2>3. CASE Insertable
    <3>1. answer /\ opinion = NoOpinion /\ created = 0 /\ created' = 1 /\ answer' = answer
      BY <2>1, <2>3 DEF InsertFeedback, Insertable
    <3> QED
      BY <2>1, <2>2, <2>3, <3>1 DEF InsertFeedback
  <2>4. CASE ~Insertable
    BY <2>1, <2>4 DEF InsertFeedback
  <2> QED
    BY <2>3, <2>4
<1>2. CASE \E t \in Tabs : ChangeFeedback(t)
  <2>1. PICK t \in Tabs : ChangeFeedback(t)
    BY <1>2
  <2>2. tabs[t].asks \in Opinion /\ tabs[t].found \in Opinion
    BY <2>1, FeedbackAssumption DEF ChangeFeedback, Waiting, OtherTypes
  <2>3. opinion # NoOpinion => opinion' \in Opinion
    BY <2>1, <2>2 DEF ChangeFeedback, Flushed, Opinion, OtherTypes
  <2>4. opinion # NoOpinion <=> opinion' # NoOpinion
    BY <2>1, <2>3, FeedbackAssumption DEF ChangeFeedback
  <2> QED
    BY <2>1, <2>4 DEF ChangeFeedback
<1>3. CASE \E t \in Tabs, asks \in Submissions : ReadFeedback(t, asks)
  BY <1>3 DEF ReadFeedback
<1>4. CASE AnswerGoes
  BY <1>4 DEF AnswerGoes
<1> QED
  BY <1>1, <1>2, <1>3, <1>4 DEF FeedbackStep

--------------------------------------------------------------------------------
(* The whole system.                                                        *)
LEMMA TypeParts == TypeOK <=> RowTypes /\ OtherTypes /\ begun \in 0..MaxRequests
BY DEF TypeOK, CollectionTypeOK, FeedbackTypeOK, RowTypes, OtherTypes

\* The types of the next state, part by part.
LEMMA TypePartsNext == TypeOK' <=> RowTypes' /\ OtherTypes' /\ begun' \in 0..MaxRequests
BY DEF TypeOK, CollectionTypeOK, FeedbackTypeOK, RowTypes, OtherTypes

\* An empty workspace satisfies it.
LEMMA Invariant_Init == Init => IInv
<1> SUFFICES ASSUME Init PROVE IInv
  OBVIOUS
<1>1. TypeOK
  BY TypeInit
<1>2. VersionRows = Seeded /\ objects = Seeded /\ used = Seeded /\ collection /\ tombstone = None
  BY CollectionAssumption DEF Init, CollectionInit, VersionRows
<1>3. \A c \in Clients : clients[c].op = "idle"
  BY DEF Init, CollectionInit, Idle
<1>4. RowsGo /\ FirstRating
  BY <1>2 DEF RowsGo, FirstRating, RatedOnce, Init, FeedbackInit
<1>5. KeysUsed /\ ClientsStand /\ OneDeletes
  BY <1>2, <1>3 DEF KeysUsed, ClientsStand, OneDeletes
<1>6. CompleteMeansErased /\ NoUploadStranded
  BY <1>2 DEF CompleteMeansErased, NoUploadStranded, Answered
<1> QED
  BY <1>1, <1>4, <1>5, <1>6 DEF IInv

\* A request of a client for the collection.
LEMMA RequestKeeps ==
  ASSUME CollectionInv, UNCHANGED <<answer, opinion>>, NEW c \in Clients, CollectionRequest(c)
  PROVE  CollectionInv' /\ (begun \in 0..MaxRequests => begun' \in 0..MaxRequests)
<1>1. begun < MaxRequests /\ begun' = begun + 1 /\ Arrives(c)
  BY DEF CollectionRequest, StoreUpload, StoreReplacement, Begins
<1>2. begun \in 0..MaxRequests => begun' \in 0..MaxRequests
  BY <1>1, CollectionAssumption
<1>3. CASE \E k \in Keys \ ReplacementKeys : StoreUpload(c, k)
  <2>1. PICK k \in Keys \ ReplacementKeys : StoreUpload(c, k)
    BY <1>3
  <2>2. k \in Keys /\ Store(c, "upload", k, k)
    BY <2>1 DEF StoreUpload
  <2>3. CollectionInv'
    BY <1>1, <2>2, StoreKeeps
  <2> QED
    BY <1>2, <2>3
<1>4. CASE \E k \in ReplacementKeys, d \in Keys : StoreReplacement(c, k, d)
  <2>1. PICK k \in ReplacementKeys, d \in Keys : StoreReplacement(c, k, d)
    BY <1>4
  <2>2. k \in Keys /\ Store(c, "replace.lock", k, d)
    BY <2>1, CollectionAssumption DEF StoreReplacement
  <2>3. CollectionInv'
    BY <1>1, <2>2, StoreKeeps
  <2> QED
    BY <1>2, <2>3
<1> QED
  BY <1>3, <1>4 DEF CollectionRequest

\* A step of the work on one.
LEMMA StepKeeps ==
  ASSUME CollectionInv, UNCHANGED <<answer, opinion>>, NEW c \in Clients, CollectionStep(c)
  PROVE  CollectionInv'
<1>1. CASE InsertUpload(c)
  BY <1>1, InsertKeeps, DiscardKeeps DEF InsertUpload, CollectionThere
<1>2. CASE LockDocument(c)
  <2>1. clients[c].op = "replace.lock"
    BY <1>2 DEF LockDocument
  <2> QED
    BY <1>2, <2>1, LockKeeps, DiscardKeeps
<1>3. CASE RefuseRows(c)
  BY <1>3, DiscardKeeps DEF RefuseRows
<1>4. CASE CommitReplacement(c)
  BY <1>4, InsertKeeps DEF CommitReplacement, CollectionInv, ClientsStand
<1>5. CASE ListKeys(c)
  BY <1>5, ListKeeps
<1>6. CASE RepeatDeletion(c) \/ CleaningStep(c)
  BY <1>6, CleanKeeps, RemoveKeeps, TombstoneKeeps DEF CleaningStep
<1>7. CASE StorageFails(c)
  BY <1>7, TombstoneKeeps
<1>8. CASE DeletionDies(c)
  <2>1. RowTypes'
    BY <1>8, DeletionTypes DEF CollectionInv
  <2> QED
    BY <1>8, <2>1, EndKeeps DEF DeletionDies
<1> QED
  BY <1>1, <1>2, <1>3, <1>4, <1>5, <1>6, <1>7, <1>8 DEF CollectionStep

\* Every step keeps it.
LEMMA Invariant_Next == IInv /\ [Next]_vars => IInv'
<1> SUFFICES ASSUME IInv, [Next]_vars PROVE IInv'
  OBVIOUS
<1>1. /\ CollectionInv /\ FirstRating /\ OtherTypes /\ RowsGo
      /\ begun \in 0..MaxRequests
  BY TypeParts DEF IInv, CollectionInv
<1>2. SUFFICES CollectionInv' /\ FirstRating' /\ OtherTypes' /\ begun' \in 0..MaxRequests
  BY TypePartsNext DEF IInv, CollectionInv
<1>3. ASSUME UNCHANGED feedbackVars PROVE FirstRating'
  BY <1>1, <1>3 DEF FirstRating, RatedOnce, feedbackVars
<1>4. ASSUME UNCHANGED <<feedbackVars, exportVars>> PROVE OtherTypes'
  BY <1>1, <1>4 DEF OtherTypes, feedbackVars, exportVars
<1>5. ASSUME UNCHANGED collectionVars, RowsGo' PROVE CollectionInv'
  BY <1>1, <1>5 DEF CollectionInv, collectionVars, RowTypes, KeysUsed, ClientsStand, OneDeletes,
                    CompleteMeansErased, NoUploadStranded, Answered, VersionRows
<1>6. ASSUME Counted PROVE begun' \in 0..MaxRequests
  BY <1>1, <1>6, CollectionAssumption DEF Counted
<1>7. CASE Arriving
  <2>1. CASE \E c \in Clients : CollectionRequest(c) /\ UNCHANGED <<feedbackVars, exportVars>>
    <3>1. PICK c \in Clients : CollectionRequest(c) /\ UNCHANGED <<feedbackVars, exportVars>>
      BY <2>1
    <3>2. UNCHANGED <<answer, opinion>> /\ FirstRating' /\ OtherTypes'
      BY <1>3, <1>4, <3>1 DEF feedbackVars
    <3> QED
      BY <1>1, <3>1, <3>2, RequestKeeps
  <2>2. CASE \E t \in Tabs, asks \in Submissions :
                Counted /\ ReadFeedback(t, asks) /\ UNCHANGED <<collectionVars, exportVars>>
    <3>1. UNCHANGED <<collection, versions, tombstone>>
      BY <2>2 DEF collectionVars
    <3>2. RowsGo' /\ FirstRating' /\ OtherTypes'
      BY <1>1, <2>2, <3>1, FeedbackKeeps, FeedbackTypes
    <3> QED
      BY <1>5, <1>6, <2>2, <3>2
  <2>3. CASE \E e \in Exporters :
                Counted /\ BeginExport(e) /\ UNCHANGED <<collectionVars, feedbackVars>>
    <3>1. OtherTypes'
      BY <1>1, <2>3, ExportTypes
    <3>2. RowsGo'
      BY <1>1, <2>3 DEF RowsGo, collectionVars, feedbackVars
    <3> QED
      BY <1>3, <1>5, <1>6, <2>3, <3>1, <3>2
  <2> QED
    BY <1>7, <2>1, <2>2, <2>3 DEF Arriving
<1>8. CASE Working /\ UNCHANGED begun
  <2>1. begun' \in 0..MaxRequests
    BY <1>1, <1>8
  <2>2. CASE \E c \in Clients : CollectionStep(c) /\ UNCHANGED <<feedbackVars, exportVars>>
    <3>1. PICK c \in Clients : CollectionStep(c) /\ UNCHANGED <<feedbackVars, exportVars>>
      BY <2>2
    <3>2. UNCHANGED <<answer, opinion>> /\ FirstRating' /\ OtherTypes'
      BY <1>3, <1>4, <3>1 DEF feedbackVars
    <3> QED
      BY <1>1, <2>1, <3>1, <3>2, StepKeeps
  <2>3. CASE \E c \in Clients : DeleteCollection(c) /\ UNCHANGED exportVars
    <3>1. PICK c \in Clients : DeleteRows(c) /\ AnswerGoes /\ UNCHANGED exportVars
      BY <2>3 DEF DeleteCollection
    <3>2. CollectionInv' /\ OtherTypes'
      BY <1>1, <3>1, DeleteKeeps, FeedbackTypes
    <3>3. FirstRating'
      BY <1>1, <3>1 DEF FirstRating, RatedOnce, AnswerGoes
    <3> QED
      BY <2>1, <3>2, <3>3
  <2>4. CASE DeleteConversation /\ UNCHANGED <<collectionVars, exportVars>>
    <3>1. UNCHANGED <<collection, versions, tombstone>> /\ AnswerGoes /\ UNCHANGED exportVars
      BY <2>4 DEF collectionVars, DeleteConversation
    <3>2. RowsGo' /\ FirstRating' /\ OtherTypes'
      BY <1>1, <3>1, FeedbackKeeps, FeedbackTypes
    <3> QED
      BY <1>5, <2>1, <2>4, <3>2
  <2>5. CASE \E t \in Tabs : FeedbackStep(t) /\ UNCHANGED <<collectionVars, exportVars>>
    <3>1. UNCHANGED <<collection, versions, tombstone>> /\ UNCHANGED exportVars
      BY <2>5 DEF collectionVars
    <3>2. RowsGo' /\ FirstRating' /\ OtherTypes'
      BY <1>1, <2>5, <3>1, FeedbackKeeps, FeedbackTypes
    <3> QED
      BY <1>5, <2>1, <2>5, <3>2
  <2>6. CASE \/ \E e \in Exporters : ExportStep(e) /\ UNCHANGED <<collectionVars, feedbackVars>>
             \/ Tick /\ UNCHANGED <<collectionVars, feedbackVars>>
    <3>1. UNCHANGED collectionVars /\ UNCHANGED feedbackVars /\ OtherTypes'
      BY <1>1, <2>6, ExportTypes
    <3>2. RowsGo'
      BY <1>1, <3>1 DEF RowsGo, collectionVars, feedbackVars
    <3> QED
      BY <1>3, <1>5, <2>1, <3>1, <3>2
  <2> QED
    BY <1>8, <2>2, <2>3, <2>4, <2>5, <2>6 DEF Working
<1>9. CASE UNCHANGED vars
  <2>1. UNCHANGED collectionVars /\ UNCHANGED <<feedbackVars, exportVars>> /\ UNCHANGED begun
    BY <1>9 DEF vars
  <2>2. RowsGo'
    BY <1>1, <2>1 DEF RowsGo, collectionVars, feedbackVars
  <2> QED
    BY <1>1, <1>3, <1>4, <1>5, <2>1, <2>2
<1> QED
  BY <1>7, <1>8, <1>9 DEF Next

\* In every reachable state the invariant holds.
THEOREM Invariant == Spec => []IInv
BY Invariant_Init, Invariant_Next, PTL DEF Spec

\* The types: of the rows, objects and requests, and of the ratings and exports.
THEOREM WorkspaceTypes == Spec => []TypeOK
<1>1. IInv => TypeOK
  BY DEF IInv
<1> QED
  BY <1>1, Invariant, PTL

\* Whatever is uploaded, replaced or rated while a collection is deleted, no
\* version, answer or rating of it outlives its row (delete_collection).
THEOREM RowsGoTogether == Spec => []NothingSurvivesTheRows
<1>1. IInv => NothingSurvivesTheRows
  BY DEF IInv, RowsGo, NothingSurvivesTheRows, VersionRows
<1> QED
  BY <1>1, Invariant, PTL

\* A tombstone says complete only when none of its objects is left, whichever
\* of two clean-ups wrote it and however many failed.
THEOREM CompleteIsTrue == Spec => []CompleteMeansErased
<1>1. IInv => CompleteMeansErased
  BY DEF IInv
<1> QED
  BY <1>1, Invariant, PTL

\* The object of an upload always has a row, a pending tombstone or a request
\* that answers for it; of replacements this does not hold (DeleteRows, LockDocument).
THEOREM UploadsAnswered == Spec => []NoUploadStranded
<1>1. IInv => NoUploadStranded
  BY DEF IInv
<1> QED
  BY <1>1, Invariant, PTL

\* However many tabs rate an answer for the first time together, one row and
\* one feedback.created event come of it.
THEOREM FirstRatingOnce == Spec => []RatedOnce
<1>1. IInv => RatedOnce
  BY DEF IInv, FirstRating
<1> QED
  BY <1>1, Invariant, PTL

--------------------------------------------------------------------------------
(* Exports of the audit trail.                                              *)

\* There is a latest export, no time lies ahead, and an export that passed the
\* limit is spaced from every export that was committed before it asked.
ExportInv ==
    /\ exports # {} => Previous # {}
    /\ \A f \in exports : f.asked <= f.committed /\ f.committed <= now
    /\ \A e \in Exporters : exporters[e].op \in {"check", "commit"} => exporters[e].asked <= now
    /\ \A e \in Exporters : exporters[e].op = "commit" =>
          \A f \in exports : exporters[e].asked > f.committed =>
                exporters[e].asked >= f.at + RateLimit
    /\ ExportsAreSpaced

\* The times of an export in progress.
LEMMA ExporterFields ==
  ASSUME OtherTypes, NEW e \in Exporters
  PROVE  /\ exporters[e] # Waiting => exporters[e].at \in Nat
         /\ exporters[e].op \in {"check", "commit"} =>
              exporters[e].at \in Nat /\ exporters[e].asked \in Nat
BY FeedbackAssumption DEF OtherTypes, Exporting, Waiting

\* The times of the exports.
LEMMA ExportFields ==
  ASSUME OtherTypes
  PROVE  /\ now \in Nat /\ RateLimit \in Nat
         /\ \A f \in exports : f.at \in Nat /\ f.asked \in Nat /\ f.committed \in Nat
BY FeedbackAssumption DEF OtherTypes

\* A transaction that starts, a clock that is read and a refusal record nothing.
LEMMA AskingKeeps ==
  ASSUME OtherTypes, ExportInv, NEW e \in Exporters,
         BeginExport(e) \/ ReadClock(e) \/ RefuseExport(e)
  PROVE  ExportInv'
<1>1. /\ now \in Nat /\ UNCHANGED <<now, exports>>
      /\ \A g \in Exporters : g # e => exporters'[g] = exporters[g]
  BY ExportFields DEF OtherTypes, BeginExport, ReadClock, RefuseExport, Exports
<1>2. \/ exporters'[e].op \notin {"check", "commit"}
      \/ exporters'[e].op = "check" /\ exporters'[e].asked = now
  BY DEF OtherTypes, BeginExport, ReadClock, RefuseExport, Exports, Waiting
<1>3. \A g \in Exporters : exporters'[g].op \in {"check", "commit"} => exporters'[g].asked <= now
  BY <1>1, <1>2 DEF ExportInv
<1>4. \A g \in Exporters : exporters'[g].op = "commit" => exporters'[g] = exporters[g] /\ g # e
  BY <1>1, <1>2
<1> QED
  BY <1>1, <1>3, <1>4 DEF ExportInv, Previous, ExportsAreSpaced

\* The latest export bears no earlier time than any other: one that passes the
\* limit for it passes it for all.
LEMMA CheckKeeps ==
  ASSUME OtherTypes, ExportInv, NEW e \in Exporters, CheckLimit(e)
  PROVE  ExportInv'
<1>1. exporters[e].op = "check" /\ exporters[e].asked \in Nat /\ exporters[e].asked <= now
  BY ExporterFields DEF CheckLimit, ExportInv
<1>2. /\ UNCHANGED <<now, exports>>
      /\ exporters' = [exporters EXCEPT ![e] = [exporters[e] EXCEPT !.op = "commit"]]
      /\ \A previous \in Previous : exporters[e].asked >= previous.at + RateLimit
  BY DEF CheckLimit, Exports
<1>3. ASSUME NEW f \in exports
      PROVE  exporters[e].asked >= f.at + RateLimit
  <2>1. PICK previous \in exports : previous \in Previous /\ previous.at >= f.at
    BY DEF ExportInv, Previous
  <2>2. /\ exporters[e].asked >= previous.at + RateLimit
        /\ f.at \in Nat /\ previous.at \in Nat /\ RateLimit \in Nat
    BY <1>2, <2>1, ExportFields
  <2> QED
    BY <1>1, <2>1, <2>2
<1>4. /\ exporters'[e].op = "commit" /\ exporters'[e].asked = exporters[e].asked
      /\ \A g \in Exporters : g # e => exporters'[g] = exporters[g]
  <2>1. exporters[e] \in [op : {"check", "commit"}, at : 0..MaxTime, asked : 0..MaxTime]
    BY <1>1 DEF OtherTypes, Exporting, Waiting
  <2> QED
    BY <1>2, <2>1 DEF OtherTypes
<1>5. \A g \in Exporters : exporters'[g].op \in {"check", "commit"} => exporters'[g].asked <= now
  BY <1>1, <1>4 DEF ExportInv
<1>6. \A g \in Exporters : exporters'[g].op = "commit" =>
          \A f \in exports : exporters'[g].asked > f.committed =>
                exporters'[g].asked >= f.at + RateLimit
  BY <1>3, <1>4 DEF ExportInv
<1> QED
  BY <1>2, <1>5, <1>6 DEF ExportInv, Previous, ExportsAreSpaced

\* An export that commits keeps the spacing.
LEMMA CommitKeeps ==
  ASSUME OtherTypes, ExportInv, NEW e \in Exporters, CommitExport(e)
  PROVE  ExportInv'
<1> DEFINE done == [at |-> exporters[e].at, asked |-> exporters[e].asked, committed |-> now]
<1>1. /\ now \in Nat /\ RateLimit \in Nat
      /\ \A f \in exports : f.at \in Nat /\ f.asked \in Nat /\ f.committed \in Nat
  BY ExportFields
<1>2. /\ exporters[e].op = "commit" /\ now' = now /\ exports' = exports \cup {done}
      /\ exporters' = [exporters EXCEPT ![e] = Waiting]
  BY DEF CommitExport, Exports
<1>3. /\ done.at \in Nat /\ done.asked \in Nat /\ done.asked <= now /\ done.committed = now
      /\ done.asked = exporters[e].asked
  BY <1>2, ExporterFields DEF ExportInv
<1>4. Previous' # {}
  <2>1. CASE \A f \in exports : done.at >= f.at
    <3>1. done \in exports' /\ \A f \in exports' : done.at >= f.at
      BY <1>2, <1>3, <2>1
    <3> QED
      BY <3>1 DEF Previous
  <2>2. CASE ~\A f \in exports : done.at >= f.at
    <3>1. PICK latest \in exports : \A f \in exports : latest.at >= f.at
      BY <2>2 DEF ExportInv, Previous
    <3>2. latest.at >= done.at
      BY <1>1, <1>3, <2>2, <3>1
    <3>3. latest \in exports' /\ \A f \in exports' : latest.at >= f.at
      BY <1>2, <3>1, <3>2
    <3> QED
      BY <3>3 DEF Previous
  <2> QED
    BY <2>1, <2>2
<1>5. \A f \in exports' : f.asked <= f.committed /\ f.committed <= now'
  BY <1>1, <1>2, <1>3 DEF ExportInv
<1>6. \A g \in Exporters : exporters'[g].op \in {"check", "commit"} =>
          g # e /\ exporters'[g] = exporters[g]
  BY <1>2 DEF OtherTypes, Waiting
<1>7. ASSUME NEW g \in Exporters, exporters'[g].op = "commit", NEW f \in exports',
             exporters'[g].asked > f.committed
      PROVE  exporters'[g].asked >= f.at + RateLimit
  <2>1. /\ exporters'[g] = exporters[g] /\ exporters[g].asked \in Nat
        /\ exporters[g].asked <= now /\ exporters[g].op = "commit"
    BY <1>6, <1>7, ExporterFields DEF ExportInv
  <2>2. f \in exports
    BY <1>1, <1>2, <1>3, <1>7, <2>1
  <2> QED
    BY <1>7, <2>1, <2>2 DEF ExportInv
<1>8. ExportsAreSpaced'
  <2> SUFFICES ASSUME NEW x \in exports', NEW y \in exports', x # y, x.asked > y.committed
               PROVE  x.asked >= y.at + RateLimit
    BY DEF ExportsAreSpaced
  <2>1. x.asked \in Nat /\ x.asked <= now
    BY <1>1, <1>2, <1>3 DEF ExportInv
  <2>2. y \in exports
    BY <1>1, <1>2, <1>3, <2>1
  <2>3. CASE x = done
    BY <1>2, <1>3, <2>2, <2>3 DEF ExportInv
  <2>4. CASE x \in exports
    BY <2>2, <2>4 DEF ExportInv, ExportsAreSpaced
  <2> QED
    BY <1>2, <2>3, <2>4
<1>9. \A g \in Exporters : exporters'[g].op \in {"check", "commit"} => exporters'[g].asked <= now'
  BY <1>2, <1>6 DEF ExportInv
<1> QED
  BY <1>4, <1>5, <1>7, <1>8, <1>9 DEF ExportInv

\* Time passes.
LEMMA TickKeeps ==
  ASSUME OtherTypes, ExportInv, Tick
  PROVE  ExportInv'
<1>1. /\ now \in Nat /\ \A f \in exports : f.committed \in Nat
      /\ \A g \in Exporters : exporters[g].op \in {"check", "commit"} => exporters[g].asked \in Nat
  BY ExportFields, ExporterFields
<1>2. now' = now + 1 /\ UNCHANGED <<exporters, exports>>
  BY DEF Tick
<1>3. \A n \in Nat : n <= now => n <= now'
  BY <1>1, <1>2
<1>4. \A f \in exports : f.committed <= now'
  BY <1>1, <1>3 DEF ExportInv
<1>5. \A g \in Exporters : exporters[g].op \in {"check", "commit"} => exporters[g].asked <= now'
  BY <1>1, <1>3 DEF ExportInv
<1> QED
  BY <1>2, <1>4, <1>5 DEF ExportInv, ExportsAreSpaced, Previous

\* Every step keeps the spacing.
LEMMA ExportInv_Next == IInv /\ ExportInv /\ [Next]_vars => ExportInv'
<1> SUFFICES ASSUME IInv, ExportInv, [Next]_vars PROVE ExportInv'
  OBVIOUS
<1>1. OtherTypes
  BY TypeParts DEF IInv
<1>2. \/ UNCHANGED exportVars \/ Tick
      \/ \E e \in Exporters : \/ BeginExport(e) \/ ReadClock(e) \/ CheckLimit(e)
                              \/ RefuseExport(e) \/ CommitExport(e)
  BY DEF Next, Arriving, Working, ExportStep, vars
<1>3. CASE UNCHANGED exportVars
  BY <1>3 DEF exportVars, ExportInv, ExportsAreSpaced, Previous
<1> QED
  BY <1>1, <1>2, <1>3, AskingKeeps, CheckKeeps, CommitKeeps, TickKeeps

\* However many exports one administrator runs together, one that asks after
\* others were committed passes the rate limit with the time each of them bears
\* (export_audit_events).
THEOREM ExportsFollowTheLimit == Spec => []ExportsAreSpaced
<1>1. Init => ExportInv
  BY DEF Init, FeedbackInit, ExportInv, ExportsAreSpaced, Waiting
<1>2. ExportInv => ExportsAreSpaced
  BY DEF ExportInv
<1> QED
  BY <1>1, <1>2, Invariant, ExportInv_Next, PTL DEF Spec
=================================================================================
