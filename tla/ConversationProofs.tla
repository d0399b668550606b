------------------------- MODULE ConversationProofs -------------------------
(***************************************************************************)
(* The safety properties of ConversationTurns, proved for any keys, bodies,*)
(* sources and clients, and for every kind and number of faults.           *)
(***************************************************************************)
EXTENDS ConversationTurns, OrderingProofs, TLAPS

-----------------------------------------------------------------------------
(* The inductive invariant, part by part.                                  *)

(* An absent row has no trace; a row has a positive number.                *)
RowsWellFormed ==
    /\ \A k \in Keys : ~TurnRow(k) => turn[k] = NoTurn
    /\ \A k \in Keys : TurnRow(k) => turn[k].number > 0
    /\ conversation = "removed" => \A k \in Keys : ~TurnRow(k)

(* Numbers are given out without a gap, and no number twice: a number read *)
(* early is either still the next one, or taken.                           *)
NumbersContiguous ==
    /\ \A k \in Keys : \A n \in 1 .. (turn[k].number - 1) : NumberTaken(n)
    /\ conversation # "removed" => \A c \in Clients : At(c, "numbered") =>
         /\ asker[c].number > 0
         /\ \A n \in 1 .. (asker[c].number - 1) : NumberTaken(n)
NumbersUnique ==
    \A k, u \in Keys :
      TurnRow(k) /\ TurnRow(u) /\ turn[k].number = turn[u].number => k = u
PendingIsLast ==
    \A k, u \in Keys : turn[k].status = "pending" => turn[u].number <= turn[k].number

(* Who works on which turn; a failing request is not in another's way.     *)
Engaged(c) == asker[c].step # "idle"
AskersOwnTurns ==
    /\ OneAnswerInProgress
    /\ \A c \in Clients : Engaged(c) => Key(c) \in Keys
    /\ \A c \in Clients : At(c, "numbered") => asker[c].body \in Bodies
    /\ conversation # "removed" => \A c \in Clients :
         Working(c) \/ At(c, "failing") => TurnRow(Key(c))
    /\ \A c, d \in Clients : At(c, "failing") /\ Working(d) => Key(c) # Key(d)

(* What a request may cite was indexed once.                               *)
CitesIndexed ==
    \A c \in Clients : \A s \in asker[c].context \cup asker[c].cites :
      source[s] # "absent"

IInv ==
    /\ TypeOK
    /\ RowsWellFormed
    /\ NumbersContiguous
    /\ NumbersUnique
    /\ PendingIsLast
    /\ AskersOwnTurns
    /\ CitesIndexed
    /\ AnswerStoredWhole
    /\ CitationsResolve

-----------------------------------------------------------------------------
(* Types.  Every action keeps the shape of the rows and of the locals; the *)
(* second generation of an answer is the last.                             *)
LEMMA TypeInit == Init => TypeOK
<1> SUFFICES ASSUME Init PROVE TypeOK
  OBVIOUS
<1>1. turn \in [Keys -> TurnRecord]
  BY DEF Init, NoTurn, TurnRecord, TurnStatus
<1>2. asker \in [Clients -> AskerRecord]
  BY DEF Init, IdleAsker, AskerRecord, AskerStep
<1> QED
  BY <1>1, <1>2, FaultsAssumption DEF Init, TypeOK, NoCitations, SourceStatus

(* A fault stays within its bound.                                         *)
LEMMA FaultBounded ==
  ASSUME TypeOK, NEW kind, Fault(kind)
  PROVE  faults' \in 0 .. MaxFaults
BY FaultsAssumption DEF TypeOK, Fault

(* A request that goes to another step, or back to idle.                   *)
LEMMA AskerGoes ==
  ASSUME TypeOK, NEW c \in Clients, NEW step \in AskerStep,
         Goto(c, step) \/ Answered(c)
  PROVE  asker' \in [Clients -> AskerRecord]
<1>1. IdleAsker \in AskerRecord
  BY DEF IdleAsker, AskerRecord, AskerStep
<1>2. asker \in [Clients -> AskerRecord]
  BY DEF TypeOK
<1>3. [asker[c] EXCEPT !.step = step] \in AskerRecord
  BY <1>2 DEF AskerRecord
<1>4. CASE Goto(c, step)
  <2>1. asker' = [asker EXCEPT ![c] = [asker[c] EXCEPT !.step = step]]
    BY <1>4 DEF Goto
  <2> QED
    BY <1>2, <1>3, <2>1
<1>5. CASE Answered(c)
  BY <1>1, <1>2, <1>5 DEF Answered
<1> QED
  BY <1>4, <1>5

(* Going to a step changes nothing else.                                   *)
LEMMA GotoEffect ==
  ASSUME TypeOK, NEW c \in Clients, NEW step, Goto(c, step)
  PROVE  /\ asker'[c].step = step
         /\ asker'[c].key = asker[c].key
         /\ asker'[c].body = asker[c].body
         /\ asker'[c].number = asker[c].number
         /\ asker'[c].context = asker[c].context
         /\ asker'[c].cites = asker[c].cites
         /\ \A d \in Clients : d # c => asker'[d] = asker[d]
<1>1. asker \in [Clients -> AskerRecord]
  BY DEF TypeOK
<1>2. asker' = [asker EXCEPT ![c] = [asker[c] EXCEPT !.step = step]]
  BY DEF Goto
<1>3. asker'[c] = [asker[c] EXCEPT !.step = step]
  BY <1>1, <1>2
<1>4. asker[c] \in AskerRecord
  BY <1>1
<1> QED
  BY <1>1, <1>2, <1>3, <1>4 DEF AskerRecord

(* The two writes of a completed answer.                                   *)
LEMMA SettledTyped ==
  ASSUME TypeOK, NEW k, NEW cites \in SUBSET Sources,
         Settled(k, cites), CitationRows(k, cites)
  PROVE  /\ turn' \in [Keys -> TurnRecord]
         /\ citation' \in [Keys -> [Sources -> {"none", "available", "deleted"}]]
<1> DEFINE row == [status |-> "completed", number |-> turn[k].number,
                   body |-> turn[k].body, message |-> TRUE, stored |-> TRUE,
                   excerpts |-> cites]
<1>1. turn \in [Keys -> TurnRecord] /\ turn' = [turn EXCEPT ![k] = row]
  BY DEF TypeOK, Settled
<1>2. k \in Keys => row \in TurnRecord
  BY <1>1 DEF TurnRecord, TurnStatus
<1> QED
  BY <1>1, <1>2 DEF TypeOK, CitationRows

\* Every step keeps the types.
LEMMA TypeNext == TypeOK /\ [Next]_vars => TypeOK'
<1> SUFFICES ASSUME TypeOK, [Next]_vars PROVE TypeOK'
  OBVIOUS
<1> USE DEF AskerStep
<1>t. asker \in [Clients -> AskerRecord] /\ turn \in [Keys -> TurnRecord]
  BY DEF TypeOK
<1>1. ASSUME NEW c \in Clients, NEW k \in Keys, NEW b \in Bodies, Ask(c, k, b)
      PROVE  TypeOK'
  <2> DEFINE r(n) == [step |-> "numbered", key |-> k, body |-> b, number |-> n + 1,
                      context |-> {}, attempt |-> 1, cites |-> {}]
  <2>1. PICK n \in Numbers : asker' = [asker EXCEPT ![c] = r(n)]
    BY <1>1 DEF Ask
  <2>2. n \in Nat
    BY <1>t DEF Numbers, TurnRecord
  <2>3. r(n) \in AskerRecord
    BY <2>2 DEF AskerRecord
  <2>4. asker' \in [Clients -> AskerRecord]
    BY <1>t, <2>1, <2>3
  <2> QED
    BY <1>1, <2>4 DEF Ask, TypeOK
<1>2. ASSUME NEW c \in Clients, InsertTurn(c) PROVE TypeOK'
  <2>1. asker' \in [Clients -> AskerRecord]
    BY <1>2, AskerGoes DEF InsertTurn
  <2>2. [status |-> "pending", number |-> asker[c].number, body |-> asker[c].body,
         message |-> FALSE, stored |-> FALSE, excerpts |-> {}] \in TurnRecord
    BY <1>t DEF TurnRecord, TurnStatus, AskerRecord
  <2>3. turn' \in [Keys -> TurnRecord]
    BY <1>t, <1>2, <2>2 DEF InsertTurn
  <2> QED
    BY <1>2, <2>1, <2>3 DEF InsertTurn, TypeOK
<1>3. ASSUME NEW c \in Clients, AnswerDeterministically(c) PROVE TypeOK'
  BY <1>3, SettledTyped, AskerGoes DEF AnswerDeterministically, TypeOK
<1>4. ASSUME NEW c \in Clients,
             Complete(c) \/ CompleteUnacknowledged(c)
      PROVE  TypeOK'
  <2>1. asker[c].cites \in SUBSET Sources
    BY <1>t DEF AskerRecord
  <2>2. asker' \in [Clients -> AskerRecord]
    BY <1>4, AskerGoes DEF Complete, CompleteUnacknowledged
  <2>3. faults' \in 0 .. MaxFaults
    BY <1>4, FaultBounded DEF Complete, CompleteUnacknowledged, TypeOK
  <2>4. /\ turn' \in [Keys -> TurnRecord]
        /\ citation' \in [Keys -> [Sources -> {"none", "available", "deleted"}]]
    BY <1>4, <2>1, SettledTyped DEF Complete, CompleteUnacknowledged
  <2> QED
    BY <1>4, <2>2, <2>3, <2>4 DEF Complete, CompleteUnacknowledged, TypeOK
<1>5. ASSUME NEW c \in Clients,
             InsertRefused(c) \/ DeterministicRefused(c) \/ DeterministicFails(c)
               \/ StartAnswer(c) \/ Clarify(c) \/ FallBack(c) \/ Raise(c)
               \/ CompleteFails(c) \/ MarkFails(c) \/ Crash(c)
      PROVE  TypeOK'
  <2>1. asker' \in [Clients -> AskerRecord]
    BY <1>5, AskerGoes DEF InsertRefused, DeterministicRefused, DeterministicFails,
         StartAnswer, Clarify, FallBack, Raise, CompleteFails, MarkFails, Crash
  <2>2. faults' \in 0 .. MaxFaults
    BY <1>5, FaultBounded DEF InsertRefused, DeterministicRefused,
         DeterministicFails, StartAnswer, Clarify, FallBack, Raise, CompleteFails,
         MarkFails, Crash, TypeOK
  <2>3. UNCHANGED <<conversation, turn, citation, source>>
    BY <1>5 DEF InsertRefused, DeterministicRefused, DeterministicFails,
         StartAnswer, Clarify, FallBack, Raise, CompleteFails, MarkFails, Crash
  <2> QED
    BY <2>1, <2>2, <2>3 DEF TypeOK
<1>6. ASSUME NEW c \in Clients, Retrieve(c) PROVE TypeOK'
  <2>1. PICK context \in SUBSET Searchable :
          asker' = [asker EXCEPT ![c] =
            [asker[c] EXCEPT !.step = "generating", !.context = context]]
    BY <1>6 DEF Retrieve
  <2>2. [asker[c] EXCEPT !.step = "generating", !.context = context] \in AskerRecord
    BY <1>t DEF AskerRecord, Searchable
  <2> QED
    BY <1>t, <1>6, <2>1, <2>2 DEF Retrieve, TypeOK
<1>7. ASSUME NEW c \in Clients, Generate(c) PROVE TypeOK'
  <2>1. PICK cites \in SUBSET asker[c].context :
          asker' = [asker EXCEPT ![c] =
            [asker[c] EXCEPT !.step = "answered", !.cites = cites]]
    BY <1>7 DEF Generate
  <2>2. [asker[c] EXCEPT !.step = "answered", !.cites = cites] \in AskerRecord
    BY <1>t DEF AskerRecord
  <2> QED
    BY <1>t, <1>7, <2>1, <2>2 DEF Generate, TypeOK
<1>8. ASSUME NEW c \in Clients, GenerateAgain(c) PROVE TypeOK'
  <2>1. asker' = [asker EXCEPT ![c] =
            [asker[c] EXCEPT !.attempt = asker[c].attempt + 1]]
    BY <1>8 DEF GenerateAgain
  <2>2. asker[c].attempt \in 1 .. 2 /\ asker[c].attempt # 2
    BY <1>t, <1>8 DEF GenerateAgain, LastAttempt, AskerRecord
  <2>3. asker[c].attempt + 1 \in 1 .. 2
    BY <2>2
  <2>4. [asker[c] EXCEPT !.attempt = asker[c].attempt + 1] \in AskerRecord
    BY <1>t, <2>3 DEF AskerRecord
  <2> QED
    BY <1>t, <1>8, <2>1, <2>4 DEF GenerateAgain, TypeOK
<1>9. ASSUME NEW c \in Clients, MarkTurnFailed(c) PROVE TypeOK'
  <2>1. asker' \in [Clients -> AskerRecord]
    BY <1>9, AskerGoes DEF MarkTurnFailed
  <2>2. turn' \in [Keys -> TurnRecord]
    BY <1>t, <1>9 DEF MarkTurnFailed, Failed, TurnRecord, TurnStatus
  <2> QED
    BY <1>9, <2>1, <2>2 DEF MarkTurnFailed, TypeOK
<1>10. ASSUME RequestRemoval \/ RemovalAborted PROVE TypeOK'
  BY <1>10 DEF RequestRemoval, RemovalAborted, TypeOK
<1>11. ASSUME RemoveConversation PROVE TypeOK'
  BY <1>11 DEF RemoveConversation, TypeOK, NoTurn, NoCitations, TurnRecord, TurnStatus
<1>12. ASSUME NEW s \in Sources, SourceStep(s) PROVE TypeOK'
  <2>1. source' \in [Sources -> SourceStatus]
    BY <1>12 DEF SourceStep, Index, Supersede, AcceptDeletion, Purge, TypeOK,
                 SourceStatus
  <2>2. citation' \in [Keys -> [Sources -> {"none", "available", "deleted"}]]
    BY <1>12 DEF SourceStep, Index, Supersede, AcceptDeletion, Purge, Redacted,
                 TypeOK
  <2> QED
    BY <1>12, <2>1, <2>2 DEF SourceStep, Index, Supersede, AcceptDeletion, Purge,
                             TypeOK
<1>13. CASE UNCHANGED vars
  BY <1>13 DEF vars, TypeOK
<1> QED
  BY <1>1, <1>2, <1>3, <1>4, <1>5, <1>6, <1>7, <1>8, <1>9, <1>10, <1>11, <1>12, <1>13
  DEF Next, AskerAdvances, AskerDisturbed

-----------------------------------------------------------------------------
(* The invariant holds at the start.                                       *)
LEMMA InvInit == Init => IInv
<1> SUFFICES ASSUME Init PROVE IInv
  OBVIOUS
<1>1. TypeOK
  BY TypeInit
<1>2. RowsWellFormed /\ NumbersContiguous /\ NumbersUnique /\ PendingIsLast
  BY DEF Init, RowsWellFormed, NumbersContiguous, NumbersUnique, PendingIsLast,
         TurnRow, NoTurn, At, IdleAsker
<1>3. AskersOwnTurns /\ CitesIndexed
  BY DEF Init, AskersOwnTurns, OneAnswerInProgress, Working, Engaged, At, IdleAsker,
         CitesIndexed
<1>4. AnswerStoredWhole /\ CitationsResolve
  BY DEF Init, AnswerStoredWhole, CitationsResolve, NoTurn, NoCitations
<1> QED
  BY <1>1, <1>2, <1>3, <1>4 DEF IInv

-----------------------------------------------------------------------------
(* Steps of one request that change no row: it ends, or goes on with the   *)
(* same key, number and body and with indexed sources.                     *)
WorkStep == {"asked", "rewriting", "generating", "answered"}
LocalMove(c) ==
    /\ UNCHANGED <<conversation, turn, citation, source>>
    /\ \A d \in Clients : d # c => asker'[d] = asker[d]
    /\ \/ asker'[c] = IdleAsker
       \/ /\ asker[c].step \in WorkStep
          /\ asker'[c].step \in WorkStep \cup {"failing"}
          /\ asker'[c].key = asker[c].key
          /\ asker'[c].number = asker[c].number
          /\ asker'[c].body = asker[c].body
          /\ \A s \in asker'[c].context \cup asker'[c].cites : source[s] # "absent"

\* A request that moves on without writing keeps the invariant.
LEMMA LocalMovePreserves ==
  ASSUME IInv, TypeOK', NEW c \in Clients, LocalMove(c)
  PROVE  IInv'
<1>1. RowsWellFormed' /\ NumbersUnique' /\ PendingIsLast'
  BY DEF IInv, LocalMove, RowsWellFormed, NumbersUnique, PendingIsLast, TurnRow
<1>2. NumbersContiguous'
  <2>1. \A n : NumberTaken(n)' <=> NumberTaken(n)
    BY DEF LocalMove, NumberTaken, TurnRow
  <2>2. ~At(c, "numbered")'
    BY DEF LocalMove, At, WorkStep, IdleAsker
  <2>3. \A d \in Clients : At(d, "numbered")' =>
          d # c /\ asker'[d] = asker[d] /\ At(d, "numbered")
    BY <2>2 DEF LocalMove, At
  <2> QED
    BY <2>1, <2>3 DEF IInv, LocalMove, NumbersContiguous
<1>3. AskersOwnTurns'
  <2> USE DEF IInv, LocalMove, AskersOwnTurns, OneAnswerInProgress, WorkStep,
              Working, At, Engaged, Key, TurnRow
  <2>1. CASE asker'[c] = IdleAsker
    <3>1. asker'[c].step = "idle"
      BY <2>1 DEF IdleAsker
    <3> QED
      BY <3>1
  <2>2. CASE asker'[c] # IdleAsker
    BY <2>2
  <2> QED
    BY <2>1, <2>2
<1>4. CitesIndexed'
  BY DEF IInv, LocalMove, CitesIndexed, IdleAsker
<1>5. AnswerStoredWhole' /\ CitationsResolve'
  BY DEF IInv, LocalMove, AnswerStoredWhole, CitationsResolve
<1> QED
  BY <1>1, <1>2, <1>3, <1>4, <1>5 DEF IInv

(* Every such action is a local move.                                      *)
LEMMA LocalMoves ==
  ASSUME IInv, NEW c \in Clients,
         \/ InsertRefused(c) \/ DeterministicRefused(c) \/ DeterministicFails(c)
         \/ StartAnswer(c) \/ Clarify(c) \/ Retrieve(c) \/ Generate(c)
         \/ GenerateAgain(c) \/ FallBack(c) \/ Raise(c) \/ CompleteFails(c)
         \/ MarkFails(c) \/ Crash(c)
  PROVE  LocalMove(c)
<1>t. asker \in [Clients -> AskerRecord]
  BY DEF IInv, TypeOK
<1>i. \A s \in asker[c].context \cup asker[c].cites : source[s] # "absent"
  BY DEF IInv, CitesIndexed
<1>1. CASE \/ InsertRefused(c) \/ DeterministicRefused(c) \/ DeterministicFails(c)
           \/ MarkFails(c) \/ Crash(c)
  BY <1>1, <1>t DEF InsertRefused, DeterministicRefused, DeterministicFails,
     MarkFails, Crash, Answered, LocalMove
<1>2. CASE StartAnswer(c) \/ Clarify(c) \/ FallBack(c)
  <2>1. PICK step \in WorkStep : Goto(c, step)
    BY <1>2 DEF StartAnswer, Clarify, FallBack, WorkStep
  <2>2. UNCHANGED <<conversation, turn, citation, source>>
    BY <1>2 DEF StartAnswer, Clarify, FallBack
  <2>3. asker[c].step \in WorkStep
    BY <1>2 DEF StartAnswer, Clarify, FallBack, At, WorkStep
  <2>4. /\ asker'[c].step = step
        /\ asker'[c].key = asker[c].key
        /\ asker'[c].body = asker[c].body
        /\ asker'[c].number = asker[c].number
        /\ asker'[c].context = asker[c].context
        /\ asker'[c].cites = asker[c].cites
        /\ \A d \in Clients : d # c => asker'[d] = asker[d]
    BY <2>1, GotoEffect DEF IInv
  <2> QED
    BY <1>i, <2>1, <2>2, <2>3, <2>4 DEF LocalMove
<1>3. CASE Raise(c) \/ CompleteFails(c)
  <2>1. Goto(c, "failing") /\ UNCHANGED <<conversation, turn, citation, source>>
    BY <1>3 DEF Raise, CompleteFails
  <2>2. asker[c].step \in WorkStep
    BY <1>3 DEF Raise, CompleteFails, RaisesOnProvider, RaisesOnReference,
       DeadlockDetected, Deadlocked, At, WorkStep
  <2> QED
    BY <1>i, <2>1, <2>2, GotoEffect DEF IInv, LocalMove
<1>4. CASE Retrieve(c)
  <2>1. PICK context \in SUBSET Searchable :
          asker' = [asker EXCEPT ![c] =
            [asker[c] EXCEPT !.step = "generating", !.context = context]]
    BY <1>4 DEF Retrieve
  <2>2. asker[c] \in AskerRecord
    BY <1>t
  <2>3. asker'[c] = [asker[c] EXCEPT !.step = "generating", !.context = context]
    BY <1>t, <2>1
  <2>4. /\ asker'[c].step = "generating" /\ asker'[c].context = context
        /\ asker'[c].key = asker[c].key /\ asker'[c].number = asker[c].number
        /\ asker'[c].body = asker[c].body /\ asker'[c].cites = asker[c].cites
    BY <2>2, <2>3 DEF AskerRecord
  <2>5. \A s \in context : source[s] # "absent"
    BY DEF Searchable
  <2> QED
    BY <1>4, <1>t, <1>i, <2>1, <2>4, <2>5 DEF Retrieve, At, LocalMove, WorkStep
<1>5. CASE Generate(c)
  BY <1>5, <1>t, <1>i DEF Generate, At, LocalMove, WorkStep, AskerRecord
<1>6. CASE GenerateAgain(c)
  BY <1>6, <1>t, <1>i DEF GenerateAgain, At, LocalMove, WorkStep, AskerRecord
<1> QED
  BY <1>1, <1>2, <1>3, <1>4, <1>5, <1>6

(* A new question reads the last number: no smaller one is free.           *)
LEMMA AskPreserves ==
  ASSUME IInv, TypeOK', NEW c \in Clients, NEW k \in Keys, NEW b \in Bodies,
         Ask(c, k, b)
  PROVE  IInv'
<1>t. asker \in [Clients -> AskerRecord] /\ turn \in [Keys -> TurnRecord]
  BY DEF IInv, TypeOK
<1>1. PICK n \in Numbers :
        /\ LastNumber(n)
        /\ asker'[c] = [step |-> "numbered", key |-> k, body |-> b,
                        number |-> n + 1, context |-> {}, attempt |-> 1,
                        cites |-> {}]
        /\ \A d \in Clients : d # c => asker'[d] = asker[d]
  BY <1>t DEF Ask
<1>2. n \in Nat
  BY <1>t DEF Numbers, TurnRecord
<1>3. \A m \in 1 .. n : NumberTaken(m)
  <2>1. CASE n = 0
    BY <2>1
  <2>2. CASE n # 0
    <3>1. PICK t \in Keys : turn[t].number = n
      BY <2>2 DEF Numbers
    <3>2. TurnRow(t)
      BY <3>1, <2>2 DEF IInv, RowsWellFormed, NoTurn
    <3>3. NumberTaken(n)
      BY <3>1, <3>2 DEF NumberTaken
    <3>4. \A m \in 1 .. (n - 1) : NumberTaken(m)
      BY <3>1 DEF IInv, NumbersContiguous
    <3> QED
      BY <1>2, <3>3, <3>4
  <2> QED
    BY <2>1, <2>2
<1>4. UNCHANGED <<conversation, turn, citation, source>>
  BY DEF Ask
<1>5. RowsWellFormed' /\ NumbersUnique' /\ PendingIsLast'
  BY <1>4 DEF IInv, RowsWellFormed, NumbersUnique, PendingIsLast, TurnRow
<1>6. NumbersContiguous'
  <2>1. \A m : NumberTaken(m)' <=> NumberTaken(m)
    BY <1>4 DEF NumberTaken, TurnRow
  <2>2. (n + 1) - 1 = n /\ n + 1 > 0
    BY <1>2
  <2>3. ASSUME NEW d \in Clients, At(d, "numbered")', conversation # "removed"
        PROVE  asker'[d].number > 0 /\ \A m \in 1 .. (asker'[d].number - 1) :
                                          NumberTaken(m)'
    <3>1. CASE d = c
      BY <1>1, <1>3, <2>1, <2>2, <3>1
    <3>2. CASE d # c
      BY <1>1, <2>1, <2>3, <3>2 DEF IInv, NumbersContiguous, At
    <3> QED
      BY <3>1, <3>2
  <2>4. \A t \in Keys : \A m \in 1 .. (turn'[t].number - 1) : NumberTaken(m)'
    BY <1>4, <2>1 DEF IInv, NumbersContiguous
  <2> QED
    BY <1>4, <2>3, <2>4 DEF NumbersContiguous
<1>7. AskersOwnTurns'
  <2>1. asker'[c].step = "numbered" /\ asker'[c].key = k /\ asker'[c].body = b
    BY <1>1
  <2> QED
    BY <1>1, <1>4, <2>1 DEF IInv, AskersOwnTurns, OneAnswerInProgress, Working, At,
       Engaged, Key, TurnRow
<1>8. CitesIndexed'
  BY <1>1, <1>4 DEF IInv, CitesIndexed
<1>9. AnswerStoredWhole' /\ CitationsResolve'
  BY <1>4 DEF IInv, AnswerStoredWhole, CitationsResolve
<1> QED
  BY <1>5, <1>6, <1>7, <1>8, <1>9 DEF IInv

-----------------------------------------------------------------------------
(* InsertTurn: the number it commits is the next one.                      *)
LEMMA InsertPreserves ==
  ASSUME IInv, TypeOK', NEW c \in Clients, InsertTurn(c)
  PROVE  IInv'
<1> DEFINE k == Key(c)
           n == asker[c].number
<1>t. asker \in [Clients -> AskerRecord] /\ turn \in [Keys -> TurnRecord]
  BY DEF IInv, TypeOK
<1>1. /\ conversation = "open" /\ conversation' = "open"
      /\ citation' = citation /\ source' = source
      /\ ~TurnRow(k) /\ ~NumberTaken(n)
      /\ \A u \in Keys : turn[u].status # "pending"
  BY DEF InsertTurn, Insertable
<1>2. k \in Keys /\ asker[c].body \in Bodies /\ n \in Nat /\ n > 0
  BY <1>t, <1>1 DEF IInv, AskersOwnTurns, Engaged, InsertTurn, At, NumbersContiguous,
     AskerRecord
<1>3. /\ turn'[k] = [status |-> "pending", number |-> n, body |-> asker[c].body,
                    message |-> FALSE, stored |-> FALSE, excerpts |-> {}]
      /\ \A u \in Keys : u # k => turn'[u] = turn[u]
  BY <1>t, <1>2 DEF InsertTurn
<1>4. /\ asker'[c].step = "asked" /\ asker'[c].key = k /\ asker'[c].number = n
      /\ asker'[c].body = asker[c].body
      /\ asker'[c].context = asker[c].context /\ asker'[c].cites = asker[c].cites
      /\ \A d \in Clients : d # c => asker'[d] = asker[d]
  BY GotoEffect DEF IInv, InsertTurn, Key
<1>5. \A m \in 1 .. (n - 1) : NumberTaken(m)
  BY <1>1 DEF IInv, NumbersContiguous, InsertTurn
<1>6. \A u \in Keys : turn[u].number < n
  <2> SUFFICES ASSUME NEW u \in Keys, turn[u].number >= n PROVE FALSE
    BY <1>t, <1>2 DEF TurnRecord
  <2>1. turn[u].number \in Nat
    BY <1>t DEF TurnRecord
  <2>2. TurnRow(u)
    BY <1>2, <2>1 DEF IInv, RowsWellFormed, NoTurn
  <2>3. turn[u].number # n
    BY <1>1, <2>2 DEF NumberTaken
  <2>4. n \in 1 .. (turn[u].number - 1)
    BY <1>2, <2>1, <2>3
  <2> QED
    BY <1>1, <2>4 DEF IInv, NumbersContiguous
<1>7. \A m : NumberTaken(m)' <=> (NumberTaken(m) \/ m = n)
  BY <1>1, <1>2, <1>3 DEF NumberTaken, TurnRow
<1>8. RowsWellFormed'
  BY <1>1, <1>2, <1>3 DEF IInv, RowsWellFormed, TurnRow
<1>9. NumbersContiguous'
  <2>1. \A u \in Keys : \A m \in 1 .. (turn'[u].number - 1) : NumberTaken(m)'
    <3> SUFFICES ASSUME NEW u \in Keys, NEW m \in 1 .. (turn'[u].number - 1)
                 PROVE  NumberTaken(m)'
      OBVIOUS
    <3>1. CASE u = k
      BY <1>3, <1>5, <1>7, <3>1
    <3>2. CASE u # k
      BY <1>3, <1>7, <3>2 DEF IInv, NumbersContiguous
    <3> QED
      BY <3>1, <3>2
  <2>2. \A d \in Clients : At(d, "numbered")' => d # c /\ At(d, "numbered")
                                                /\ asker'[d] = asker[d]
    BY <1>4 DEF At
  <2> QED
    BY <1>1, <1>7, <2>1, <2>2 DEF IInv, NumbersContiguous
<1>10. NumbersUnique' /\ PendingIsLast'
  <2>1. \A u \in Keys : u # k => turn'[u].number < n /\ turn'[u].status # "pending"
    BY <1>1, <1>3, <1>6
  <2>2. turn'[k].number = n
    BY <1>3
  <2>3. \A u \in Keys : turn'[u].number \in Nat
    BY DEF TypeOK, TurnRecord
  <2>4. NumbersUnique'
    BY <1>2, <1>3, <2>1, <2>2, <2>3 DEF IInv, NumbersUnique, TurnRow
  <2>5. PendingIsLast'
    BY <1>2, <2>1, <2>2, <2>3 DEF PendingIsLast
  <2> QED
    BY <2>4, <2>5
<1>11. \A d \in Clients : ~Working(d) /\ (At(d, "failing") => TurnRow(Key(d)))
  BY <1>1 DEF IInv, AskersOwnTurns, OneAnswerInProgress, Working, Engaged, Key
<1>12. AskersOwnTurns'
  <2>1. \A d \in Clients : d # c =>
          /\ ~Working(d)' /\ (At(d, "failing")' => TurnRow(Key(d)) /\ Key(d) # k)
          /\ Key(d)' = Key(d) /\ (Engaged(d)' <=> Engaged(d))
          /\ (At(d, "numbered")' <=> At(d, "numbered"))
    BY <1>1, <1>4, <1>11 DEF Working, At, Key, Engaged
  <2>2. /\ Key(c)' = k /\ TurnRow(k)' /\ ~At(c, "failing")' /\ ~At(c, "numbered")'
        /\ Working(c)'
    BY <1>3, <1>4 DEF Key, TurnRow, At, Working
  <2>3. \A u \in Keys : TurnRow(u) => TurnRow(u)'
    BY <1>1, <1>3 DEF TurnRow
  <2>4. OneAnswerInProgress'
    BY <1>2, <1>3, <1>4, <2>1, <2>2 DEF OneAnswerInProgress
  <2>5. \A d \in Clients : Engaged(d) => Key(d) \in Keys
    BY DEF IInv, AskersOwnTurns
  <2>6. \A d \in Clients : Engaged(d)' => Key(d)' \in Keys
    BY <1>2, <2>1, <2>2, <2>5
  <2>7. \A d \in Clients : At(d, "numbered")' => asker'[d].body \in Bodies
    BY <1>4, <2>1, <2>2 DEF IInv, AskersOwnTurns
  <2>8. \A d \in Clients : Working(d)' \/ At(d, "failing")' => TurnRow(Key(d))'
    <3> SUFFICES ASSUME NEW d \in Clients, d # c, At(d, "failing")'
                 PROVE  TurnRow(Key(d))'
      BY <1>3, <1>4, <2>1 DEF TurnRow, Key
    <3>1. TurnRow(Key(d)) /\ Key(d) \in Keys /\ asker'[d] = asker[d]
      BY <1>4, <2>1, <2>5 DEF At, Engaged
    <3> QED
      BY <2>3, <3>1 DEF TurnRow, Key
  <2> QED
    BY <1>1, <2>1, <2>2, <2>4, <2>6, <2>7, <2>8 DEF AskersOwnTurns
<1>13. CitesIndexed'
  BY <1>1, <1>4 DEF IInv, CitesIndexed
<1>14. AnswerStoredWhole'
  <2>1. turn[k] = NoTurn
    BY <1>1, <1>2 DEF IInv, RowsWellFormed
  <2>2. {} = {s \in Sources : citation[k][s] # "none"}
    BY <1>2, <2>1 DEF IInv, AnswerStoredWhole, NoTurn
  <2> QED
    BY <1>1, <1>2, <1>3, <2>2 DEF IInv, AnswerStoredWhole
<1>15. CitationsResolve'
  BY <1>1 DEF IInv, CitationsResolve
<1> QED
  BY <1>8, <1>9, <1>10, <1>12, <1>13, <1>14, <1>15 DEF IInv

-----------------------------------------------------------------------------
(* A request completes its own pending turn: Complete, also when its       *)
(* acknowledgement is lost, and AnswerDeterministically.                   *)
Completes(c, cites) ==
    /\ asker[c].step \in WorkStep
    /\ conversation = "open" /\ UNCHANGED <<conversation, source>>
    /\ \A s \in cites : source[s] \notin {"absent", "purged"}
    /\ Settled(Key(c), cites)
    /\ CitationRows(Key(c), cites)
    /\ Answered(c) \/ Goto(c, "failing")

\* The transaction of an answer keeps the invariant.
LEMMA CompletionPreserves ==
  ASSUME IInv, TypeOK', NEW c \in Clients, NEW cites \in SUBSET Sources,
         Completes(c, cites)
  PROVE  IInv'
<1> DEFINE k == Key(c)
<1>t. /\ asker \in [Clients -> AskerRecord] /\ turn \in [Keys -> TurnRecord]
      /\ citation \in [Keys -> [Sources -> {"none", "available", "deleted"}]]
  BY DEF IInv, TypeOK
<1>w. Working(c)
  BY DEF Completes, Working, WorkStep
<1>1. k \in Keys /\ turn[k].status = "pending"
  BY <1>w DEF Completes, IInv, AskersOwnTurns, OneAnswerInProgress, Working, Engaged, Key,
     TurnRow
<1>2. /\ turn'[k] = [status |-> "completed", number |-> turn[k].number,
                    body |-> turn[k].body, message |-> TRUE, stored |-> TRUE,
                    excerpts |-> cites]
      /\ \A u \in Keys : u # k => turn'[u] = turn[u]
  BY <1>t, <1>1 DEF Completes, Settled
<1>3. /\ \A s \in Sources :
           citation'[k][s] = IF s \in cites THEN "available" ELSE "none"
      /\ \A u \in Keys : u # k => citation'[u] = citation[u]
  BY <1>t, <1>1 DEF Completes, CitationRows
<1>4. /\ asker'[c].step \in {"idle", "failing"}
      /\ asker'[c].step = "failing" => asker'[c].key = k
      /\ asker'[c].context \cup asker'[c].cites
           \subseteq asker[c].context \cup asker[c].cites
      /\ \A d \in Clients : d # c => asker'[d] = asker[d]
  <2>1. CASE Answered(c)
    BY <1>t, <2>1 DEF Answered, IdleAsker
  <2>2. CASE Goto(c, "failing")
    BY <2>2, GotoEffect DEF IInv, Key
  <2> QED
    BY <2>1, <2>2 DEF Completes
<1>5. /\ conversation = "open" /\ conversation' = "open" /\ source' = source
      /\ \A u \in Keys : /\ TurnRow(u)' <=> TurnRow(u)
                         /\ turn'[u].number = turn[u].number
                         /\ turn'[u].status = "pending" => turn[u].status = "pending"
  BY <1>1, <1>2 DEF Completes, TurnRow
<1>6. \A n : NumberTaken(n)' <=> NumberTaken(n)
  BY <1>5 DEF NumberTaken
<1>7. RowsWellFormed'
  BY <1>1, <1>2, <1>5 DEF IInv, RowsWellFormed, TurnRow
<1>8. NumbersUnique' /\ PendingIsLast'
  BY <1>5 DEF IInv, NumbersUnique, PendingIsLast
<1>9. NumbersContiguous'
  <2>1. \A d \in Clients : At(d, "numbered")' => /\ At(d, "numbered")
                                                /\ asker'[d] = asker[d]
    BY <1>4 DEF At
  <2> QED
    BY <1>5, <1>6, <2>1 DEF IInv, NumbersContiguous
<1>10. \A d \in Clients : d # c => ~Working(d)
  BY <1>w DEF IInv, AskersOwnTurns, OneAnswerInProgress
<1>11. AskersOwnTurns'
  <2>1. \A d \in Clients : ~Working(d)'
    BY <1>4, <1>10 DEF Working
  <2>2. \A d \in Clients : Engaged(d)' => Key(d)' \in Keys
    BY <1>1, <1>4 DEF IInv, AskersOwnTurns, Engaged, Key
  <2>3. \A d \in Clients : At(d, "numbered")' => asker'[d].body \in Bodies
    BY <1>4 DEF IInv, AskersOwnTurns, At
  <2>4. \A d \in Clients : At(d, "failing")' => TurnRow(Key(d))'
    <3> SUFFICES ASSUME NEW d \in Clients, At(d, "failing")' PROVE TurnRow(Key(d))'
      OBVIOUS
    <3>1. CASE d = c
      BY <1>2, <1>4, <3>1 DEF TurnRow, Key, At
    <3>2. CASE d # c
      BY <1>4, <1>5, <3>2 DEF IInv, AskersOwnTurns, At, TurnRow, Key, Engaged
    <3> QED
      BY <3>1, <3>2
  <2>5. OneAnswerInProgress'
    BY <2>1 DEF OneAnswerInProgress
  <2> QED
    BY <2>1, <2>2, <2>3, <2>4, <2>5 DEF AskersOwnTurns
<1>12. CitesIndexed'
  BY <1>4, <1>5 DEF IInv, CitesIndexed
<1>13. AnswerStoredWhole'
  <2>1. cites = {s \in Sources : citation'[k][s] # "none"}
    BY <1>3
  <2> QED
    BY <1>1, <1>2, <1>3, <2>1 DEF IInv, AnswerStoredWhole
<1>14. CitationsResolve'
  BY <1>1, <1>3, <1>5 DEF IInv, CitationsResolve, Completes
<1> QED
  BY <1>7, <1>8, <1>9, <1>11, <1>12, <1>13, <1>14 DEF IInv

(* Every answer that is stored is such a completion.                       *)
LEMMA Completions ==
  ASSUME IInv, NEW c \in Clients,
         AnswerDeterministically(c) \/ Complete(c) \/ CompleteUnacknowledged(c)
  PROVE  \E cites \in SUBSET Sources : Completes(c, cites)
<1>1. asker[c].cites \in SUBSET Sources
  BY DEF IInv, TypeOK, AskerRecord
<1>2. CASE AnswerDeterministically(c)
  BY <1>2 DEF AnswerDeterministically, Completes, At, WorkStep
<1>3. CASE Complete(c) \/ CompleteUnacknowledged(c)
  <2>1. \A s \in asker[c].cites : source[s] \notin {"absent", "purged"}
    BY <1>3 DEF Complete, CompleteUnacknowledged, ReferencesHold, IInv, CitesIndexed
  <2>2. Completes(c, asker[c].cites)
    BY <1>3, <2>1 DEF Complete, CompleteUnacknowledged, Completes, At, WorkStep
  <2> QED
    BY <1>1, <2>2
<1> QED
  BY <1>2, <1>3

-----------------------------------------------------------------------------
(* MarkTurnFailed: the turn of a failing request, which no other request   *)
(* works on, or none at all.                                               *)
LEMMA MarkPreserves ==
  ASSUME IInv, TypeOK', NEW c \in Clients, MarkTurnFailed(c)
  PROVE  IInv'
<1> DEFINE k == Key(c)
<1>t. asker \in [Clients -> AskerRecord] /\ turn \in [Keys -> TurnRecord]
  BY DEF IInv, TypeOK
<1>1. k \in Keys /\ At(c, "failing")
  BY DEF MarkTurnFailed, IInv, AskersOwnTurns, Engaged, At
<1>2. /\ UNCHANGED <<conversation, citation, source>>
      /\ asker'[c] = IdleAsker
      /\ \A d \in Clients : d # c => asker'[d] = asker[d]
  BY <1>t DEF MarkTurnFailed, Answered
<1>3. /\ \A u \in Keys : /\ TurnRow(u)' <=> TurnRow(u)
                         /\ turn'[u].number = turn[u].number
                         /\ turn'[u].body = turn[u].body
                         /\ turn'[u].message = turn[u].message
                         /\ turn'[u].stored = turn[u].stored
                         /\ turn'[u].excerpts = turn[u].excerpts
      /\ \A u \in Keys : \/ turn'[u] = turn[u]
                         \/ u = k /\ TurnRow(k) /\ turn'[u].status = "failed"
  <2>1. CASE TurnRow(k)
    <3>1. turn'[k] = [turn[k] EXCEPT !.status = "failed"]
          /\ \A u \in Keys : u # k => turn'[u] = turn[u]
      BY <1>t, <1>1, <2>1 DEF MarkTurnFailed, Failed
    <3>2. turn[k] \in TurnRecord
      BY <1>t, <1>1
    <3>3. /\ turn'[k].status = "failed"
          /\ turn'[k].number = turn[k].number /\ turn'[k].body = turn[k].body
          /\ turn'[k].message = turn[k].message /\ turn'[k].stored = turn[k].stored
          /\ turn'[k].excerpts = turn[k].excerpts
      BY <3>1, <3>2 DEF TurnRecord
    <3> QED
      BY <2>1, <3>1, <3>3 DEF TurnRow
  <2>2. CASE ~TurnRow(k)
    BY <2>2 DEF MarkTurnFailed, TurnRow
  <2> QED
    BY <2>1, <2>2
<1>4. \A n : NumberTaken(n)' <=> NumberTaken(n)
  BY <1>3 DEF NumberTaken
<1>5. RowsWellFormed'
  BY <1>2, <1>3 DEF IInv, RowsWellFormed, TurnRow
<1>6. NumbersUnique' /\ PendingIsLast'
  BY <1>3 DEF IInv, NumbersUnique, PendingIsLast
<1>7. asker'[c].step = "idle" /\ asker'[c].context = {} /\ asker'[c].cites = {}
  BY <1>2 DEF IdleAsker
<1>8. NumbersContiguous'
  <2>1. \A d \in Clients : At(d, "numbered")' => At(d, "numbered") /\ asker'[d] = asker[d]
    BY <1>2, <1>7 DEF At
  <2> QED
    BY <1>2, <1>3, <1>4, <2>1 DEF IInv, NumbersContiguous
<1>9. AskersOwnTurns'
  <2>1. \A d \in Clients : Engaged(d)' => d # c /\ Engaged(d) /\ asker'[d] = asker[d]
    BY <1>2, <1>7 DEF Engaged
  <2>2. \A d \in Clients : Working(d)' => /\ Working(d) /\ Key(d) # k /\ Key(d) \in Keys
                                         /\ turn'[Key(d)] = turn[Key(d)]
    BY <1>1, <1>3, <2>1 DEF IInv, AskersOwnTurns, Working, Engaged
  <2>3. \A d \in Clients : Working(d)' => asker'[d] = asker[d]
    BY <2>1 DEF Working, Engaged
  <2>4. OneAnswerInProgress'
    BY <2>2, <2>3 DEF IInv, AskersOwnTurns, OneAnswerInProgress, TurnRow, Key
  <2>5. \A d \in Clients : Engaged(d)' => Key(d)' \in Keys
    BY <2>1 DEF IInv, AskersOwnTurns, Key
  <2>6. \A d \in Clients : At(d, "numbered")' => asker'[d].body \in Bodies
    BY <2>1 DEF IInv, AskersOwnTurns, At, Engaged
  <2>7. conversation # "removed" => \A d \in Clients :
          Working(d)' \/ At(d, "failing")' => TurnRow(Key(d))'
    <3> SUFFICES ASSUME conversation # "removed", NEW d \in Clients,
                        Working(d)' \/ At(d, "failing")'
                 PROVE  TurnRow(Key(d))'
      OBVIOUS
    <3>1. Engaged(d)'
      BY DEF Working, At, Engaged
    <3>2. asker'[d] = asker[d] /\ Key(d) \in Keys /\ TurnRow(Key(d))
      BY <2>1, <3>1 DEF IInv, AskersOwnTurns, Working, At
    <3> QED
      BY <1>3, <3>2 DEF Key, TurnRow
  <2>8. \A d, e \in Clients : At(d, "failing")' /\ Working(e)' => Key(d)' # Key(e)'
    BY <2>1, <2>2, <2>3 DEF IInv, AskersOwnTurns, At, Engaged, Key
  <2> QED
    BY <1>2, <2>4, <2>5, <2>6, <2>7, <2>8 DEF AskersOwnTurns
<1>10. CitesIndexed'
  BY <1>2, <1>7 DEF IInv, CitesIndexed
<1>11. AnswerStoredWhole'
  BY <1>2, <1>3 DEF IInv, AnswerStoredWhole
<1>12. CitationsResolve'
  BY <1>2 DEF IInv, CitationsResolve
<1> QED
  BY <1>5, <1>6, <1>8, <1>9, <1>10, <1>11, <1>12 DEF IInv

-----------------------------------------------------------------------------
(* The removal of the conversation, refused or carried out.                *)
LEMMA RemovalPreserves ==
  ASSUME IInv, TypeOK', RequestRemoval \/ RemovalAborted \/ RemoveConversation
  PROVE  IInv'
<1>1. CASE RequestRemoval \/ RemovalAborted
  <2>1. /\ UNCHANGED <<turn, citation, source, asker>>
        /\ conversation # "removed" /\ conversation' # "removed"
    BY <1>1 DEF RequestRemoval, RemovalAborted
  <2>2. RowsWellFormed' /\ NumbersContiguous' /\ NumbersUnique' /\ PendingIsLast'
    BY <2>1 DEF IInv, RowsWellFormed, NumbersContiguous, NumbersUnique, PendingIsLast,
       NumberTaken, TurnRow, At
  <2>3. AskersOwnTurns' /\ CitesIndexed'
    BY <2>1 DEF IInv, AskersOwnTurns, OneAnswerInProgress, Working, Engaged, At, Key,
       TurnRow, CitesIndexed
  <2>4. AnswerStoredWhole' /\ CitationsResolve'
    BY <2>1 DEF IInv, AnswerStoredWhole, CitationsResolve
  <2> QED
    BY <2>2, <2>3, <2>4 DEF IInv
<1>2. CASE RemoveConversation
  <2>1. /\ \A k \in Keys : turn'[k] = NoTurn
        /\ \A k \in Keys, s \in Sources : citation'[k][s] = "none"
        /\ conversation' = "removed" /\ UNCHANGED <<source, asker>>
    BY <1>2 DEF RemoveConversation, NoCitations
  <2>2. \A k \in Keys : ~TurnRow(k)' /\ turn'[k].status = "none" /\ turn'[k].number = 0
    BY <2>1 DEF TurnRow, NoTurn
  <2>3. RowsWellFormed' /\ NumbersContiguous' /\ NumbersUnique' /\ PendingIsLast'
    BY <2>1, <2>2 DEF RowsWellFormed, NumbersContiguous, NumbersUnique, PendingIsLast
  <2>4. \A c \in Clients : Engaged(c) => Key(c) \in Keys
    BY DEF IInv, AskersOwnTurns
  <2>5. \A c \in Clients : Working(c) => ~TurnRow(Key(c))'
    BY <2>1, <2>2, <2>4 DEF Working, Engaged, TurnRow, Key
  <2>6. AskersOwnTurns'
    BY <2>1, <2>5 DEF IInv, AskersOwnTurns, OneAnswerInProgress, Working, Engaged, At,
       Key
  <2>7. CitesIndexed'
    BY <2>1 DEF IInv, CitesIndexed
  <2>8. AnswerStoredWhole' /\ CitationsResolve'
    BY <2>1 DEF AnswerStoredWhole, CitationsResolve, NoTurn
  <2> QED
    BY <2>3, <2>6, <2>7, <2>8 DEF IInv
<1> QED
  BY <1>1, <1>2

-----------------------------------------------------------------------------
(* The documents' own steps.  A purge leaves no citation of its source.    *)
LEMMA SourcesPreserve ==
  ASSUME IInv, TypeOK', NEW s \in Sources, SourceStep(s)
  PROVE  IInv'
<1>t. /\ source \in [Sources -> SourceStatus]
      /\ citation \in [Keys -> [Sources -> {"none", "available", "deleted"}]]
      /\ asker \in [Clients -> AskerRecord]
  BY DEF IInv, TypeOK
<1>1. UNCHANGED <<conversation, turn, asker>>
  BY DEF SourceStep, Index, Supersede, AcceptDeletion, Purge
<1>2. /\ source'[s] # "absent"
      /\ \A r \in Sources : r # s => source'[r] = source[r]
  BY <1>t DEF SourceStep, Index, Supersede, AcceptDeletion, Purge
<1>3. RowsWellFormed' /\ NumbersContiguous' /\ NumbersUnique' /\ PendingIsLast'
  BY <1>1 DEF IInv, RowsWellFormed, NumbersContiguous, NumbersUnique, PendingIsLast,
     NumberTaken, TurnRow, At
<1>4. AskersOwnTurns'
  BY <1>1 DEF IInv, AskersOwnTurns, OneAnswerInProgress, Working, Engaged, At, Key,
     TurnRow
<1>5. CitesIndexed'
  <2>1. \A c \in Clients : asker[c].context \cup asker[c].cites \subseteq Sources
    BY <1>t DEF AskerRecord
  <2> QED
    BY <1>1, <1>2, <2>1 DEF IInv, CitesIndexed
<1>6. AnswerStoredWhole' /\ CitationsResolve'
  <2>1. CASE Purge(s)
    <3>1. \A k \in Keys, r \in Sources :
            citation'[k][r] = IF r = s /\ citation[k][r] = "available"
                              THEN "deleted" ELSE citation[k][r]
      BY <1>t, <2>1 DEF Purge, Redacted
    <3>2. \A k \in Keys : {r \in Sources : citation'[k][r] # "none"}
                          = {r \in Sources : citation[k][r] # "none"}
      BY <3>1
    <3>3. AnswerStoredWhole'
      BY <1>1, <3>2 DEF IInv, AnswerStoredWhole
    <3>4. CitationsResolve'
      BY <1>2, <3>1 DEF IInv, CitationsResolve
    <3> QED
      BY <3>3, <3>4
  <2>2. CASE Index(s) \/ Supersede(s) \/ AcceptDeletion(s)
    <3>1. citation' = citation /\ source'[s] \in {"available", "superseded", "deleting"}
      BY <1>t, <2>2 DEF Index, Supersede, AcceptDeletion
    <3> QED
      BY <1>1, <1>2, <3>1 DEF IInv, AnswerStoredWhole, CitationsResolve
  <2> QED
    BY <2>1, <2>2 DEF SourceStep
<1> QED
  BY <1>3, <1>4, <1>5, <1>6 DEF IInv

-----------------------------------------------------------------------------
(* Every step preserves the invariant.                                     *)
LEMMA InvNext == IInv /\ [Next]_vars => IInv'
<1> SUFFICES ASSUME IInv, [Next]_vars PROVE IInv'
  OBVIOUS
<1>t. TypeOK'
  BY TypeNext DEF IInv
<1>1. CASE UNCHANGED vars
  <2> USE <1>1 DEF vars, IInv
  <2>1. TypeOK' /\ RowsWellFormed' /\ NumbersUnique' /\ PendingIsLast'
    BY <1>t DEF RowsWellFormed, NumbersUnique, PendingIsLast, TurnRow
  <2>2. NumbersContiguous'
    BY DEF NumbersContiguous, NumberTaken, TurnRow, At
  <2>3. AskersOwnTurns' /\ CitesIndexed'
    BY DEF AskersOwnTurns, OneAnswerInProgress, Working, Engaged, At, Key, TurnRow,
           CitesIndexed
  <2>4. AnswerStoredWhole' /\ CitationsResolve'
    BY DEF AnswerStoredWhole, CitationsResolve
  <2> QED
    BY <2>1, <2>2, <2>3, <2>4
<1>2. ASSUME NEW c \in Clients, NEW k \in Keys, NEW b \in Bodies, Ask(c, k, b)
      PROVE  IInv'
  BY <1>2, <1>t, AskPreserves
<1>3. ASSUME NEW c \in Clients, AskerAdvances(c) \/ AskerDisturbed(c) PROVE IInv'
  <2>1. CASE InsertTurn(c)
    BY <2>1, <1>t, InsertPreserves
  <2>2. CASE MarkTurnFailed(c)
    BY <2>2, <1>t, MarkPreserves
  <2>3. CASE AnswerDeterministically(c) \/ Complete(c) \/ CompleteUnacknowledged(c)
    BY <2>3, <1>t, Completions, CompletionPreserves
  <2>4. CASE \/ InsertRefused(c) \/ DeterministicRefused(c) \/ DeterministicFails(c)
             \/ StartAnswer(c) \/ Clarify(c) \/ Retrieve(c) \/ Generate(c)
             \/ GenerateAgain(c) \/ FallBack(c) \/ Raise(c) \/ CompleteFails(c)
             \/ MarkFails(c) \/ Crash(c)
    BY <2>4, <1>t, LocalMoves, LocalMovePreserves
  <2> QED
    BY <1>3, <2>1, <2>2, <2>3, <2>4 DEF AskerAdvances, AskerDisturbed
<1>4. CASE RequestRemoval \/ RemoveConversation \/ RemovalAborted
  BY <1>4, <1>t, RemovalPreserves
<1>5. ASSUME NEW s \in Sources, SourceStep(s) PROVE IInv'
  BY <1>5, <1>t, SourcesPreserve
<1> QED
  BY <1>1, <1>2, <1>3, <1>4, <1>5 DEF Next

(* IInv holds in every reachable state: rows, numbers, askers and citations*)
(* stay linked whatever requests, removals, purges and faults interleave.  *)
THEOREM ConversationInvariant == Spec => []IInv
  BY InvInit, InvNext, PTL DEF Spec

(* Rows and locals keep their types and no generation has a third attempt. *)
THEOREM ConversationTypes == Spec => []TypeOK
  <1>1. IInv => TypeOK
    BY DEF IInv
  <1> QED
    BY <1>1, ConversationInvariant, PTL

(* At most one request answers at a time, and it works on its own pending  *)
(* turn, with the number and body it committed.                            *)
THEOREM OneAnswerAtATime == Spec => []OneAnswerInProgress
  <1>1. IInv => OneAnswerInProgress
    BY DEF IInv, AskersOwnTurns
  <1> QED
    BY <1>1, ConversationInvariant, PTL

(* Assistant message, citations and stored response of a turn exist        *)
(* together or not at all.                                                 *)
THEOREM AnswersStoredWhole == Spec => []AnswerStoredWhole
  <1>1. IInv => AnswerStoredWhole
    BY DEF IInv
  <1> QED
    BY <1>1, ConversationInvariant, PTL

(* A citation that is not a tombstone leads to an indexed, unpurged chunk. *)
THEOREM CitationsAlwaysResolve == Spec => []CitationsResolve
  <1>1. IInv => CitationsResolve
    BY DEF IInv
  <1> QED
    BY <1>1, ConversationInvariant, PTL

-----------------------------------------------------------------------------
(* What a step does to the turns: it inserts one, completes the pending    *)
(* turn of its request, marks one failed, removes all, or changes none.    *)
LEMMA TurnSteps ==
  ASSUME IInv, [Next]_vars, NEW k \in Keys
  PROVE  \/ turn'[k] = turn[k]
         \/ turn[k].status = "none" /\ turn'[k].status = "pending"
         \/ /\ turn[k].status = "pending" /\ turn'[k].status = "completed"
            /\ turn'[k].number = turn[k].number
            /\ \A u \in Keys : u # k => turn'[u] = turn[u]
         \/ turn'[k] = [turn[k] EXCEPT !.status = "failed"]
         \/ conversation' = "removed" /\ turn'[k] = NoTurn
<1>t. turn \in [Keys -> TurnRecord]
  BY DEF IInv, TypeOK
<1>1. CASE UNCHANGED turn
  BY <1>1
<1>2. ASSUME NEW c \in Clients, InsertTurn(c)
      PROVE  \/ turn'[k] = turn[k]
             \/ turn[k].status = "none" /\ turn'[k].status = "pending"
  BY <1>t, <1>2 DEF InsertTurn, Insertable, TurnRow
<1>3. ASSUME NEW c \in Clients, NEW cites \in SUBSET Sources, Completes(c, cites)
      PROVE  \/ turn'[k] = turn[k]
             \/ /\ turn[k].status = "pending" /\ turn'[k].status = "completed"
                /\ turn'[k].number = turn[k].number
                /\ \A u \in Keys : u # k => turn'[u] = turn[u]
  <2>1. turn[Key(c)].status = "pending"
    BY <1>3 DEF Completes, IInv, AskersOwnTurns, OneAnswerInProgress, Working, WorkStep,
       TurnRow
  <2>2. CASE k = Key(c)
    BY <1>t, <1>3, <2>1, <2>2 DEF Completes, Settled
  <2>3. CASE k # Key(c)
    BY <1>t, <1>3, <2>3 DEF Completes, Settled
  <2> QED
    BY <2>2, <2>3
<1>4. ASSUME NEW c \in Clients, MarkTurnFailed(c)
      PROVE  turn'[k] = turn[k] \/ turn'[k] = [turn[k] EXCEPT !.status = "failed"]
  BY <1>t, <1>4 DEF MarkTurnFailed, Failed
<1>5. CASE RemoveConversation
  BY <1>5 DEF RemoveConversation
<1>6. ASSUME NEW c \in Clients, AskerAdvances(c) \/ AskerDisturbed(c),
             ~InsertTurn(c), ~MarkTurnFailed(c), ~UNCHANGED turn
      PROVE  \E cites \in SUBSET Sources : Completes(c, cites)
  <2>1. CASE AnswerDeterministically(c) \/ Complete(c) \/ CompleteUnacknowledged(c)
    BY <2>1, Completions
  <2>2. CASE \/ InsertRefused(c) \/ DeterministicRefused(c) \/ DeterministicFails(c)
             \/ StartAnswer(c) \/ Clarify(c) \/ Retrieve(c) \/ Generate(c)
             \/ GenerateAgain(c) \/ FallBack(c) \/ Raise(c) \/ CompleteFails(c)
             \/ MarkFails(c) \/ Crash(c)
    BY <1>6, <2>2, LocalMoves DEF LocalMove
  <2> QED
    BY <1>6, <2>1, <2>2 DEF AskerAdvances, AskerDisturbed
<1>7. CASE \/ \E c \in Clients, q \in Keys, b \in Bodies : Ask(c, q, b)
           \/ RequestRemoval \/ RemovalAborted
           \/ \E s \in Sources : SourceStep(s)
  BY <1>1, <1>7 DEF Ask, RequestRemoval, RemovalAborted, SourceStep, Index, Supersede,
     AcceptDeletion, Purge
<1>8. CASE \E c \in Clients : AskerAdvances(c) \/ AskerDisturbed(c)
  <2>1. PICK c \in Clients : AskerAdvances(c) \/ AskerDisturbed(c)
    BY <1>8
  <2> QED
    BY <1>1, <1>2, <1>3, <1>4, <1>6, <2>1
<1>9. CASE UNCHANGED vars
  BY <1>1, <1>9 DEF vars
<1> QED
  BY <1>5, <1>7, <1>8, <1>9 DEF Next

(* New messages follow every message a reader could already have listed.   *)
THEOREM MessagesGrowAtEnd == Spec => NewMessagesAtEnd
  <1>1. IInv /\ [Next]_vars =>
          [\A k, u \in Keys : ~Visible(k) /\ Visible(k)' /\ Visible(u)
                               => turn[u].number < turn'[k].number]_vars
    <2> SUFFICES ASSUME IInv, [Next]_vars, NEW k \in Keys, NEW u \in Keys,
                        ~Visible(k), Visible(k)', Visible(u)
                 PROVE  turn[u].number < turn'[k].number
      OBVIOUS
    <2>1. turn \in [Keys -> TurnRecord]
      BY DEF IInv, TypeOK
    <2>2. turn[k].status = "pending" /\ turn'[k].number = turn[k].number
      <3>1. turn'[k].status = "completed" /\ turn[k].status # "completed"
        BY DEF Visible
      <3>2. turn'[k] # [turn[k] EXCEPT !.status = "failed"]
        BY <2>1, <3>1 DEF TurnRecord
      <3>3. turn'[k] # NoTurn
        BY <3>1 DEF NoTurn
      <3> QED
        BY <3>1, <3>2, <3>3, TurnSteps
    <2>3. u # k /\ TurnRow(u) /\ TurnRow(k)
      BY <2>2 DEF Visible, TurnRow
    <2>4. turn[u].number <= turn[k].number /\ turn[u].number # turn[k].number
      BY <2>2, <2>3 DEF IInv, PendingIsLast, NumbersUnique
    <2>5. turn[u].number \in Nat /\ turn[k].number \in Nat
      BY <2>1 DEF TurnRecord
    <2> QED
      BY <2>2, <2>4, <2>5
  <1> QED
    BY <1>1, ConversationInvariant, PTL DEF Spec, NewMessagesAtEnd

(* A settled Idempotency-Key is never answered again.                      *)
THEOREM SettledKeysStaySpent == Spec => SettledKeyIsSpent
  <1>1. IInv /\ [Next]_vars =>
          [\A k \in Keys : turn[k].status \in {"completed", "failed"} =>
             \/ turn'[k] = turn[k]
             \/ turn'[k] = [turn[k] EXCEPT !.status = "failed"]
             \/ conversation' = "removed"]_vars
    BY TurnSteps
  <1> QED
    BY <1>1, ConversationInvariant, PTL DEF Spec, SettledKeyIsSpent

-----------------------------------------------------------------------------
(* The refinement of ConversationLog, over the kinds of step: a turn is    *)
(* inserted, completed or marked failed, the conversation is removed, a    *)
(* source is purged, or nothing that anybody reads changes.                *)
Quiet ==
    /\ UNCHANGED <<turn, citation>>
    /\ \A s \in Sources : source'[s] = "purged" <=> source[s] = "purged"
    /\ conversation' = "removed" <=> conversation = "removed"

\* Every step is of one of these kinds.
LEMMA StepKinds ==
  ASSUME IInv, [Next]_vars
  PROVE  \/ \E c \in Clients : InsertTurn(c)
         \/ \E c \in Clients, cites \in SUBSET Sources : Completes(c, cites)
         \/ \E c \in Clients : MarkTurnFailed(c)
         \/ RemoveConversation
         \/ \E s \in Sources : Purge(s)
         \/ Quiet
<1>1. CASE \E c \in Clients : AskerAdvances(c) \/ AskerDisturbed(c)
  <2>1. PICK c \in Clients : AskerAdvances(c) \/ AskerDisturbed(c)
    BY <1>1
  <2>2. CASE InsertTurn(c) \/ MarkTurnFailed(c)
    BY <2>2
  <2>3. CASE AnswerDeterministically(c) \/ Complete(c) \/ CompleteUnacknowledged(c)
    BY <2>3, Completions
  <2>4. CASE \/ InsertRefused(c) \/ DeterministicRefused(c) \/ DeterministicFails(c)
             \/ StartAnswer(c) \/ Clarify(c) \/ Retrieve(c) \/ Generate(c)
             \/ GenerateAgain(c) \/ FallBack(c) \/ Raise(c) \/ CompleteFails(c)
             \/ MarkFails(c) \/ Crash(c)
    BY <2>4, LocalMoves DEF LocalMove, Quiet
  <2> QED
    BY <2>1, <2>2, <2>3, <2>4 DEF AskerAdvances, AskerDisturbed
<1>2. CASE \/ \E c \in Clients, k \in Keys, b \in Bodies : Ask(c, k, b)
           \/ RequestRemoval \/ RemovalAborted
  BY <1>2 DEF Ask, RequestRemoval, RemovalAborted, Quiet
<1>3. ASSUME NEW s \in Sources, SourceStep(s) PROVE Purge(s) \/ Quiet
  <2>1. source \in [Sources -> SourceStatus]
    BY DEF IInv, TypeOK
  <2> QED
    BY <1>3, <2>1 DEF SourceStep, Index, Supersede, AcceptDeletion, Quiet
<1>4. CASE UNCHANGED vars
  BY <1>4 DEF vars, Quiet
<1> QED
  BY <1>1, <1>2, <1>3, <1>4 DEF Next

(* A conversation has finitely many turns at any time, so that those a     *)
(* reader sees form a list, in the order of their numbers.                 *)
Rows == {k \in Keys : TurnRow(k)}
RowsFinite == IsFiniteSet(Rows)

\* A step inserts at most one row.
LEMMA RowsFiniteNext ==
  ASSUME IInv, RowsFinite, [Next]_vars
  PROVE  RowsFinite'
<1>t. turn \in [Keys -> TurnRecord]
  BY DEF IInv, TypeOK
<1>1. CASE \E c \in Clients : InsertTurn(c)
  <2>1. PICK c \in Clients : InsertTurn(c)
    BY <1>1
  <2>2. Rows' \subseteq Rows \cup {Key(c)}
    BY <1>t, <2>1 DEF InsertTurn, TurnRow, Rows
  <2>3. IsFiniteSet(Rows \cup {Key(c)})
    BY FS_AddElement DEF RowsFinite
  <2> QED
    BY <2>2, <2>3, FS_Subset DEF RowsFinite
<1>2. CASE Rows' \subseteq Rows
  BY <1>2, FS_Subset DEF RowsFinite
<1>3. ASSUME NEW c \in Clients, NEW cites \in SUBSET Sources, Completes(c, cites)
      PROVE  Rows' \subseteq Rows
  <2>1. turn[Key(c)].status = "pending"
    BY <1>3 DEF Completes, IInv, AskersOwnTurns, OneAnswerInProgress, Working, WorkStep,
       TurnRow
  <2> QED
    BY <1>t, <1>3, <2>1 DEF Completes, Settled, Rows, TurnRow
<1>4. ASSUME NEW c \in Clients, MarkTurnFailed(c) PROVE Rows' \subseteq Rows
  BY <1>t, <1>4 DEF MarkTurnFailed, Failed, Rows, TurnRow
<1>5. CASE RemoveConversation
  BY <1>2, <1>5 DEF RemoveConversation, NoTurn, Rows, TurnRow
<1>6. CASE Quiet \/ \E s \in Sources : Purge(s)
  BY <1>2, <1>6 DEF Quiet, Purge, Rows, TurnRow
<1> QED
  BY <1>1, <1>2, <1>3, <1>4, <1>5, <1>6, StepKinds

ListedInOrder ==
    /\ Numbering \in [VisibleTurns -> Int]
    /\ IsSortedList(Listed, VisibleTurns, Numbering)

\* The list follows the numbers, before a step and after it.
LEMMA ListedSorted == IInv /\ RowsFinite => ListedInOrder
<1> SUFFICES ASSUME IInv, RowsFinite PROVE ListedInOrder
  OBVIOUS
<1>1. VisibleTurns \subseteq Rows
  BY DEF VisibleTurns, Visible, Rows, TurnRow
<1>2. IsFiniteSet(VisibleTurns)
  BY <1>1, FS_Subset DEF RowsFinite
<1>3. \A k \in Keys : turn[k].number \in Int
  BY DEF IInv, TypeOK, TurnRecord
<1>4. Numbering \in [VisibleTurns -> Int]
  BY <1>3 DEF Numbering, VisibleTurns
<1>5. \A k, u \in VisibleTurns : Numbering[k] = Numbering[u] => k = u
  BY <1>1 DEF Numbering, IInv, NumbersUnique, Rows
<1>6. IsSortedList(Listed, VisibleTurns, Numbering)
  BY <1>2, <1>4, <1>5, InOrderIsSorted DEF Listed
<1> QED
  BY <1>4, <1>6 DEF ListedInOrder

LEMMA ListedStaysSorted == IInv /\ RowsFinite /\ [Next]_vars => ListedInOrder'
<1>1. IInv /\ RowsFinite /\ [Next]_vars => IInv' /\ RowsFinite'
  BY InvNext, RowsFiniteNext
<1> QED
  BY <1>1, ListedSorted, PTL

\* The list is made of the visible turns and their numbers.
LEMMA ListedKept ==
  ASSUME VisibleTurns' = VisibleTurns, \A k \in VisibleTurns : turn'[k].number = turn[k].number
  PROVE  Listed' = Listed
<1>1. Numbering' = Numbering
  BY DEF Numbering
<1> QED
  BY <1>1 DEF Listed

\* One turn at most is pending.
LEMMA OnePending ==
  ASSUME IInv, NEW k \in Keys, NEW u \in Keys, turn[k].status = "pending", turn[u].status = "pending"
  PROVE  u = k
<1>1. turn[k].number \in Int /\ turn[u].number \in Int
  BY DEF IInv, TypeOK, TurnRecord
<1>2. turn[u].number <= turn[k].number /\ turn[k].number <= turn[u].number
  BY DEF IInv, PendingIsLast
<1>3. turn[u].number = turn[k].number
  BY <1>1, <1>2
<1> QED
  BY <1>3 DEF IInv, NumbersUnique, TurnRow

\* A committed turn asks the question of its key.
LEMMA InsertAsks ==
  ASSUME IInv, NEW c \in Clients, InsertTurn(c)
  PROVE  \E k \in Keys, b \in Bodies : Log!Ask(k, b)
<1> DEFINE k == Key(c)
           b == asker[c].body
<1>t. turn \in [Keys -> TurnRecord]
  BY DEF IInv, TypeOK
<1>1. k \in Keys /\ b \in Bodies
  BY DEF InsertTurn, IInv, AskersOwnTurns, Engaged, At, Key
<1>2. /\ UNCHANGED <<conversation, citation, source>>
      /\ conversation = "open"
      /\ turn[k] = NoTurn
      /\ \A u \in Keys : turn[u].status # "pending"
  BY <1>1 DEF InsertTurn, Insertable, IInv, RowsWellFormed
<1>3. /\ turn'[k].status = "pending" /\ turn'[k].body = b
      /\ \A u \in Keys : u # k => turn'[u] = turn[u]
  BY <1>t, <1>1 DEF InsertTurn
<1>4. Listed' = Listed
  <2>1. VisibleTurns' = VisibleTurns /\ k \notin VisibleTurns
    BY <1>2, <1>3 DEF VisibleTurns, Visible, NoTurn
  <2> QED
    BY <1>3, <2>1, ListedKept DEF VisibleTurns
<1>5. [u \in Keys |-> turn'[u].body] = [[u \in Keys |-> turn[u].body] EXCEPT ![k] = b]
  BY <1>1, <1>3
<1>6. /\ {u \in Keys : turn[u].status = "pending"} = {}
      /\ {u \in Keys : turn'[u].status = "pending"} = {k}
  BY <1>1, <1>2, <1>3
<1>7. turn[k].body = None
  BY <1>2 DEF NoTurn
<1>8. PICK q \in Keys, r \in Bodies : q = k /\ r = b
  BY <1>1
<1>9. Log!Ask(q, r)
  BY <1>1, <1>2, <1>4, <1>5, <1>6, <1>7, <1>8 DEF Log!Ask
<1> QED
  BY <1>9

\* The transaction of an answer shows it after all others.
LEMMA CompletionAnswers ==
  ASSUME IInv, RowsFinite, [Next]_vars, NEW c \in Clients, NEW cites \in SUBSET Sources,
         Completes(c, cites)
  PROVE  \E k \in Keys : Log!Answer(k, cites)
<1> DEFINE k == Key(c)
<1>t. /\ turn \in [Keys -> TurnRecord]
      /\ citation \in [Keys -> [Sources -> {"none", "available", "deleted"}]]
  BY DEF IInv, TypeOK
<1>1. k \in Keys /\ turn[k].status = "pending"
  BY DEF Completes, IInv, AskersOwnTurns, OneAnswerInProgress, Working, WorkStep, Engaged, Key,
     TurnRow
<1>2. /\ turn'[k].status = "completed" /\ turn'[k].body = turn[k].body
      /\ turn'[k].number = turn[k].number
      /\ \A u \in Keys : u # k => turn'[u] = turn[u]
  BY <1>t, <1>1 DEF Completes, Settled
<1>3. /\ \A s \in Sources : citation'[k][s] = IF s \in cites THEN "available" ELSE "none"
      /\ \A u \in Keys : u # k => citation'[u] = citation[u]
  BY <1>t, <1>1 DEF Completes, CitationRows
<1>4. conversation = "open" /\ conversation' = "open" /\ source' = source
      /\ \A s \in cites : source[s] # "purged"
  BY DEF Completes
<1>5. \A u \in Keys : turn[u].number \in Int
  BY <1>t DEF TurnRecord
<1>6. \A u \in Keys : turn[u].status = "pending" => u = k
  BY <1>1, OnePending
<1>7. /\ {u \in Keys : turn[u].status = "pending"} = {k}
      /\ {u \in Keys : turn'[u].status = "pending"} = {}
  BY <1>1, <1>2, <1>6
<1>8. Listed' = Append(Listed, k)
  <2>1. k \notin VisibleTurns /\ VisibleTurns' = VisibleTurns \cup {k}
    BY <1>1, <1>2 DEF VisibleTurns, Visible
  <2>2. /\ Numbering \in [VisibleTurns -> Int] /\ IsSortedList(Listed, VisibleTurns, Numbering)
        /\ Numbering' \in [VisibleTurns' -> Int]
        /\ IsSortedList(Listed', VisibleTurns', Numbering')
    BY ListedSorted, ListedStaysSorted DEF ListedInOrder
  <2>3. ASSUME NEW v \in VisibleTurns
        PROVE Numbering'[v] = Numbering[v] /\ Numbering[v] < Numbering'[k]
    <3>1. v \in Keys /\ v # k /\ TurnRow(v) /\ TurnRow(k)
      BY <1>1, <2>1, <2>3 DEF VisibleTurns, Visible, TurnRow
    <3>2. turn[v].number <= turn[k].number /\ turn[v].number # turn[k].number
      BY <1>1, <3>1 DEF IInv, PendingIsLast, NumbersUnique
    <3>3. turn[v].number < turn[k].number
      BY <1>1, <1>5, <3>1, <3>2
    <3>4. /\ Numbering[v] = turn[v].number /\ Numbering'[v] = turn[v].number
          /\ Numbering'[k] = turn[k].number
      BY <1>2, <2>1, <2>3, <3>1 DEF Numbering
    <3> QED
      BY <3>3, <3>4
  <2> DEFINE V == VisibleTurns
             W == VisibleTurns'
             before == Numbering
             after == Numbering'
             list == Listed
             next == Listed'
  <2>4. /\ k \notin V /\ W = V \cup {k} /\ before \in [V -> Int] /\ after \in [W -> Int]
        /\ IsSortedList(list, V, before) /\ IsSortedList(next, W, after)
        /\ \A v \in V : after[v] = before[v] /\ before[v] < after[k]
    BY <2>1, <2>2, <2>3
  <2> HIDE DEF k, V, W, before, after, list, next
  <2>5. IsSortedList(Append(list, k), W, after)
    BY <2>4, AppendSorts
  <2>6. next = Append(list, k)
    BY <2>4, <2>5, SortedOnce
  <2> QED
    BY <2>6 DEF list, next
<1>9. [u \in Keys |-> turn'[u].body] = [u \in Keys |-> turn[u].body]
  BY <1>2
<1>10. [u \in Keys |-> {s \in Sources : citation'[u][s] = "available"}]
         = [[u \in Keys |-> {s \in Sources : citation[u][s] = "available"}] EXCEPT ![k] = cites]
  <2>1. {s \in Sources : citation'[k][s] = "available"} = cites
    BY <1>3
  <2> QED
    BY <1>1, <1>3, <2>1
<1>11. cites \cap {s \in Sources : source[s] = "purged"} = {}
  BY <1>4
<1>12. PICK q \in Keys : q = k
  BY <1>1
<1>13. Log!Answer(q, cites)
  BY <1>1, <1>4, <1>7, <1>8, <1>9, <1>10, <1>11, <1>12 DEF Log!Answer
<1> QED
  BY <1>13

\* The failure mark gives a question up, or takes its answer off the list.
LEMMA MarkWithdraws ==
  ASSUME IInv, RowsFinite, [Next]_vars, NEW c \in Clients, MarkTurnFailed(c)
  PROVE  \/ Log!GiveUp
         \/ \E i \in DOMAIN Listed : Log!WithdrawAnswer(i)
         \/ UNCHANGED Log!vars
<1> DEFINE k == Key(c)
<1>t. turn \in [Keys -> TurnRecord]
  BY DEF IInv, TypeOK
<1>1. k \in Keys /\ UNCHANGED <<conversation, citation, source>>
  BY DEF MarkTurnFailed, IInv, AskersOwnTurns, Engaged, At
<1>2. CASE UNCHANGED turn
  <2>1. Listed' = Listed
    BY <1>2, ListedKept DEF VisibleTurns, Visible
  <2> QED
    BY <1>1, <1>2, <2>1 DEF Log!vars
<1>3. ASSUME turn' # turn PROVE
        /\ TurnRow(k) /\ turn'[k].status = "failed" /\ turn'[k].body = turn[k].body
        /\ \A u \in Keys : u # k => turn'[u] = turn[u]
  BY <1>t, <1>1, <1>3 DEF MarkTurnFailed, Failed, TurnRecord
<1>4. CASE turn' # turn
  <2>1. [u \in Keys |-> turn'[u].body] = [u \in Keys |-> turn[u].body]
    BY <1>3, <1>4
  <2>2. CASE ~Visible(k)
    <3>1. VisibleTurns' = VisibleTurns /\ k \notin VisibleTurns
      BY <1>3, <1>4, <2>2 DEF VisibleTurns, Visible
    <3>2. Listed' = Listed
      BY <1>3, <1>4, <3>1, ListedKept DEF VisibleTurns
    <3>3. CASE turn[k].status = "pending"
      <4>1. \A u \in Keys : turn[u].status = "pending" => u = k
        BY <1>1, <3>3, OnePending
      <4>2. /\ {u \in Keys : turn[u].status = "pending"} = {k}
            /\ {u \in Keys : turn'[u].status = "pending"} = {}
        BY <1>1, <1>3, <1>4, <3>3, <4>1
      <4> QED
        BY <1>1, <2>1, <3>2, <4>2 DEF Log!GiveUp
    <3>4. CASE turn[k].status # "pending"
      <4>1. {u \in Keys : turn'[u].status = "pending"} = {u \in Keys : turn[u].status = "pending"}
        BY <1>3, <1>4, <3>4
      <4> QED
        BY <1>1, <2>1, <3>2, <4>1 DEF Log!vars
    <3> QED
      BY <3>3, <3>4
  <2>3. CASE Visible(k)
    <3>1. k \in VisibleTurns /\ VisibleTurns' = VisibleTurns \ {k}
      BY <1>1, <1>3, <1>4, <2>3 DEF VisibleTurns, Visible
    <3>2. /\ Numbering \in [VisibleTurns -> Int] /\ IsSortedList(Listed, VisibleTurns, Numbering)
          /\ Numbering' \in [VisibleTurns' -> Int]
          /\ IsSortedList(Listed', VisibleTurns', Numbering')
      BY ListedSorted, ListedStaysSorted DEF ListedInOrder
    <3>3. \A v \in VisibleTurns \ {k} : Numbering'[v] = Numbering[v]
      BY <1>3, <1>4, <3>1 DEF Numbering, VisibleTurns
    <3> DEFINE V == VisibleTurns
               W == VisibleTurns'
               before == Numbering
               after == Numbering'
               list == Listed
               next == Listed'
    <3>4. /\ k \in V /\ W = V \ {k} /\ before \in [V -> Int] /\ after \in [W -> Int]
          /\ IsSortedList(list, V, before) /\ IsSortedList(next, W, after)
          /\ \A v \in V \ {k} : after[v] = before[v]
      BY <3>1, <3>2, <3>3
    <3> HIDE DEF k, V, W, before, after, list, next
    <3>5. PICK i \in 1 .. Len(list) : list[i] = k
      BY <3>4 DEF IsSortedList
    <3>6. IsSortedList(RemoveAt(list, i), W, after)
      BY <3>4, <3>5, RemoveSorts
    <3>7. next = RemoveAt(list, i)
      BY <3>4, <3>6, SortedOnce
    <3>8. i \in DOMAIN list
      BY <3>4, LenProperties DEF IsSortedList
    <3>9. /\ Listed' = RemoveAt(Listed, i) /\ i \in DOMAIN Listed
      BY <3>7, <3>8 DEF list, next
    <3>10. {u \in Keys : turn'[u].status = "pending"} = {u \in Keys : turn[u].status = "pending"}
      BY <1>3, <1>4, <2>3 DEF Visible
    <3>11. Log!WithdrawAnswer(i)
      BY <1>1, <2>1, <3>9, <3>10 DEF Log!WithdrawAnswer, Log!RemoveAt, RemoveAt
    <3> QED
      BY <3>9, <3>11
  <2> QED
    BY <2>2, <2>3
<1> QED
  BY <1>2, <1>4

\* The DELETE takes the questions and the list; a purge takes the links to
\* its source.
LEMMA RemovalRemoves == ASSUME IInv, RemoveConversation PROVE Log!RemoveConversation
<1>1. /\ VisibleTurns' = {}
      /\ {u \in Keys : turn'[u].status = "pending"} = {}
      /\ [u \in Keys |-> turn'[u].body] = [u \in Keys |-> None]
  BY DEF RemoveConversation, VisibleTurns, Visible, NoTurn
<1>2. Listed' = <<>>
  <2> DEFINE order == By(VisibleTurns, Numbering)'
  <2>1. Listed' = InOrder({}, order)
    BY <1>1 DEF Listed
  <2> HIDE DEF order
  <2>2. InOrder({}, order) = <<>>
    BY FS_EmptySet DEF InOrder
  <2> QED
    BY <2>1, <2>2
<1>3. [u \in Keys |-> {s \in Sources : citation'[u][s] = "available"}] = [u \in Keys |-> {}]
  BY DEF RemoveConversation, NoCitations
<1> QED
  BY <1>1, <1>2, <1>3 DEF RemoveConversation, Log!RemoveConversation

LEMMA PurgeErases == ASSUME IInv, NEW s \in Sources, Purge(s) PROVE Log!Erase(s)
<1>1. /\ citation \in [Keys -> [Sources -> {"none", "available", "deleted"}]]
      /\ source \in [Sources -> SourceStatus]
  BY DEF IInv, TypeOK
<1>2. UNCHANGED <<conversation, turn>> /\ Listed' = Listed
  BY ListedKept DEF Purge, VisibleTurns, Visible
<1>3. /\ {r \in Sources : source'[r] = "purged"} = {r \in Sources : source[r] = "purged"} \cup {s}
      /\ s \notin {r \in Sources : source[r] = "purged"}
  BY <1>1 DEF Purge
<1>4. ASSUME NEW k \in Keys
      PROVE {r \in Sources : citation'[k][r] = "available"} =
            {r \in Sources : citation[k][r] = "available"} \ {s}
  BY <1>1 DEF Purge, Redacted
<1>5. [k \in Keys |-> {r \in Sources : citation'[k][r] = "available"}] =
      [k \in Keys |-> [u \in Keys |-> {r \in Sources : citation[u][r] = "available"}][k] \ {s}]
  BY <1>4
<1> QED
  BY <1>2, <1>3, <1>5 DEF Log!Erase

\* Whoever reads does not see the rest.
LEMMA QuietStutters == ASSUME Quiet PROVE UNCHANGED Log!vars
<1>1. Listed' = Listed
  BY ListedKept DEF Quiet, VisibleTurns, Visible
<1> QED
  BY <1>1 DEF Quiet, Log!vars

(* For those who ask and read, the conversation is a log: any number of    *)
(* concurrent requests, faults, deletions and purges take only its steps.  *)
THEOREM ConversationIsALog == Spec => ImplementsConversationLog
<1>1. Init => Log!Init /\ RowsFinite
  <2> SUFFICES ASSUME Init PROVE Log!Init /\ RowsFinite
    OBVIOUS
  <2>1. VisibleTurns = {} /\ Rows = {}
    BY DEF Init, VisibleTurns, Visible, Rows, TurnRow, NoTurn
  <2>2. Listed = <<>>
    <3> DEFINE order == By(VisibleTurns, Numbering)
    <3>1. Listed = InOrder({}, order)
      BY <2>1 DEF Listed
    <3> HIDE DEF order
    <3>2. InOrder({}, order) = <<>>
      BY FS_EmptySet DEF InOrder
    <3> QED
      BY <3>1, <3>2
  <2>3. [k \in Keys |-> turn[k].body] = [k \in Keys |-> None]
    BY DEF Init, NoTurn
  <2>4. {k \in Keys : turn[k].status = "pending"} = {}
    BY DEF Init, NoTurn
  <2>5. [k \in Keys |-> {s \in Sources : citation[k][s] = "available"}] = [k \in Keys |-> {}]
    BY DEF Init, NoCitations
  <2>6. {s \in Sources : source[s] = "purged"} = {} /\ conversation # "removed"
    BY DEF Init
  <2>7. RowsFinite
    BY <2>1, FS_EmptySet DEF RowsFinite
  <2> QED
    BY <2>2, <2>3, <2>4, <2>5, <2>6, <2>7 DEF Log!Init
<1>2. IInv /\ RowsFinite /\ [Next]_vars => [Log!Next]_(Log!vars)
  <2> SUFFICES ASSUME IInv, RowsFinite, [Next]_vars PROVE [Log!Next]_(Log!vars)
    OBVIOUS
  <2>1. ASSUME NEW c \in Clients, InsertTurn(c) PROVE Log!Next
    <3>1. \E k \in Keys, b \in Bodies : Log!Ask(k, b)
      BY <2>1, InsertAsks
    <3> QED
      BY <3>1 DEF Log!Next
  <2>2. ASSUME NEW c \in Clients, NEW cites \in SUBSET Sources, Completes(c, cites)
        PROVE Log!Next
    <3>1. \E k \in Keys, r \in SUBSET Sources : Log!Answer(k, r)
      BY <2>2, CompletionAnswers
    <3> QED
      BY <3>1 DEF Log!Next
  <2>3. ASSUME NEW c \in Clients, MarkTurnFailed(c) PROVE [Log!Next]_(Log!vars)
    BY <2>3, MarkWithdraws DEF Log!Next
  <2>4. CASE RemoveConversation
    BY <2>4, RemovalRemoves DEF Log!Next
  <2>5. ASSUME NEW s \in Sources, Purge(s) PROVE Log!Next
    BY <2>5, PurgeErases DEF Log!Next
  <2>6. CASE Quiet
    BY <2>6, QuietStutters
  <2> QED
    BY <2>1, <2>2, <2>3, <2>4, <2>5, <2>6, StepKinds
<1>3. IInv /\ RowsFinite /\ [Next]_vars => RowsFinite'
  BY RowsFiniteNext
<1> QED
  BY <1>1, <1>2, <1>3, ConversationInvariant, PTL
     DEF Spec, ImplementsConversationLog, Log!Spec
=================================================================================
