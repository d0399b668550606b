--------------------------- MODULE BrowserSessionProofs ---------------------------
(***************************************************************************)
(* What the key cache and the session cookie keep, proved for any number   *)
(* of concurrent requests, signing keys and token pairs.                   *)
(***************************************************************************)
EXTENDS BrowserSession, SequenceTheorems, TLAPS

--------------------------------------------------------------------------------
(* The inductive invariant, part by part.                                   *)

\* Keys: what a call fetched holds its key, if that was published all the time.
KeyInv ==
    \A c \in Calls :
        /\ calls[c].op # "idle" /\ calls[c].steady => calls[c].kid \in published
        /\ calls[c].op = "answered" /\ calls[c].steady => calls[c].kid \in calls[c].answer
        /\ calls[c].op = "done" /\ calls[c].verdict = "unknown_key" => ~calls[c].steady

Active(c) == pages[c].op # "idle"

\* The page has exchanged the pair it came with for another one.
Renewed(c) == Active(c) /\ pages[c].pair # pages[c].session

\* Tokens are numbered as they are issued, and what a page answers fits what it did.
Numbered ==
    /\ cookie \in 1..issued \cup {NoSession}
    /\ \A c \in Calls : Active(c) => pages[c].session \in 1..issued /\ pages[c].pair \in 1..issued
    /\ \A c \in Calls : Renewed(c) => pages[c].op \notin {"proxy", "role"} /\ ~pages[c].role
    /\ \A c \in Calls : pages[c].op = "pair" => Renewed(c)
    /\ \A c \in Calls : pages[c].op = "proxy" => ~pages[c].role

\* A spent cookie is about to be replaced by the page that spent it, or it is lost.
CookieIsReplaced ==
    cookie \in 1..issued \ spendable =>
        cookie \in lost \/ \E c \in Calls : Renewed(c) /\ pages[c].session = cookie

\* A pair that was obtained by a page was not spent, and nobody else has it.
BroughtIsNew ==
    \A c \in Calls : Renewed(c) =>
        /\ pages[c].pair \in spendable /\ pages[c].pair # cookie
        /\ \A d \in Calls \ {c} : Active(d) =>
              pages[d].pair # pages[c].pair /\ pages[d].session # pages[c].pair

\* Nothing else is in progress beside a request that has the session for itself.
AloneIsAlone ==
    \A c \in Calls : Active(c) /\ pages[c].alone =>
        /\ \A d \in Calls \ {c} : ~Active(d)
        /\ ~Renewed(c) => pages[c].session \in spendable \cup lost

SessionInv == Numbered /\ CookieIsReplaced /\ BroughtIsNew /\ AloneIsAlone /\ AloneStaysSignedIn

--------------------------------------------------------------------------------
(* The keys.                                                                *)
LEMMA CallFields ==
  ASSUME NEW x \in Call
  PROVE  /\ x.op \in {"idle", "lock", "fetch", "answered", "done"}
         /\ x.op = "idle" <=> x = NoCall
         /\ x.op # "idle" => x.kid \in Kids /\ x.steady \in BOOLEAN
         /\ x.op = "lock" => x = [op |-> "lock", kid |-> x.kid, steady |-> x.steady, fetches |-> 0]
         /\ x.op = "fetch" => x = [op |-> "fetch", kid |-> x.kid, steady |-> x.steady, fetches |-> 1]
         /\ x.op = "answered" => /\ x.answer \in SUBSET Kids
                                 /\ x = [op |-> "answered", kid |-> x.kid, steady |-> x.steady,
                                         fetches |-> 1, answer |-> x.answer]
         /\ x.op = "done" => /\ x.verdict \in Verdict
                             /\ x = [op |-> "done", kid |-> x.kid, steady |-> x.steady,
                                     verdict |-> x.verdict]
BY DEF Call, NoCall

\* What LookUp makes of a call that holds the lock.
LEMMA LookUpGoes ==
  ASSUME calls \in [Calls -> Call], NEW c \in Calls, calls[c].op # "idle",
         NEW known \in SUBSET Kids, NEW fetches \in {0, 1}, LookUp(c, known, fetches)
  PROVE  /\ calls' \in [Calls -> Call]
         /\ \A d \in Calls : d # c => calls'[d] = calls[d]
         /\ calls'[c].kid = calls[c].kid /\ calls'[c].steady = calls[c].steady
         /\ \/ /\ calls'[c].op = "done" /\ queue' = Tail(queue)
               /\ \/ calls'[c].verdict = "key_found" /\ calls[c].kid \in known
                  \/ /\ calls'[c].verdict = "unknown_key" /\ calls[c].kid \notin known
                     /\ fetches = 1
            \/ calls'[c].op = "fetch" /\ queue' = queue
<1>1. calls[c].kid \in Kids /\ calls[c].steady \in BOOLEAN
  BY CallFields
<1>2. /\ Judged(c, "key_found") \in Call /\ Judged(c, "unknown_key") \in Call
      /\ Fetch(c, 1) \in Call
  BY <1>1 DEF Judged, Fetch, Call, Verdict
<1> QED
  BY <1>2 DEF LookUp, MayRefresh, Set, Judged, Fetch

\* The queue after the first call has left it, or after another has joined it.
LEMMA QueueMoves ==
  ASSUME queue \in Seq(Calls)
  PROVE  /\ queue # <<>> => Tail(queue) \in Seq(Calls)
         /\ \A c \in Calls : Append(queue, c) \in Seq(Calls) /\ Append(queue, c) # <<>>
         /\ \A c \in Calls : queue # <<>> => Head(Append(queue, c)) = Head(queue)
<1>1. queue # <<>> => Tail(queue) \in Seq(Calls)
  BY HeadTailProperties
<1>2. \A c \in Calls : Append(queue, c) \in Seq(Calls) /\ Append(queue, c) # <<>>
  BY AppendProperties
<1>3. \A c \in Calls : queue # <<>> => Head(Append(queue, c)) = Head(queue)
  BY HeadTailAppend
<1> QED
  BY <1>1, <1>2, <1>3

\* The first call of the queue may fetch, and one that leaves it fetches no more.
LEMMA QueueKeeps ==
  ASSUME KeyTypeOK, NEW c \in Calls, queue # <<>>, Head(queue) = c,
         calls' \in [Calls -> Call], \A d \in Calls : d # c => calls'[d] = calls[d],
         \/ queue' = queue
         \/ queue' = Tail(queue) /\ calls'[c].op = "done"
  PROVE  /\ queue' \in Seq(Calls)
         /\ \A d \in Calls : Fetching(d)' => queue' # <<>> /\ Head(queue') = d
<1>1. \A d \in Calls : d # c => ~Fetching(d)'
  BY DEF KeyTypeOK, Fetching
<1>2. queue \in Seq(Calls)
  BY DEF KeyTypeOK
<1>3. CASE queue' = queue
  BY <1>1, <1>2, <1>3
<1>4. CASE queue' = Tail(queue) /\ calls'[c].op = "done"
  BY <1>1, <1>2, <1>4, QueueMoves DEF Fetching
<1> QED
  BY <1>3, <1>4

\* A call that works under the lock keeps the types, and what it finds out
\* about its key is true.
LEMMA CallStepKeeps ==
  ASSUME KeyTypeOK, KeyInv, NEW c \in Calls, CallStep(c)
  PROVE  KeyTypeOK' /\ KeyInv'
<1> USE DEF KeyTypeOK, KeyInv
<1>1. CASE Acquire(c)
  <2>1. /\ queue # <<>> /\ Head(queue) = c /\ calls[c].op = "lock"
        /\ UNCHANGED <<published, keys, fresh>>
    BY <1>1 DEF Acquire
  <2>2. /\ calls' \in [Calls -> Call]
        /\ \A d \in Calls : d # c => calls'[d] = calls[d]
        /\ calls'[c].kid = calls[c].kid /\ calls'[c].steady = calls[c].steady
        /\ \/ queue' = Tail(queue) /\ calls'[c].op = "done" /\ calls'[c].verdict = "key_found"
           \/ queue' = queue /\ calls'[c].op = "fetch"
    <3>1. CASE fresh
      BY <1>1, <2>1, <3>1, LookUpGoes DEF Acquire
    <3>2. CASE ~fresh
      <4>1. calls[c].kid \in Kids /\ calls[c].steady \in BOOLEAN
        BY <2>1, CallFields
      <4>2. Fetch(c, 1) \in Call
        BY <4>1 DEF Fetch, Call
      <4> QED
        BY <1>1, <2>1, <3>2, <4>2 DEF Acquire, Set, Fetch
    <3> QED
      BY <3>1, <3>2
  <2>3. KeyTypeOK'
    BY <2>1, <2>2, QueueKeeps
  <2>4. KeyInv'
    BY <2>1, <2>2
  <2> QED
    BY <2>3, <2>4
<1>2. CASE ProviderAnswers(c)
  <2> DEFINE answered == [op |-> "answered", kid |-> calls[c].kid, steady |-> calls[c].steady,
                          fetches |-> calls[c].fetches, answer |-> published]
  <2>1. /\ calls[c].op = "fetch" /\ calls[c].fetches = 1
        /\ calls[c].kid \in Kids /\ calls[c].steady \in BOOLEAN
        /\ UNCHANGED <<published, keys, fresh, queue>>
    BY <1>2, CallFields DEF ProviderAnswers
  <2>2. answered \in Call
    BY <2>1 DEF Call
  <2>3. /\ calls' \in [Calls -> Call] /\ calls'[c] = answered
        /\ \A d \in Calls : d # c => calls'[d] = calls[d]
    BY <1>2, <2>2 DEF ProviderAnswers, Set
  <2>4. queue # <<>> /\ Head(queue) = c
    BY <2>1 DEF Fetching
  <2>5. KeyTypeOK'
    BY <2>1, <2>3, <2>4, QueueKeeps
  <2>6. KeyInv'
    BY <2>1, <2>3
  <2> QED
    BY <2>5, <2>6
<1>3. CASE Install(c)
  <2>1. /\ calls[c].op = "answered" /\ calls[c].answer \in SUBSET Kids /\ calls[c].fetches = 1
        /\ keys' = calls[c].answer /\ fresh' = TRUE /\ published' = published
        /\ LookUp(c, calls[c].answer, 1)
    BY <1>3, CallFields DEF Install
  <2>2. queue # <<>> /\ Head(queue) = c
    BY <2>1 DEF Fetching
  <2>3. /\ calls' \in [Calls -> Call]
        /\ \A d \in Calls : d # c => calls'[d] = calls[d]
        /\ calls'[c].kid = calls[c].kid /\ calls'[c].steady = calls[c].steady
        /\ \/ /\ calls'[c].op = "done" /\ queue' = Tail(queue)
              /\ calls'[c].verdict = "unknown_key" => calls[c].kid \notin calls[c].answer
           \/ queue' = queue /\ calls'[c].op = "fetch"
    BY <2>1, LookUpGoes
  <2>4. KeyTypeOK'
    BY <2>1, <2>2, <2>3, QueueKeeps
  <2>5. KeyInv'
    BY <2>1, <2>3
  <2> QED
    BY <2>4, <2>5
<1>4. CASE RefreshFails(c)
  <2>1. /\ calls[c].op \in {"fetch", "answered"}
        /\ calls[c].kid \in Kids /\ calls[c].steady \in BOOLEAN
        /\ queue' = Tail(queue) /\ UNCHANGED <<published, keys, fresh>>
    BY <1>4, CallFields DEF RefreshFails, Fetching
  <2>2. Judged(c, "unavailable") \in Call
    BY <2>1 DEF Judged, Call, Verdict
  <2>3. /\ calls' \in [Calls -> Call] /\ calls'[c] = Judged(c, "unavailable")
        /\ \A d \in Calls : d # c => calls'[d] = calls[d]
    BY <1>4, <2>2 DEF RefreshFails, FailedVerdict, Set
  <2>4. /\ calls'[c].op = "done" /\ calls'[c].verdict = "unavailable"
        /\ calls'[c].kid = calls[c].kid /\ calls'[c].steady = calls[c].steady
    BY <2>3 DEF Judged
  <2>5. queue # <<>> /\ Head(queue) = c
    BY <2>1 DEF Fetching
  <2>6. KeyTypeOK'
    BY <2>1, <2>3, <2>4, <2>5, QueueKeeps
  <2>7. KeyInv'
    BY <2>1, <2>3, <2>4
  <2> QED
    BY <2>6, <2>7
<1> QED
  BY <1>1, <1>2, <1>3, <1>4 DEF CallStep

\* A key that is withdrawn is no longer steady for the calls that need it.
LEMMA KeyStepKeeps ==
  ASSUME KeyTypeOK, KeyInv, KeyStep
  PROVE  KeyTypeOK' /\ KeyInv'
<1> USE DEF KeyTypeOK, KeyInv
<1>1. CASE CacheExpires
  BY <1>1 DEF CacheExpires, Fetching
<1>2. CASE \E k \in Kids : PublishKey(k)
  BY <1>2 DEF PublishKey, Fetching
<1>3. CASE \E k \in Kids : WithdrawKey(k)
  <2>1. PICK k \in Kids : WithdrawKey(k)
    BY <1>3
  <2>2. ASSUME NEW c \in Calls
        PROVE  /\ calls'[c] \in Call /\ calls'[c].op = calls[c].op
               /\ calls[c].op # "idle" => /\ calls'[c].kid = calls[c].kid
                                          /\ calls'[c].steady <=> calls[c].steady /\ calls[c].kid # k
               /\ calls[c].op = "answered" => calls'[c].answer = calls[c].answer
               /\ calls[c].op = "done" => calls'[c].verdict = calls[c].verdict
    <3>1. calls[c] \in Call
      OBVIOUS
    <3>2. calls'[c] = IF calls[c].op # "idle" /\ calls[c].kid = k
                      THEN [calls[c] EXCEPT !.steady = FALSE] ELSE calls[c]
      BY <2>1, <3>1, CallFields DEF WithdrawKey
    <3>3. CASE ~(calls[c].op # "idle" /\ calls[c].kid = k)
      BY <3>1, <3>2, <3>3, CallFields
    <3>4. CASE calls[c].op # "idle" /\ calls[c].kid = k
      <4>1. calls'[c] = [calls[c] EXCEPT !.steady = FALSE]
        BY <3>2, <3>4
      <4>2. calls'[c] \in Call
        BY <3>1, <3>4, <4>1, CallFields DEF Call
      <4> QED
        BY <3>1, <3>4, <4>1, <4>2, CallFields
    <3> QED
      BY <3>3, <3>4
  <2>3. /\ UNCHANGED <<keys, fresh, queue>> /\ published' = published \ {k}
        /\ calls' = [c \in Calls |-> calls'[c]]
    BY <2>1 DEF WithdrawKey
  <2>4. KeyTypeOK'
    BY <2>2, <2>3 DEF Fetching
  <2>5. KeyInv'
    BY <2>2, <2>3
  <2> QED
    BY <2>4, <2>5
<1> QED
  BY <1>1, <1>2, <1>3 DEF KeyStep

\* A call comes in, and is gone again when the API has answered.
LEMMA CallComesAndGoes ==
  ASSUME KeyTypeOK, KeyInv, NEW c \in Calls,
         \/ \E kid \in Kids : BeginCall(c, kid)
         \/ calls[c].op = "done" /\ Set(c, NoCall) /\ UNCHANGED <<published, keys, fresh, queue>>
  PROVE  KeyTypeOK' /\ KeyInv'
<1> USE DEF KeyTypeOK, KeyInv
<1>1. CASE calls[c].op = "done" /\ Set(c, NoCall) /\ UNCHANGED <<published, keys, fresh, queue>>
  <2>1. /\ calls' \in [Calls -> Call] /\ calls'[c].op = "idle"
        /\ \A d \in Calls : d # c => calls'[d] = calls[d]
    BY <1>1 DEF Set, Call, NoCall
  <2> QED
    BY <1>1, <2>1 DEF Fetching
<1>2. CASE \E kid \in Kids : BeginCall(c, kid)
  <2>1. PICK kid \in Kids : BeginCall(c, kid)
    BY <1>2
  <2> DEFINE steady == kid \in published
             found == [op |-> "done", kid |-> kid, steady |-> steady, verdict |-> "key_found"]
             waits == [op |-> "lock", kid |-> kid, steady |-> steady, fetches |-> 0]
  <2>2. found \in Call /\ waits \in Call
    BY DEF Call, Verdict
  <2>3. UNCHANGED <<published, keys, fresh>>
    BY <2>1 DEF BeginCall
  <2>4. \/ Set(c, found) /\ queue' = queue
        \/ Set(c, waits) /\ queue' = Append(queue, c)
    BY <2>1 DEF BeginCall
  <2>5. /\ calls' \in [Calls -> Call] /\ calls'[c] \in {found, waits}
        /\ \A d \in Calls : d # c => calls'[d] = calls[d]
    BY <2>2, <2>4 DEF Set
  <2>6. ~Fetching(c)'
    BY <2>5 DEF Fetching
  <2>7. /\ queue' \in Seq(Calls)
        /\ \A d \in Calls : Fetching(d)' => queue' # <<>> /\ Head(queue') = d
    BY <2>4, <2>5, <2>6, QueueMoves DEF Fetching
  <2>8. KeyTypeOK'
    BY <2>3, <2>5, <2>7
  <2>9. /\ calls'[c].op \in {"done", "lock"} /\ calls'[c].kid = kid
        /\ calls'[c].steady => kid \in published
        /\ calls'[c].op = "done" => calls'[c].verdict = "key_found"
    <3>1. found.steady = steady /\ waits.steady = steady
      OBVIOUS
    <3>2. /\ found.op = "done" /\ found.kid = kid /\ found.verdict = "key_found"
          /\ waits.op = "lock" /\ waits.kid = kid
      OBVIOUS
    <3>3. calls'[c].steady = steady
      BY <2>5, <3>1, Zenon
    <3> HIDE DEF found, waits
    <3>4. calls'[c].steady => kid \in published
      BY <3>3, Zenon
    <3>5. /\ calls'[c].op \in {"done", "lock"} /\ calls'[c].kid = kid
          /\ calls'[c].op = "done" => calls'[c].verdict = "key_found"
      BY <2>5, <3>2
    <3> QED
      BY <3>4, <3>5, Zenon
  <2>10. KeyInv'
    BY <2>3, <2>5, <2>9
  <2> QED
    BY <2>8, <2>10
<1> QED
  BY <1>1, <1>2

--------------------------------------------------------------------------------
(* The session.                                                             *)
SessionTypes ==
    /\ cookie \in 1..MaxTokens \cup {NoSession}
    /\ issued \in 0..MaxTokens
    /\ spendable \subseteq 1..issued /\ due \subseteq 1..issued /\ lost \subseteq 1..issued
    /\ signedBy \in Seq(Kids) /\ Len(signedBy) = issued
    /\ pages \in [Calls -> Page]

SessionIInv == SessionTypes /\ SessionInv

\* A page, field by field.
LEMMA PageFields ==
  ASSUME NEW x \in Page
  PROVE  /\ x.op \in {"idle", "proxy", "call", "api"} \cup Answer
         /\ x.op = "idle" <=> x = NoPage
         /\ x.op # "idle" =>
              /\ x.session \in 1..MaxTokens /\ x.pair \in 1..MaxTokens
              /\ x.role \in BOOLEAN /\ x.alone \in BOOLEAN
              /\ x = [op |-> x.op, session |-> x.session, pair |-> x.pair, role |-> x.role,
                      alone |-> x.alone]
BY DEF Page, NoPage, Answer

\* One page moves on, the others stay.
LEMMA PageTurns ==
  ASSUME pages \in [Calls -> Page], NEW c \in Calls, NEW page \in Page, Turns(c, page)
  PROVE  /\ pages' \in [Calls -> Page] /\ pages'[c] = page
         /\ \A d \in Calls : d # c => pages'[d] = pages[d]
BY DEF Turns

\* The same with another stage of the page.
LEMMA PageGoes ==
  ASSUME pages \in [Calls -> Page], NEW c \in Calls, Active(c),
         NEW op \in {"call", "api"} \cup Answer, Goes(c, op)
  PROVE  /\ pages' \in [Calls -> Page]
         /\ pages'[c].op = op /\ pages'[c].session = pages[c].session
         /\ pages'[c].pair = pages[c].pair /\ pages'[c].role = pages[c].role
         /\ pages'[c].alone = pages[c].alone
         /\ \A d \in Calls : d # c => pages'[d] = pages[d]
<1> DEFINE page == [pages[c] EXCEPT !.op = op]
<1>1. /\ page \in Page /\ page.op = op /\ page.session = pages[c].session
      /\ page.pair = pages[c].pair /\ page.role = pages[c].role /\ page.alone = pages[c].alone
  BY PageFields DEF Page, Active
<1>2. Turns(c, page)
  BY DEF Goes
<1> HIDE DEF page
<1> QED
  BY <1>1, <1>2, PageTurns

\* The keys of the tokens, in the order the tokens are issued.
LEMMA IssueTypes ==
  ASSUME SessionTypes, NEW kid \in Kids, Issue(kid)
  PROVE  /\ issued < MaxTokens /\ issued' = issued + 1 /\ issued' \in 0..MaxTokens
         /\ signedBy' \in Seq(Kids) /\ Len(signedBy') = issued'
<1>1. issued' \in 0..MaxTokens
  BY SessionAssumption DEF Issue, SessionTypes
<1>2. Append(signedBy, kid) \in Seq(Kids) /\ Len(Append(signedBy, kid)) = Len(signedBy) + 1
  BY AppendProperties DEF SessionTypes
<1> QED
  BY <1>1, <1>2 DEF Issue, SessionTypes

\* A page goes on with the session it has, or has an answer for the browser; it
\* says that the pair was spent only when it was.
LEMMA GoesKeeps ==
  ASSUME SessionIInv, NEW c \in Calls, NEW op \in {"call", "api"} \cup Answer, Goes(c, op),
         Active(c),
         op = "pair" => Renewed(c),
         op = "role" => ~Renewed(c),
         op = "spent" => ~Renewed(c) /\ pages[c].session \notin spendable,
         UNCHANGED <<cookie, issued, spendable, due, signedBy, lost>>
  PROVE  SessionIInv'
<1> USE DEF SessionIInv, SessionInv
<1>1. /\ pages' \in [Calls -> Page]
      /\ pages'[c].op = op /\ pages'[c].session = pages[c].session
      /\ pages'[c].pair = pages[c].pair /\ pages'[c].role = pages[c].role
      /\ pages'[c].alone = pages[c].alone
      /\ \A d \in Calls : d # c => pages'[d] = pages[d]
  BY PageGoes DEF SessionTypes
<1>2. Active(c)' /\ op \notin {"idle", "proxy"}
  BY <1>1 DEF Active, Answer
<1>3. \A d \in Calls : /\ (Active(d)' <=> Active(d)) /\ (Renewed(d)' <=> Renewed(d))
                       /\ pages'[d].session = pages[d].session /\ pages'[d].pair = pages[d].pair
                       /\ pages'[d].role = pages[d].role /\ pages'[d].alone = pages[d].alone
  BY <1>1, <1>2 DEF Active, Renewed
<1>4. SessionTypes'
  BY <1>1 DEF SessionTypes
<1>5. Numbered'
  BY <1>1, <1>2, <1>3 DEF Numbered
<1>6. CookieIsReplaced' /\ BroughtIsNew' /\ AloneIsAlone'
  BY <1>3 DEF CookieIsReplaced, BroughtIsNew, AloneIsAlone
<1>7. AloneStaysSignedIn'
  BY <1>1, <1>3 DEF AloneStaysSignedIn, AloneIsAlone
<1> QED
  BY <1>4, <1>5, <1>6, <1>7

\* A page ends without a cookie: a pair it exchanged is lost.
LEMMA EndsKeeps ==
  ASSUME SessionIInv, NEW c \in Calls, Active(c), Turns(c, NoPage),
         lost' = lost \cup Exchanged(pages[c]),
         UNCHANGED <<cookie, issued, spendable, due, signedBy>>
  PROVE  SessionIInv'
<1> USE DEF SessionIInv, SessionInv
<1>1. /\ pages' \in [Calls -> Page] /\ pages'[c] = NoPage
      /\ \A d \in Calls : d # c => pages'[d] = pages[d]
  BY PageTurns DEF SessionTypes, Page
<1>2. /\ ~Active(c)' /\ ~Renewed(c)' /\ pages'[c].op = "idle"
      /\ \A d \in Calls \ {c} : /\ (Active(d)' <=> Active(d)) /\ (Renewed(d)' <=> Renewed(d))
                                /\ pages'[d] = pages[d]
  BY <1>1 DEF Active, Renewed, NoPage
<1>3. /\ lost \subseteq lost' /\ lost' \subseteq 1..issued
      /\ Renewed(c) => pages[c].session \in lost'
  BY DEF Exchanged, Renewed, Numbered, SessionTypes
<1>4. SessionTypes'
  BY <1>1, <1>3 DEF SessionTypes
<1>5. Numbered'
  BY <1>2 DEF Numbered
<1>6. CookieIsReplaced'
  BY <1>2, <1>3 DEF CookieIsReplaced
<1>7. BroughtIsNew' /\ AloneIsAlone' /\ AloneStaysSignedIn'
  BY <1>2, <1>3 DEF BroughtIsNew, AloneIsAlone, AloneStaysSignedIn
<1> QED
  BY <1>4, <1>5, <1>6, <1>7

\* The refresh spends the pair of the page and gives it a new one to bring.
LEMMA RefreshKeeps ==
  ASSUME SessionIInv, NEW c \in Calls, NEW kid \in Kids, Refresh(c, kid)
  PROVE  SessionIInv'
<1> USE DEF SessionIInv, SessionInv
<1> DEFINE old == pages[c].session
           new == issued + 1
           page == [pages[c] EXCEPT !.op = "call", !.pair = new]
<1>1. /\ pages[c].op = "proxy" /\ old \in spendable
      /\ spendable' = (spendable \ {old}) \cup {new}
      /\ Turns(c, page) /\ UNCHANGED <<cookie, due, lost>>
  BY DEF Refresh
<1>2. /\ issued \in Nat /\ issued < MaxTokens /\ issued' = new /\ issued' \in 0..MaxTokens
      /\ signedBy' \in Seq(Kids) /\ Len(signedBy') = issued'
      /\ MaxTokens \in Nat
  BY IssueTypes, SessionAssumption DEF Refresh, SessionTypes
<1>3. /\ Active(c) /\ ~Renewed(c) /\ old \in 1..issued /\ old \in 1..MaxTokens /\ pages[c].pair = old
      /\ pages[c].role \in BOOLEAN /\ pages[c].alone \in BOOLEAN
      /\ pages[c] = [op |-> "proxy", session |-> old, pair |-> old, role |-> pages[c].role,
                     alone |-> pages[c].alone]
  BY <1>1, PageFields DEF SessionTypes, Numbered, Active, Renewed
<1>4. new \in 1..MaxTokens
  BY <1>2
<1>5. new \notin 1..issued /\ new # NoSession /\ 1..issued \subseteq 1..new /\ new \in 1..new
  BY <1>2, SessionAssumption
<1> HIDE DEF new
<1>6. /\ page \in Page /\ page.op = "call" /\ page.session = old
      /\ page.pair = new /\ page.role = pages[c].role /\ page.alone = pages[c].alone
  BY <1>3, <1>4, SessionAssumption DEF Page, SessionTypes
<1> HIDE DEF page
<1>7. /\ pages' \in [Calls -> Page] /\ pages'[c] = page
      /\ \A d \in Calls : d # c => pages'[d] = pages[d]
  BY <1>1, <1>6, PageTurns DEF SessionTypes, page
<1>8. /\ Active(c)' /\ Renewed(c)'
      /\ \A d \in Calls \ {c} : /\ (Active(d)' <=> Active(d)) /\ (Renewed(d)' <=> Renewed(d))
                                /\ pages'[d] = pages[d]
  BY <1>3, <1>5, <1>6, <1>7 DEF Active, Renewed
<1>9. SessionTypes'
  BY <1>1, <1>2, <1>3, <1>5, <1>7 DEF SessionTypes
<1>10. Numbered'
  <2>1. ~pages[c].role
    BY <1>1 DEF Numbered
  <2> QED
    BY <1>1, <1>2, <1>3, <1>5, <1>6, <1>7, <1>8, <2>1 DEF Numbered
<1>11. CookieIsReplaced'
  <2> SUFFICES ASSUME cookie \in 1..new, cookie \notin spendable'
               PROVE  cookie \in lost \/ \E d \in Calls : Renewed(d)' /\ pages'[d].session = cookie
    BY <1>1, <1>2 DEF CookieIsReplaced
  <2>1. CASE cookie = old
    BY <1>6, <1>7, <1>8, <2>1
  <2>2. CASE cookie # old
    <3>1. cookie # NoSession
      BY <1>2, <1>4, SessionAssumption DEF new
    <3>2. cookie \in 1..issued
      BY <3>1 DEF Numbered
    <3>3. cookie \notin spendable
      BY <1>1, <2>2
    <3> QED
      BY <1>3, <1>8, <3>2, <3>3 DEF CookieIsReplaced
  <2> QED
    BY <2>1, <2>2
<1>12. BroughtIsNew'
  <2> SUFFICES ASSUME NEW d \in Calls, Renewed(d)'
               PROVE  /\ pages'[d].pair \in spendable' /\ pages'[d].pair # cookie'
                      /\ \A e \in Calls \ {d} : Active(e)' =>
                            pages'[e].pair # pages'[d].pair /\ pages'[e].session # pages'[d].pair
    BY DEF BroughtIsNew
  <2>1. CASE d = c
    <3>1. new # cookie
      BY <1>5 DEF Numbered
    <3>2. \A e \in Calls \ {c} : Active(e) => pages[e].pair # new /\ pages[e].session # new
      BY <1>5 DEF Numbered
    <3> QED
      BY <1>1, <1>6, <1>7, <1>8, <2>1, <3>1, <3>2
  <2>2. CASE d # c
    <3>1. Active(d) /\ Renewed(d) /\ pages'[d] = pages[d]
      BY <1>8, <2>2 DEF Renewed
    <3>2. /\ pages[d].pair \in spendable /\ pages[d].pair # cookie
          /\ pages[d].pair # old /\ pages[d].pair # new
          /\ \A e \in Calls \ {d} : Active(e) =>
                pages[e].pair # pages[d].pair /\ pages[e].session # pages[d].pair
      BY <1>3, <1>5, <2>2, <3>1 DEF BroughtIsNew, SessionTypes
    <3> QED
      BY <1>1, <1>6, <1>7, <1>8, <2>2, <3>1, <3>2
  <2> QED
    BY <2>1, <2>2
<1>13. AloneIsAlone'
  <2> SUFFICES ASSUME NEW d \in Calls, Active(d)', pages'[d].alone
               PROVE  /\ \A e \in Calls \ {d} : ~Active(e)'
                      /\ ~Renewed(d)' => pages'[d].session \in spendable' \cup lost'
    BY DEF AloneIsAlone
  <2>1. CASE d = c
    BY <1>3, <1>6, <1>7, <1>8, <2>1 DEF AloneIsAlone
  <2>2. CASE d # c
    BY <1>3, <1>8, <2>2 DEF AloneIsAlone
  <2> QED
    BY <2>1, <2>2
<1>14. AloneStaysSignedIn'
  BY <1>1, <1>6, <1>7 DEF AloneStaysSignedIn
<1> QED
  BY <1>9, <1>10, <1>11, <1>12, <1>13, <1>14

\* A request takes a copy of the cookie with it; the others have company now.
LEMMA SendKeeps ==
  ASSUME SessionIInv, NEW c \in Calls, NEW op \in {"proxy", "call"}, NEW role \in BOOLEAN,
         Send(c, op, role), op = "proxy" => ~role
  PROVE  SessionIInv'
<1> USE DEF SessionIInv, SessionInv
<1>1. /\ cookie # NoSession /\ pages[c] = NoPage /\ cookie \in 1..issued /\ cookie \in 1..MaxTokens
      /\ UNCHANGED <<cookie, issued, spendable, due, signedBy, lost>>
  BY DEF Send, Numbered, SessionTypes
<1> DEFINE alone == \A e \in Calls : pages[e] = NoPage
<1>2. PICK first \in BOOLEAN : /\ first <=> alone
                               /\ pages'[c] = [op |-> op, session |-> cookie, pair |-> cookie,
                                               role |-> role, alone |-> first]
  <2>1. CASE alone
    BY <2>1 DEF Send
  <2>2. CASE ~alone
    BY <2>2 DEF Send
  <2> QED
    BY <2>1, <2>2
<1>3. ASSUME NEW d \in Calls, d # c
      PROVE  /\ pages'[d] \in Page /\ pages'[d].op = pages[d].op
             /\ (Active(d)' <=> Active(d)) /\ (Renewed(d)' <=> Renewed(d))
             /\ Active(d) => /\ pages'[d].alone = FALSE /\ pages'[d].role = pages[d].role
                             /\ pages'[d].session = pages[d].session
                             /\ pages'[d].pair = pages[d].pair
  <2>1. pages[d] \in Page
    BY DEF SessionTypes
  <2>2. CASE ~Active(d)
    <3>1. pages'[d] = pages[d]
      BY <1>3, <2>1, <2>2, PageFields DEF Send, Active
    <3> QED
      BY <2>1, <2>2, <3>1 DEF Active, Renewed
  <2>3. CASE Active(d)
    <3>1. pages'[d] = [pages[d] EXCEPT !.alone = FALSE]
      BY <1>3, <2>1, <2>3, PageFields DEF Send, Active, NoPage
    <3> DEFINE page == [pages[d] EXCEPT !.alone = FALSE]
    <3>2. /\ page \in Page /\ page.op = pages[d].op /\ page.session = pages[d].session
          /\ page.pair = pages[d].pair /\ page.role = pages[d].role /\ page.alone = FALSE
      BY <2>1, <2>3, PageFields DEF Page, Active
    <3> QED
      BY <3>1, <3>2 DEF Active, Renewed
  <2> QED
    BY <2>2, <2>3
<1>4. /\ pages'[c] \in Page /\ pages'[c].op = op /\ pages'[c].session = cookie
      /\ pages'[c].pair = cookie /\ pages'[c].alone = first /\ pages'[c].role = role
      /\ Active(c)' /\ ~Renewed(c)' /\ ~Active(c) /\ ~Renewed(c)
  BY <1>1, <1>2 DEF Page, Active, Renewed, NoPage
<1>5. SessionTypes'
  <2>1. pages' \in [Calls -> Page]
    <3>1. \A d \in Calls : pages'[d] \in Page
      BY <1>3, <1>4
    <3>2. pages' = [d \in Calls |-> pages'[d]]
      BY DEF Send
    <3> QED
      BY <3>1, <3>2
  <2> QED
    BY <1>1, <2>1 DEF SessionTypes
<1>6. Numbered'
  <2> SUFFICES ASSUME NEW d \in Calls
               PROVE  /\ Active(d)' => pages'[d].session \in 1..issued /\ pages'[d].pair \in 1..issued
                      /\ Renewed(d)' => pages'[d].op \notin {"proxy", "role"} /\ ~pages'[d].role
                      /\ pages'[d].op = "pair" => Renewed(d)'
                      /\ pages'[d].op = "proxy" => ~pages'[d].role
    BY <1>1 DEF Numbered
  <2>1. CASE d = c
    BY <1>1, <1>4, <2>1
  <2>2. CASE d # c
    <3>1. (Renewed(d)' => Active(d)) /\ (pages'[d].op = "proxy" => Active(d))
      BY <1>3, <2>2 DEF Renewed, Active
    <3> QED
      BY <1>3, <2>2, <3>1 DEF Numbered
  <2> QED
    BY <2>1, <2>2
<1>7. CookieIsReplaced'
  <2>1. ASSUME NEW d \in Calls, Renewed(d) PROVE Renewed(d)' /\ pages'[d].session = pages[d].session
    BY <1>3, <1>4, <2>1 DEF Renewed
  <2> QED
    BY <1>1, <2>1 DEF CookieIsReplaced
<1>8. BroughtIsNew'
  <2> SUFFICES ASSUME NEW d \in Calls, Renewed(d)'
               PROVE  /\ pages'[d].pair \in spendable /\ pages'[d].pair # cookie
                      /\ \A e \in Calls \ {d} : Active(e)' =>
                            pages'[e].pair # pages'[d].pair /\ pages'[e].session # pages'[d].pair
    BY <1>1 DEF BroughtIsNew
  <2>1. d # c /\ Renewed(d) /\ pages'[d].pair = pages[d].pair
    BY <1>3, <1>4 DEF Renewed
  <2>2. pages[d].pair \in spendable /\ pages[d].pair # cookie
    BY <2>1 DEF BroughtIsNew
  <2>3. ASSUME NEW e \in Calls \ {d}, Active(e)'
        PROVE  pages'[e].pair # pages[d].pair /\ pages'[e].session # pages[d].pair
    <3>1. CASE e = c
      BY <1>4, <2>2, <3>1
    <3>2. CASE e # c
      <4>1. Active(e) /\ pages'[e].pair = pages[e].pair /\ pages'[e].session = pages[e].session
        BY <1>3, <2>3, <3>2
      <4> QED
        BY <2>1, <4>1 DEF BroughtIsNew
    <3> QED
      BY <3>1, <3>2
  <2> QED
    BY <2>1, <2>2, <2>3
<1>9. AloneIsAlone'
  <2> SUFFICES ASSUME NEW d \in Calls, Active(d)', pages'[d].alone
               PROVE  /\ \A e \in Calls \ {d} : ~Active(e)'
                      /\ ~Renewed(d)' => pages'[d].session \in spendable' \cup lost'
    BY DEF AloneIsAlone
  <2>1. d = c
    BY <1>3
  <2>2. \A e \in Calls : ~Active(e)
    BY <1>2, <1>4, <2>1 DEF Active, NoPage
  <2>3. cookie \in spendable \cup lost
    BY <1>1, <2>2 DEF CookieIsReplaced, Renewed
  <2> QED
    BY <1>1, <1>3, <1>4, <2>1, <2>2, <2>3
<1>10. AloneStaysSignedIn'
  <2> SUFFICES ASSUME NEW d \in Calls, pages'[d].op = "spent" PROVE ~pages'[d].alone
    BY DEF AloneStaysSignedIn
  <2> QED
    BY <1>3, <1>4 DEF Active
<1> QED
  BY <1>5, <1>6, <1>7, <1>8, <1>9, <1>10

\* The answer that came last is the cookie: a pair that nobody has spent, or one
\* that a change of the role has written back.
LEMMA ReceiveKeeps ==
  ASSUME SessionIInv, NEW c \in Calls, Receive(c)
  PROVE  SessionIInv'
<1> USE DEF SessionIInv, SessionInv
<1>1. /\ pages[c].op \in Answer /\ Turns(c, NoPage)
      /\ UNCHANGED <<issued, spendable, due, signedBy>>
  BY DEF Receive
<1>2. /\ pages' \in [Calls -> Page] /\ pages'[c] = NoPage
      /\ \A d \in Calls : d # c => pages'[d] = pages[d]
  BY <1>1, PageTurns DEF SessionTypes, Page
<1>3. /\ Active(c) /\ ~Active(c)' /\ ~Renewed(c)' /\ pages'[c].op = "idle"
      /\ \A d \in Calls \ {c} : /\ (Active(d)' <=> Active(d)) /\ (Renewed(d)' <=> Renewed(d))
                                /\ pages'[d] = pages[d]
  BY <1>1, <1>2 DEF Active, Renewed, NoPage, Answer
<1>4. \/ cookie' = NoSession /\ lost' = lost
      \/ cookie' = pages[c].pair /\ Renewed(c) /\ lost' = lost
      \/ /\ cookie' = pages[c].session
         /\ lost' = IF pages[c].session \notin spendable /\ ~pages[c].alone
                    THEN lost \cup {pages[c].session} ELSE lost
         /\ ~Renewed(c)
  <2>1. CASE pages[c].op = "pair"
    BY <2>1 DEF Receive, Numbered
  <2>2. CASE pages[c].op = "role"
    BY <2>2 DEF Receive, Numbered
  <2>3. CASE pages[c].op \in {"spent", "refused"}
    BY <2>3 DEF Receive
  <2> QED
    BY <1>1, <2>1, <2>2, <2>3 DEF Answer
<1>5. /\ cookie' \in 1..issued \cup {NoSession} /\ lost \subseteq lost' /\ lost' \subseteq 1..issued
      /\ pages[c].session \in 1..issued /\ pages[c].pair \in 1..issued
  BY <1>3, <1>4 DEF Numbered, SessionTypes
<1>6. cookie' = NoSession \/ cookie' \in spendable \/ cookie' \in lost'
  <2>1. Renewed(c) => pages[c].pair \in spendable
    BY DEF BroughtIsNew
  <2>2. ~Renewed(c) /\ pages[c].alone => pages[c].session \in spendable \cup lost
    BY <1>3 DEF AloneIsAlone
  <2> QED
    BY <1>4, <2>1, <2>2
<1>7. SessionTypes'
  <2>1. cookie' \in 1..MaxTokens \cup {NoSession}
    BY <1>5, SessionAssumption DEF SessionTypes
  <2> QED
    BY <1>1, <1>2, <1>5, <2>1 DEF SessionTypes
<1>8. Numbered'
  BY <1>1, <1>3, <1>5 DEF Numbered
<1>9. CookieIsReplaced'
  <2>1. NoSession \notin 1..issued
    BY SessionAssumption DEF SessionTypes
  <2> QED
    BY <1>1, <1>6, <2>1 DEF CookieIsReplaced
<1>10. BroughtIsNew'
  <2> SUFFICES ASSUME NEW d \in Calls, Renewed(d)'
               PROVE  /\ pages'[d].pair \in spendable /\ pages'[d].pair # cookie'
                      /\ \A e \in Calls \ {d} : Active(e)' =>
                            pages'[e].pair # pages'[d].pair /\ pages'[e].session # pages'[d].pair
    BY <1>1 DEF BroughtIsNew
  <2>1. d # c /\ Renewed(d) /\ pages'[d] = pages[d]
    BY <1>3
  <2>2. /\ pages[d].pair \in spendable /\ pages[d].pair \in 1..issued
        /\ pages[c].pair # pages[d].pair /\ pages[c].session # pages[d].pair
        /\ \A e \in Calls \ {d} : Active(e) =>
              pages[e].pair # pages[d].pair /\ pages[e].session # pages[d].pair
    BY <1>3, <2>1 DEF BroughtIsNew, Numbered, Renewed
  <2>3. pages[d].pair # NoSession
    BY <2>2, SessionAssumption DEF SessionTypes
  <2> QED
    BY <1>3, <1>4, <2>1, <2>2, <2>3
<1>11. AloneIsAlone' /\ AloneStaysSignedIn'
  BY <1>1, <1>3, <1>5 DEF AloneIsAlone, AloneStaysSignedIn
<1> QED
  BY <1>7, <1>8, <1>9, <1>10, <1>11

\* Signing in and out, and the passing of time.
LEMMA SessionBeginsAndEnds ==
  ASSUME SessionIInv,
         \/ \E kid \in Kids : SignIn(kid)
         \/ SignOut
         \/ \E n \in 1..MaxTokens : AccessTokenDue(n)
  PROVE  SessionIInv'
<1> USE DEF SessionIInv, SessionInv
<1>1. CASE \E kid \in Kids : SignIn(kid)
  <2>1. PICK kid \in Kids : SignIn(kid)
    BY <1>1
  <2> DEFINE new == issued + 1
  <2>2. /\ issued \in Nat /\ issued < MaxTokens /\ issued' = new /\ issued' \in 0..MaxTokens
        /\ signedBy' \in Seq(Kids) /\ Len(signedBy') = issued' /\ MaxTokens \in Nat
    BY <2>1, IssueTypes, SessionAssumption DEF SignIn, SessionTypes
  <2>3. /\ new \notin 1..issued /\ new # NoSession /\ 1..issued \subseteq 1..new
        /\ new \in 1..new /\ new \in 1..MaxTokens
    BY <2>2, SessionAssumption
  <2> HIDE DEF new
  <2>4. /\ cookie' = new /\ spendable' = spendable \cup {new} /\ UNCHANGED <<due, pages, lost>>
    BY <2>1 DEF SignIn, new
  <2>5. \A c \in Calls : /\ (Active(c)' <=> Active(c)) /\ (Renewed(c)' <=> Renewed(c))
                         /\ (Renewed(c) => Active(c))
    BY <2>4 DEF Active, Renewed
  <2>6. SessionTypes'
    BY <2>2, <2>3, <2>4 DEF SessionTypes
  <2>7. Numbered'
    BY <2>2, <2>3, <2>4, <2>5 DEF Numbered
  <2>8. CookieIsReplaced'
    BY <2>4 DEF CookieIsReplaced
  <2>9. BroughtIsNew'
    BY <2>3, <2>4, <2>5 DEF BroughtIsNew, Numbered
  <2>10. AloneIsAlone' /\ AloneStaysSignedIn'
    BY <2>4, <2>5 DEF AloneIsAlone, AloneStaysSignedIn
  <2> QED
    BY <2>6, <2>7, <2>8, <2>9, <2>10
<1>2. CASE SignOut
  <2>1. cookie' = NoSession /\ UNCHANGED <<issued, spendable, due, signedBy, pages, lost>>
    BY <1>2 DEF SignOut
  <2>2. CookieIsReplaced'
    BY <2>1, SessionAssumption DEF CookieIsReplaced, SessionTypes
  <2>3. BroughtIsNew'
    <3>1. \A c \in Calls : Renewed(c) => pages[c].pair # NoSession
      BY SessionAssumption DEF Numbered, Renewed, SessionTypes
    <3> QED
      BY <2>1, <3>1 DEF BroughtIsNew, Renewed, Active
  <2> QED
    BY <2>1, <2>2, <2>3 DEF SessionTypes, Numbered, AloneIsAlone, AloneStaysSignedIn, Renewed, Active
<1>3. CASE \E n \in 1..MaxTokens : AccessTokenDue(n)
  <2>1. due' \subseteq 1..issued /\ UNCHANGED <<cookie, issued, spendable, signedBy, pages, lost>>
    BY <1>3 DEF AccessTokenDue, SessionTypes
  <2> QED
    BY <2>1 DEF SessionTypes, Numbered, CookieIsReplaced, BroughtIsNew, AloneIsAlone,
                AloneStaysSignedIn, Renewed, Active
<1> QED
  BY <1>1, <1>2, <1>3

\* The answer of a page that holds a session: the refreshed pair, or nothing.
LEMMA WrittenKeeps ==
  ASSUME SessionIInv, NEW c \in Calls, Active(c), Turns(c, Written(pages[c])),
         UNCHANGED <<cookie, issued, spendable, due, signedBy, lost>>
  PROVE  SessionIInv'
<1>1. CASE Renewed(c)
  <2>1. Goes(c, "pair") /\ "pair" \in Answer
    BY <1>1 DEF Written, Renewed, Goes, Answer
  <2> QED
    BY <1>1, <2>1, GoesKeeps
<1>2. CASE ~Renewed(c)
  <2>1. Turns(c, NoPage) /\ lost' = lost \cup Exchanged(pages[c])
    BY <1>2 DEF Written, Renewed, Exchanged
  <2> QED
    BY <2>1, EndsKeeps
<1> QED
  BY <1>1, <1>2

--------------------------------------------------------------------------------
(* The whole system.                                                        *)
LEMMA TypeParts == TypeOK <=> KeyTypeOK /\ SessionTypes
<1>1. signedBy \in [1..issued -> Kids] /\ issued \in 0..MaxTokens
        <=> signedBy \in Seq(Kids) /\ Len(signedBy) = issued /\ issued \in 0..MaxTokens
  OBVIOUS
<1> QED
  BY <1>1 DEF TypeOK, SessionTypes

IInv == KeyTypeOK /\ KeyInv /\ SessionIInv

\* A signed-in browser and an empty cache satisfy it.
LEMMA Invariant_Init == Init => IInv
<1> SUFFICES ASSUME Init PROVE KeyTypeOK /\ KeyInv /\ SessionIInv
  BY DEF IInv
<1>1. \A c \in Calls : calls[c] = NoCall /\ calls[c].op = "idle"
  BY DEF Init, KeyInit, NoCall
<1>2. KeyTypeOK /\ KeyInv
  <2>1. queue = <<>> /\ queue \in Seq(Calls)
    BY EmptySeq DEF Init, KeyInit
  <2>2. published \subseteq Kids /\ keys = {} /\ fresh = FALSE /\ calls = [c \in Calls |-> NoCall]
    BY DEF Init, KeyInit
  <2>3. calls \in [Calls -> Call]
    BY <2>2 DEF Call
  <2> QED
    BY <1>1, <2>1, <2>2, <2>3 DEF KeyTypeOK, KeyInv, Fetching
<1>3. \A c \in Calls : pages[c] = NoPage /\ pages[c].op = "idle"
  BY DEF Init, NoPage
<1>4. SessionTypes
  BY SessionAssumption DEF Init, SessionTypes, Page
<1>5. SessionInv
  BY <1>3, SessionAssumption DEF Init, SessionInv, Numbered, CookieIsReplaced, BroughtIsNew,
     AloneIsAlone, AloneStaysSignedIn, Active, Renewed
<1> QED
  BY <1>2, <1>4, <1>5 DEF SessionIInv

\* Every step keeps it.
LEMMA Invariant_Next == IInv /\ [Next]_vars => IInv'
<1> SUFFICES ASSUME KeyTypeOK, KeyInv, SessionIInv, [Next]_vars
             PROVE  KeyTypeOK' /\ KeyInv' /\ SessionIInv'
  BY DEF IInv
<1>1. ASSUME UNCHANGED keyVars PROVE KeyTypeOK' /\ KeyInv'
  BY <1>1 DEF keyVars, KeyTypeOK, KeyInv, Fetching
<1>2. ASSUME UNCHANGED sessionVars PROVE SessionIInv'
  BY <1>2 DEF sessionVars, SessionIInv, SessionTypes, SessionInv, Numbered, CookieIsReplaced,
     BroughtIsNew, AloneIsAlone, AloneStaysSignedIn, Renewed, Active
<1>3. CASE /\ \/ \E kid \in Kids : SignIn(kid)
              \/ SignOut
              \/ \E n \in 1..MaxTokens : AccessTokenDue(n)
           /\ UNCHANGED keyVars
  BY <1>1, <1>3, SessionBeginsAndEnds
<1>4. ASSUME NEW c \in Calls, BrowserStep(c), UNCHANGED keyVars
      PROVE  KeyTypeOK' /\ KeyInv' /\ SessionIInv'
  <2>0. {"pair", "role", "spent", "refused"} = Answer
    BY DEF Answer
  <2>1. ASSUME UseSession(c) \/ TokenEndpointFails(c) PROVE SessionIInv'
    <3>1. CASE UseSession(c)
      BY <3>1, GoesKeeps DEF UseSession, Active
    <3>2. CASE TokenEndpointFails(c)
      BY <2>0, <3>2, GoesKeeps DEF TokenEndpointFails, Active
    <3> QED
      BY <2>1, <3>1, <3>2
  <2>2. ASSUME RefreshRefused(c) PROVE SessionIInv'
    <3>1. ~Renewed(c) /\ pages[c].session \notin spendable
      BY <2>2 DEF RefreshRefused, SessionIInv, SessionInv, Numbered
    <3> QED
      BY <2>0, <2>2, <3>1, GoesKeeps DEF RefreshRefused, Active
  <2>3. ASSUME RejectRequest(c) PROVE SessionIInv'
    BY <2>3, WrittenKeeps DEF RejectRequest, Active
  <2>4. ASSUME RouteFails(c) \/ AnswerLost(c) PROVE SessionIInv'
    BY <2>0, <2>4, EndsKeeps DEF RouteFails, ErrorPage, AnswerLost, Active
  <2>5. ASSUME SendAny(c) PROVE SessionIInv'
    BY <2>5, SendKeeps DEF SendAny
  <2>6. SessionIInv'
    BY <1>4, <2>1, <2>2, <2>3, <2>4, <2>5, RefreshKeeps, ReceiveKeeps DEF BrowserStep
  <2> QED
    BY <1>1, <1>4, <2>6
<1>5. ASSUME NEW c \in Calls, CallApi(c)
      PROVE  KeyTypeOK' /\ KeyInv' /\ SessionIInv'
  <2>1. /\ pages[c].op = "call" /\ Active(c) /\ pages[c].pair \in 1..issued
        /\ BeginCall(c, signedBy[pages[c].pair]) /\ Goes(c, "api")
        /\ UNCHANGED <<cookie, issued, spendable, due, signedBy, lost>>
    BY <1>5 DEF CallApi, SessionIInv, SessionInv, Numbered, Active
  <2>2. signedBy[pages[c].pair] \in Kids
    BY <2>1 DEF SessionIInv, SessionTypes
  <2> QED
    BY <2>1, <2>2, CallComesAndGoes, GoesKeeps
<1>6. ASSUME NEW c \in Calls,
             \/ ApiAnswerFails(c)
             \/ \E valid, ok \in BOOLEAN : ApiAnswers(c, valid, ok)
      PROVE  KeyTypeOK' /\ KeyInv' /\ SessionIInv'
  <2>1. /\ pages[c].op = "api" /\ Active(c) /\ calls[c].op = "done" /\ Set(c, NoCall)
        /\ UNCHANGED <<published, keys, fresh, queue>>
    BY <1>6 DEF ApiAnswers, ApiAnswerFails, Active
  <2>2. ASSUME ApiAnswerFails(c) PROVE SessionIInv'
    BY <2>1, <2>2, EndsKeeps DEF ApiAnswerFails, ErrorPage
  <2>3. ASSUME NEW valid \in BOOLEAN, NEW ok \in BOOLEAN, ApiAnswers(c, valid, ok)
        PROVE  SessionIInv'
    <3> USE DEF Answer
    <3>1. UNCHANGED <<cookie, issued, spendable, due, signedBy, lost>>
      BY <2>3 DEF ApiAnswers
    <3>2. \/ Goes(c, "role") /\ pages[c].role
          \/ Turns(c, NoPage) /\ pages[c].role
          \/ Turns(c, Written(pages[c]))
          \/ Goes(c, "refused")
      BY <2>3 DEF ApiAnswers, AnswerOf, Goes
    <3>3. pages[c].role => ~Renewed(c)
      BY DEF SessionIInv, SessionInv, Numbered
    <3>4. CASE (Goes(c, "role") /\ pages[c].role) \/ Goes(c, "refused")
      BY <2>1, <3>1, <3>3, <3>4, GoesKeeps
    <3>5. CASE Turns(c, NoPage) /\ pages[c].role
      <4>1. Exchanged(pages[c]) = {}
        BY <2>1, <3>3, <3>5 DEF Exchanged, Renewed
      <4> QED
        BY <2>1, <3>1, <3>5, <4>1, EndsKeeps
    <3> QED
      BY <2>1, <3>1, <3>2, <3>4, <3>5, WrittenKeeps
  <2>4. SessionIInv'
    BY <1>6, <2>2, <2>3
  <2> QED
    BY <2>1, <2>4, CallComesAndGoes
<1>7. CASE (KeyStep \/ \E c \in Calls : CallStep(c)) /\ UNCHANGED sessionVars
  BY <1>2, <1>7, KeyStepKeeps, CallStepKeeps
<1>8. CASE UNCHANGED vars
  BY <1>1, <1>2, <1>8 DEF vars
<1> QED
  BY <1>3, <1>4, <1>5, <1>6, <1>7, <1>8 DEF Next

\* A key is taken from a cache that has not expired, or from a fresh answer.
LEMMA FailClosed_Next ==
  ASSUME IInv, [Next]_vars, NEW c \in Calls,
         calls'[c].op = "done", calls'[c].verdict = "key_found", calls[c].op # "done"
  PROVE  fresh' /\ calls'[c].kid \in keys'
<1>1. calls \in [Calls -> Call]
  BY DEF IInv, KeyTypeOK
<1>2. ASSUME NEW d \in Calls, NEW kid \in Kids, BeginCall(d, kid)
      PROVE  fresh' /\ calls'[c].kid \in keys'
  <2>1. d = c
    BY <1>1, <1>2 DEF BeginCall, Set
  <2>2. fresh /\ kid \in keys /\ UNCHANGED <<keys, fresh>> /\ calls'[c].kid = kid
    BY <1>1, <1>2, <2>1 DEF BeginCall, Set
  <2> QED
    BY <2>2
<1>3. ASSUME NEW d \in Calls, CallStep(d)
      PROVE  fresh' /\ calls'[c].kid \in keys'
  <2>1. d = c
    <3>1. ASSUME NEW x \in Call, calls' = [calls EXCEPT ![d] = x] PROVE d = c
      BY <1>1, <3>1
    <3>2. calls' = [calls EXCEPT ![d] = calls'[d]]
      BY <1>1, <1>3 DEF CallStep, Acquire, ProviderAnswers, Install, RefreshFails, LookUp, Set
    <3> QED
      BY <1>1, <3>2
  <2>2. CASE Acquire(c)
    <3>1. calls[c].op = "lock" /\ fresh /\ LookUp(c, keys, 0) /\ UNCHANGED <<keys, fresh>>
      BY <1>1, <2>2 DEF Acquire, Set, Fetch
    <3>2. keys \in SUBSET Kids
      BY DEF IInv, KeyTypeOK
    <3>3. calls'[c].kid \in keys
      BY <1>1, <3>1, <3>2, LookUpGoes
    <3> QED
      BY <3>1, <3>3
  <2>3. CASE ProviderAnswers(c)
    BY <1>1, <2>3 DEF ProviderAnswers, Set
  <2>4. CASE Install(c)
    <3>1. /\ calls[c].op = "answered" /\ calls[c].answer \in SUBSET Kids /\ calls[c].fetches = 1
          /\ LookUp(c, calls[c].answer, 1) /\ keys' = calls[c].answer /\ fresh'
      BY <1>1, <2>4, CallFields DEF Install
    <3>2. calls'[c].kid \in calls[c].answer
      BY <1>1, <3>1, LookUpGoes
    <3> QED
      BY <3>1, <3>2
  <2>5. CASE RefreshFails(c)
    BY <1>1, <2>5 DEF RefreshFails, Set, Judged, FailedVerdict
  <2> QED
    BY <1>3, <2>1, <2>2, <2>3, <2>4, <2>5 DEF CallStep
<1>4. ASSUME NEW d \in Calls, Set(d, NoCall) PROVE FALSE
  BY <1>1, <1>4 DEF Set, NoCall
<1>5. CASE KeyStep
  <2>1. calls'[c].op = calls[c].op
    <3>1. calls[c] \in Call
      BY <1>1
    <3>2. calls'[c] \in {calls[c], [calls[c] EXCEPT !.steady = FALSE]}
      BY <1>1, <1>5 DEF KeyStep, CacheExpires, PublishKey, WithdrawKey
    <3>3. [calls[c] EXCEPT !.steady = FALSE].op = calls[c].op
      BY <3>1 DEF Call, NoCall
    <3> QED
      BY <3>2, <3>3
  <2> QED
    BY <2>1
<1>6. CASE UNCHANGED keyVars
  BY <1>6 DEF keyVars
<1>7. ASSUME NEW d \in Calls, CallApi(d)
      PROVE  fresh' /\ calls'[c].kid \in keys'
  <2>1. pages[d].op = "call" /\ BeginCall(d, signedBy[pages[d].pair])
    BY <1>7 DEF CallApi
  <2>2. signedBy[pages[d].pair] \in Kids
    BY <2>1 DEF IInv, SessionIInv, SessionTypes, SessionInv, Numbered, Active
  <2> QED
    BY <1>2, <2>1, <2>2
<1> QED
  BY <1>3, <1>4, <1>5, <1>6, <1>7 DEF Next, ApiAnswers, ApiAnswerFails, vars

\* In every reachable state the invariant holds.
THEOREM Invariant == Spec => []IInv
BY Invariant_Init, Invariant_Next, PTL DEF Spec

\* The types; in particular a call refreshes the keys at most once, and one
\* call at a time does, the first in the queue.
THEOREM SessionAndKeyTypes == Spec => []TypeOK
<1>1. IInv => TypeOK
  BY TypeParts DEF IInv, SessionIInv
<1> QED
  BY <1>1, Invariant, PTL

\* Rotation: a key that was published since the call came in is never unknown,
\* with any number of calls that refresh the cache meanwhile (JWKSCache.key).
THEOREM RotationIsNoticed == Spec => []PublishedKeysAreKnown
<1>1. IInv => PublishedKeysAreKnown
  BY DEF IInv, KeyInv, PublishedKeysAreKnown
<1> QED
  BY <1>1, Invariant, PTL

\* Fail closed: no token is verified with a key of an expired cache.
THEOREM KeysAreFresh == Spec => FailClosed
<1>1. IInv /\ [Next]_vars =>
        \A c \in Calls :
          (calls'[c].op = "done" /\ calls'[c].verdict = "key_found" /\ calls[c].op # "done")
             => fresh' /\ calls'[c].kid \in keys'
  BY FailClosed_Next
<1> QED
  BY <1>1, Invariant, PTL DEF Spec, FailClosed

\* A browser request without company never finds its refresh token spent, however
\* many pages refreshed the session before it, unless one of them did so in vain or
\* an overlapping change of the role wrote the spent pair back (lib/session.ts).
THEOREM AloneIsNeverSpent == Spec => []AloneStaysSignedIn
<1>1. IInv => AloneStaysSignedIn
  BY DEF IInv, SessionIInv, SessionInv
<1> QED
  BY <1>1, Invariant, PTL
=================================================================================
