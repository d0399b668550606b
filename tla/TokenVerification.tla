---------------------------- MODULE TokenVerification ----------------------------
(***************************************************************************)
(* The cache of the identity provider's signing keys (JWKSCache of         *)
(* src/backend/app/auth.py) under concurrent requests: a key is taken from *)
(* the cache without the lock, or the cache is refreshed under it, at most *)
(* once for a request.  Time passes between the awaits of a refresh: the   *)
(* provider rotates its keys and the cache expires.                        *)
(***************************************************************************)
EXTENDS Naturals, Sequences

CONSTANTS
    Calls,          \* API requests that may be in progress at the same time
    Kids            \* key identifiers

VARIABLES
    published,      \* the signing keys the provider publishes
    keys,           \* the keys in the cache
    fresh,          \* whether the cache has not expired
    queue,          \* the calls at the asyncio lock; the first one holds it
    calls           \* what each call is doing

keyVars == <<published, keys, fresh, queue, calls>>

Verdict == {"key_found", "unknown_key", "unavailable"}
NoCall == [op |-> "idle"]

\* steady: the key of the token was published all the time since the call began.
Call ==
    {NoCall}
    \cup [op : {"lock"}, kid : Kids, steady : BOOLEAN, fetches : {0}]
    \cup [op : {"fetch"}, kid : Kids, steady : BOOLEAN, fetches : {1}]
    \cup [op : {"answered"}, kid : Kids, steady : BOOLEAN, fetches : {1}, answer : SUBSET Kids]
    \cup [op : {"done"}, kid : Kids, steady : BOOLEAN, verdict : Verdict]

Fetching(c) == calls[c].op \in {"fetch", "answered"}

\* At most one refresh for a call, and one at a time for all of them.
KeyTypeOK ==
    /\ published \subseteq Kids /\ keys \subseteq Kids /\ fresh \in BOOLEAN
    /\ calls \in [Calls -> Call]
    /\ queue \in Seq(Calls)
    /\ \A c \in Calls : Fetching(c) => queue # <<>> /\ Head(queue) = c

KeyInit ==
    /\ published \in {{k} : k \in Kids}
    /\ keys = {} /\ fresh = FALSE
    /\ queue = <<>>
    /\ calls = [c \in Calls |-> NoCall]

Set(c, call) == calls' = [calls EXCEPT ![c] = call]
Judged(c, verdict) ==
    [op |-> "done", kid |-> calls[c].kid, steady |-> calls[c].steady, verdict |-> verdict]
Fetch(c, n) ==
    [op |-> "fetch", kid |-> calls[c].kid, steady |-> calls[c].steady, fetches |-> n]

--------------------------------------------------------------------------------
\* JWKSCache.key, first look: without the lock.
BeginCall(c, kid) ==
    /\ calls[c] = NoCall
    /\ IF fresh /\ kid \in keys
       THEN /\ Set(c, [op |-> "done", kid |-> kid, steady |-> kid \in published,
                       verdict |-> "key_found"])
            /\ UNCHANGED queue
       ELSE /\ Set(c, [op |-> "lock", kid |-> kid, steady |-> kid \in published, fetches |-> 0])
            /\ queue' = Append(queue, c)
    /\ UNCHANGED <<published, keys, fresh>>

\* Exactly one rotation refresh: none when this call has refreshed already.
MayRefresh(fetches) == fetches = 0

\* Under the lock: the key is there, or a refresh may bring it, or it is unknown.
LookUp(c, known, fetches) ==
    IF calls[c].kid \in known
    THEN Set(c, Judged(c, "key_found")) /\ queue' = Tail(queue)
    ELSE IF MayRefresh(fetches)
    THEN Set(c, Fetch(c, fetches + 1)) /\ UNCHANGED queue
    ELSE Set(c, Judged(c, "unknown_key")) /\ queue' = Tail(queue)

\* Mutant: an unexpired cache is final, keys are never rotated in between.
AcquireTrustingCache(c) ==
    /\ queue # <<>> /\ Head(queue) = c /\ calls[c].op = "lock"
    /\ IF ~fresh THEN Set(c, Fetch(c, 1)) /\ UNCHANGED queue
                 ELSE LookUp(c, keys, 1)
    /\ UNCHANGED <<published, keys, fresh>>

\* The lock is acquired, in the order of arrival: an expired cache is refreshed first.
Acquire(c) ==
    /\ queue # <<>> /\ Head(queue) = c /\ calls[c].op = "lock"
    /\ IF ~fresh THEN Set(c, Fetch(c, 1)) /\ UNCHANGED queue
                 ELSE LookUp(c, keys, 0)
    /\ UNCHANGED <<published, keys, fresh>>

\* The provider answers with the keys it publishes at that moment.
ProviderAnswers(c) ==
    /\ calls[c].op = "fetch"
    /\ Set(c, [op |-> "answered", kid |-> calls[c].kid, steady |-> calls[c].steady,
               fetches |-> calls[c].fetches, answer |-> published])
    /\ UNCHANGED <<published, keys, fresh, queue>>

\* _refresh: the answer is read and takes the place of the cache as a whole.
Install(c) ==
    /\ calls[c].op = "answered" /\ calls[c].answer # {}
    /\ keys' = calls[c].answer /\ fresh' = TRUE
    /\ LookUp(c, calls[c].answer, calls[c].fetches)
    /\ UNCHANGED published

\* Mutant: a token is judged by the expired keys when no new ones can be had.
FailedVerdictStale(c) == IF calls[c].kid \in keys THEN "key_found" ELSE "unavailable"

FailedVerdict(c) == "unavailable"

\* No answer, or no valid one: the call fails, the cache stays as it is.
RefreshFails(c) ==
    /\ Fetching(c)
    /\ Set(c, Judged(c, FailedVerdict(c)))
    /\ queue' = Tail(queue)
    /\ UNCHANGED <<published, keys, fresh>>

--------------------------------------------------------------------------------
CacheExpires == fresh /\ fresh' = FALSE /\ UNCHANGED <<published, keys, queue, calls>>

PublishKey(k) ==
    /\ k \notin published
    /\ published' = published \cup {k}
    /\ UNCHANGED <<keys, fresh, queue, calls>>

WithdrawKey(k) ==
    /\ k \in published
    /\ published' = published \ {k}
    /\ calls' = [c \in Calls |-> IF calls[c] # NoCall /\ calls[c].kid = k
                                 THEN [calls[c] EXCEPT !.steady = FALSE] ELSE calls[c]]
    /\ UNCHANGED <<keys, fresh, queue>>

CallStep(c) == Acquire(c) \/ ProviderAnswers(c) \/ Install(c) \/ RefreshFails(c)
KeyStep == CacheExpires \/ \E k \in Kids : PublishKey(k) \/ WithdrawKey(k)
=================================================================================
