------------------------------ MODULE BrowserSession ------------------------------
(***************************************************************************)
(* The session cookie of one browser and the proxy that keeps it (lib/     *)
(* session.ts and app/api of src/frontend): every request carries a copy   *)
(* of the cookie; the proxy refreshes the access token when it is due with *)
(* a refresh token that works once, calls the API, and answers with a new  *)
(* cookie, no cookie or nothing; a change of the demo role writes back the *)
(* copy it came with.  The browser keeps whatever answer came last.        *)
(***************************************************************************)
EXTENDS TokenVerification

CONSTANTS
    MaxTokens,      \* bound: token pairs the provider ever issues
    NoSession       \* the marker of an absent session

ASSUME SessionAssumption == MaxTokens \in Nat \ {0} /\ NoSession \notin 1..MaxTokens

VARIABLES
    cookie,         \* the session in the browser: the number of its token pair
    issued,         \* token pairs issued so far
    spendable,      \* pairs whose refresh token was not used
    due,            \* pairs whose access token is about to expire
    signedBy,       \* the key that signed each access token
    pages,          \* what each browser request is doing
    lost            \* history: pairs that were exchanged, and whose successor did not
                    \* reach the browser, or was overwritten there by the pair itself

sessionVars == <<cookie, issued, spendable, due, signedBy, pages, lost>>
vars == <<keyVars, sessionVars>>

NoPage == [op |-> "idle"]

\* The cookie an answer brings: the refreshed pair, the pair the request came with
\* (role), or its removal, because the refresh token was spent, or because the API
\* or the token endpoint refused.  An answer without a cookie ends the request.
Answer == {"pair", "role", "spent", "refused"}

\* session: the pair it came with; pair: the one it uses; role: it changes the
\* demo role; alone: no other request was in progress since this one was sent.
Page ==
    {NoPage}
    \cup [op : {"proxy", "call", "api"} \cup Answer, session : 1..MaxTokens,
          pair : 1..MaxTokens, role : BOOLEAN, alone : BOOLEAN]

\* Every variable has its type; a call refreshes the keys at most once, and the
\* lock keeps two of them from doing so at the same time.
TypeOK ==
    /\ KeyTypeOK
    /\ cookie \in 1..MaxTokens \cup {NoSession}
    /\ issued \in 0..MaxTokens
    /\ spendable \subseteq 1..issued /\ due \subseteq 1..issued /\ lost \subseteq 1..issued
    /\ signedBy \in [1..issued -> Kids]
    /\ pages \in [Calls -> Page]

Init ==
    /\ KeyInit
    /\ cookie = NoSession /\ issued = 0 /\ spendable = {} /\ due = {} /\ signedBy = <<>>
    /\ pages = [c \in Calls |-> NoPage]
    /\ lost = {}

Turns(c, page) == pages' = [pages EXCEPT ![c] = page]
Goes(c, op) == Turns(c, [pages[c] EXCEPT !.op = op])

\* The provider issues a pair, signed with a key it publishes.
Issue(kid) ==
    /\ issued < MaxTokens
    /\ issued' = issued + 1
    /\ signedBy' = Append(signedBy, kid)

--------------------------------------------------------------------------------
\* Login callback: the first pair of a session.
SignIn(kid) ==
    /\ cookie = NoSession
    /\ kid \in published
    /\ Issue(kid)
    /\ cookie' = issued + 1
    /\ spendable' = spendable \cup {issued + 1}
    /\ UNCHANGED <<due, pages, lost>>

SignOut ==
    /\ cookie # NoSession
    /\ cookie' = NoSession
    /\ UNCHANGED <<issued, spendable, due, signedBy, pages, lost>>

AccessTokenDue(n) ==
    /\ n \in 1..issued \ due
    /\ due' = due \cup {n}
    /\ UNCHANGED <<cookie, issued, spendable, signedBy, pages, lost>>

\* The browser sends a request with its cookie; every other one now has company.
Send(c, op, role) ==
    /\ cookie # NoSession /\ pages[c] = NoPage
    /\ pages' = [d \in Calls |->
            IF d = c THEN [op |-> op, session |-> cookie, pair |-> cookie, role |-> role,
                           alone |-> \A e \in Calls : pages[e] = NoPage]
            ELSE IF pages[d] = NoPage THEN NoPage
            ELSE [pages[d] EXCEPT !.alone = FALSE]]
    /\ UNCHANGED <<cookie, issued, spendable, due, signedBy, lost>>

\* The routes: the proxy looks whether the token is due, the acceptance of an
\* invitation and the change of the demo role use it as it is.
SendAny(c) == Send(c, "proxy", FALSE) \/ Send(c, "call", FALSE) \/ Send(c, "call", TRUE)

\* The access token is good for another thirty seconds.
UseSession(c) ==
    /\ pages[c].op = "proxy" /\ pages[c].session \notin due
    /\ Goes(c, "call")
    /\ UNCHANGED <<cookie, issued, spendable, due, signedBy, lost>>

\* refresh: the refresh token is exchanged for a new pair, once.
Refresh(c, kid) ==
    LET n == pages[c].session IN
    /\ pages[c].op = "proxy" /\ n \in due
    /\ n \in spendable /\ kid \in published
    /\ Issue(kid)
    /\ spendable' = (spendable \ {n}) \cup {issued + 1}
    /\ Turns(c, [pages[c] EXCEPT !.op = "call", !.pair = issued + 1])
    /\ UNCHANGED <<cookie, due, lost>>

\* A refresh token that was exchanged before is refused: clearSession.
RefreshRefused(c) ==
    /\ pages[c].op = "proxy" /\ pages[c].session \in due \ spendable
    /\ Goes(c, "spent")
    /\ UNCHANGED <<cookie, issued, spendable, due, signedBy, lost>>

\* The token endpoint answers with an error: that counts as a refusal as well.
TokenEndpointFails(c) ==
    /\ pages[c].op = "proxy" /\ pages[c].session \in due
    /\ Goes(c, "refused")
    /\ UNCHANGED <<cookie, issued, spendable, due, signedBy, lost>>

\* The pair that was exchanged for another one, if the answer is to bring that.
Exchanged(page) == IF page.pair # page.session THEN {page.session} ELSE {}

\* An error without a cookie, whether setSession was called or not.
ErrorPage(c) ==
    /\ Turns(c, NoPage)
    /\ lost' = lost \cup Exchanged(pages[c])
    /\ UNCHANGED <<cookie, issued, spendable, due, signedBy>>

\* A fetch of the route throws: that of the token endpoint, before or after the
\* exchange, or that of the API, before the API has seen it.
RouteFails(c) ==
    /\ \/ pages[c].op = "proxy" /\ pages[c].session \in due
       \/ pages[c].op = "call"
    /\ ErrorPage(c)

\* The route calls the API with the access token.
CallApi(c) ==
    /\ pages[c].op = "call"
    /\ BeginCall(c, signedBy[pages[c].pair])
    /\ Goes(c, "api")
    /\ UNCHANGED <<cookie, issued, spendable, due, signedBy, lost>>

\* Mutant: the refreshed pair is used for the call and not written to the cookie.
NeverWritten(page) == NoPage

\* setSession was called: the answer carries the refreshed pair.
Written(page) == IF page.pair # page.session THEN [page EXCEPT !.op = "pair"] ELSE NoPage

\* The route itself refuses the request, for its CSRF token or its path; a
\* session that was refreshed before is kept.
RejectRequest(c) ==
    /\ pages[c].op = "call"
    /\ Turns(c, Written(pages[c]))
    /\ UNCHANGED <<cookie, issued, spendable, due, signedBy, lost>>

\* What the API said, in the cookie of the answer: a 401 clears the session,
\* whatever was set before; a change of the role writes the session it came with
\* when it was granted, and nothing when it was not.
AnswerOf(page, accepted, ok) ==
    IF page.role THEN IF accepted /\ ok THEN [page EXCEPT !.op = "role"] ELSE NoPage
    ELSE IF accepted THEN Written(page) ELSE [page EXCEPT !.op = "refused"]

\* verify: the signature and the claims are checked with the key that was found
\* (valid); the request itself may be granted or not (ok).
ApiAnswers(c, valid, ok) ==
    /\ pages[c].op = "api" /\ calls[c].op = "done"
    /\ Turns(c, AnswerOf(pages[c], calls[c].verdict = "key_found" /\ valid, ok))
    /\ Set(c, NoCall)
    /\ UNCHANGED <<published, keys, fresh, queue, cookie, issued, spendable, due, signedBy, lost>>

\* The API has done its work, and the answer does not arrive: the fetch throws.
ApiAnswerFails(c) ==
    /\ pages[c].op = "api" /\ calls[c].op = "done"
    /\ ErrorPage(c)
    /\ Set(c, NoCall)
    /\ UNCHANGED <<published, keys, fresh, queue>>

\* The browser receives the answer.  A role that was changed together with other
\* requests may write a pair back that one of them has exchanged.
Receive(c) ==
    LET page == pages[c] IN
    /\ page.op \in Answer
    /\ cookie' = CASE page.op = "pair" -> page.pair
                   [] page.op = "role" -> page.session
                   [] OTHER -> NoSession
    /\ lost' = IF page.op = "role" /\ page.session \notin spendable /\ ~page.alone
               THEN lost \cup {page.session} ELSE lost
    /\ Turns(c, NoPage)
    /\ UNCHANGED <<issued, spendable, due, signedBy>>

\* The connection to the browser breaks: the cookie stays as it is.
AnswerLost(c) ==
    /\ pages[c].op \in Answer
    /\ lost' = lost \cup Exchanged(pages[c])
    /\ Turns(c, NoPage)
    /\ UNCHANGED <<cookie, issued, spendable, due, signedBy>>

--------------------------------------------------------------------------------
BrowserStep(c) ==
    \/ SendAny(c) \/ UseSession(c) \/ RefreshRefused(c) \/ TokenEndpointFails(c)
    \/ RouteFails(c) \/ RejectRequest(c) \/ Receive(c) \/ AnswerLost(c)
    \/ \E kid \in Kids : Refresh(c, kid)

Next ==
    \/ /\ \/ \E kid \in Kids : SignIn(kid)
          \/ SignOut
          \/ \E n \in 1..MaxTokens : AccessTokenDue(n)
          \/ \E c \in Calls : BrowserStep(c)
       /\ UNCHANGED keyVars
    \/ \E c \in Calls : \/ CallApi(c) \/ ApiAnswerFails(c)
                         \/ \E valid, ok \in BOOLEAN : ApiAnswers(c, valid, ok)
    \/ /\ KeyStep \/ \E c \in Calls : CallStep(c)
       /\ UNCHANGED sessionVars

Spec == Init /\ [][Next]_vars

--------------------------------------------------------------------------------
(* Properties.                                                              *)

\* Fail closed: a token is verified only with a key of a cache that has not
\* expired when the key is taken; a refresh that fails gives none.
FailClosed ==
    [][\A c \in Calls :
          (calls'[c].op = "done" /\ calls'[c].verdict = "key_found" /\ calls[c].op # "done")
             => fresh' /\ calls'[c].kid \in keys']_vars

\* Rotation: a token whose key was published all the time since the request
\* came in is never refused as signed by an unknown key, although the cache
\* was filled before the key existed and other requests refresh it meanwhile.
PublishedKeysAreKnown ==
    \A c \in Calls : (calls[c].op = "done" /\ calls[c].verdict = "unknown_key") => ~calls[c].steady

\* Requests in progress together may sign the user out, and so may a service that
\* refuses.  A request that has the session for itself does not: it finds a
\* refresh token that was not used, unless that was exchanged in vain before, by
\* a request that ended in an error or whose answer was lost, or an overlapping
\* change of the demo role wrote it back (see lost).
AloneStaysSignedIn ==
    \A c \in Calls : pages[c].op = "spent" => pages[c].session \in lost \/ ~pages[c].alone
=================================================================================
