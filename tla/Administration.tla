------------------------------ MODULE Administration ------------------------------
(***************************************************************************)
(* The members of one organization, the invitations that admit them and    *)
(* the grants they hold (src/backend/app/api/enterprise.py).  A request is *)
(* one database transaction of a few steps under READ COMMITTED: rows it   *)
(* locks with FOR UPDATE stay as read until it commits, everything else it *)
(* read may have changed by then.                                          *)
(***************************************************************************)
EXTENDS Naturals, FiniteSets, AccessControl

CONSTANTS
    Users,          \* subjects the identity provider knows
    Mailbox,        \* [Users -> addresses]: the verified address in their tokens
    Founders,       \* the owners the organization is bootstrapped with
    Seeded,         \* the users that are plain members at the start
    Collections,    \* collections of the organization at the start
    Invitations,    \* identifiers of the invitation rows that may be created
    AskedRoles,     \* organization roles that clients ask for
    AskedStatuses,  \* membership statuses that clients ask for
    Requests,       \* requests that may be in progress at the same time
    MaxRequests,    \* bound: requests that are ever made
    MaxVersion,     \* bound: membership versions that are ever written
    MaxGrantRows,   \* bound: grant rows ever inserted for a member and a collection
    MaxAttempts     \* attempts after which an invitation is unavailable (10 in the code)

MemberStatus == {"active", "suspended", "revoked"}

ASSUME AdministrationAssumption ==
    /\ AskedRoles \subseteq MembershipRole /\ AskedStatuses \subseteq MemberStatus
    /\ Founders \subseteq Users /\ Seeded \subseteq Users \ Founders
    /\ MaxRequests \in Nat /\ MaxVersion \in Nat \ {0} /\ MaxGrantRows \in Nat /\ MaxAttempts \in Nat \ {0}
    /\ NoRow \notin Users \cup Collections \cup Invitations
    /\ NoRow \notin MembershipRole \cup CollectionRole
    /\ \A u \in Users : NoRow # Mailbox[u]

VARIABLES
    accounts,       \* user rows: "none", "seeded" (no address) or "joined" (address kept)
    members,        \* membership rows by user, NoRow while there is none
    invitations,    \* invitation rows, NoRow while the identifier is unused
    grants,         \* collection grants by user and collection: the role, NoRow while
                    \* there is no row, and which of the rows inserted so far it is
    collections,    \* the collections that exist
    begun,          \* requests made so far
    requests,       \* what each request in progress has read so far
    trail           \* audit events: <<action, the row it is about>>

vars == <<accounts, members, invitations, grants, collections, begun, requests, trail>>
rows == <<accounts, members, invitations, grants, collections, trail>>

InvitationStatus == {"pending", "accepted", "expired", "revoked", "replaced", "removed"}
Member == [role : MembershipRole, status : MemberStatus, version : 1..MaxVersion]
Addresses == {Mailbox[u] : u \in Users}
Invitation == [email : Addresses \cup {NoRow},      \* NoRow: redacted
               role : MembershipRole, status : InvitationStatus,
               live : BOOLEAN,      \* the link handed out still names this row
               due : BOOLEAN,       \* expires_at has passed
               attempts : 0..MaxAttempts, accepted_by : Users \cup {NoRow},
               initial_grants : SUBSET Collections]

\* What an invitation offers.
Terms(row) == [email |-> row.email, role |-> row.role, given |-> row.initial_grants]
Offer == [email : Addresses \cup {NoRow}, role : MembershipRole, given : SUBSET Collections]

\* A row is not the marker of an absent one.
ASSUME RowAssumption == NoRow \notin Member \cup Invitation \cup Offer

Grant == [role : CollectionRole \cup {NoRow}, row : 0..MaxGrantRows]

Idle == [op |-> "idle"]

NewMember(role) == [role |-> role, status |-> "active", version |-> 1]

NewInvitation(email, role, given) ==
    [email |-> email, role |-> role, status |-> "pending", live |-> TRUE, due |-> FALSE,
     attempts |-> 0, accepted_by |-> NoRow, initial_grants |-> given]

Init ==
    /\ accounts = [u \in Users |-> IF u \in Founders \cup Seeded THEN "seeded" ELSE "none"]
    /\ members = [u \in Users |-> IF u \in Founders THEN NewMember("owner")
                                 ELSE IF u \in Seeded THEN NewMember("member") ELSE NoRow]
    /\ invitations = [i \in Invitations |-> NoRow]
    /\ grants = [u \in Users |-> [c \in Collections |-> [role |-> NoRow, row |-> 0]]]
    /\ collections = Collections
    /\ begun = 0
    /\ requests = [r \in Requests |-> Idle]
    /\ trail = {}

--------------------------------------------------------------------------------
(* Transactions: the rows a request holds FOR UPDATE, and how it ends.      *)

\* Mutant: the target of a change is read without FOR UPDATE.
MemberNeverLocked(u) == FALSE

MemberLocked(u) == \E q \in Requests :
    requests[q].op = "member.commit" /\ requests[q].target = u

\* Mutant: the invitation is read without FOR UPDATE.
InvitationNeverLocked(i) == FALSE

InvitationLocked(i) == \E q \in Requests :
    requests[q].op \in {"accept.join", "accept.commit"} /\ requests[q].target = i

\* The account row is locked, or an insert of the same address is not decided yet.
AccountLocked(u) == \E q \in Requests :
    /\ requests[q].op = "accept.commit"
    /\ LET v == requests[q].actor IN
       v = u \/ (accounts[u] = "none" /\ accounts[v] = "none" /\ Mailbox[v] = Mailbox[u])

Goes(r, state) == requests' = [requests EXCEPT ![r] = state]
Ends(r) == Goes(r, Idle)

\* A request comes in.
Begins(r) == requests[r] = Idle /\ begun < MaxRequests /\ begun' = begun + 1

\* A response without a commit: early return, refusal or a constraint violation (500).
Refused(r) == Ends(r) /\ UNCHANGED rows

Audit(action, row) == trail' = trail \cup {<<action, row>>}
Write(i, fields) == invitations' = [invitations EXCEPT ![i] = fields]

(***************************************************************************)
(* _admin / require_membership: every administrative request first reads   *)
(* its actor's membership, without locking it.                             *)
(***************************************************************************)
AdminOps == {"member.lock", "create.check", "list.read", "edit", "remove", "replace",
             "revoke"}

\* The versions the client was shown before it asked for a change of a member.
SeenBy(op) == [u \in Users |-> IF op = "member.lock" /\ members[u] # NoRow
                               THEN members[u].version ELSE 0]

Authorize(r, op, a, preview) ==
    /\ Begins(r)
    /\ op \in AdminOps
    /\ PreviewAllowed(members[a], preview)
    /\ MembershipAllows(members[a], preview, "MANAGE_MEMBERS")
    /\ Goes(r, [op |-> op, actor |-> a, role |-> members[a].role, seen |-> SeenBy(op)])
    /\ UNCHANGED rows

--------------------------------------------------------------------------------
(* Members.                                                                 *)

ActiveOwners == {u \in Users : ActiveMember(members[u]) /\ members[u].role = "owner"}

\* Mutant: the version is not incremented.
UpdatedInPlace(row, role, status) ==
    [role |-> IF role = NoRow THEN row.role ELSE role,
     status |-> IF status = NoRow THEN row.status ELSE status,
     version |-> row.version]

\* What a member becomes: a role or a status the request leaves out stays.
Updated(row, role, status) ==
    [role |-> IF role = NoRow THEN row.role ELSE role,
     status |-> IF status = NoRow THEN row.status ELSE status,
     version |-> row.version + 1]

RemovesOwner(row, role, status) ==
    row.role = "owner" /\ (role \notin {NoRow, "owner"} \/ status \in {"suspended", "revoked"})

\* Mutant: expected_version is not compared.
AnyVersionWillDo(seen, row) == TRUE

\* expected_version is the version of the row.
UpToDate(seen, row) == seen = row.version

\* update_member: lock the target, compare the version the client saw with
\* the row's, and count the active owners without locking their rows.  Only an
\* update that goes through meets the bound: every other one is refused.
LockMember(r, u, role, status) ==
    LET q == requests[r] IN
    /\ q.op = "member.lock"
    /\ ~MemberLocked(u)
    /\ IF /\ members[u] # NoRow
          /\ u # q.actor
          /\ UpToDate(q.seen[u], members[u])
          /\ role = "owner" => q.role = "owner"
          /\ RemovesOwner(members[u], role, status) => Cardinality(ActiveOwners) # 1
       THEN /\ members[u].version < MaxVersion
            /\ Goes(r, [op |-> "member.commit", actor |-> q.actor, target |-> u,
                        seen |-> q.seen[u],
                        next |-> Updated(members[u], role, status)])
            /\ UNCHANGED rows
       ELSE Refused(r)

CommitMember(r) ==
    LET q == requests[r] IN
    /\ q.op = "member.commit"
    /\ members' = [members EXCEPT ![q.target] = q.next]
    /\ Audit("membership.changed", q.target)
    /\ Ends(r)
    /\ UNCHANGED <<accounts, invitations, grants, collections>>

--------------------------------------------------------------------------------
(* Invitations.                                                             *)

Pending(i) == invitations[i] # NoRow /\ invitations[i].status = "pending"

MayInvite(q, role, given) == (role = "owner" => q.role = "owner") /\ given \subseteq collections

\* create_invitation looks for a pending invitation of the address, then
\* inserts: nothing but this query keeps two of them apart.
CheckPending(r, email, role, given) ==
    LET q == requests[r] IN
    /\ q.op = "create.check"
    /\ IF /\ MayInvite(q, role, given)
          /\ ~\E i \in Invitations : Pending(i) /\ ~invitations[i].due
                                       /\ invitations[i].email = email
       THEN /\ Goes(r, [op |-> "create.commit",
                        next |-> NewInvitation(email, role, given)])
            /\ UNCHANGED rows
       ELSE Refused(r)

CommitInvitation(r, i) ==
    LET q == requests[r] IN
    /\ q.op = "create.commit"
    /\ invitations[i] = NoRow
    /\ Write(i, q.next)
    /\ Audit("invitation.created", i)
    /\ Ends(r)
    /\ UNCHANGED <<accounts, members, grants, collections>>

\* The list route first selects the pending invitations that are past their
\* expiry, without locking them, and then writes each of them by its key.
ReadExpired(r) ==
    /\ requests[r].op = "list.read"
    /\ Goes(r, [op |-> "list.commit",
                expired |-> {i \in Invitations : Pending(i) /\ invitations[i].due}])
    /\ UNCHANGED rows

CommitExpired(r) ==
    LET expired == requests[r].expired IN
    /\ requests[r].op = "list.commit"
    /\ \A i \in expired : ~InvitationLocked(i)
    /\ invitations' = [i \in Invitations |->
            IF i \in expired THEN [invitations[i] EXCEPT !.status = "expired"]
                             ELSE invitations[i]]
    /\ trail' = trail \cup {<<"invitation.expired", i>> : i \in expired}
    /\ Ends(r)
    /\ UNCHANGED <<accounts, members, grants, collections>>

\* update_invitation, same address: the pending row changes in place.
EditInPlace(r, i, role, given) ==
    LET q == requests[r] IN
    /\ q.op = "edit"
    /\ Pending(i) /\ ~InvitationLocked(i)
    /\ MayInvite(q, role, given)
    /\ Write(i, [invitations[i] EXCEPT !.role = role, !.initial_grants = given])
    /\ Audit("invitation.edited", i)
    /\ Ends(r)
    /\ UNCHANGED <<accounts, members, grants, collections>>

\* A row gives way to a fresh one with a fresh link.
Supersede(i, j, successor) ==
    /\ invitations[j] = NoRow
    /\ invitations' = [invitations EXCEPT ![i].status = "replaced", ![j] = successor]

\* update_invitation, another address.
EditAddress(r, i, j, email, role, given) ==
    LET q == requests[r] IN
    /\ q.op = "edit"
    /\ Pending(i) /\ ~InvitationLocked(i)
    /\ email # invitations[i].email
    /\ MayInvite(q, role, given)
    /\ Supersede(i, j, NewInvitation(email, role, given))
    /\ Audit("invitation.edited", i)
    /\ Ends(r)
    /\ UNCHANGED <<accounts, members, grants, collections>>

ReplaceInvitation(r, i, j) ==
    LET old == invitations[i] IN
    /\ requests[r].op = "replace"
    /\ old # NoRow /\ ~InvitationLocked(i)
    /\ old.status \in {"pending", "expired"}
    /\ Supersede(i, j, NewInvitation(old.email, old.role, old.initial_grants))
    /\ Audit("invitation.replaced", i)
    /\ Ends(r)
    /\ UNCHANGED <<accounts, members, grants, collections>>

\* remove_invitation: the link stops naming the row and the address goes.
RemoveInvitation(r, i) ==
    /\ requests[r].op = "remove"
    /\ invitations[i] # NoRow /\ ~InvitationLocked(i)
    /\ invitations[i].status \notin {"removed", "accepted"}
    /\ Write(i, [invitations[i] EXCEPT !.status = "removed", !.live = FALSE, !.email = NoRow])
    /\ Audit("invitation.removed", i)
    /\ Ends(r)
    /\ UNCHANGED <<accounts, members, grants, collections>>

RevokeInvitation(r, i) ==
    /\ requests[r].op = "revoke"
    /\ Pending(i) /\ ~InvitationLocked(i)
    /\ Write(i, [invitations[i] EXCEPT !.status = "revoked"])
    /\ Audit("invitation.revoked", i)
    /\ Ends(r)
    /\ UNCHANGED <<accounts, members, grants, collections>>

\* What the four handlers above answer to an unknown row, a row that is not
\* in the state they need, or claims the actor may not give: nothing is written.
RefuseInvitationChange(r) ==
    /\ requests[r].op \in {"edit", "replace", "remove", "revoke"}
    /\ Refused(r)

\* Time passes the expiry of an invitation.
Expire(i) ==
    /\ invitations[i] # NoRow /\ ~invitations[i].due
    /\ Write(i, [invitations[i] EXCEPT !.due = TRUE])
    /\ UNCHANGED <<accounts, members, grants, collections, requests, trail>>

--------------------------------------------------------------------------------
(* accept_invitation.  The row is found by its token and locked.            *)

Granted(u, c) == grants[u][c].role # NoRow
Inserted(grant, role) == [role |-> role, row |-> grant.row + 1]
Deleted(grant) == [grant EXCEPT !.role = NoRow]

\* The row an acceptance starts from; a spent or an accepted one is answered
\* at once (410, or the same answer again for the subject it admitted).
Reachable(i) ==
    /\ invitations[i] # NoRow
    /\ invitations[i].live
    /\ ~InvitationLocked(i)
    /\ invitations[i].attempts < MaxAttempts
    /\ invitations[i].status # "accepted"

Counted(i) == [invitations[i] EXCEPT !.attempts = @ + 1]

\* Not pending, or past its expiry: the attempt is counted, and an expired row says so.
AcceptUnavailable(r, i) ==
    LET late == invitations[i].status = "pending" /\ invitations[i].due IN
    /\ Begins(r)
    /\ Reachable(i)
    /\ late \/ invitations[i].status # "pending"
    /\ Write(i, [Counted(i) EXCEPT !.status = IF late THEN "expired" ELSE @])
    /\ trail' = IF late THEN trail \cup {<<"invitation.expired", i>>} ELSE trail
    /\ UNCHANGED <<accounts, members, grants, collections, requests>>

\* Another address than the invited one: the attempt is counted.
AcceptMismatch(r, u, i) ==
    /\ Begins(r)
    /\ Reachable(i) /\ Pending(i) /\ ~invitations[i].due
    /\ invitations[i].email # Mailbox[u]
    /\ Write(i, Counted(i))
    /\ UNCHANGED <<accounts, members, grants, collections, requests, trail>>

\* The invited subject: the row stays locked while the account is looked up.
AcceptMatch(r, u, i) ==
    /\ Begins(r)
    /\ Reachable(i) /\ Pending(i) /\ ~invitations[i].due
    /\ invitations[i].email = Mailbox[u]
    /\ Goes(r, [op |-> "accept.join", actor |-> u, target |-> i,
                found |-> accounts[u] # "none"])
    /\ UNCHANGED rows

\* The account row is locked, or inserted: its subject and its address are
\* unique, and the insert fails when someone else's came first.
InsertConflicts(u) ==
    accounts[u] # "none" \/ \E v \in Users : accounts[v] = "joined" /\ Mailbox[v] = Mailbox[u]

AcceptJoin(r) ==
    LET q == requests[r]  u == q.actor  i == q.target
        missing == {c \in invitations[i].initial_grants : ~Granted(u, c)} IN
    /\ q.op = "accept.join"
    /\ ~AccountLocked(u)
    /\ IF ~q.found /\ InsertConflicts(u)
       THEN Refused(r)
       ELSE IF members[u] # NoRow /\ members[u].status = "revoked"
       THEN /\ Write(i, Counted(i))
            /\ Ends(r)
            /\ UNCHANGED <<accounts, members, grants, collections, trail>>
       ELSE /\ Goes(r, [op |-> "accept.commit", actor |-> u, target |-> i,
                        joins |-> members[u] = NoRow, missing |-> missing])
            /\ UNCHANGED rows

\* Mutant: the rows are upserted.
AcceptUpserts(q) == \E c \in q.missing : c \notin collections

\* The rows an acceptance adds, or nothing at all: a collection that is gone
\* and a row someone inserted since it was looked for fail the transaction.
AcceptFails(q) ==
    \/ q.joins /\ members[q.actor] # NoRow
    \/ \E c \in q.missing : c \notin collections \/ Granted(q.actor, c)

AcceptCommit(r) ==
    LET q == requests[r]  u == q.actor  i == q.target IN
    /\ q.op = "accept.commit"
    /\ q.missing # {} => ~MemberLocked(u)
    /\ \A c \in q.missing : grants[u][c].row < MaxGrantRows
    /\ IF AcceptFails(q)
       THEN Refused(r)
       ELSE /\ accounts' = [accounts EXCEPT ![u] = IF @ = "none" THEN "joined" ELSE @]
            /\ members' = [members EXCEPT ![u] = IF q.joins THEN NewMember(invitations[i].role)
                                                            ELSE @]
            /\ grants' = [grants EXCEPT ![u] = [c \in Collections |->
                              IF c \in q.missing THEN Inserted(@[c], "viewer") ELSE @[c]]]
            /\ Write(i, [Counted(i) EXCEPT !.status = "accepted", !.accepted_by = u])
            /\ Audit("invitation.accepted", i)
            /\ Ends(r)
            /\ UNCHANGED collections

--------------------------------------------------------------------------------
(* Grants.                                                                  *)

\* put_grant and delete_grant look the grant up without locking anything.
ReadGrant(r, op, a, preview, u, c, role) ==
    /\ Begins(r)
    /\ c \in collections
    /\ PreviewAllowed(members[a], preview)
    /\ CollectionAllows(members[a], grants[a][c].role, preview, "MANAGE_GRANTS")
    /\ IF op = "grant.put" THEN ActiveMember(members[u]) ELSE Granted(u, c)
    /\ Goes(r, [op |-> op, target |-> u, collection |-> c, role |-> role,
                found |-> grants[u][c]])
    /\ UNCHANGED rows

\* The row that was found is still there.
StillThere(q) ==
    Granted(q.target, q.collection) /\ grants[q.target][q.collection].row = q.found.row

WriteGrant(q, action, grant) ==
    /\ grants' = [grants EXCEPT ![q.target][q.collection] = grant]
    /\ Audit(action, q.target)
    /\ UNCHANGED <<accounts, members, invitations, collections>>

\* The session writes the role only when it differs from the one it read: the
\* update then fails if the row is gone, and without an update nothing is noticed.
ChangeGrant(r) ==
    LET q == requests[r]  grant == grants[q.target][q.collection] IN
    /\ q.op = "grant.put" /\ q.found.role # NoRow
    /\ IF q.role = q.found.role
       THEN WriteGrant(q, "collection_grant.changed", grant)
       ELSE IF StillThere(q)
       THEN WriteGrant(q, "collection_grant.changed", [grant EXCEPT !.role = q.role])
       ELSE UNCHANGED rows
    /\ Ends(r)

\* An insert waits for the membership row it refers to, and fails when another
\* grant came first or the collection went.
InsertGrant(r) ==
    LET q == requests[r] IN
    /\ q.op = "grant.put" /\ q.found.role = NoRow
    /\ ~MemberLocked(q.target)
    /\ grants[q.target][q.collection].row < MaxGrantRows
    /\ IF q.collection \in collections /\ ~Granted(q.target, q.collection)
       THEN WriteGrant(q, "collection_grant.changed",
                       Inserted(grants[q.target][q.collection], q.role))
       ELSE UNCHANGED rows
    /\ Ends(r)

\* A delete of a row that is gone is not noticed: the event is written all the same.
DeleteGrant(r) ==
    LET q == requests[r]  grant == grants[q.target][q.collection] IN
    /\ q.op = "grant.delete"
    /\ WriteGrant(q, "collection_grant.removed", IF StillThere(q) THEN Deleted(grant) ELSE grant)
    /\ Ends(r)

\* A member, or a preview, without the collection permission: the refusal is recorded.
DenyGrant(r, a, preview, c) ==
    /\ Begins(r)
    /\ c \in collections
    /\ ActiveMember(members[a]) /\ PreviewAllowed(members[a], preview)
    /\ ~CollectionAllows(members[a], grants[a][c].role, preview, "MANAGE_GRANTS")
    /\ Audit("authorization.denied", c)
    /\ UNCHANGED <<accounts, members, invitations, grants, collections, requests>>

\* A collection is deleted (identity.py) and its grants with it.
RemoveCollection(c) ==
    /\ c \in collections
    /\ collections' = collections \ {c}
    /\ grants' = [u \in Users |-> [grants[u] EXCEPT ![c] = Deleted(@)]]
    /\ UNCHANGED <<accounts, members, invitations, requests, trail>>

--------------------------------------------------------------------------------
Previews == {NoRow} \cup DemoRole

Arrives(r) ==
    \/ \E a \in Users, op \in AdminOps, preview \in Previews : Authorize(r, op, a, preview)
    \/ \E i \in Invitations : \/ AcceptUnavailable(r, i)
                              \/ \E u \in Users : AcceptMismatch(r, u, i) \/ AcceptMatch(r, u, i)
    \/ \E a, u \in Users, c \in Collections, preview \in Previews :
            \/ \E role \in CollectionRole : ReadGrant(r, "grant.put", a, preview, u, c, role)
            \/ ReadGrant(r, "grant.delete", a, preview, u, c, NoRow)
            \/ DenyGrant(r, a, preview, c)

Continues(r) ==
    \/ \E u \in Users, role \in {NoRow} \cup AskedRoles, status \in {NoRow} \cup AskedStatuses :
            LockMember(r, u, role, status)
    \/ CommitMember(r)
    \/ \E email \in Addresses, role \in AskedRoles, given \in SUBSET Collections :
            \/ CheckPending(r, email, role, given)
            \/ \E i, j \in Invitations : \/ EditInPlace(r, i, role, given)
                                         \/ EditAddress(r, i, j, email, role, given)
    \/ \E i, j \in Invitations : \/ CommitInvitation(r, i)
                                 \/ RemoveInvitation(r, i)
                                 \/ RevokeInvitation(r, i)
                                 \/ ReplaceInvitation(r, i, j)
    \/ ReadExpired(r) \/ CommitExpired(r) \/ RefuseInvitationChange(r)
    \/ AcceptJoin(r) \/ AcceptCommit(r)
    \/ ChangeGrant(r) \/ InsertGrant(r) \/ DeleteGrant(r)

Surroundings ==
    \/ \E i \in Invitations : Expire(i)
    \/ \E c \in Collections : RemoveCollection(c)

Next ==
    \/ \E r \in Requests : Arrives(r)
    \/ \E r \in Requests : Continues(r) /\ UNCHANGED begun
    \/ Surroundings /\ UNCHANGED begun

Spec == Init /\ [][Next]_vars

--------------------------------------------------------------------------------
(* Properties.                                                              *)

RequestState ==
    {Idle}
    \cup [op : AdminOps, actor : Users, role : MembershipRole, seen : [Users -> 0..MaxVersion]]
    \cup [op : {"member.commit"}, actor : Users, target : Users, seen : 1..MaxVersion,
          next : Member]
    \cup [op : {"create.commit"}, next : Invitation]
    \cup [op : {"list.commit"}, expired : SUBSET Invitations]
    \cup [op : {"accept.join"}, actor : Users, target : Invitations, found : BOOLEAN]
    \cup [op : {"accept.commit"}, actor : Users, target : Invitations, joins : BOOLEAN,
          missing : SUBSET Collections]
    \cup [op : {"grant.put"}, target : Users, collection : Collections,
          role : CollectionRole, found : Grant]
    \cup [op : {"grant.delete"}, target : Users, collection : Collections,
          role : {NoRow}, found : Grant]

Action == {"membership.changed", "invitation.created", "invitation.expired",
           "invitation.edited", "invitation.replaced", "invitation.removed",
           "invitation.revoked", "invitation.accepted", "collection_grant.changed",
           "collection_grant.removed", "authorization.denied"}

\* Every variable has its type; in particular a membership version never
\* passes the bound and an invitation counts at most MaxAttempts attempts.
TypeOK ==
    /\ accounts \in [Users -> {"none", "seeded", "joined"}]
    /\ members \in [Users -> Member \cup {NoRow}]
    /\ invitations \in [Invitations -> Invitation \cup {NoRow}]
    /\ grants \in [Users -> [Collections -> Grant]]
    /\ collections \subseteq Collections
    /\ begun \in 0..MaxRequests
    /\ requests \in [Requests -> RequestState]
    /\ trail \subseteq (Action \X (Users \cup Invitations \cup Collections))

\* The event of the status an invitation is in.
EndIsTold(i) ==
    /\ invitations[i].status = "accepted" => invitations[i].accepted_by # NoRow
    /\ invitations[i].status = "expired" => <<"invitation.expired", i>> \in trail
    /\ invitations[i].status = "revoked" => <<"invitation.revoked", i>> \in trail
    /\ invitations[i].status = "removed" => ~invitations[i].live
    /\ invitations[i].status = "replaced" =>
          {<<"invitation.replaced", i>>, <<"invitation.edited", i>>} \cap trail # {}

\* A grant was given by a change or by an acceptance, and was taken by a removal
\* or went with its collection.
GrantIsTold(u, c) ==
    /\ Granted(u, c) => \/ <<"collection_grant.changed", u>> \in trail
                        \/ \E i \in Invitations : /\ invitations[i] # NoRow
                                                  /\ invitations[i].accepted_by = u
    /\ (c \in collections /\ grants[u][c].row # 0 /\ ~Granted(u, c)) =>
          <<"collection_grant.removed", u>> \in trail

\* The event of a member that changed, of a subject that came in, and of an
\* invitation that was made, accepted or removed.
MembersAreTold ==
    /\ \A u \in Users : members[u] # NoRow =>
          (<<"membership.changed", u>> \in trail <=> members[u].version > 1)
    /\ \A u \in Users \ (Founders \cup Seeded) : members[u] # NoRow =>
          \E i \in Invitations : /\ <<"invitation.accepted", i>> \in trail
                                /\ invitations[i].accepted_by = u
    /\ \A i \in Invitations : invitations[i] # NoRow =>
          /\ <<"invitation.created", i>> \in trail \/ \E j \in Invitations \ {i} :
                {<<"invitation.replaced", j>>, <<"invitation.edited", j>>} \cap trail # {}
          /\ <<"invitation.accepted", i>> \in trail <=> invitations[i].accepted_by # NoRow
          /\ <<"invitation.removed", i>> \in trail <=> ~invitations[i].live

\* No change stays that the audit trail does not tell: of a membership, an
\* invitation or a grant, whatever other requests wrote in between (_audit adds
\* the event to the transaction of the change).  Changes of a member, acceptances
\* and removals are told only if they were made.  Expiries and grants are not:
\* the sweep of the list route writes over a row that was accepted meanwhile, and
\* a grant that is gone is changed or removed once more (enterprise.py:890, 930).
TrailTellsEveryChange ==
    /\ MembersAreTold
    /\ \A i \in Invitations : invitations[i] # NoRow => EndIsTold(i)
    /\ \A u \in Users, c \in Collections : GrantIsTold(u, c)

\* An invitation admits one subject, and only while it is pending and its
\* link has not been withdrawn: whatever replaced, revoked, removed or expired
\* it before the acceptance commits wins (the row lock of accept_invitation).
AdmitsOnce ==
    [][\A i \in Invitations : invitations[i] # NoRow =>
          \/ invitations'[i].accepted_by = invitations[i].accepted_by
          \/ /\ invitations[i].accepted_by = NoRow
             /\ invitations[i].status = "pending" /\ invitations[i].live]_vars

\* A membership changes only for a client that had seen its latest version
\* (expected_version in update_member): no change of a member is lost.
NoLostUpdate ==
    [][\A u \in Users : (members[u] # NoRow /\ members'[u] # members[u]) =>
          \E r \in Requests : /\ requests[r].op = "member.commit"
                              /\ requests[r].target = u
                              /\ requests[r].seen = members[u].version]_vars

\* An acceptance never changes what the subject already holds: not a role, not
\* a suspension or revocation, not a grant an administrator gave meanwhile.
AcceptanceOnlyAdds ==
    [][\A i \in Invitations :
         (invitations[i] # NoRow /\ invitations[i].accepted_by = NoRow
            /\ invitations'[i].accepted_by # NoRow) =>
         \A u \in Users : /\ members[u] # NoRow => members'[u] = members[u]
                         /\ \A c \in Collections : Granted(u, c) => grants'[u][c] = grants[u][c]
      ]_vars

--------------------------------------------------------------------------------
(* The administration as its members know it.                               *)

\* The invitations that may still be accepted, and those that can be no more.
OpenOffers == [i \in Invitations |-> IF Pending(i) THEN Terms(invitations[i]) ELSE NoRow]
Spent == {i \in Invitations : invitations[i] # NoRow /\ ~Pending(i)}
Admitted == [i \in Invitations |->
    IF invitations[i] = NoRow THEN NoRow ELSE invitations[i].accepted_by]
Held == [u \in Users |-> [c \in Collections |-> grants[u][c].role]]

\* Requests of several steps, with locks on some rows and none on others, change
\* members, invitations and grants as if each change were made at once, from
\* the rows of that moment (the routes of api/enterprise.py).
Register == INSTANCE MembershipRegister WITH
    offers <- OpenOffers, spent <- Spent, admitted <- Admitted, held <- Held,
    Roles <- MembershipRole, Statuses <- MemberStatus, GrantRoles <- CollectionRole
ImplementsMembershipRegister == Register!Spec

\* The last active owner stays: there is always one.
AnOwnerRemains == ActiveOwners # {}

\* An accepted invitation stays accepted: the subject is managed as a member.
AcceptedStays ==
    \A i \in Invitations : (invitations[i] # NoRow /\ invitations[i].accepted_by # NoRow) =>
        invitations[i].status = "accepted"
=================================================================================
