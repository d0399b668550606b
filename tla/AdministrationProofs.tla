--------------------------- MODULE AdministrationProofs ---------------------------
(***************************************************************************)
(* What concurrent administrative requests keep, proved for any users,     *)
(* invitations and requests: the row locks make an acceptance single and a *)
(* change of a member versioned, and the audit trail tells the history.    *)
(***************************************************************************)
EXTENDS Administration, TLAPS

--------------------------------------------------------------------------------
(* The inductive invariant, part by part.                                   *)

\* A pending invitation has a link and has admitted nobody.
PendingIsOpen ==
    \A i \in Invitations : Pending(i) => invitations[i].live /\ invitations[i].accepted_by = NoRow

Accepting(r) == requests[r].op \in {"accept.join", "accept.commit"}

\* The invitation that is being accepted stays as it was read, for one request.
AcceptorHolds ==
    \A r \in Requests : Accepting(r) =>
        /\ Pending(requests[r].target)
        /\ invitations[requests[r].target].attempts < MaxAttempts
        /\ \A s \in Requests : Accepting(s) /\ requests[s].target = requests[r].target => s = r

Changing(r) == requests[r].op = "member.commit"

\* The member that is being changed stays at the version that was compared.
ChangerHolds ==
    \A r \in Requests : Changing(r) =>
        /\ members[requests[r].target] # NoRow
        /\ members[requests[r].target].version = requests[r].seen
        /\ requests[r].next.version = requests[r].seen + 1
        /\ \A s \in Requests : Changing(s) /\ requests[s].target = requests[r].target => s = r

\* There is no event about a row that was never inserted.
NothingBeforeTheRow ==
    /\ \A u \in Users : members[u] = NoRow => <<"membership.changed", u>> \notin trail
    /\ \A i \in Invitations : invitations[i] = NoRow =>
          <<"invitation.accepted", i>> \notin trail /\ <<"invitation.removed", i>> \notin trail

\* An invitation that is about to be inserted is open.
NewIsOpen ==
    \A r \in Requests : requests[r].op = "create.commit" =>
        requests[r].next.live /\ requests[r].next.accepted_by = NoRow

\* The invitations that are about to expire are there.
ExpiredStand ==
    \A r \in Requests : requests[r].op = "list.commit" =>
        \A i \in requests[r].expired : invitations[i] # NoRow

RowsInv == PendingIsOpen /\ MembersAreTold /\ NothingBeforeTheRow

IInv == TypeOK /\ RowsInv /\ AcceptorHolds /\ ChangerHolds /\ NewIsOpen /\ ExpiredStand

--------------------------------------------------------------------------------
(* The rows and the requests by their types.                                *)
LEMMA RequestFields ==
  ASSUME NEW q \in RequestState
  PROVE  /\ q.op \in {"idle", "member.commit", "create.commit", "list.commit", "accept.join",
                      "accept.commit", "grant.put", "grant.delete"} \cup AdminOps
         /\ q.op \in AdminOps => /\ q.actor \in Users /\ q.role \in MembershipRole
                                 /\ q.seen \in [Users -> 0..MaxVersion]
         /\ q.op = "member.commit" => /\ q.actor \in Users /\ q.target \in Users
                                      /\ q.seen \in 1..MaxVersion /\ q.next \in Member
         /\ q.op = "create.commit" => q.next \in Invitation
         /\ q.op = "list.commit" => q.expired \in SUBSET Invitations
         /\ q.op = "accept.join" => /\ q.actor \in Users /\ q.target \in Invitations
                                    /\ q.found \in BOOLEAN
         /\ q.op = "accept.commit" => /\ q.actor \in Users /\ q.target \in Invitations
                                      /\ q.joins \in BOOLEAN /\ q.missing \in SUBSET Collections
         /\ q.op \in {"grant.put", "grant.delete"} =>
              /\ q.target \in Users /\ q.collection \in Collections
              /\ q.role \in CollectionRole \cup {NoRow} /\ q.found \in Grant
         /\ q.op = "grant.put" => q.role \in CollectionRole
BY DEF RequestState, Idle, AdminOps

\* An invitation row, field by field.
LEMMA InvitationFields ==
  ASSUME NEW row \in Invitation
  PROVE  /\ row = [email |-> row.email, role |-> row.role, status |-> row.status,
                   live |-> row.live, due |-> row.due, attempts |-> row.attempts,
                   accepted_by |-> row.accepted_by, initial_grants |-> row.initial_grants]
         /\ row.email \in Addresses \cup {NoRow} /\ row.role \in MembershipRole
         /\ row.status \in InvitationStatus /\ row.live \in BOOLEAN /\ row.due \in BOOLEAN
         /\ row.attempts \in 0..MaxAttempts /\ row.accepted_by \in Users \cup {NoRow}
         /\ row.initial_grants \in SUBSET Collections
BY DEF Invitation

\* One request moves on, the others stay.
LEMMA RequestGoes ==
  ASSUME requests \in [Requests -> RequestState], NEW r \in Requests,
         NEW state \in RequestState, Goes(r, state)
  PROVE  /\ requests' \in [Requests -> RequestState] /\ requests'[r] = state
         /\ \A s \in Requests : s # r => requests'[s] = requests[s]
BY DEF Goes

\* A new invitation is pending, open and of the type of the rows.
LEMMA NewInvitationType ==
  ASSUME NEW email \in Addresses \cup {NoRow}, NEW role \in MembershipRole,
         NEW given \in SUBSET Collections
  PROVE  /\ NewInvitation(email, role, given) \in Invitation
         /\ NewInvitation(email, role, given).status = "pending"
         /\ NewInvitation(email, role, given).live
         /\ NewInvitation(email, role, given).accepted_by = NoRow
BY AdministrationAssumption DEF NewInvitation, Invitation, InvitationStatus

--------------------------------------------------------------------------------
(* Requests that only read.                                                 *)

\* A request goes on without writing: what it locks is free, and as it read it.
LEMMA ReadKeeps ==
  ASSUME IInv, NEW r \in Requests, NEW state \in RequestState, Goes(r, state), UNCHANGED rows,
         begun' \in 0..MaxRequests,
         state.op = "member.commit" =>
            /\ members[state.target] # NoRow /\ members[state.target].version = state.seen
            /\ state.next.version = state.seen + 1
            /\ \A s \in Requests \ {r} : Changing(s) => requests[s].target # state.target,
         state.op \in {"accept.join", "accept.commit"} =>
            /\ Pending(state.target) /\ invitations[state.target].attempts < MaxAttempts
            /\ \A s \in Requests \ {r} : Accepting(s) => requests[s].target # state.target,
         state.op = "create.commit" => state.next.live /\ state.next.accepted_by = NoRow,
         state.op = "list.commit" => \A i \in state.expired : invitations[i] # NoRow
  PROVE  IInv'
<1> USE DEF IInv
<1>1. /\ requests' \in [Requests -> RequestState] /\ requests'[r] = state
      /\ \A s \in Requests : s # r => requests'[s] = requests[s]
  BY RequestGoes DEF TypeOK
<1>2. UNCHANGED <<accounts, members, invitations, grants, collections, trail>>
  BY DEF rows
<1>3. TypeOK'
  BY <1>1, <1>2 DEF TypeOK
<1>4. RowsInv'
  BY <1>2 DEF RowsInv, PendingIsOpen, Pending, MembersAreTold, NothingBeforeTheRow
<1>5. AcceptorHolds'
  <2> SUFFICES ASSUME NEW q \in Requests, Accepting(q)'
               PROVE  /\ Pending(requests'[q].target)
                      /\ invitations[requests'[q].target].attempts < MaxAttempts
                      /\ \A s \in Requests : Accepting(s)' /\ requests'[s].target = requests'[q].target
                           => s = q
    BY <1>2 DEF AcceptorHolds, Pending
  <2>1. CASE q = r
    BY <1>1, <2>1 DEF Accepting
  <2>2. CASE q # r
    BY <1>1, <2>2 DEF Accepting, AcceptorHolds
  <2> QED
    BY <2>1, <2>2
<1>6. ChangerHolds'
  <2> SUFFICES ASSUME NEW q \in Requests, Changing(q)'
               PROVE  /\ members[requests'[q].target] # NoRow
                      /\ members[requests'[q].target].version = requests'[q].seen
                      /\ requests'[q].next.version = requests'[q].seen + 1
                      /\ \A s \in Requests : Changing(s)' /\ requests'[s].target = requests'[q].target
                           => s = q
    BY <1>2 DEF ChangerHolds
  <2>1. CASE q = r
    BY <1>1, <2>1 DEF Changing
  <2>2. CASE q # r
    BY <1>1, <2>2 DEF Changing, ChangerHolds
  <2> QED
    BY <2>1, <2>2
<1>7. NewIsOpen' /\ ExpiredStand'
  BY <1>1, <1>2 DEF NewIsOpen, ExpiredStand
<1> QED
  BY <1>3, <1>4, <1>5, <1>6, <1>7

--------------------------------------------------------------------------------
(* Requests that write invitations, but accept none.                        *)

\* What such a request may do to one invitation.
RowKept(i) ==
    /\ invitations[i] # NoRow =>
          /\ invitations'[i] # NoRow
          /\ invitations'[i].accepted_by = invitations[i].accepted_by
          /\ invitations'[i].status = "pending" =>
                invitations[i].status = "pending" /\ invitations'[i].live
    /\ invitations[i] = NoRow /\ invitations'[i] # NoRow =>
          /\ invitations'[i].live /\ invitations'[i].accepted_by = NoRow
          /\ \/ <<"invitation.created", i>> \in trail'
             \/ \E j \in Invitations \ {i} :
                   {<<"invitation.replaced", j>>, <<"invitation.edited", j>>} \cap trail' # {}
    /\ IF invitations'[i] = NoRow THEN <<"invitation.removed", i>> \notin trail'
       ELSE <<"invitation.removed", i>> \in trail' <=> ~invitations'[i].live

\* What it may add to the trail.
TrailKept ==
    /\ trail \subseteq trail' /\ trail' \subseteq Action \X (Users \cup Invitations \cup Collections)
    /\ \A u \in Users : <<"membership.changed", u>> \in trail' => <<"membership.changed", u>> \in trail
    /\ \A i \in Invitations :
          <<"invitation.accepted", i>> \in trail' => <<"invitation.accepted", i>> \in trail

\* The history and the pending rows, when no row of another kind changes.
LEMMA RowsKeep ==
  ASSUME TypeOK, RowsInv, UNCHANGED members, TrailKept, \A i \in Invitations : RowKept(i)
  PROVE  RowsInv'
<1> USE DEF RowsInv
<1>1. PendingIsOpen'
  BY DEF PendingIsOpen, Pending, RowKept
<1>2. NothingBeforeTheRow'
  BY DEF NothingBeforeTheRow, TrailKept, RowKept
<1>3. MembersAreTold'
  <2>1. \A u \in Users : members[u] # NoRow =>
            (<<"membership.changed", u>> \in trail' <=> members[u].version > 1)
    BY DEF MembersAreTold, TrailKept
  <2>2. \A u \in Users \ (Founders \cup Seeded) : members[u] # NoRow =>
            \E i \in Invitations : /\ <<"invitation.accepted", i>> \in trail'
                                  /\ invitations'[i].accepted_by = u
    <3> SUFFICES ASSUME NEW u \in Users \ (Founders \cup Seeded), members[u] # NoRow
                 PROVE  \E i \in Invitations : /\ <<"invitation.accepted", i>> \in trail'
                                              /\ invitations'[i].accepted_by = u
      OBVIOUS
    <3>1. PICK i \in Invitations : <<"invitation.accepted", i>> \in trail /\ invitations[i].accepted_by = u
      BY DEF MembersAreTold
    <3>2. invitations[i] # NoRow
      BY <3>1 DEF NothingBeforeTheRow
    <3> QED
      BY <3>1, <3>2 DEF TrailKept, RowKept
  <2>3. ASSUME NEW i \in Invitations, invitations'[i] # NoRow
        PROVE  /\ <<"invitation.created", i>> \in trail' \/ \E j \in Invitations \ {i} :
                      {<<"invitation.replaced", j>>, <<"invitation.edited", j>>} \cap trail' # {}
               /\ <<"invitation.accepted", i>> \in trail' <=> invitations'[i].accepted_by # NoRow
               /\ <<"invitation.removed", i>> \in trail' <=> ~invitations'[i].live
    <3>1. CASE invitations[i] = NoRow
      BY <2>3, <3>1 DEF RowKept, TrailKept, NothingBeforeTheRow
    <3>2. CASE invitations[i] # NoRow
      <4>1. /\ <<"invitation.created", i>> \in trail' \/ \E j \in Invitations \ {i} :
                  {<<"invitation.replaced", j>>, <<"invitation.edited", j>>} \cap trail' # {}
        BY <3>2 DEF MembersAreTold, TrailKept
      <4>2. <<"invitation.accepted", i>> \in trail' <=> invitations'[i].accepted_by # NoRow
        BY <3>2 DEF MembersAreTold, TrailKept, RowKept
      <4> QED
        BY <2>3, <4>1, <4>2 DEF RowKept
    <3> QED
      BY <3>1, <3>2
  <2> QED
    BY <2>1, <2>2, <2>3 DEF MembersAreTold
<1> QED
  BY <1>1, <1>2, <1>3

\* The invitation that some other request is accepting is left alone.
LEMMA ChangeKeeps ==
  ASSUME IInv, NEW r, requests' = requests \/ (r \in Requests /\ Ends(r)),
         UNCHANGED <<accounts, members>>, begun' \in 0..MaxRequests,
         grants' \in [Users -> [Collections -> Grant]], collections' \subseteq Collections,
         invitations' \in [Invitations -> Invitation \cup {NoRow}],
         TrailKept, \A i \in Invitations : RowKept(i),
         \A s \in Requests : Accepting(s) /\ (s = r => requests' = requests) =>
            /\ invitations'[requests[s].target].status = invitations[requests[s].target].status
            /\ invitations'[requests[s].target].attempts = invitations[requests[s].target].attempts
  PROVE  IInv'
<1> USE DEF IInv
<1>1. /\ requests' \in [Requests -> RequestState]
      /\ \A s \in Requests : requests'[s] = requests[s] \/ (s = r /\ requests'[s] = Idle)
      /\ requests' = requests \/ requests'[r] = Idle
  BY RequestGoes DEF Ends, TypeOK, RequestState
<1>2. TypeOK'
  BY <1>1 DEF TypeOK, TrailKept
<1>3. RowsInv'
  BY RowsKeep
<1>4. AcceptorHolds'
  <2> SUFFICES ASSUME NEW q \in Requests, Accepting(q)'
               PROVE  /\ invitations'[requests'[q].target] # NoRow
                      /\ invitations'[requests'[q].target].status = "pending"
                      /\ invitations'[requests'[q].target].attempts < MaxAttempts
                      /\ \A s \in Requests : Accepting(s)' /\ requests'[s].target = requests'[q].target
                           => s = q
    BY DEF AcceptorHolds, Pending
  <2>1. requests'[q] = requests[q] /\ Accepting(q) /\ (q = r => requests' = requests)
    BY <1>1 DEF Accepting, Idle
  <2>2. /\ Pending(requests[q].target) /\ invitations[requests[q].target].attempts < MaxAttempts
        /\ \A s \in Requests : Accepting(s) /\ requests[s].target = requests[q].target => s = q
    BY <2>1 DEF AcceptorHolds
  <2>3. requests[q].target \in Invitations
    BY <2>1, RequestFields DEF Accepting, TypeOK
  <2>4. /\ invitations'[requests[q].target] # NoRow
        /\ invitations'[requests[q].target].status = "pending"
    BY <2>1, <2>2, <2>3 DEF Pending, RowKept
  <2>5. \A s \in Requests : Accepting(s)' => Accepting(s) /\ requests'[s] = requests[s]
    BY <1>1 DEF Accepting, Idle
  <2> QED
    BY <2>1, <2>2, <2>4, <2>5
<1>5. ChangerHolds'
  <2>1. \A s \in Requests : Changing(s)' => Changing(s) /\ requests'[s] = requests[s]
    BY <1>1 DEF Changing, Idle
  <2> QED
    BY <2>1 DEF ChangerHolds
<1>6. NewIsOpen'
  BY <1>1 DEF NewIsOpen, Idle
<1>7. ExpiredStand'
  <2> SUFFICES ASSUME NEW q \in Requests, requests'[q].op = "list.commit", NEW i \in requests'[q].expired
               PROVE  invitations'[i] # NoRow
    BY DEF ExpiredStand
  <2>1. requests'[q] = requests[q] /\ i \in Invitations
    BY <1>1, RequestFields DEF Idle, TypeOK
  <2> QED
    BY <2>1 DEF ExpiredStand, RowKept
<1> QED
  BY <1>2, <1>3, <1>4, <1>5, <1>6, <1>7

\* The same for a request that changes no grant.
LEMMA WriteKeeps ==
  ASSUME IInv, NEW r, requests' = requests \/ (r \in Requests /\ Ends(r)),
         UNCHANGED <<accounts, members, grants, collections>>, begun' \in 0..MaxRequests,
         invitations' \in [Invitations -> Invitation \cup {NoRow}],
         TrailKept, \A i \in Invitations : RowKept(i),
         \A s \in Requests : Accepting(s) /\ (s = r => requests' = requests) =>
            /\ invitations'[requests[s].target].status = invitations[requests[s].target].status
            /\ invitations'[requests[s].target].attempts = invitations[requests[s].target].attempts
  PROVE  IInv'
<1>1. grants' \in [Users -> [Collections -> Grant]] /\ collections' \subseteq Collections
  BY DEF IInv, TypeOK
<1> QED
  BY <1>1, ChangeKeeps

\* One event about a row, of a name that the history does not ask about.
LEMMA EventKept ==
  ASSUME TypeOK, NEW x \in Users \cup Invitations \cup Collections,
         NEW action \in {"invitation.created", "invitation.expired", "invitation.edited",
                         "invitation.replaced", "invitation.removed", "invitation.revoked",
                         "authorization.denied", "collection_grant.changed",
                         "collection_grant.removed"},
         trail' = trail \cup {<<action, x>>}
  PROVE  /\ TrailKept
         /\ action # "invitation.removed" => \A j \in Invitations :
              <<"invitation.removed", j>> \in trail' => <<"invitation.removed", j>> \in trail
<1>1. action \in Action
  BY DEF Action
<1>2. \A name, y : <<name, y>> = <<action, x>> => name = action
  OBVIOUS
<1>3. <<action, x>> \in Action \X (Users \cup Invitations \cup Collections)
  BY <1>1
<1>4. \A name, y : <<name, y>> \in trail' /\ name # action => <<name, y>> \in trail
  BY <1>2
<1>5. action \notin {"membership.changed", "invitation.accepted"}
  OBVIOUS
<1> QED
  BY <1>3, <1>4, <1>5 DEF TrailKept, TypeOK

\* Nothing is added.
LEMMA SilenceKept ==
  ASSUME TypeOK, trail' = trail
  PROVE  TrailKept
BY DEF TrailKept, TypeOK

\* A row that is not locked is not being accepted.
LEMMA FreeIsUntouched ==
  ASSUME TypeOK, NEW i \in Invitations, ~InvitationLocked(i)
  PROVE  \A s \in Requests : Accepting(s) =>
            requests[s].target # i /\ requests[s].target \in Invitations
BY RequestFields DEF InvitationLocked, Accepting, TypeOK

\* A row that is not written, and of which no removal is recorded.
LEMMA OtherRowKept ==
  ASSUME TypeOK, RowsInv, TrailKept, NEW j \in Invitations, invitations'[j] = invitations[j],
         <<"invitation.removed", j>> \in trail' => <<"invitation.removed", j>> \in trail
  PROVE  RowKept(j)
BY DEF RowKept, TrailKept, RowsInv, PendingIsOpen, Pending, NothingBeforeTheRow, MembersAreTold

\* create_invitation inserts the row.
LEMMA CommitInvitationKeeps ==
  ASSUME IInv, begun' = begun, NEW r \in Requests, NEW i \in Invitations, CommitInvitation(r, i)
  PROVE  IInv'
<1>1. TypeOK /\ RowsInv /\ begun' \in 0..MaxRequests
  BY DEF IInv, TypeOK
<1> DEFINE next == requests[r].next
<1>2. /\ invitations[i] = NoRow /\ invitations' = [invitations EXCEPT ![i] = next]
      /\ trail' = trail \cup {<<"invitation.created", i>>} /\ Ends(r)
      /\ UNCHANGED <<accounts, members, grants, collections>>
  BY DEF CommitInvitation, Write, Audit
<1>3. next \in Invitation /\ next.live /\ next.accepted_by = NoRow /\ next # NoRow
  BY RequestFields, RowAssumption DEF CommitInvitation, IInv, TypeOK, NewIsOpen
<1> HIDE DEF next
<1>4. /\ TrailKept
      /\ \A j \in Invitations :
            <<"invitation.removed", j>> \in trail' => <<"invitation.removed", j>> \in trail
  BY <1>1, <1>2, EventKept
<1>5. invitations' \in [Invitations -> Invitation \cup {NoRow}]
  BY <1>1, <1>2, <1>3 DEF TypeOK
<1>6. \A j \in Invitations : RowKept(j)
  <2> SUFFICES ASSUME NEW j \in Invitations PROVE RowKept(j)
    OBVIOUS
  <2>1. CASE j # i
    BY <1>1, <1>2, <1>4, <2>1, OtherRowKept DEF TypeOK
  <2>2. CASE j = i
    <3>1. invitations'[i] = next
      BY <1>1, <1>2 DEF TypeOK
    <3>2. <<"invitation.removed", i>> \notin trail'
      BY <1>1, <1>2, <1>4 DEF RowsInv, NothingBeforeTheRow
    <3> QED
      BY <1>2, <1>3, <2>2, <3>1, <3>2 DEF RowKept
  <2> QED
    BY <2>1, <2>2
<1>7. \A s \in Requests : Accepting(s) =>
          invitations'[requests[s].target] = invitations[requests[s].target]
  BY <1>2 DEF IInv, AcceptorHolds, Pending
<1> QED
  BY <1>1, <1>2, <1>4, <1>5, <1>6, <1>7, WriteKeeps

\* Some fields of one row change, and it says so.
LEMMA FieldsKeep ==
  ASSUME IInv, NEW r, requests' = requests \/ (r \in Requests /\ Ends(r)), begun' \in 0..MaxRequests,
         NEW i \in Invitations, invitations[i] # NoRow,
         UNCHANGED <<accounts, members, grants, collections>>,
         invitations' \in [Invitations -> Invitation \cup {NoRow}], invitations'[i] # NoRow,
         \A j \in Invitations \ {i} : invitations'[j] = invitations[j],
         invitations'[i].accepted_by = invitations[i].accepted_by,
         invitations'[i].live = invitations[i].live,
         invitations'[i].status = "pending" => invitations[i].status = "pending",
         TrailKept,
         \A j \in Invitations :
            <<"invitation.removed", j>> \in trail' => <<"invitation.removed", j>> \in trail,
         \A s \in Requests : Accepting(s) /\ (s = r => requests' = requests) =>
            \/ requests[s].target # i
            \/ /\ invitations'[i].status = invitations[i].status
               /\ invitations'[i].attempts = invitations[i].attempts
  PROVE  IInv'
<1>1. TypeOK /\ RowsInv
  BY DEF IInv
<1>2. \A j \in Invitations : RowKept(j)
  <2> SUFFICES ASSUME NEW j \in Invitations PROVE RowKept(j)
    OBVIOUS
  <2>1. CASE j # i
    BY <1>1, <2>1, OtherRowKept
  <2>2. CASE j = i
    <3>1. <<"invitation.removed", i>> \in trail' <=> ~invitations[i].live
      BY <1>1 DEF TrailKept, RowsInv, MembersAreTold
    <3> QED
      BY <1>1, <2>2, <3>1 DEF RowKept, RowsInv, PendingIsOpen, Pending
  <2> QED
    BY <2>1, <2>2
<1>3. \A s \in Requests : Accepting(s) /\ (s = r => requests' = requests) =>
          /\ invitations'[requests[s].target].status = invitations[requests[s].target].status
          /\ invitations'[requests[s].target].attempts = invitations[requests[s].target].attempts
  BY <1>1, RequestFields DEF Accepting, TypeOK
<1> QED
  BY <1>1, <1>2, <1>3, WriteKeeps

\* update_invitation in place, and revoke_invitation.
LEMMA EditKeeps ==
  ASSUME IInv, begun' = begun, NEW r \in Requests, NEW i \in Invitations,
         NEW role \in MembershipRole, NEW given \in SUBSET Collections,
         EditInPlace(r, i, role, given) \/ RevokeInvitation(r, i)
  PROVE  IInv'
<1>1. /\ TypeOK /\ begun' \in 0..MaxRequests
      /\ invitations \in [Invitations -> Invitation \cup {NoRow}]
  BY DEF IInv, TypeOK
<1>2. /\ Pending(i) /\ ~InvitationLocked(i) /\ Ends(r)
      /\ UNCHANGED <<accounts, members, grants, collections>>
      /\ invitations[i] \in Invitation
  BY <1>1 DEF EditInPlace, RevokeInvitation, Pending
<1> DEFINE edited == [invitations[i] EXCEPT !.role = role, !.initial_grants = given]
           revoked == [invitations[i] EXCEPT !.status = "revoked"]
<1>3. /\ edited \in Invitation /\ edited.accepted_by = invitations[i].accepted_by
      /\ edited.live = invitations[i].live
  BY <1>2, InvitationFields DEF Invitation
<1>4. /\ revoked \in Invitation /\ revoked.accepted_by = invitations[i].accepted_by
      /\ revoked.live = invitations[i].live
  BY <1>2, InvitationFields DEF Invitation, InvitationStatus
<1>5. PICK row \in {edited, revoked} :
        /\ invitations' = [invitations EXCEPT ![i] = row]
        /\ \E action \in {"invitation.edited", "invitation.revoked"} :
              trail' = trail \cup {<<action, i>>}
  BY DEF EditInPlace, RevokeInvitation, Write, Audit
<1>6. /\ row \in Invitation /\ row.accepted_by = invitations[i].accepted_by
      /\ row.live = invitations[i].live
  BY <1>3, <1>4
<1>7. TrailKept /\ \A j \in Invitations :
          <<"invitation.removed", j>> \in trail' => <<"invitation.removed", j>> \in trail
  BY <1>1, <1>5, EventKept
<1>8. \A s \in Requests : Accepting(s) => requests[s].target # i
  BY <1>1, <1>2, FreeIsUntouched
<1>9. invitations[i] # NoRow /\ invitations[i].status = "pending"
  BY <1>2 DEF Pending
<1>10. \A s \in Requests : Accepting(s) /\ (s = r => requests' = requests) =>
            requests[s].target # i
  BY <1>8
<1> HIDE DEF edited, revoked
<1>11. /\ invitations' \in [Invitations -> Invitation \cup {NoRow}]
       /\ invitations'[i] = row /\ row # NoRow
       /\ \A j \in Invitations \ {i} : invitations'[j] = invitations[j]
  BY <1>1, <1>5, <1>6, RowAssumption
<1> QED
  BY <1>1, <1>2, <1>6, <1>7, <1>9, <1>10, <1>11, FieldsKeep

\* remove_invitation takes the link from the row, and says so.
LEMMA RemoveKeeps ==
  ASSUME IInv, begun' = begun, NEW r \in Requests, NEW i \in Invitations, RemoveInvitation(r, i)
  PROVE  IInv'
<1>1. /\ TypeOK /\ RowsInv /\ begun' \in 0..MaxRequests
      /\ invitations \in [Invitations -> Invitation \cup {NoRow}]
  BY DEF IInv, TypeOK
<1> DEFINE row == [invitations[i] EXCEPT !.status = "removed", !.live = FALSE, !.email = NoRow]
<1>2. /\ invitations[i] # NoRow /\ ~InvitationLocked(i) /\ Ends(r)
      /\ UNCHANGED <<accounts, members, grants, collections>>
      /\ invitations[i] \in Invitation
      /\ invitations' = [invitations EXCEPT ![i] = row]
      /\ trail' = trail \cup {<<"invitation.removed", i>>}
  BY <1>1 DEF RemoveInvitation, Write, Audit
<1>3. /\ row \in Invitation /\ row.accepted_by = invitations[i].accepted_by
      /\ row.live = FALSE /\ row.status = "removed"
  BY <1>2, InvitationFields DEF Invitation, InvitationStatus
<1> HIDE DEF row
<1>4. TrailKept
  BY <1>1, <1>2, EventKept
<1>5. invitations' \in [Invitations -> Invitation \cup {NoRow}]
  BY <1>1, <1>2, <1>3
<1>6. \A j \in Invitations : RowKept(j)
  <2> SUFFICES ASSUME NEW j \in Invitations PROVE RowKept(j)
    OBVIOUS
  <2>1. CASE j # i
    <3>1. <<"invitation.removed", j>> \in trail' => <<"invitation.removed", j>> \in trail
      BY <1>2, <2>1
    <3> QED
      BY <1>1, <1>2, <1>4, <2>1, <3>1, OtherRowKept
  <2>2. CASE j = i
    <3>1. invitations'[i] = row /\ row # NoRow
      BY <1>1, <1>2, <1>3, RowAssumption
    <3>2. <<"invitation.removed", i>> \in trail'
      BY <1>2
    <3> QED
      BY <1>2, <1>3, <2>2, <3>1, <3>2 DEF RowKept
  <2> QED
    BY <2>1, <2>2
<1>7. \A s \in Requests : Accepting(s) =>
          invitations'[requests[s].target] = invitations[requests[s].target]
  BY <1>1, <1>2, FreeIsUntouched
<1> QED
  BY <1>1, <1>2, <1>4, <1>5, <1>6, <1>7, WriteKeeps

\* update_invitation with another address, and replace_invitation: the row that
\* takes the place of the old one has the event of the old one to its name.
LEMMA SupersedeKeeps ==
  ASSUME IInv, begun' = begun, NEW r \in Requests, NEW i \in Invitations, NEW j \in Invitations,
         NEW email \in Addresses \cup {NoRow}, NEW role \in MembershipRole,
         NEW given \in SUBSET Collections,
         invitations[i] # NoRow, ~InvitationLocked(i),
         Supersede(i, j, NewInvitation(email, role, given)),
         NEW action \in {"invitation.edited", "invitation.replaced"}, Audit(action, i),
         Ends(r), UNCHANGED <<accounts, members, grants, collections>>
  PROVE  IInv'
<1>1. /\ TypeOK /\ RowsInv /\ begun' \in 0..MaxRequests
      /\ invitations \in [Invitations -> Invitation \cup {NoRow}]
      /\ invitations[i] \in Invitation
  BY DEF IInv, TypeOK
<1> DEFINE successor == NewInvitation(email, role, given)
           row == [invitations[i] EXCEPT !.status = "replaced"]
<1>2. /\ successor \in Invitation /\ successor.live /\ successor.accepted_by = NoRow
      /\ successor # NoRow
  BY NewInvitationType, RowAssumption
<1>3. /\ row \in Invitation /\ row.accepted_by = invitations[i].accepted_by
      /\ row.live = invitations[i].live /\ row.status = "replaced" /\ row # NoRow
  BY <1>1, InvitationFields, RowAssumption DEF Invitation, InvitationStatus
<1>4. invitations[j] = NoRow /\ i # j
  BY DEF Supersede
<1>5. invitations' = [[invitations EXCEPT ![i] = row] EXCEPT ![j] = successor]
  BY <1>1, <1>4 DEF Supersede
<1>6. trail' = trail \cup {<<action, i>>}
  BY DEF Audit
<1> HIDE DEF successor, row
<1>7. /\ invitations' \in [Invitations -> Invitation \cup {NoRow}]
      /\ invitations'[i] = row /\ invitations'[j] = successor
      /\ \A k \in Invitations \ {i, j} : invitations'[k] = invitations[k]
  BY <1>1, <1>2, <1>3, <1>4, <1>5
<1>8. TrailKept /\ \A k \in Invitations :
          <<"invitation.removed", k>> \in trail' => <<"invitation.removed", k>> \in trail
  BY <1>1, <1>6, EventKept
<1>9. \A k \in Invitations : RowKept(k)
  <2> SUFFICES ASSUME NEW k \in Invitations PROVE RowKept(k)
    OBVIOUS
  <2>1. CASE k \notin {i, j}
    BY <1>1, <1>7, <1>8, <2>1, OtherRowKept
  <2>2. CASE k = i
    <3>1. <<"invitation.removed", i>> \in trail' <=> ~invitations[i].live
      BY <1>1, <1>8 DEF RowsInv, MembersAreTold, TrailKept
    <3> QED
      BY <1>3, <1>7, <2>2, <3>1 DEF RowKept
  <2>3. CASE k = j
    <3>1. {<<"invitation.replaced", i>>, <<"invitation.edited", i>>} \cap trail' # {}
      BY <1>6
    <3>2. <<"invitation.removed", j>> \notin trail'
      BY <1>1, <1>4, <1>8 DEF RowsInv, NothingBeforeTheRow
    <3> QED
      BY <1>2, <1>4, <1>7, <2>3, <3>1, <3>2 DEF RowKept
  <2> QED
    BY <2>1, <2>2, <2>3
<1>10. \A s \in Requests : Accepting(s) =>
          invitations'[requests[s].target] = invitations[requests[s].target]
  <2> SUFFICES ASSUME NEW s \in Requests, Accepting(s)
               PROVE  invitations'[requests[s].target] = invitations[requests[s].target]
    OBVIOUS
  <2>1. requests[s].target # i /\ requests[s].target \in Invitations
    BY <1>1, FreeIsUntouched
  <2>2. requests[s].target # j
    BY <1>4 DEF IInv, AcceptorHolds, Pending
  <2> QED
    BY <1>7, <2>1, <2>2
<1> QED
  BY <1>1, <1>7, <1>8, <1>9, <1>10, WriteKeeps

\* The list route expires only rows that nobody has locked.
LEMMA ExpiryKeeps ==
  ASSUME IInv, begun' = begun, NEW r \in Requests, CommitExpired(r)
  PROVE  IInv'
<1>1. /\ TypeOK /\ RowsInv /\ begun' \in 0..MaxRequests
      /\ invitations \in [Invitations -> Invitation \cup {NoRow}]
  BY DEF IInv, TypeOK
<1> DEFINE expired == requests[r].expired
<1>2. /\ expired \subseteq Invitations /\ Ends(r)
      /\ \A i \in expired : ~InvitationLocked(i)
      /\ UNCHANGED <<accounts, members, grants, collections>>
  BY RequestFields DEF CommitExpired, IInv, TypeOK
<1> DEFINE due(i) == [invitations[i] EXCEPT !.status = "expired"]
<1>3. ASSUME NEW i \in expired
      PROVE  /\ due(i) \in Invitation /\ due(i) # NoRow /\ invitations[i] # NoRow
             /\ due(i).accepted_by = invitations[i].accepted_by
             /\ due(i).live = invitations[i].live /\ due(i).status = "expired"
  <2>1. invitations[i] # NoRow
    BY DEF CommitExpired, IInv, ExpiredStand
  <2>2. invitations[i] \in Invitation
    BY <1>1, <1>2, <2>1
  <2> QED
    BY <2>1, <2>2, InvitationFields, RowAssumption DEF Invitation, InvitationStatus
<1>4. \A i \in Invitations : invitations'[i] = IF i \in expired THEN due(i) ELSE invitations[i]
  BY DEF CommitExpired
<1>5. invitations' \in [Invitations -> Invitation \cup {NoRow}]
  <2>1. \A i \in Invitations : invitations'[i] \in Invitation \cup {NoRow}
    BY <1>1, <1>3, <1>4
  <2>2. invitations' = [i \in Invitations |-> invitations'[i]]
    BY DEF CommitExpired
  <2> QED
    BY <2>1, <2>2
<1> HIDE DEF due
<1>6. trail' = trail \cup {<<"invitation.expired", i>> : i \in expired}
  BY DEF CommitExpired
<1>7. /\ \A name, x : <<name, x>> \in trail' /\ name # "invitation.expired" => <<name, x>> \in trail
      /\ trail \subseteq trail'
  BY <1>6
<1>8. TrailKept
  <2>1. {<<"invitation.expired", i>> : i \in expired}
          \subseteq Action \X (Users \cup Invitations \cup Collections)
    BY <1>2 DEF Action
  <2> QED
    BY <1>1, <1>6, <1>7, <2>1 DEF TrailKept, TypeOK
<1>9. \A i \in Invitations : RowKept(i)
  <2> SUFFICES ASSUME NEW i \in Invitations PROVE RowKept(i)
    OBVIOUS
  <2>1. <<"invitation.removed", i>> \in trail' => <<"invitation.removed", i>> \in trail
    BY <1>7
  <2>2. CASE i \notin expired
    BY <1>1, <1>4, <1>8, <2>1, <2>2, OtherRowKept
  <2>3. CASE i \in expired
    <3>1. <<"invitation.removed", i>> \in trail' <=> ~invitations[i].live
      BY <1>1, <1>3, <1>7, <2>1, <2>3 DEF RowsInv, MembersAreTold
    <3> QED
      BY <1>3, <1>4, <2>3, <3>1 DEF RowKept
  <2> QED
    BY <2>2, <2>3
<1>10. \A s \in Requests : Accepting(s) =>
          invitations'[requests[s].target] = invitations[requests[s].target]
  BY <1>1, <1>2, <1>4, FreeIsUntouched, RequestFields DEF Accepting, TypeOK
<1> QED
  BY <1>1, <1>2, <1>5, <1>8, <1>9, <1>10, WriteKeeps

\* The time of an invitation passes, and attempts on it are counted.
LEMMA AttemptKeeps ==
  ASSUME IInv, begun' \in 0..MaxRequests, NEW r, NEW i \in Invitations,
         \/ Expire(i)
         \/ AcceptUnavailable(r, i)
         \/ \E u \in Users : AcceptMismatch(r, u, i)
  PROVE  IInv'
<1>1. TypeOK /\ invitations \in [Invitations -> Invitation \cup {NoRow}]
  BY DEF IInv, TypeOK
<1>2. /\ invitations[i] # NoRow /\ invitations[i] \in Invitation
      /\ UNCHANGED <<accounts, members, grants, collections, requests>>
  BY <1>1 DEF Expire, AcceptUnavailable, AcceptMismatch, Reachable
<1> DEFINE row == invitations[i]
<1>3. CASE Expire(i)
  <2> DEFINE later == [row EXCEPT !.due = TRUE]
  <2>1. /\ later \in Invitation /\ later.accepted_by = row.accepted_by /\ later.live = row.live
        /\ later.status = row.status /\ later.attempts = row.attempts
    BY <1>2, InvitationFields DEF Invitation
  <2>2. invitations' = [invitations EXCEPT ![i] = later] /\ trail' = trail
    BY <1>3 DEF Expire, Write
  <2> HIDE DEF later, row
  <2>3. TrailKept
    BY <1>1, <2>2, SilenceKept
  <2>4. /\ invitations' \in [Invitations -> Invitation \cup {NoRow}]
        /\ invitations'[i] = later /\ later # NoRow
        /\ \A j \in Invitations \ {i} : invitations'[j] = invitations[j]
    BY <1>1, <2>1, <2>2, RowAssumption
  <2> QED
    BY <1>2, <2>1, <2>2, <2>3, <2>4, FieldsKeep DEF row
<1>4. CASE AcceptUnavailable(r, i) \/ \E u \in Users : AcceptMismatch(r, u, i)
  <2>1. row.attempts < MaxAttempts /\ ~InvitationLocked(i)
    BY <1>4 DEF AcceptUnavailable, AcceptMismatch, Reachable
  <2>2. row.attempts + 1 \in 0..MaxAttempts
    BY <1>2, <2>1, InvitationFields, AdministrationAssumption
  <2>3. /\ Counted(i) \in Invitation /\ Counted(i).accepted_by = row.accepted_by
        /\ Counted(i).live = row.live /\ Counted(i).status = row.status
    BY <1>2, <2>2, InvitationFields DEF Counted, Invitation
  <2> DEFINE late == [Counted(i) EXCEPT !.status = "expired"]
  <2>4. /\ late \in Invitation /\ late.accepted_by = row.accepted_by
        /\ late.live = row.live /\ late.status = "expired"
    BY <2>3, InvitationFields DEF Invitation, InvitationStatus
  <2>5. PICK next \in {Counted(i), late} :
          /\ invitations' = [invitations EXCEPT ![i] = next]
          /\ trail' = trail \/ trail' = trail \cup {<<"invitation.expired", i>>}
    <3>1. CASE AcceptUnavailable(r, i)
      <4>1. [Counted(i) EXCEPT !.status = @] = Counted(i)
        BY <2>3 DEF Invitation
      <4> QED
        BY <3>1, <4>1 DEF AcceptUnavailable, Write
    <3>2. CASE \E u \in Users : AcceptMismatch(r, u, i)
      BY <3>2 DEF AcceptMismatch, Write
    <3> QED
      BY <1>4, <3>1, <3>2
  <2>6. /\ next \in Invitation /\ next.accepted_by = row.accepted_by /\ next.live = row.live
        /\ next.status = "pending" => row.status = "pending"
    BY <2>3, <2>4
  <2> HIDE DEF late, row
  <2>7. TrailKept /\ \A j \in Invitations :
            <<"invitation.removed", j>> \in trail' => <<"invitation.removed", j>> \in trail
    BY <1>1, <2>5, EventKept, SilenceKept
  <2>8. /\ invitations' \in [Invitations -> Invitation \cup {NoRow}]
        /\ invitations'[i] = next /\ next # NoRow
        /\ \A j \in Invitations \ {i} : invitations'[j] = invitations[j]
    BY <1>1, <2>5, <2>6, RowAssumption
  <2>9. \A s \in Requests : Accepting(s) => requests[s].target # i
    BY <1>1, <2>1, FreeIsUntouched
  <2> QED
    BY <1>2, <2>6, <2>7, <2>8, <2>9, FieldsKeep DEF row
<1> QED
  BY <1>3, <1>4

--------------------------------------------------------------------------------
(* Acceptances.                                                             *)

\* The row is locked, and no request has it yet.
LEMMA MatchKeeps ==
  ASSUME IInv, begun' \in 0..MaxRequests, NEW r \in Requests, NEW u \in Users, NEW i \in Invitations,
         AcceptMatch(r, u, i)
  PROVE  IInv'
<1> DEFINE state == [op |-> "accept.join", actor |-> u, target |-> i, found |-> accounts[u] # "none"]
<1>1. TypeOK
  BY DEF IInv
<1>2. (accounts[u] # "none") \in BOOLEAN
  OBVIOUS
<1>3. state \in RequestState /\ state.op = "accept.join" /\ state.target = i
  BY <1>2 DEF RequestState
<1>4. /\ Pending(i) /\ invitations[i].attempts < MaxAttempts /\ ~InvitationLocked(i)
      /\ UNCHANGED rows /\ Goes(r, state)
  BY DEF AcceptMatch, Reachable
<1>5. \A s \in Requests : Accepting(s) => requests[s].target # i
  BY <1>1, <1>4, FreeIsUntouched
<1> HIDE DEF state
<1> QED
  BY <1>3, <1>4, <1>5, ReadKeeps

\* The request keeps the row while it looks the account up, or counts the
\* attempt and lets it go.
LEMMA JoinKeeps ==
  ASSUME IInv, begun' = begun, NEW r \in Requests, AcceptJoin(r)
  PROVE  IInv'
<1>1. /\ TypeOK /\ begun' \in 0..MaxRequests
      /\ invitations \in [Invitations -> Invitation \cup {NoRow}]
  BY DEF IInv, TypeOK
<1> DEFINE q == requests[r]
           i == q.target
<1>2. q \in RequestState /\ q.op = "accept.join" /\ Accepting(r)
  BY <1>1 DEF AcceptJoin, TypeOK, Accepting
<1>3. q.actor \in Users /\ i \in Invitations
  BY <1>2, RequestFields
<1>4. /\ Pending(i) /\ invitations[i].attempts < MaxAttempts
      /\ \A s \in Requests : Accepting(s) /\ requests[s].target = i => s = r
  BY <1>2 DEF IInv, AcceptorHolds
<1>5. CASE Refused(r)
  BY <1>1, <1>5, ReadKeeps DEF Refused, Ends, Idle, RequestState, AdminOps
<1>6. CASE /\ Write(i, Counted(i)) /\ Ends(r)
           /\ UNCHANGED <<accounts, members, grants, collections, trail>>
  <2>1. invitations[i] \in Invitation /\ invitations[i] # NoRow
    BY <1>1, <1>3, <1>4 DEF Pending
  <2>2. invitations[i].attempts + 1 \in 0..MaxAttempts
    BY <1>4, <2>1, InvitationFields, AdministrationAssumption
  <2>3. /\ Counted(i) \in Invitation /\ Counted(i).accepted_by = invitations[i].accepted_by
        /\ Counted(i).live = invitations[i].live /\ Counted(i).status = invitations[i].status
    BY <2>1, <2>2, InvitationFields DEF Counted, Invitation
  <2>4. TrailKept
    BY <1>1, <1>6, SilenceKept
  <2>5. /\ invitations' \in [Invitations -> Invitation \cup {NoRow}]
        /\ invitations'[i] = Counted(i) /\ Counted(i) # NoRow
        /\ \A j \in Invitations \ {i} : invitations'[j] = invitations[j]
    BY <1>1, <1>3, <1>6, <2>3, RowAssumption DEF Write
  <2>6. requests' # requests
    <3>1. requests'[r] = Idle
      BY <1>1, <1>6 DEF Ends, Goes, TypeOK
    <3> QED
      BY <1>2, <3>1 DEF Idle
  <2> HIDE DEF q, i
  <2>7. \A s \in Requests : Accepting(s) /\ (s = r => requests' = requests) => requests[s].target # i
    BY <1>4, <2>6
  <2> QED
    BY <1>1, <1>3, <1>6, <2>1, <2>3, <2>4, <2>5, <2>7, FieldsKeep
<1>7. CASE \E joins \in BOOLEAN, missing \in SUBSET Collections :
             /\ Goes(r, [op |-> "accept.commit", actor |-> q.actor, target |-> i,
                         joins |-> joins, missing |-> missing])
             /\ UNCHANGED rows
  <2>1. PICK joins \in BOOLEAN, missing \in SUBSET Collections :
             /\ Goes(r, [op |-> "accept.commit", actor |-> q.actor, target |-> i,
                         joins |-> joins, missing |-> missing])
             /\ UNCHANGED rows
    BY <1>7
  <2> DEFINE state == [op |-> "accept.commit", actor |-> q.actor, target |-> i,
                       joins |-> joins, missing |-> missing]
  <2>2. state \in RequestState /\ state.op = "accept.commit" /\ state.target = i
    BY <1>3 DEF RequestState
  <2> HIDE DEF state, q, i
  <2> QED
    BY <1>1, <1>4, <2>1, <2>2, ReadKeeps DEF state
<1>8. (members[q.actor] = NoRow) \in BOOLEAN
      /\ {c \in invitations[i].initial_grants : ~Granted(q.actor, c)} \in SUBSET Collections
  BY <1>1, <1>3, <1>4, InvitationFields DEF Pending
<1> QED
  BY <1>5, <1>6, <1>7, <1>8 DEF AcceptJoin

\* The rows of an acceptance come with its event, and none of them was there.
LEMMA AcceptKeeps ==
  ASSUME IInv, begun' = begun, NEW r \in Requests, AcceptCommit(r)
  PROVE  IInv'
<1>1. /\ TypeOK /\ RowsInv /\ begun' \in 0..MaxRequests
      /\ invitations \in [Invitations -> Invitation \cup {NoRow}]
      /\ members \in [Users -> Member \cup {NoRow}]
  BY DEF IInv, TypeOK
<1> DEFINE q == requests[r]
           u == q.actor
           i == q.target
<1>2. q \in RequestState /\ q.op = "accept.commit" /\ Accepting(r)
  BY <1>1 DEF AcceptCommit, TypeOK, Accepting
<1>3. /\ u \in Users /\ i \in Invitations /\ q.joins \in BOOLEAN /\ q.missing \in SUBSET Collections
  BY <1>2, RequestFields
<1>4. /\ Pending(i) /\ invitations[i].attempts < MaxAttempts
      /\ invitations[i].live /\ invitations[i].accepted_by = NoRow
      /\ \A s \in Requests : Accepting(s) /\ requests[s].target = i => s = r
  BY <1>1, <1>2, <1>3 DEF IInv, AcceptorHolds, RowsInv, PendingIsOpen
<1>5. CASE AcceptFails(q)
  <2>1. Refused(r)
    BY <1>5 DEF AcceptCommit
  <2> QED
    BY <1>1, <2>1, ReadKeeps DEF Refused, Ends, Idle, RequestState, AdminOps
<1>6. CASE ~AcceptFails(q)
  <2> DEFINE row == [Counted(i) EXCEPT !.status = "accepted", !.accepted_by = u]
             member == IF q.joins THEN NewMember(invitations[i].role) ELSE members[u]
             grant == [c \in Collections |-> IF c \in q.missing THEN Inserted(grants[u][c], "viewer")
                                                                ELSE grants[u][c]]
  <2>1. /\ accounts' = [accounts EXCEPT ![u] = IF @ = "none" THEN "joined" ELSE @]
        /\ members' = [members EXCEPT ![u] = member]
        /\ grants' = [grants EXCEPT ![u] = grant]
        /\ invitations' = [invitations EXCEPT ![i] = row]
        /\ trail' = trail \cup {<<"invitation.accepted", i>>}
        /\ Ends(r) /\ UNCHANGED collections
        /\ \A c \in q.missing : grants[u][c].row < MaxGrantRows
    BY <1>6 DEF AcceptCommit, Write, Audit
  <2>2. q.joins => members[u] = NoRow
    BY <1>6 DEF AcceptFails
  <2>3. invitations[i] \in Invitation /\ invitations[i] # NoRow
    BY <1>1, <1>3, <1>4 DEF Pending
  <2>4. invitations[i].attempts + 1 \in 0..MaxAttempts
    BY <1>4, <2>3, InvitationFields, AdministrationAssumption
  <2>5. row \in Invitation /\ row.status = "accepted" /\ row.accepted_by = u /\ row.live
    BY <1>3, <1>4, <2>3, <2>4, InvitationFields DEF Counted, Invitation, InvitationStatus
  <2>6. /\ NewMember(invitations[i].role) \in Member
        /\ NewMember(invitations[i].role).version = 1
        /\ NewMember(invitations[i].role) # NoRow
    BY <2>3, InvitationFields, AdministrationAssumption, RowAssumption
       DEF NewMember, Member, MemberStatus
  <2>7. member \in Member \cup {NoRow}
    BY <1>1, <1>3, <2>6
  <2>8. grant \in [Collections -> Grant]
    <3> SUFFICES ASSUME NEW c \in Collections
                 PROVE  (IF c \in q.missing THEN Inserted(grants[u][c], "viewer")
                                           ELSE grants[u][c]) \in Grant
      OBVIOUS
    <3>1. grants[u][c] \in Grant
      BY <1>1, <1>3 DEF TypeOK
    <3>2. grants[u][c].row \in 0..MaxGrantRows
      BY <3>1 DEF Grant
    <3>3. CASE c \in q.missing
      <4>1. grants[u][c].row + 1 \in 0..MaxGrantRows
        BY <2>1, <3>2, <3>3, AdministrationAssumption
      <4> QED
        BY <3>3, <4>1 DEF Inserted, Grant, CollectionRole
    <3> QED
      BY <3>1, <3>3
  <2>9. /\ requests' \in [Requests -> RequestState] /\ requests'[r] = Idle
        /\ \A s \in Requests : s # r => requests'[s] = requests[s]
    BY <1>1, <2>1, RequestGoes DEF Ends, TypeOK, RequestState
  <2> HIDE DEF row, member, grant, q, i, u
  <2>10. /\ invitations' \in [Invitations -> Invitation \cup {NoRow}]
         /\ invitations'[i] = row /\ row # NoRow
         /\ \A j \in Invitations : j # i => invitations'[j] = invitations[j]
    BY <1>1, <1>3, <2>1, <2>5, RowAssumption
  <2>11. /\ members' \in [Users -> Member \cup {NoRow}]
         /\ members'[u] = member
         /\ \A v \in Users : v # u => members'[v] = members[v]
    BY <1>1, <1>3, <2>1, <2>7
  <2>12. TypeOK'
    <3>1. trail' \subseteq Action \X (Users \cup Invitations \cup Collections)
      BY <1>1, <1>3, <2>1 DEF TypeOK, Action
    <3>2. accounts' \in [Users -> {"none", "seeded", "joined"}]
      BY <1>1, <2>1 DEF TypeOK
    <3>3. grants' \in [Users -> [Collections -> Grant]]
      BY <1>1, <2>1, <2>8 DEF TypeOK
    <3> QED
      BY <1>1, <2>1, <2>9, <2>10, <2>11, <3>1, <3>2, <3>3 DEF TypeOK
  <2>13. \A v \in Users : \/ members'[v] = members[v]
                          \/ /\ v = u /\ members[v] = NoRow /\ members'[v] # NoRow
                             /\ members'[v].version = 1
    BY <2>2, <2>6, <2>11 DEF member
  <2>14. \A name, x : <<name, x>> \in trail' <=>
            <<name, x>> \in trail \/ (name = "invitation.accepted" /\ x = i)
    BY <2>1
  <2>15. PendingIsOpen'
    BY <1>1, <2>5, <2>10 DEF PendingIsOpen, Pending, RowsInv
  <2>16. NothingBeforeTheRow'
    BY <1>1, <2>10, <2>13, <2>14 DEF NothingBeforeTheRow, RowsInv
  <2>17. MembersAreTold'
    <3>1. ASSUME NEW v \in Users, members'[v] # NoRow
          PROVE  <<"membership.changed", v>> \in trail' <=> members'[v].version > 1
      BY <1>1, <2>13, <2>14, <3>1 DEF RowsInv, MembersAreTold, NothingBeforeTheRow
    <3>2. ASSUME NEW v \in Users \ (Founders \cup Seeded), members'[v] # NoRow
          PROVE  \E j \in Invitations : /\ <<"invitation.accepted", j>> \in trail'
                                       /\ invitations'[j].accepted_by = v
      <4>1. CASE v = u
        BY <1>3, <2>5, <2>10, <2>14, <4>1
      <4>2. CASE v # u
        <5>1. PICK j \in Invitations : <<"invitation.accepted", j>> \in trail
                                       /\ invitations[j].accepted_by = v
          BY <1>1, <2>11, <3>2, <4>2 DEF RowsInv, MembersAreTold
        <5>2. j # i
          BY <1>3, <1>4, <5>1, AdministrationAssumption
        <5> QED
          BY <2>10, <2>14, <5>1, <5>2
      <4> QED
        BY <4>1, <4>2
    <3>3. ASSUME NEW j \in Invitations, invitations'[j] # NoRow
          PROVE  /\ <<"invitation.created", j>> \in trail' \/ \E k \in Invitations \ {j} :
                        {<<"invitation.replaced", k>>, <<"invitation.edited", k>>} \cap trail' # {}
                 /\ <<"invitation.accepted", j>> \in trail' <=> invitations'[j].accepted_by # NoRow
                 /\ <<"invitation.removed", j>> \in trail' <=> ~invitations'[j].live
      <4>1. invitations[j] # NoRow
        BY <2>3, <2>10, <3>3
      <4>2. <<"invitation.created", j>> \in trail' \/ \E k \in Invitations \ {j} :
                {<<"invitation.replaced", k>>, <<"invitation.edited", k>>} \cap trail' # {}
        BY <1>1, <2>1, <4>1 DEF RowsInv, MembersAreTold
      <4>3. CASE j = i
        <5>1. u # NoRow
          BY <1>3, AdministrationAssumption
        <5>2. <<"invitation.removed", i>> \notin trail
          BY <1>1, <1>3, <1>4, <2>3 DEF RowsInv, MembersAreTold
        <5> QED
          BY <2>5, <2>10, <2>14, <4>2, <4>3, <5>1, <5>2
      <4>4. CASE j # i
        BY <1>1, <2>10, <2>14, <4>1, <4>2, <4>4 DEF RowsInv, MembersAreTold
      <4> QED
        BY <4>3, <4>4
    <3> QED
      BY <3>1, <3>2, <3>3 DEF MembersAreTold
  <2>18. AcceptorHolds'
    <3> SUFFICES ASSUME NEW s \in Requests, Accepting(s)'
                 PROVE  /\ invitations'[requests'[s].target] # NoRow
                        /\ invitations'[requests'[s].target].status = "pending"
                        /\ invitations'[requests'[s].target].attempts < MaxAttempts
                        /\ \A t \in Requests : Accepting(t)' /\ requests'[t].target = requests'[s].target
                             => t = s
      BY DEF AcceptorHolds, Pending
    <3>1. s # r /\ requests'[s] = requests[s] /\ Accepting(s)
      BY <2>9 DEF Accepting, Idle
    <3>2. requests[s].target # i /\ requests[s].target \in Invitations
      BY <1>1, <1>4, <3>1, RequestFields DEF Accepting, TypeOK
    <3>3. \A t \in Requests : Accepting(t)' => Accepting(t) /\ requests'[t] = requests[t]
      BY <2>9 DEF Accepting, Idle
    <3> QED
      BY <2>10, <3>1, <3>2, <3>3 DEF IInv, AcceptorHolds, Pending
  <2>19. ChangerHolds'
    <3>1. \A s \in Requests : Changing(s)' => Changing(s) /\ requests'[s] = requests[s]
      BY <2>9 DEF Changing, Idle
    <3>2. \A s \in Requests : Changing(s) => requests[s].target \in Users
      BY <1>1, RequestFields DEF Changing, TypeOK
    <3> QED
      BY <2>13, <3>1, <3>2 DEF IInv, ChangerHolds
  <2>20. NewIsOpen' /\ ExpiredStand'
    <3>1. \A s \in Requests : requests'[s].op \in {"create.commit", "list.commit"} =>
              requests'[s] = requests[s]
      BY <2>9 DEF Idle
    <3>2. \A s \in Requests : requests[s].op = "list.commit" => requests[s].expired \subseteq Invitations
      BY <1>1, RequestFields DEF TypeOK
    <3> QED
      BY <2>10, <3>1, <3>2 DEF IInv, NewIsOpen, ExpiredStand
  <2> QED
    BY <2>12, <2>15, <2>16, <2>17, <2>18, <2>19, <2>20 DEF IInv, RowsInv
<1> QED
  BY <1>5, <1>6

--------------------------------------------------------------------------------
(* The other requests that only read.                                       *)

\* A request ends without a commit.
LEMMA RefusedKeeps ==
  ASSUME IInv, begun' \in 0..MaxRequests, NEW r \in Requests, Refused(r)
  PROVE  IInv'
BY ReadKeeps DEF Refused, Ends, Idle, RequestState, AdminOps

\* The bound of a request that comes in.
LEMMA BeginsInBound ==
  ASSUME TypeOK, NEW r, Begins(r)
  PROVE  begun' \in 0..MaxRequests
BY AdministrationAssumption DEF TypeOK, Begins

\* _admin keeps the role of the actor and the versions the client was shown.
LEMMA AuthorizeKeeps ==
  ASSUME IInv, NEW r \in Requests, NEW op \in AdminOps, NEW a \in Users, NEW preview,
         Authorize(r, op, a, preview)
  PROVE  IInv'
<1> DEFINE state == [op |-> op, actor |-> a, role |-> members[a].role, seen |-> SeenBy(op)]
<1>1. TypeOK /\ members \in [Users -> Member \cup {NoRow}]
  BY DEF IInv, TypeOK
<1>2. begun' \in 0..MaxRequests /\ Goes(r, state) /\ UNCHANGED rows
  BY <1>1, BeginsInBound DEF Authorize
<1>3. members[a].role \in MembershipRole
  BY <1>1 DEF Authorize, MembershipAllows, ActiveMember, Member
<1>4. SeenBy(op) \in [Users -> 0..MaxVersion]
  <2>1. \A u \in Users : members[u] # NoRow => members[u].version \in 0..MaxVersion
    BY <1>1, AdministrationAssumption DEF Member
  <2> QED
    BY <2>1, AdministrationAssumption DEF SeenBy
<1>5. state \in RequestState /\ state.op \in AdminOps
  BY <1>3, <1>4 DEF RequestState
<1> HIDE DEF state
<1> QED
  BY <1>2, <1>5, ReadKeeps DEF AdminOps

\* update_member locks a row nobody has locked, at the version it compares.
LEMMA LockKeeps ==
  ASSUME IInv, begun' = begun, NEW r \in Requests, NEW u \in Users,
         NEW role \in {NoRow} \cup AskedRoles, NEW status \in {NoRow} \cup AskedStatuses,
         LockMember(r, u, role, status)
  PROVE  IInv'
<1> DEFINE q == requests[r]
           next == Updated(members[u], role, status)
           state == [op |-> "member.commit", actor |-> q.actor, target |-> u,
                     seen |-> q.seen[u], next |-> next]
<1>1. /\ TypeOK /\ begun' \in 0..MaxRequests
      /\ members \in [Users -> Member \cup {NoRow}]
  BY DEF IInv, TypeOK
<1>2. q \in RequestState /\ q.op = "member.lock" /\ ~MemberLocked(u)
  BY <1>1 DEF LockMember, TypeOK
<1>3. q.actor \in Users
  BY <1>2, RequestFields DEF AdminOps
<1>4. CASE Refused(r)
  BY <1>1, <1>4, RefusedKeeps
<1>5. CASE Goes(r, state) /\ UNCHANGED rows /\ members[u] # NoRow
           /\ q.seen[u] = members[u].version /\ members[u].version < MaxVersion
  <2>1. members[u] \in Member /\ members[u].version \in 1..MaxVersion
    BY <1>1, <1>5 DEF Member
  <2>2. next \in Member /\ next.version = members[u].version + 1
    <3>1. members[u].version + 1 \in 1..MaxVersion
      BY <1>5, <2>1, AdministrationAssumption
    <3>2. /\ (IF role = NoRow THEN members[u].role ELSE role) \in MembershipRole
          /\ (IF status = NoRow THEN members[u].status ELSE status) \in MemberStatus
      BY <2>1, AdministrationAssumption DEF Member
    <3> QED
      BY <3>1, <3>2 DEF Updated, Member
  <2> HIDE DEF next
  <2>3. /\ state \in RequestState /\ state.op = "member.commit" /\ state.target = u
        /\ state.seen = members[u].version /\ state.next = next
    BY <1>3, <1>5, <2>1, <2>2 DEF RequestState
  <2>4. \A s \in Requests : Changing(s) => requests[s].target # u
    BY <1>2 DEF Changing, MemberLocked
  <2> HIDE DEF state
  <2> QED
    BY <1>1, <1>5, <2>2, <2>3, <2>4, ReadKeeps
<1> QED
  BY <1>4, <1>5 DEF LockMember, UpToDate

\* create_invitation prepares an open row.
LEMMA CheckKeeps ==
  ASSUME IInv, begun' = begun, NEW r \in Requests, NEW email \in Addresses,
         NEW role \in AskedRoles, NEW given \in SUBSET Collections,
         CheckPending(r, email, role, given)
  PROVE  IInv'
<1> DEFINE next == NewInvitation(email, role, given)
           state == [op |-> "create.commit", next |-> next]
<1>1. begun' \in 0..MaxRequests
  BY DEF IInv, TypeOK
<1>2. next \in Invitation /\ next.live /\ next.accepted_by = NoRow
  BY NewInvitationType, AdministrationAssumption
<1> HIDE DEF next
<1>3. state \in RequestState /\ state.op = "create.commit" /\ state.next = next
  BY <1>2 DEF RequestState
<1>4. Refused(r) \/ (Goes(r, state) /\ UNCHANGED rows)
  BY DEF CheckPending, next
<1> HIDE DEF state
<1> QED
  BY <1>1, <1>2, <1>3, <1>4, ReadKeeps, RefusedKeeps

\* The list route remembers rows that are there, put_grant and delete_grant a grant.
LEMMA RememberKeeps ==
  ASSUME IInv, NEW r \in Requests,
         \/ ReadExpired(r) /\ begun' = begun
         \/ \E a, u \in Users, c \in Collections, preview \in Previews :
               \/ \E role \in CollectionRole : ReadGrant(r, "grant.put", a, preview, u, c, role)
               \/ ReadGrant(r, "grant.delete", a, preview, u, c, NoRow)
  PROVE  IInv'
<1>1. TypeOK
  BY DEF IInv
<1>2. CASE ReadExpired(r) /\ begun' = begun
  <2> DEFINE expired == {i \in Invitations : Pending(i) /\ invitations[i].due}
             state == [op |-> "list.commit", expired |-> expired]
  <2>1. expired \in SUBSET Invitations /\ \A i \in expired : invitations[i] # NoRow
    BY DEF Pending
  <2> HIDE DEF expired
  <2>2. state \in RequestState /\ state.op = "list.commit" /\ state.expired = expired
    BY <2>1 DEF RequestState
  <2>3. Goes(r, state) /\ UNCHANGED rows /\ begun' \in 0..MaxRequests
    BY <1>1, <1>2 DEF ReadExpired, expired, TypeOK
  <2> HIDE DEF state
  <2> QED
    BY <2>1, <2>2, <2>3, ReadKeeps
<1>3. ASSUME NEW op \in {"grant.put", "grant.delete"}, NEW a \in Users, NEW u \in Users,
             NEW c \in Collections, NEW preview,
             NEW role \in (IF op = "grant.put" THEN CollectionRole ELSE {NoRow}),
             ReadGrant(r, op, a, preview, u, c, role)
      PROVE  IInv'
  <2> DEFINE state == [op |-> op, target |-> u, collection |-> c, role |-> role,
                       found |-> grants[u][c]]
  <2>1. state \in RequestState /\ state.op \in {"grant.put", "grant.delete"}
    <3>1. grants[u][c] \in Grant
      BY <1>1 DEF TypeOK
    <3> QED
      BY <3>1 DEF RequestState
  <2>2. Goes(r, state) /\ UNCHANGED rows /\ begun' \in 0..MaxRequests
    BY <1>1, <1>3, BeginsInBound DEF ReadGrant
  <2> HIDE DEF state
  <2> QED
    BY <2>1, <2>2, ReadKeeps
<1> QED
  BY <1>2, <1>3

--------------------------------------------------------------------------------
(* Grants.                                                                  *)

\* Grants and collections change, members and invitations do not.
LEMMA GrantsKeep ==
  ASSUME IInv, begun' \in 0..MaxRequests, NEW r, requests' = requests \/ (r \in Requests /\ Ends(r)),
         UNCHANGED <<accounts, members, invitations>>,
         grants' \in [Users -> [Collections -> Grant]], collections' \subseteq Collections,
         \/ trail' = trail
         \/ \E x \in Users \cup Collections,
               action \in {"collection_grant.changed", "collection_grant.removed",
                           "authorization.denied"} : trail' = trail \cup {<<action, x>>}
  PROVE  IInv'
<1>1. TypeOK /\ RowsInv
  BY DEF IInv
<1>2. TrailKept /\ \A j \in Invitations :
          <<"invitation.removed", j>> \in trail' => <<"invitation.removed", j>> \in trail
  <2>1. CASE trail' = trail
    BY <1>1, <2>1, SilenceKept
  <2>2. CASE trail' # trail
    <3>1. PICK x \in Users \cup Collections,
               action \in {"collection_grant.changed", "collection_grant.removed",
                           "authorization.denied"} : trail' = trail \cup {<<action, x>>}
      BY <2>2
    <3> QED
      BY <1>1, <3>1, EventKept
  <2> QED
    BY <2>1, <2>2
<1>3. \A j \in Invitations : RowKept(j)
  BY <1>1, <1>2, OtherRowKept
<1>4. invitations' \in [Invitations -> Invitation \cup {NoRow}]
  BY <1>1 DEF TypeOK
<1> QED
  BY <1>2, <1>3, <1>4, ChangeKeeps

\* One grant is written.
LEMMA WriteGrantKeeps ==
  ASSUME IInv, begun' = begun, NEW r \in Requests,
         requests[r].op \in {"grant.put", "grant.delete"},
         NEW grant \in Grant, NEW action \in {"collection_grant.changed", "collection_grant.removed"},
         WriteGrant(requests[r], action, grant), Ends(r)
  PROVE  IInv'
<1>1. begun' \in 0..MaxRequests /\ requests[r].target \in Users
      /\ grants \in [Users -> [Collections -> Grant]] /\ collections' \subseteq Collections
  BY RequestFields DEF IInv, TypeOK, WriteGrant
<1>2. grants' \in [Users -> [Collections -> Grant]]
  BY <1>1 DEF WriteGrant
<1>3. \E x \in Users \cup Collections,
         name \in {"collection_grant.changed", "collection_grant.removed",
                   "authorization.denied"} : trail' = trail \cup {<<name, x>>}
  BY <1>1 DEF WriteGrant, Audit
<1> QED
  BY <1>1, <1>2, <1>3, GrantsKeep DEF WriteGrant

\* The second transactions of put_grant and delete_grant.
LEMMA GrantRequestKeeps ==
  ASSUME IInv, begun' = begun, NEW r \in Requests,
         ChangeGrant(r) \/ InsertGrant(r) \/ DeleteGrant(r)
  PROVE  IInv'
<1> DEFINE q == requests[r]
           grant == grants[q.target][q.collection]
<1>1. TypeOK /\ begun' \in 0..MaxRequests
  BY DEF IInv, TypeOK
<1>2. q \in RequestState /\ q.op \in {"grant.put", "grant.delete"} /\ Ends(r)
  BY <1>1 DEF ChangeGrant, InsertGrant, DeleteGrant, TypeOK
<1>3. /\ q.target \in Users /\ q.collection \in Collections
      /\ q.role \in CollectionRole \cup {NoRow} /\ grant \in Grant
  BY <1>1, <1>2, RequestFields DEF TypeOK
<1>4. CASE UNCHANGED rows
  BY <1>1, <1>2, <1>4, RefusedKeeps DEF Refused
<1>5. [grant EXCEPT !.role = q.role] \in Grant /\ Deleted(grant) \in Grant
  BY <1>3 DEF Grant, Deleted
<1>6. grant.row < MaxGrantRows => Inserted(grant, q.role) \in Grant
  <2>1. grant.row < MaxGrantRows => grant.row + 1 \in 0..MaxGrantRows
    BY <1>3, AdministrationAssumption DEF Grant
  <2> QED
    BY <1>3, <2>1 DEF Grant, Inserted
<1> HIDE DEF grant
<1>7. UNCHANGED rows \/ \E next \in Grant,
        action \in {"collection_grant.changed", "collection_grant.removed"} :
            WriteGrant(q, action, next)
  <2>1. CASE ChangeGrant(r)
    BY <1>3, <1>5, <2>1 DEF ChangeGrant, grant
  <2>2. CASE InsertGrant(r)
    BY <1>6, <2>2 DEF InsertGrant, grant
  <2>3. CASE DeleteGrant(r)
    BY <1>3, <1>5, <2>3 DEF DeleteGrant, grant
  <2> QED
    BY <2>1, <2>2, <2>3
<1> QED
  BY <1>2, <1>4, <1>7, WriteGrantKeeps

\* A refusal that is recorded.
LEMMA DenyKeeps ==
  ASSUME IInv, NEW r, NEW a \in Users, NEW preview, NEW c \in Collections,
         DenyGrant(r, a, preview, c)
  PROVE  IInv'
<1>1. TypeOK /\ begun' \in 0..MaxRequests
  BY BeginsInBound DEF IInv, DenyGrant
<1>2. grants' \in [Users -> [Collections -> Grant]] /\ collections' \subseteq Collections
  BY <1>1 DEF TypeOK, DenyGrant
<1>3. trail' = trail \cup {<<"authorization.denied", c>>}
  BY DEF DenyGrant, Audit
<1> QED
  BY <1>1, <1>2, <1>3, GrantsKeep DEF DenyGrant

\* A collection takes its grants with it.
LEMMA RemoveCollectionKeeps ==
  ASSUME IInv, begun' = begun, NEW c \in Collections, RemoveCollection(c)
  PROVE  IInv'
<1>1. /\ begun' \in 0..MaxRequests /\ collections' \subseteq Collections
      /\ grants \in [Users -> [Collections -> Grant]]
  BY DEF IInv, TypeOK, RemoveCollection
<1>2. \A grant \in Grant : Deleted(grant) \in Grant
  BY DEF Grant, Deleted
<1>3. \A u \in Users : [grants[u] EXCEPT ![c] = Deleted(@)] \in [Collections -> Grant]
  BY <1>1, <1>2
<1>4. grants' \in [Users -> [Collections -> Grant]]
  BY <1>3 DEF RemoveCollection
<1> QED
  BY <1>1, <1>4, GrantsKeep DEF RemoveCollection

--------------------------------------------------------------------------------
(* Members.                                                                 *)

\* The compared version goes up by one, and the event says so.
LEMMA CommitMemberKeeps ==
  ASSUME IInv, begun' = begun, NEW r \in Requests, CommitMember(r)
  PROVE  IInv'
<1> DEFINE q == requests[r]
           u == q.target
<1>1. /\ TypeOK /\ RowsInv /\ begun' \in 0..MaxRequests
      /\ members \in [Users -> Member \cup {NoRow}]
  BY DEF IInv, TypeOK
<1>2. q \in RequestState /\ q.op = "member.commit" /\ Changing(r)
  BY <1>1 DEF CommitMember, TypeOK, Changing
<1>3. u \in Users /\ q.next \in Member /\ q.seen \in 1..MaxVersion
  BY <1>2, RequestFields
<1>4. /\ members[u] # NoRow /\ q.next.version = q.seen + 1
      /\ \A s \in Requests : Changing(s) /\ requests[s].target = u => s = r
  BY <1>2 DEF IInv, ChangerHolds
<1>5. q.next # NoRow /\ q.next.version > 1
  BY <1>3, <1>4, RowAssumption, AdministrationAssumption
<1>6. /\ UNCHANGED <<accounts, invitations, grants, collections>>
      /\ members' = [members EXCEPT ![u] = q.next]
      /\ trail' = trail \cup {<<"membership.changed", u>>} /\ Ends(r)
  BY DEF CommitMember, Audit
<1>7. /\ requests' \in [Requests -> RequestState] /\ requests'[r] = Idle
      /\ \A s \in Requests : s # r => requests'[s] = requests[s]
  BY <1>1, <1>6, RequestGoes DEF Ends, TypeOK, RequestState
<1> HIDE DEF q, u
<1>8. /\ members' \in [Users -> Member \cup {NoRow}] /\ members'[u] = q.next
      /\ \A v \in Users : v # u => members'[v] = members[v]
  BY <1>1, <1>3, <1>6
<1>9. TypeOK'
  <2>1. trail' \subseteq Action \X (Users \cup Invitations \cup Collections)
    BY <1>1, <1>3, <1>6 DEF TypeOK, Action
  <2> QED
    BY <1>1, <1>6, <1>7, <1>8, <2>1 DEF TypeOK
<1>10. \A name, x : <<name, x>> \in trail' <=>
          <<name, x>> \in trail \/ (name = "membership.changed" /\ x = u)
  BY <1>6
<1>11. PendingIsOpen'
  BY <1>1, <1>6 DEF RowsInv, PendingIsOpen, Pending
<1>12. NothingBeforeTheRow'
  BY <1>1, <1>5, <1>6, <1>8, <1>10 DEF RowsInv, NothingBeforeTheRow
<1>13. MembersAreTold'
  <2>1. ASSUME NEW v \in Users, members'[v] # NoRow
        PROVE  <<"membership.changed", v>> \in trail' <=> members'[v].version > 1
    BY <1>1, <1>5, <1>8, <1>10, <2>1 DEF RowsInv, MembersAreTold
  <2>2. ASSUME NEW v \in Users \ (Founders \cup Seeded), members'[v] # NoRow
        PROVE  \E i \in Invitations : /\ <<"invitation.accepted", i>> \in trail'
                                     /\ invitations'[i].accepted_by = v
    <3>1. members[v] # NoRow
      BY <1>4, <1>8, <2>2
    <3>2. PICK i \in Invitations : /\ <<"invitation.accepted", i>> \in trail
                                   /\ invitations[i].accepted_by = v
      BY <1>1, <3>1 DEF RowsInv, MembersAreTold
    <3> QED
      BY <1>6, <1>10, <3>2
  <2>3. ASSUME NEW i \in Invitations, invitations'[i] # NoRow
        PROVE  /\ <<"invitation.created", i>> \in trail' \/ \E j \in Invitations \ {i} :
                      {<<"invitation.replaced", j>>, <<"invitation.edited", j>>} \cap trail' # {}
               /\ <<"invitation.accepted", i>> \in trail' <=> invitations'[i].accepted_by # NoRow
               /\ <<"invitation.removed", i>> \in trail' <=> ~invitations'[i].live
    <3>1. <<"invitation.created", i>> \in trail' \/ \E j \in Invitations \ {i} :
              {<<"invitation.replaced", j>>, <<"invitation.edited", j>>} \cap trail' # {}
      BY <1>1, <1>6, <2>3 DEF RowsInv, MembersAreTold
    <3>2. /\ <<"invitation.accepted", i>> \in trail <=> invitations[i].accepted_by # NoRow
          /\ <<"invitation.removed", i>> \in trail <=> ~invitations[i].live
      BY <1>1, <1>6, <2>3 DEF RowsInv, MembersAreTold
    <3>3. /\ <<"invitation.accepted", i>> \in trail' <=> <<"invitation.accepted", i>> \in trail
          /\ <<"invitation.removed", i>> \in trail' <=> <<"invitation.removed", i>> \in trail
      BY <1>10
    <3> QED
      BY <1>6, <3>1, <3>2, <3>3
  <2> QED
    BY <2>1, <2>2, <2>3 DEF MembersAreTold
<1>14. \A s \in Requests : requests'[s].op # "idle" => s # r /\ requests'[s] = requests[s]
  BY <1>7 DEF Idle
<1>15. AcceptorHolds'
  <2>1. \A s \in Requests : Accepting(s)' => Accepting(s) /\ requests'[s] = requests[s]
    BY <1>14 DEF Accepting
  <2> QED
    BY <1>6, <2>1 DEF IInv, AcceptorHolds, Pending
<1>16. ChangerHolds'
  <2>1. \A s \in Requests : Changing(s)' => Changing(s) /\ requests'[s] = requests[s] /\ s # r
    BY <1>14 DEF Changing
  <2>2. \A s \in Requests : Changing(s) => requests[s].target \in Users
    BY <1>1, RequestFields DEF Changing, TypeOK
  <2> QED
    BY <1>4, <1>8, <2>1, <2>2 DEF IInv, ChangerHolds
<1>17. NewIsOpen' /\ ExpiredStand'
  <2>1. \A s \in Requests : requests'[s].op \in {"create.commit", "list.commit"} =>
            requests'[s] = requests[s]
    BY <1>14
  <2> QED
    BY <1>6, <2>1 DEF IInv, NewIsOpen, ExpiredStand
<1> QED
  BY <1>9, <1>11, <1>12, <1>13, <1>15, <1>16, <1>17 DEF IInv, RowsInv

\* update_invitation with another address, and replace_invitation.
LEMMA ReplaceKeeps ==
  ASSUME IInv, begun' = begun, NEW r \in Requests, NEW i \in Invitations, NEW j \in Invitations,
         \/ ReplaceInvitation(r, i, j)
         \/ \E email \in Addresses, role \in AskedRoles, given \in SUBSET Collections :
               EditAddress(r, i, j, email, role, given)
  PROVE  IInv'
<1>1. CASE ReplaceInvitation(r, i, j)
  <2> DEFINE old == invitations[i]
  <2>1. old \in Invitation
    BY <1>1 DEF ReplaceInvitation, IInv, TypeOK
  <2>2. /\ old.email \in Addresses \cup {NoRow} /\ old.role \in MembershipRole
        /\ old.initial_grants \in SUBSET Collections
    BY <2>1, InvitationFields
  <2> QED
    BY <1>1, <2>2, SupersedeKeeps DEF ReplaceInvitation
<1>2. ASSUME NEW email \in Addresses, NEW role \in AskedRoles, NEW given \in SUBSET Collections,
             EditAddress(r, i, j, email, role, given)
      PROVE  IInv'
  BY <1>2, SupersedeKeeps, AdministrationAssumption DEF EditAddress, Pending
<1> QED
  BY <1>1, <1>2

--------------------------------------------------------------------------------
(* The invariant.                                                           *)

\* The bootstrapped organization satisfies it.
LEMMA InitIsInvariant ==
  ASSUME Init
  PROVE  IInv
<1>1. \A r \in Requests : requests[r] = Idle
  BY DEF Init
<1>2. \A i \in Invitations : invitations[i] = NoRow
  BY DEF Init
<1>3. \A u \in Users : members[u] = NewMember("owner") \/ members[u] = NewMember("member")
                       \/ (members[u] = NoRow /\ u \notin Founders \cup Seeded)
  BY DEF Init
<1>4. /\ NewMember("owner") \in Member /\ NewMember("member") \in Member
      /\ NewMember("owner").version = 1 /\ NewMember("member").version = 1
  BY AdministrationAssumption DEF NewMember, Member, MembershipRole, MemberStatus
<1>5. TypeOK
  <2>1. members \in [Users -> Member \cup {NoRow}]
    <3>1. members = [u \in Users |-> members[u]]
      BY DEF Init
    <3> QED
      BY <1>3, <1>4, <3>1
  <2>2. grants \in [Users -> [Collections -> Grant]]
    <3>1. [role |-> NoRow, row |-> 0] \in Grant
      BY AdministrationAssumption DEF Grant
    <3> QED
      BY <3>1 DEF Init
  <2> QED
    BY <2>1, <2>2, AdministrationAssumption DEF Init, TypeOK, RequestState
<1>6. RowsInv
  <2>1. \A u \in Users : members[u] # NoRow => ~(members[u].version > 1) /\ u \in Founders \cup Seeded
    BY <1>3, <1>4, AdministrationAssumption DEF Init
  <2>2. trail = {}
    BY DEF Init
  <2> QED
    BY <1>2, <2>1, <2>2
       DEF RowsInv, PendingIsOpen, Pending, MembersAreTold, NothingBeforeTheRow
<1>7. AcceptorHolds /\ ChangerHolds /\ NewIsOpen /\ ExpiredStand
  BY <1>1 DEF AcceptorHolds, Accepting, ChangerHolds, Changing, NewIsOpen, ExpiredStand, Idle
<1> QED
  BY <1>5, <1>6, <1>7 DEF IInv

\* A request that comes in keeps it.
LEMMA ArrivalKeeps ==
  ASSUME IInv, NEW r \in Requests, Arrives(r)
  PROVE  IInv'
<1>1. ASSUME NEW a \in Users, NEW op \in AdminOps, NEW preview \in Previews,
             Authorize(r, op, a, preview)
      PROVE  IInv'
  BY <1>1, AuthorizeKeeps
<1>2. ASSUME NEW i \in Invitations,
             AcceptUnavailable(r, i) \/ \E u \in Users : AcceptMismatch(r, u, i)
      PROVE  IInv'
  <2>1. begun' \in 0..MaxRequests
    BY <1>2, BeginsInBound DEF AcceptUnavailable, AcceptMismatch, IInv
  <2> QED
    BY <1>2, <2>1, AttemptKeeps
<1>3. ASSUME NEW i \in Invitations, NEW u \in Users, AcceptMatch(r, u, i)
      PROVE  IInv'
  <2>1. begun' \in 0..MaxRequests
    BY <1>3, BeginsInBound DEF AcceptMatch, IInv
  <2> QED
    BY <1>3, <2>1, MatchKeeps
<1>4. ASSUME NEW a \in Users, NEW u \in Users, NEW c \in Collections, NEW preview \in Previews,
             \/ \E role \in CollectionRole : ReadGrant(r, "grant.put", a, preview, u, c, role)
             \/ ReadGrant(r, "grant.delete", a, preview, u, c, NoRow)
      PROVE  IInv'
  BY <1>4, RememberKeeps
<1>5. ASSUME NEW a \in Users, NEW c \in Collections, NEW preview \in Previews,
             DenyGrant(r, a, preview, c)
      PROVE  IInv'
  BY <1>5, DenyKeeps
<1> QED
  BY <1>1, <1>2, <1>3, <1>4, <1>5 DEF Arrives

\* A request that goes on keeps it.
LEMMA ContinuationKeeps ==
  ASSUME IInv, NEW r \in Requests, Continues(r), begun' = begun
  PROVE  IInv'
<1>1. ASSUME NEW u \in Users, NEW role \in {NoRow} \cup AskedRoles,
             NEW status \in {NoRow} \cup AskedStatuses, LockMember(r, u, role, status)
      PROVE  IInv'
  BY <1>1, LockKeeps
<1>2. CASE CommitMember(r)
  BY <1>2, CommitMemberKeeps
<1>3. ASSUME NEW email \in Addresses, NEW role \in AskedRoles, NEW given \in SUBSET Collections,
             CheckPending(r, email, role, given)
      PROVE  IInv'
  BY <1>3, CheckKeeps
<1>4. ASSUME NEW role \in AskedRoles, NEW given \in SUBSET Collections, NEW i \in Invitations,
             EditInPlace(r, i, role, given)
      PROVE  IInv'
  BY <1>4, EditKeeps, AdministrationAssumption
<1>5. ASSUME NEW i \in Invitations, NEW j \in Invitations,
             \/ ReplaceInvitation(r, i, j)
             \/ \E email \in Addresses, role \in AskedRoles, given \in SUBSET Collections :
                   EditAddress(r, i, j, email, role, given)
      PROVE  IInv'
  BY <1>5, ReplaceKeeps
<1>6. ASSUME NEW i \in Invitations, CommitInvitation(r, i)
      PROVE  IInv'
  BY <1>6, CommitInvitationKeeps
<1>7. ASSUME NEW i \in Invitations, RemoveInvitation(r, i)
      PROVE  IInv'
  BY <1>7, RemoveKeeps
<1>8. ASSUME NEW i \in Invitations, RevokeInvitation(r, i)
      PROVE  IInv'
  <2>1. "member" \in MembershipRole /\ {} \in SUBSET Collections
    BY DEF MembershipRole
  <2> QED
    BY <1>8, <2>1, EditKeeps
<1>9. CASE ReadExpired(r) \/ CommitExpired(r) \/ RefuseInvitationChange(r)
  <2>1. begun' \in 0..MaxRequests
    BY DEF IInv, TypeOK
  <2>2. CASE RefuseInvitationChange(r)
    BY <2>1, <2>2, RefusedKeeps DEF RefuseInvitationChange
  <2> QED
    BY <1>9, <2>2, RememberKeeps, ExpiryKeeps
<1>10. CASE AcceptJoin(r) \/ AcceptCommit(r)
  BY <1>10, JoinKeeps, AcceptKeeps
<1>11. CASE ChangeGrant(r) \/ InsertGrant(r) \/ DeleteGrant(r)
  BY <1>11, GrantRequestKeeps
<1>12. ASSUME NEW email \in Addresses, NEW role \in AskedRoles, NEW given \in SUBSET Collections,
              \/ CheckPending(r, email, role, given)
              \/ \E i, j \in Invitations : \/ EditInPlace(r, i, role, given)
                                           \/ EditAddress(r, i, j, email, role, given)
       PROVE  IInv'
  BY <1>3, <1>4, <1>5, <1>12
<1>13. ASSUME NEW i \in Invitations, NEW j \in Invitations,
              \/ CommitInvitation(r, i)
              \/ RemoveInvitation(r, i)
              \/ RevokeInvitation(r, i)
              \/ ReplaceInvitation(r, i, j)
       PROVE  IInv'
  BY <1>5, <1>6, <1>7, <1>8, <1>13
<1> QED
  BY <1>1, <1>2, <1>9, <1>10, <1>11, <1>12, <1>13, Zenon DEF Continues

\* Every step keeps it.
LEMMA NextKeeps ==
  ASSUME IInv, [Next]_vars
  PROVE  IInv'
<1>1. ASSUME NEW r \in Requests, Arrives(r)
      PROVE  IInv'
  BY <1>1, ArrivalKeeps
<1>2. ASSUME NEW r \in Requests, Continues(r), UNCHANGED begun
      PROVE  IInv'
  BY <1>2, ContinuationKeeps
<1>3. ASSUME Surroundings, UNCHANGED begun
      PROVE  IInv'
  <2>1. begun' \in 0..MaxRequests
    BY <1>3 DEF IInv, TypeOK
  <2>2. ASSUME NEW i \in Invitations, Expire(i)
        PROVE  IInv'
    BY <2>1, <2>2, AttemptKeeps
  <2> QED
    BY <1>3, <2>2, RemoveCollectionKeeps DEF Surroundings
<1>4. CASE UNCHANGED vars
  <2>1. UNCHANGED <<accounts, members, invitations, grants, collections, begun, requests, trail>>
    BY <1>4 DEF vars
  <2>2. TypeOK'
    BY <2>1 DEF IInv, TypeOK
  <2>3. RowsInv'
    BY <2>1 DEF IInv, RowsInv, PendingIsOpen, Pending, MembersAreTold, NothingBeforeTheRow
  <2>4. AcceptorHolds' /\ ChangerHolds' /\ NewIsOpen' /\ ExpiredStand'
    BY <2>1 DEF IInv, AcceptorHolds, Accepting, Pending, ChangerHolds, Changing, NewIsOpen,
                ExpiredStand
  <2> QED
    BY <2>2, <2>3, <2>4 DEF IInv
<1> QED
  BY <1>1, <1>2, <1>3, <1>4 DEF Next

\* The rows, the locks and the trail agree in every state of concurrent
\* administration requests (enterprise.py under READ COMMITTED and FOR UPDATE).
THEOREM Invariant == Spec => []IInv
<1>1. Init => IInv
  BY InitIsInvariant
<1>2. IInv /\ [Next]_vars => IInv'
  BY NextKeeps
<1> QED
  BY <1>1, <1>2, PTL DEF Spec

--------------------------------------------------------------------------------
(* What follows.                                                            *)

\* The rows and the request contexts have their types.
THEOREM AdministrationTypes == Spec => []TypeOK
<1>1. IInv => TypeOK
  BY DEF IInv
<1> QED
  BY <1>1, Invariant, PTL

--------------------------------------------------------------------------------
(* Who writes what.                                                         *)

Admits(r) == AcceptCommit(r) /\ ~AcceptFails(requests[r])

SameSubject(i) == invitations'[i].accepted_by = invitations[i].accepted_by

\* A member is written by a change of a member and by an acceptance.
LEMMA MemberWriters ==
  ASSUME [Next]_vars
  PROVE  members' = members \/ \E r \in Requests : CommitMember(r) \/ Admits(r)
<1>1. ASSUME NEW r \in Requests, Arrives(r)
      PROVE  members' = members
  <2>1. ASSUME NEW a, NEW op, NEW preview, Authorize(r, op, a, preview)
        PROVE  members' = members
    BY <2>1 DEF Authorize, rows
  <2>2. ASSUME NEW i, NEW u, AcceptUnavailable(r, i) \/ AcceptMismatch(r, u, i) \/ AcceptMatch(r, u, i)
        PROVE  members' = members
    BY <2>2 DEF AcceptUnavailable, AcceptMismatch, AcceptMatch, rows
  <2>3. ASSUME NEW op, NEW a, NEW u, NEW c, NEW preview, NEW role,
               ReadGrant(r, op, a, preview, u, c, role) \/ DenyGrant(r, a, preview, c)
        PROVE  members' = members
    BY <2>3 DEF ReadGrant, DenyGrant, rows
  <2> QED
    BY <1>1, <2>1, <2>2, <2>3 DEF Arrives
<1>2. ASSUME NEW r \in Requests, Continues(r)
      PROVE  members' = members \/ CommitMember(r) \/ Admits(r)
  <2>1. ASSUME NEW u \in Users, NEW role, NEW status, LockMember(r, u, role, status)
        PROVE  members' = members
    BY <2>1 DEF LockMember, Refused, rows
  <2>2. ASSUME NEW email, NEW role, NEW given,
               \/ CheckPending(r, email, role, given)
               \/ \E i, j \in Invitations : \/ EditInPlace(r, i, role, given)
                                            \/ EditAddress(r, i, j, email, role, given)
        PROVE  members' = members
    BY <2>2 DEF CheckPending, EditInPlace, EditAddress, Refused, rows
  <2>3. ASSUME NEW i \in Invitations, NEW j \in Invitations,
               \/ CommitInvitation(r, i)
               \/ RemoveInvitation(r, i)
               \/ RevokeInvitation(r, i)
               \/ ReplaceInvitation(r, i, j)
        PROVE  members' = members
    BY <2>3 DEF CommitInvitation, RemoveInvitation, RevokeInvitation, ReplaceInvitation
  <2>4. CASE ReadExpired(r) \/ CommitExpired(r) \/ RefuseInvitationChange(r)
    BY <2>4 DEF ReadExpired, CommitExpired, RefuseInvitationChange, Refused, rows
  <2>5. CASE AcceptJoin(r)
    BY <2>5 DEF AcceptJoin, Refused, rows
  <2>6. CASE AcceptCommit(r)
    BY <2>6 DEF AcceptCommit, Admits, Refused, rows
  <2>7. CASE ChangeGrant(r) \/ InsertGrant(r) \/ DeleteGrant(r)
    BY <2>7 DEF ChangeGrant, InsertGrant, DeleteGrant, WriteGrant, rows
  <2> QED
    BY <1>2, <2>1, <2>2, <2>3, <2>4, <2>5, <2>6, <2>7 DEF Continues
<1>3. CASE Surroundings
  BY <1>3 DEF Surroundings, Expire, RemoveCollection
<1>4. CASE UNCHANGED vars
  BY <1>4 DEF vars
<1> QED
  BY <1>1, <1>2, <1>3, <1>4 DEF Next

\* The subject an invitation has admitted is written by an acceptance only.
LEMMA SubjectWriters ==
  ASSUME IInv, [Next]_vars, NEW i \in Invitations, invitations[i] # NoRow
  PROVE  SameSubject(i) \/ \E r \in Requests : Admits(r) /\ requests[r].target = i
<1>1. /\ invitations \in [Invitations -> Invitation \cup {NoRow}]
      /\ requests \in [Requests -> RequestState]
      /\ invitations[i] \in Invitation
  BY DEF IInv, TypeOK
<1>2. ASSUME UNCHANGED invitations
      PROVE  SameSubject(i)
  BY <1>2 DEF SameSubject
<1>3. ASSUME NEW k \in Invitations, NEW row, Write(k, row),
             k = i => row.accepted_by = invitations[i].accepted_by
      PROVE  SameSubject(i)
  BY <1>1, <1>3 DEF Write, SameSubject
<1>4. /\ [invitations[i] EXCEPT !.due = TRUE].accepted_by = invitations[i].accepted_by
      /\ \A status : [invitations[i] EXCEPT !.status = status].accepted_by
                        = invitations[i].accepted_by
      /\ \A role, given : [invitations[i] EXCEPT !.role = role, !.initial_grants = given].accepted_by
                            = invitations[i].accepted_by
      /\ [invitations[i] EXCEPT !.status = "removed", !.live = FALSE, !.email = NoRow].accepted_by
           = invitations[i].accepted_by
      /\ Counted(i).accepted_by = invitations[i].accepted_by
      /\ \A status : [Counted(i) EXCEPT !.status = status].accepted_by
                        = invitations[i].accepted_by
      /\ [Counted(i) EXCEPT !.status = @].accepted_by = invitations[i].accepted_by
  BY <1>1 DEF Invitation, Counted
<1>5. ASSUME NEW k \in Invitations, NEW j \in Invitations, NEW successor,
             Supersede(k, j, successor)
      PROVE  SameSubject(i)
  <2>1. j # i
    BY <1>5 DEF Supersede
  <2>2. invitations'[i] = invitations[i]
        \/ invitations'[i] = [invitations[i] EXCEPT !.status = "replaced"]
    BY <1>1, <1>5, <2>1 DEF Supersede
  <2> QED
    BY <1>4, <2>2 DEF SameSubject
<1>6. ASSUME NEW r \in Requests, Arrives(r)
      PROVE  SameSubject(i)
  <2>1. ASSUME NEW k \in Invitations, AcceptUnavailable(r, k)
        PROVE  SameSubject(i)
    <3>1. /\ invitations[k].status = "pending" /\ invitations[k].due
          => Write(k, [Counted(k) EXCEPT !.status = "expired"])
      BY <2>1 DEF AcceptUnavailable
    <3>2. ~(invitations[k].status = "pending" /\ invitations[k].due)
          => Write(k, [Counted(k) EXCEPT !.status = @])
      BY <2>1 DEF AcceptUnavailable
    <3> QED
      BY <1>3, <1>4, <3>1, <3>2
  <2>2. ASSUME NEW k \in Invitations, NEW u \in Users, AcceptMismatch(r, u, k)
        PROVE  SameSubject(i)
    BY <1>3, <1>4, <2>2 DEF AcceptMismatch
  <2>3. ASSUME NEW a, NEW op, NEW preview, Authorize(r, op, a, preview)
        PROVE  SameSubject(i)
    BY <1>2, <2>3 DEF Authorize, rows
  <2>4. ASSUME NEW k, NEW u, AcceptMatch(r, u, k)
        PROVE  SameSubject(i)
    BY <1>2, <2>4 DEF AcceptMatch, rows
  <2>5. ASSUME NEW op, NEW a, NEW u, NEW c, NEW preview, NEW role,
               ReadGrant(r, op, a, preview, u, c, role) \/ DenyGrant(r, a, preview, c)
        PROVE  SameSubject(i)
    BY <1>2, <2>5 DEF ReadGrant, DenyGrant, rows
  <2> QED
    BY <1>6, <2>1, <2>2, <2>3, <2>4, <2>5 DEF Arrives
<1>7. ASSUME NEW r \in Requests, Continues(r)
      PROVE  SameSubject(i) \/ (Admits(r) /\ requests[r].target = i)
  <2>1. ASSUME NEW u \in Users, NEW role, NEW status, LockMember(r, u, role, status)
        PROVE  SameSubject(i)
    BY <1>2, <2>1 DEF LockMember, Refused, rows
  <2>2. ASSUME NEW email, NEW role, NEW given,
               \/ CheckPending(r, email, role, given)
               \/ \E k, j \in Invitations : \/ EditInPlace(r, k, role, given)
                                            \/ EditAddress(r, k, j, email, role, given)
        PROVE  SameSubject(i)
    <3>1. ASSUME NEW k \in Invitations, EditInPlace(r, k, role, given)
          PROVE  SameSubject(i)
      BY <1>3, <1>4, <3>1 DEF EditInPlace
    <3>2. ASSUME NEW k \in Invitations, NEW j \in Invitations, EditAddress(r, k, j, email, role, given)
          PROVE  SameSubject(i)
      BY <1>5, <3>2 DEF EditAddress
    <3>3. CASE CheckPending(r, email, role, given)
      BY <1>2, <3>3 DEF CheckPending, Refused, rows
    <3> QED
      BY <2>2, <3>1, <3>2, <3>3
  <2>3. ASSUME NEW k \in Invitations, NEW j \in Invitations,
               \/ CommitInvitation(r, k)
               \/ RemoveInvitation(r, k)
               \/ RevokeInvitation(r, k)
               \/ ReplaceInvitation(r, k, j)
        PROVE  SameSubject(i)
    <3>1. CASE CommitInvitation(r, k)
      BY <1>3, <3>1 DEF CommitInvitation
    <3>2. CASE RemoveInvitation(r, k) \/ RevokeInvitation(r, k)
      BY <1>3, <1>4, <3>2 DEF RemoveInvitation, RevokeInvitation
    <3>3. CASE ReplaceInvitation(r, k, j)
      BY <1>5, <3>3 DEF ReplaceInvitation
    <3> QED
      BY <2>3, <3>1, <3>2, <3>3
  <2>4. CASE CommitExpired(r)
    <3>1. invitations'[i] = invitations[i]
          \/ invitations'[i] = [invitations[i] EXCEPT !.status = "expired"]
      BY <2>4 DEF CommitExpired
    <3> QED
      BY <1>4, <3>1 DEF SameSubject
  <2>5. CASE ReadExpired(r) \/ RefuseInvitationChange(r)
    BY <1>2, <2>5 DEF ReadExpired, RefuseInvitationChange, Refused, rows
  <2>6. CASE CommitMember(r)
    BY <1>2, <2>6 DEF CommitMember
  <2>7. CASE AcceptJoin(r)
    <3>1. requests[r].target \in Invitations
      BY <1>1, <2>7, RequestFields DEF AcceptJoin
    <3>2. UNCHANGED invitations \/ Write(requests[r].target, Counted(requests[r].target))
      BY <2>7 DEF AcceptJoin, Refused, rows
    <3> QED
      BY <1>2, <1>3, <1>4, <3>1, <3>2
  <2>8. CASE AcceptCommit(r)
    <3>1. requests[r].target \in Invitations
      BY <1>1, <2>8, RequestFields DEF AcceptCommit
    <3>2. CASE AcceptFails(requests[r])
      BY <1>2, <2>8, <3>2 DEF AcceptCommit, Refused, rows
    <3>3. CASE ~AcceptFails(requests[r])
      <4>1. \E row : Write(requests[r].target, row)
        BY <2>8, <3>3 DEF AcceptCommit
      <4> QED
        BY <1>3, <2>8, <3>1, <3>3, <4>1 DEF Admits
    <3> QED
      BY <3>2, <3>3
  <2>9. CASE ChangeGrant(r) \/ InsertGrant(r) \/ DeleteGrant(r)
    BY <1>2, <2>9 DEF ChangeGrant, InsertGrant, DeleteGrant, WriteGrant, rows
  <2> QED
    BY <1>7, <2>1, <2>2, <2>3, <2>4, <2>5, <2>6, <2>7, <2>8, <2>9 DEF Continues
<1>8. CASE Surroundings
  <2>1. ASSUME NEW k \in Invitations, Expire(k)
        PROVE  SameSubject(i)
    BY <1>3, <1>4, <2>1 DEF Expire
  <2> QED
    BY <1>2, <1>8, <2>1 DEF Surroundings, RemoveCollection
<1>9. CASE UNCHANGED vars
  BY <1>2, <1>9 DEF vars
<1> QED
  BY <1>6, <1>7, <1>8, <1>9 DEF Next

\* What an acceptance finds and does.
LEMMA AdmissionFacts ==
  ASSUME IInv, NEW r \in Requests, Admits(r)
  PROVE  /\ requests[r].actor \in Users /\ requests[r].target \in Invitations
         /\ Pending(requests[r].target) /\ invitations[requests[r].target].live
         /\ invitations[requests[r].target].accepted_by = NoRow
         /\ \A u \in Users : members[u] # NoRow => members'[u] = members[u]
         /\ \A u \in Users, c \in Collections : Granted(u, c) => grants'[u][c] = grants[u][c]
<1> DEFINE q == requests[r]
<1>1. /\ members \in [Users -> Member \cup {NoRow}] /\ grants \in [Users -> [Collections -> Grant]]
      /\ q \in RequestState /\ q.op = "accept.commit" /\ Accepting(r)
  BY DEF IInv, TypeOK, Admits, AcceptCommit, Accepting
<1>2. q.actor \in Users /\ q.target \in Invitations /\ q.missing \in SUBSET Collections
  BY <1>1, RequestFields
<1>3. Pending(q.target)
  BY <1>1 DEF IInv, AcceptorHolds
<1>4. invitations[q.target].live /\ invitations[q.target].accepted_by = NoRow
  BY <1>2, <1>3 DEF IInv, RowsInv, PendingIsOpen
<1>5. /\ q.joins => members[q.actor] = NoRow
      /\ \A c \in q.missing : ~Granted(q.actor, c)
  BY DEF Admits, AcceptFails
<1>6. ASSUME NEW u \in Users, members[u] # NoRow
      PROVE  members'[u] = members[u]
  <2>1. members'[u] = members[u] \/ (u = q.actor /\ q.joins)
    BY <1>1, <1>2 DEF Admits, AcceptCommit
  <2> QED
    BY <1>5, <1>6, <2>1
<1>7. ASSUME NEW u \in Users, NEW c \in Collections, Granted(u, c)
      PROVE  grants'[u][c] = grants[u][c]
  <2>1. grants'[u][c] = grants[u][c] \/ (u = q.actor /\ c \in q.missing)
    BY <1>1, <1>2 DEF Admits, AcceptCommit
  <2> QED
    BY <1>5, <1>7, <2>1
<1> QED
  BY <1>2, <1>3, <1>4, <1>6, <1>7

--------------------------------------------------------------------------------
(* What a step may do.                                                      *)

\* An invitation admits one subject, while it is pending and its link is good:
\* whatever withdrew it first wins (accept_invitation locks the row).
THEOREM AnInvitationAdmitsOnce == Spec => AdmitsOnce
<1> DEFINE Once == \A i \in Invitations : invitations[i] # NoRow =>
                      \/ invitations'[i].accepted_by = invitations[i].accepted_by
                      \/ /\ invitations[i].accepted_by = NoRow
                         /\ invitations[i].status = "pending" /\ invitations[i].live
<1>1. IInv /\ [Next]_vars => Once
  <2> SUFFICES ASSUME IInv, [Next]_vars, NEW i \in Invitations, invitations[i] # NoRow,
                      ~SameSubject(i)
               PROVE  /\ invitations[i].accepted_by = NoRow
                      /\ invitations[i].status = "pending" /\ invitations[i].live
    BY DEF SameSubject
  <2>1. PICK r \in Requests : Admits(r) /\ requests[r].target = i
    BY SubjectWriters
  <2> QED
    BY <2>1, AdmissionFacts DEF Pending
<1>2. [][Once]_vars <=> AdmitsOnce
  BY DEF AdmitsOnce
<1> QED
  BY <1>1, <1>2, Invariant, PTL DEF Spec

\* A member changes only for a client that saw its latest version
\* (expected_version in update_member).
THEOREM NoChangeOfAMemberIsLost == Spec => NoLostUpdate
<1> DEFINE Seen == \A u \in Users : (members[u] # NoRow /\ members'[u] # members[u]) =>
                      \E r \in Requests : /\ requests[r].op = "member.commit"
                                          /\ requests[r].target = u
                                          /\ requests[r].seen = members[u].version
<1>1. IInv /\ [Next]_vars => Seen
  <2> SUFFICES ASSUME IInv, [Next]_vars, NEW u \in Users, members[u] # NoRow,
                      members'[u] # members[u]
               PROVE  \E r \in Requests : /\ requests[r].op = "member.commit"
                                          /\ requests[r].target = u
                                          /\ requests[r].seen = members[u].version
    OBVIOUS
  <2>1. PICK r \in Requests : CommitMember(r) \/ Admits(r)
    BY MemberWriters
  <2>2. CommitMember(r)
    BY <2>1, AdmissionFacts
  <2>3. requests[r].op = "member.commit" /\ requests[r].target = u
    <3>1. requests[r].target = u
      BY <2>2 DEF CommitMember, IInv, TypeOK
    <3> QED
      BY <2>2, <3>1 DEF CommitMember
  <2>4. requests[r].seen = members[u].version
    BY <2>3 DEF IInv, ChangerHolds, Changing
  <2> QED
    BY <2>3, <2>4
<1>2. [][Seen]_vars <=> NoLostUpdate
  BY DEF NoLostUpdate
<1> QED
  BY <1>1, <1>2, Invariant, PTL DEF Spec

\* An acceptance takes nothing the subject holds: no role, no suspension, no
\* grant given meanwhile (accept_invitation adds the rows that are missing).
THEOREM AnAcceptanceOnlyAdds == Spec => AcceptanceOnlyAdds
<1> DEFINE Adds == \A i \in Invitations :
         (invitations[i] # NoRow /\ invitations[i].accepted_by = NoRow
            /\ invitations'[i].accepted_by # NoRow) =>
         \A u \in Users : /\ members[u] # NoRow => members'[u] = members[u]
                         /\ \A c \in Collections : Granted(u, c) => grants'[u][c] = grants[u][c]
<1>1. IInv /\ [Next]_vars => Adds
  <2> SUFFICES ASSUME IInv, [Next]_vars, NEW i \in Invitations, invitations[i] # NoRow,
                      invitations[i].accepted_by = NoRow, invitations'[i].accepted_by # NoRow,
                      NEW u \in Users
               PROVE  /\ members[u] # NoRow => members'[u] = members[u]
                      /\ \A c \in Collections : Granted(u, c) => grants'[u][c] = grants[u][c]
    OBVIOUS
  <2>1. PICK r \in Requests : Admits(r) /\ requests[r].target = i
    BY SubjectWriters DEF SameSubject
  <2> QED
    BY <2>1, AdmissionFacts
<1>2. [][Adds]_vars <=> AcceptanceOnlyAdds
  BY DEF AcceptanceOnlyAdds
<1> QED
  BY <1>1, <1>2, Invariant, PTL DEF Spec
--------------------------------------------------------------------------------
(* The administration is the register its members know.                     *)

\* A grant is of a collection that exists.
GrantsStand == \A u \in Users, c \in Collections : Granted(u, c) => c \in collections

\* What a request is about to write fits the rows as they are.
Fits(r) ==
    /\ requests[r].op = "create.commit" => requests[r].next.status = "pending"
    /\ Accepting(r) => invitations[requests[r].target].email = Mailbox[requests[r].actor]
    /\ requests[r].op = "accept.commit" =>
          /\ requests[r].missing \subseteq invitations[requests[r].target].initial_grants
          /\ requests[r].joins \/ members[requests[r].actor] # NoRow
    /\ requests[r].op = "grant.put" => members[requests[r].target] # NoRow

Ready == GrantsStand /\ \A r \in Requests : Fits(r)

TermsStand(i) ==
    /\ invitations'[i].email = invitations[i].email
    /\ invitations'[i].initial_grants = invitations[i].initial_grants

\* What a request prepared still fits while members stay members and the terms
\* of an invitation stay those under which it is being accepted.
LEMMA FitsStay ==
  ASSUME TypeOK, NEW s \in Requests, Fits(s), requests'[s] = requests[s],
         \A u \in Users : members[u] # NoRow => members'[u] # NoRow,
         Accepting(s) => TermsStand(requests[s].target)
  PROVE  Fits(s)'
<1>1. requests[s] \in RequestState
  BY DEF TypeOK
<1>2. /\ requests[s].op = "accept.commit" => requests[s].actor \in Users
      /\ requests[s].op = "grant.put" => requests[s].target \in Users
  BY <1>1, RequestFields
<1> QED
  BY <1>2 DEF Fits, Accepting, TermsStand

\* A request that ended fits whatever the rows are.
LEMMA IdleFits ==
  ASSUME NEW s \in Requests, requests'[s] = Idle
  PROVE  Fits(s)'
BY DEF Fits, Accepting, Idle

\* A request moves and the others stay.
LEMMA ReadyStays ==
  ASSUME TypeOK, Ready, GrantsStand',
         NEW r, requests' = requests \/ (r \in Requests /\ Ends(r)),
         \A u \in Users : members[u] # NoRow => members'[u] # NoRow,
         \A s \in Requests : Accepting(s) /\ (s = r => requests' = requests)
            => TermsStand(requests[s].target)
  PROVE  Ready'
<1> SUFFICES ASSUME NEW s \in Requests PROVE Fits(s)'
  BY DEF Ready
<1>1. requests'[s] = Idle \/ (requests'[s] = requests[s] /\ (s = r => requests' = requests))
  BY DEF Ends, Goes, TypeOK
<1> QED
  BY <1>1, FitsStay, IdleFits DEF Ready

\* The rows stay: so does the register.
LEMMA RowsStay ==
  ASSUME UNCHANGED <<members, invitations, grants, collections>>
  PROVE  UNCHANGED Register!vars
BY DEF Register!vars, OpenOffers, Spent, Admitted, Held, Pending, Terms

\* A request reads, and goes on with what fits the rows.
LEMMA ReadFits ==
  ASSUME TypeOK, Ready, NEW r \in Requests, NEW state \in RequestState, Goes(r, state),
         UNCHANGED rows,
         state.op = "create.commit" => state.next.status = "pending",
         state.op \in {"accept.join", "accept.commit"} =>
            invitations[state.target].email = Mailbox[state.actor],
         state.op = "accept.commit" =>
            /\ state.missing \subseteq invitations[state.target].initial_grants
            /\ state.joins \/ members[state.actor] # NoRow,
         state.op = "grant.put" => members[state.target] # NoRow
  PROVE  Ready' /\ UNCHANGED Register!vars
<1>1. UNCHANGED <<accounts, members, invitations, grants, collections, trail>>
  BY DEF rows
<1>2. requests'[r] = state /\ \A s \in Requests : s # r => requests'[s] = requests[s]
  BY RequestGoes DEF TypeOK
<1>3. GrantsStand'
  BY <1>1 DEF Ready, GrantsStand, Granted
<1>4. Fits(r)'
  BY <1>1, <1>2 DEF Fits, Accepting
<1>5. \A s \in Requests : s # r => Fits(s)'
  BY <1>1, <1>2, FitsStay DEF Ready, TermsStand
<1> QED
  BY <1>1, <1>3, <1>4, <1>5, RowsStay DEF Ready

\* A request ends without a commit.
LEMMA RefusedFits ==
  ASSUME TypeOK, Ready, NEW r \in Requests, Refused(r)
  PROVE  Ready' /\ UNCHANGED Register!vars
BY ReadFits DEF Refused, Ends, Idle, RequestState

--------------------------------------------------------------------------------
(* Invitations, as the register sees them.                                  *)

\* The terms of a row are an offer.
LEMMA TermsAreAnOffer ==
  ASSUME NEW row \in Invitation
  PROVE  Terms(row) \in Offer /\ Terms(row) # NoRow
BY InvitationFields, RowAssumption DEF Terms, Offer

\* One row is written.
LEMMA RowWritten ==
  ASSUME TypeOK, NEW i \in Invitations, NEW row \in Invitation, Write(i, row)
  PROVE  /\ OpenOffers' = [OpenOffers EXCEPT ![i] = IF row.status = "pending" THEN Terms(row)
                                                                              ELSE NoRow]
         /\ Spent' = IF row.status = "pending" THEN Spent \ {i} ELSE Spent \cup {i}
         /\ Admitted' = [Admitted EXCEPT ![i] = row.accepted_by]
         /\ \A j \in Invitations \ {i} : TermsStand(j)
<1>1. /\ invitations'[i] = row /\ row # NoRow
      /\ \A j \in Invitations \ {i} : invitations'[j] = invitations[j]
  BY RowAssumption DEF Write, TypeOK
<1>2. Pending(i)' <=> row.status = "pending"
  BY <1>1 DEF Pending
<1>3. \A j \in Invitations \ {i} : Pending(j)' <=> Pending(j)
  BY <1>1 DEF Pending
<1>4. OpenOffers' = [OpenOffers EXCEPT ![i] = IF row.status = "pending" THEN Terms(row) ELSE NoRow]
  BY <1>1, <1>2, <1>3 DEF OpenOffers, Terms
<1>5. Spent' = IF row.status = "pending" THEN Spent \ {i} ELSE Spent \cup {i}
  BY <1>1, <1>2, <1>3 DEF Spent
<1>6. Admitted' = [Admitted EXCEPT ![i] = row.accepted_by]
  BY <1>1 DEF Admitted
<1> QED
  BY <1>1, <1>4, <1>5, <1>6 DEF TermsStand

\* What the register shows of a row that is there.
LEMMA RowShown ==
  ASSUME NEW i \in Invitations, invitations[i] # NoRow
  PROVE  /\ OpenOffers[i] = IF invitations[i].status = "pending" THEN Terms(invitations[i])
                                                                 ELSE NoRow
         /\ i \in Spent <=> invitations[i].status # "pending"
         /\ Admitted[i] = invitations[i].accepted_by
BY DEF OpenOffers, Spent, Admitted, Pending

\* The columns that decide an acceptance stay: the register does not move.
LEMMA TermsUnmoved ==
  ASSUME TypeOK, NEW i \in Invitations, invitations[i] # NoRow, NEW row \in Invitation,
         Write(i, row), row.status = invitations[i].status, Terms(row) = Terms(invitations[i]),
         row.accepted_by = invitations[i].accepted_by, UNCHANGED <<members, grants, collections>>
  PROVE  UNCHANGED Register!vars /\ \A j \in Invitations : TermsStand(j)
<1>1. /\ OpenOffers' = [OpenOffers EXCEPT ![i] = OpenOffers[i]]
      /\ Spent' = IF i \in Spent THEN Spent \cup {i} ELSE Spent \ {i}
      /\ Admitted' = [Admitted EXCEPT ![i] = Admitted[i]]
      /\ \A j \in Invitations \ {i} : TermsStand(j)
  BY RowWritten, RowShown
<1>2. OpenOffers' = OpenOffers /\ Spent' = Spent /\ Admitted' = Admitted
  BY <1>1 DEF OpenOffers, Admitted
<1>3. TermsStand(i)
  <2>1. invitations'[i] = row
    BY DEF Write, TypeOK
  <2> QED
    BY <2>1 DEF Terms, TermsStand
<1>4. Held' = Held
  BY DEF Held
<1> QED
  BY <1>1, <1>2, <1>3, <1>4 DEF Register!vars

\* A row that was pending, or was not, is pending no more.
LEMMA OfferCloses ==
  ASSUME TypeOK, NEW i \in Invitations, invitations[i] # NoRow, NEW row \in Invitation,
         Write(i, row), row.status # "pending", row.accepted_by = invitations[i].accepted_by,
         UNCHANGED <<members, grants, collections>>
  PROVE  Register!Next \/ UNCHANGED Register!vars
<1>1. /\ OpenOffers' = [OpenOffers EXCEPT ![i] = NoRow]
      /\ Spent' = Spent \cup {i} /\ Admitted' = [Admitted EXCEPT ![i] = Admitted[i]]
  BY RowWritten, RowShown
<1>2. Admitted' = Admitted /\ Held' = Held
  BY <1>1 DEF Admitted, Held
<1>3. CASE Pending(i)
  <2>1. OpenOffers[i] # NoRow
    BY <1>3, TermsAreAnOffer DEF OpenOffers, Pending, TypeOK
  <2>2. OpenOffers' = [j \in Invitations |-> IF j \in {i} THEN NoRow ELSE OpenOffers[j]]
    BY <1>1 DEF OpenOffers
  <2>3. Register!Close({i})
    BY <1>1, <1>2, <2>1, <2>2 DEF Register!Close
  <2>4. {i} \in SUBSET Invitations
    OBVIOUS
  <2> QED
    BY <2>3, <2>4 DEF Register!Next
<1>4. CASE ~Pending(i)
  <2>1. OpenOffers[i] = NoRow /\ i \in Spent
    BY <1>4, RowShown DEF Pending
  <2>2. OpenOffers' = OpenOffers /\ Spent' = Spent
    BY <1>1, <2>1 DEF OpenOffers
  <2> QED
    BY <1>2, <2>2 DEF Register!vars
<1> QED
  BY <1>3, <1>4

\* One more attempt changes nothing else.
LEMMA CountedRow ==
  ASSUME NEW i \in Invitations, invitations[i] \in Invitation, invitations[i].attempts < MaxAttempts
  PROVE  /\ Counted(i) \in Invitation /\ Counted(i).status = invitations[i].status
         /\ Terms(Counted(i)) = Terms(invitations[i])
         /\ Counted(i).accepted_by = invitations[i].accepted_by
<1>1. invitations[i].attempts + 1 \in 0..MaxAttempts
  BY InvitationFields, AdministrationAssumption
<1> QED
  BY <1>1, InvitationFields DEF Counted, Invitation, Terms

\* create_invitation makes an offer, and an edit in place amends one.
LEMMA CreateShown ==
  ASSUME IInv, Ready, NEW r \in Requests, NEW i \in Invitations, CommitInvitation(r, i)
  PROVE  Ready' /\ Register!Next
<1> DEFINE next == requests[r].next
<1>1. TypeOK
  BY DEF IInv
<1>2. next \in Invitation /\ next.status = "pending" /\ next.accepted_by = NoRow
  BY RequestFields DEF CommitInvitation, IInv, TypeOK, NewIsOpen, Ready, Fits
<1>3. /\ invitations[i] = NoRow /\ Write(i, next) /\ Ends(r)
      /\ UNCHANGED <<members, grants, collections>>
  BY DEF CommitInvitation
<1> HIDE DEF next
<1>4. /\ OpenOffers' = [OpenOffers EXCEPT ![i] = Terms(next)] /\ Spent' = Spent \ {i}
      /\ Admitted' = [Admitted EXCEPT ![i] = NoRow]
      /\ \A j \in Invitations \ {i} : TermsStand(j)
  BY <1>1, <1>2, <1>3, RowWritten
<1>5. OpenOffers[i] = NoRow /\ i \notin Spent /\ Admitted[i] = NoRow
  BY <1>3 DEF OpenOffers, Spent, Admitted, Pending
<1>6. Spent' = Spent /\ Admitted' = Admitted /\ Held' = Held
  BY <1>3, <1>4, <1>5 DEF Admitted, Held
<1>7. Register!Make(i)
  BY <1>2, <1>3, <1>4, <1>5, <1>6, TermsAreAnOffer
     DEF Register!Make, Register!Unused, Register!Offer, Offer, Addresses
<1>8. \A s \in Requests : Accepting(s) => TermsStand(requests[s].target)
  <2>1. \A s \in Requests : Accepting(s) => requests[s].target \in Invitations
    BY <1>1, RequestFields DEF Accepting, TypeOK
  <2> QED
    BY <1>3, <1>4, <2>1 DEF IInv, AcceptorHolds, Pending
<1>9. GrantsStand'
  BY <1>3 DEF Ready, GrantsStand, Granted
<1> QED
  BY <1>1, <1>3, <1>7, <1>8, <1>9, ReadyStays DEF Register!Next

\* A row nobody has locked is written.
LEMMA FreeRowReady ==
  ASSUME TypeOK, Ready, NEW r, requests' = requests \/ (r \in Requests /\ Ends(r)),
         NEW i \in Invitations, ~InvitationLocked(i),
         UNCHANGED <<members, grants, collections>>,
         \A j \in Invitations \ {i} : TermsStand(j)
  PROVE  Ready'
<1>1. \A s \in Requests : Accepting(s) => TermsStand(requests[s].target)
  BY FreeIsUntouched
<1>2. GrantsStand'
  BY DEF Ready, GrantsStand, Granted
<1> QED
  BY <1>1, <1>2, ReadyStays

\* update_invitation in place amends the offer.
LEMMA EditShown ==
  ASSUME IInv, Ready, NEW r \in Requests, NEW i \in Invitations,
         NEW role \in MembershipRole, NEW given \in SUBSET Collections,
         EditInPlace(r, i, role, given)
  PROVE  Ready' /\ Register!Next
<1> DEFINE edited == [invitations[i] EXCEPT !.role = role, !.initial_grants = given]
<1>1. TypeOK
  BY DEF IInv
<1>2. /\ Pending(i) /\ ~InvitationLocked(i) /\ Ends(r) /\ Write(i, edited)
      /\ UNCHANGED <<members, grants, collections>> /\ invitations[i] \in Invitation
  BY <1>1 DEF EditInPlace, Pending, TypeOK
<1>3. /\ edited \in Invitation /\ edited.status = "pending"
      /\ edited.accepted_by = invitations[i].accepted_by
      /\ Terms(edited) = [email |-> invitations[i].email, role |-> role, given |-> given]
  BY <1>2, InvitationFields DEF Invitation, Terms, Pending
<1>4. /\ OpenOffers[i] = Terms(invitations[i]) /\ OpenOffers[i] # NoRow /\ i \notin Spent
      /\ Admitted[i] = invitations[i].accepted_by
      /\ OpenOffers[i].email = invitations[i].email
  BY <1>2, RowShown, TermsAreAnOffer DEF Pending, Terms
<1> HIDE DEF edited
<1>5. /\ OpenOffers' = [OpenOffers EXCEPT ![i] = Terms(edited)] /\ Spent' = Spent \ {i}
      /\ Admitted' = [Admitted EXCEPT ![i] = Admitted[i]]
      /\ \A j \in Invitations \ {i} : TermsStand(j)
  BY <1>1, <1>2, <1>3, <1>4, RowWritten
<1>6. Spent' = Spent /\ Admitted' = Admitted /\ Held' = Held
  BY <1>2, <1>4, <1>5 DEF Admitted, Held
<1>7. Register!Amend(i)
  BY <1>2, <1>3, <1>4, <1>5, <1>6 DEF Register!Amend
<1> QED
  BY <1>1, <1>2, <1>5, <1>7, FreeRowReady DEF Register!Next

\* remove_invitation and revoke_invitation close the offer, if it was open.
LEMMA WithdrawalShown ==
  ASSUME IInv, Ready, NEW r \in Requests, NEW i \in Invitations,
         RemoveInvitation(r, i) \/ RevokeInvitation(r, i)
  PROVE  Ready' /\ (Register!Next \/ UNCHANGED Register!vars)
<1> DEFINE removed == [invitations[i] EXCEPT !.status = "removed", !.live = FALSE, !.email = NoRow]
           revoked == [invitations[i] EXCEPT !.status = "revoked"]
<1>1. TypeOK
  BY DEF IInv
<1>2. /\ invitations[i] # NoRow /\ ~InvitationLocked(i) /\ Ends(r)
      /\ UNCHANGED <<members, grants, collections>> /\ invitations[i] \in Invitation
  BY <1>1 DEF RemoveInvitation, RevokeInvitation, Pending, TypeOK
<1>3. /\ removed \in Invitation /\ removed.status # "pending"
      /\ removed.accepted_by = invitations[i].accepted_by
  BY <1>2, InvitationFields DEF Invitation, InvitationStatus
<1>4. /\ revoked \in Invitation /\ revoked.status # "pending"
      /\ revoked.accepted_by = invitations[i].accepted_by
  BY <1>2, InvitationFields DEF Invitation, InvitationStatus
<1>5. PICK row \in {removed, revoked} : Write(i, row)
  BY DEF RemoveInvitation, RevokeInvitation
<1>6. /\ row \in Invitation /\ row.status # "pending"
      /\ row.accepted_by = invitations[i].accepted_by
  BY <1>3, <1>4
<1> HIDE DEF removed, revoked
<1>7. Register!Next \/ UNCHANGED Register!vars
  BY <1>1, <1>2, <1>5, <1>6, OfferCloses
<1>8. \A j \in Invitations \ {i} : TermsStand(j)
  BY <1>1, <1>5, <1>6, RowWritten
<1> QED
  BY <1>1, <1>2, <1>7, <1>8, FreeRowReady

\* update_invitation with another address, and replace_invitation: one offer
\* takes the place of another.
LEMMA SupersedeShown ==
  ASSUME IInv, Ready, NEW r \in Requests, NEW i \in Invitations, NEW j \in Invitations,
         NEW email \in Addresses \cup {NoRow}, NEW role \in MembershipRole,
         NEW given \in SUBSET Collections,
         invitations[i] # NoRow, ~InvitationLocked(i),
         Supersede(i, j, NewInvitation(email, role, given)),
         Ends(r), UNCHANGED <<members, grants, collections>>
  PROVE  Ready' /\ Register!Next
<1> DEFINE successor == NewInvitation(email, role, given)
           row == [invitations[i] EXCEPT !.status = "replaced"]
<1>1. /\ TypeOK /\ invitations \in [Invitations -> Invitation \cup {NoRow}]
      /\ invitations[i] \in Invitation
  BY DEF IInv, TypeOK
<1>2. /\ successor \in Invitation /\ successor.status = "pending"
      /\ successor.accepted_by = NoRow /\ successor # NoRow
  BY NewInvitationType, RowAssumption
<1>3. /\ row \in Invitation /\ row.accepted_by = invitations[i].accepted_by
      /\ row.status = "replaced" /\ row # NoRow
  BY <1>1, InvitationFields, RowAssumption DEF Invitation, InvitationStatus
<1>4. invitations[j] = NoRow /\ i # j
  BY DEF Supersede
<1>5. invitations' = [[invitations EXCEPT ![i] = row] EXCEPT ![j] = successor]
  BY <1>1, <1>4 DEF Supersede
<1> HIDE DEF successor, row
<1>6. /\ invitations'[i] = row /\ invitations'[j] = successor
      /\ \A k \in Invitations \ {i, j} : invitations'[k] = invitations[k]
  BY <1>1, <1>2, <1>3, <1>4, <1>5
<1>7. Pending(j)' /\ ~Pending(i)' /\ \A k \in Invitations \ {i, j} : Pending(k)' <=> Pending(k)
  BY <1>2, <1>3, <1>6 DEF Pending
<1>8. OpenOffers' = [OpenOffers EXCEPT ![i] = NoRow, ![j] = Terms(successor)]
  BY <1>4, <1>6, <1>7 DEF OpenOffers, Terms
<1>9. Spent' = Spent \cup {i} /\ j \notin Spent /\ OpenOffers[j] = NoRow
  BY <1>2, <1>3, <1>4, <1>6, <1>7 DEF Spent, OpenOffers, Pending
<1>10. Admitted' = Admitted /\ Held' = Held
  BY <1>2, <1>3, <1>4, <1>6 DEF Admitted, Held
<1>11. ~Register!Unused(i)
  BY <1>1, RowShown, TermsAreAnOffer DEF Register!Unused
<1>12. Register!Renew(i, j)
  BY <1>2, <1>8, <1>9, <1>10, <1>11, TermsAreAnOffer
     DEF Register!Renew, Register!Unused, Register!Offer, Offer, Addresses
<1>13. \A s \in Requests : Accepting(s) => TermsStand(requests[s].target)
  <2>1. \A s \in Requests : Accepting(s) => requests[s].target \in Invitations \ {i, j}
    BY <1>1, <1>4, FreeIsUntouched DEF IInv, AcceptorHolds, Pending
  <2> QED
    BY <1>6, <2>1 DEF TermsStand
<1>14. GrantsStand'
  BY DEF Ready, GrantsStand, Granted
<1> QED
  BY <1>1, <1>12, <1>13, <1>14, ReadyStays DEF Register!Next

\* The list route closes the offers that are still open when it writes them.
LEMMA ExpiryShown ==
  ASSUME IInv, Ready, NEW r \in Requests, CommitExpired(r)
  PROVE  Ready' /\ (Register!Next \/ UNCHANGED Register!vars)
<1> DEFINE expired == requests[r].expired
           open == {i \in expired : Pending(i)}
<1>1. /\ TypeOK /\ invitations \in [Invitations -> Invitation \cup {NoRow}]
  BY DEF IInv, TypeOK
<1>2. /\ expired \subseteq Invitations /\ Ends(r)
      /\ \A i \in expired : ~InvitationLocked(i) /\ invitations[i] # NoRow
      /\ UNCHANGED <<members, grants, collections>>
  BY RequestFields DEF CommitExpired, IInv, TypeOK, ExpiredStand
<1>3. ASSUME NEW i \in expired
      PROVE  /\ invitations'[i] # NoRow /\ invitations'[i].status = "expired"
             /\ invitations'[i].accepted_by = invitations[i].accepted_by
             /\ invitations'[i].email = invitations[i].email
             /\ invitations'[i].initial_grants = invitations[i].initial_grants
  <2>1. invitations[i] \in Invitation
    BY <1>1, <1>2
  <2>2. invitations'[i] = [invitations[i] EXCEPT !.status = "expired"]
    BY <1>2 DEF CommitExpired
  <2>3. [invitations[i] EXCEPT !.status = "expired"] \in Invitation
    BY <2>1, InvitationFields DEF Invitation, InvitationStatus
  <2> QED
    BY <2>1, <2>2, <2>3, RowAssumption DEF Invitation
<1>4. \A i \in Invitations \ expired : invitations'[i] = invitations[i]
  BY DEF CommitExpired
<1> HIDE DEF expired
<1>5. \A i \in Invitations : TermsStand(i)
  BY <1>3, <1>4 DEF TermsStand
<1>6. Ready'
  <2>1. \A s \in Requests : Accepting(s) => requests[s].target \in Invitations
    BY <1>1, RequestFields DEF Accepting, TypeOK
  <2>2. GrantsStand'
    BY <1>2 DEF Ready, GrantsStand, Granted
  <2> QED
    BY <1>1, <1>2, <1>5, <2>1, <2>2, ReadyStays
<1>7. /\ \A i \in expired : ~Pending(i)'
      /\ \A i \in Invitations \ expired : Pending(i)' <=> Pending(i)
  BY <1>3, <1>4 DEF Pending
<1>8. OpenOffers' = [i \in Invitations |-> IF i \in open THEN NoRow ELSE OpenOffers[i]]
  BY <1>2, <1>4, <1>7 DEF OpenOffers, Terms
<1>9. Spent' = Spent \cup open
  BY <1>2, <1>3, <1>4, <1>7 DEF Spent
<1>10. Admitted' = Admitted /\ Held' = Held
  BY <1>2, <1>3, <1>4 DEF Admitted, Held
<1>11. \A i \in open : OpenOffers[i] # NoRow
  BY <1>1, <1>2, TermsAreAnOffer DEF OpenOffers, Pending
<1>12. open \subseteq Invitations
  BY <1>2
<1> HIDE DEF open
<1>13. CASE open = {}
  <2>1. OpenOffers' = [i \in Invitations |-> OpenOffers[i]] /\ Spent' = Spent
    BY <1>8, <1>9, <1>13
  <2>2. OpenOffers' = OpenOffers
    BY <2>1 DEF OpenOffers
  <2> QED
    BY <1>2, <1>6, <1>10, <2>1, <2>2 DEF Register!vars
<1>14. CASE open # {}
  <2>1. PICK S \in SUBSET Invitations : S = open
    BY <1>12
  <2>2. Register!Close(S)
    BY <1>2, <1>8, <1>9, <1>10, <1>11, <1>14, <2>1 DEF Register!Close
  <2> QED
    BY <1>6, <2>2 DEF Register!Next
<1> QED
  BY <1>13, <1>14

\* An attempt is counted, or the expiry passes: an offer closes at most.
LEMMA AttemptShown ==
  ASSUME IInv, Ready, NEW r, NEW i \in Invitations,
         \/ Expire(i)
         \/ AcceptUnavailable(r, i)
         \/ \E u \in Users : AcceptMismatch(r, u, i)
  PROVE  Ready' /\ (Register!Next \/ UNCHANGED Register!vars)
<1>1. TypeOK /\ invitations \in [Invitations -> Invitation \cup {NoRow}]
  BY DEF IInv, TypeOK
<1>2. /\ invitations[i] # NoRow /\ invitations[i] \in Invitation
      /\ UNCHANGED <<accounts, members, grants, collections, requests>>
  BY <1>1 DEF Expire, AcceptUnavailable, AcceptMismatch, Reachable
<1> DEFINE row == invitations[i]
           later == [row EXCEPT !.due = TRUE]
           late == [Counted(i) EXCEPT !.status = "expired"]
<1>3. /\ later \in Invitation /\ later.status = row.status /\ Terms(later) = Terms(row)
      /\ later.accepted_by = row.accepted_by
  BY <1>2, InvitationFields DEF Invitation, Terms
<1>4. CASE Expire(i)
  <2>1. Write(i, later)
    BY <1>4 DEF Expire
  <2> HIDE DEF later, row
  <2>2. UNCHANGED Register!vars /\ \A j \in Invitations : TermsStand(j)
    BY <1>1, <1>2, <1>3, <2>1, TermsUnmoved DEF row
  <2>3. Ready'
    <3>1. \A s \in Requests : Accepting(s) => requests[s].target \in Invitations
      BY <1>1, RequestFields DEF Accepting, TypeOK
    <3>2. GrantsStand'
      BY <1>2 DEF Ready, GrantsStand, Granted
    <3> QED
      BY <1>1, <1>2, <2>2, <3>1, <3>2, ReadyStays
  <2> QED
    BY <2>2, <2>3
<1>5. CASE AcceptUnavailable(r, i) \/ \E u \in Users : AcceptMismatch(r, u, i)
  <2>1. row.attempts < MaxAttempts /\ ~InvitationLocked(i)
    BY <1>5 DEF AcceptUnavailable, AcceptMismatch, Reachable
  <2>2. /\ Counted(i) \in Invitation /\ Counted(i).status = row.status
        /\ Terms(Counted(i)) = Terms(row) /\ Counted(i).accepted_by = row.accepted_by
    BY <1>2, <2>1, CountedRow
  <2>3. /\ late \in Invitation /\ late.status # "pending" /\ late.accepted_by = row.accepted_by
    BY <2>2, InvitationFields DEF Invitation, InvitationStatus
  <2>4. Write(i, Counted(i)) \/ Write(i, late)
    <3>1. CASE AcceptUnavailable(r, i)
      <4>1. [Counted(i) EXCEPT !.status = @] = Counted(i)
        BY <2>2 DEF Invitation
      <4> QED
        BY <3>1, <4>1 DEF AcceptUnavailable
    <3>2. CASE \E u \in Users : AcceptMismatch(r, u, i)
      BY <3>2 DEF AcceptMismatch
    <3> QED
      BY <1>5, <3>1, <3>2
  <2> HIDE DEF late, row
  <2>5. Register!Next \/ UNCHANGED Register!vars
    BY <1>1, <1>2, <2>2, <2>3, <2>4, OfferCloses, TermsUnmoved DEF row
  <2>6. \A j \in Invitations \ {i} : TermsStand(j)
    BY <1>1, <2>2, <2>3, <2>4, RowWritten
  <2> QED
    BY <1>1, <1>2, <2>1, <2>5, <2>6, FreeRowReady
<1> QED
  BY <1>4, <1>5

--------------------------------------------------------------------------------
(* Acceptances, as the register sees them.                                  *)

\* The address was compared before the row is kept, and what is missing is
\* looked up under the lock.
LEMMA JoinShown ==
  ASSUME IInv, Ready, NEW r \in Requests, AcceptJoin(r)
  PROVE  Ready' /\ UNCHANGED Register!vars
<1> DEFINE q == requests[r]
           i == q.target
           u == q.actor
           missing == {c \in invitations[i].initial_grants : ~Granted(u, c)}
           joins == members[u] = NoRow
           state == [op |-> "accept.commit", actor |-> u, target |-> i,
                     joins |-> joins, missing |-> missing]
<1>1. /\ TypeOK /\ invitations \in [Invitations -> Invitation \cup {NoRow}]
  BY DEF IInv, TypeOK
<1>2. q \in RequestState /\ q.op = "accept.join" /\ Accepting(r)
  BY <1>1 DEF AcceptJoin, TypeOK, Accepting
<1>3. /\ u \in Users /\ i \in Invitations /\ Pending(i)
      /\ invitations[i].attempts < MaxAttempts /\ invitations[i].email = Mailbox[u]
      /\ \A s \in Requests : Accepting(s) /\ requests[s].target = i => s = r
  BY <1>2, RequestFields DEF IInv, AcceptorHolds, Ready, Fits
<1>4. invitations[i] # NoRow /\ invitations[i] \in Invitation
  BY <1>1, <1>3 DEF Pending
<1>5. CASE Refused(r)
  BY <1>1, <1>5, RefusedFits
<1>6. CASE Write(i, Counted(i)) /\ Ends(r) /\ UNCHANGED <<accounts, members, grants, collections, trail>>
  <2>1. UNCHANGED Register!vars /\ \A j \in Invitations : TermsStand(j)
    BY <1>1, <1>3, <1>4, <1>6, CountedRow, TermsUnmoved
  <2>2. \A s \in Requests : Accepting(s) => requests[s].target \in Invitations
    BY <1>1, RequestFields DEF Accepting, TypeOK
  <2>3. GrantsStand'
    BY <1>6 DEF Ready, GrantsStand, Granted
  <2> QED
    BY <1>1, <1>6, <2>1, <2>2, <2>3, ReadyStays
<1>7. CASE Goes(r, state) /\ UNCHANGED rows
  <2>1. missing \in SUBSET Collections /\ missing \subseteq invitations[i].initial_grants
    BY <1>4, InvitationFields
  <2>2. joins \in BOOLEAN /\ (joins \/ members[u] # NoRow)
    OBVIOUS
  <2> HIDE DEF missing, joins, i, u, q
  <2>3. /\ state \in RequestState /\ state.op = "accept.commit" /\ state.target = i
        /\ state.actor = u /\ state.joins = joins /\ state.missing = missing
    BY <1>3, <2>1, <2>2 DEF RequestState
  <2> HIDE DEF state
  <2> QED
    BY <1>1, <1>3, <1>7, <2>1, <2>2, <2>3, ReadFits
<1> QED
  BY <1>5, <1>6, <1>7 DEF AcceptJoin

\* The rows of an acceptance are those the offer names and the subject lacks.
LEMMA AcceptanceShown ==
  ASSUME IInv, Ready, NEW r \in Requests, AcceptCommit(r)
  PROVE  Ready' /\ (Register!Next \/ UNCHANGED Register!vars)
<1> DEFINE q == requests[r]
           u == q.actor
           i == q.target
           given == q.missing
           row == [Counted(i) EXCEPT !.status = "accepted", !.accepted_by = u]
<1>1. /\ TypeOK /\ invitations \in [Invitations -> Invitation \cup {NoRow}]
      /\ members \in [Users -> Member \cup {NoRow}]
      /\ grants \in [Users -> [Collections -> Grant]]
  BY DEF IInv, TypeOK
<1>2. q \in RequestState /\ q.op = "accept.commit" /\ Accepting(r)
  BY <1>1 DEF AcceptCommit, TypeOK, Accepting
<1>3. /\ u \in Users /\ i \in Invitations /\ q.joins \in BOOLEAN /\ given \in SUBSET Collections
      /\ Pending(i) /\ invitations[i].attempts < MaxAttempts
      /\ \A s \in Requests : Accepting(s) /\ requests[s].target = i => s = r
  BY <1>2, RequestFields DEF IInv, AcceptorHolds
<1>4. /\ invitations[i].email = Mailbox[u] /\ given \subseteq invitations[i].initial_grants
      /\ q.joins \/ members[u] # NoRow
  BY <1>2 DEF Ready, Fits
<1>5. CASE AcceptFails(q)
  <2>1. Refused(r)
    BY <1>5 DEF AcceptCommit
  <2> QED
    BY <1>1, <2>1, RefusedFits
<1>6. CASE ~AcceptFails(q)
  <2>1. /\ members' = [members EXCEPT ![u] = IF q.joins THEN NewMember(invitations[i].role)
                                                       ELSE members[u]]
        /\ grants' = [grants EXCEPT ![u] = [c \in Collections |->
              IF c \in given THEN Inserted(grants[u][c], "viewer") ELSE grants[u][c]]]
        /\ Write(i, row) /\ Ends(r) /\ UNCHANGED collections
    BY <1>6 DEF AcceptCommit
  <2>2. /\ q.joins => members[u] = NoRow
        /\ \A c \in given : c \in collections /\ ~Granted(u, c)
    BY <1>6 DEF AcceptFails
  <2>3. invitations[i] \in Invitation /\ invitations[i] # NoRow
        /\ invitations[i].status = "pending"
    BY <1>1, <1>3 DEF Pending
  <2>4. row \in Invitation /\ row.status # "pending" /\ row.accepted_by = u
    <3>1. Counted(i) \in Invitation
      BY <1>3, <2>3, CountedRow
    <3> QED
      BY <1>3, <3>1, InvitationFields DEF Invitation, InvitationStatus
  <2> HIDE DEF row, given, i, u, q
  <2>5. /\ OpenOffers' = [OpenOffers EXCEPT ![i] = NoRow] /\ Spent' = Spent \cup {i}
        /\ Admitted' = [Admitted EXCEPT ![i] = u]
        /\ \A j \in Invitations \ {i} : TermsStand(j)
    BY <1>1, <1>3, <2>1, <2>4, RowWritten
  <2>6. /\ OpenOffers[i] # NoRow /\ OpenOffers[i].email = Mailbox[u]
        /\ OpenOffers[i].role = invitations[i].role
        /\ OpenOffers[i].given = invitations[i].initial_grants
    <3>1. OpenOffers[i] = Terms(invitations[i])
      BY <1>3, <2>3, RowShown
    <3>2. OpenOffers[i] # NoRow
      BY <2>3, <3>1, TermsAreAnOffer
    <3> QED
      BY <1>4, <3>1, <3>2 DEF Terms
  <2>7. members' = [members EXCEPT ![u] = IF members[u] = NoRow
                                          THEN Register!Joined(OpenOffers[i].role)
                                          ELSE members[u]]
    BY <1>4, <2>1, <2>2, <2>6 DEF NewMember, Register!Joined
  <2>8. \A c \in given : Held[u][c] = NoRow
    BY <1>3, <2>2 DEF Held, Granted
  <2>9. Held' = [Held EXCEPT ![u] =
                    [c \in Collections |-> IF c \in given THEN "viewer" ELSE Held[u][c]]]
    <3>1. \A v \in Users : v # u => grants'[v] = grants[v]
      BY <1>1, <2>1
    <3>2. \A c \in Collections :
             grants'[u][c].role = IF c \in given THEN "viewer" ELSE grants[u][c].role
      BY <1>1, <1>3, <2>1 DEF Inserted
    <3> QED
      BY <1>3, <3>1, <3>2 DEF Held
  <2>10. given \in SUBSET (OpenOffers[i].given \cap collections)
    BY <1>4, <2>2, <2>6
  <2>11. Register!Admit(i, u)
    BY <2>1, <2>5, <2>6, <2>7, <2>8, <2>9, <2>10 DEF Register!Admit
  <2>12. Register!Next
    <3>1. PICK k \in Invitations, v \in Users : k = i /\ v = u
      BY <1>3
    <3>2. Register!Admit(k, v)
      BY <2>11, <3>1
    <3> QED
      BY <3>2 DEF Register!Next
  <2>13. GrantsStand'
    <3> SUFFICES ASSUME NEW v \in Users, NEW c \in Collections, grants'[v][c].role # NoRow
                 PROVE  c \in collections'
      BY DEF GrantsStand, Granted
    <3>1. Granted(v, c) \/ (v = u /\ c \in given)
      BY <1>1, <1>3, <2>1 DEF Granted
    <3> QED
      BY <2>1, <2>2, <3>1 DEF Ready, GrantsStand
  <2>14. \A v \in Users : members[v] # NoRow => members'[v] # NoRow
    BY <1>1, <1>3, <1>4, <2>1, <2>2
  <2>15. \A s \in Requests : Accepting(s) /\ (s = r => requests' = requests)
            => TermsStand(requests[s].target)
    <3>1. requests' # requests
      BY <1>1, <1>2, <2>1 DEF Ends, Goes, TypeOK, Idle, q
    <3>2. \A s \in Requests : Accepting(s) => requests[s].target \in Invitations
      BY <1>1, RequestFields DEF Accepting, TypeOK
    <3> QED
      BY <1>3, <2>5, <3>1, <3>2
  <2> QED
    BY <1>1, <2>1, <2>12, <2>13, <2>14, <2>15, ReadyStays
<1> QED
  BY <1>5, <1>6

--------------------------------------------------------------------------------
(* Members and grants, as the register sees them.                           *)

\* A committed change of a member is one of the row as it is.
LEMMA ChangeShown ==
  ASSUME IInv, Ready, NEW r \in Requests, CommitMember(r)
  PROVE  Ready' /\ Register!Next
<1> DEFINE q == requests[r]
           u == q.target
<1>1. TypeOK /\ members \in [Users -> Member \cup {NoRow}]
  BY DEF IInv, TypeOK
<1>2. q \in RequestState /\ q.op = "member.commit" /\ Changing(r)
  BY <1>1 DEF CommitMember, TypeOK, Changing
<1>3. u \in Users /\ q.next \in Member
  BY <1>2, RequestFields
<1>4. members[u] # NoRow /\ q.next.version = members[u].version + 1
  BY <1>2 DEF IInv, ChangerHolds
<1>5. /\ UNCHANGED <<invitations, grants, collections>> /\ Ends(r)
      /\ members' = [members EXCEPT ![u] = q.next]
  BY DEF CommitMember
<1>6. /\ q.next = [role |-> q.next.role, status |-> q.next.status,
                   version |-> members[u].version + 1]
      /\ q.next.role \in MembershipRole /\ q.next.status \in MemberStatus /\ q.next # NoRow
  BY <1>3, <1>4, RowAssumption DEF Member
<1> HIDE DEF u, q
<1>7. PICK v \in Users, role \in MembershipRole, status \in MemberStatus :
          v = u /\ role = q.next.role /\ status = q.next.status
  BY <1>3, <1>6
<1>8. UNCHANGED <<OpenOffers, Spent, Admitted, Held, collections>>
  BY <1>5 DEF OpenOffers, Spent, Admitted, Held, Pending
<1>9. Register!Change(v)
  <2>1. members' = [members EXCEPT ![v] = [role |-> role, status |-> status,
                                           version |-> members[v].version + 1]]
    BY <1>5, <1>6, <1>7
  <2> QED
    BY <1>4, <1>7, <1>8, <2>1 DEF Register!Change
<1>10. \A w \in Users : members[w] # NoRow => members'[w] # NoRow
  BY <1>1, <1>3, <1>5, <1>6
<1>11. GrantsStand' /\ \A i : TermsStand(i)
  BY <1>5 DEF Ready, GrantsStand, Granted, TermsStand
<1> QED
  BY <1>1, <1>5, <1>9, <1>10, <1>11, ReadyStays DEF Register!Next

\* Grants and collections change, no member and no invitation does.
LEMMA GrantsReady ==
  ASSUME TypeOK, Ready, NEW r, requests' = requests \/ (r \in Requests /\ Ends(r)),
         UNCHANGED <<members, invitations>>, GrantsStand'
  PROVE  Ready' /\ UNCHANGED <<members, OpenOffers, Spent, Admitted>>
<1>1. \A i : TermsStand(i)
  BY DEF TermsStand
<1>2. UNCHANGED <<OpenOffers, Spent, Admitted>>
  BY DEF OpenOffers, Spent, Admitted, Pending
<1> QED
  BY <1>1, <1>2, ReadyStays

\* One grant is written, of a member and a collection that are there if it gives.
LEMMA GrantShown ==
  ASSUME IInv, Ready, NEW r \in Requests, Ends(r), NEW u \in Users, NEW c \in Collections,
         NEW grant \in Grant, grants' = [grants EXCEPT ![u][c] = grant],
         UNCHANGED <<members, invitations, collections>>,
         grant.role # grants[u][c].role /\ grant.role # NoRow =>
            members[u] # NoRow /\ c \in collections
  PROVE  Ready' /\ (Register!Next \/ UNCHANGED Register!vars)
<1>1. TypeOK /\ grants \in [Users -> [Collections -> Grant]]
  BY DEF IInv, TypeOK
<1>2. /\ grants'[u][c] = grant
      /\ \A v \in Users, d \in Collections : v # u \/ d # c => grants'[v][d] = grants[v][d]
  BY <1>1
<1>3. grant.role \in CollectionRole \cup {NoRow}
  BY DEF Grant
<1>4. Held' = [Held EXCEPT ![u][c] = grant.role]
  <2>1. Held' = [v \in Users |-> IF v = u THEN [Held[u] EXCEPT ![c] = grant.role] ELSE Held[v]]
    BY <1>2 DEF Held
  <2>2. Held = [v \in Users |-> Held[v]]
    BY DEF Held
  <2> QED
    BY <2>1, <2>2
<1>5. Held[u][c] = grants[u][c].role
  BY DEF Held
<1>6. GrantsStand'
  <2> SUFFICES ASSUME NEW v \in Users, NEW d \in Collections, grants'[v][d].role # NoRow
               PROVE  d \in collections
    BY DEF GrantsStand, Granted
  <2>1. Granted(v, d) \/ (v = u /\ d = c /\ grant.role # grants[u][c].role)
    BY <1>2 DEF Granted
  <2> QED
    BY <1>2, <2>1 DEF Ready, GrantsStand
<1>7. Ready' /\ UNCHANGED <<members, OpenOffers, Spent, Admitted>>
  BY <1>1, <1>6, GrantsReady
<1>8. CASE grant.role = grants[u][c].role
  <2>1. Held' = Held
    BY <1>4, <1>5, <1>8 DEF Held
  <2> QED
    BY <1>7, <2>1 DEF Register!vars
<1>9. CASE grant.role # grants[u][c].role /\ grant.role = NoRow
  <2>1. Register!Take(u, c)
    BY <1>4, <1>5, <1>7, <1>9 DEF Register!Take
  <2> QED
    BY <1>7, <2>1 DEF Register!Next
<1>10. CASE grant.role # grants[u][c].role /\ grant.role # NoRow
  <2>1. Register!Give(u, c)
    BY <1>3, <1>4, <1>7, <1>10 DEF Register!Give
  <2> QED
    BY <1>7, <2>1 DEF Register!Next
<1> QED
  BY <1>8, <1>9, <1>10

\* The second transactions of put_grant and delete_grant: a row that is still
\* there is of a collection that is, and an insert checks it.
LEMMA GrantRequestShown ==
  ASSUME IInv, Ready, NEW r \in Requests, ChangeGrant(r) \/ InsertGrant(r) \/ DeleteGrant(r)
  PROVE  Ready' /\ (Register!Next \/ UNCHANGED Register!vars)
<1> DEFINE q == requests[r]
           u == q.target
           c == q.collection
           grant == grants[u][c]
<1>1. TypeOK
  BY DEF IInv
<1>2. q \in RequestState /\ q.op \in {"grant.put", "grant.delete"} /\ Ends(r)
  BY <1>1 DEF ChangeGrant, InsertGrant, DeleteGrant, TypeOK
<1>3. /\ u \in Users /\ c \in Collections /\ grant \in Grant
      /\ q.role \in CollectionRole \cup {NoRow}
      /\ q.op = "grant.put" => members[u] # NoRow
  BY <1>1, <1>2, RequestFields DEF TypeOK, Ready, Fits
<1>4. CASE UNCHANGED rows
  BY <1>1, <1>2, <1>4, RefusedFits DEF Refused
<1>5. /\ [grant EXCEPT !.role = q.role] \in Grant /\ Deleted(grant) \in Grant
      /\ [grant EXCEPT !.role = q.role].role = q.role /\ Deleted(grant).role = NoRow
  BY <1>3 DEF Grant, Deleted
<1>6. grant.row < MaxGrantRows => Inserted(grant, q.role) \in Grant
  <2>1. grant.row < MaxGrantRows => grant.row + 1 \in 0..MaxGrantRows
    BY <1>3, AdministrationAssumption DEF Grant
  <2> QED
    BY <1>3, <2>1 DEF Grant, Inserted
<1>7. StillThere(q) => c \in collections
  BY <1>3 DEF StillThere, Ready, GrantsStand
<1> HIDE DEF grant, c, u, q
<1>8. UNCHANGED rows \/ \E next \in Grant :
         /\ grants' = [grants EXCEPT ![u][c] = next]
         /\ UNCHANGED <<members, invitations, collections>>
         /\ next.role # grant.role /\ next.role # NoRow => members[u] # NoRow /\ c \in collections
  <2>1. CASE ChangeGrant(r)
    BY <1>3, <1>5, <1>7, <2>1 DEF ChangeGrant, WriteGrant, grant, c, u, q
  <2>2. CASE InsertGrant(r)
    BY <1>3, <1>6, <2>2 DEF InsertGrant, WriteGrant, grant, c, u, q
  <2>3. CASE DeleteGrant(r)
    BY <1>3, <1>5, <2>3 DEF DeleteGrant, WriteGrant, grant, c, u, q
  <2> QED
    BY <2>1, <2>2, <2>3
<1>9. CASE ~UNCHANGED rows
  <2>1. PICK next \in Grant :
         /\ grants' = [grants EXCEPT ![u][c] = next]
         /\ UNCHANGED <<members, invitations, collections>>
         /\ next.role # grant.role /\ next.role # NoRow => members[u] # NoRow /\ c \in collections
    BY <1>8, <1>9
  <2>2. PICK v \in Users, d \in Collections : v = u /\ d = c
    BY <1>3
  <2> QED
    BY <1>2, <2>1, <2>2, GrantShown DEF grant
<1> QED
  BY <1>4, <1>9

\* A collection goes with its grants.
LEMMA CollectionRemovalShown ==
  ASSUME IInv, Ready, NEW c \in Collections, RemoveCollection(c)
  PROVE  Ready' /\ Register!Next
<1>1. TypeOK /\ grants \in [Users -> [Collections -> Grant]]
  BY DEF IInv, TypeOK
<1>2. /\ c \in collections /\ collections' = collections \ {c}
      /\ grants' = [u \in Users |-> [grants[u] EXCEPT ![c] = Deleted(@)]]
      /\ UNCHANGED <<members, invitations, requests>>
  BY DEF RemoveCollection
<1>3. \A u \in Users, d \in Collections :
          grants'[u][d].role = IF d = c THEN NoRow ELSE grants[u][d].role
  <2>1. \A grant \in Grant : Deleted(grant).role = NoRow
    BY DEF Grant, Deleted
  <2> QED
    BY <1>1, <1>2, <2>1
<1>4. Held' = [u \in Users |-> [Held[u] EXCEPT ![c] = NoRow]]
  BY <1>3 DEF Held
<1>5. GrantsStand'
  BY <1>2, <1>3 DEF Ready, GrantsStand, Granted
<1>6. Ready' /\ UNCHANGED <<members, OpenOffers, Spent, Admitted>>
  BY <1>1, <1>2, <1>5, GrantsReady
<1>7. Register!RemoveCollection(c)
  BY <1>2, <1>4, <1>6 DEF Register!RemoveCollection
<1> QED
  BY <1>6, <1>7 DEF Register!Next

--------------------------------------------------------------------------------
(* Every step is a step of the register, or none.                           *)

RegisterStep == Register!Next \/ UNCHANGED Register!vars

\* The bootstrapped organization is where the register starts.
LEMMA InitShown ==
  ASSUME Init
  PROVE  Ready /\ Register!Init
<1>1. members = [u \in Users |-> IF u \in Founders THEN Register!Joined("owner")
                                ELSE IF u \in Seeded THEN Register!Joined("member") ELSE NoRow]
  BY DEF Init, NewMember, Register!Joined
<1>2. \A i \in Invitations : invitations[i] = NoRow
  BY DEF Init
<1>3. /\ OpenOffers = [i \in Invitations |-> NoRow] /\ Spent = {}
      /\ Admitted = [i \in Invitations |-> NoRow]
  BY <1>2 DEF OpenOffers, Spent, Admitted, Pending
<1>4. \A u \in Users, c \in Collections : grants[u][c].role = NoRow
  BY DEF Init
<1>5. Held = [u \in Users |-> [c \in Collections |-> NoRow]]
  BY <1>4 DEF Held
<1>6. \A r \in Requests : requests[r] = Idle
  BY DEF Init
<1>7. Ready
  BY <1>4, <1>6 DEF Ready, GrantsStand, Granted, Fits, Accepting, Idle
<1> QED
  BY <1>1, <1>3, <1>5, <1>7 DEF Init, Register!Init

\* A request comes in: it reads, or an attempt is counted.
LEMMA ArrivalShown ==
  ASSUME IInv, Ready, NEW r \in Requests, Arrives(r)
  PROVE  Ready' /\ RegisterStep
<1> USE DEF RegisterStep
<1>1. TypeOK
  BY DEF IInv
<1>2. ASSUME NEW a \in Users, NEW op \in AdminOps, NEW preview \in Previews,
             Authorize(r, op, a, preview)
      PROVE  Ready' /\ RegisterStep
  <2> DEFINE state == [op |-> op, actor |-> a, role |-> members[a].role, seen |-> SeenBy(op)]
  <2>1. Goes(r, state) /\ UNCHANGED rows
    BY <1>2 DEF Authorize
  <2>2. members[a].role \in MembershipRole
    BY <1>1, <1>2 DEF Authorize, MembershipAllows, ActiveMember, Member, TypeOK
  <2>3. SeenBy(op) \in [Users -> 0..MaxVersion]
    <3>1. \A u \in Users : members[u] # NoRow => members[u].version \in 0..MaxVersion
      BY <1>1, AdministrationAssumption DEF Member, TypeOK
    <3> QED
      BY <3>1, AdministrationAssumption DEF SeenBy
  <2>4. state \in RequestState /\ state.op \in AdminOps
    BY <2>2, <2>3 DEF RequestState
  <2> HIDE DEF state
  <2> QED
    BY <1>1, <2>1, <2>4, ReadFits DEF AdminOps
<1>3. ASSUME NEW i \in Invitations,
             AcceptUnavailable(r, i) \/ \E u \in Users : AcceptMismatch(r, u, i)
      PROVE  Ready' /\ RegisterStep
  BY <1>3, AttemptShown
<1>4. ASSUME NEW i \in Invitations, NEW u \in Users, AcceptMatch(r, u, i)
      PROVE  Ready' /\ RegisterStep
  <2> DEFINE found == accounts[u] # "none"
             state == [op |-> "accept.join", actor |-> u, target |-> i, found |-> found]
  <2>1. Goes(r, state) /\ UNCHANGED rows /\ invitations[i].email = Mailbox[u]
    BY <1>4 DEF AcceptMatch
  <2>2. found \in BOOLEAN
    OBVIOUS
  <2> HIDE DEF found
  <2>3. /\ state \in RequestState /\ state.op = "accept.join" /\ state.target = i
        /\ state.actor = u
    BY <2>2 DEF RequestState
  <2> HIDE DEF state
  <2> QED
    BY <1>1, <2>1, <2>3, ReadFits
<1>5. ASSUME NEW op \in {"grant.put", "grant.delete"}, NEW a \in Users, NEW u \in Users,
             NEW c \in Collections, NEW preview,
             NEW role \in (IF op = "grant.put" THEN CollectionRole ELSE {NoRow}),
             ReadGrant(r, op, a, preview, u, c, role)
      PROVE  Ready' /\ RegisterStep
  <2> DEFINE state == [op |-> op, target |-> u, collection |-> c, role |-> role,
                       found |-> grants[u][c]]
  <2>1. Goes(r, state) /\ UNCHANGED rows /\ (op = "grant.put" => members[u] # NoRow)
    BY <1>5 DEF ReadGrant, ActiveMember
  <2>2. grants[u][c] \in Grant
    BY <1>1 DEF TypeOK
  <2>3. /\ state \in RequestState /\ state.op = op /\ state.target = u
    BY <2>2 DEF RequestState
  <2> HIDE DEF state
  <2> QED
    BY <1>1, <2>1, <2>3, ReadFits
<1>6. ASSUME NEW a \in Users, NEW c \in Collections, NEW preview \in Previews,
             DenyGrant(r, a, preview, c)
      PROVE  Ready' /\ RegisterStep
  <2>1. UNCHANGED <<members, invitations, grants, collections, requests>>
    BY <1>6 DEF DenyGrant
  <2>2. GrantsStand'
    BY <2>1 DEF Ready, GrantsStand, Granted
  <2> QED
    BY <1>1, <2>1, <2>2, GrantsReady, RowsStay
<1> QED
  BY <1>2, <1>3, <1>4, <1>5, <1>6 DEF Arrives

\* A lock, a look for a pending invitation and a list prepare what fits.
LEMMA PreparationShown ==
  ASSUME IInv, Ready, NEW r \in Requests,
         \/ \E u \in Users, role \in {NoRow} \cup AskedRoles, status \in {NoRow} \cup AskedStatuses :
               LockMember(r, u, role, status)
         \/ \E email \in Addresses, role \in AskedRoles, given \in SUBSET Collections :
               CheckPending(r, email, role, given)
         \/ ReadExpired(r)
         \/ RefuseInvitationChange(r)
  PROVE  Ready' /\ RegisterStep
<1> USE DEF RegisterStep
<1>1. TypeOK /\ members \in [Users -> Member \cup {NoRow}]
  BY DEF IInv, TypeOK
<1>2. ASSUME Refused(r)
      PROVE  Ready' /\ RegisterStep
  BY <1>1, <1>2, RefusedFits
<1>3. ASSUME NEW u \in Users, NEW role \in {NoRow} \cup AskedRoles,
             NEW status \in {NoRow} \cup AskedStatuses, LockMember(r, u, role, status)
      PROVE  Ready' /\ RegisterStep
  <2> DEFINE next == Updated(members[u], role, status)
             state == [op |-> "member.commit", actor |-> requests[r].actor, target |-> u,
                       seen |-> requests[r].seen[u], next |-> next]
  <2>1. requests[r] \in RequestState /\ requests[r].op = "member.lock"
    BY <1>1, <1>3 DEF LockMember, TypeOK
  <2>2. requests[r].actor \in Users
    BY <2>1, RequestFields DEF AdminOps
  <2>3. CASE Goes(r, state) /\ UNCHANGED rows /\ members[u] # NoRow
             /\ requests[r].seen[u] = members[u].version /\ members[u].version < MaxVersion
    <3>1. members[u] \in Member /\ members[u].version \in 1..MaxVersion
      BY <1>1, <2>3 DEF Member
    <3>2. next \in Member
      <4>1. members[u].version + 1 \in 1..MaxVersion
        BY <2>3, <3>1, AdministrationAssumption
      <4>2. /\ (IF role = NoRow THEN members[u].role ELSE role) \in MembershipRole
            /\ (IF status = NoRow THEN members[u].status ELSE status) \in MemberStatus
        BY <3>1, AdministrationAssumption DEF Member
      <4> QED
        BY <4>1, <4>2 DEF Updated, Member
    <3> HIDE DEF next
    <3>3. state \in RequestState /\ state.op = "member.commit"
      BY <2>2, <2>3, <3>1, <3>2 DEF RequestState
    <3> HIDE DEF state
    <3> QED
      BY <1>1, <2>3, <3>3, ReadFits
  <2> QED
    BY <1>2, <1>3, <2>3 DEF LockMember, UpToDate
<1>4. ASSUME NEW email \in Addresses, NEW role \in AskedRoles, NEW given \in SUBSET Collections,
             CheckPending(r, email, role, given)
      PROVE  Ready' /\ RegisterStep
  <2> DEFINE next == NewInvitation(email, role, given)
             state == [op |-> "create.commit", next |-> next]
  <2>1. next \in Invitation /\ next.status = "pending"
    BY NewInvitationType, AdministrationAssumption
  <2> HIDE DEF next
  <2>2. state \in RequestState /\ state.op = "create.commit" /\ state.next = next
    BY <2>1 DEF RequestState
  <2>3. Refused(r) \/ (Goes(r, state) /\ UNCHANGED rows)
    BY <1>4 DEF CheckPending, next
  <2> HIDE DEF state
  <2> QED
    BY <1>1, <1>2, <2>1, <2>2, <2>3, ReadFits
<1>5. CASE ReadExpired(r)
  <2> DEFINE expired == {i \in Invitations : Pending(i) /\ invitations[i].due}
             state == [op |-> "list.commit", expired |-> expired]
  <2>1. expired \in SUBSET Invitations
    OBVIOUS
  <2>2. Goes(r, state) /\ UNCHANGED rows
    BY <1>5 DEF ReadExpired
  <2> HIDE DEF expired
  <2>3. state \in RequestState /\ state.op = "list.commit"
    BY <2>1 DEF RequestState
  <2> HIDE DEF state
  <2> QED
    BY <1>1, <2>2, <2>3, ReadFits
<1> QED
  BY <1>2, <1>3, <1>4, <1>5 DEF RefuseInvitationChange

\* A request goes on.
LEMMA ContinuationShown ==
  ASSUME IInv, Ready, NEW r \in Requests, Continues(r)
  PROVE  Ready' /\ RegisterStep
<1>1. ASSUME NEW u \in Users, NEW role \in {NoRow} \cup AskedRoles,
             NEW status \in {NoRow} \cup AskedStatuses, LockMember(r, u, role, status)
      PROVE  Ready' /\ RegisterStep
  BY <1>1, PreparationShown
<1>2. CASE CommitMember(r)
  BY <1>2, ChangeShown DEF RegisterStep
<1>3. ASSUME NEW email \in Addresses, NEW role \in AskedRoles, NEW given \in SUBSET Collections,
             \/ CheckPending(r, email, role, given)
             \/ \E i, j \in Invitations : \/ EditInPlace(r, i, role, given)
                                          \/ EditAddress(r, i, j, email, role, given)
      PROVE  Ready' /\ RegisterStep
  <2>1. role \in MembershipRole
    BY AdministrationAssumption
  <2>2. ASSUME NEW i \in Invitations, EditInPlace(r, i, role, given)
        PROVE  Ready' /\ RegisterStep
    BY <2>1, <2>2, EditShown DEF RegisterStep
  <2>3. ASSUME NEW i \in Invitations, NEW j \in Invitations,
               EditAddress(r, i, j, email, role, given)
        PROVE  Ready' /\ RegisterStep
    BY <2>1, <2>3, SupersedeShown DEF EditAddress, Pending, RegisterStep
  <2> QED
    BY <1>3, <2>2, <2>3, PreparationShown
<1>4. ASSUME NEW i \in Invitations, NEW j \in Invitations,
             \/ CommitInvitation(r, i)
             \/ RemoveInvitation(r, i)
             \/ RevokeInvitation(r, i)
             \/ ReplaceInvitation(r, i, j)
      PROVE  Ready' /\ RegisterStep
  <2>1. CASE CommitInvitation(r, i)
    BY <2>1, CreateShown DEF RegisterStep
  <2>2. CASE RemoveInvitation(r, i) \/ RevokeInvitation(r, i)
    BY <2>2, WithdrawalShown DEF RegisterStep
  <2>3. CASE ReplaceInvitation(r, i, j)
    <3>1. invitations[i] \in Invitation
      BY <2>3 DEF ReplaceInvitation, IInv, TypeOK
    <3>2. /\ invitations[i].email \in Addresses \cup {NoRow}
          /\ invitations[i].role \in MembershipRole
          /\ invitations[i].initial_grants \in SUBSET Collections
      BY <3>1, InvitationFields
    <3> QED
      BY <2>3, <3>2, SupersedeShown DEF ReplaceInvitation, RegisterStep
  <2> QED
    BY <1>4, <2>1, <2>2, <2>3
<1>5. CASE ReadExpired(r) \/ CommitExpired(r) \/ RefuseInvitationChange(r)
  BY <1>5, PreparationShown, ExpiryShown DEF RegisterStep
<1>6. CASE AcceptJoin(r) \/ AcceptCommit(r)
  BY <1>6, JoinShown, AcceptanceShown DEF RegisterStep
<1>7. CASE ChangeGrant(r) \/ InsertGrant(r) \/ DeleteGrant(r)
  BY <1>7, GrantRequestShown DEF RegisterStep
<1> QED
  BY <1>1, <1>2, <1>3, <1>4, <1>5, <1>6, <1>7, Zenon DEF Continues

\* Every step.
LEMMA NextShown ==
  ASSUME IInv, Ready, [Next]_vars
  PROVE  Ready' /\ RegisterStep
<1>1. CASE \E r \in Requests : Arrives(r)
  BY <1>1, ArrivalShown
<1>2. CASE \E r \in Requests : Continues(r)
  BY <1>2, ContinuationShown
<1>3. CASE Surroundings
  BY <1>3, AttemptShown, CollectionRemovalShown DEF Surroundings, RegisterStep
<1>4. CASE UNCHANGED vars
  <2>1. UNCHANGED <<members, invitations, grants, collections, requests>> /\ TypeOK
    BY <1>4 DEF vars, IInv
  <2>2. GrantsStand'
    BY <2>1 DEF Ready, GrantsStand, Granted
  <2> QED
    BY <2>1, <2>2, GrantsReady, RowsStay DEF RegisterStep
<1> QED
  BY <1>1, <1>2, <1>3, <1>4 DEF Next

\* Concurrent requests of several steps change members, invitations and grants
\* as if each change were made at once (the routes of api/enterprise.py).
THEOREM AdministrationIsARegister == Spec => ImplementsMembershipRegister
<1>1. Init => Ready /\ Register!Init
  BY InitShown
<1>2. IInv /\ Ready /\ [Next]_vars => Ready' /\ [Register!Next]_(Register!vars)
  BY NextShown DEF RegisterStep
<1> QED
  BY <1>1, <1>2, Invariant, PTL DEF Spec, ImplementsMembershipRegister, Register!Spec

--------------------------------------------------------------------------------
(* The trail tells every change.                                            *)

Told ==
    /\ \A i \in Invitations : invitations[i] # NoRow => EndIsTold(i)
    /\ \A u \in Users, c \in Collections : GrantIsTold(u, c)

\* Whom an invitation admitted and how it ended are as before.
SameEnd(i) ==
    /\ SameSubject(i)
    /\ invitations'[i].status = invitations[i].status
    /\ invitations'[i].live = invitations[i].live

\* What was told stays told: the rows that change are told anew.
LEMMA ToldStays ==
  ASSUME Told, trail \subseteq trail', collections' \subseteq collections,
         \A i \in Invitations : invitations[i] # NoRow =>
            /\ invitations'[i] # NoRow
            /\ invitations[i].accepted_by # NoRow => SameSubject(i),
         \A i \in Invitations : invitations'[i] # NoRow =>
            (invitations[i] # NoRow /\ SameEnd(i)) \/ EndIsTold(i)',
         \A u \in Users, c \in Collections : grants'[u][c] = grants[u][c] \/ GrantIsTold(u, c)'
  PROVE  Told'
<1>1. ASSUME NEW i \in Invitations, invitations'[i] # NoRow
      PROVE  EndIsTold(i)'
  <2>1. CASE invitations[i] # NoRow /\ SameEnd(i)
    BY <2>1 DEF Told, EndIsTold, SameEnd, SameSubject
  <2> QED
    BY <1>1, <2>1
<1>2. ASSUME NEW u \in Users, NEW c \in Collections
      PROVE  GrantIsTold(u, c)'
  <2>1. CASE grants'[u][c] = grants[u][c]
    <3>1. GrantIsTold(u, c)
      BY DEF Told
    <3>2. (\E i \in Invitations : invitations[i] # NoRow /\ invitations[i].accepted_by = u)
          => \E i \in Invitations : invitations'[i] # NoRow /\ invitations'[i].accepted_by = u
      <4>1. u # NoRow
        BY AdministrationAssumption
      <4> QED
        BY <4>1 DEF SameSubject
    <3> QED
      BY <2>1, <3>1, <3>2 DEF GrantIsTold, Granted
  <2> QED
    BY <2>1
<1> QED
  BY <1>1, <1>2 DEF Told

\* Nothing is written but members and events.
LEMMA ToldQuietly ==
  ASSUME Told, UNCHANGED <<invitations, grants, collections>>, trail \subseteq trail'
  PROVE  Told'
BY ToldStays DEF SameEnd, SameSubject

\* One row of an invitation is written.
LEMMA ToldRow ==
  ASSUME TypeOK, Told, UNCHANGED <<grants, collections>>, trail \subseteq trail',
         NEW i \in Invitations, NEW row \in Invitation, Write(i, row),
         /\ invitations[i] # NoRow
         /\ row.accepted_by = invitations[i].accepted_by,
         (row.status = invitations[i].status /\ row.live = invitations[i].live) \/ EndIsTold(i)'
  PROVE  Told'
<1>1. invitations \in [Invitations -> Invitation \cup {NoRow}]
  BY DEF TypeOK
<1>2. invitations'[i] = row /\ \A j \in Invitations : j # i => invitations'[j] = invitations[j]
  BY <1>1 DEF Write
<1>3. row # NoRow
  BY RowAssumption
<1>4. \A j \in Invitations : SameSubject(j)
  BY <1>2 DEF SameSubject
<1>5. \A j \in Invitations : (invitations'[j] # NoRow /\ j # i) => SameEnd(j) /\ invitations[j] # NoRow
  BY <1>2, <1>4 DEF SameEnd
<1>6. SameEnd(i) \/ EndIsTold(i)'
  BY <1>2, <1>4 DEF SameEnd
<1> QED
  BY <1>2, <1>3, <1>4, <1>5, <1>6, ToldStays

\* A row is inserted.
LEMMA ToldNew ==
  ASSUME TypeOK, Told, UNCHANGED <<grants, collections>>, trail \subseteq trail',
         NEW i \in Invitations, NEW row \in Invitation, row.status = "pending",
         invitations[i] = NoRow, Write(i, row)
  PROVE  Told'
<1>1. invitations \in [Invitations -> Invitation \cup {NoRow}]
  BY DEF TypeOK
<1>2. invitations'[i] = row /\ \A j \in Invitations : j # i => invitations'[j] = invitations[j]
  BY <1>1 DEF Write
<1>3. EndIsTold(i)'
  BY <1>2 DEF EndIsTold
<1> QED
  BY <1>2, <1>3, ToldStays DEF SameEnd, SameSubject

\* A row gives way to a fresh one.
LEMMA ToldSuperseded ==
  ASSUME TypeOK, Told, UNCHANGED <<grants, collections>>, trail \subseteq trail',
         NEW i \in Invitations, NEW j \in Invitations, NEW successor \in Invitation,
         successor.status = "pending", invitations[i] # NoRow, Supersede(i, j, successor),
         {<<"invitation.replaced", i>>, <<"invitation.edited", i>>} \cap trail' # {}
  PROVE  Told'
<1>1. invitations \in [Invitations -> Invitation \cup {NoRow}] /\ invitations[i] \in Invitation
  BY DEF TypeOK
<1>2. i # j /\ invitations[j] = NoRow
  BY DEF Supersede
<1>3. /\ invitations'[i] = [invitations[i] EXCEPT !.status = "replaced"]
      /\ invitations'[j] = successor
      /\ \A k \in Invitations \ {i, j} : invitations'[k] = invitations[k]
  BY <1>1, <1>2 DEF Supersede
<1>4. [invitations[i] EXCEPT !.status = "replaced"] \in Invitation
  BY <1>1 DEF Invitation, InvitationStatus
<1>5. /\ invitations'[i] # NoRow /\ invitations'[i].status = "replaced"
      /\ invitations'[i].accepted_by = invitations[i].accepted_by
  BY <1>1, <1>3, <1>4, RowAssumption DEF Invitation
<1>6. EndIsTold(i)' /\ EndIsTold(j)'
  BY <1>3, <1>5 DEF EndIsTold
<1> QED
  BY <1>2, <1>3, <1>5, <1>6, ToldStays DEF SameEnd, SameSubject

\* The expiry sweep writes its event with every row it writes.
LEMMA ToldExpired ==
  ASSUME IInv, Told, NEW r \in Requests, CommitExpired(r)
  PROVE  Told'
<1> DEFINE expired == requests[r].expired
<1>1. /\ invitations \in [Invitations -> Invitation \cup {NoRow}]
      /\ \A i \in expired : invitations[i] # NoRow
  BY DEF IInv, TypeOK, ExpiredStand, CommitExpired
<1>2. \A i \in Invitations : invitations'[i] =
         IF i \in expired THEN [invitations[i] EXCEPT !.status = "expired"] ELSE invitations[i]
  BY DEF CommitExpired
<1>3. /\ trail' = trail \cup {<<"invitation.expired", i>> : i \in expired}
      /\ UNCHANGED <<grants, collections>>
  BY DEF CommitExpired
<1> HIDE DEF expired
<1>4. ASSUME NEW i \in Invitations, i \in expired
      PROVE  /\ invitations'[i] # NoRow /\ SameSubject(i) /\ EndIsTold(i)'
  <2>1. invitations[i] \in Invitation
    BY <1>1, <1>4
  <2>2. [invitations[i] EXCEPT !.status = "expired"] \in Invitation
    BY <2>1 DEF Invitation, InvitationStatus
  <2>3. /\ invitations'[i] # NoRow /\ invitations'[i].status = "expired"
        /\ invitations'[i].accepted_by = invitations[i].accepted_by
    BY <1>2, <1>4, <2>1, <2>2, RowAssumption DEF Invitation
  <2>4. <<"invitation.expired", i>> \in trail'
    BY <1>3, <1>4
  <2> QED
    BY <2>3, <2>4 DEF SameSubject, EndIsTold
<1>5. ASSUME NEW i \in Invitations, i \notin expired
      PROVE  invitations'[i] = invitations[i]
  BY <1>2, <1>5
<1> QED
  BY <1>3, <1>4, <1>5, ToldStays DEF SameEnd, SameSubject

\* An acceptance ends its invitation and tells whom it gave what was missing.
LEMMA ToldAcceptance ==
  ASSUME IInv, Told, NEW r \in Requests, Admits(r)
  PROVE  Told'
<1>1. /\ requests[r] \in RequestState /\ requests[r].op = "accept.commit" /\ Accepting(r)
      /\ TypeOK
  BY DEF IInv, TypeOK, Admits, AcceptCommit, Accepting
<1>2. /\ requests[r].actor \in Users /\ requests[r].target \in Invitations
      /\ requests[r].missing \in SUBSET Collections
  BY <1>1, RequestFields
<1>3. PICK u \in Users : u = requests[r].actor
  BY <1>2
<1>4. PICK i \in Invitations : i = requests[r].target
  BY <1>2
<1>5. PICK missing \in SUBSET Collections : missing = requests[r].missing
  BY <1>2
<1>6. /\ Pending(i) /\ invitations[i].attempts < MaxAttempts
      /\ invitations[i].accepted_by = NoRow
  BY <1>1, <1>4 DEF IInv, AcceptorHolds, RowsInv, PendingIsOpen
<1>7. /\ invitations \in [Invitations -> Invitation \cup {NoRow}]
      /\ grants \in [Users -> [Collections -> Grant]]
      /\ invitations[i] \in Invitation /\ invitations[i] # NoRow
  BY <1>1, <1>6 DEF TypeOK, Pending
<1>8. PICK row \in Invitation :
         /\ row = [Counted(i) EXCEPT !.status = "accepted", !.accepted_by = u]
         /\ row.status = "accepted" /\ row.accepted_by = u
  <2>1. Counted(i) \in Invitation
    BY <1>6, <1>7, CountedRow
  <2> QED
    <3>1. /\ [Counted(i) EXCEPT !.status = "accepted", !.accepted_by = u] \in Invitation
          /\ [Counted(i) EXCEPT !.status = "accepted", !.accepted_by = u].status = "accepted"
          /\ [Counted(i) EXCEPT !.status = "accepted", !.accepted_by = u].accepted_by = u
      BY <2>1, InvitationFields DEF Invitation, InvitationStatus
    <3> QED
      BY <3>1
<1>9. /\ invitations' = [invitations EXCEPT ![i] = row]
      /\ grants' = [grants EXCEPT ![u] = [c \in Collections |->
                        IF c \in missing THEN Inserted(grants[u][c], "viewer") ELSE grants[u][c]]]
      /\ trail \subseteq trail' /\ collections' = collections
  BY <1>3, <1>4, <1>5, <1>8 DEF Admits, AcceptCommit, Write, Audit
<1>10. /\ invitations'[i] = row /\ row # NoRow
       /\ \A j \in Invitations : j # i => invitations'[j] = invitations[j]
  BY <1>7, <1>9, RowAssumption
<1>11. EndIsTold(i)'
  BY <1>8, <1>10, AdministrationAssumption DEF EndIsTold
<1>12. ASSUME NEW v \in Users, NEW c \in Collections
       PROVE  grants'[v][c] = grants[v][c] \/ GrantIsTold(v, c)'
  <2>1. CASE v = u /\ c \in missing
    <3>1. grants'[v][c] = Inserted(grants[v][c], "viewer")
      BY <1>7, <1>9, <2>1
    <3>2. Granted(v, c)'
      <4>1. Inserted(grants[v][c], "viewer").role = "viewer" /\ "viewer" # NoRow
        BY AdministrationAssumption DEF Inserted, CollectionRole
      <4> QED
        BY <3>1, <4>1 DEF Granted
    <3> QED
      BY <1>8, <1>10, <2>1, <3>2 DEF GrantIsTold
  <2>2. CASE v = u /\ c \notin missing
    BY <1>7, <1>9, <2>2
  <2>3. CASE v # u
    BY <1>7, <1>9, <2>3
  <2> QED
    BY <2>1, <2>2, <2>3
<1> QED
  BY <1>6, <1>9, <1>10, <1>11, <1>12, ToldStays DEF SameEnd, SameSubject

\* A grant is written with its event.
LEMMA ToldGrant ==
  ASSUME TypeOK, Told, NEW r \in Requests, ChangeGrant(r) \/ InsertGrant(r) \/ DeleteGrant(r)
  PROVE  Told'
<1>1. requests[r] \in RequestState /\ requests[r].op \in {"grant.put", "grant.delete"}
  BY DEF TypeOK, ChangeGrant, InsertGrant, DeleteGrant
<1>2. /\ requests[r].target \in Users /\ requests[r].collection \in Collections
      /\ requests[r].op = "grant.put" => requests[r].role \in CollectionRole
  BY <1>1, RequestFields
<1>3. PICK u \in Users, k \in Collections : u = requests[r].target /\ k = requests[r].collection
  BY <1>2
<1>4. grants \in [Users -> [Collections -> Grant]] /\ grants[u][k] \in Grant
  BY DEF TypeOK
<1>5. CASE UNCHANGED rows
  BY <1>5, ToldQuietly DEF rows
<1>6. ASSUME NEW action, NEW grant, WriteGrant(requests[r], action, grant),
             \/ grant = grants[u][k]
             \/ action = "collection_grant.changed" /\ grant.role # NoRow
             \/ action = "collection_grant.removed" /\ grant.role = NoRow
      PROVE  Told'
  <2>1. /\ grants' = [grants EXCEPT ![u][k] = grant] /\ trail' = trail \cup {<<action, u>>}
        /\ UNCHANGED <<invitations, collections>>
    BY <1>3, <1>6 DEF WriteGrant, Audit
  <2>2. grants' = [v \in Users |-> IF v = u THEN [grants[u] EXCEPT ![k] = grant] ELSE grants[v]]
    BY <1>4, <2>1
  <2>3. grants[u] \in [Collections -> Grant]
    BY <1>4
  <2>4. grants'[u] = [grants[u] EXCEPT ![k] = grant]
    BY <2>2
  <2>5. /\ grants'[u][k] = grant
        /\ \A c \in Collections : c # k => grants'[u][c] = grants[u][c]
        /\ \A v \in Users : v # u => grants'[v] = grants[v]
    BY <2>2, <2>3, <2>4
  <2>6. grants'[u][k] = grants[u][k] \/ GrantIsTold(u, k)'
    BY <1>6, <2>1, <2>5 DEF GrantIsTold, Granted
  <2> QED
    BY <2>1, <2>5, <2>6, ToldStays DEF SameEnd, SameSubject
<1>7. CASE ChangeGrant(r)
  <2>1. requests[r].role # NoRow
    BY <1>2, <1>7, AdministrationAssumption DEF ChangeGrant
  <2>2. \/ UNCHANGED rows
        \/ WriteGrant(requests[r], "collection_grant.changed", grants[u][k])
        \/ WriteGrant(requests[r], "collection_grant.changed",
                      [grants[u][k] EXCEPT !.role = requests[r].role])
    BY <1>3, <1>7 DEF ChangeGrant
  <2>3. [grants[u][k] EXCEPT !.role = requests[r].role].role = requests[r].role
    BY <1>4 DEF Grant
  <2> QED
    BY <1>5, <1>6, <2>1, <2>2, <2>3
<1>8. CASE InsertGrant(r)
  <2>1. requests[r].role # NoRow
    BY <1>2, <1>8, AdministrationAssumption DEF InsertGrant
  <2>2. \/ UNCHANGED rows
        \/ WriteGrant(requests[r], "collection_grant.changed",
                      Inserted(grants[u][k], requests[r].role))
    BY <1>3, <1>8 DEF InsertGrant
  <2>3. Inserted(grants[u][k], requests[r].role).role = requests[r].role
    BY DEF Inserted
  <2> QED
    BY <1>5, <1>6, <2>1, <2>2, <2>3
<1>9. CASE DeleteGrant(r)
  <2>1. \/ WriteGrant(requests[r], "collection_grant.removed", Deleted(grants[u][k]))
        \/ WriteGrant(requests[r], "collection_grant.removed", grants[u][k])
    BY <1>3, <1>9 DEF DeleteGrant
  <2>2. Deleted(grants[u][k]).role = NoRow
    BY <1>4 DEF Deleted, Grant
  <2> QED
    BY <1>6, <2>1, <2>2
<1> QED
  BY <1>7, <1>8, <1>9

\* A collection takes its grants with it.
LEMMA ToldCollection ==
  ASSUME TypeOK, Told, NEW k \in Collections, RemoveCollection(k)
  PROVE  Told'
<1>1. /\ grants \in [Users -> [Collections -> Grant]]
      /\ grants' = [u \in Users |-> [grants[u] EXCEPT ![k] = Deleted(grants[u][k])]]
      /\ collections' = collections \ {k} /\ UNCHANGED <<invitations, trail>>
  BY DEF TypeOK, RemoveCollection
<1>2. ASSUME NEW u \in Users, NEW c \in Collections
      PROVE  grants'[u][c] = grants[u][c] \/ GrantIsTold(u, c)'
  <2>1. grants'[u] = [grants[u] EXCEPT ![k] = Deleted(grants[u][k])]
    BY <1>1
  <2>2. grants[u] \in [Collections -> Grant] /\ grants[u][k] \in Grant
    BY <1>1
  <2>3. CASE c # k
    BY <2>1, <2>2, <2>3
  <2>4. CASE c = k
    <3>1. grants'[u][c] = Deleted(grants[u][k])
      BY <2>1, <2>2, <2>4
    <3>2. Deleted(grants[u][k]).role = NoRow
      BY <2>2 DEF Deleted, Grant
    <3> QED
      BY <1>1, <2>4, <3>1, <3>2 DEF GrantIsTold, Granted
  <2> QED
    BY <2>3, <2>4
<1> QED
  BY <1>1, <1>2, ToldStays DEF SameEnd, SameSubject

\* Attempts, edits and withdrawals of one row.
LEMMA ToldWritten ==
  ASSUME IInv, Told, NEW r, NEW i \in Invitations,
         \/ Expire(i)
         \/ AcceptUnavailable(r, i)
         \/ \E u \in Users : AcceptMismatch(r, u, i)
         \/ RevokeInvitation(r, i)
         \/ RemoveInvitation(r, i)
         \/ \E role \in MembershipRole, given \in SUBSET Collections : EditInPlace(r, i, role, given)
  PROVE  Told'
<1>1. TypeOK /\ invitations \in [Invitations -> Invitation \cup {NoRow}]
  BY DEF IInv, TypeOK
<1>2. /\ invitations[i] # NoRow /\ invitations[i] \in Invitation
      /\ UNCHANGED <<grants, collections>> /\ trail \subseteq trail'
  <2>1. CASE AcceptUnavailable(r, i)
    BY <1>1, <2>1 DEF AcceptUnavailable, Reachable
  <2>2. CASE Expire(i) \/ \E u \in Users : AcceptMismatch(r, u, i)
    BY <1>1, <2>2 DEF Expire, AcceptMismatch, Reachable
  <2>3. CASE RevokeInvitation(r, i)
    BY <1>1, <2>3 DEF RevokeInvitation, Pending, Audit
  <2>4. CASE RemoveInvitation(r, i)
    BY <1>1, <2>4 DEF RemoveInvitation, Audit
  <2>5. ASSUME NEW role \in MembershipRole, NEW given \in SUBSET Collections,
               EditInPlace(r, i, role, given)
        PROVE  /\ invitations[i] # NoRow /\ invitations[i] \in Invitation
               /\ UNCHANGED <<grants, collections>> /\ trail \subseteq trail'
    <3>1. /\ Pending(i) /\ UNCHANGED <<accounts, members, grants, collections>>
          /\ trail' = trail \cup {<<"invitation.edited", i>>}
      BY <2>5, Zenon DEF EditInPlace, Audit
    <3> QED
      BY <1>1, <3>1 DEF Pending
  <2> QED
    BY <2>1, <2>2, <2>3, <2>4, <2>5
<1>4. CASE Expire(i)
  <2>1. PICK row \in Invitation :
          /\ row = [invitations[i] EXCEPT !.due = TRUE]
          /\ row.accepted_by = invitations[i].accepted_by
          /\ row.status = invitations[i].status /\ row.live = invitations[i].live
    <3>1. /\ [invitations[i] EXCEPT !.due = TRUE] \in Invitation
          /\ [invitations[i] EXCEPT !.due = TRUE].accepted_by = invitations[i].accepted_by
          /\ [invitations[i] EXCEPT !.due = TRUE].status = invitations[i].status
          /\ [invitations[i] EXCEPT !.due = TRUE].live = invitations[i].live
      BY <1>2, InvitationFields DEF Invitation
    <3> QED
      BY <3>1
  <2> QED
    BY <1>1, <1>2, <1>4, <2>1, ToldRow DEF Expire
<1>5. CASE AcceptUnavailable(r, i) \/ \E u \in Users : AcceptMismatch(r, u, i)
  <2>1. /\ Counted(i) \in Invitation /\ Counted(i).accepted_by = invitations[i].accepted_by
        /\ Counted(i).live = invitations[i].live /\ Counted(i).status = invitations[i].status
    <3>1. invitations[i].attempts < MaxAttempts
      BY <1>5 DEF AcceptUnavailable, AcceptMismatch, Reachable
    <3>2. invitations[i].attempts + 1 \in 0..MaxAttempts
      BY <1>2, <3>1, InvitationFields, AdministrationAssumption
    <3> QED
      BY <1>2, <3>2, InvitationFields DEF Counted, Invitation
  <2>2. PICK counted \in Invitation : counted = Counted(i)
    BY <2>1
  <2>3. CASE Write(i, Counted(i))
    <3>1. Write(i, counted)
      BY <2>2, <2>3
    <3> QED
      BY <1>1, <1>2, <2>1, <2>2, <3>1, ToldRow
  <2>4. CASE /\ Write(i, [Counted(i) EXCEPT !.status = "expired"])
             /\ <<"invitation.expired", i>> \in trail'
    <3>1. PICK row \in Invitation :
            /\ row = [counted EXCEPT !.status = "expired"] /\ row.status = "expired"
            /\ row.accepted_by = invitations[i].accepted_by
      <4>1. /\ [counted EXCEPT !.status = "expired"] \in Invitation
            /\ [counted EXCEPT !.status = "expired"].status = "expired"
            /\ [counted EXCEPT !.status = "expired"].accepted_by = invitations[i].accepted_by
        BY <2>1, <2>2, InvitationFields DEF Invitation, InvitationStatus
      <4> QED
        BY <4>1
    <3>2. invitations'[i] = row /\ Write(i, row)
      BY <1>1, <2>2, <2>4, <3>1 DEF Write
    <3>3. EndIsTold(i)'
      BY <2>4, <3>1, <3>2 DEF EndIsTold
    <3> QED
      BY <1>1, <1>2, <3>1, <3>2, <3>3, ToldRow
  <2>5. ASSUME AcceptUnavailable(r, i)
        PROVE  \/ Write(i, Counted(i))
               \/ /\ Write(i, [Counted(i) EXCEPT !.status = "expired"])
                  /\ <<"invitation.expired", i>> \in trail'
    <3>1. [Counted(i) EXCEPT !.status = @] = Counted(i)
      BY <2>1 DEF Invitation
    <3> QED
      BY <2>5, <3>1 DEF AcceptUnavailable
  <2> QED
    BY <1>5, <2>3, <2>4, <2>5 DEF AcceptMismatch
<1>6. CASE RevokeInvitation(r, i)
  <2>1. PICK row \in Invitation :
          /\ row = [invitations[i] EXCEPT !.status = "revoked"] /\ row.status = "revoked"
          /\ row.accepted_by = invitations[i].accepted_by
    <3>1. /\ [invitations[i] EXCEPT !.status = "revoked"] \in Invitation
          /\ [invitations[i] EXCEPT !.status = "revoked"].status = "revoked"
          /\ [invitations[i] EXCEPT !.status = "revoked"].accepted_by = invitations[i].accepted_by
      BY <1>2, InvitationFields DEF Invitation, InvitationStatus
    <3> QED
      BY <3>1
  <2>2. Write(i, row) /\ <<"invitation.revoked", i>> \in trail'
    BY <1>6, <2>1 DEF RevokeInvitation, Audit
  <2>3. EndIsTold(i)'
    BY <1>1, <2>1, <2>2 DEF EndIsTold, Write
  <2> QED
    BY <1>1, <1>2, <2>1, <2>2, <2>3, ToldRow
<1>7. CASE RemoveInvitation(r, i)
  <2>1. PICK row \in Invitation :
          /\ row = [invitations[i] EXCEPT !.status = "removed", !.live = FALSE, !.email = NoRow]
          /\ row.status = "removed" /\ ~row.live
          /\ row.accepted_by = invitations[i].accepted_by
    <3>1. /\ [invitations[i] EXCEPT !.status = "removed", !.live = FALSE, !.email = NoRow] \in Invitation
          /\ [invitations[i] EXCEPT !.status = "removed", !.live = FALSE, !.email = NoRow].status = "removed"
          /\ ~[invitations[i] EXCEPT !.status = "removed", !.live = FALSE, !.email = NoRow].live
          /\ [invitations[i] EXCEPT !.status = "removed", !.live = FALSE, !.email = NoRow].accepted_by = invitations[i].accepted_by
      BY <1>2, InvitationFields DEF Invitation, InvitationStatus
    <3> QED
      BY <3>1
  <2>2. Write(i, row)
    BY <1>7, <2>1 DEF RemoveInvitation
  <2>3. EndIsTold(i)'
    BY <1>1, <2>1, <2>2 DEF EndIsTold, Write
  <2> QED
    BY <1>1, <1>2, <2>1, <2>2, <2>3, ToldRow
<1>8. ASSUME NEW role \in MembershipRole, NEW given \in SUBSET Collections,
             EditInPlace(r, i, role, given)
      PROVE  Told'
  <2>1. PICK row \in Invitation :
          /\ row = [invitations[i] EXCEPT !.role = role, !.initial_grants = given]
          /\ row.status = invitations[i].status /\ row.live = invitations[i].live
          /\ row.accepted_by = invitations[i].accepted_by
    <3>1. /\ [invitations[i] EXCEPT !.role = role, !.initial_grants = given] \in Invitation
          /\ [invitations[i] EXCEPT !.role = role, !.initial_grants = given].status = invitations[i].status
          /\ [invitations[i] EXCEPT !.role = role, !.initial_grants = given].live = invitations[i].live
          /\ [invitations[i] EXCEPT !.role = role, !.initial_grants = given].accepted_by = invitations[i].accepted_by
      BY <1>2, InvitationFields DEF Invitation
    <3> QED
      BY <3>1
  <2>2. Write(i, row)
    BY <1>8, <2>1, Zenon DEF EditInPlace
  <2> QED
    BY <1>1, <1>2, <2>1, <2>2, ToldRow
<1> QED
  BY <1>4, <1>5, <1>6, <1>7, <1>8

\* A request that only reads, and one that changes a member.
LEMMA ToldWithoutRows ==
  ASSUME Told, NEW r \in Requests,
         \/ \E a \in Users, op \in AdminOps, preview \in Previews : Authorize(r, op, a, preview)
         \/ \E i \in Invitations, u \in Users : AcceptMatch(r, u, i)
         \/ \E op, a, u, c, preview, role : ReadGrant(r, op, a, preview, u, c, role)
         \/ \E a, c, preview : DenyGrant(r, a, preview, c)
         \/ \E u, role, status : LockMember(r, u, role, status)
         \/ \E email, role, given : CheckPending(r, email, role, given)
         \/ CommitMember(r) \/ ReadExpired(r) \/ RefuseInvitationChange(r)
         \/ Refused(r)
  PROVE  Told'
<1>1. CASE UNCHANGED rows
  BY <1>1, ToldQuietly DEF rows
<1>2. ASSUME NEW a, NEW c, NEW preview, DenyGrant(r, a, preview, c)
      PROVE  Told'
  BY <1>2, ToldQuietly DEF DenyGrant, Audit
<1>3. CASE CommitMember(r)
  BY <1>3, ToldQuietly DEF CommitMember, Audit
<1>4. ASSUME NEW a, NEW op, NEW preview, Authorize(r, op, a, preview)
      PROVE  Told'
  BY <1>1, <1>4 DEF Authorize
<1>5. ASSUME NEW i, NEW u, AcceptMatch(r, u, i)
      PROVE  Told'
  BY <1>1, <1>5 DEF AcceptMatch
<1>6. ASSUME NEW op, NEW a, NEW u, NEW c, NEW preview, NEW role,
             ReadGrant(r, op, a, preview, u, c, role)
      PROVE  Told'
  BY <1>1, <1>6 DEF ReadGrant
<1>7. ASSUME NEW u, NEW role, NEW status, LockMember(r, u, role, status)
      PROVE  Told'
  <2>1. UNCHANGED rows
    BY <1>7 DEF LockMember, Refused
  <2> QED
    BY <1>1, <2>1
<1>8. ASSUME NEW email, NEW role, NEW given, CheckPending(r, email, role, given)
      PROVE  Told'
  <2>1. UNCHANGED rows
    BY <1>8 DEF CheckPending, Refused
  <2> QED
    BY <1>1, <2>1
<1>9. CASE ReadExpired(r) \/ RefuseInvitationChange(r) \/ Refused(r)
  BY <1>1, <1>9 DEF ReadExpired, RefuseInvitationChange, Refused
<1> QED
  BY <1>2, <1>3, <1>4, <1>5, <1>6, <1>7, <1>8, <1>9

\* The account of an acceptance: at most an attempt is counted.
LEMMA ToldJoin ==
  ASSUME IInv, Told, NEW r \in Requests, AcceptJoin(r)
  PROVE  Told'
<1>1. /\ requests[r] \in RequestState /\ requests[r].op = "accept.join" /\ Accepting(r)
      /\ TypeOK
  BY DEF IInv, TypeOK, AcceptJoin, Accepting
<1>2. PICK i \in Invitations : i = requests[r].target
  BY <1>1, RequestFields
<1>3. /\ Pending(i) /\ invitations[i].attempts < MaxAttempts
      /\ invitations[i] \in Invitation /\ invitations[i] # NoRow
  BY <1>1, <1>2 DEF IInv, AcceptorHolds, Pending, TypeOK
<1>4. PICK row \in Invitation :
         /\ row = Counted(i) /\ row.accepted_by = invitations[i].accepted_by
         /\ row.status = invitations[i].status /\ row.live = invitations[i].live
  <2>1. invitations[i].attempts + 1 \in 0..MaxAttempts
    BY <1>3, InvitationFields, AdministrationAssumption
  <2>2. /\ Counted(i) \in Invitation /\ Counted(i).accepted_by = invitations[i].accepted_by
        /\ Counted(i).status = invitations[i].status /\ Counted(i).live = invitations[i].live
    BY <1>3, <2>1, InvitationFields DEF Counted, Invitation
  <2> QED
    BY <2>2
<1>5. \/ UNCHANGED rows
      \/ Write(i, Counted(i)) /\ UNCHANGED <<grants, collections, trail>>
  BY <1>2 DEF AcceptJoin, Refused
<1>6. CASE UNCHANGED rows
  BY <1>6, ToldQuietly DEF rows
<1>7. CASE Write(i, Counted(i)) /\ UNCHANGED <<grants, collections, trail>>
  <2>1. Write(i, row)
    BY <1>4, <1>7
  <2> QED
    BY <1>1, <1>3, <1>4, <1>7, <2>1, ToldRow
<1> QED
  BY <1>5, <1>6, <1>7

\* A request that makes an invitation, and those that make one in place of another.
LEMMA ToldMade ==
  ASSUME IInv, Ready, Told, NEW r \in Requests, NEW i \in Invitations, NEW j \in Invitations,
         \/ CommitInvitation(r, i)
         \/ ReplaceInvitation(r, i, j)
         \/ \E email \in Addresses, role \in MembershipRole, given \in SUBSET Collections :
               EditAddress(r, i, j, email, role, given)
  PROVE  Told'
<1>1. TypeOK
  BY DEF IInv
<1>2. CASE CommitInvitation(r, i)
  <2>1. requests[r] \in RequestState /\ requests[r].op = "create.commit"
    BY <1>1, <1>2 DEF TypeOK, CommitInvitation
  <2>2. requests[r].next \in Invitation /\ requests[r].next.status = "pending"
    BY <2>1, RequestFields DEF Ready, Fits
  <2>3. PICK row \in Invitation : row = requests[r].next
    BY <2>2
  <2>4. /\ Write(i, row) /\ invitations[i] = NoRow /\ trail \subseteq trail'
        /\ UNCHANGED <<grants, collections>>
    BY <1>2, <2>3 DEF CommitInvitation, Audit
  <2> QED
    BY <1>1, <2>2, <2>3, <2>4, ToldNew
<1>3. ASSUME NEW email \in Addresses \cup {NoRow}, NEW role \in MembershipRole,
             NEW given \in SUBSET Collections, NEW action \in {"invitation.edited", "invitation.replaced"},
             Supersede(i, j, NewInvitation(email, role, given)), Audit(action, i),
             invitations[i] # NoRow, UNCHANGED <<grants, collections>>
      PROVE  Told'
  <2>1. /\ NewInvitation(email, role, given) \in Invitation
        /\ NewInvitation(email, role, given).status = "pending"
    BY NewInvitationType
  <2>2. /\ trail \subseteq trail'
        /\ {<<"invitation.replaced", i>>, <<"invitation.edited", i>>} \cap trail' # {}
    BY <1>3 DEF Audit
  <2> QED
    BY <1>1, <1>3, <2>1, <2>2, ToldSuperseded
<1>4. CASE ReplaceInvitation(r, i, j)
  <2>1. invitations[i] \in Invitation /\ invitations[i] # NoRow
    BY <1>1, <1>4 DEF TypeOK, ReplaceInvitation
  <2>2. PICK email \in Addresses \cup {NoRow}, role \in MembershipRole,
             given \in SUBSET Collections :
          /\ email = invitations[i].email /\ role = invitations[i].role
          /\ given = invitations[i].initial_grants
    BY <2>1, InvitationFields
  <2>3. /\ Supersede(i, j, NewInvitation(email, role, given)) /\ Audit("invitation.replaced", i)
        /\ UNCHANGED <<grants, collections>>
    BY <1>4, <2>2 DEF ReplaceInvitation
  <2> QED
    BY <1>3, <2>1, <2>3
<1>5. ASSUME NEW email \in Addresses, NEW role \in MembershipRole, NEW given \in SUBSET Collections,
             EditAddress(r, i, j, email, role, given)
      PROVE  Told'
  <2>1. /\ Supersede(i, j, NewInvitation(email, role, given)) /\ Audit("invitation.edited", i)
        /\ invitations[i] # NoRow /\ UNCHANGED <<grants, collections>>
    BY <1>5 DEF EditAddress, Pending
  <2> QED
    BY <1>3, <2>1
<1> QED
  BY <1>2, <1>4, <1>5

\* Every step tells what it changes.
LEMMA NextTells ==
  ASSUME IInv, Ready, Told, [Next]_vars
  PROVE  Told'
<1>1. TypeOK /\ AskedRoles \subseteq MembershipRole
  BY AdministrationAssumption DEF IInv
<1>2. ASSUME NEW r \in Requests, Arrives(r)
      PROVE  Told'
  <2>1. ASSUME NEW a \in Users, NEW op \in AdminOps, NEW preview \in Previews,
               Authorize(r, op, a, preview)
        PROVE  Told'
    BY <2>1, ToldWithoutRows
  <2>2. ASSUME NEW i \in Invitations, AcceptUnavailable(r, i)
        PROVE  Told'
    BY <2>2, ToldWritten
  <2>3. ASSUME NEW i \in Invitations, NEW u \in Users, AcceptMismatch(r, u, i)
        PROVE  Told'
    BY <2>3, ToldWritten
  <2>4. ASSUME NEW i \in Invitations, NEW u \in Users, AcceptMatch(r, u, i)
        PROVE  Told'
    BY <2>4, ToldWithoutRows
  <2>5. ASSUME NEW a, NEW u, NEW c, NEW preview, NEW op, NEW role,
               ReadGrant(r, op, a, preview, u, c, role)
        PROVE  Told'
    BY <2>5, ToldWithoutRows
  <2>6. ASSUME NEW a, NEW c, NEW preview, DenyGrant(r, a, preview, c)
        PROVE  Told'
    BY <2>6, ToldWithoutRows
  <2> QED
    BY <1>2, <2>1, <2>2, <2>3, <2>4, <2>5, <2>6, Zenon DEF Arrives
<1>3. ASSUME NEW r \in Requests, Continues(r)
      PROVE  Told'
  <2>1. ASSUME NEW u, NEW role, NEW status, LockMember(r, u, role, status)
        PROVE  Told'
    BY <2>1, ToldWithoutRows
  <2>2. CASE CommitMember(r)
    BY <2>2, ToldWithoutRows
  <2>3. ASSUME NEW email, NEW role, NEW given, CheckPending(r, email, role, given)
        PROVE  Told'
    BY <2>3, ToldWithoutRows
  <2>4. ASSUME NEW i \in Invitations, NEW role \in AskedRoles, NEW given \in SUBSET Collections,
               EditInPlace(r, i, role, given)
        PROVE  Told'
    BY <1>1, <2>4, ToldWritten
  <2>5. ASSUME NEW i \in Invitations, NEW j \in Invitations, NEW email \in Addresses,
               NEW role \in AskedRoles, NEW given \in SUBSET Collections,
               EditAddress(r, i, j, email, role, given)
        PROVE  Told'
    BY <1>1, <2>5, ToldMade
  <2>6. ASSUME NEW i \in Invitations, NEW j \in Invitations,
               CommitInvitation(r, i) \/ ReplaceInvitation(r, i, j)
        PROVE  Told'
    BY <2>6, ToldMade
  <2>7. ASSUME NEW i \in Invitations, RemoveInvitation(r, i) \/ RevokeInvitation(r, i)
        PROVE  Told'
    BY <2>7, ToldWritten
  <2>8. CASE ReadExpired(r) \/ RefuseInvitationChange(r)
    BY <2>8, ToldWithoutRows
  <2>9. CASE CommitExpired(r)
    BY <2>9, ToldExpired
  <2>10. CASE AcceptJoin(r)
    BY <2>10, ToldJoin
  <2>11. CASE AcceptCommit(r)
    <3>1. CASE AcceptFails(requests[r])
      <4>1. Refused(r)
        BY <2>11, <3>1 DEF AcceptCommit
      <4> QED
        BY <4>1, ToldWithoutRows
    <3> QED
      BY <2>11, <3>1, ToldAcceptance DEF Admits
  <2>12. CASE ChangeGrant(r) \/ InsertGrant(r) \/ DeleteGrant(r)
    BY <1>1, <2>12, ToldGrant
  <2> QED
    BY <1>3, <2>1, <2>2, <2>3, <2>4, <2>5, <2>6, <2>7, <2>8, <2>9, <2>10, <2>11, <2>12, Zenon
       DEF Continues
<1>4. CASE Surroundings
  <2>1. ASSUME NEW i \in Invitations, Expire(i)
        PROVE  Told'
    BY <2>1, ToldWritten
  <2>2. ASSUME NEW c \in Collections, RemoveCollection(c)
        PROVE  Told'
    BY <1>1, <2>2, ToldCollection
  <2> QED
    BY <1>4, <2>1, <2>2 DEF Surroundings
<1>5. CASE UNCHANGED vars
  BY <1>5, ToldQuietly DEF vars
<1> QED
  BY <1>2, <1>3, <1>4, <1>5 DEF Next

\* No membership, invitation or grant is as it is without the events that made it
\* so, whatever requests were in progress together; changes of a member,
\* acceptances and removals are told only if they were made (_audit).
THEOREM EveryChangeIsTold == Spec => []TrailTellsEveryChange
<1>1. Init => Ready /\ Told
  <2>1. Init => Told
    BY DEF Init, Told, GrantIsTold, Granted
  <2> QED
    BY <2>1, InitShown
<1>2. IInv /\ Ready /\ [Next]_vars => Ready'
  BY NextShown
<1>3. IInv /\ Ready /\ Told /\ [Next]_vars => Told'
  BY NextTells
<1>4. IInv /\ Told => TrailTellsEveryChange
  BY DEF IInv, RowsInv, Told, TrailTellsEveryChange
<1> QED
  BY <1>1, <1>2, <1>3, <1>4, Invariant, PTL DEF Spec

=============================================================================
