------------------------- MODULE MembershipRegister -------------------------
(***************************************************************************)
(* What the administration promises of who belongs to the organization and *)
(* what they may reach: every change is made at once, from the rows as     *)
(* they are at that moment.  An offer admits the subject it is addressed   *)
(* to, once, on the terms it states then, and takes nothing from it.       *)
(* Grants are held by members, of collections that exist.                  *)
(***************************************************************************)
EXTENDS Naturals

CONSTANTS
    Users, Mailbox, Founders, Seeded, Collections, Invitations, NoRow,
    Roles, Statuses,    \* of a member
    GrantRoles          \* of a grant

VARIABLES
    members,        \* membership by user, NoRow while there is none
    offers,         \* what an invitation that may be accepted offers, or NoRow
    spent,          \* invitations that can be accepted no more
    admitted,       \* whom an invitation admitted
    held,           \* role of each grant, or NoRow
    collections     \* collections that exist

vars == <<members, offers, spent, admitted, held, collections>>

Joined(role) == [role |-> role, status |-> "active", version |-> 1]

Init ==
    /\ members = [u \in Users |-> IF u \in Founders THEN Joined("owner")
                                 ELSE IF u \in Seeded THEN Joined("member") ELSE NoRow]
    /\ offers = [i \in Invitations |-> NoRow]
    /\ spent = {}
    /\ admitted = [i \in Invitations |-> NoRow]
    /\ held = [u \in Users |-> [c \in Collections |-> NoRow]]
    /\ collections = Collections

\* The version of a member counts its changes.
Change(u) ==
    /\ members[u] # NoRow
    /\ \E role \in Roles, status \in Statuses :
          members' = [members EXCEPT ![u] = [role |-> role, status |-> status,
                                             version |-> members[u].version + 1]]
    /\ UNCHANGED <<offers, spent, admitted, held, collections>>

Offer == [email : {Mailbox[u] : u \in Users} \cup {NoRow}, role : Roles,
          given : SUBSET Collections]

Unused(i) == offers[i] = NoRow /\ i \notin spent

Make(i) ==
    /\ Unused(i)
    /\ \E offer \in Offer : offers' = [offers EXCEPT ![i] = offer]
    /\ UNCHANGED <<members, spent, admitted, held, collections>>

\* An offer stays with the subject it was made to.
Amend(i) ==
    /\ offers[i] # NoRow
    /\ \E role \in Roles, given \in SUBSET Collections :
          offers' = [offers EXCEPT ![i] = [email |-> offers[i].email,
                                           role |-> role, given |-> given]]
    /\ UNCHANGED <<members, spent, admitted, held, collections>>

Close(S) ==
    /\ S # {}
    /\ \A i \in S : offers[i] # NoRow
    /\ offers' = [i \in Invitations |-> IF i \in S THEN NoRow ELSE offers[i]]
    /\ spent' = spent \cup S
    /\ UNCHANGED <<members, admitted, held, collections>>

\* An offer takes the place of an earlier one, that was open or not.
Renew(i, j) ==
    /\ ~Unused(i)
    /\ Unused(j)
    /\ \E offer \in Offer : offers' = [offers EXCEPT ![i] = NoRow, ![j] = offer]
    /\ spent' = spent \cup {i}
    /\ UNCHANGED <<members, admitted, held, collections>>

\* The subject comes in, or was in before, and is given what it did not hold.
Admit(i, u) ==
    /\ offers[i] # NoRow
    /\ offers[i].email = Mailbox[u]
    /\ \E given \in SUBSET (offers[i].given \cap collections) :
          /\ \A c \in given : held[u][c] = NoRow
          /\ held' = [held EXCEPT ![u] =
                [c \in Collections |-> IF c \in given THEN "viewer" ELSE held[u][c]]]
    /\ members' = [members EXCEPT ![u] = IF members[u] = NoRow THEN Joined(offers[i].role)
                                                                ELSE members[u]]
    /\ offers' = [offers EXCEPT ![i] = NoRow]
    /\ spent' = spent \cup {i}
    /\ admitted' = [admitted EXCEPT ![i] = u]
    /\ UNCHANGED collections

Give(u, c) ==
    /\ members[u] # NoRow
    /\ c \in collections
    /\ \E role \in GrantRoles : held' = [held EXCEPT ![u][c] = role]
    /\ UNCHANGED <<members, offers, spent, admitted, collections>>

Take(u, c) ==
    /\ held[u][c] # NoRow
    /\ held' = [held EXCEPT ![u][c] = NoRow]
    /\ UNCHANGED <<members, offers, spent, admitted, collections>>

RemoveCollection(c) ==
    /\ c \in collections
    /\ collections' = collections \ {c}
    /\ held' = [u \in Users |-> [held[u] EXCEPT ![c] = NoRow]]
    /\ UNCHANGED <<members, offers, spent, admitted>>

Next ==
    \/ \E u \in Users : Change(u)
    \/ \E i \in Invitations : Make(i) \/ Amend(i)
    \/ \E S \in SUBSET Invitations : Close(S)
    \/ \E i, j \in Invitations : Renew(i, j)
    \/ \E i \in Invitations, u \in Users : Admit(i, u)
    \/ \E u \in Users, c \in Collections : Give(u, c) \/ Take(u, c)
    \/ \E c \in Collections : RemoveCollection(c)

Spec == Init /\ [][Next]_vars
=============================================================================
