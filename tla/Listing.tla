--------------------------------- MODULE Listing ---------------------------------
(***************************************************************************)
(* A client walks through one listing page by page, while rows are         *)
(* inserted and deleted (src/backend/app/api/conversations.py and          *)
(* enterprise.py).  Each page is a query of its own that starts where the  *)
(* cursor of the page before it points.                                    *)
(***************************************************************************)
EXTENDS Ordering, SequencesExt

CONSTANTS
    Rows,           \* rows the listing may ever have
    RowRank,        \* their order by id; of messages, by sequence number
    Moment,         \* row -> created_at, the start of the transaction that inserts it
    Listings,       \* the listings that are walked through
    Limit,          \* rows of a page
    Start           \* no cursor

ASSUME ListingAssumption ==
    /\ IsFiniteSet(Rows)
    /\ RowRank \in [Rows -> Nat] /\ Moment \in [Rows -> Nat]
    /\ \A r, s \in Rows : RowRank[r] = RowRank[s] => r = s
    /\ Limit \in Nat \ {0} /\ Start \notin Rows
    /\ Listings \subseteq {"conversations", "messages", "members", "invitations", "grants",
                           "audit_events"}

VARIABLES
    listing,
    table,          \* the rows the query can find
    gone,           \* rows that were deleted, or left the listing
    parent,         \* whether the collection or conversation of the rows exists
    walk            \* the pages so far; steady: rows found all the time since the first

listingVars == <<listing, table, gone, parent, walk>>

NoWalk == [op |-> "idle", cursor |-> Start, shown |-> <<>>, steady |-> {}]

ListingInit(listings, tables) ==
    /\ listing \in listings
    /\ table \in tables /\ gone = {} /\ parent = TRUE
    /\ walk = NoWalk

--------------------------------------------------------------------------------
(* Orders and cursors.                                                      *)

ById == {p \in Rows \X Rows : RowRank[p[1]] < RowRank[p[2]]}
NewestFirst ==
    {p \in Rows \X Rows :
        \/ Moment[p[1]] > Moment[p[2]]
        \/ Moment[p[1]] = Moment[p[2]] /\ RowRank[p[1]] > RowRank[p[2]]}

\* Rows that come after the cursor in the given order.
Past(order) == {r \in table : walk.cursor = Start \/ <<walk.cursor, r>> \in order}

\* The cursors the routes hand out: the first row that was not shown, or the
\* last one that was.  The former is as well the mutant of the latter.
FirstUnseen(found) == found[Limit + 1]
LastShown(found) == found[Limit]

\* LIMIT n + 1 tells whether there is another page.
Page(rows, order) ==
    LET found == InOrder(rows, order)
    IN  SubSeq(found, 1, IF Limit < Len(found) THEN Limit + 1 ELSE Len(found))

Answer(found, cursor) ==
    walk' = IF Len(found) > Limit
            THEN [walk EXCEPT !.cursor = cursor, !.shown = @ \o SubSeq(found, 1, Limit)]
            ELSE [walk EXCEPT !.op = "done", !.shown = @ \o found]

\* 404: the parent, or the row the cursor names, cannot be found.
NotFound == walk' = [walk EXCEPT !.op = "refused"]

--------------------------------------------------------------------------------
(* Routes.                                                                  *)

ListConversations ==
    LET found == Page(Past(NewestFirst), NewestFirst)
    IN  /\ listing = "conversations"
        /\ IF parent /\ walk.cursor \in table \cup {Start}
           THEN Answer(found, LastShown(found)) ELSE NotFound
        /\ UNCHANGED table

ListMessages ==
    LET found == Page(Past(ById), ById)
    IN  /\ listing = "messages"
        /\ IF parent THEN Answer(found, LastShown(found)) ELSE NotFound
        /\ UNCHANGED table

ListMembers ==
    LET found == Page(Past(ById), ById)
    IN  /\ listing = "members"
        /\ Answer(found, FirstUnseen(found))
        /\ UNCHANGED table

ListInvitations ==
    LET found == Page(Past(ById), ById)
    IN  /\ listing = "invitations"
        /\ Answer(found, FirstUnseen(found))
        /\ UNCHANGED table

ListGrants ==
    LET found == Page(Past(ById), ById)
    IN  /\ listing = "grants"
        /\ IF parent THEN Answer(found, FirstUnseen(found)) ELSE NotFound
        /\ UNCHANGED table

\* Ordered by time and continued by id; and the view is an event itself.
ListAuditEvents(viewed) ==
    LET AfterCursor == {r \in table : walk.cursor = Start \/ <<r, walk.cursor>> \in ById}
        found == Page(AfterCursor, NewestFirst)
    IN  /\ listing = "audit_events"
        /\ viewed \in Rows \ table
        /\ Answer(found, FirstUnseen(found))
        /\ table' = table \cup {viewed}

BeginWalk ==
    /\ walk.op = "idle"
    /\ walk' = [walk EXCEPT !.op = "pages", !.steady = table]
    /\ UNCHANGED table

NextPage ==
    /\ walk.op = "pages"
    /\ \/ ListConversations \/ ListMessages
       \/ ListMembers \/ ListInvitations \/ ListGrants
       \/ \E viewed \in Rows : ListAuditEvents(viewed)

--------------------------------------------------------------------------------
(* What happens to the rows meanwhile.                                      *)

\* Identifiers are random; the messages of a conversation grow at its end.
InsertRow(r) ==
    /\ parent /\ r \notin table \cup gone
    /\ listing = "messages" => \A s \in table : <<s, r>> \in ById
    /\ table' = table \cup {r}
    /\ UNCHANGED <<gone, parent, walk>>

Leaves(rows) ==
    /\ table' = table \ rows /\ gone' = gone \cup rows
    /\ walk' = [walk EXCEPT !.steady = @ \ rows]

\* A conversation or a grant is deleted, an invitation is no longer pending.
DeleteRow(r) ==
    /\ listing \in {"conversations", "invitations", "grants"}
    /\ r \in table
    /\ Leaves({r})
    /\ UNCHANGED parent

DeleteParent ==
    /\ listing \in {"conversations", "messages", "grants"}
    /\ parent /\ parent' = FALSE
    /\ Leaves(table)

ListingNext ==
    /\ \/ (BeginWalk \/ NextPage) /\ UNCHANGED <<gone, parent>>
       \/ \E r \in Rows : InsertRow(r) \/ DeleteRow(r)
       \/ DeleteParent
    /\ UNCHANGED listing

ListingSpec == ListingInit(Listings, SUBSET Rows) /\ [][ListingNext]_listingVars

--------------------------------------------------------------------------------
(* Properties.                                                              *)

\* A walk to the end has shown every row that was there all along.
Complete == walk.op = "done" => walk.steady \subseteq ToSet(walk.shown)

WalkOrder == IF listing = "messages" THEN ById ELSE NewestFirst

\* The cursors of conversations and messages are stable (docs/CONVERSATIONS.md:
\* 13, 15): whatever is created and deleted between two pages, a walk that
\* reaches the end shows every row that stays, none twice, and all of them in
\* their order.  A walk ends early, with 404, when the row its cursor names is
\* deleted; what it has shown by then is in order too.
CursorIsStable ==
    listing \in {"conversations", "messages"} =>
        /\ Complete
        /\ \A i, j \in DOMAIN walk.shown : i < j =>
              <<walk.shown[i], walk.shown[j]>> \in WalkOrder

(* What makes it so: while pages are read the cursor is the last row that  *)
(* was shown, and a row that stays was shown or comes after it.            *)
WalkInv ==
    /\ table \subseteq Rows
    /\ walk \in [op : {"idle", "pages", "done", "refused"}, cursor : Rows \cup {Start},
                shown : Seq(Rows), steady : SUBSET table]
    /\ walk.op = "idle" => walk = NoWalk
    /\ walk.op = "pages" =>
        /\ walk.cursor = Start => walk.shown = <<>>
        /\ walk.cursor # Start => walk.shown # <<>> /\ Last(walk.shown) = walk.cursor
        /\ \A r \in walk.steady :
            \/ r \in ToSet(walk.shown)
            \/ walk.cursor = Start \/ <<walk.cursor, r>> \in WalkOrder

ListingInv == listing \in {"conversations", "messages"} => WalkInv /\ CursorIsStable

\* docs/POST_V1_ENTERPRISE_UPGRADE.md:93 of the administrative listings: "List
\* endpoints use bounded cursor pagination".  The pages make up the listing.
EveryRowIsListed == Complete
=================================================================================
