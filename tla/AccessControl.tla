------------------------------ MODULE AccessControl ------------------------------
(***************************************************************************)
(* Who may do what: the permission tables and the two checks every route   *)
(* makes (src/backend/app/auth.py), as functions of the rows they read: a  *)
(* membership, a collection grant and the role an owner previews.          *)
(***************************************************************************)
CONSTANT NoRow      \* the marker of an absent row, and of an absent preview

MembershipRole == {"owner", "admin", "member"}
CollectionRole == {"manager", "editor", "viewer"}
DemoRole == {"owner", "admin", "editor", "viewer"}

Permission == {"READ", "UPLOAD", "REINDEX", "DELETE_DOCUMENT", "MANAGE_COLLECTIONS",
               "MANAGE_MEMBERS", "VIEW_AUDIT", "VIEW_ANALYTICS"}
CollectionPermission == {"READ", "UPLOAD", "REINDEX", "DELETE", "MANAGE_GRANTS"}

ROLE_PERMISSIONS ==
    [role \in MembershipRole |-> IF role = "member" THEN {"READ"} ELSE Permission]

DEMO_ROLE_PERMISSIONS ==
    [role \in DemoRole |->
        CASE role \in {"owner", "admin"} -> Permission
          [] role = "editor" -> {"READ", "UPLOAD", "REINDEX"}
          [] role = "viewer" -> {"READ"}]

COLLECTION_ROLE_PERMISSIONS ==
    [role \in CollectionRole |->
        CASE role = "manager" -> CollectionPermission
          [] role = "editor" -> {"READ", "UPLOAD", "REINDEX"}
          [] role = "viewer" -> {"READ"}]

\* The collection role a preview stands for.
PreviewCollectionRole ==
    [role \in DemoRole |->
        CASE role \in {"owner", "admin"} -> "manager"
          [] role \in {"editor", "viewer"} -> role]

(***************************************************************************)
(* require_membership: the membership must be active and the role in force *)
(* (the preview, when there is one) must hold the permission.  A preview   *)
(* is only ever in force for an active owner: the principal check refuses  *)
(* it otherwise, on every request.                                         *)
(***************************************************************************)
ActiveMember(row) == row # NoRow /\ row.status = "active"

PreviewAllowed(row, preview) ==
    preview # NoRow => ActiveMember(row) /\ row.role = "owner"

MembershipAllows(row, preview, permission) ==
    /\ ActiveMember(row)
    /\ permission \in (IF preview # NoRow THEN DEMO_ROLE_PERMISSIONS[preview]
                                          ELSE ROLE_PERMISSIONS[row.role])

(***************************************************************************)
(* require_collection_permission: owners and admins hold every collection  *)
(* permission, members only what their grant gives, a previewing owner     *)
(* what the previewed role would.                                          *)
(***************************************************************************)
CollectionAllows(row, grant, preview, permission) ==
    /\ ActiveMember(row)
    /\ \/ /\ preview # NoRow
          /\ permission \in COLLECTION_ROLE_PERMISSIONS[PreviewCollectionRole[preview]]
       \/ /\ preview = NoRow
          /\ row.role \in {"owner", "admin"}
       \/ /\ preview = NoRow
          /\ row.role = "member"
          /\ grant # NoRow
          /\ permission \in COLLECTION_ROLE_PERMISSIONS[grant]
=================================================================================
