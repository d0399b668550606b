----------------------------- MODULE MCAdministration -----------------------------
(***************************************************************************)
(* One owner, two subjects of the identity provider with one address (an   *)
(* account that was recreated there), two invitations and two requests.    *)
(***************************************************************************)
EXTENDS Administration, TLC

CONSTANTS owner, first, second, address, r1, r2, c1, v1, v2

MailboxOf == (owner :> owner @@ first :> address @@ second :> address)
Interchangeable == Permutations({r1, r2})
=================================================================================
