-------------------------- MODULE MCAccessControl --------------------------
(***************************************************************************)
(* A small instance of AccessControl for TLC.  The super administrator's   *)
(* demo account is the only one followed.                                  *)
(***************************************************************************)
EXTENDS AccessControl, TLC

CONSTANTS u1, u2, r1, r2, root, guest

DemoAccounts == "SUPER_ADMIN" :> root

TypedEmails == {<<root, "lower">>, <<guest, "lower">>, <<guest, "mixed">>}

Roles == SEEDED_ROLES \cup {"AUDITOR"}

Alike == Permutations({u1, u2}) \cup Permutations({r1, r2})
=============================================================================
