------------------------------- MODULE MCSeed -------------------------------
(***************************************************************************)
(* Instances of Seed for TLC.                                              *)
(***************************************************************************)
EXTENDS Seed

CONSTANTS admin, user, manageUser, readUser

Permissions == {manageUser, readUser}
Roles == {admin, user}
RoleGrants == {<<admin, manageUser>>, <<user, readUser>>}
=============================================================================
