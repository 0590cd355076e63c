------------------------------ MODULE MCAccounts ------------------------------
(***************************************************************************)
(* Accounts for TLC: letters for e-mails and usernames, some of them in    *)
(* two spellings.                                                          *)
(***************************************************************************)
EXTENDS Accounts, TLC

CONSTANT AdminRole

Symmetry == Permutations(Users) \cup Permutations(Requests)

MCEmails == {"a@x", "A@x", "b@x"}
MCNames == {"ann", "bob"}
MCRoleNames == {"user", "admin", "User", "editor"}

OneSystemRole == [x \in {UserRole} |-> DefaultName]
TwoSystemRoles == [x \in {UserRole, AdminRole} |-> IF x = UserRole THEN DefaultName ELSE "admin"]

MCLower ==
  [s \in Emails \cup Names \cup RoleNames |->
     CASE s = "A@x" -> "a@x" [] s = "User" -> "user" [] OTHER -> s]

MCForms == {<<"A@x", "ann">>, <<"b@x", "bob">>}

Patch(e, n, b) == [email |-> e, name |-> n, active |-> b]

\* Take over the other's e-mail; rename and deactivate; activate.
MCPatches ==
  {Patch("A@x", None, None), Patch(None, "bob", FALSE), Patch(None, None, TRUE)}

OneForm == {<<"b@x", "bob">>}
NoPatches == {Patch(None, None, FALSE)}
=============================================================================
