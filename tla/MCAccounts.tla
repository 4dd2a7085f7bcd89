----------------------------- MODULE MCAccounts -----------------------------
(***************************************************************************)
(* A small instance of Accounts.                                           *)
(***************************************************************************)
EXTENDS Accounts, TLC

CONSTANTS r1, r2, u1, u2, acme, umbrella, a, b

TwoRequests == {r1, r2}
TwoUsers == {u1, u2}
TwoCompanies == {acme, umbrella}
TwoEmails == {a, b}
TwoRoles == {"OWNER", "VIEWER"}

\* One field at a time, and a deactivation that comes with a role.
SomeChanges ==
    {Only(email) : email \in TwoEmails}
    \cup {[Only(None) EXCEPT !.role = role] : role \in TwoRoles}
    \cup {[Only(None) EXCEPT !.isActive = active] : active \in BOOLEAN}
    \cup {[email |-> None, role |-> "VIEWER", isActive |-> FALSE]}

\* No action or property tells two members of one of these sets apart.
Symmetries == Permutations(Requests) \cup Permutations(UserIds)
              \cup Permutations(Companies) \cup Permutations(Emails)
=============================================================================
