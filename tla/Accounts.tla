------------------------------- MODULE Accounts -------------------------------
(***************************************************************************)
(* Users and companies: registration and login (AuthService), the users of *)
(* a company (UsersService behind its guards), and the two scripts that    *)
(* provision the first platform administrator and seed a company.          *)
(*                                                                         *)
(* Every database call is a step of its own but those of one statement or  *)
(* of a transaction's writes, so that what a request checked may no longer *)
(* hold when it writes.  The unique keys are guards of the writes; the     *)
(* CHECK of roles and companies is stated as a property, not assumed.      *)
(* A company is its NIT.  Passwords, names, the company's own fields and   *)
(* the expiry of tokens are left out.                                      *)
(*                                                                         *)
(* Requests   concurrent requests and runs of the scripts                  *)
(* UserIds    ids of users, which bound their number                       *)
(* Roles      the tenant roles that requests give to users                 *)
(* Changes    the updates that are asked for                               *)
(***************************************************************************)
CONSTANTS Requests, UserIds, Companies, Emails, Roles, Changes, None

TENANT_USER_ROLES == {"OWNER", "ADMIN", "ACCOUNTANT", "VIEWER"}

VARIABLES
    users,       \* id -> the user, or None
    companies,   \* the companies registered
    tokens,      \* the users who hold a token that lets them administer users
    audit,       \* the users the audit log tells of, and in which company
    holder,      \* the holder of the advisory lock of the bootstrap
    req          \* request -> where it is and what it has read

vars == <<users, companies, tokens, audit, holder, req>>

Administrators == {"OWNER", "ADMIN"}

User == [companyId : Companies \cup {None}, email : Emails,
         role : TENANT_USER_ROLES \cup {"SUPER_ADMIN"}, isActive : BOOLEAN]

\* What a request asks for; a field it does not give is None.
Change == [email : Emails \cup {None}, role : Roles \cup {None},
           isActive : BOOLEAN \cup {None}]

ASSUME AccountsAssumption ==
    /\ Roles \subseteq TENANT_USER_ROLES
    /\ Changes \subseteq Change
    /\ None \notin Requests \cup UserIds \cup Companies \cup Emails \cup User \cup BOOLEAN

Operations == {"CreateUser", "UpdateUser", "RemoveUser", "Register", "Provision", "Seed"}

Stages == {"check", "find", "checkEmail", "write", "log", "lock", "findUser"}

\* op, stage; actor, the user of the token; companyId, the company it acts on;
\* id, the user concerned; seen, the role that was read of it; change, the input.
Request == [op : Operations, stage : Stages, actor : UserIds \cup {None},
            companyId : Companies \cup {None}, id : UserIds \cup {None},
            seen : TENANT_USER_ROLES \cup {None}, change : Change]

\* The actions and their authors are left out.
AuditEntry == [companyId : Companies \cup {None}, entityId : UserIds]

Exists(id) == users[id] # None
HasEmail(id, email) == Exists(id) /\ users[id].email = email
EmailTaken(email) == \E id \in UserIds : HasEmail(id, email)

Init ==
    /\ users = [id \in UserIds |-> None]
    /\ companies = {}
    /\ tokens = {}
    /\ audit = {}
    /\ holder = None
    /\ req = [r \in Requests |-> None]

-----------------------------------------------------------------------------
Goto(r, stage) == req' = [req EXCEPT ![r].stage = stage]

\* A request ends, answered or refused.
End(r) == req' = [req EXCEPT ![r] = None]

\* The transaction of the bootstrap lets its lock go when it ends.
Unlock(r) == holder' = IF holder = r THEN None ELSE holder

Start(r, op, stage, actor, companyId, id, change) ==
    /\ req[r] = None
    /\ req' = [req EXCEPT ![r] = [op |-> op, stage |-> stage, actor |-> actor,
                                  companyId |-> companyId, id |-> id, seen |-> None,
                                  change |-> change]]
    /\ UNCHANGED <<users, companies, tokens, audit, holder>>

At(r, op, stage) == req[r] # None /\ req[r].op = op /\ req[r].stage = stage

Only(email) == [email |-> email, role |-> None, isActive |-> None]

\* The unique key of emails lets user id have this one.
EmailFreeFor(id, email) == \A other \in UserIds \ {id} : ~HasEmail(other, email)

NewUser(companyId, email, role) ==
    [companyId |-> companyId, email |-> email, role |-> role, isActive |-> TRUE]

\* user.create.
InsertUser(id, user) ==
    /\ ~Exists(id)
    /\ EmailFreeFor(id, user.email)
    /\ users' = [users EXCEPT ![id] = user]

-----------------------------------------------------------------------------
\* A token is signed with the role that was read; guards look only at it.
\* Tokens of other roles administer nothing.
Login(id) ==
    /\ Exists(id)
    /\ users[id].isActive
    /\ users[id].role \in Administrators
    /\ tokens' = tokens \cup {id}
    /\ UNCHANGED <<users, companies, audit, holder, req>>

\* The company of a token: users never change theirs.
Scope(actor) == users[actor].companyId

BeginCreateUser(r, actor, email, role) ==
    Start(r, "CreateUser", "check", actor, Scope(actor), None,
          [email |-> email, role |-> role, isActive |-> None])

BeginUpdateUser(r, actor, id, change) ==
    Start(r, "UpdateUser", "find", actor, Scope(actor), id, change)

BeginRemoveUser(r, actor, id) ==
    /\ id # actor
    /\ Start(r, "RemoveUser", "find", actor, Scope(actor), id, Only(None))

Begin(r) ==
    \E actor \in tokens :
        \/ \E email \in Emails, role \in Roles : BeginCreateUser(r, actor, email, role)
        \/ \E id \in UserIds, change \in Changes : BeginUpdateUser(r, actor, id, change)
        \/ \E id \in UserIds : BeginRemoveUser(r, actor, id)

\* Mutant: any user is found, whatever its company.
FindableAnywhere(r) == Exists(req[r].id)

\* A user is found in the company of the token.
Findable(r) == Exists(req[r].id) /\ users[req[r].id].companyId = req[r].companyId

\* Mutant: users may update themselves as they like.
OwnChangeIsFree(r, user) == TRUE

\* Nobody deactivates itself nor changes the role that was read of it.
OwnChangeAllowed(r, user) ==
    req[r].id = req[r].actor =>
        /\ req[r].change.isActive # FALSE
        /\ req[r].change.role \in {None, user.role}

\* findOne, and what update checks of the user it found.
FindUser(r) ==
    LET user == users[req[r].id]
        newEmail == req[r].change.email \notin {None, user.email}
    IN  /\ At(r, "UpdateUser", "find") \/ At(r, "RemoveUser", "find")
        /\ IF Findable(r) /\ OwnChangeAllowed(r, user)
           THEN req' = [req EXCEPT ![r].seen = user.role,
                                   ![r].stage = IF newEmail THEN "checkEmail" ELSE "write"]
           ELSE End(r)
        /\ UNCHANGED <<users, companies, tokens, audit, holder>>

\* The search for the email before a user is created or gets another one.
CheckEmail(r) ==
    /\ At(r, "CreateUser", "check") \/ At(r, "UpdateUser", "checkEmail")
    /\ IF EmailTaken(req[r].change.email) THEN End(r) ELSE Goto(r, "write")
    /\ UNCHANGED <<users, companies, tokens, audit, holder>>

CreateUser(r) ==
    /\ At(r, "CreateUser", "write")
    /\ \E id \in UserIds :
          /\ InsertUser(id, NewUser(req[r].companyId, req[r].change.email, req[r].change.role))
          /\ req' = [req EXCEPT ![r].id = id, ![r].stage = "log"]
    /\ UNCHANGED <<companies, tokens, audit, holder>>

\* Only the fields that were given are written.
Given(new, old) == IF new = None THEN old ELSE new

Updated(user, change) ==
    [user EXCEPT !.email = Given(change.email, @), !.role = Given(change.role, @),
                 !.isActive = Given(change.isActive, @)]

\* user.update by id: neither the company nor what was read is looked at again.
UpdateUser(r) ==
    LET id == req[r].id
        updated == Updated(users[id], req[r].change)
    IN  /\ At(r, "UpdateUser", "write")
        /\ EmailFreeFor(id, updated.email)
        /\ users' = [users EXCEPT ![id] = updated]
        /\ Goto(r, "log")
        /\ UNCHANGED <<companies, tokens, audit, holder>>

RemoveUser(r) ==
    /\ At(r, "RemoveUser", "write")
    /\ users' = [users EXCEPT ![req[r].id].isActive = FALSE]
    /\ Goto(r, "log")
    /\ UNCHANGED <<companies, tokens, audit, holder>>

\* The audit log is written after the change, by a statement of its own.
LogUser(r) ==
    /\ req[r] # None
    /\ req[r].stage = "log"
    /\ audit' = audit \cup {[companyId |-> req[r].companyId, entityId |-> req[r].id]}
    /\ End(r)
    /\ UNCHANGED <<users, companies, tokens, holder>>

-----------------------------------------------------------------------------
BeginRegister(r, companyId, email) ==
    Start(r, "Register", "check", None, companyId, None, Only(email))

RegisterCheckCompany(r) ==
    /\ At(r, "Register", "check")
    /\ IF req[r].companyId \in companies THEN End(r) ELSE Goto(r, "checkEmail")
    /\ UNCHANGED <<users, companies, tokens, audit, holder>>

RegisterCheckEmail(r) ==
    /\ At(r, "Register", "checkEmail")
    /\ IF EmailTaken(req[r].change.email) THEN End(r) ELSE Goto(r, "write")
    /\ UNCHANGED <<users, companies, tokens, audit, holder>>

\* company.create with its owner, both or none.
RegisterCompany(r) ==
    /\ At(r, "Register", "write")
    /\ req[r].companyId \notin companies
    /\ companies' = companies \cup {req[r].companyId}
    /\ \E id \in UserIds : InsertUser(id, NewUser(req[r].companyId, req[r].change.email, "OWNER"))
    /\ End(r)
    /\ UNCHANGED <<tokens, audit, holder>>

-----------------------------------------------------------------------------
BeginProvision(r, email) == Start(r, "Provision", "lock", None, None, None, Only(email))

\* Mutant: the bootstrap takes no lock.
LockNothing(r) ==
    /\ At(r, "Provision", "lock")
    /\ Goto(r, "check")
    /\ UNCHANGED <<users, companies, tokens, audit, holder>>

LockBootstrap(r) ==
    /\ At(r, "Provision", "lock")
    /\ holder = None
    /\ holder' = r
    /\ Goto(r, "check")
    /\ UNCHANGED <<users, companies, tokens, audit>>

IsSuperAdmin(id) == Exists(id) /\ users[id].role = "SUPER_ADMIN"

\* The count of platform administrators.
CheckBootstrap(r) ==
    /\ At(r, "Provision", "check")
    /\ IF \E id \in UserIds : IsSuperAdmin(id)
       THEN End(r) /\ Unlock(r)
       ELSE Goto(r, "checkEmail") /\ UNCHANGED holder
    /\ UNCHANGED <<users, companies, tokens, audit>>

\* The search for a user with the email.
CheckBootstrapEmail(r) ==
    /\ At(r, "Provision", "checkEmail")
    /\ IF EmailTaken(req[r].change.email)
       THEN End(r) /\ Unlock(r)
       ELSE Goto(r, "write") /\ UNCHANGED holder
    /\ UNCHANGED <<users, companies, tokens, audit>>

Provision(r) ==
    /\ At(r, "Provision", "write")
    /\ \E id \in UserIds :
          /\ InsertUser(id, NewUser(None, req[r].change.email, "SUPER_ADMIN"))
          /\ audit' = audit \cup {[companyId |-> None, entityId |-> id]}
    /\ End(r)
    /\ Unlock(r)
    /\ UNCHANGED <<companies, tokens>>

-----------------------------------------------------------------------------
BeginSeed(r, companyId, email) ==
    Start(r, "Seed", "find", None, companyId, None, Only(email))

\* The stage that follows tells whether the company was found.
SeedFindCompany(r) ==
    /\ At(r, "Seed", "find")
    /\ Goto(r, IF req[r].companyId \in companies THEN "findUser" ELSE "checkEmail")
    /\ UNCHANGED <<users, companies, tokens, audit, holder>>

\* An existing user is taken only if it is an owner of the company found.
Seedable(r, user) ==
    /\ req[r].stage = "findUser"
    /\ user.companyId = req[r].companyId
    /\ user.role = "OWNER"

SeedFindUser(r) ==
    /\ At(r, "Seed", "findUser") \/ At(r, "Seed", "checkEmail")
    /\ IF EmailTaken(req[r].change.email)
       THEN \E id \in UserIds :
               /\ HasEmail(id, req[r].change.email)
               /\ IF Seedable(r, users[id])
                  THEN req' = [req EXCEPT ![r].id = id, ![r].stage = "write"]
                  ELSE End(r)
       ELSE Goto(r, "write")
    /\ UNCHANGED <<users, companies, tokens, audit, holder>>

\* The company is created or updated; its owner is created, or activated again.
Seed(r) ==
    LET id == req[r].id
        companyId == req[r].companyId
    IN  /\ At(r, "Seed", "write")
        /\ companies' = companies \cup {companyId}
        /\ IF id = None
           THEN \E new \in UserIds : InsertUser(new, NewUser(companyId, req[r].change.email, "OWNER"))
           ELSE users' = [users EXCEPT ![id].isActive = TRUE]
        /\ End(r)
        /\ UNCHANGED <<tokens, audit, holder>>

-----------------------------------------------------------------------------
\* A statement fails, as one does that a unique key refuses: the request ends with
\* what it has written so far, a script with nothing.
Fail(r) ==
    /\ req[r] # None
    /\ End(r)
    /\ Unlock(r)
    /\ UNCHANGED <<users, companies, tokens, audit>>

BeginScript(r) ==
    \E email \in Emails :
        \/ BeginProvision(r, email)
        \/ \E companyId \in Companies :
              BeginRegister(r, companyId, email) \/ BeginSeed(r, companyId, email)

Step(r) ==
    \/ FindUser(r) \/ CheckEmail(r) \/ CreateUser(r) \/ UpdateUser(r) \/ RemoveUser(r)
    \/ LogUser(r)
    \/ RegisterCheckCompany(r) \/ RegisterCheckEmail(r) \/ RegisterCompany(r)
    \/ LockBootstrap(r) \/ CheckBootstrap(r) \/ CheckBootstrapEmail(r) \/ Provision(r)
    \/ SeedFindCompany(r) \/ SeedFindUser(r) \/ Seed(r)
    \/ Fail(r)

Next ==
    \/ \E id \in UserIds : Login(id)
    \/ \E r \in Requests : Begin(r) \/ BeginScript(r) \/ Step(r)

Spec == Init /\ [][Next]_vars

-----------------------------------------------------------------------------
TypeOK ==
    /\ users \in [UserIds -> User \cup {None}]
    /\ companies \subseteq Companies
    /\ tokens \subseteq UserIds
    /\ audit \subseteq AuditEntry
    /\ holder \in Requests \cup {None}
    /\ req \in [Requests -> Request \cup {None}]

\* A platform administrator belongs to no company, everybody else to a registered one.
UsersAreScoped ==
    \A id \in UserIds : Exists(id) =>
        IF IsSuperAdmin(id) THEN users[id].companyId = None
                            ELSE users[id].companyId \in companies

OneSuperAdmin == \A id, other \in UserIds : IsSuperAdmin(id) /\ IsSuperAdmin(other) => id = other

CompaniesHaveUsers ==
    \A companyId \in companies :
        \E id \in UserIds : Exists(id) /\ users[id].companyId = companyId

\* No request or script ever runs into the database's CHECK of roles and companies, a
\* registration or a seed that fails half way leaves no company without a user, and
\* two runs of the bootstrap at the same time do not both find the platform without
\* an administrator.
ScopesAreKept == UsersAreScoped /\ OneSuperAdmin /\ CompaniesHaveUsers

\* No request and no script touches a user of another company than its own.
TenantsAreSeparate ==
    [][\A r \in Requests, id \in UserIds :
          (/\ req[r] # None /\ req'[r] # req[r]
           /\ Exists(id) /\ users'[id] # users[id]) =>
              users[id].companyId = req[r].companyId]_vars

\* A user that updates itself stays active if it was, and its role stays or goes back
\* to the one the request read: what a change in between made of it is lost.
OwnAccountIsKept ==
    [][\A r \in Requests, id \in UserIds :
          (/\ req[r] # None /\ req'[r] # req[r] /\ req[r].actor = id
           /\ Exists(id) /\ users'[id] # users[id]) =>
              /\ users[id].isActive => users'[id].isActive
              /\ users'[id].role \in {users[id].role, req[r].seen}]_vars
=============================================================================
