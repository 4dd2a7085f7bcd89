--------------------------- MODULE AccountsProofs ---------------------------
(***************************************************************************)
(* Proofs about Accounts, for any number of requests, users, companies and *)
(* emails and any updates that are asked for.                              *)
(*                                                                         *)
(* The inductive invariant says what a request has established of the user *)
(* and the company it acts on: RequestOK.  It stays true while others move *)
(* because a user, once there, keeps its company, and a platform           *)
(* administrator appears only under the lock of the bootstrap.             *)
(***************************************************************************)
EXTENDS Accounts, TLAPS

\* A user who holds a token belongs to a registered company.
TokensOK == \A id \in tokens : Exists(id) /\ users[id].companyId \in companies

\* The user that a request has found is there, in the company of the request.
FoundOK(q) == q.id \in UserIds /\ Exists(q.id) /\ users[q.id].companyId = q.companyId

UserOps == {"CreateUser", "UpdateUser", "RemoveUser"}

\* Requests of the administrators of a company.
AdministrationOK(q) ==
    q.op \in UserOps =>
        /\ q.companyId \in companies
        /\ q.stage = "log" => q.id \in UserIds
        /\ q.op = "CreateUser" => q.change.email \in Emails /\ q.change.role \in Roles
        /\ q.op \in {"UpdateUser", "RemoveUser"} => q.id \in UserIds
        /\ q.op = "RemoveUser" => q.id # q.actor

\* The user that is to change has been found, and what its request may do to its
\* own account has been looked at.
ChangeOK(q) ==
    (q.op \in {"UpdateUser", "RemoveUser"} /\ q.stage # "find") =>
        /\ FoundOK(q)
        /\ q.id = q.actor =>
              /\ q.change.isActive # FALSE
              /\ q.change.role \in {None, q.seen}

\* Registrations and scripts have nobody's token.  The owner that a seed has found
\* is one of the company it is for.
ScriptOK(q) ==
    q.op \in {"Register", "Provision", "Seed"} =>
        /\ q.actor = None /\ q.stage # "log"
        /\ q.change.email \in Emails
        /\ q.op # "Provision" => q.companyId \in Companies
        /\ (q.op = "Seed" /\ q.id # None) => FoundOK(q)

\* Between the check and the write the bootstrap is locked, and nobody else makes
\* a platform administrator.
BootstrapOK(r) ==
    (req[r].op = "Provision" /\ req[r].stage \in {"check", "checkEmail", "write"}) =>
        /\ holder = r
        /\ req[r].stage # "check" => \A id \in UserIds : ~IsSuperAdmin(id)

RequestOK(r) ==
    req[r] # None =>
        /\ AdministrationOK(req[r])
        /\ ChangeOK(req[r])
        /\ ScriptOK(req[r])
        /\ BootstrapOK(r)

RowsOK == UsersAreScoped /\ OneSuperAdmin /\ CompaniesHaveUsers

Inv == TypeOK /\ RowsOK /\ TokensOK /\ \A r \in Requests : RequestOK(r)

\* What every step leaves of users, companies and tokens.
Kept ==
    /\ \A id \in UserIds :
          Exists(id) => Exists(id)' /\ users'[id].companyId = users[id].companyId
    /\ companies \subseteq companies'

\* Only the holder of the lock makes a platform administrator or gives it back.
LockKept(r) ==
    \A other \in Requests \ {r} :
        holder = other =>
            /\ holder' = other
            /\ \A id \in UserIds : IsSuperAdmin(id)' => IsSuperAdmin(id)

-----------------------------------------------------------------------------
LEMMA InitInv == Init => Inv
<1>1. SUFFICES ASSUME Init PROVE Inv
  OBVIOUS
<1>2. \A id \in UserIds : ~Exists(id)
  BY <1>1 DEF Init, Exists
<1>3. TypeOK
  BY <1>1 DEF Init, TypeOK
<1>4. RowsOK
  BY <1>1, <1>2 DEF Init, RowsOK, UsersAreScoped, OneSuperAdmin, CompaniesHaveUsers,
                    IsSuperAdmin
<1>5. TokensOK
  BY <1>1 DEF Init, TokensOK
<1>6. \A r \in Requests : RequestOK(r)
  BY <1>1 DEF Init, RequestOK
<1> QED
  BY <1>3, <1>4, <1>5, <1>6 DEF Inv

-----------------------------------------------------------------------------
\* A request that another one's step leaves alone still knows what it knew.
LEMMA OtherStays ==
    ASSUME Inv, NEW r \in Requests, Kept, LockKept(r),
           NEW other \in Requests \ {r}, req'[other] = req[other]
    PROVE  RequestOK(other)'
<1>1. RequestOK(other)
  BY DEF Inv
<1>2. SUFFICES ASSUME req[other] # None PROVE RequestOK(other)'
  BY DEF RequestOK
<1> DEFINE q == req[other]
<1>3. req[other]' = req[other]
  OBVIOUS
<1>4. FoundOK(req[other]) => FoundOK(req[other])'
  BY <1>3 DEF FoundOK, Kept, Exists
<1>5. AdministrationOK(req[other])'
  BY <1>1, <1>2, <1>3 DEF RequestOK, AdministrationOK, Kept
<1>6. ChangeOK(req[other])'
  BY <1>1, <1>2, <1>3, <1>4 DEF RequestOK, ChangeOK
<1>7. ScriptOK(req[other])'
  BY <1>1, <1>2, <1>3, <1>4 DEF RequestOK, ScriptOK
<1>8. BootstrapOK(other)'
  BY <1>1, <1>2, <1>3 DEF RequestOK, BootstrapOK, LockKept
<1> QED
  BY <1>3, <1>5, <1>6, <1>7, <1>8 DEF RequestOK

LEMMA TokensStay ==
    ASSUME Inv, Kept, tokens' = tokens
    PROVE  TokensOK'
BY DEF Inv, TypeOK, TokensOK, Kept

\* A user that is written, new or changed, leaves the users in order if it is of its
\* company, has an email of its own and is no second platform administrator.
LEMMA WriteUser ==
    ASSUME Inv, NEW id \in UserIds, NEW user \in User,
           users' = [users EXCEPT ![id] = user],
           Exists(id) => user.companyId = users[id].companyId,
           companies \subseteq companies', companies' \subseteq Companies,
           companies' \subseteq companies \cup {user.companyId},
           IF user.role = "SUPER_ADMIN"
           THEN /\ user.companyId = None
                /\ \A other \in UserIds \ {id} : ~IsSuperAdmin(other)
           ELSE user.companyId \in companies'
    PROVE  Kept /\ RowsOK' /\ users' \in [UserIds -> User \cup {None}]
<1> USE AccountsAssumption
<1>1. users \in [UserIds -> User \cup {None}]
  BY DEF Inv, TypeOK
<1>2. users' \in [UserIds -> User \cup {None}]
  BY <1>1
<1>3. /\ users'[id] = user /\ user # None
      /\ \A other \in UserIds \ {id} : users'[other] = users[other]
  BY <1>1
<1>4. Kept
  BY <1>3 DEF Kept, Exists
<1>5. UsersAreScoped'
  <2> SUFFICES ASSUME NEW other \in UserIds, Exists(other)'
               PROVE  IF IsSuperAdmin(other)' THEN users'[other].companyId = None
                                              ELSE users'[other].companyId \in companies'
    BY DEF UsersAreScoped
  <2>1. CASE other = id
    BY <2>1, <1>3 DEF IsSuperAdmin, Exists
  <2>2. CASE other # id
    <3>1. /\ users'[other] = users[other] /\ Exists(other)
          /\ IsSuperAdmin(other)' <=> IsSuperAdmin(other)
      BY <2>2, <1>3 DEF IsSuperAdmin, Exists
    <3> QED
      BY <3>1 DEF Inv, RowsOK, UsersAreScoped
  <2> QED
    BY <2>1, <2>2
<1>6. OneSuperAdmin'
  <2>1. \A other \in UserIds \ {id} : IsSuperAdmin(other)' <=> IsSuperAdmin(other)
    BY <1>3 DEF IsSuperAdmin, Exists
  <2>2. IsSuperAdmin(id)' => \A other \in UserIds \ {id} : ~IsSuperAdmin(other)
    BY <1>3 DEF IsSuperAdmin
  <2>3. \A one, two \in UserIds : IsSuperAdmin(one) /\ IsSuperAdmin(two) => one = two
    BY DEF Inv, RowsOK, OneSuperAdmin
  <2> QED
    BY <2>1, <2>2, <2>3 DEF OneSuperAdmin
<1>7. CompaniesHaveUsers'
  <2> SUFFICES ASSUME NEW companyId \in companies'
               PROVE  \E other \in UserIds : Exists(other)' /\ users'[other].companyId = companyId
    BY DEF CompaniesHaveUsers
  <2>1. CASE companyId = user.companyId
    BY <2>1, <1>3 DEF Exists
  <2>2. CASE companyId # user.companyId
    <3>1. PICK other \in UserIds : Exists(other) /\ users[other].companyId = companyId
      BY <2>2 DEF Inv, RowsOK, CompaniesHaveUsers
    <3> QED
      BY <3>1, <1>4 DEF Kept
  <2> QED
    BY <2>1, <2>2
<1> QED
  BY <1>2, <1>4, <1>5, <1>6, <1>7 DEF RowsOK

\* A step that writes no user and no company.
LEMMA NothingWritten ==
    ASSUME Inv, UNCHANGED <<users, companies>>
    PROVE  Kept /\ RowsOK' /\ \A id \in UserIds : IsSuperAdmin(id)' <=> IsSuperAdmin(id)
BY DEF Inv, Kept, RowsOK, UsersAreScoped, OneSuperAdmin, CompaniesHaveUsers,
       Exists, IsSuperAdmin

\* The step of a request, put together from what it does to the rows, to itself and
\* to the lock.
LEMMA StepByParts ==
    ASSUME Inv, NEW r \in Requests, Kept, RowsOK', LockKept(r), TypeOK', tokens' = tokens,
           \A other \in Requests \ {r} : req'[other] = req[other],
           RequestOK(r)'
    PROVE  Inv'
<1>1. \A other \in Requests \ {r} : RequestOK(other)'
  BY OtherStays
<1>2. TokensOK'
  BY TokensStay
<1> QED
  BY <1>1, <1>2 DEF Inv

-----------------------------------------------------------------------------
LEMMA Stepping ==
    ASSUME TypeOK, NEW r \in Requests, req[r] # None, NEW stage \in Stages
    PROVE  /\ req[r] \in Request
           /\ [req[r] EXCEPT !.stage = stage] \in Request
BY DEF TypeOK, Request

\* A request moves on to another stage, knowing what it did; nothing is written.
LEMMA QuietStep ==
    ASSUME Inv, NEW r \in Requests, NEW q \in Request \cup {None},
           req' = [req EXCEPT ![r] = q],
           UNCHANGED <<users, companies, tokens>>,
           audit' \subseteq AuditEntry, holder' \in Requests \cup {None},
           \A other \in Requests \ {r} : holder = other => holder' = other,
           RequestOK(r)'
    PROVE  Inv'
<1>1. /\ Kept
      /\ RowsOK'
      /\ \A id \in UserIds : IsSuperAdmin(id)' <=> IsSuperAdmin(id)
  BY NothingWritten
<1>2. LockKept(r)
  BY <1>1 DEF LockKept
<1>3. TypeOK'
  BY DEF Inv, TypeOK
<1>4. \A other \in Requests \ {r} : req'[other] = req[other]
  BY DEF Inv, TypeOK
<1> QED
  BY <1>1, <1>2, <1>3, <1>4, StepByParts

\* A request that is over knows nothing.
LEMMA EndStep ==
    ASSUME Inv, NEW r \in Requests, End(r), UNCHANGED <<users, companies, tokens, audit>>,
           holder' = holder \/ Unlock(r)
    PROVE  Inv'
<1> USE AccountsAssumption
<1>1. req' = [req EXCEPT ![r] = None] /\ req'[r] = None
  BY DEF End, Inv, TypeOK
<1>2. RequestOK(r)'
  BY <1>1 DEF RequestOK
<1>3. /\ audit' \subseteq AuditEntry
      /\ holder' \in Requests \cup {None}
      /\ \A other \in Requests \ {r} : holder = other => holder' = other
  BY DEF Inv, TypeOK, Unlock
<1> QED
  BY <1>1, <1>2, <1>3, QuietStep

LEMMA LoginStep ==
    ASSUME Inv, NEW id \in UserIds, Login(id)
    PROVE  Inv'
<1> USE AccountsAssumption
<1>1. /\ Kept
      /\ RowsOK'
      /\ \A other \in UserIds : IsSuperAdmin(other)' <=> IsSuperAdmin(other)
  BY NothingWritten DEF Login
<1>2. TypeOK'
  BY DEF Inv, TypeOK, Login
<1>3. users[id].companyId \in companies
  BY DEF Inv, RowsOK, UsersAreScoped, Login, IsSuperAdmin, Administrators
<1>4. TokensOK'
  BY <1>3 DEF Inv, TypeOK, TokensOK, Login, Exists
<1>5. \A r \in Requests : RequestOK(r)'
  BY DEF Inv, RequestOK, AdministrationOK, ChangeOK, FoundOK, ScriptOK, BootstrapOK, Login,
         Exists, IsSuperAdmin
<1> QED
  BY <1>1, <1>2, <1>4, <1>5 DEF Inv

LEMMA BeginStep ==
    ASSUME Inv, NEW r \in Requests, Begin(r)
    PROVE  Inv'
<1> USE AccountsAssumption
<1>1. PICK actor \in tokens :
         \/ \E email \in Emails, role \in Roles : BeginCreateUser(r, actor, email, role)
         \/ \E id \in UserIds, change \in Changes : BeginUpdateUser(r, actor, id, change)
         \/ \E id \in UserIds : BeginRemoveUser(r, actor, id)
  BY DEF Begin
<1>2. actor \in UserIds /\ Scope(actor) \in companies /\ Scope(actor) \in Companies
  BY DEF Inv, TypeOK, TokensOK, Scope
<1>3. \A q \in Request : req' = [req EXCEPT ![r] = q]
                        /\ UNCHANGED <<users, companies, tokens, audit, holder>>
                        /\ AdministrationOK(q) /\ q.stage \in {"check", "find"} /\ q.op \in UserOps
                        /\ (q.op # "CreateUser" => q.stage = "find") => Inv'
  <2> SUFFICES ASSUME NEW q \in Request, req' = [req EXCEPT ![r] = q],
                      UNCHANGED <<users, companies, tokens, audit, holder>>,
                      AdministrationOK(q), q.op \in UserOps,
                      q.op # "CreateUser" => q.stage = "find"
               PROVE  Inv'
    OBVIOUS
  <2>1. req'[r] = q
    BY DEF Inv, TypeOK
  <2>2. AdministrationOK(q)'
    BY DEF AdministrationOK
  <2>3. ChangeOK(q)' /\ ScriptOK(q)'
    BY DEF ChangeOK, ScriptOK, UserOps
  <2>4. RequestOK(r)'
    BY <2>1, <2>2, <2>3 DEF RequestOK, BootstrapOK, UserOps
  <2> QED
    BY <2>4, QuietStep DEF Inv, TypeOK
<1>4. CASE \E email \in Emails, role \in Roles : BeginCreateUser(r, actor, email, role)
  <2> PICK email \in Emails, role \in Roles : BeginCreateUser(r, actor, email, role)
    BY <1>4
  <2> DEFINE q == [op |-> "CreateUser", stage |-> "check", actor |-> actor,
                   companyId |-> Scope(actor), id |-> None, seen |-> None,
                   change |-> [email |-> email, role |-> role, isActive |-> None]]
  <2>1. q \in Request
    BY <1>2 DEF Request, Change, Operations, Stages
  <2>2. AdministrationOK(q)
    BY <1>2 DEF AdministrationOK
  <2>3. /\ req' = [req EXCEPT ![r] = q]
        /\ UNCHANGED <<users, companies, tokens, audit, holder>>
    BY DEF BeginCreateUser, Start
  <2> HIDE DEF q
  <2>4. q.op = "CreateUser" /\ q.stage = "check"
    BY DEF q
  <2> QED
    BY <1>3, <2>1, <2>2, <2>3, <2>4 DEF UserOps
<1>5. CASE \E id \in UserIds, change \in Changes : BeginUpdateUser(r, actor, id, change)
  <2> PICK id \in UserIds, change \in Changes : BeginUpdateUser(r, actor, id, change)
    BY <1>5
  <2> DEFINE q == [op |-> "UpdateUser", stage |-> "find", actor |-> actor,
                   companyId |-> Scope(actor), id |-> id, seen |-> None, change |-> change]
  <2>1. q \in Request
    BY <1>2 DEF Request, Operations, Stages
  <2>2. AdministrationOK(q)
    BY <1>2 DEF AdministrationOK
  <2>3. /\ req' = [req EXCEPT ![r] = q]
        /\ UNCHANGED <<users, companies, tokens, audit, holder>>
    BY DEF BeginUpdateUser, Start
  <2>4. q.op = "UpdateUser" /\ q.stage = "find"
    OBVIOUS
  <2> HIDE DEF q
  <2> QED
    BY <1>3, <2>1, <2>2, <2>3, <2>4 DEF UserOps
<1>6. CASE \E id \in UserIds : BeginRemoveUser(r, actor, id)
  <2> PICK id \in UserIds : BeginRemoveUser(r, actor, id)
    BY <1>6
  <2> DEFINE q == [op |-> "RemoveUser", stage |-> "find", actor |-> actor,
                   companyId |-> Scope(actor), id |-> id, seen |-> None, change |-> Only(None)]
  <2>1. q \in Request
    BY <1>2 DEF Request, Change, Only, Operations, Stages
  <2>2. id # actor
    BY DEF BeginRemoveUser
  <2>3. AdministrationOK(q)
    BY <1>2, <2>2 DEF AdministrationOK
  <2>4. /\ req' = [req EXCEPT ![r] = q]
        /\ UNCHANGED <<users, companies, tokens, audit, holder>>
    BY DEF BeginRemoveUser, Start
  <2>5. q.op = "RemoveUser" /\ q.stage = "find"
    OBVIOUS
  <2> HIDE DEF q
  <2> QED
    BY <1>3, <2>1, <2>3, <2>4, <2>5 DEF UserOps
<1> QED
  BY <1>1, <1>4, <1>5, <1>6

LEMMA BeginScriptStep ==
    ASSUME Inv, NEW r \in Requests, BeginScript(r)
    PROVE  Inv'
<1> USE AccountsAssumption
<1>1. \A q \in Request : req' = [req EXCEPT ![r] = q]
                        /\ UNCHANGED <<users, companies, tokens, audit, holder>>
                        /\ ScriptOK(q) /\ q.op \in {"Register", "Provision", "Seed"}
                        /\ (q.op = "Provision" => q.stage = "lock") => Inv'
  <2> SUFFICES ASSUME NEW q \in Request, req' = [req EXCEPT ![r] = q],
                      UNCHANGED <<users, companies, tokens, audit, holder>>,
                      ScriptOK(q), q.op \in {"Register", "Provision", "Seed"},
                      q.op = "Provision" => q.stage = "lock"
               PROVE  Inv'
    OBVIOUS
  <2>1. req'[r] = q
    BY DEF Inv, TypeOK
  <2>2. ScriptOK(q)'
    BY DEF ScriptOK, FoundOK, Exists
  <2>3. AdministrationOK(q)' /\ ChangeOK(q)'
    BY DEF AdministrationOK, ChangeOK, UserOps
  <2>4. RequestOK(r)'
    BY <2>1, <2>2, <2>3 DEF RequestOK, BootstrapOK
  <2> QED
    BY <2>4, QuietStep DEF Inv, TypeOK
<1>2. PICK email \in Emails :
         \/ BeginProvision(r, email)
         \/ \E companyId \in Companies :
               BeginRegister(r, companyId, email) \/ BeginSeed(r, companyId, email)
  BY DEF BeginScript
<1> DEFINE new(op, stage, companyId) ==
             [op |-> op, stage |-> stage, actor |-> None, companyId |-> companyId,
              id |-> None, seen |-> None, change |-> Only(email)]
<1>3. \A companyId \in Companies \cup {None}, stage \in Stages, op \in Operations :
         new(op, stage, companyId) \in Request
  BY DEF Request, Change, Only
<1>4. CASE BeginProvision(r, email)
  <2>1. /\ req' = [req EXCEPT ![r] = new("Provision", "lock", None)]
        /\ UNCHANGED <<users, companies, tokens, audit, holder>>
    BY <1>4 DEF BeginProvision, Start
  <2>2. new("Provision", "lock", None) \in Request
    BY <1>3 DEF Stages, Operations
  <2>3. ScriptOK(new("Provision", "lock", None))
    BY DEF ScriptOK, Only
  <2> QED
    BY <1>1, <2>1, <2>2, <2>3
<1>5. CASE \E companyId \in Companies : BeginRegister(r, companyId, email)
  <2> PICK companyId \in Companies : BeginRegister(r, companyId, email)
    BY <1>5
  <2>1. /\ req' = [req EXCEPT ![r] = new("Register", "check", companyId)]
        /\ UNCHANGED <<users, companies, tokens, audit, holder>>
    BY DEF BeginRegister, Start
  <2>2. new("Register", "check", companyId) \in Request
    BY <1>3 DEF Stages, Operations
  <2>3. ScriptOK(new("Register", "check", companyId))
    BY DEF ScriptOK, Only
  <2> QED
    BY <1>1, <2>1, <2>2, <2>3
<1>6. CASE \E companyId \in Companies : BeginSeed(r, companyId, email)
  <2> PICK companyId \in Companies : BeginSeed(r, companyId, email)
    BY <1>6
  <2>1. /\ req' = [req EXCEPT ![r] = new("Seed", "find", companyId)]
        /\ UNCHANGED <<users, companies, tokens, audit, holder>>
    BY DEF BeginSeed, Start
  <2>2. new("Seed", "find", companyId) \in Request
    BY <1>3 DEF Stages, Operations
  <2>3. ScriptOK(new("Seed", "find", companyId))
    BY DEF ScriptOK, Only
  <2> QED
    BY <1>1, <2>1, <2>2, <2>3
<1> QED
  BY <1>2, <1>4, <1>5, <1>6

\* A request moves on; what it knew of its user it keeps.
LEMMA GotoStep ==
    ASSUME Inv, NEW r \in Requests, req[r] # None, NEW stage \in Stages,
           Goto(r, stage), UNCHANGED <<users, companies, tokens, audit, holder>>,
           req[r].op # "Provision", stage # "log",
           req[r].op \in UserOps => req[r].stage # "find"
    PROVE  Inv'
<1>1. req[r] \in Request
  BY Stepping DEF Inv
<1> PICK q \in Request : q = [req[r] EXCEPT !.stage = stage]
  BY Stepping DEF Inv
<1>2. req' = [req EXCEPT ![r] = q] /\ req'[r] = q
  BY DEF Goto, Inv, TypeOK
<1>3. q.stage = stage /\ q.op = req[r].op /\ q.actor = req[r].actor /\ q.id = req[r].id
      /\ q.companyId = req[r].companyId /\ q.change = req[r].change /\ q.seen = req[r].seen
  BY <1>1 DEF Request
<1>4. RequestOK(r)
  BY DEF Inv
<1>5. AdministrationOK(q)'
  BY <1>2, <1>3, <1>4 DEF RequestOK, AdministrationOK
<1>6. ChangeOK(q)'
  BY <1>2, <1>3, <1>4 DEF RequestOK, ChangeOK, FoundOK, Exists, UserOps
<1>7. ScriptOK(q)'
  BY <1>2, <1>3, <1>4 DEF RequestOK, ScriptOK, FoundOK, Exists
<1>8. RequestOK(r)'
  BY <1>2, <1>3, <1>5, <1>6, <1>7 DEF RequestOK, BootstrapOK
<1> QED
  BY <1>1, <1>2, <1>8, QuietStep DEF Inv, TypeOK

LEMMA FindUserStep ==
    ASSUME Inv, NEW r \in Requests, FindUser(r)
    PROVE  Inv'
<1> USE AccountsAssumption
<1> DEFINE user == users[req[r].id]
           found == [req[r] EXCEPT !.seen = user.role,
                                   !.stage = IF req[r].change.email \notin {None, user.email}
                                             THEN "checkEmail" ELSE "write"]
<1>1. /\ req[r] # None
      /\ req[r].op \in {"UpdateUser", "RemoveUser"}
      /\ req[r] \in Request
      /\ RequestOK(r)
      /\ UNCHANGED <<users, companies, tokens, audit, holder>>
  BY DEF FindUser, At, Inv, TypeOK
<1>2. req[r].id \in UserIds /\ req[r].companyId \in companies /\ companies \subseteq Companies
  BY <1>1 DEF RequestOK, AdministrationOK, UserOps, Inv, TypeOK
<1>3. CASE End(r)
  BY <1>1, <1>3, EndStep
<1>4. CASE /\ Findable(r)
           /\ OwnChangeAllowed(r, user)
           /\ req' = [req EXCEPT ![r] = found]
  <2>1. FoundOK(req[r]) /\ user \in User
    BY <1>2, <1>4 DEF Findable, FoundOK, Exists, Inv, TypeOK
  <2>2. user.role \in TENANT_USER_ROLES
    <3>1. ~IsSuperAdmin(req[r].id)
      BY <1>2, <2>1 DEF FoundOK, Inv, RowsOK, UsersAreScoped
    <3> QED
      BY <2>1, <3>1 DEF IsSuperAdmin, FoundOK, User
  <2>3. found \in Request
    BY <1>1, <2>2 DEF Request, Stages
  <2> PICK q \in Request : q = found
    BY <2>3
  <2>4. /\ q.op = req[r].op /\ q.actor = req[r].actor /\ q.id = req[r].id
        /\ q.companyId = req[r].companyId /\ q.change = req[r].change
        /\ q.seen = user.role /\ q.stage \in {"checkEmail", "write"}
    BY <1>1 DEF Request
  <2>5. req'[r] = q
    BY <1>4 DEF Inv, TypeOK
  <2>6. AdministrationOK(q)'
    BY <1>1, <2>4, <2>5 DEF RequestOK, AdministrationOK
  <2>7. ChangeOK(q)'
    BY <1>1, <1>4, <2>1, <2>4, <2>5 DEF ChangeOK, FoundOK, OwnChangeAllowed, Exists
  <2>8. RequestOK(r)'
    BY <1>1, <2>4, <2>5, <2>6, <2>7 DEF RequestOK, ScriptOK, BootstrapOK
  <2>9. req' = [req EXCEPT ![r] = q]
    BY <1>4
  <2> QED
    BY <1>1, <2>3, <2>8, <2>9, QuietStep DEF Inv, TypeOK
<1>5. End(r) \/ (Findable(r) /\ OwnChangeAllowed(r, user) /\ req' = [req EXCEPT ![r] = found])
  BY DEF FindUser
<1> QED
  BY <1>3, <1>4, <1>5

LEMMA CheckEmailStep ==
    ASSUME Inv, NEW r \in Requests, CheckEmail(r)
    PROVE  Inv'
<1>1. CASE End(r)
  BY <1>1, EndStep DEF CheckEmail
<1>2. CASE Goto(r, "write")
  BY <1>2, GotoStep DEF CheckEmail, At, UserOps, Stages
<1> QED
  BY <1>1, <1>2 DEF CheckEmail

\* A request writes a user.
LEMMA WritingStep ==
    ASSUME Inv, NEW r \in Requests, NEW id \in UserIds, NEW user \in User,
           NEW q \in Request \cup {None}, req' = [req EXCEPT ![r] = q],
           users' = [users EXCEPT ![id] = user],
           Exists(id) => user.companyId = users[id].companyId,
           companies \subseteq companies', companies' \subseteq Companies,
           companies' \subseteq companies \cup {user.companyId},
           IF user.role = "SUPER_ADMIN"
           THEN /\ user.companyId = None
                /\ \A other \in UserIds \ {id} : ~IsSuperAdmin(other)
                /\ IsSuperAdmin(id) \/ holder = r
           ELSE user.companyId \in companies',
           tokens' = tokens, audit' \subseteq AuditEntry, holder' = holder \/ Unlock(r),
           RequestOK(r)'
    PROVE  Inv' /\ Kept
<1> USE AccountsAssumption
<1>1. Kept /\ RowsOK' /\ users' \in [UserIds -> User \cup {None}]
  BY WriteUser
<1>2. TypeOK'
  BY <1>1 DEF Inv, TypeOK, Unlock
<1>3. \A other \in Requests \ {r} : req'[other] = req[other]
  BY DEF Inv, TypeOK
<1>4. users \in [UserIds -> User \cup {None}] /\ users'[id] = user
  BY DEF Inv, TypeOK
<1>5. holder # r => \A other \in UserIds : IsSuperAdmin(other)' => IsSuperAdmin(other)
  BY <1>4 DEF IsSuperAdmin, Exists
<1>6. LockKept(r)
  BY <1>5 DEF LockKept, Unlock
<1> QED
  BY <1>1, <1>2, <1>3, <1>6, StepByParts

LEMMA NewUserTyped ==
    ASSUME NEW companyId \in Companies \cup {None}, NEW email \in Emails,
           NEW role \in TENANT_USER_ROLES \cup {"SUPER_ADMIN"}
    PROVE  /\ NewUser(companyId, email, role) \in User
           /\ NewUser(companyId, email, role).companyId = companyId
           /\ NewUser(companyId, email, role).email = email
           /\ NewUser(companyId, email, role).role = role
BY DEF NewUser, User

LEMMA CreateUserStep ==
    ASSUME Inv, NEW r \in Requests, CreateUser(r)
    PROVE  Inv'
<1> USE AccountsAssumption
<1>1. /\ req[r] # None /\ req[r].op = "CreateUser" /\ req[r] \in Request /\ RequestOK(r)
      /\ UNCHANGED <<companies, tokens, audit, holder>>
  BY DEF CreateUser, At, Inv, TypeOK
<1>2. /\ req[r].companyId \in companies /\ companies \subseteq Companies
      /\ req[r].change.email \in Emails /\ req[r].change.role \in TENANT_USER_ROLES
  BY <1>1 DEF RequestOK, AdministrationOK, UserOps, Inv, TypeOK
<1> PICK user \in User : user = NewUser(req[r].companyId, req[r].change.email, req[r].change.role)
  BY <1>2, NewUserTyped
<1>3. /\ user.companyId = req[r].companyId
      /\ user.role # "SUPER_ADMIN"
  BY <1>2, NewUserTyped DEF TENANT_USER_ROLES
<1>4. PICK id \in UserIds : /\ InsertUser(id, user)
                            /\ req' = [req EXCEPT ![r].id = id, ![r].stage = "log"]
  BY DEF CreateUser
<1>5. [req[r] EXCEPT !.id = id, !.stage = "log"] \in Request
  BY <1>1 DEF Request, Stages
<1> PICK q \in Request : q = [req[r] EXCEPT !.id = id, !.stage = "log"]
  BY <1>5
<1>6. /\ q.op = "CreateUser" /\ q.id = id
      /\ q.companyId = req[r].companyId /\ q.change = req[r].change
  BY <1>1 DEF Request
<1>7. req' = [req EXCEPT ![r] = q] /\ req'[r] = q
  BY <1>4 DEF Inv, TypeOK
<1>8. AdministrationOK(q)'
  BY <1>1, <1>6 DEF RequestOK, AdministrationOK, UserOps
<1>10. RequestOK(r)'
  BY <1>6, <1>7, <1>8 DEF RequestOK, ChangeOK, ScriptOK, BootstrapOK
<1>9. /\ users' = [users EXCEPT ![id] = user] /\ ~Exists(id)
  BY <1>4 DEF InsertUser
<1> QED
  BY <1>1, <1>2, <1>3, <1>7, <1>9, <1>10, WritingStep DEF Inv, TypeOK

\* A user of a company is changed, and its request goes on to the audit log.
LEMMA ChangeUserStep ==
    ASSUME Inv, NEW r \in Requests, req[r] # None, req[r].op \in {"UpdateUser", "RemoveUser"},
           req[r].stage = "write", NEW user \in User,
           users' = [users EXCEPT ![req[r].id] = user],
           user.companyId = users[req[r].id].companyId, user.role # "SUPER_ADMIN",
           Goto(r, "log"), UNCHANGED <<companies, tokens, audit, holder>>
    PROVE  Inv'
<1>1. req[r] \in Request /\ RequestOK(r) /\ FoundOK(req[r]) /\ req[r].companyId \in companies
  BY DEF Inv, TypeOK, RequestOK, ChangeOK, AdministrationOK, UserOps
<1> PICK q \in Request : q = [req[r] EXCEPT !.stage = "log"]
  BY Stepping DEF Inv, Stages
<1>2. req' = [req EXCEPT ![r] = q] /\ req'[r] = q
  BY DEF Goto, Inv, TypeOK
<1>3. q.stage = "log" /\ q.op = req[r].op /\ q.actor = req[r].actor /\ q.id = req[r].id
      /\ q.companyId = req[r].companyId /\ q.change = req[r].change /\ q.seen = req[r].seen
  BY <1>1 DEF Request
<1>4. AdministrationOK(q)'
  BY <1>1, <1>3 DEF RequestOK, AdministrationOK, UserOps
<1>5. FoundOK(q)'
  <2>1. users'[q.id] = user /\ user # None
    BY <1>1, <1>3, AccountsAssumption DEF FoundOK, Inv, TypeOK
  <2> QED
    BY <1>1, <1>3, <2>1 DEF FoundOK, Exists
<1>6. ChangeOK(q)'
  BY <1>1, <1>3, <1>5 DEF RequestOK, ChangeOK
<1>7. RequestOK(r)'
  BY <1>2, <1>3, <1>4, <1>6 DEF RequestOK, ScriptOK, BootstrapOK
<1>8. companies \subseteq Companies /\ audit \subseteq AuditEntry /\ req[r].id \in UserIds
      /\ user.companyId \in companies
  BY <1>1 DEF Inv, TypeOK, FoundOK
<1> QED
  BY <1>2, <1>7, <1>8, WritingStep

\* The user of a company is no platform administrator.
LEMMA FoundIsTenant ==
    ASSUME Inv, NEW q \in Request, q.companyId \in Companies, FoundOK(q)
    PROVE  users[q.id] \in User /\ users[q.id].role # "SUPER_ADMIN"
BY AccountsAssumption DEF Inv, TypeOK, RowsOK, UsersAreScoped, IsSuperAdmin, FoundOK, Exists

LEMMA UpdateUserStep ==
    ASSUME Inv, NEW r \in Requests, UpdateUser(r)
    PROVE  Inv'
<1> USE AccountsAssumption
<1>1. /\ req[r] # None /\ req[r].op = "UpdateUser" /\ req[r].stage = "write"
      /\ req[r] \in Request /\ RequestOK(r)
  BY DEF UpdateUser, At, Inv, TypeOK
<1>2. /\ FoundOK(req[r]) /\ req[r].companyId \in Companies
      /\ req[r].change \in Change
  BY <1>1 DEF Inv, TypeOK, RequestOK, ChangeOK, AdministrationOK, UserOps, Request
<1>3. users[req[r].id] \in User /\ users[req[r].id].role \in TENANT_USER_ROLES
  BY <1>1, <1>2, FoundIsTenant DEF User
<1>4. /\ Updated(users[req[r].id], req[r].change) \in User
      /\ Updated(users[req[r].id], req[r].change).companyId = users[req[r].id].companyId
      /\ Updated(users[req[r].id], req[r].change).role \in TENANT_USER_ROLES
  BY <1>2, <1>3 DEF Updated, Given, User, Change, TENANT_USER_ROLES
<1> PICK user \in User : user = Updated(users[req[r].id], req[r].change)
  BY <1>4
<1>5. user.companyId = users[req[r].id].companyId /\ user.role # "SUPER_ADMIN"
  BY <1>4 DEF TENANT_USER_ROLES
<1>6. /\ users' = [users EXCEPT ![req[r].id] = user]
      /\ Goto(r, "log") /\ UNCHANGED <<companies, tokens, audit, holder>>
  BY DEF UpdateUser
<1> QED
  BY <1>1, <1>5, <1>6, ChangeUserStep

\* Activating or deactivating a user changes nothing else of it.
LEMMA SetActive ==
    ASSUME Inv, NEW id \in UserIds, Exists(id), NEW active \in BOOLEAN,
           users' = [users EXCEPT ![id].isActive = active]
    PROVE  \E user \in User :
              /\ users' = [users EXCEPT ![id] = user]
              /\ user.companyId = users[id].companyId
              /\ user.role = users[id].role
              /\ user.isActive = active
<1>1. users[id] \in User
  BY DEF Inv, TypeOK, Exists
<1>2. [users[id] EXCEPT !.isActive = active] \in User
  BY <1>1 DEF User
<1> PICK user \in User : user = [users[id] EXCEPT !.isActive = active]
  BY <1>2
<1>3. users' = [users EXCEPT ![id] = user]
  OBVIOUS
<1> QED
  BY <1>1, <1>3 DEF User

LEMMA RemoveUserStep ==
    ASSUME Inv, NEW r \in Requests, RemoveUser(r)
    PROVE  Inv'
<1>1. /\ req[r] # None /\ req[r].op = "RemoveUser" /\ req[r].stage = "write"
      /\ req[r] \in Request /\ RequestOK(r)
  BY DEF RemoveUser, At, Inv, TypeOK
<1>2. FoundOK(req[r]) /\ req[r].companyId \in Companies
  BY <1>1 DEF Inv, TypeOK, RequestOK, ChangeOK, AdministrationOK, UserOps
<1>3. /\ Exists(req[r].id) /\ req[r].id \in UserIds
      /\ users[req[r].id].role # "SUPER_ADMIN"
  BY <1>1, <1>2, FoundIsTenant DEF FoundOK
<1>4. /\ users' = [users EXCEPT ![req[r].id].isActive = FALSE]
      /\ Goto(r, "log") /\ UNCHANGED <<companies, tokens, audit, holder>>
  BY DEF RemoveUser
<1>5. PICK user \in User : /\ users' = [users EXCEPT ![req[r].id] = user]
                           /\ user.companyId = users[req[r].id].companyId
                           /\ user.role = users[req[r].id].role
  BY <1>3, <1>4, SetActive
<1> QED
  BY <1>1, <1>3, <1>4, <1>5, ChangeUserStep

LEMMA LogUserStep ==
    ASSUME Inv, NEW r \in Requests, LogUser(r)
    PROVE  Inv'
<1> USE AccountsAssumption
<1>1. req[r] # None /\ req[r].stage = "log" /\ req[r] \in Request /\ RequestOK(r)
  BY DEF LogUser, Inv, TypeOK
<1>2. req' = [req EXCEPT ![r] = None] /\ req'[r] = None
  BY DEF LogUser, End, Inv, TypeOK
<1>3. CASE req[r].id \in UserIds
  <2>1. audit' \subseteq AuditEntry
    BY <1>1, <1>3 DEF LogUser, AuditEntry, Request, Inv, TypeOK
  <2>2. RequestOK(r)'
    BY <1>2 DEF RequestOK
  <2> QED
    BY <1>2, <2>1, <2>2, QuietStep DEF LogUser, Inv, TypeOK
<1>4. req[r].id \in UserIds
  BY <1>1 DEF RequestOK, AdministrationOK, ScriptOK, UserOps, Request, Operations
<1> QED
  BY <1>3, <1>4

-----------------------------------------------------------------------------
LEMMA RegisterCheckStep ==
    ASSUME Inv, NEW r \in Requests, RegisterCheckCompany(r) \/ RegisterCheckEmail(r)
    PROVE  Inv'
<1>1. CASE End(r)
  BY <1>1, EndStep DEF RegisterCheckCompany, RegisterCheckEmail
<1>2. CASE Goto(r, "checkEmail") \/ Goto(r, "write")
  BY <1>2, GotoStep DEF RegisterCheckCompany, RegisterCheckEmail, At, UserOps, Stages
<1> QED
  BY <1>1, <1>2 DEF RegisterCheckCompany, RegisterCheckEmail

\* A company's owner is created with it, or in it.
LEMMA OwnerStep ==
    ASSUME Inv, NEW r \in Requests, NEW companyId \in Companies, NEW email \in Emails,
           NEW id \in UserIds, InsertUser(id, NewUser(companyId, email, "OWNER")),
           companies' = companies \cup {companyId}, End(r),
           UNCHANGED <<tokens, audit, holder>>
    PROVE  Inv'
<1> USE AccountsAssumption
<1> PICK user \in User : user = NewUser(companyId, email, "OWNER")
  BY NewUserTyped DEF TENANT_USER_ROLES
<1>1. user.companyId = companyId /\ user.role = "OWNER"
  BY NewUserTyped DEF TENANT_USER_ROLES
<1>2. ~Exists(id) /\ users' = [users EXCEPT ![id] = user]
  BY DEF InsertUser
<1>3. req' = [req EXCEPT ![r] = None] /\ req'[r] = None
  BY DEF End, Inv, TypeOK
<1>4. RequestOK(r)'
  BY <1>3 DEF RequestOK
<1>5. companies \subseteq Companies /\ audit \subseteq AuditEntry
  BY DEF Inv, TypeOK
<1> QED
  BY <1>1, <1>2, <1>3, <1>4, <1>5, WritingStep

LEMMA RegisterCompanyStep ==
    ASSUME Inv, NEW r \in Requests, RegisterCompany(r)
    PROVE  Inv'
<1>1. req[r] # None /\ req[r].op = "Register" /\ RequestOK(r)
  BY DEF RegisterCompany, At, Inv
<1>2. req[r].companyId \in Companies /\ req[r].change.email \in Emails
  BY <1>1 DEF RequestOK, ScriptOK
<1> QED
  BY <1>2, OwnerStep DEF RegisterCompany

-----------------------------------------------------------------------------
\* A run of the bootstrap moves on, with the lock.
LEMMA BootstrapStep ==
    ASSUME Inv, NEW r \in Requests, req[r] # None, req[r].op = "Provision",
           NEW stage \in {"check", "checkEmail", "write"}, Goto(r, stage),
           UNCHANGED <<users, companies, tokens, audit>>,
           holder \in {None, r}, holder' = r,
           stage # "check" => \A id \in UserIds : ~IsSuperAdmin(id)
    PROVE  Inv'
<1> USE AccountsAssumption
<1>1. req[r] \in Request /\ RequestOK(r) /\ stage \in Stages
  BY DEF Inv, TypeOK, Stages
<1> PICK q \in Request : q = [req[r] EXCEPT !.stage = stage]
  BY <1>1, Stepping DEF Inv
<1>2. req' = [req EXCEPT ![r] = q] /\ req'[r] = q
  BY DEF Goto, Inv, TypeOK
<1>3. q.stage = stage /\ q.op = "Provision" /\ q.actor = req[r].actor /\ q.change = req[r].change
  BY <1>1 DEF Request
<1>4. ScriptOK(q)'
  BY <1>1, <1>3 DEF RequestOK, ScriptOK
<1>5. \A id \in UserIds : IsSuperAdmin(id)' <=> IsSuperAdmin(id)
  BY DEF IsSuperAdmin, Exists
<1>6. BootstrapOK(r)'
  BY <1>2, <1>3, <1>5 DEF BootstrapOK
<1>7. RequestOK(r)'
  BY <1>2, <1>3, <1>4, <1>6 DEF RequestOK, AdministrationOK, ChangeOK, UserOps
<1>8. \A other \in Requests \ {r} : holder # other
  OBVIOUS
<1> QED
  BY <1>2, <1>7, <1>8, QuietStep DEF Inv, TypeOK

LEMMA LockBootstrapStep ==
    ASSUME Inv, NEW r \in Requests, LockBootstrap(r)
    PROVE  Inv'
BY BootstrapStep DEF LockBootstrap, At

LEMMA CheckBootstrapStep ==
    ASSUME Inv, NEW r \in Requests, CheckBootstrap(r)
    PROVE  Inv'
<1>1. /\ req[r] # None /\ req[r].op = "Provision" /\ req[r].stage = "check"
      /\ RequestOK(r) /\ UNCHANGED <<users, companies, tokens, audit>>
  BY DEF CheckBootstrap, At, Inv
<1>2. holder = r
  BY <1>1 DEF RequestOK, BootstrapOK
<1>3. CASE End(r) /\ Unlock(r)
  BY <1>1, <1>3, EndStep
<1>4. CASE /\ Goto(r, "checkEmail")
           /\ UNCHANGED holder
           /\ \A id \in UserIds : ~IsSuperAdmin(id)
  BY <1>1, <1>2, <1>4, BootstrapStep
<1> QED
  BY <1>3, <1>4 DEF CheckBootstrap

\* The lock keeps what the count of administrators has found.
LEMMA CheckBootstrapEmailStep ==
    ASSUME Inv, NEW r \in Requests, CheckBootstrapEmail(r)
    PROVE  Inv'
<1>1. /\ req[r] # None /\ req[r].op = "Provision" /\ req[r].stage = "checkEmail"
      /\ RequestOK(r) /\ UNCHANGED <<users, companies, tokens, audit>>
  BY DEF CheckBootstrapEmail, At, Inv
<1>2. holder = r /\ \A id \in UserIds : ~IsSuperAdmin(id)
  BY <1>1 DEF RequestOK, BootstrapOK
<1>3. CASE End(r) /\ Unlock(r)
  BY <1>1, <1>3, EndStep
<1>4. CASE Goto(r, "write") /\ UNCHANGED holder
  BY <1>1, <1>2, <1>4, BootstrapStep
<1> QED
  BY <1>3, <1>4 DEF CheckBootstrapEmail

LEMMA ProvisionStep ==
    ASSUME Inv, NEW r \in Requests, Provision(r)
    PROVE  Inv'
<1> USE AccountsAssumption
<1>1. /\ req[r] # None /\ req[r].op = "Provision" /\ req[r].stage = "write"
      /\ RequestOK(r) /\ UNCHANGED <<companies, tokens>> /\ End(r) /\ Unlock(r)
  BY DEF Provision, At, Inv
<1>2. /\ req[r].change.email \in Emails
      /\ holder = r
      /\ \A id \in UserIds : ~IsSuperAdmin(id)
  BY <1>1 DEF RequestOK, ScriptOK, BootstrapOK
<1> PICK user \in User : user = NewUser(None, req[r].change.email, "SUPER_ADMIN")
  BY <1>2, NewUserTyped
<1>3. user.companyId = None /\ user.role = "SUPER_ADMIN"
  BY <1>2, NewUserTyped
<1>4. PICK id \in UserIds : /\ InsertUser(id, user)
                            /\ audit' = audit \cup {[companyId |-> None, entityId |-> id]}
  BY DEF Provision
<1>5. ~Exists(id) /\ users' = [users EXCEPT ![id] = user]
  BY <1>4 DEF InsertUser
<1>6. req' = [req EXCEPT ![r] = None] /\ req'[r] = None
  BY <1>1 DEF End, Inv, TypeOK
<1>7. RequestOK(r)'
  BY <1>6 DEF RequestOK
<1>8. companies \subseteq Companies /\ audit' \subseteq AuditEntry
  BY <1>4 DEF Inv, TypeOK, AuditEntry
<1> QED
  BY <1>1, <1>2, <1>3, <1>5, <1>6, <1>7, <1>8, WritingStep

-----------------------------------------------------------------------------
LEMMA SeedFindCompanyStep ==
    ASSUME Inv, NEW r \in Requests, SeedFindCompany(r)
    PROVE  Inv'
BY GotoStep DEF SeedFindCompany, At, UserOps, Stages

LEMMA SeedFindUserStep ==
    ASSUME Inv, NEW r \in Requests, SeedFindUser(r)
    PROVE  Inv'
<1>1. /\ req[r] # None /\ req[r].op = "Seed" /\ req[r].stage \in {"findUser", "checkEmail"}
      /\ req[r] \in Request /\ RequestOK(r) /\ UNCHANGED <<users, companies, tokens, audit, holder>>
  BY DEF SeedFindUser, At, Inv, TypeOK
<1>2. CASE End(r)
  BY <1>1, <1>2, EndStep
<1>3. CASE Goto(r, "write")
  BY <1>1, <1>3, GotoStep DEF UserOps, Stages
<1>4. ASSUME NEW id \in UserIds, HasEmail(id, req[r].change.email), Seedable(r, users[id]),
             req' = [req EXCEPT ![r].id = id, ![r].stage = "write"]
      PROVE  Inv'
  <2>1. [req[r] EXCEPT !.id = id, !.stage = "write"] \in Request
    BY <1>1 DEF Request, Stages
  <2> PICK q \in Request : q = [req[r] EXCEPT !.id = id, !.stage = "write"]
    BY <2>1
  <2>2. /\ q.op = "Seed" /\ q.actor = req[r].actor /\ q.id = id /\ q.stage = "write"
        /\ q.companyId = req[r].companyId /\ q.change = req[r].change
    BY <1>1 DEF Request
  <2>3. req' = [req EXCEPT ![r] = q] /\ req'[r] = q
    BY <1>4 DEF Inv, TypeOK
  <2>4. FoundOK(q)'
    BY <1>1, <1>4, <2>2 DEF FoundOK, HasEmail, Exists, Seedable
  <2>5. ScriptOK(q)'
    BY <1>1, <2>2, <2>4 DEF RequestOK, ScriptOK
  <2>6. RequestOK(r)'
    BY <2>2, <2>3, <2>5 DEF RequestOK, AdministrationOK, ChangeOK, BootstrapOK, UserOps
  <2> QED
    BY <1>1, <2>3, <2>6, QuietStep DEF Inv, TypeOK
<1> QED
  BY <1>2, <1>3, <1>4 DEF SeedFindUser

LEMMA SeedStep ==
    ASSUME Inv, NEW r \in Requests, Seed(r)
    PROVE  Inv'
<1> USE AccountsAssumption
<1>1. /\ req[r] # None /\ req[r].op = "Seed" /\ req[r] \in Request /\ RequestOK(r)
      /\ companies' = companies \cup {req[r].companyId}
      /\ End(r) /\ UNCHANGED <<tokens, audit, holder>>
  BY DEF Seed, At, Inv, TypeOK
<1>2. req[r].companyId \in Companies /\ req[r].change.email \in Emails
  BY <1>1 DEF RequestOK, ScriptOK
<1>3. CASE req[r].id = None
  BY <1>1, <1>2, <1>3, OwnerStep DEF Seed
<1>4. CASE req[r].id # None
  <2>1. FoundOK(req[r])
    BY <1>1, <1>4 DEF RequestOK, ScriptOK
  <2>2. /\ req[r].id \in UserIds /\ Exists(req[r].id)
        /\ users[req[r].id].companyId = req[r].companyId
        /\ users[req[r].id].role # "SUPER_ADMIN"
    BY <1>1, <1>2, <2>1, FoundIsTenant DEF FoundOK
  <2>3. users' = [users EXCEPT ![req[r].id].isActive = TRUE]
    BY <1>4 DEF Seed
  <2>4. PICK user \in User : /\ users' = [users EXCEPT ![req[r].id] = user]
                             /\ user.companyId = users[req[r].id].companyId
                             /\ user.role = users[req[r].id].role
    BY <2>2, <2>3, SetActive
  <2>5. req' = [req EXCEPT ![r] = None] /\ req'[r] = None
    BY <1>1 DEF End, Inv, TypeOK
  <2>6. RequestOK(r)'
    BY <2>5 DEF RequestOK
  <2>7. companies \subseteq Companies /\ audit \subseteq AuditEntry
    BY DEF Inv, TypeOK
  <2> QED
    BY <1>1, <1>2, <2>2, <2>4, <2>5, <2>6, <2>7, WritingStep
<1> QED
  BY <1>3, <1>4

LEMMA FailStep ==
    ASSUME Inv, NEW r \in Requests, Fail(r)
    PROVE  Inv'
BY EndStep DEF Fail

LEMMA StepInv ==
    ASSUME Inv, NEW r \in Requests, Step(r)
    PROVE  Inv'
BY FindUserStep, CheckEmailStep, CreateUserStep, UpdateUserStep, RemoveUserStep, LogUserStep,
   RegisterCheckStep, RegisterCompanyStep, LockBootstrapStep, CheckBootstrapStep,
   CheckBootstrapEmailStep, ProvisionStep, SeedFindCompanyStep, SeedFindUserStep, SeedStep, FailStep DEF Step

LEMMA NextInv == Inv /\ [Next]_vars => Inv'
<1>1. CASE UNCHANGED vars
  BY <1>1 DEF vars, Inv, TypeOK, RowsOK, UsersAreScoped, OneSuperAdmin, CompaniesHaveUsers,
              TokensOK, RequestOK, AdministrationOK, ChangeOK, FoundOK,
              ScriptOK, BootstrapOK, Exists, IsSuperAdmin
<1>2. ASSUME Inv, Next PROVE Inv'
  BY <1>2, LoginStep, BeginStep, BeginScriptStep, StepInv DEF Next
<1> QED
  BY <1>1, <1>2

\* The steps of a request concern no other.
LEMMA OwnStep ==
    ASSUME Inv, NEW r \in Requests, Step(r), NEW other \in Requests \ {r}
    PROVE  req'[other] = req[other]
<1>1. req \in [Requests -> Request \cup {None}]
  BY DEF Inv, TypeOK
<1>2. \A stage : Goto(r, stage) => req'[other] = req[other]
  BY <1>1 DEF Goto
<1>3. End(r) => req'[other] = req[other]
  BY <1>1 DEF End
<1>4. CASE FindUser(r)
  BY <1>1, <1>3, <1>4 DEF FindUser
<1>5. CASE CheckEmail(r) \/ UpdateUser(r) \/ RemoveUser(r) \/ LogUser(r)
  BY <1>2, <1>3, <1>5 DEF CheckEmail, UpdateUser, RemoveUser, LogUser
<1>6. CASE CreateUser(r)
  BY <1>1, <1>6 DEF CreateUser
<1>7. CASE RegisterCheckCompany(r) \/ RegisterCheckEmail(r) \/ RegisterCompany(r)
  BY <1>2, <1>3, <1>7 DEF RegisterCheckCompany, RegisterCheckEmail, RegisterCompany
<1>8. CASE LockBootstrap(r) \/ CheckBootstrap(r) \/ CheckBootstrapEmail(r) \/ Provision(r)
  BY <1>2, <1>3, <1>8 DEF LockBootstrap, CheckBootstrap, CheckBootstrapEmail, Provision
<1>9. CASE SeedFindUser(r)
  <2>1. CASE \E id \in UserIds : req' = [req EXCEPT ![r].id = id, ![r].stage = "write"]
    BY <1>1, <2>1
  <2>2. CASE End(r) \/ Goto(r, "write")
    BY <1>2, <1>3, <2>2
  <2> QED
    BY <1>9, <2>1, <2>2 DEF SeedFindUser
<1>10. CASE SeedFindCompany(r) \/ Seed(r) \/ Fail(r)
  BY <1>2, <1>3, <1>10 DEF SeedFindCompany, Seed, Fail
<1> QED
  BY <1>4, <1>5, <1>6, <1>7, <1>8, <1>9, <1>10 DEF Step

\* A user who is there changes only by a request that has found it.
LEMMA ChangesAreOfTheFound ==
    ASSUME Inv, NEW r \in Requests, Step(r),
           NEW id \in UserIds, Exists(id), users'[id] # users[id]
    PROVE  /\ req[r] # None /\ req[r] \in Request /\ RequestOK(r)
           /\ req[r].id = id /\ FoundOK(req[r])
           /\ \/ UpdateUser(r)
              \/ req[r].op = "RemoveUser"
              \/ req[r].op = "Seed"
<1>1. users \in [UserIds -> User \cup {None}]
  BY DEF Inv, TypeOK
<1>2. \A user : \A new \in UserIds : InsertUser(new, user) => users'[id] = users[id]
  BY <1>1 DEF InsertUser
<1>3. UpdateUser(r) \/ RemoveUser(r) \/ Seed(r)
  BY <1>2 DEF Step, FindUser, CheckEmail, CreateUser, LogUser, RegisterCheckCompany,
     RegisterCheckEmail, RegisterCompany, LockBootstrap, CheckBootstrap, CheckBootstrapEmail,
     Provision, SeedFindCompany, SeedFindUser, Fail
<1>4. req[r] # None /\ req[r] \in Request /\ RequestOK(r)
  BY <1>3 DEF UpdateUser, RemoveUser, Seed, At, Inv, TypeOK
<1>5. CASE UpdateUser(r) \/ RemoveUser(r)
  <2>1. req[r].op \in {"UpdateUser", "RemoveUser"} /\ req[r].stage = "write"
    BY <1>5 DEF UpdateUser, RemoveUser, At
  <2>2. FoundOK(req[r])
    BY <1>4, <2>1 DEF RequestOK, ChangeOK
  <2>3. req[r].id = id
    BY <1>1, <1>5 DEF UpdateUser, RemoveUser
  <2> QED
    BY <1>4, <1>5, <2>2, <2>3 DEF RemoveUser, At
<1>6. CASE Seed(r)
  <2>1. req[r].op = "Seed"
    BY <1>6 DEF Seed, At
  <2>2. req[r].id # None /\ req[r].id = id
    BY <1>1, <1>2, <1>6 DEF Seed
  <2>3. FoundOK(req[r])
    BY <1>4, <2>1, <2>2 DEF RequestOK, ScriptOK
  <2> QED
    BY <1>4, <2>1, <2>2, <2>3
<1> QED
  BY <1>3, <1>5, <1>6

\* Logins and beginnings write no user.
LEMMA StepsOnlyWrite ==
    ASSUME Next, users' # users
    PROVE  \E r \in Requests : Step(r)
BY DEF Next, Login, Begin, BeginCreateUser, BeginUpdateUser, BeginRemoveUser,
       BeginScript, BeginProvision, BeginRegister, BeginSeed, Start

\* The request that moves while a user changes is the one that has found it.
LEMMA MoverIsTheFinder ==
    ASSUME Inv, [Next]_vars, NEW r \in Requests, NEW id \in UserIds, req[r] # None,
           req'[r] # req[r], Exists(id), users'[id] # users[id]
    PROVE  Step(r)
<1>1. Next
  BY DEF vars
<1>2. PICK mover \in Requests : Step(mover)
  BY <1>1, StepsOnlyWrite
<1>3. mover = r
  BY <1>2, OwnStep
<1> QED
  BY <1>2, <1>3

-----------------------------------------------------------------------------
\* The inductive invariant holds in every reachable state.
THEOREM InvHolds == Spec => []Inv
<1>1. Init => Inv
  BY InitInv
<1>2. Inv /\ [Next]_vars => Inv'
  BY NextInv
<1> QED
  BY <1>1, <1>2, PTL DEF Spec

\* Variables keep their types: users, requests, tokens and audit entries are well formed.
THEOREM AccountsTypeCorrect == Spec => []TypeOK
<1>1. Inv => TypeOK
  BY DEF Inv
<1> QED
  BY <1>1, InvHolds, PTL

\* Every user is in the scope of its role, no company is without a user, and the
\* bootstrap makes one platform administrator, however its runs interleave.
THEOREM ScopesHold == Spec => []ScopesAreKept
<1>1. Inv => ScopesAreKept
  BY DEF Inv, RowsOK, ScopesAreKept
<1> QED
  BY <1>1, InvHolds, PTL

\* A request changes users of its own company only: the update by id is safe because
\* users, once found, never change their company.
THEOREM TenantsHold == Spec => TenantsAreSeparate
<1>1. Inv /\ [Next]_vars =>
         \A r \in Requests, id \in UserIds :
            (/\ req[r] # None /\ req'[r] # req[r]
             /\ Exists(id) /\ users'[id] # users[id]) =>
                users[id].companyId = req[r].companyId
  BY MoverIsTheFinder, ChangesAreOfTheFound DEF FoundOK
<1> QED
  BY <1>1, InvHolds, PTL DEF Spec, TenantsAreSeparate

\* No request deactivates the user it acts for, or gives it a role other than the one
\* it has or the one that was read of it.
THEOREM OwnAccountHolds == Spec => OwnAccountIsKept
<1> USE AccountsAssumption
<1>1. ASSUME Inv, [Next]_vars, NEW r \in Requests, NEW id \in UserIds,
             req[r] # None, req'[r] # req[r], req[r].actor = id,
             Exists(id), users'[id] # users[id]
      PROVE  /\ users[id].isActive => users'[id].isActive
             /\ users'[id].role \in {users[id].role, req[r].seen}
  <2>1. Step(r)
    BY <1>1, MoverIsTheFinder
  <2>2. /\ req[r] \in Request /\ RequestOK(r) /\ req[r].id = id
        /\ \/ UpdateUser(r)
           \/ req[r].op = "RemoveUser"
           \/ req[r].op = "Seed"
    BY <1>1, <2>1, ChangesAreOfTheFound
  <2>3. req[r].op # "RemoveUser" /\ req[r].op # "Seed"
    BY <1>1, <2>2 DEF RequestOK, AdministrationOK, ScriptOK, UserOps
  <2>4. UpdateUser(r) /\ req[r].op = "UpdateUser" /\ req[r].stage = "write"
    BY <2>2, <2>3 DEF UpdateUser, At
  <2>5. /\ req[r].change.isActive # FALSE
        /\ req[r].change.role \in {None, req[r].seen}
        /\ req[r].change \in Change
    BY <1>1, <2>2, <2>4 DEF RequestOK, ChangeOK, Request
  <2>6. users[id] \in User
    BY <1>1 DEF Inv, TypeOK, Exists
  <2>7. users'[id] = Updated(users[id], req[r].change)
    BY <1>1, <2>2, <2>4 DEF UpdateUser, Inv, TypeOK
  <2>8. users'[id].role \in {users[id].role, req[r].seen}
    BY <2>5, <2>6, <2>7 DEF Updated, Given, User
  <2>9. users'[id].isActive = Given(req[r].change.isActive, users[id].isActive)
    BY <2>6, <2>7 DEF Updated, User
  <2>10. req[r].change.isActive = TRUE \/ req[r].change.isActive = None
    BY <2>5 DEF Change
  <2>11. users[id].isActive => users'[id].isActive
    BY <2>9, <2>10 DEF Given
  <2> QED
    BY <2>8, <2>11
<1>2. Inv /\ [Next]_vars =>
         \A r \in Requests, id \in UserIds :
            (/\ req[r] # None /\ req'[r] # req[r] /\ req[r].actor = id
             /\ Exists(id) /\ users'[id] # users[id]) =>
                /\ users[id].isActive => users'[id].isActive
                /\ users'[id].role \in {users[id].role, req[r].seen}
  BY <1>1
<1> QED
  BY <1>2, InvHolds, PTL DEF Spec, OwnAccountIsKept
=============================================================================
