------------------------------ MODULE RuleSets ------------------------------
(***************************************************************************)
(* The administration of payroll rule sets: creating, editing and          *)
(* publishing drafts, each in a transaction of its own at READ COMMITTED.  *)
(*                                                                         *)
(* A transaction takes up to three kinds of lock, in the order its Flow    *)
(* gives: the row of the acting user, the advisory lock of the             *)
(* jurisdiction (a hash of its name, so jurisdictions may share one) and   *)
(* the row of the rule set.  It reads and writes between them one          *)
(* statement at a time, and its writes and its audit entry are committed   *)
(* together by its last statement.                                         *)
(*                                                                         *)
(* The database also refuses rows that break its own constraints: an       *)
(* exclusion constraint on published intervals, triggers that keep         *)
(* published rows as they are.  The services do not handle such a refusal; *)
(* it would be an internal error.  So these constraints are no guards      *)
(* here but properties: what they forbid is never attempted.               *)
(*                                                                         *)
(* Requests      identities of concurrent requests                         *)
(* Users         platform users who may act                                *)
(* Jurisdictions, Locks, Hash   jurisdictions and their advisory lock keys *)
(* Contents      what a schema version and a rules payload that the codec  *)
(*               accepts say                                               *)
(* LastDay       days are 0..LastDay                                       *)
(* MaxVersion, MaxRevision   the largest number of their columns           *)
(***************************************************************************)
EXTENDS Integers, Sequences, FiniteSets

CONSTANTS Requests, Users, Jurisdictions, Locks, Hash, Contents, LastDay,
          MaxVersion, MaxRevision, None

VARIABLES
    ruleSets,    \* the committed PayrollRuleSet row of each jurisdiction and version
    audit,       \* the audit entries of each rule set
    authorized,  \* the users that are active SUPER_ADMINs without a company
    holder,      \* the request whose transaction holds each lock
    req          \* what each request is doing

vars == <<ruleSets, audit, authorized, holder, req>>

-----------------------------------------------------------------------------
Days == 0..LastDay
Versions == 1..MaxVersion
Revisions == 1..MaxRevision
Ids == Jurisdictions \X Versions

Envelopes == {e \in [from : Days, to : Days \cup {None}] : e.to # None => e.from < e.to}

RuleSet == [revision : Revisions, envelope : Envelopes, content : Contents,
            status : {"DRAFT", "PUBLISHED"}]

ASSUME RuleSetAssumption ==
    /\ LastDay \in Nat
    /\ MaxVersion \in Nat \ {0}
    /\ MaxRevision \in Nat \ {0}
    /\ Hash \in [Jurisdictions -> Locks]
    /\ None \notin Requests \cup RuleSet \cup [envelope : Envelopes, content : Contents]

Actions == {"CREATE_PAYROLL_RULE_SET_DRAFT", "EDIT_PAYROLL_RULE_SET_DRAFT",
            "PUBLISH_PAYROLL_RULE_SET"}

AuditEntry == [action : Actions, userId : Users, revision : Revisions]

Lockable == {<<"user", u>> : u \in Users} \cup {<<"jurisdiction", k>> : k \in Locks}
            \cup {<<"row", id>> : id \in Ids}

Operations == {"create", "edit", "publish"}

Steps == {"idle", "lockActor", "read", "lockJurisdiction", "lockRow", "readMaximum",
          "insert", "check", "save", "recheck", "searchOverlap", "publish"}

Idle == [op |-> None, pc |-> "idle", actor |-> None, target |-> None, seen |-> None,
         envelope |-> None, content |-> None]

Request == [op : Operations \cup {None}, pc : Steps, actor : Users \cup {None},
            target : (Jurisdictions \X (Versions \cup {None})) \cup {None},
            seen : RuleSet \cup {None},
            envelope : Envelopes \cup {None}, content : Contents \cup {None}]

TypeOK ==
    /\ ruleSets \in [Ids -> RuleSet \cup {None}]
    /\ audit \in [Ids -> Seq(AuditEntry)]
    /\ authorized \subseteq Users
    /\ holder \in [Lockable -> Requests \cup {None}]
    /\ req \in [Requests -> Request]

Init ==
    /\ ruleSets = [id \in Ids |-> None]
    /\ audit = [id \in Ids |-> <<>>]
    /\ authorized = Users
    /\ holder = [l \in Lockable |-> None]
    /\ req = [r \in Requests |-> Idle]

-----------------------------------------------------------------------------
\* Mutant: an edit takes the lock of its jurisdiction too, after the row.
FlowLockingTwice(op) ==
    CASE op = "create" ->
           [idle |-> "lockActor", lockActor |-> "lockJurisdiction",
            lockJurisdiction |-> "readMaximum", readMaximum |-> "insert"]
      [] op = "edit" ->
           [idle |-> "lockActor", lockActor |-> "lockRow", lockRow |-> "lockJurisdiction",
            lockJurisdiction |-> "check", check |-> "save"]
      [] op = "publish" ->
           [idle |-> "read", read |-> "lockJurisdiction", lockJurisdiction |-> "lockRow",
            lockRow |-> "recheck", recheck |-> "searchOverlap",
            searchOverlap |-> "publish"]

\* Mutant: a publication locks its row only.
FlowWithoutJurisdiction(op) ==
    CASE op = "create" ->
           [idle |-> "lockActor", lockActor |-> "lockJurisdiction",
            lockJurisdiction |-> "readMaximum", readMaximum |-> "insert"]
      [] op = "edit" ->
           [idle |-> "lockActor", lockActor |-> "lockRow", lockRow |-> "check",
            check |-> "save"]
      [] op = "publish" ->
           [idle |-> "read", read |-> "lockRow", lockRow |-> "recheck",
            recheck |-> "searchOverlap", searchOverlap |-> "publish"]

\* The statements of each transaction, in their order.
Flow(op) ==
    CASE op = "create" ->
           [idle |-> "lockActor", lockActor |-> "lockJurisdiction",
            lockJurisdiction |-> "readMaximum", readMaximum |-> "insert"]
      [] op = "edit" ->
           [idle |-> "lockActor", lockActor |-> "lockRow", lockRow |-> "check",
            check |-> "save"]
      [] op = "publish" ->
           [idle |-> "read", read |-> "lockJurisdiction", lockJurisdiction |-> "lockRow",
            lockRow |-> "recheck", recheck |-> "searchOverlap",
            searchOverlap |-> "publish"]

\* The step after the one request q is at.
Following(q) == Flow(q.op)[q.pc]

At(r, step) == req[r].pc = step

Begun(op, actor, target) ==
    [Idle EXCEPT !.op = op, !.pc = Flow(op)["idle"], !.actor = actor, !.target = target]

\* Creating a draft.  Input that is not an interval of dates and a payload the
\* codec accepts ends the request before its transaction.
BeginCreate(r) ==
    /\ At(r, "idle")
    /\ \E u \in Users, j \in Jurisdictions, e \in Envelopes, c \in Contents :
          req' = [req EXCEPT ![r] =
                     [Begun("create", u, <<j, None>>) EXCEPT !.envelope = e, !.content = c]]
    /\ UNCHANGED <<ruleSets, audit, authorized, holder>>

\* Editing a draft.  The client has looked at the draft, and sends the revision
\* it saw together with the new envelope and content.
BeginEdit(r) ==
    /\ At(r, "idle")
    /\ \E u \in Users, id \in Ids, e \in Envelopes, c \in Contents :
          /\ ruleSets[id] # None /\ ruleSets[id].status = "DRAFT"
          /\ req' = [req EXCEPT ![r] =
                [Begun("edit", u, id) EXCEPT !.seen = ruleSets[id],
                                             !.envelope = e, !.content = c]]
    /\ UNCHANGED <<ruleSets, audit, authorized, holder>>

\* Publishing asks for no more of the actor than a name.
BeginPublish(r) ==
    /\ At(r, "idle")
    /\ \E u \in Users, id \in Ids :
          /\ ruleSets[id] # None
          /\ req' = [req EXCEPT ![r] = Begun("publish", u, id)]
    /\ UNCHANGED <<ruleSets, audit, authorized, holder>>

-----------------------------------------------------------------------------
Free(l) == holder[l] = None

LockKey(q) == Hash[q.target[1]]

\* The lock that the next statement of a request needs.
Wanted(q) ==
    CASE q.pc = "lockActor" -> <<"user", q.actor>>
      [] q.pc = "lockJurisdiction" -> <<"jurisdiction", LockKey(q)>>
      [] q.pc = "lockRow" -> <<"row", q.target>>

LockSteps == {"lockActor", "lockJurisdiction", "lockRow"}

\* Mutant: an actor is examined but its row is not locked.
LockUnlessActor(r) ==
    /\ req[r].pc \in LockSteps
    /\ Free(Wanted(req[r]))
    /\ At(r, "lockActor") => req[r].actor \in authorized
    /\ holder' = IF At(r, "lockActor") THEN holder ELSE [holder EXCEPT ![Wanted(req[r])] = r]
    /\ req' = [req EXCEPT ![r].pc = Following(req[r])]
    /\ UNCHANGED <<ruleSets, audit, authorized>>

\* A lock is granted when no other transaction holds it and kept to the end of
\* the transaction.  The actor is examined in the statement that locks it.
Lock(r) ==
    /\ req[r].pc \in LockSteps
    /\ Free(Wanted(req[r]))
    /\ At(r, "lockActor") => req[r].actor \in authorized
    /\ holder' = [holder EXCEPT ![Wanted(req[r])] = r]
    /\ req' = [req EXCEPT ![r].pc = Following(req[r])]
    /\ UNCHANGED <<ruleSets, audit, authorized>>

\* The end of a transaction releases its locks.
Release(r) ==
    /\ holder' = [l \in Lockable |-> IF holder[l] = r THEN None ELSE holder[l]]
    /\ req' = [req EXCEPT ![r] = Idle]

Stored(q) == ruleSets[q.target]

\* The versions a jurisdiction has given away.
Used(jurisdiction) == {v \in Versions : ruleSets[<<jurisdiction, v>>] # None}

Maximum(S) == CHOOSE m \in S \cup {0} : \A v \in S : v =< m

ReadMaximum(r) ==
    LET jurisdiction == req[r].target[1]
    IN  /\ At(r, "readMaximum")
        /\ Maximum(Used(jurisdiction)) # MaxVersion
        /\ req' = [req EXCEPT ![r].pc = Following(req[r]),
                              ![r].target = <<jurisdiction, Maximum(Used(jurisdiction)) + 1>>]
        /\ UNCHANGED <<ruleSets, audit, authorized, holder>>

\* Mutant: an entry gives the revision before the change.
LogPrevious(id, action, actor, revision) ==
    audit' = [audit EXCEPT ![id] =
                 Append(@, [action |-> action, userId |-> actor,
                            revision |-> IF revision = 1 THEN 1 ELSE revision - 1])]

Log(id, action, actor, revision) ==
    audit' = [audit EXCEPT ![id] =
                 Append(@, [action |-> action, userId |-> actor, revision |-> revision])]

Insert(r) ==
    LET q == req[r]
    IN  /\ At(r, "insert")
        /\ Stored(q) = None
        /\ ruleSets' = [ruleSets EXCEPT ![q.target] =
                            [revision |-> 1, envelope |-> q.envelope,
                             content |-> q.content, status |-> "DRAFT"]]
        /\ Log(q.target, "CREATE_PAYROLL_RULE_SET_DRAFT", q.actor, 1)
        /\ Release(r)
        /\ UNCHANGED authorized

-----------------------------------------------------------------------------
\* Mutant: the row may have been published since.
IsRevisionSeen(row, seen) == row.revision = seen.revision

\* The row is a draft of the revision that was seen.
IsDraftSeen(row, seen) == row.status = "DRAFT" /\ row.revision = seen.revision

SameContent(q, row) == q.envelope = row.envelope /\ q.content = row.content

\* The draft is what the client saw, and something is to be changed.
CheckDraft(r) ==
    LET q == req[r]
    IN  /\ At(r, "check")
        /\ IsDraftSeen(Stored(q), q.seen)
        /\ ~SameContent(q, Stored(q))
        /\ Stored(q).revision # MaxRevision
        /\ req' = [req EXCEPT ![r].pc = Following(q)]
        /\ UNCHANGED <<ruleSets, audit, authorized, holder>>

SaveDraft(r) ==
    LET q == req[r]
    IN  /\ At(r, "save")
        /\ IsDraftSeen(Stored(q), q.seen)
        /\ ruleSets' = [ruleSets EXCEPT ![q.target] =
                            [@ EXCEPT !.revision = q.seen.revision + 1,
                                      !.envelope = q.envelope, !.content = q.content]]
        /\ Log(q.target, "EDIT_PAYROLL_RULE_SET_DRAFT", q.actor, q.seen.revision + 1)
        /\ Release(r)
        /\ UNCHANGED authorized

-----------------------------------------------------------------------------
ReadTarget(r) ==
    /\ At(r, "read")
    /\ Stored(req[r]).status = "DRAFT"
    /\ req' = [req EXCEPT ![r].pc = Following(req[r])]
    /\ UNCHANGED <<ruleSets, audit, authorized, holder>>

\* The row is read again once its jurisdiction and the row itself are locked.
Recheck(r) ==
    /\ At(r, "recheck")
    /\ Stored(req[r]).status = "DRAFT"
    /\ req' = [req EXCEPT ![r].pc = Following(req[r]), ![r].seen = Stored(req[r])]
    /\ UNCHANGED <<ruleSets, audit, authorized, holder>>

\* Mutant: only a rule set that began earlier can overlap.
OverlapsEarlier(e, f) ==
    /\ e.to # None => f.from < e.to
    /\ f.from =< e.from
    /\ f.to # None => f.to > e.from

\* The where clause for envelope e: f overlaps it.
Overlaps(e, f) ==
    /\ e.to # None => f.from < e.to
    /\ f.to # None => f.to > e.from

\* A published rule set covers a day.
Covering(id, day) ==
    /\ ruleSets[id] # None
    /\ ruleSets[id].status = "PUBLISHED"
    /\ ruleSets[id].envelope.from =< day
    /\ ruleSets[id].envelope.to # None => day < ruleSets[id].envelope.to

\* A published rule set of the jurisdiction overlaps the row as it was read.
OverlapExists(q) ==
    \E v \in Used(q.target[1]) :
        LET other == ruleSets[<<q.target[1], v>>]
        IN  other.status = "PUBLISHED" /\ Overlaps(q.seen.envelope, other.envelope)

SearchOverlap(r) ==
    /\ At(r, "searchOverlap")
    /\ ~OverlapExists(req[r])
    /\ req' = [req EXCEPT ![r].pc = Following(req[r])]
    /\ UNCHANGED <<ruleSets, audit, authorized, holder>>

Publish(r) ==
    LET q == req[r]
    IN  /\ At(r, "publish")
        /\ Stored(q).status = "DRAFT"
        /\ ruleSets' = [ruleSets EXCEPT ![q.target].status = "PUBLISHED"]
        /\ Log(q.target, "PUBLISH_PAYROLL_RULE_SET", q.actor, Stored(q).revision)
        /\ Release(r)
        /\ UNCHANGED authorized

-----------------------------------------------------------------------------
\* The conditions under which a statement ends its transaction with an error,
\* or without a change: an edit that changes nothing returns the draft as is.
Refused(q) ==
    \/ q.pc = "lockActor" /\ Free(Wanted(q)) /\ q.actor \notin authorized
    \/ q.pc = "readMaximum" /\ Maximum(Used(q.target[1])) = MaxVersion
    \/ q.pc = "insert" /\ Stored(q) # None
    \/ /\ q.pc = "check"
       /\ \/ ~IsDraftSeen(Stored(q), q.seen)
          \/ SameContent(q, Stored(q))
          \/ Stored(q).revision = MaxRevision
    \/ q.pc = "save" /\ ~IsDraftSeen(Stored(q), q.seen)
    \/ q.pc \in {"read", "recheck", "publish"} /\ Stored(q).status # "DRAFT"
    \/ q.pc = "searchOverlap" /\ OverlapExists(q)

Refuse(r) ==
    /\ Refused(req[r])
    /\ Release(r)
    /\ UNCHANGED <<ruleSets, audit, authorized>>

\* A transaction may fail at any of its statements: it times out, the audit
\* entry cannot be written, or the connection is lost.
Rollback(r) ==
    /\ ~At(r, "idle")
    /\ Release(r)
    /\ UNCHANGED <<ruleSets, audit, authorized>>

\* Someone takes a platform user's rights away, or gives them back.  The
\* update of the user's row waits for the transaction that holds it.
ChangeActor(u) ==
    /\ Free(<<"user", u>>)
    /\ authorized' = IF u \in authorized THEN authorized \ {u} ELSE authorized \cup {u}
    /\ UNCHANGED <<ruleSets, audit, holder, req>>

Begin(r) == BeginCreate(r) \/ BeginEdit(r) \/ BeginPublish(r)

Work(r) ==
    \/ Lock(r) \/ ReadMaximum(r) \/ Insert(r) \/ CheckDraft(r) \/ SaveDraft(r)
    \/ ReadTarget(r) \/ Recheck(r) \/ SearchOverlap(r) \/ Publish(r) \/ Refuse(r)

Next ==
    \/ \E r \in Requests : Begin(r) \/ Work(r) \/ Rollback(r)
    \/ \E u \in Users : ChangeActor(u)

Spec == Init /\ [][Next]_vars

\* Fairness of one request: its statements are executed, and a lock that is
\* released again and again is granted in the end, for PostgreSQL queues those
\* who wait.  Nothing is assumed about requests beginning or failing, nor about
\* who may act.
RequestFairness(r) == WF_vars(Work(r)) /\ SF_vars(Lock(r))

FairSpec == Spec /\ \A r \in Requests : RequestFairness(r)

-----------------------------------------------------------------------------
\* Whose lock a request is waiting for.
WaitsFor(r) == IF req[r].pc \in LockSteps THEN holder[Wanted(req[r])] ELSE None

\* No transactions of creations, edits and publications wait for one another in
\* a circle: every one takes user, jurisdiction and row in this order.
NoLockCycle ==
    \A S \in SUBSET Requests : S # {} => \E r \in S : WaitsFor(r) \notin S

\* The published rule sets of a jurisdiction are disjoint in time, day by day:
\* the search for an overlap never lets through what the exclusion constraint
\* of the table would refuse.
PublishedNeverOverlap ==
    \A j \in Jurisdictions, day \in Days, v, w \in Versions :
        (/\ Covering(<<j, v>>, day)
         /\ Covering(<<j, w>>, day)) => v = w

\* The version a creation has computed from the maximum is still free when it
\* inserts the draft, and versions are given away without gaps: no creation
\* ends in VERSION_ALLOCATION_CONFLICT.
VersionStaysFree ==
    /\ \A r \in Requests : At(r, "insert") => Stored(req[r]) = None
    /\ \A id \in Ids : ruleSets[id] # None => \A v \in 1..id[2] : ruleSets[<<id[1], v>>] # None

\* What a publication has read and searched still holds when it writes: the
\* draft is the one whose dates were searched, and nothing that overlaps it has
\* been published since.
SearchStillHolds ==
    \A r \in Requests : At(r, "publish") =>
        Stored(req[r]) = req[r].seen /\ ~OverlapExists(req[r])

\* Under the locks of READ COMMITTED transactions nothing that was read before a
\* write is outdated by it: neither a version nor a search for an overlap.
ReadsStand == VersionStaysFree /\ SearchStillHolds

\* The audit entries of a rule set count its revisions: one for the creation,
\* one for every edit that changed it, and one for its publication, the last.
\* A rollback leaves neither a change nor an entry behind.
AuditCountsRevisions ==
    \A id \in Ids :
        LET n == Len(audit[id])
            row == ruleSets[id]
        IN  IF row = None THEN n = 0
            ELSE /\ n = row.revision + (IF row.status = "PUBLISHED" THEN 1 ELSE 0)
                 /\ \A i \in 1..row.revision : audit[id][i].revision = i

\* An edit replaces nothing but the draft its client looked at: between the
\* look and the write neither another edit nor a publication has come.
EditsReplaceWhatWasSeen ==
    [][\A r \in Requests, id \in Ids :
          (/\ At(r, "save") /\ req'[r] = Idle
           /\ req[r].target = id /\ ruleSets'[id] # ruleSets[id])
             => ruleSets[id] = req[r].seen]_vars

\* Whoever creates or edits a draft has the right to do so at the moment the
\* change is committed, though it was examined before.
ActorsAreAuthorized ==
    [][\A id \in Ids : Len(audit'[id]) > Len(audit[id]) =>
          LET entry == audit'[id][Len(audit'[id])]
          IN  entry.action # "PUBLISH_PAYROLL_RULE_SET" => entry.userId \in authorized]_vars

\* To payroll the administration is a timeline to which entries are added.
Timeline == INSTANCE RuleTimeline WITH
    published <- [id \in Ids |->
        IF ruleSets[id] # None /\ ruleSets[id].status = "PUBLISHED"
        THEN [envelope |-> ruleSets[id].envelope, content |-> ruleSets[id].content]
        ELSE None]

\* Every step of the administration publishes one rule set for days that none
\* covers yet, or leaves all published rule sets as they are.
ImplementsTimeline == Timeline!Spec

\* Every request ends, whoever else is working and waiting.
RequestsEnd == \A r \in Requests : ~At(r, "idle") ~> At(r, "idle")
=============================================================================
