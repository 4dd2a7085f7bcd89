---------------------------- MODULE RuleSetsProofs ----------------------------
(***************************************************************************)
(* Proofs about RuleSets, for any number of requests, users, jurisdictions *)
(* and rule sets, any hash of the jurisdictions and any bounds.            *)
(*                                                                         *)
(* The inductive invariant says which locks a request holds at each of its *)
(* statements (LocksOK) and what it knows that these locks protect         *)
(* (KnowsOK).  Every change of a row is a RowStep, of a row whose lock is  *)
(* held; every row that appears or is published is of a jurisdiction whose *)
(* lock is held.  So the others keep what they know (OthersKeep).          *)
(*                                                                         *)
(* That no transactions wait in a circle follows from LocksOK alone: a     *)
(* request that waits holds only locks of a lower rank.                    *)
(***************************************************************************)
EXTENDS RuleSets, TLAPS

-----------------------------------------------------------------------------
(* The invariant.                                                          *)

HasUser(q) ==
    /\ q.op \in {"create", "edit"}
    /\ q.pc \in {"lockJurisdiction", "readMaximum", "insert", "lockRow", "check", "save"}

HasJurisdiction(q) ==
    \/ q.pc \in {"readMaximum", "insert", "recheck", "searchOverlap", "publish"}
    \/ q.op = "publish" /\ q.pc = "lockRow"

HasRow(q) == q.pc \in {"check", "save", "recheck", "searchOverlap", "publish"}

Holds(q, l) ==
    \/ HasUser(q) /\ l = <<"user", q.actor>>
    \/ HasJurisdiction(q) /\ l = <<"jurisdiction", LockKey(q)>>
    \/ HasRow(q) /\ l = <<"row", q.target>>

LocksOK(r) == \A l \in Lockable : holder[l] = r <=> Holds(req[r], l)

\* A request is at a statement of its own transaction.
FlowOK(q) ==
    \/ q.pc = "idle" /\ q.op = None
    \/ q.op = "create" /\ q.pc \in {"lockActor", "lockJurisdiction", "readMaximum", "insert"}
    \/ q.op = "edit" /\ q.pc \in {"lockActor", "lockRow", "check", "save"}
    \/ /\ q.op = "publish"
       /\ q.pc \in {"read", "lockJurisdiction", "lockRow", "recheck", "searchOverlap", "publish"}

InputOK(q) ==
    q.pc # "idle" =>
    /\ q.actor \in Users
    /\ q.op = "create" =>
          /\ q.target \in Jurisdictions \X (Versions \cup {None})
          /\ q.envelope \in Envelopes /\ q.content \in Contents
          /\ q.pc = "insert" => q.target \in Ids
    /\ q.op \in {"edit", "publish"} => q.target \in Ids /\ Stored(q) # None
    /\ q.op = "edit" => q.envelope \in Envelopes /\ q.content \in Contents

\* An edit has seen an earlier state of its draft, or the draft as it is.
SeenOK(q) ==
    /\ q.seen \in RuleSet
    /\ q.seen.revision =< Stored(q).revision
    /\ IsDraftSeen(Stored(q), q.seen) => Stored(q) = q.seen

KnowsOK(q) ==
    q.pc # "idle" =>
    /\ HasUser(q) => q.actor \in authorized
    /\ q.op = "edit" => SeenOK(q)
    /\ q.pc = "save" => IsDraftSeen(Stored(q), q.seen) /\ Stored(q).revision # MaxRevision
    /\ q.pc = "insert" =>
          Stored(q) = None /\ \A v \in 1..(q.target[2] - 1) : ruleSets[<<q.target[1], v>>] # None
    /\ q.pc \in {"searchOverlap", "publish"} =>
          Stored(q) = q.seen /\ q.seen.status = "DRAFT"
    /\ q.pc = "publish" => ~OverlapExists(q)

RequestOK(r) ==
    LocksOK(r) /\ FlowOK(req[r]) /\ InputOK(req[r]) /\ KnowsOK(req[r])

\* The versions of a jurisdiction are the numbers up to how many it has.
Counted ==
    \A j \in Jurisdictions : \E n \in 0..MaxVersion :
        \A v \in Versions : ruleSets[<<j, v>>] # None <=> v =< n

RowsOK == Counted /\ PublishedNeverOverlap /\ AuditCountsRevisions

Inv == TypeOK /\ (\A r \in Requests : RequestOK(r)) /\ RowsOK

-----------------------------------------------------------------------------
(* How rows change.                                                        *)

Published(id) == ruleSets[id] # None /\ ruleSets[id].status = "PUBLISHED"

RowStep(id) ==
    ruleSets[id] # None =>
        /\ ruleSets'[id] # None
        /\ ruleSets[id].revision =< ruleSets'[id].revision
        /\ ruleSets[id].status = "PUBLISHED" => ruleSets'[id] = ruleSets[id]
        /\ ruleSets'[id].status = "DRAFT" /\ ruleSets'[id].revision = ruleSets[id].revision
             => ruleSets'[id] = ruleSets[id]

\* Nothing that request x has locked changes.
LockedStays(x) ==
    /\ \A id \in Ids : holder[<<"row", id>>] = x /\ ruleSets[id] # None
            => ruleSets'[id] = ruleSets[id]
    /\ \A id \in Ids : holder[<<"jurisdiction", Hash[id[1]]>>] = x =>
            /\ ruleSets[id] = None => ruleSets'[id] = None
            /\ Published(id)' => Published(id)
    /\ \A u \in Users : holder[<<"user", u>>] = x => (u \in authorized => u \in authorized')

LEMMA IdleInRequest == Idle \in Request
    BY DEF Idle, Request, Operations, Steps

LEMMA IdParts ==
    ASSUME NEW id \in Ids
    PROVE  /\ id[1] \in Jurisdictions /\ id[2] \in Versions /\ id = <<id[1], id[2]>>
           /\ Hash[id[1]] \in Locks
    BY RuleSetAssumption DEF Ids

LEMMA LockableFacts ==
    /\ \A u \in Users : <<"user", u>> \in Lockable
    /\ \A k \in Locks : <<"jurisdiction", k>> \in Lockable
    /\ \A id \in Ids : <<"row", id>> \in Lockable
    BY DEF Lockable

\* The locks a request holds, at the statements where it needs them.
LEMMA HeldFacts ==
    ASSUME NEW r \in Requests, RequestOK(r)
    PROVE  /\ HasUser(req[r]) => holder[<<"user", req[r].actor>>] = r
           /\ HasJurisdiction(req[r]) => holder[<<"jurisdiction", LockKey(req[r])>>] = r
           /\ HasRow(req[r]) => req[r].target \in Ids /\ holder[<<"row", req[r].target>>] = r
<1> DEFINE q == req[r]
<1>1. ASSUME HasUser(q) PROVE holder[<<"user", q.actor>>] = r
    <2>1. q.actor \in Users
        BY <1>1 DEF HasUser, RequestOK, InputOK
    <2> QED
        BY <1>1, <2>1, LockableFacts DEF RequestOK, LocksOK, Holds
<1>2. ASSUME HasJurisdiction(q) PROVE holder[<<"jurisdiction", LockKey(q)>>] = r
    <2>1. q.target[1] \in Jurisdictions
        BY <1>2 DEF HasJurisdiction, RequestOK, FlowOK, InputOK, Ids
    <2>2. LockKey(q) \in Locks
        BY <2>1, RuleSetAssumption DEF LockKey
    <2> QED
        BY <1>2, <2>2, LockableFacts DEF RequestOK, LocksOK, Holds
<1>3. ASSUME HasRow(q) PROVE q.target \in Ids /\ holder[<<"row", q.target>>] = r
    <2>1. q.target \in Ids
        BY <1>3 DEF HasRow, RequestOK, FlowOK, InputOK
    <2> QED
        BY <1>3, <2>1, LockableFacts DEF RequestOK, LocksOK, Holds
<1> QED
    BY <1>1, <1>2, <1>3

-----------------------------------------------------------------------------
(* What a step leaves of another request's knowledge.                      *)

LEMMA OthersKeep ==
    ASSUME TypeOK, TypeOK', NEW x \in Requests, RequestOK(x), req'[x] = req[x],
           \A l \in Lockable : holder'[l] = x <=> holder[l] = x,
           \A id \in Ids : RowStep(id), LockedStays(x)
    PROVE  RequestOK(x)'
<1> DEFINE q == req[x]
<1>1. LocksOK(x)' /\ FlowOK(req[x])'
    BY DEF RequestOK, LocksOK, FlowOK, Holds, HasUser, HasJurisdiction, HasRow, LockKey
<1>2. ASSUME q.pc # "idle", q.op \in {"edit", "publish"}
      PROVE  /\ q.target \in Ids /\ Stored(q) = ruleSets[q.target]
             /\ ruleSets[q.target] # None /\ ruleSets[q.target] \in RuleSet
             /\ ruleSets'[q.target] # None /\ ruleSets'[q.target] \in RuleSet
             /\ RowStep(q.target)
    BY <1>2 DEF RequestOK, InputOK, Stored, RowStep, TypeOK
<1>3. InputOK(req[x])'
    BY <1>2 DEF RequestOK, InputOK, Stored
<1>4. HasUser(q) => q.actor \in authorized'
    BY HeldFacts DEF RequestOK, KnowsOK, LockedStays, InputOK, HasUser
<1>5. ASSUME q.pc # "idle", q.op = "edit"
      PROVE  SeenOK(req[x])'
    <2>1. SeenOK(q)
        BY <1>5 DEF RequestOK, KnowsOK
    <2>2. /\ q.seen.revision \in Int /\ ruleSets[q.target].revision \in Int
          /\ ruleSets'[q.target].revision \in Int
        BY <1>2, <1>5, <2>1, RuleSetAssumption DEF SeenOK, RuleSet, Revisions
    <2> QED
        BY <1>2, <1>5, <2>1, <2>2 DEF SeenOK, Stored, IsDraftSeen, RowStep
<1>6. ASSUME HasRow(q)
      PROVE  ruleSets'[q.target] = ruleSets[q.target]
    BY <1>6, <1>2, HeldFacts DEF LockedStays, HasRow, RequestOK, FlowOK
<1>7. ASSUME HasJurisdiction(q), NEW v \in Versions
      PROVE  LET id == <<q.target[1], v>> IN
             /\ id \in Ids
             /\ ruleSets[id] = None <=> ruleSets'[id] = None
             /\ Published(id)' => Published(id) /\ ruleSets'[id] = ruleSets[id]
    <2>1. q.target[1] \in Jurisdictions
        BY <1>7 DEF HasJurisdiction, RequestOK, FlowOK, InputOK, Ids
    <2>2. <<q.target[1], v>> \in Ids /\ <<q.target[1], v>>[1] = q.target[1]
        BY <2>1 DEF Ids
    <2>3. holder[<<"jurisdiction", Hash[q.target[1]]>>] = x
        BY <1>7, HeldFacts DEF LockKey
    <2> QED
        BY <2>2, <2>3 DEF LockedStays, RowStep, Published
<1>8. ASSUME q.pc = "insert"
      PROVE  /\ ruleSets'[q.target] = None
             /\ \A v \in 1..(q.target[2] - 1) : ruleSets'[<<q.target[1], v>>] # None
    <2>1. q.op = "create" /\ q.target \in Ids /\ HasJurisdiction(q)
        BY <1>8 DEF RequestOK, FlowOK, InputOK, HasJurisdiction
    <2>2. q.target = <<q.target[1], q.target[2]>> /\ q.target[2] \in Versions
        BY <2>1, IdParts
    <2>3. \A v \in 1..(q.target[2] - 1) : v \in Versions
        BY <2>2, RuleSetAssumption DEF Versions
    <2>4. ruleSets[q.target] = None
        BY <1>8 DEF RequestOK, KnowsOK, Stored
    <2>5. ruleSets'[q.target] = None
        BY <2>1, <2>4, HeldFacts DEF LockedStays, LockKey
    <2> QED
        BY <1>7, <1>8, <2>1, <2>3, <2>5 DEF RequestOK, KnowsOK
<1>9. ASSUME q.pc = "publish"
      PROVE  ~OverlapExists(req[x])'
    <2> SUFFICES ASSUME NEW v \in Versions, Published(<<q.target[1], v>>)',
                        Overlaps(q.seen.envelope, ruleSets'[<<q.target[1], v>>].envelope)
                 PROVE  FALSE
        BY DEF OverlapExists, Used, Published, Overlaps
    <2>1. Published(<<q.target[1], v>>) /\ ruleSets'[<<q.target[1], v>>] = ruleSets[<<q.target[1], v>>]
        BY <1>7, <1>9 DEF HasJurisdiction
    <2> QED
        BY <1>9, <2>1 DEF RequestOK, KnowsOK, OverlapExists, Used, Published
<1>10. KnowsOK(req[x])'
    <2>1. (q.pc = "save" => IsDraftSeen(Stored(q), q.seen) /\ Stored(q).revision # MaxRevision)'
        BY <1>6 DEF RequestOK, KnowsOK, Stored, HasRow, IsDraftSeen
    <2>2. (q.pc \in {"searchOverlap", "publish"} =>
              Stored(q) = q.seen /\ q.seen.status = "DRAFT")'
        BY <1>6 DEF RequestOK, KnowsOK, Stored, HasRow
    <2> QED
        BY <1>4, <1>5, <1>8, <1>9, <2>1, <2>2 DEF KnowsOK, HasUser, Stored
<1> QED
    BY <1>1, <1>3, <1>10 DEF RequestOK

-----------------------------------------------------------------------------
(* Steps that change no row.                                               *)

LEMMA SameRows ==
    ASSUME TypeOK, UNCHANGED ruleSets
    PROVE  \A id \in Ids : RowStep(id)
<1> SUFFICES ASSUME NEW id \in Ids, ruleSets[id] # None
             PROVE  RowStep(id)
    BY DEF RowStep
<1>1. ruleSets[id].revision \in Int
    BY DEF TypeOK, RuleSet, Revisions
<1> QED
    BY <1>1 DEF RowStep

LEMMA SameRowsOK ==
    ASSUME RowsOK, UNCHANGED <<ruleSets, audit>>
    PROVE  RowsOK'
    BY DEF RowsOK, Counted, PublishedNeverOverlap, Covering, AuditCountsRevisions

\* A request moves to q, and may be granted a lock that nobody held.
LEMMA MoveInv ==
    ASSUME Inv, NEW r \in Requests, NEW q \in Request, req' = [req EXCEPT ![r] = q],
           UNCHANGED <<ruleSets, audit, authorized>>,
           holder' \in [Lockable -> Requests \cup {None}],
           \A l \in Lockable : holder'[l] = holder[l] \/ (holder[l] = None /\ holder'[l] = r),
           RequestOK(r)'
    PROVE  Inv'
<1>1. TypeOK'
    BY DEF Inv, TypeOK
<1>2. ASSUME NEW x \in Requests, x # r
      PROVE  RequestOK(x)'
    <2>1. RequestOK(x) /\ req'[x] = req[x] /\ x # None
        BY <1>2, RuleSetAssumption DEF Inv, TypeOK
    <2>2. \A l \in Lockable : holder'[l] = x <=> holder[l] = x
        BY <1>2, <2>1
    <2>3. LockedStays(x)
        BY DEF LockedStays, Published
    <2> QED
        BY <1>1, <2>1, <2>2, <2>3, SameRows, OthersKeep DEF Inv
<1> QED
    BY <1>1, <1>2, SameRowsOK DEF Inv

LEMMA BeginCreateInv == ASSUME Inv, NEW r \in Requests, BeginCreate(r) PROVE Inv'
<1>1. PICK u \in Users, j \in Jurisdictions, e \in Envelopes, c \in Contents :
        req' = [req EXCEPT ![r] =
                   [Begun("create", u, <<j, None>>) EXCEPT !.envelope = e, !.content = c]]
    BY DEF BeginCreate
<1> DEFINE q == [Begun("create", u, <<j, None>>) EXCEPT !.envelope = e, !.content = c]
<1>2. <<j, None>> \in Jurisdictions \X (Versions \cup {None})
    OBVIOUS
<1>3. /\ q \in Request
      /\ q.op = "create" /\ q.pc = "lockActor" /\ q.actor = u /\ q.target = <<j, None>>
      /\ q.envelope = e /\ q.content = c
    BY <1>2 DEF Begun, Flow, Idle, Request, Operations, Steps
<1>4. req' = [req EXCEPT ![r] = q] /\ UNCHANGED <<ruleSets, audit, authorized, holder>>
    BY <1>1 DEF BeginCreate
<1> HIDE DEF q
<1>5. req'[r] = q /\ RequestOK(r) /\ req[r].pc = "idle"
    BY <1>4 DEF BeginCreate, At, Inv, TypeOK
<1>6. LocksOK(r)'
    BY <1>3, <1>4, <1>5 DEF RequestOK, LocksOK, Holds, HasUser, HasJurisdiction, HasRow
<1>7. FlowOK(req[r])' /\ InputOK(req[r])' /\ KnowsOK(req[r])'
    BY <1>2, <1>3, <1>5 DEF FlowOK, InputOK, KnowsOK, HasUser
<1> QED
    BY <1>3, <1>4, <1>6, <1>7, MoveInv DEF RequestOK, Inv, TypeOK

LEMMA BeginEditInv == ASSUME Inv, NEW r \in Requests, BeginEdit(r) PROVE Inv'
<1>1. PICK u \in Users, id \in Ids, e \in Envelopes, c \in Contents :
        /\ ruleSets[id] # None /\ ruleSets[id].status = "DRAFT"
        /\ req' = [req EXCEPT ![r] =
                      [Begun("edit", u, id) EXCEPT !.seen = ruleSets[id],
                                                   !.envelope = e, !.content = c]]
    BY DEF BeginEdit
<1> DEFINE q == [Begun("edit", u, id) EXCEPT !.seen = ruleSets[id],
                                             !.envelope = e, !.content = c]
<1>2. ruleSets[id] \in RuleSet /\ ruleSets[id].revision \in Int
    BY <1>1 DEF Inv, TypeOK, RuleSet, Revisions
<1>3. /\ q \in Request
      /\ q.op = "edit" /\ q.pc = "lockActor" /\ q.actor = u /\ q.target = id
      /\ q.seen = ruleSets[id] /\ q.envelope = e /\ q.content = c
    <2>1. id \in Jurisdictions \X (Versions \cup {None})
        BY DEF Ids
    <2> QED
        BY <1>2, <2>1 DEF Begun, Flow, Idle, Request, Operations, Steps
<1>4. req' = [req EXCEPT ![r] = q] /\ UNCHANGED <<ruleSets, audit, authorized, holder>>
    BY <1>1 DEF BeginEdit
<1> HIDE DEF q
<1>5. req'[r] = q /\ RequestOK(r) /\ req[r].pc = "idle"
    BY <1>4 DEF BeginEdit, At, Inv, TypeOK
<1>6. LocksOK(r)'
    BY <1>3, <1>4, <1>5 DEF RequestOK, LocksOK, Holds, HasUser, HasJurisdiction, HasRow
<1>7. FlowOK(req[r])' /\ InputOK(req[r])'
    BY <1>1, <1>3, <1>4, <1>5 DEF FlowOK, InputOK, Stored
<1>8. KnowsOK(req[r])'
    BY <1>2, <1>3, <1>4, <1>5 DEF KnowsOK, SeenOK, Stored, HasUser
<1> QED
    BY <1>3, <1>4, <1>6, <1>7, <1>8, MoveInv DEF RequestOK, Inv, TypeOK

LEMMA BeginPublishInv == ASSUME Inv, NEW r \in Requests, BeginPublish(r) PROVE Inv'
<1>1. PICK u \in Users, id \in Ids :
        ruleSets[id] # None /\ req' = [req EXCEPT ![r] = Begun("publish", u, id)]
    BY DEF BeginPublish
<1> DEFINE q == Begun("publish", u, id)
<1>2. /\ q \in Request
      /\ q.op = "publish" /\ q.pc = "read" /\ q.actor = u /\ q.target = id
    <2>1. id \in Jurisdictions \X (Versions \cup {None})
        BY DEF Ids
    <2> QED
        BY <2>1 DEF Begun, Flow, Idle, Request, Operations, Steps
<1>3. req' = [req EXCEPT ![r] = q] /\ UNCHANGED <<ruleSets, audit, authorized, holder>>
    BY <1>1 DEF BeginPublish
<1> HIDE DEF q
<1>4. req'[r] = q /\ RequestOK(r) /\ req[r].pc = "idle"
    BY <1>3 DEF BeginPublish, At, Inv, TypeOK
<1>5. LocksOK(r)'
    BY <1>2, <1>3, <1>4 DEF RequestOK, LocksOK, Holds, HasUser, HasJurisdiction, HasRow
<1>6. FlowOK(req[r])' /\ InputOK(req[r])' /\ KnowsOK(req[r])'
    BY <1>1, <1>2, <1>3, <1>4 DEF FlowOK, InputOK, KnowsOK, HasUser, Stored
<1> QED
    BY <1>2, <1>3, <1>5, <1>6, MoveInv DEF RequestOK, Inv, TypeOK

\* A request at the next statement, as far as its own fields go.
LEMMA FollowingStep ==
    ASSUME NEW q \in Request, FlowOK(q), q.pc # "idle", q.pc \notin {"insert", "save", "publish"}
    PROVE  [q EXCEPT !.pc = Following(q)] \in Request
<1>1. Following(q) \in Steps
    BY DEF Following, Flow, FlowOK, Steps
<1> QED
    BY <1>1 DEF Request

LEMMA LockInv == ASSUME Inv, NEW r \in Requests, Lock(r) PROVE Inv'
<1> DEFINE p == req[r]
           q == [p EXCEPT !.pc = Following(p)]
           w == Wanted(p)
<1>1. /\ p \in Request /\ p.pc \in LockSteps /\ RequestOK(r)
      /\ p.pc = "lockActor" => p.actor \in authorized
      /\ holder[w] = None /\ holder' = [holder EXCEPT ![w] = r]
      /\ req' = [req EXCEPT ![r] = q]
      /\ UNCHANGED <<ruleSets, audit, authorized>>
    BY DEF Lock, Free, At, Inv, TypeOK
<1>2. /\ q \in Request
      /\ q.op = p.op /\ q.actor = p.actor /\ q.target = p.target /\ q.seen = p.seen
      /\ q.envelope = p.envelope /\ q.content = p.content
      /\ q.pc = Following(p)
    BY <1>1, FollowingStep DEF RequestOK, LockSteps, Request
<1>3. \/ p.op = "create" /\ p.pc = "lockActor" /\ q.pc = "lockJurisdiction"
      \/ p.op = "create" /\ p.pc = "lockJurisdiction" /\ q.pc = "readMaximum"
      \/ p.op = "edit" /\ p.pc = "lockActor" /\ q.pc = "lockRow"
      \/ p.op = "edit" /\ p.pc = "lockRow" /\ q.pc = "check"
      \/ p.op = "publish" /\ p.pc = "lockJurisdiction" /\ q.pc = "lockRow"
      \/ p.op = "publish" /\ p.pc = "lockRow" /\ q.pc = "recheck"
    BY <1>1, <1>2 DEF RequestOK, FlowOK, LockSteps, Following, Flow
<1>4. /\ p.pc = "lockActor" => w = <<"user", p.actor>>
      /\ p.pc = "lockJurisdiction" => w = <<"jurisdiction", LockKey(p)>>
      /\ p.pc = "lockRow" => w = <<"row", p.target>>
    BY DEF Wanted
<1>5. w \in Lockable
    <2>1. p.op = "create" => p.target[1] \in Jurisdictions
        BY <1>1 DEF RequestOK, InputOK, LockSteps
    <2>2. p.op = "publish" => p.target[1] \in Jurisdictions
        BY <1>1, IdParts DEF RequestOK, InputOK, LockSteps
    <2>3. p.op \in {"create", "publish"} => LockKey(p) \in Locks
        BY <2>1, <2>2, RuleSetAssumption DEF LockKey
    <2> QED
        BY <1>1, <1>3, <1>4, <2>3, LockableFacts DEF RequestOK, InputOK
<1>6. \A l \in Lockable : Holds(q, l) <=> Holds(p, l) \/ l = w
    BY <1>2, <1>3, <1>4 DEF Holds, HasUser, HasJurisdiction, HasRow, LockKey
<1> HIDE DEF q, w
<1>7. req'[r] = q /\ holder'[w] = r
      /\ \A l \in Lockable : l # w => holder'[l] = holder[l]
    BY <1>1, <1>5 DEF Inv, TypeOK
<1>8. LocksOK(r)'
    BY <1>1, <1>6, <1>7 DEF RequestOK, LocksOK, Holds, HasUser, HasJurisdiction, HasRow, LockKey
<1>9. FlowOK(req[r])' /\ InputOK(req[r])'
    BY <1>1, <1>2, <1>3, <1>7 DEF RequestOK, FlowOK, InputOK, Stored
<1>10. KnowsOK(req[r])'
    BY <1>1, <1>2, <1>3, <1>7 DEF RequestOK, KnowsOK, SeenOK, Stored, HasUser
<1>11. holder' \in [Lockable -> Requests \cup {None}]
    BY <1>1 DEF Inv, TypeOK
<1> QED
    BY <1>1, <1>2, <1>7, <1>8, <1>9, <1>10, <1>11, MoveInv DEF RequestOK

\* A statement that takes no lock: its transaction holds the same ones after it.
LEMMA StatementInv ==
    ASSUME Inv, NEW r \in Requests, NEW q \in Request, req' = [req EXCEPT ![r] = q],
           UNCHANGED <<ruleSets, audit, authorized, holder>>,
           q.op = req[r].op, q.actor = req[r].actor,
           \A l \in Lockable : Holds(q, l) <=> Holds(req[r], l),
           FlowOK(q), InputOK(req[r])', KnowsOK(req[r])'
    PROVE  Inv'
<1>1. req'[r] = q /\ LocksOK(r)
    BY DEF Inv, TypeOK, RequestOK
<1>2. LocksOK(r)'
    BY <1>1 DEF LocksOK, Holds, HasUser, HasJurisdiction, HasRow, LockKey
<1>3. FlowOK(req[r])'
    BY <1>1 DEF FlowOK
<1> QED
    BY <1>2, <1>3, MoveInv DEF RequestOK, Inv, TypeOK

\* The maximum of the versions of a jurisdiction is how many it has.
LEMMA MaximumOfUsed ==
    ASSUME NEW j \in Jurisdictions, NEW n \in 0..MaxVersion,
           \A v \in Versions : ruleSets[<<j, v>>] # None <=> v =< n
    PROVE  Maximum(Used(j)) = n
<1> DEFINE S == Used(j)
           Is(m) == m \in S \cup {0} /\ \A v \in S : v =< m
<1>1. S = {v \in Versions : v =< n}
    BY DEF Used
<1>2. n \in Int /\ 0 =< n /\ n =< MaxVersion /\ S \subseteq Int
    BY <1>1, RuleSetAssumption DEF Versions
<1>3. n \in S \cup {0}
    BY <1>1, <1>2, RuleSetAssumption DEF Versions
<1>4. Is(n)
    BY <1>1, <1>3
<1>5. ASSUME NEW m, Is(m)
      PROVE  m = n
    <2>1. m \in Int
        BY <1>2, <1>5
    <2>2. n =< m
        <3>1. CASE n \in S
            BY <1>5, <3>1
        <3>2. CASE n = 0
            BY <1>1, <1>5, <3>2 DEF Versions
        <3> QED
            BY <1>3, <3>1, <3>2
    <2>3. m =< n
        BY <1>1, <1>2, <1>5, <2>1
    <2> QED
        BY <1>2, <2>1, <2>2, <2>3
<1>6. Maximum(S) = CHOOSE m : Is(m)
    BY Zenon DEF Maximum
<1>7. Is(CHOOSE m : Is(m))
    <2> HIDE DEF Is
    <2> QED
        BY <1>4, Zenon
<1> HIDE DEF Is, S
<1> QED
    BY <1>5, <1>6, <1>7 DEF S

LEMMA ReadMaximumInv == ASSUME Inv, NEW r \in Requests, ReadMaximum(r) PROVE Inv'
<1> DEFINE p == req[r]
           j == p.target[1]
           m == Maximum(Used(j)) + 1
           q == [p EXCEPT !.pc = Following(p), !.target = <<j, m>>]
<1>1. /\ p \in Request /\ p.pc = "readMaximum" /\ p.op = "create" /\ RequestOK(r)
      /\ p.actor \in Users /\ p.envelope \in Envelopes /\ p.content \in Contents
      /\ j \in Jurisdictions
      /\ Maximum(Used(j)) # MaxVersion
      /\ UNCHANGED <<ruleSets, audit, authorized, holder>>
    BY DEF ReadMaximum, At, Inv, TypeOK, RequestOK, FlowOK, InputOK
<1>2. PICK n \in 0..MaxVersion : \A v \in Versions : ruleSets[<<j, v>>] # None <=> v =< n
    BY <1>1 DEF Inv, RowsOK, Counted
<1>3. /\ m = n + 1 /\ n # MaxVersion
      /\ m \in Versions /\ ruleSets[<<j, m>>] = None
      /\ \A v \in 1..(m - 1) : v \in Versions /\ v =< n
    BY <1>1, <1>2, MaximumOfUsed, RuleSetAssumption DEF Versions
<1> HIDE DEF m
<1>4. \A v \in 1..(m - 1) : ruleSets[<<j, v>>] # None
    BY <1>2, <1>3
<1>5. <<j, m>> \in Ids
    BY <1>1, <1>3 DEF Ids
<1>6. /\ q \in Request
      /\ q.op = "create" /\ q.pc = "insert" /\ q.actor = p.actor /\ q.target = <<j, m>>
      /\ q.envelope = p.envelope /\ q.content = p.content
    <2>1. Following(p) = "insert"
        BY <1>1 DEF Following, Flow
    <2>2. <<j, m>> \in Jurisdictions \X (Versions \cup {None})
        BY <1>5 DEF Ids
    <2> QED
        BY <1>1, <2>1, <2>2 DEF Request, Steps
<1>7. req' = [req EXCEPT ![r] = q]
    BY DEF ReadMaximum, m, Inv, TypeOK
<1> HIDE DEF q
<1>8. req'[r] = q
    BY <1>7 DEF Inv, TypeOK
<1>9. \A l \in Lockable : Holds(q, l) <=> Holds(p, l)
    BY <1>1, <1>6 DEF Holds, HasUser, HasJurisdiction, HasRow, LockKey
<1>10. FlowOK(q)
    BY <1>6 DEF FlowOK
<1>11. InputOK(req[r])'
    BY <1>1, <1>5, <1>6, <1>8 DEF InputOK, Ids
<1>12. KnowsOK(req[r])'
    BY <1>1, <1>3, <1>4, <1>6, <1>8 DEF KnowsOK, RequestOK, HasUser, Stored
<1> QED
    BY <1>1, <1>6, <1>7, <1>9, <1>10, <1>11, <1>12, StatementInv

LEMMA CheckDraftInv == ASSUME Inv, NEW r \in Requests, CheckDraft(r) PROVE Inv'
<1> DEFINE p == req[r]
           q == [p EXCEPT !.pc = Following(p)]
<1>1. /\ p \in Request /\ p.pc = "check" /\ p.op = "edit" /\ RequestOK(r)
      /\ IsDraftSeen(Stored(p), p.seen) /\ Stored(p).revision # MaxRevision
      /\ req' = [req EXCEPT ![r] = q]
      /\ UNCHANGED <<ruleSets, audit, authorized, holder>>
    BY DEF CheckDraft, At, Inv, TypeOK, RequestOK, FlowOK
<1>2. /\ q \in Request
      /\ q.op = p.op /\ q.actor = p.actor /\ q.target = p.target /\ q.seen = p.seen
      /\ q.envelope = p.envelope /\ q.content = p.content
      /\ q.pc = "save"
    BY <1>1, FollowingStep DEF RequestOK, Request, Following, Flow
<1> HIDE DEF q
<1>3. req'[r] = q
    BY <1>1 DEF Inv, TypeOK
<1>4. \A l \in Lockable : Holds(q, l) <=> Holds(p, l)
    BY <1>1, <1>2 DEF Holds, HasUser, HasJurisdiction, HasRow, LockKey
<1>5. FlowOK(q) /\ InputOK(req[r])'
    BY <1>1, <1>2, <1>3 DEF RequestOK, FlowOK, InputOK, Stored
<1>6. KnowsOK(req[r])'
    BY <1>1, <1>2, <1>3 DEF RequestOK, KnowsOK, SeenOK, HasUser, Stored, IsDraftSeen
<1> QED
    BY <1>1, <1>2, <1>4, <1>5, <1>6, StatementInv

LEMMA ReadTargetInv == ASSUME Inv, NEW r \in Requests, ReadTarget(r) PROVE Inv'
<1> DEFINE p == req[r]
           q == [p EXCEPT !.pc = Following(p)]
<1>1. /\ p \in Request /\ p.pc = "read" /\ p.op = "publish" /\ RequestOK(r)
      /\ req' = [req EXCEPT ![r] = q]
      /\ UNCHANGED <<ruleSets, audit, authorized, holder>>
    BY DEF ReadTarget, At, Inv, TypeOK, RequestOK, FlowOK
<1>2. /\ q \in Request
      /\ q.op = p.op /\ q.actor = p.actor /\ q.target = p.target
      /\ q.pc = "lockJurisdiction"
    BY <1>1, FollowingStep DEF RequestOK, Request, Following, Flow
<1> HIDE DEF q
<1>3. req'[r] = q
    BY <1>1 DEF Inv, TypeOK
<1>4. \A l \in Lockable : Holds(q, l) <=> Holds(p, l)
    BY <1>1, <1>2 DEF Holds, HasUser, HasJurisdiction, HasRow, LockKey
<1>5. FlowOK(q) /\ InputOK(req[r])' /\ KnowsOK(req[r])'
    BY <1>1, <1>2, <1>3 DEF RequestOK, FlowOK, InputOK, KnowsOK, HasUser, Stored
<1> QED
    BY <1>1, <1>2, <1>4, <1>5, StatementInv

LEMMA RecheckInv == ASSUME Inv, NEW r \in Requests, Recheck(r) PROVE Inv'
<1> DEFINE p == req[r]
           q == [p EXCEPT !.pc = Following(p), !.seen = Stored(p)]
<1>1. /\ p \in Request /\ p.pc = "recheck" /\ p.op = "publish" /\ RequestOK(r)
      /\ Stored(p).status = "DRAFT"
      /\ UNCHANGED <<ruleSets, audit, authorized, holder>>
    BY DEF Recheck, At, Inv, TypeOK, RequestOK, FlowOK
<1>2. Stored(p) \in RuleSet
    BY <1>1 DEF RequestOK, InputOK, Stored, Inv, TypeOK
<1>3. Following(p) = "searchOverlap"
    BY <1>1 DEF Following, Flow
<1>4. /\ q \in Request
      /\ q.op = p.op /\ q.actor = p.actor /\ q.target = p.target /\ q.seen = Stored(p)
      /\ q.pc = "searchOverlap"
    BY <1>1, <1>2, <1>3 DEF Request, Steps
<1>5. req' = [req EXCEPT ![r] = q]
    BY DEF Recheck, Inv, TypeOK
<1> HIDE DEF q
<1>6. req'[r] = q
    BY <1>5 DEF Inv, TypeOK
<1>7. \A l \in Lockable : Holds(q, l) <=> Holds(p, l)
    BY <1>1, <1>4 DEF Holds, HasUser, HasJurisdiction, HasRow, LockKey
<1>8. FlowOK(q) /\ InputOK(req[r])' /\ KnowsOK(req[r])'
    BY <1>1, <1>4, <1>6 DEF RequestOK, FlowOK, InputOK, KnowsOK, HasUser, Stored
<1> QED
    BY <1>1, <1>4, <1>5, <1>7, <1>8, StatementInv

LEMMA SearchOverlapInv == ASSUME Inv, NEW r \in Requests, SearchOverlap(r) PROVE Inv'
<1> DEFINE p == req[r]
           q == [p EXCEPT !.pc = Following(p)]
<1>1. /\ p \in Request /\ p.pc = "searchOverlap" /\ p.op = "publish" /\ RequestOK(r)
      /\ ~OverlapExists(p)
      /\ req' = [req EXCEPT ![r] = q]
      /\ UNCHANGED <<ruleSets, audit, authorized, holder>>
    BY DEF SearchOverlap, At, Inv, TypeOK, RequestOK, FlowOK
<1>2. /\ q \in Request
      /\ q.op = p.op /\ q.actor = p.actor /\ q.target = p.target /\ q.seen = p.seen
      /\ q.pc = "publish"
    BY <1>1, FollowingStep DEF RequestOK, Request, Following, Flow
<1> HIDE DEF q
<1>3. req'[r] = q
    BY <1>1 DEF Inv, TypeOK
<1>4. \A l \in Lockable : Holds(q, l) <=> Holds(p, l)
    BY <1>1, <1>2 DEF Holds, HasUser, HasJurisdiction, HasRow, LockKey
<1>5. ~OverlapExists(req[r])'
    BY <1>1, <1>2, <1>3 DEF OverlapExists, Used
<1>6. FlowOK(q) /\ InputOK(req[r])' /\ KnowsOK(req[r])'
    BY <1>1, <1>2, <1>3, <1>5 DEF RequestOK, FlowOK, InputOK, KnowsOK, HasUser, Stored
<1> QED
    BY <1>1, <1>2, <1>4, <1>6, StatementInv

-----------------------------------------------------------------------------
(* The ends of transactions.                                               *)

\* A transaction ends having changed no row but what it had locked.
LEMMA EndInv ==
    ASSUME Inv, NEW r \in Requests, Release(r), UNCHANGED authorized,
           ruleSets' \in [Ids -> RuleSet \cup {None}],
           audit' \in [Ids -> Seq(AuditEntry)],
           \A id \in Ids : RowStep(id),
           \A id \in Ids : ruleSets[id] # None /\ ruleSets'[id] # ruleSets[id]
               => holder[<<"row", id>>] = r,
           \A id \in Ids :
               (ruleSets[id] = None /\ ruleSets'[id] # None) \/ (Published(id)' /\ ~Published(id))
               => holder[<<"jurisdiction", Hash[id[1]]>>] = r,
           RowsOK'
    PROVE  Inv'
<1>1. TypeOK'
    BY IdleInRequest DEF Release, Inv, TypeOK
<1>2. req'[r] = Idle /\ r # None
    BY RuleSetAssumption DEF Release, Inv, TypeOK
<1>3. RequestOK(r)'
    <2>1. LocksOK(r)'
        BY <1>2 DEF Release, LocksOK, Holds, HasUser, HasJurisdiction, HasRow, Idle
    <2>2. FlowOK(req[r])' /\ InputOK(req[r])' /\ KnowsOK(req[r])'
        BY <1>2, RuleSetAssumption DEF FlowOK, InputOK, KnowsOK, HasUser, Idle
    <2> QED
        BY <2>1, <2>2 DEF RequestOK
<1>4. ASSUME NEW x \in Requests, x # r
      PROVE  RequestOK(x)'
    <2>1. RequestOK(x) /\ req'[x] = req[x] /\ x # None
        BY <1>4, RuleSetAssumption DEF Release, Inv, TypeOK
    <2>2. \A l \in Lockable : holder'[l] = x <=> holder[l] = x
        BY <1>4, <2>1 DEF Release
    <2>3. LockedStays(x)
        BY <1>4 DEF LockedStays
    <2> QED
        BY <1>1, <2>1, <2>2, <2>3, OthersKeep DEF Inv
<1> QED
    BY <1>1, <1>3, <1>4 DEF Inv

LEMMA StopInv == ASSUME Inv, NEW r \in Requests, Refuse(r) \/ Rollback(r) PROVE Inv'
<1>1. Release(r) /\ UNCHANGED <<ruleSets, audit, authorized>>
    BY DEF Refuse, Rollback
<1>2. \A id \in Ids : Published(id)' <=> Published(id)
    BY <1>1 DEF Published
<1> QED
    BY <1>1, <1>2, SameRows, SameRowsOK, EndInv DEF Inv, TypeOK

LEMMA AppendFacts ==
    ASSUME NEW S, NEW s \in Seq(S), NEW e \in S
    PROVE  /\ Append(s, e) \in Seq(S)
           /\ Len(s) \in Nat /\ Len(Append(s, e)) = Len(s) + 1
           /\ \A i \in 1..Len(s) : Append(s, e)[i] = s[i]
           /\ Append(s, e)[Len(s) + 1] = e
    OBVIOUS

LEMMA InsertInv == ASSUME Inv, NEW r \in Requests, Insert(r) PROVE Inv'
<1> DEFINE q == req[r]
           id == q.target
           row == [revision |-> 1, envelope |-> q.envelope, content |-> q.content,
                   status |-> "DRAFT"]
           entry == [action |-> "CREATE_PAYROLL_RULE_SET_DRAFT", userId |-> q.actor,
                     revision |-> 1]
<1>1. /\ q.pc = "insert" /\ RequestOK(r)
      /\ ruleSets' = [ruleSets EXCEPT ![id] = row]
      /\ audit' = [audit EXCEPT ![id] = Append(@, entry)]
      /\ Release(r) /\ UNCHANGED authorized
    BY DEF Insert, At, Log, Inv
<1>2. /\ q.op = "create" /\ id \in Ids /\ q.actor \in Users
      /\ q.envelope \in Envelopes /\ q.content \in Contents
      /\ ruleSets[id] = None
      /\ \A v \in 1..(id[2] - 1) : ruleSets[<<id[1], v>>] # None
    BY <1>1 DEF RequestOK, FlowOK, InputOK, KnowsOK, Stored
<1>3. /\ row \in RuleSet /\ row # None
      /\ row.revision = 1 /\ row.status = "DRAFT"
      /\ entry \in AuditEntry /\ entry.revision = 1
    BY <1>2, RuleSetAssumption DEF RuleSet, Revisions, AuditEntry, Actions
<1> HIDE DEF row, entry
<1>4. /\ ruleSets' \in [Ids -> RuleSet \cup {None}]
      /\ ruleSets'[id] = row
      /\ \A i \in Ids : i # id => ruleSets'[i] = ruleSets[i]
    BY <1>1, <1>2, <1>3 DEF Inv, TypeOK
<1>5. /\ audit \in [Ids -> Seq(AuditEntry)]
      /\ audit' \in [Ids -> Seq(AuditEntry)]
      /\ audit'[id] = Append(audit[id], entry)
      /\ \A i \in Ids : i # id => audit'[i] = audit[i]
    BY <1>1, <1>2, <1>3, AppendFacts DEF Inv, TypeOK
<1>6. \A i \in Ids : RowStep(i)
    <2> SUFFICES ASSUME NEW i \in Ids, ruleSets[i] # None
                 PROVE  RowStep(i)
        BY DEF RowStep
    <2>1. ruleSets'[i] = ruleSets[i] /\ ruleSets[i].revision \in Int
        BY <1>2, <1>4 DEF Inv, TypeOK, RuleSet, Revisions
    <2> QED
        BY <2>1 DEF RowStep
<1>7. holder[<<"jurisdiction", Hash[id[1]]>>] = r
    BY <1>1, HeldFacts DEF HasJurisdiction, LockKey
<1>8. Counted'
    <2> SUFFICES ASSUME NEW j \in Jurisdictions
                 PROVE  \E n \in 0..MaxVersion :
                            \A v \in Versions : ruleSets'[<<j, v>>] # None <=> v =< n
        BY DEF Counted
    <2>1. PICK n \in 0..MaxVersion : \A v \in Versions : ruleSets[<<j, v>>] # None <=> v =< n
        BY DEF Inv, RowsOK, Counted
    <2>2. \A v \in Versions : <<j, v>> \in Ids /\ <<j, v>>[1] = j /\ <<j, v>>[2] = v
        BY DEF Ids
    <2>3. CASE j # id[1]
        BY <1>4, <2>1, <2>2, <2>3
    <2>4. CASE j = id[1]
        <3>1. id[2] \in Versions /\ id = <<j, id[2]>>
            BY <1>2, <2>4, IdParts
        <3>2. n \in Int /\ id[2] \in Int /\ id[2] >= 1 /\ id[2] =< MaxVersion /\ MaxVersion \in Int
            BY <3>1, RuleSetAssumption DEF Versions
        <3>3. ~(id[2] =< n)
            BY <1>2, <2>1, <3>1
        <3>4. id[2] - 1 =< n
            <4>1. CASE id[2] = 1
                BY <3>2, <4>1
            <4>2. CASE id[2] # 1
                <5>1. id[2] - 1 \in 1..(id[2] - 1) /\ id[2] - 1 \in Versions
                    BY <3>2, <4>2 DEF Versions
                <5> QED
                    BY <1>2, <2>1, <2>4, <5>1
            <4> QED
                BY <4>1, <4>2
        <3>5. id[2] = n + 1
            BY <3>2, <3>3, <3>4
        <3>6. ASSUME NEW v \in Versions
              PROVE  ruleSets'[<<j, v>>] # None <=> v =< n + 1
            <4>1. CASE v = id[2]
                BY <1>3, <1>4, <3>1, <3>2, <3>5, <4>1
            <4>2. CASE v # id[2]
                <5>1. <<j, v>> # id /\ v \in Int
                    BY <2>2, <4>2 DEF Versions
                <5> QED
                    BY <1>4, <2>1, <2>2, <3>2, <3>5, <4>2, <5>1
            <4> QED
                BY <4>1, <4>2
        <3>7. n + 1 \in 0..MaxVersion
            BY <3>2, <3>5
        <3> QED
            BY <3>6, <3>7
    <2> QED
        BY <2>3, <2>4
<1>9. PublishedNeverOverlap'
    <2>1. \A i \in Ids, day \in Days : Covering(i, day)' => Covering(i, day)
        BY <1>3, <1>4 DEF Covering
    <2>2. \A j \in Jurisdictions, v \in Versions : <<j, v>> \in Ids
        BY DEF Ids
    <2> QED
        BY <2>1, <2>2 DEF Inv, RowsOK, PublishedNeverOverlap
<1>10. AuditCountsRevisions'
    <2>1. Len(audit[id]) = 0
        BY <1>2 DEF Inv, RowsOK, AuditCountsRevisions
    <2>2. Len(audit'[id]) = 1 /\ audit'[id][1] = entry
        BY <1>2, <1>3, <1>5, <2>1, AppendFacts
    <2>3. \A i \in 1..1 : audit'[id][i].revision = i
        BY <1>3, <2>2
    <2>4. ASSUME NEW i \in Ids
          PROVE  LET n == Len(audit'[i])
                     new == ruleSets'[i]
                 IN  IF new = None THEN n = 0
                     ELSE /\ n = new.revision + (IF new.status = "PUBLISHED" THEN 1 ELSE 0)
                          /\ \A k \in 1..new.revision : audit'[i][k].revision = k
        <3>1. CASE i = id
            <4>1. /\ ruleSets'[i] # None /\ ruleSets'[i].revision = 1
                  /\ ruleSets'[i].status = "DRAFT"
                  /\ Len(audit'[i]) = 1
                BY <1>3, <1>4, <2>2, <3>1
            <4> QED
                BY <2>3, <3>1, <4>1
        <3>2. CASE i # id
            BY <1>4, <1>5, <3>2 DEF Inv, RowsOK, AuditCountsRevisions
        <3> QED
            BY <3>1, <3>2
    <2> QED
        BY <2>4 DEF AuditCountsRevisions
<1>11. \A i \in Ids : Published(i)' => Published(i)
    BY <1>3, <1>4 DEF Published
<1> QED
    BY <1>1, <1>2, <1>4, <1>5, <1>6, <1>7, <1>8, <1>9, <1>10, <1>11, EndInv DEF RowsOK

\* A row that there was is written under its lock; which versions there are does
\* not change.
LEMMA WriteKeepsCount ==
    ASSUME Inv, NEW id \in Ids, ruleSets[id] # None, ruleSets'[id] # None,
           \A i \in Ids : i # id => ruleSets'[i] = ruleSets[i]
    PROVE  Counted'
<1>1. \A j \in Jurisdictions, v \in Versions :
        <<j, v>> \in Ids /\ (ruleSets'[<<j, v>>] # None <=> ruleSets[<<j, v>>] # None)
    BY DEF Ids
<1> QED
    BY <1>1 DEF Inv, RowsOK, Counted

LEMMA SaveDraftInv == ASSUME Inv, NEW r \in Requests, SaveDraft(r) PROVE Inv'
<1> DEFINE q == req[r]
           id == q.target
           row == [ruleSets[id] EXCEPT !.revision = q.seen.revision + 1,
                                       !.envelope = q.envelope, !.content = q.content]
           entry == [action |-> "EDIT_PAYROLL_RULE_SET_DRAFT", userId |-> q.actor,
                     revision |-> q.seen.revision + 1]
<1>1. /\ q.pc = "save" /\ RequestOK(r)
      /\ ruleSets' = [ruleSets EXCEPT ![id] = row]
      /\ audit' = [audit EXCEPT ![id] = Append(@, entry)]
      /\ Release(r) /\ UNCHANGED authorized
    BY DEF SaveDraft, At, Log, Inv
<1>2. /\ q.op = "edit" /\ id \in Ids /\ q.actor \in Users
      /\ q.envelope \in Envelopes /\ q.content \in Contents
      /\ ruleSets[id] # None /\ ruleSets[id] \in RuleSet
      /\ ruleSets[id].status = "DRAFT" /\ ruleSets[id].revision = q.seen.revision
      /\ ruleSets[id].revision # MaxRevision
    BY <1>1 DEF RequestOK, FlowOK, InputOK, KnowsOK, Stored, IsDraftSeen, Inv, TypeOK
<1>3. /\ q.seen.revision \in Revisions /\ q.seen.revision \in Nat
      /\ q.seen.revision + 1 \in Revisions
    BY <1>2, RuleSetAssumption DEF RuleSet, Revisions
<1>4. /\ row \in RuleSet /\ row # None
      /\ row.revision = q.seen.revision + 1 /\ row.status = "DRAFT"
      /\ entry \in AuditEntry /\ entry.revision = q.seen.revision + 1
    <2>1. row \in RuleSet /\ row.revision = q.seen.revision + 1 /\ row.status = "DRAFT"
        BY <1>2, <1>3 DEF RuleSet
    <2>2. entry \in AuditEntry /\ entry.revision = q.seen.revision + 1
        BY <1>2, <1>3 DEF AuditEntry, Actions
    <2> HIDE DEF row
    <2> QED
        BY <2>1, <2>2, RuleSetAssumption
<1> HIDE DEF row, entry
<1>5. /\ ruleSets' \in [Ids -> RuleSet \cup {None}]
      /\ ruleSets'[id] = row
      /\ \A i \in Ids : i # id => ruleSets'[i] = ruleSets[i]
    BY <1>1, <1>2, <1>4 DEF Inv, TypeOK
<1>6. /\ audit \in [Ids -> Seq(AuditEntry)]
      /\ audit' \in [Ids -> Seq(AuditEntry)]
      /\ audit'[id] = Append(audit[id], entry)
      /\ \A i \in Ids : i # id => audit'[i] = audit[i]
    BY <1>1, <1>2, <1>4, AppendFacts DEF Inv, TypeOK
<1>7. \A i \in Ids : RowStep(i)
    <2> SUFFICES ASSUME NEW i \in Ids, ruleSets[i] # None
                 PROVE  RowStep(i)
        BY DEF RowStep
    <2>1. ruleSets[i].revision \in Int
        BY DEF Inv, TypeOK, RuleSet, Revisions
    <2>2. CASE i = id
        BY <1>2, <1>3, <1>4, <1>5, <2>2 DEF RowStep
    <2>3. CASE i # id
        BY <1>5, <2>1, <2>3 DEF RowStep
    <2> QED
        BY <2>2, <2>3
<1>8. holder[<<"row", id>>] = r
    BY <1>1, HeldFacts DEF HasRow
<1>9. Counted'
    BY <1>2, <1>4, <1>5, WriteKeepsCount
<1>10. PublishedNeverOverlap'
    <2>1. \A i \in Ids, day \in Days : Covering(i, day)' => Covering(i, day)
        BY <1>4, <1>5 DEF Covering
    <2>2. \A j \in Jurisdictions, v \in Versions : <<j, v>> \in Ids
        BY DEF Ids
    <2> QED
        BY <2>1, <2>2 DEF Inv, RowsOK, PublishedNeverOverlap
<1>11. AuditCountsRevisions'
    <2>1. /\ Len(audit[id]) = q.seen.revision
          /\ \A i \in 1..q.seen.revision : audit[id][i].revision = i
        BY <1>2, <1>3 DEF Inv, RowsOK, AuditCountsRevisions
    <2>2. /\ Len(audit'[id]) = q.seen.revision + 1
          /\ \A i \in 1..q.seen.revision : audit'[id][i] = audit[id][i]
          /\ audit'[id][q.seen.revision + 1] = entry
        BY <1>2, <1>4, <1>6, <2>1, AppendFacts
    <2>3. \A i \in 1..(q.seen.revision + 1) : audit'[id][i].revision = i
        <3> SUFFICES ASSUME NEW i \in 1..(q.seen.revision + 1)
                     PROVE  audit'[id][i].revision = i
            OBVIOUS
        <3>1. CASE i = q.seen.revision + 1
            BY <1>4, <2>2, <3>1
        <3>2. CASE i # q.seen.revision + 1
            <4>1. i \in 1..q.seen.revision
                BY <1>3, <3>2
            <4> QED
                BY <2>1, <2>2, <4>1
        <3> QED
            BY <3>1, <3>2
    <2>4. ASSUME NEW i \in Ids
          PROVE  LET n == Len(audit'[i])
                     new == ruleSets'[i]
                 IN  IF new = None THEN n = 0
                     ELSE /\ n = new.revision + (IF new.status = "PUBLISHED" THEN 1 ELSE 0)
                          /\ \A k \in 1..new.revision : audit'[i][k].revision = k
        <3>1. CASE i = id
            <4>1. /\ ruleSets'[i] # None /\ ruleSets'[i].revision = q.seen.revision + 1
                  /\ ruleSets'[i].status = "DRAFT"
                  /\ Len(audit'[i]) = q.seen.revision + 1
                BY <1>4, <1>5, <2>2, <3>1
            <4> QED
                BY <1>3, <2>3, <3>1, <4>1
        <3>2. CASE i # id
            BY <1>5, <1>6, <3>2 DEF Inv, RowsOK, AuditCountsRevisions
        <3> QED
            BY <3>1, <3>2
    <2> QED
        BY <2>4 DEF AuditCountsRevisions
<1>12. \A i \in Ids : Published(i)' => Published(i)
    BY <1>4, <1>5 DEF Published
<1> QED
    BY <1>1, <1>2, <1>5, <1>6, <1>7, <1>8, <1>9, <1>10, <1>11, <1>12, EndInv DEF RowsOK

\* Envelopes of which both cover a day overlap.
LEMMA CommonDayOverlaps ==
    ASSUME NEW e \in Envelopes, NEW f \in Envelopes, NEW day \in Days,
           e.from =< day, e.to # None => day < e.to,
           f.from =< day, f.to # None => day < f.to
    PROVE  Overlaps(e, f)
<1>1. /\ e.from \in Int /\ f.from \in Int /\ day \in Int
      /\ e.to # None => e.to \in Int
      /\ f.to # None => f.to \in Int
    BY RuleSetAssumption DEF Envelopes, Days
<1> QED
    BY <1>1 DEF Overlaps

\* What a publication changes, and what it has made sure of.
LEMMA PublishFacts ==
    ASSUME Inv, NEW r \in Requests, Publish(r)
    PROVE  LET id == req[r].target
               old == ruleSets[id]
               new == ruleSets'[id] IN
           /\ req[r].pc = "publish" /\ id \in Ids /\ req[r].actor \in Users
           /\ old # None /\ old \in RuleSet /\ old.status = "DRAFT" /\ old = req[r].seen
           /\ new # None /\ new \in RuleSet /\ new.status = "PUBLISHED"
           /\ new.revision = old.revision /\ new.envelope = old.envelope
           /\ new.content = old.content
           /\ ruleSets' \in [Ids -> RuleSet \cup {None}]
           /\ \A i \in Ids : i # id => ruleSets'[i] = ruleSets[i]
           /\ ~OverlapExists(req[r])
<1> DEFINE q == req[r]
           id == q.target
           row == [ruleSets[id] EXCEPT !.status = "PUBLISHED"]
<1>1. q.pc = "publish" /\ RequestOK(r) /\ ruleSets' = [ruleSets EXCEPT ![id] = row]
    BY DEF Publish, At, Inv
<1>2. /\ id \in Ids /\ q.actor \in Users
      /\ ruleSets[id] # None /\ ruleSets[id] \in RuleSet
      /\ ruleSets[id] = q.seen /\ q.seen.status = "DRAFT"
      /\ ~OverlapExists(q)
    BY <1>1 DEF RequestOK, FlowOK, InputOK, KnowsOK, Stored, Inv, TypeOK
<1>3. /\ row \in RuleSet /\ row.status = "PUBLISHED"
      /\ row.revision = ruleSets[id].revision /\ row.envelope = ruleSets[id].envelope
      /\ row.content = ruleSets[id].content
    BY <1>2 DEF RuleSet
<1> HIDE DEF row
<1>4. row # None
    BY <1>3, RuleSetAssumption
<1> QED
    BY <1>1, <1>2, <1>3, <1>4 DEF Inv, TypeOK

LEMMA PublishInv == ASSUME Inv, NEW r \in Requests, Publish(r) PROVE Inv'
<1> DEFINE q == req[r]
           id == q.target
           revision == ruleSets[id].revision
           entry == [action |-> "PUBLISH_PAYROLL_RULE_SET", userId |-> q.actor,
                     revision |-> revision]
<1>1. /\ RequestOK(r)
      /\ audit' = [audit EXCEPT ![id] = Append(@, entry)]
      /\ Release(r) /\ UNCHANGED authorized
    BY DEF Publish, Log, Stored, Inv
<1>2. /\ q.pc = "publish" /\ id \in Ids /\ q.actor \in Users
      /\ ruleSets[id] # None /\ ruleSets[id] \in RuleSet
      /\ ruleSets[id].status = "DRAFT" /\ ruleSets[id] = q.seen
      /\ ruleSets'[id] # None /\ ruleSets'[id].status = "PUBLISHED"
      /\ ruleSets'[id].revision = revision /\ ruleSets'[id].envelope = ruleSets[id].envelope
      /\ ruleSets' \in [Ids -> RuleSet \cup {None}]
      /\ \A i \in Ids : i # id => ruleSets'[i] = ruleSets[i]
      /\ ~OverlapExists(q)
    BY PublishFacts
<1>3. revision \in Revisions /\ revision \in Nat
    BY <1>2, RuleSetAssumption DEF RuleSet, Revisions
<1>4. entry \in AuditEntry
    BY <1>2, <1>3 DEF AuditEntry, Actions
<1> HIDE DEF entry
<1>5. /\ audit \in [Ids -> Seq(AuditEntry)]
      /\ audit' \in [Ids -> Seq(AuditEntry)]
      /\ audit'[id] = Append(audit[id], entry)
      /\ \A i \in Ids : i # id => audit'[i] = audit[i]
    BY <1>1, <1>2, <1>4, AppendFacts DEF Inv, TypeOK
<1>6. \A i \in Ids : RowStep(i)
    <2> SUFFICES ASSUME NEW i \in Ids, ruleSets[i] # None
                 PROVE  RowStep(i)
        BY DEF RowStep
    <2>1. ruleSets[i].revision \in Int
        BY DEF Inv, TypeOK, RuleSet, Revisions
    <2>2. CASE i = id
        BY <1>2, <1>3, <2>2 DEF RowStep
    <2>3. CASE i # id
        BY <1>2, <2>1, <2>3 DEF RowStep
    <2> QED
        BY <2>2, <2>3
<1>7. /\ holder[<<"row", id>>] = r
      /\ holder[<<"jurisdiction", Hash[id[1]]>>] = r
    BY <1>1, <1>2, HeldFacts DEF HasRow, HasJurisdiction, LockKey
<1>8. Counted'
    BY <1>2, WriteKeepsCount
<1>9. ASSUME NEW k \in Ids, k = id, NEW i \in Ids, i # k, i[1] = k[1], NEW day \in Days,
             Covering(i, day)', Covering(k, day)'
      PROVE  FALSE
    <2>1. i = <<id[1], i[2]>> /\ i[2] \in Versions
        BY <1>9, IdParts
    <2>2. i[2] \in Used(id[1]) /\ ruleSets[i].status = "PUBLISHED"
        BY <1>2, <1>9, <2>1 DEF Used, Covering
    <2>3. ruleSets[i].envelope \in Envelopes /\ q.seen.envelope \in Envelopes
        BY <1>2, <1>9 DEF Covering, RuleSet
    <2>4. Overlaps(q.seen.envelope, ruleSets[i].envelope)
        <3> DEFINE e == q.seen.envelope
                   f == ruleSets[i].envelope
        <3>1. e.from =< day /\ (e.to # None => day < e.to)
            BY <1>2, <1>9 DEF Covering
        <3>2. f.from =< day /\ (f.to # None => day < f.to)
            BY <1>2, <1>9 DEF Covering
        <3> HIDE DEF e, f
        <3> QED
            BY <2>3, <3>1, <3>2, CommonDayOverlaps DEF e, f
    <2> QED
        BY <1>2, <2>1, <2>2, <2>4 DEF OverlapExists
<1>10. PublishedNeverOverlap'
    <2> SUFFICES ASSUME NEW j \in Jurisdictions, NEW day \in Days,
                        NEW v \in Versions, NEW w \in Versions,
                        Covering(<<j, v>>, day)', Covering(<<j, w>>, day)', v # w
                 PROVE  FALSE
        BY DEF PublishedNeverOverlap
    <2>1. /\ <<j, v>> \in Ids /\ <<j, w>> \in Ids /\ <<j, v>> # <<j, w>>
          /\ <<j, v>>[1] = j /\ <<j, w>>[1] = j
        BY DEF Ids
    <2>2. CASE <<j, v>> = id
        BY <1>9, <2>1, <2>2
    <2>3. CASE <<j, w>> = id
        BY <1>9, <2>1, <2>3
    <2>4. CASE <<j, v>> # id /\ <<j, w>> # id
        <3>1. Covering(<<j, v>>, day) /\ Covering(<<j, w>>, day)
            BY <1>2, <2>1, <2>4 DEF Covering
        <3> QED
            BY <3>1 DEF Inv, RowsOK, PublishedNeverOverlap
    <2> QED
        BY <2>2, <2>3, <2>4
<1>11. AuditCountsRevisions'
    <2>1. /\ Len(audit[id]) = revision
          /\ \A i \in 1..revision : audit[id][i].revision = i
        BY <1>2, <1>3 DEF Inv, RowsOK, AuditCountsRevisions
    <2>2. /\ Len(audit'[id]) = revision + 1
          /\ \A i \in 1..revision : audit'[id][i] = audit[id][i]
        BY <1>2, <1>4, <1>5, <2>1, AppendFacts
    <2>3. ASSUME NEW i \in Ids
          PROVE  LET n == Len(audit'[i])
                     new == ruleSets'[i]
                 IN  IF new = None THEN n = 0
                     ELSE /\ n = new.revision + (IF new.status = "PUBLISHED" THEN 1 ELSE 0)
                          /\ \A k \in 1..new.revision : audit'[i][k].revision = k
        <3>1. CASE i = id
            <4>1. /\ ruleSets'[i] # None /\ ruleSets'[i].revision = revision
                  /\ ruleSets'[i].status = "PUBLISHED"
                  /\ Len(audit'[i]) = revision + 1
                BY <1>2, <2>2, <3>1
            <4>2. \A k \in 1..revision : audit'[i][k].revision = k
                BY <2>1, <2>2, <3>1
            <4> QED
                BY <1>3, <4>1, <4>2
        <3>2. CASE i # id
            BY <1>2, <1>5, <3>2 DEF Inv, RowsOK, AuditCountsRevisions
        <3> QED
            BY <3>1, <3>2
    <2> QED
        BY <2>3 DEF AuditCountsRevisions
<1>12. \A i \in Ids : ruleSets'[i] # ruleSets[i] => i = id
    BY <1>2
<1>13. \A i \in Ids : (Published(i)' /\ ~Published(i)) => i = id
    BY <1>2 DEF Published
<1> QED
    BY <1>1, <1>2, <1>5, <1>6, <1>7, <1>8, <1>10, <1>11, <1>12, <1>13, EndInv DEF RowsOK

\* An actor whose row is locked does not change.
LEMMA ChangeActorInv == ASSUME Inv, NEW u \in Users, ChangeActor(u) PROVE Inv'
<1>1. /\ holder[<<"user", u>>] = None
      /\ \A w \in Users : w # u => (w \in authorized => w \in authorized')
      /\ UNCHANGED <<ruleSets, audit, holder, req>>
    BY DEF ChangeActor, Free
<1>2. TypeOK'
    BY DEF ChangeActor, Inv, TypeOK
<1>3. ASSUME NEW x \in Requests
      PROVE  RequestOK(x)'
    <2>1. RequestOK(x) /\ req'[x] = req[x] /\ x # None
        BY <1>1, RuleSetAssumption DEF Inv
    <2>2. LockedStays(x)
        BY <1>1, <2>1 DEF LockedStays, Published
    <2> QED
        BY <1>1, <1>2, <2>1, <2>2, SameRows, OthersKeep DEF Inv
<1> QED
    BY <1>1, <1>2, <1>3, SameRowsOK DEF Inv

-----------------------------------------------------------------------------
(* The theorems.                                                           *)

LEMMA InitInv == Init => Inv
<1> SUFFICES ASSUME Init PROVE Inv
    OBVIOUS
<1>1. TypeOK
    BY IdleInRequest DEF Init, TypeOK
<1>2. ASSUME NEW r \in Requests
      PROVE  RequestOK(r)
    <2>1. req[r] = Idle /\ r # None
        BY RuleSetAssumption DEF Init
    <2>2. LocksOK(r)
        BY <2>1 DEF Init, LocksOK, Holds, HasUser, HasJurisdiction, HasRow, Idle
    <2> QED
        BY <2>1, <2>2 DEF RequestOK, FlowOK, InputOK, KnowsOK, Idle
<1>3. Counted
    <2>1. \A j \in Jurisdictions, v \in Versions : ruleSets[<<j, v>>] = None /\ ~(v =< 0)
        BY DEF Init, Ids, Versions
    <2>2. 0 \in 0..MaxVersion
        BY RuleSetAssumption
    <2> QED
        BY <2>1, <2>2 DEF Counted
<1>4. PublishedNeverOverlap
    <2>1. \A j \in Jurisdictions, v \in Versions : ruleSets[<<j, v>>] = None
        BY DEF Init, Ids
    <2> QED
        BY <2>1 DEF PublishedNeverOverlap, Covering
<1>5. AuditCountsRevisions
    BY DEF Init, AuditCountsRevisions
<1> QED
    BY <1>1, <1>2, <1>3, <1>4, <1>5 DEF Inv, RowsOK

LEMMA NextInv == Inv /\ [Next]_vars => Inv'
<1> SUFFICES ASSUME Inv, [Next]_vars PROVE Inv'
    OBVIOUS
<1>1. CASE UNCHANGED vars
    <2>1. UNCHANGED <<ruleSets, audit, authorized, holder, req>>
        BY <1>1 DEF vars
    <2>2. TypeOK'
        BY <2>1 DEF Inv, TypeOK
    <2>3. ASSUME NEW x \in Requests
          PROVE  RequestOK(x)'
        <3>1. RequestOK(x) /\ LockedStays(x)
            BY <2>1 DEF Inv, LockedStays, Published
        <3> QED
            BY <2>1, <2>2, <3>1, SameRows, OthersKeep DEF Inv
    <2> QED
        BY <2>1, <2>2, <2>3, SameRowsOK DEF Inv
<1>2. ASSUME NEW r \in Requests, Begin(r)
      PROVE  Inv'
    BY <1>2, BeginCreateInv, BeginEditInv, BeginPublishInv DEF Begin
<1>3. ASSUME NEW r \in Requests, Work(r)
      PROVE  Inv'
    BY <1>3, LockInv, ReadMaximumInv, InsertInv, CheckDraftInv, SaveDraftInv, ReadTargetInv,
       RecheckInv, SearchOverlapInv, PublishInv, StopInv DEF Work
<1>4. ASSUME NEW r \in Requests, Rollback(r)
      PROVE  Inv'
    BY <1>4, StopInv
<1> QED
    BY <1>1, <1>2, <1>3, <1>4, ChangeActorInv DEF Next

LEMMA InvHolds == Spec => []Inv
    BY InitInv, NextInv, PTL DEF Spec

\* Every reachable state has its type.
THEOREM RuleSetsTypeCorrect == Spec => []TypeOK
<1>1. Inv => TypeOK
    BY DEF Inv
<1> QED
    BY <1>1, InvHolds, PTL

\* The published rule sets of a jurisdiction share no day.
THEOREM PublishedAreDisjoint == Spec => []PublishedNeverOverlap
<1>1. Inv => PublishedNeverOverlap
    BY DEF Inv, RowsOK
<1> QED
    BY <1>1, InvHolds, PTL

\* A creation's version is still free and a publication's search still right when
\* they write.
THEOREM ReadsStandUntilWritten == Spec => []ReadsStand
<1>1. Inv => ReadsStand
    <2> SUFFICES ASSUME Inv PROVE ReadsStand
        OBVIOUS
    <2>1. \A r \in Requests : At(r, "insert") => Stored(req[r]) = None
        BY DEF Inv, RequestOK, KnowsOK, At
    <2>2. ASSUME NEW id \in Ids, ruleSets[id] # None, NEW v \in 1..id[2]
          PROVE  ruleSets[<<id[1], v>>] # None
        <3>1. id[1] \in Jurisdictions /\ id[2] \in Versions /\ id = <<id[1], id[2]>>
            BY IdParts
        <3>2. PICK n \in 0..MaxVersion :
                \A w \in Versions : ruleSets[<<id[1], w>>] # None <=> w =< n
            BY <3>1 DEF Inv, RowsOK, Counted
        <3>3. v \in Versions /\ v =< id[2] /\ n \in Int /\ v \in Int /\ id[2] \in Int
            BY <3>1, RuleSetAssumption DEF Versions
        <3>4. id[2] =< n
            BY <2>2, <3>1, <3>2
        <3> QED
            BY <3>2, <3>3, <3>4
    <2>3. SearchStillHolds
        BY DEF Inv, RequestOK, KnowsOK, At, SearchStillHolds
    <2> QED
        BY <2>1, <2>2, <2>3 DEF ReadsStand, VersionStaysFree
<1> QED
    BY <1>1, InvHolds, PTL

\* The audit entries of a rule set count its revisions and its publication.
THEOREM AuditIsAHistory == Spec => []AuditCountsRevisions
<1>1. Inv => AuditCountsRevisions
    BY DEF Inv, RowsOK
<1> QED
    BY <1>1, InvHolds, PTL

\* An edit replaces the very draft its client has seen.
THEOREM EditsAreOfTheSeen == Spec => EditsReplaceWhatWasSeen
<1> DEFINE Replaces(r, id) ==
        (/\ At(r, "save") /\ req'[r] = Idle
         /\ req[r].target = id /\ ruleSets'[id] # ruleSets[id]) => ruleSets[id] = req[r].seen
<1>1. ASSUME Inv
      PROVE  [\A r \in Requests, id \in Ids : Replaces(r, id)]_vars
    <2> SUFFICES ASSUME NEW r \in Requests, NEW id \in Ids, At(r, "save"), req[r].target = id
                 PROVE  ruleSets[id] = req[r].seen
        OBVIOUS
    <2>1. req[r].pc = "save" /\ req[r].op = "edit" /\ KnowsOK(req[r])
        BY <1>1 DEF At, Inv, RequestOK, FlowOK
    <2> QED
        BY <2>1 DEF KnowsOK, SeenOK, Stored
<1> QED
    BY <1>1, InvHolds, PTL DEF Spec, EditsReplaceWhatWasSeen

\* Which steps write rows and audit entries.
LEMMA Writers ==
    ASSUME [Next]_vars
    PROVE  \/ UNCHANGED <<ruleSets, audit>>
           \/ \E r \in Requests : Insert(r) \/ SaveDraft(r) \/ Publish(r)
    BY DEF Next, Begin, Work, vars, BeginCreate, BeginEdit, BeginPublish, Lock, ReadMaximum,
           CheckDraft, ReadTarget, Recheck, SearchOverlap, Refuse, Rollback, ChangeActor

\* Who creates or edits a draft has the right to when it is committed.
THEOREM ActorsHaveTheRight == Spec => ActorsAreAuthorized
<1> DEFINE Logged(id) ==
        Len(audit'[id]) > Len(audit[id]) =>
            LET entry == audit'[id][Len(audit'[id])]
            IN  entry.action # "PUBLISH_PAYROLL_RULE_SET" => entry.userId \in authorized
<1>1. ASSUME Inv, [Next]_vars
      PROVE  [\A id \in Ids : Logged(id)]_vars
    <2> SUFFICES ASSUME NEW id \in Ids PROVE Logged(id)
        OBVIOUS
    <2>1. audit \in [Ids -> Seq(AuditEntry)] /\ audit[id] \in Seq(AuditEntry)
          /\ Len(audit[id]) \in Nat
        BY <1>1 DEF Inv, TypeOK
    <2>2. CASE audit'[id] = audit[id]
        BY <2>1, <2>2
    <2>3. ASSUME NEW r \in Requests, NEW action, NEW revision,
                 audit' = [audit EXCEPT ![req[r].target] =
                     Append(@, [action |-> action, userId |-> req[r].actor,
                                revision |-> revision])],
                 \/ action = "PUBLISH_PAYROLL_RULE_SET"
                 \/ HasUser(req[r])
          PROVE  Logged(id)
        <3> DEFINE entry == [action |-> action, userId |-> req[r].actor, revision |-> revision]
        <3>1. CASE id # req[r].target
            BY <2>1, <2>2, <2>3, <3>1
        <3>2. CASE id = req[r].target
            <4>1. audit'[id] = Append(audit[id], entry)
                BY <2>1, <2>3, <3>2
            <4>2. audit'[id][Len(audit'[id])] = entry
                BY <2>1, <4>1
            <4>3. HasUser(req[r]) => req[r].actor \in authorized
                BY <1>1 DEF Inv, RequestOK, KnowsOK, HasUser
            <4> QED
                BY <2>3, <4>2, <4>3
        <3> QED
            BY <3>1, <3>2
    <2>4. ASSUME NEW r \in Requests, Insert(r)
          PROVE  Logged(id)
        <3>1. HasUser(req[r])
            BY <1>1, <2>4 DEF Insert, At, HasUser, Inv, RequestOK, FlowOK
        <3> QED
            BY <2>3, <2>4, <3>1 DEF Insert, Log
    <2>5. ASSUME NEW r \in Requests, SaveDraft(r)
          PROVE  Logged(id)
        <3>1. HasUser(req[r])
            BY <1>1, <2>5 DEF SaveDraft, At, HasUser, Inv, RequestOK, FlowOK
        <3> QED
            BY <2>3, <2>5, <3>1 DEF SaveDraft, Log
    <2>6. ASSUME NEW r \in Requests, Publish(r)
          PROVE  Logged(id)
        BY <2>3, <2>6 DEF Publish, Log
    <2> QED
        BY <1>1, <2>2, <2>4, <2>5, <2>6, Writers
<1> QED
    BY <1>1, InvHolds, PTL DEF Spec, ActorsAreAuthorized

-----------------------------------------------------------------------------
(* The timeline.                                                           *)

\* The refinement mapping.
View == [id \in Ids |->
            IF ruleSets[id] # None /\ ruleSets[id].status = "PUBLISHED"
            THEN [envelope |-> ruleSets[id].envelope, content |-> ruleSets[id].content]
            ELSE None]

LEMMA PublishRefines ==
    ASSUME Inv, NEW r \in Requests, Publish(r)
    PROVE  Timeline!Next
<1> DEFINE q == req[r]
           id == q.target
           entry == [envelope |-> ruleSets[id].envelope, content |-> ruleSets[id].content]
<1>1. /\ id \in Ids
      /\ ruleSets[id] # None /\ ruleSets[id] \in RuleSet
      /\ ruleSets[id].status = "DRAFT" /\ ruleSets[id] = q.seen
      /\ ruleSets'[id] # None /\ ruleSets'[id].status = "PUBLISHED"
      /\ ruleSets'[id].envelope = ruleSets[id].envelope
      /\ ruleSets'[id].content = ruleSets[id].content
      /\ \A i \in Ids : i # id => ruleSets'[i] = ruleSets[i]
      /\ ~OverlapExists(q)
    BY PublishFacts
<1>2. entry \in Timeline!Entry
    BY <1>1 DEF RuleSet, Envelopes, Timeline!Entry, Timeline!Envelopes
<1>3. View[id] = None
    BY <1>1 DEF View
<1>4. ASSUME NEW day \in Days, Timeline!Covers(entry.envelope, day)
      PROVE  Timeline!Applicable(id[1], day) = {}
    <2> SUFFICES ASSUME NEW i \in Ids, i[1] = id[1], View[i] # None,
                        Timeline!Covers(View[i].envelope, day)
                 PROVE  FALSE
        BY DEF Timeline!Applicable, View
    <2>1. /\ ruleSets[i] # None /\ ruleSets[i].status = "PUBLISHED"
          /\ View[i].envelope = ruleSets[i].envelope
        BY DEF View
    <2>2. i = <<id[1], i[2]>> /\ i[2] \in Versions
        BY IdParts
    <2>3. i[2] \in Used(id[1])
        BY <2>1, <2>2 DEF Used
    <2>4. ruleSets[i].envelope \in Envelopes /\ q.seen.envelope \in Envelopes
        BY <1>1, <2>1 DEF RuleSet, Inv, TypeOK
    <2>5. Overlaps(q.seen.envelope, ruleSets[i].envelope)
        <3> DEFINE e == q.seen.envelope
                   f == ruleSets[i].envelope
        <3>1. e.from =< day /\ (e.to # None => day < e.to)
            BY <1>1, <1>4 DEF Timeline!Covers
        <3>2. f.from =< day /\ (f.to # None => day < f.to)
            BY <2>1 DEF Timeline!Covers
        <3> HIDE DEF e, f
        <3> QED
            BY <2>4, <3>1, <3>2, CommonDayOverlaps DEF e, f
    <2> QED
        BY <1>1, <2>1, <2>2, <2>3, <2>5 DEF OverlapExists
<1>5. View' = [View EXCEPT ![id] = entry]
    <2>1. \A i \in Ids : View'[i] = IF i = id THEN entry ELSE View[i]
        BY <1>1 DEF View
    <2> QED
        BY <2>1 DEF View
<1>6. \E i \in Ids, e \in Timeline!Entry :
        /\ View[i] = None
        /\ \A day \in Days : Timeline!Covers(e.envelope, day) => Timeline!Applicable(i[1], day) = {}
        /\ View' = [View EXCEPT ![i] = e]
    <2> HIDE DEF entry
    <2> QED
        BY <1>1, <1>2, <1>3, <1>4, <1>5
<1> QED
    BY <1>6 DEF Timeline!Next, Timeline!Publish, View

LEMMA DraftsStayOut ==
    ASSUME Inv, NEW r \in Requests, Insert(r) \/ SaveDraft(r)
    PROVE  View' = View
<1> DEFINE id == req[r].target
<1>1. CASE Insert(r)
    <2>1. id \in Ids /\ ruleSets[id] = None
        BY <1>1 DEF Insert, At, Inv, RequestOK, FlowOK, InputOK, Stored
    <2>2. \A i \in Ids : i # id => ruleSets'[i] = ruleSets[i]
        BY <1>1 DEF Insert, Inv, TypeOK
    <2>3. ruleSets'[id].status = "DRAFT"
        BY <1>1, <2>1 DEF Insert, Inv, TypeOK
    <2> QED
        BY <2>1, <2>2, <2>3 DEF View
<1>2. CASE SaveDraft(r)
    <2>1. id \in Ids /\ ruleSets[id] \in RuleSet /\ ruleSets[id].status = "DRAFT"
        BY <1>2 DEF SaveDraft, At, Inv, RequestOK, FlowOK, InputOK, Stored, IsDraftSeen, TypeOK
    <2>2. \A i \in Ids : i # id => ruleSets'[i] = ruleSets[i]
        BY <1>2 DEF SaveDraft, Inv, TypeOK
    <2>3. ruleSets'[id].status = "DRAFT"
        BY <1>2, <2>1 DEF SaveDraft, Inv, TypeOK, RuleSet
    <2> QED
        BY <2>1, <2>2, <2>3 DEF View
<1> QED
    BY <1>1, <1>2

\* The administration implements the timeline payroll relies on: a rule set is
\* published for days that none covers yet, and stays as it was published.
THEOREM Refinement == Spec => ImplementsTimeline
<1>1. Init => Timeline!Init
    BY DEF Init, Timeline!Init
<1>2. Inv /\ [Next]_vars => [Timeline!Next]_View
    <2> SUFFICES ASSUME Inv, [Next]_vars PROVE Timeline!Next \/ View' = View
        OBVIOUS
    <2>1. CASE UNCHANGED <<ruleSets, audit>>
        BY <2>1 DEF View
    <2> QED
        BY <2>1, PublishRefines, DraftsStayOut, Writers
<1>3. [Timeline!Next]_View => [Timeline!Next]_([id \in Ids |->
            IF ruleSets[id] # None /\ ruleSets[id].status = "PUBLISHED"
            THEN [envelope |-> ruleSets[id].envelope, content |-> ruleSets[id].content]
            ELSE None])
    BY DEF View
<1> QED
    BY <1>1, <1>2, <1>3, InvHolds, PTL DEF Spec, ImplementsTimeline, Timeline!Spec

-----------------------------------------------------------------------------
(* Deadlock.                                                               *)

\* How far in the order of the locks a request has come.
Rank(q) ==
    CASE q.pc = "lockActor" -> 1
      [] q.pc = "lockJurisdiction" -> 2
      [] q.pc = "lockRow" -> 3
      [] OTHER -> 4

\* Whoever holds a lock that another waits for has come further.
LEMMA HoldersAreAhead ==
    ASSUME Inv, NEW r \in Requests, WaitsFor(r) \in Requests
    PROVE  Rank(req[r]) < Rank(req[WaitsFor(r)]) /\ Rank(req[r]) < 4
<1> DEFINE p == req[r]
           h == WaitsFor(r)
           q == req[h]
           w == Wanted(p)
<1>1. p.pc \in LockSteps /\ h = holder[w] /\ RequestOK(r) /\ RequestOK(h)
    BY RuleSetAssumption DEF WaitsFor, Inv
<1>2. \/ p.pc = "lockActor" /\ w = <<"user", p.actor>> /\ p.actor \in Users
      \/ p.pc = "lockJurisdiction" /\ w = <<"jurisdiction", LockKey(p)>> /\ LockKey(p) \in Locks
      \/ p.pc = "lockRow" /\ w = <<"row", p.target>> /\ p.target \in Ids
    <2>1. CASE p.pc = "lockActor"
        BY <1>1, <2>1 DEF Wanted, RequestOK, InputOK
    <2>2. CASE p.pc = "lockJurisdiction"
        <3>1. p.target[1] \in Jurisdictions
            BY <1>1, <2>2, IdParts DEF RequestOK, FlowOK, InputOK
        <3> QED
            BY <2>2, <3>1, RuleSetAssumption DEF Wanted, LockKey
    <2>3. CASE p.pc = "lockRow"
        BY <1>1, <2>3 DEF Wanted, RequestOK, FlowOK, InputOK
    <2> QED
        BY <1>1, <2>1, <2>2, <2>3 DEF LockSteps
<1>3. w \in Lockable
    BY <1>2, LockableFacts
<1>4. Holds(q, w)
    BY <1>1, <1>3 DEF RequestOK, LocksOK
<1> QED
    BY <1>2, <1>4 DEF Holds, HasUser, HasJurisdiction, HasRow, Rank

\* No transactions wait for one another in a circle, however many there are.
THEOREM NoDeadlock == Spec => []NoLockCycle
<1>1. Inv => NoLockCycle
    <2> SUFFICES ASSUME Inv, NEW S \in SUBSET Requests, NEW r \in S,
                        \A x \in S : WaitsFor(x) \in S
                 PROVE  FALSE
        BY DEF NoLockCycle
    <2>1. \A x \in S : Rank(req[x]) \in 1..4
        BY DEF Rank
    <2>2. \A x \in S : WaitsFor(x) \in S /\ Rank(req[x]) < Rank(req[WaitsFor(x)])
        BY HoldersAreAhead
    <2>3. PICK a \in S : Rank(req[r]) < Rank(req[a])
        BY <2>2
    <2>4. PICK b \in S : Rank(req[a]) < Rank(req[b])
        BY <2>2
    <2>5. PICK c \in S : Rank(req[b]) < Rank(req[c])
        BY <2>2
    <2>6. PICK d \in S : Rank(req[c]) < Rank(req[d])
        BY <2>2
    <2> QED
        BY <2>1, <2>3, <2>4, <2>5, <2>6
<1> QED
    BY <1>1, InvHolds, PTL
=============================================================================
