---------------------------- MODULE RuleSelection ----------------------------
(***************************************************************************)
(* Which payroll rules a calculation uses: the selection policy and the    *)
(* resolver, while rule sets are being published.                          *)
(*                                                                         *)
(* A payroll period needs one rule set for all of its days, an employment  *)
(* termination one for its date.  Once a calculation has been stored, its  *)
(* rule set is pinned, and recalculations must use it again.  A period's   *)
(* rules are resolved by two queries, for its first and its last day, that *)
(* are no transaction; what is published meanwhile is whatever             *)
(* RuleTimeline allows, which RuleSets implements.                         *)
(*                                                                         *)
(* Requests      identities of concurrent calculations                     *)
(* Periods       periodic payroll periods, of any company                  *)
(* Terminations  employment terminations                                   *)
(* First, Last   the days of a period; both are a termination's date       *)
(* Jurisdiction  the one jurisdiction payroll asks for                     *)
(***************************************************************************)
EXTENDS RuleTimeline

CONSTANTS Requests, Periods, Terminations, First, Last, Jurisdiction

Subjects == Periods \cup Terminations

ASSUME SelectionAssumption ==
    /\ First \in [Subjects -> Days]
    /\ Last \in [Subjects -> Days]
    /\ \A s \in Subjects : First[s] =< Last[s] /\ First[s]..Last[s] \subseteq Days
    /\ \A t \in Terminations : First[t] = Last[t]
    /\ None \notin Ids

VARIABLES
    pin,   \* the calculatedRuleSetId of each period and termination
    calc   \* what each request is calculating, and where it is

selectionVars == <<published, pin, calc>>

Idle == [pc |-> "idle", subject |-> None, pin |-> None, chosen |-> None, stale |-> FALSE]

\* stale: the version of the subject is no longer the one that was read.
Calculation == [pc : {"idle", "first", "last", "claim"}, subject : Subjects \cup {None},
                pin : Ids \cup {None}, chosen : Ids \cup {None}, stale : BOOLEAN]

SelectionTypeOK ==
    /\ published \in [Ids -> Entry \cup {None}]
    /\ pin \in [Subjects -> Ids \cup {None}]
    /\ calc \in [Requests -> Calculation]

SelectionInit ==
    /\ Init
    /\ pin = [s \in Subjects |-> None]
    /\ calc = [r \in Requests |-> Idle]

-----------------------------------------------------------------------------
\* Reading the period or the termination, its pin with it.
Begin(r) ==
    /\ calc[r].pc = "idle"
    /\ \E s \in Subjects :
          calc' = [calc EXCEPT ![r] = [Idle EXCEPT !.pc = "first", !.subject = s,
                                                   !.pin = pin[s]]]
    /\ UNCHANGED <<published, pin>>

\* Without a pin, the one published rule set that applies on the day: none is
\* RULE_SET_NOT_FOUND, several are RULE_SET_AMBIGUOUS.
ResolvePublished(id, day) == Applicable(Jurisdiction, day) = {id}

\* Mutant: a pin is good as long as no later version is published.
ResolveLatest(id, day) ==
    /\ id \in Applicable(Jurisdiction, day)
    /\ \A other \in Ids : other[1] = id[1] /\ other[2] > id[2] => published[other] = None

\* The pinned rule set: published, of the jurisdiction, and covering the day.
ResolveById(id, day) ==
    /\ published[id] # None
    /\ id[1] = Jurisdiction
    /\ Covers(published[id].envelope, day)

Resolves(q, id, day) ==
    IF q.pin = None THEN ResolvePublished(id, day) ELSE id = q.pin /\ ResolveById(id, day)

Asked(q) == IF q.pc = "first" THEN First[q.subject] ELSE Last[q.subject]

\* A termination's date is all there is to ask for.
ResolveFirst(r) ==
    /\ calc[r].pc = "first"
    /\ \E id \in Ids :
          /\ Resolves(calc[r], id, Asked(calc[r]))
          /\ calc' = [calc EXCEPT
                ![r].chosen = id,
                ![r].pc = IF calc[r].subject \in Periods THEN "last" ELSE "claim"]
    /\ UNCHANGED <<published, pin>>

\* Mutant: the last day need only have some rule set.
AnyRuleSet(q, id) == TRUE

\* Otherwise the period spans multiple rule sets.
SameRuleSet(q, id) == id = q.chosen

ResolveLast(r) ==
    /\ calc[r].pc = "last"
    /\ \E id \in Ids : Resolves(calc[r], id, Asked(calc[r])) /\ SameRuleSet(calc[r], id)
    /\ calc' = [calc EXCEPT ![r].pc = "claim"]
    /\ UNCHANGED <<published, pin>>

\* No selection is possible: the request ends with an error.
Fail(r) ==
    /\ calc[r].pc \in {"first", "last"}
    /\ ~\E id \in Ids : /\ Resolves(calc[r], id, Asked(calc[r]))
                        /\ calc[r].pc = "last" => SameRuleSet(calc[r], id)
    /\ calc' = [calc EXCEPT ![r] = Idle]
    /\ UNCHANGED <<published, pin>>

\* The transaction that stores the calculation claims the subject by the version
\* that was read, sets the pin, and makes stale what others have read.
Claim(r) ==
    /\ calc[r].pc = "claim"
    /\ ~calc[r].stale
    /\ pin' = [pin EXCEPT ![calc[r].subject] = calc[r].chosen]
    /\ calc' = [x \in Requests |->
                   IF x = r THEN Idle
                   ELSE [calc[x] EXCEPT !.stale = @ \/ calc[x].subject = calc[r].subject]]
    /\ UNCHANGED published

\* The claim finds another version, or the request fails for another reason.
Abandon(r) ==
    /\ calc[r].pc # "idle"
    /\ calc' = [calc EXCEPT ![r] = Idle]
    /\ UNCHANGED <<published, pin>>

Administer == Next /\ UNCHANGED <<pin, calc>>

SelectionNext ==
    \/ \E r \in Requests : \/ Begin(r) \/ ResolveFirst(r) \/ ResolveLast(r) \/ Fail(r)
                           \/ Claim(r) \/ Abandon(r)
    \/ Administer

SelectionSpec == SelectionInit /\ [][SelectionNext]_selectionVars

-----------------------------------------------------------------------------
DaysOf(s) == First[s]..Last[s]

\* The pinned rule set of a period covers every one of its days, and it is the
\* only published one that does, though only its first and last day were asked
\* for, at two moments.
PinCoversEveryDay ==
    \A s \in Subjects : pin[s] # None =>
        \A day \in DaysOf(s) : Applicable(Jurisdiction, day) = {pin[s]}

\* A day has one set of rules: calculations of any two companies that share a day
\* use the same rule set, whenever they were made and whatever was published in
\* between.
OneRuleSetPerDay ==
    \A s, t \in Subjects :
        pin[s] # None /\ pin[t] # None /\ DaysOf(s) \cap DaysOf(t) # {} => pin[s] = pin[t]

\* A recalculation never fails for the sake of its rules: what was selected once
\* can be resolved again by its pin.
PinStillResolves ==
    \A r \in Requests :
        calc[r].pc \in {"first", "last"} /\ calc[r].pin # None =>
            Resolves(calc[r], calc[r].pin, Asked(calc[r]))

\* What the first query found is still the answer when the calculation is stored.
FirstAnswerStands ==
    \A r \in Requests : calc[r].pc \in {"last", "claim"} =>
        ResolvePublished(calc[r].chosen, First[calc[r].subject])
=============================================================================
