------------------------- MODULE RuleSelectionProofs -------------------------
(***************************************************************************)
(* Proofs about RuleSelection, for any set of requests, subjects, rule     *)
(* sets and days.                                                          *)
(*                                                                         *)
(* Publishing only adds entries for days that none covers, so what once    *)
(* was the one answer for a day stays the answer.  That carries a request  *)
(* from its first query to its second and on to the claim, and a pin from  *)
(* its calculation to every later one.  Between the two days that were     *)
(* asked for, an interval covers all the others.                           *)
(***************************************************************************)
EXTENDS RuleSelection, TLAPS

\* Two entries of a jurisdiction share no day.
NeverOverlap ==
    \A day \in Days, i, j \in Ids :
        (/\ i[1] = j[1] /\ published[i] # None /\ published[j] # None
         /\ Covers(published[i].envelope, day) /\ Covers(published[j].envelope, day)) => i = j

Answer(id, day) == Applicable(Jurisdiction, day) = {id}

\* What a calculation has been told is still so.
CalculationOK(r) ==
    LET q == calc[r] IN
    /\ q.pc # "idle" => q.subject \in Subjects
    /\ q.pc # "idle" /\ q.pin # None => \A day \in DaysOf(q.subject) : Answer(q.pin, day)
    /\ q.pc \in {"last", "claim"} => q.chosen \in Ids /\ Answer(q.chosen, First[q.subject])
    /\ q.pc = "claim" => Answer(q.chosen, Last[q.subject])

Inv ==
    /\ SelectionTypeOK
    /\ NeverOverlap
    /\ PinCoversEveryDay
    /\ \A r \in Requests : CalculationOK(r)

-----------------------------------------------------------------------------
(* Days and answers.                                                       *)

LEMMA SubjectDays ==
    ASSUME NEW s \in Subjects
    PROVE  /\ First[s] \in DaysOf(s) /\ Last[s] \in DaysOf(s)
           /\ DaysOf(s) \subseteq Days
           /\ First[s] \in Int /\ Last[s] \in Int
<1>1. First[s] \in Days /\ Last[s] \in Days /\ First[s] =< Last[s]
    BY SelectionAssumption
<1>2. First[s] \in Int /\ Last[s] \in Int
    BY <1>1, TimelineAssumption
<1>3. DaysOf(s) \subseteq Days
    BY SelectionAssumption DEF DaysOf
<1> QED
    BY <1>1, <1>2, <1>3 DEF DaysOf

LEMMA AnswerMeans ==
    ASSUME NEW id \in Ids, NEW day \in Days, NeverOverlap
    PROVE  Answer(id, day) <=>
               id[1] = Jurisdiction /\ published[id] # None /\ Covers(published[id].envelope, day)
<1>1. ASSUME id[1] = Jurisdiction, published[id] # None, Covers(published[id].envelope, day)
      PROVE  Answer(id, day)
    BY <1>1 DEF Answer, Applicable, NeverOverlap
<1>2. ASSUME Answer(id, day)
      PROVE  id[1] = Jurisdiction /\ published[id] # None /\ Covers(published[id].envelope, day)
    <2>1. id \in Applicable(Jurisdiction, day)
        BY <1>2 DEF Answer
    <2> QED
        BY <2>1 DEF Applicable
<1> QED
    BY <1>1, <1>2

\* A rule set that answers for the first and the last day answers for all.
LEMMA AnswerBetween ==
    ASSUME SelectionTypeOK, NeverOverlap, NEW s \in Subjects, NEW id \in Ids,
           Answer(id, First[s]), Answer(id, Last[s]), NEW day \in DaysOf(s)
    PROVE  Answer(id, day)
<1>1. /\ First[s] \in Days /\ Last[s] \in Days /\ day \in Days
      /\ First[s] \in Int /\ Last[s] \in Int /\ day \in Int
      /\ First[s] =< day /\ day =< Last[s]
    BY SubjectDays DEF DaysOf
<1>2. /\ id[1] = Jurisdiction /\ published[id] # None
      /\ Covers(published[id].envelope, First[s]) /\ Covers(published[id].envelope, Last[s])
    BY <1>1, AnswerMeans
<1>3. published[id] \in Entry
    BY <1>2 DEF SelectionTypeOK
<1>4. /\ published[id].envelope.from \in Int
      /\ published[id].envelope.to # None => published[id].envelope.to \in Int
    BY <1>3, TimelineAssumption DEF Entry, Envelopes
<1>5. Covers(published[id].envelope, day)
    BY <1>1, <1>2, <1>4 DEF Covers
<1> QED
    BY <1>1, <1>2, <1>5, AnswerMeans

-----------------------------------------------------------------------------
(* Publishing.                                                             *)

LEMMA PublishKeeps ==
    ASSUME SelectionTypeOK, NeverOverlap, NEW new \in Ids, NEW entry \in Entry,
           Publish(new, entry)
    PROVE  /\ published' \in [Ids -> Entry \cup {None}]
           /\ NeverOverlap'
           /\ \A id \in Ids, day \in Days : Answer(id, day) => Answer(id, day)'
<1>1. /\ published' \in [Ids -> Entry \cup {None}]
      /\ published[new] = None /\ published'[new] = entry
      /\ \A id \in Ids : id # new => published'[id] = published[id]
    BY DEF Publish, SelectionTypeOK
<1>2. ASSUME NEW id \in Ids, NEW day \in Days, Covers(entry.envelope, day),
             id[1] = new[1], published[id] # None
      PROVE  ~Covers(published[id].envelope, day)
    BY <1>2 DEF Publish, Applicable
<1>3. NeverOverlap'
    <2> SUFFICES ASSUME NEW day \in Days, NEW i \in Ids, NEW j \in Ids, i # j,
                        i[1] = j[1], published'[i] # None, published'[j] # None,
                        Covers(published'[i].envelope, day), Covers(published'[j].envelope, day)
                 PROVE  FALSE
        BY DEF NeverOverlap, Covers
    <2>1. CASE i = new
        BY <1>1, <1>2, <2>1
    <2>2. CASE j = new
        BY <1>1, <1>2, <2>2
    <2>3. CASE i # new /\ j # new
        BY <1>1, <2>3 DEF NeverOverlap
    <2> QED
        BY <2>1, <2>2, <2>3
<1>4. ASSUME NEW id \in Ids, NEW day \in Days, Answer(id, day)
      PROVE  Answer(id, day)'
    <2>1. id[1] = Jurisdiction /\ published[id] # None /\ Covers(published[id].envelope, day)
        BY <1>4, AnswerMeans
    <2>2. published'[id] = published[id]
        BY <1>1, <2>1
    <2>3. \A other \in Ids :
            (/\ other[1] = Jurisdiction /\ published'[other] # None
             /\ Covers(published'[other].envelope, day)) => other = id
        BY <1>3, <2>1, <2>2 DEF NeverOverlap, Covers
    <2> QED
        BY <2>1, <2>2, <2>3 DEF Answer, Applicable, Covers
<1> QED
    BY <1>1, <1>3, <1>4

-----------------------------------------------------------------------------
(* The steps.                                                              *)

LEMMA IdleIsCalculation == Idle \in Calculation
    BY DEF Idle, Calculation

LEMMA InitInv == SelectionInit => Inv
<1> SUFFICES ASSUME SelectionInit PROVE Inv
    OBVIOUS
<1>1. SelectionTypeOK
    BY IdleIsCalculation DEF SelectionInit, Init, SelectionTypeOK
<1>2. NeverOverlap /\ PinCoversEveryDay
    BY DEF SelectionInit, Init, NeverOverlap, PinCoversEveryDay
<1>3. \A r \in Requests : CalculationOK(r)
    BY DEF SelectionInit, CalculationOK, Idle
<1> QED
    BY <1>1, <1>2, <1>3 DEF Inv

\* A request that moves to q while no row changes.
LEMMA MoveInv ==
    ASSUME Inv, NEW r \in Requests, NEW q \in Calculation, calc' = [calc EXCEPT ![r] = q],
           UNCHANGED <<published, pin>>, CalculationOK(r)'
    PROVE  Inv'
<1>1. SelectionTypeOK'
    BY DEF Inv, SelectionTypeOK
<1>2. NeverOverlap' /\ PinCoversEveryDay'
    BY DEF Inv, NeverOverlap, PinCoversEveryDay, Applicable
<1>3. ASSUME NEW x \in Requests, x # r
      PROVE  CalculationOK(x)'
    <2>1. CalculationOK(x) /\ calc'[x] = calc[x]
        BY <1>3 DEF Inv, SelectionTypeOK
    <2> QED
        BY <2>1 DEF CalculationOK, Answer, Applicable
<1> QED
    BY <1>1, <1>2, <1>3 DEF Inv

LEMMA BeginInv == ASSUME Inv, NEW r \in Requests, Begin(r) PROVE Inv'
<1>1. PICK s \in Subjects :
        calc' = [calc EXCEPT ![r] = [Idle EXCEPT !.pc = "first", !.subject = s, !.pin = pin[s]]]
    BY DEF Begin
<1> DEFINE q == [Idle EXCEPT !.pc = "first", !.subject = s, !.pin = pin[s]]
<1>2. /\ q \in Calculation
      /\ q.pc = "first" /\ q.subject = s /\ q.pin = pin[s]
    BY DEF Idle, Calculation, Inv, SelectionTypeOK
<1>3. calc' = [calc EXCEPT ![r] = q] /\ UNCHANGED <<published, pin>>
    BY <1>1 DEF Begin
<1> HIDE DEF q
<1>4. calc'[r] = q
    BY <1>3 DEF Inv, SelectionTypeOK
<1>5. pin[s] # None => \A day \in DaysOf(s) : Answer(pin[s], day)
    BY DEF Inv, PinCoversEveryDay, Answer
<1>6. CalculationOK(r)'
    BY <1>2, <1>3, <1>4, <1>5 DEF CalculationOK, Answer, Applicable
<1> QED
    BY <1>2, <1>3, <1>6, MoveInv

\* Whichever query is made, what resolves is the day's answer.
LEMMA ResolvedIsAnswer ==
    ASSUME Inv, NEW q \in Calculation, NEW id \in Ids, NEW day \in Days, Resolves(q, id, day)
    PROVE  Answer(id, day)
<1>1. CASE q.pin = None
    BY <1>1 DEF Resolves, ResolvePublished, Answer
<1>2. CASE q.pin # None
    BY <1>2, AnswerMeans DEF Resolves, ResolveById, Inv
<1> QED
    BY <1>1, <1>2

LEMMA ResolveFirstInv == ASSUME Inv, NEW r \in Requests, ResolveFirst(r) PROVE Inv'
<1> DEFINE s == calc[r].subject
           step == IF s \in Periods THEN "last" ELSE "claim"
<1>1. PICK id \in Ids :
        /\ Resolves(calc[r], id, Asked(calc[r]))
        /\ calc' = [calc EXCEPT ![r].chosen = id, ![r].pc = step]
    BY DEF ResolveFirst
<1> DEFINE q == [calc[r] EXCEPT !.chosen = id, !.pc = step]
<1>2. calc[r] \in Calculation /\ calc[r].pc = "first" /\ s \in Subjects /\ CalculationOK(r)
    BY DEF ResolveFirst, Inv, SelectionTypeOK, CalculationOK
<1>3. /\ q \in Calculation
      /\ q.pc = step /\ q.subject = s /\ q.chosen = id /\ q.pin = calc[r].pin
    BY <1>2 DEF Calculation
<1>4. calc' = [calc EXCEPT ![r] = q] /\ UNCHANGED <<published, pin>>
    BY <1>1, <1>2 DEF ResolveFirst, Inv, SelectionTypeOK
<1> HIDE DEF q
<1>5. calc'[r] = q
    BY <1>4 DEF Inv, SelectionTypeOK
<1>6. Answer(id, First[s])
    BY <1>1, <1>2, ResolvedIsAnswer, SubjectDays DEF Asked
<1>7. step = "claim" => Answer(id, Last[s])
    BY <1>2, <1>6, SelectionAssumption DEF Subjects
<1>8. CalculationOK(r)'
    BY <1>2, <1>3, <1>4, <1>5, <1>6, <1>7 DEF CalculationOK, Answer, Applicable
<1> QED
    BY <1>3, <1>4, <1>8, MoveInv

LEMMA ResolveLastInv == ASSUME Inv, NEW r \in Requests, ResolveLast(r) PROVE Inv'
<1> DEFINE s == calc[r].subject
           q == [calc[r] EXCEPT !.pc = "claim"]
<1>1. calc[r] \in Calculation /\ calc[r].pc = "last" /\ s \in Subjects /\ CalculationOK(r)
    BY DEF ResolveLast, Inv, SelectionTypeOK, CalculationOK
<1>2. /\ q \in Calculation
      /\ q.pc = "claim" /\ q.subject = s /\ q.chosen = calc[r].chosen /\ q.pin = calc[r].pin
    BY <1>1 DEF Calculation
<1>3. calc' = [calc EXCEPT ![r] = q] /\ UNCHANGED <<published, pin>>
    BY DEF ResolveLast
<1> HIDE DEF q
<1>4. calc'[r] = q
    BY <1>3 DEF Inv, SelectionTypeOK
<1>5. Answer(calc[r].chosen, Last[s])
    BY <1>1, ResolvedIsAnswer, SubjectDays DEF ResolveLast, SameRuleSet, Asked
<1>6. CalculationOK(r)'
    BY <1>1, <1>2, <1>3, <1>4, <1>5 DEF CalculationOK, Answer, Applicable
<1> QED
    BY <1>2, <1>3, <1>6, MoveInv

LEMMA StopInv ==
    ASSUME Inv, NEW r \in Requests, Fail(r) \/ Abandon(r) PROVE Inv'
<1>1. calc' = [calc EXCEPT ![r] = Idle] /\ UNCHANGED <<published, pin>>
    BY DEF Fail, Abandon
<1>2. calc'[r] = Idle
    BY <1>1 DEF Inv, SelectionTypeOK
<1>3. CalculationOK(r)'
    BY <1>2 DEF CalculationOK, Idle
<1> QED
    BY <1>1, <1>3, IdleIsCalculation, MoveInv

LEMMA ClaimInv == ASSUME Inv, NEW r \in Requests, Claim(r) PROVE Inv'
<1> DEFINE s == calc[r].subject
           id == calc[r].chosen
<1>1. /\ calc[r] \in Calculation /\ s \in Subjects /\ id \in Ids
      /\ Answer(id, First[s]) /\ Answer(id, Last[s])
      /\ pin' = [pin EXCEPT ![s] = id]
      /\ published' = published
    BY DEF Claim, Inv, SelectionTypeOK, CalculationOK
<1>2. ASSUME NEW x \in Requests
      PROVE  /\ calc'[x] \in Calculation
             /\ calc'[x] = Idle
                \/ /\ calc'[x].pc = calc[x].pc /\ calc'[x].subject = calc[x].subject
                   /\ calc'[x].pin = calc[x].pin /\ calc'[x].chosen = calc[x].chosen
    <2>1. calc[x] \in Calculation
        BY DEF Inv, SelectionTypeOK
    <2>2. CASE x = r
        BY <2>2, IdleIsCalculation DEF Claim
    <2>3. CASE x # r
        <3> DEFINE stale == calc[x].stale \/ calc[x].subject = s
        <3>1. stale \in BOOLEAN
            OBVIOUS
        <3>2. calc'[x] = [calc[x] EXCEPT !.stale = stale]
            BY <2>3 DEF Claim
        <3> HIDE DEF stale
        <3> QED
            BY <2>1, <3>1, <3>2 DEF Calculation
    <2> QED
        BY <2>2, <2>3
<1>3. SelectionTypeOK'
    BY <1>1, <1>2 DEF Claim, Inv, SelectionTypeOK
<1>4. NeverOverlap'
    BY <1>1 DEF Inv, NeverOverlap
<1>5. PinCoversEveryDay'
    <2>1. \A day \in DaysOf(s) : Answer(id, day)
        BY <1>1, AnswerBetween DEF Inv
    <2>2. \A u \in Subjects : pin'[u] = IF u = s THEN id ELSE pin[u]
        BY <1>1 DEF Inv, SelectionTypeOK
    <2> QED
        BY <1>1, <2>1, <2>2 DEF Inv, PinCoversEveryDay, Answer, Applicable
<1>6. ASSUME NEW x \in Requests
      PROVE  CalculationOK(x)'
    <2>1. CalculationOK(x)
        BY DEF Inv
    <2> QED
        BY <1>1, <1>2, <2>1 DEF CalculationOK, Answer, Applicable, Idle
<1> QED
    BY <1>3, <1>4, <1>5, <1>6 DEF Inv

LEMMA AdministerInv == ASSUME Inv, Administer PROVE Inv'
<1>1. PICK new \in Ids, entry \in Entry : Publish(new, entry)
    BY DEF Administer, Next
<1>2. /\ published' \in [Ids -> Entry \cup {None}]
      /\ NeverOverlap'
      /\ \A id \in Ids, day \in Days : Answer(id, day) => Answer(id, day)'
      /\ pin' = pin /\ calc' = calc
    BY <1>1, PublishKeeps DEF Inv, Administer
<1>3. SelectionTypeOK'
    BY <1>2 DEF Inv, SelectionTypeOK
<1>4. PinCoversEveryDay'
    <2> SUFFICES ASSUME NEW s \in Subjects, pin[s] # None, NEW day \in DaysOf(s)
                 PROVE  Answer(pin[s], day)'
        BY <1>2 DEF PinCoversEveryDay, Answer
    <2>1. pin[s] \in Ids /\ day \in Days /\ Answer(pin[s], day)
        BY SubjectDays DEF Inv, SelectionTypeOK, PinCoversEveryDay, Answer
    <2> QED
        BY <1>2, <2>1 DEF Answer
<1>5. ASSUME NEW r \in Requests
      PROVE  CalculationOK(r)'
    <2>1. CalculationOK(r) /\ calc[r] \in Calculation
        BY DEF Inv, SelectionTypeOK
    <2>2. ASSUME calc[r].pc # "idle", calc[r].pin # None, NEW day \in DaysOf(calc[r].subject)
          PROVE  Applicable(Jurisdiction, day)' = {calc[r].pin}
        <3>1. calc[r].pin \in Ids /\ day \in Days /\ Answer(calc[r].pin, day)
            BY <2>1, <2>2, SubjectDays DEF Calculation, CalculationOK
        <3> QED
            BY <1>2, <3>1 DEF Answer
    <2>3. ASSUME calc[r].pc \in {"last", "claim"}
          PROVE  Applicable(Jurisdiction, First[calc[r].subject])' = {calc[r].chosen}
        BY <1>2, <2>1, <2>3, SubjectDays DEF CalculationOK, Answer
    <2>4. ASSUME calc[r].pc = "claim"
          PROVE  Applicable(Jurisdiction, Last[calc[r].subject])' = {calc[r].chosen}
        BY <1>2, <2>1, <2>4, SubjectDays DEF CalculationOK, Answer
    <2> QED
        BY <1>2, <2>1, <2>2, <2>3, <2>4 DEF CalculationOK, Answer, DaysOf
<1> QED
    BY <1>2, <1>3, <1>4, <1>5 DEF Inv

-----------------------------------------------------------------------------
(* The theorems.                                                           *)

LEMMA NextInv == Inv /\ [SelectionNext]_selectionVars => Inv'
<1> SUFFICES ASSUME Inv, [SelectionNext]_selectionVars PROVE Inv'
    OBVIOUS
<1>1. CASE UNCHANGED selectionVars
    <2>1. published' = published /\ pin' = pin /\ calc' = calc
        BY <1>1 DEF selectionVars
    <2>2. SelectionTypeOK' /\ NeverOverlap' /\ PinCoversEveryDay'
        BY <2>1 DEF Inv, SelectionTypeOK, NeverOverlap, PinCoversEveryDay, Applicable
    <2>3. \A r \in Requests : CalculationOK(r)'
        BY <2>1 DEF Inv, CalculationOK, Answer, Applicable, DaysOf
    <2> QED
        BY <2>2, <2>3 DEF Inv
<1>2. ASSUME NEW r \in Requests, Begin(r) \/ ResolveFirst(r) \/ ResolveLast(r)
      PROVE  Inv'
    BY <1>2, BeginInv, ResolveFirstInv, ResolveLastInv
<1>3. ASSUME NEW r \in Requests, Fail(r) \/ Claim(r) \/ Abandon(r)
      PROVE  Inv'
    BY <1>3, StopInv, ClaimInv
<1> QED
    BY <1>1, <1>2, <1>3, AdministerInv DEF SelectionNext

LEMMA InvHolds == SelectionSpec => []Inv
    BY InitInv, NextInv, PTL DEF SelectionSpec

\* Every reachable state has its type.
THEOREM SelectionTypeCorrect == SelectionSpec => []SelectionTypeOK
<1>1. Inv => SelectionTypeOK
    BY DEF Inv
<1> QED
    BY <1>1, InvHolds, PTL

\* The pinned rule set is the only published one for every day of its period,
\* though two days were asked for, at two moments.
THEOREM PinsCover == SelectionSpec => []PinCoversEveryDay
<1>1. Inv => PinCoversEveryDay
    BY DEF Inv
<1> QED
    BY <1>1, InvHolds, PTL

\* Calculations that share a day use the same rule set, whenever they were made.
THEOREM DaysHaveOneRuleSet == SelectionSpec => []OneRuleSetPerDay
<1>1. Inv => OneRuleSetPerDay
    <2> SUFFICES ASSUME PinCoversEveryDay, NEW s \in Subjects, NEW t \in Subjects,
                        pin[s] # None, pin[t] # None, NEW day \in DaysOf(s) \cap DaysOf(t)
                 PROVE  pin[s] = pin[t]
        BY DEF Inv, OneRuleSetPerDay
    <2>1. Applicable(Jurisdiction, day) = {pin[s]} /\ Applicable(Jurisdiction, day) = {pin[t]}
        BY DEF PinCoversEveryDay
    <2> QED
        BY <2>1
<1> QED
    BY <1>1, InvHolds, PTL

\* A recalculation finds its pinned rule set again.
THEOREM PinsResolve == SelectionSpec => []PinStillResolves
<1>1. Inv => PinStillResolves
    <2> SUFFICES ASSUME Inv, NEW r \in Requests, calc[r].pc \in {"first", "last"},
                        calc[r].pin # None
                 PROVE  Resolves(calc[r], calc[r].pin, Asked(calc[r]))
        BY DEF PinStillResolves
    <2>1. calc[r] \in Calculation /\ CalculationOK(r) /\ calc[r].subject \in Subjects
        BY DEF Inv, SelectionTypeOK, CalculationOK
    <2>2. Asked(calc[r]) \in DaysOf(calc[r].subject) /\ Asked(calc[r]) \in Days
        BY <2>1, SubjectDays DEF Asked
    <2>3. calc[r].pin \in Ids /\ Answer(calc[r].pin, Asked(calc[r]))
        BY <2>1, <2>2 DEF CalculationOK, Calculation
    <2> QED
        BY <2>2, <2>3, AnswerMeans DEF Inv, Resolves, ResolveById
<1> QED
    BY <1>1, InvHolds, PTL

\* What the first query found is the answer still when the calculation is stored.
THEOREM FirstAnswersStand == SelectionSpec => []FirstAnswerStands
<1>1. Inv => FirstAnswerStands
    BY DEF Inv, CalculationOK, FirstAnswerStands, ResolvePublished, Answer
<1> QED
    BY <1>1, InvHolds, PTL
=============================================================================
