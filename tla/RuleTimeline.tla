---------------------------- MODULE RuleTimeline ----------------------------
(***************************************************************************)
(* What the administration of payroll rule sets promises to payroll: per   *)
(* jurisdiction a timeline of published rule sets.  Publishing adds one    *)
(* entry, whose days no other entry covers; an entry is never changed or   *)
(* withdrawn.  A day resolves to the entry that covers it, if any.         *)
(*                                                                         *)
(* Ids are pairs of a jurisdiction and a version; Days are numbers; an     *)
(* envelope is the half-open interval of days [from, to), open-ended when  *)
(* to is None.                                                             *)
(***************************************************************************)
EXTENDS Integers

CONSTANTS Ids, Contents, Days, None

VARIABLE published   \* the content and envelope of each published rule set

Envelopes == {e \in [from : Days, to : Days \cup {None}] : e.to # None => e.from < e.to}

Entry == [envelope : Envelopes, content : Contents]

ASSUME TimelineAssumption ==
    /\ Days \subseteq Int
    /\ None \notin Entry

Covers(e, day) == e.from =< day /\ (e.to # None => day < e.to)

\* The published rule sets of a jurisdiction that cover a day.
Applicable(jurisdiction, day) ==
    {id \in Ids : /\ id[1] = jurisdiction
                  /\ published[id] # None
                  /\ Covers(published[id].envelope, day)}

Init == published = [id \in Ids |-> None]

\* Mutant: only the first day of an entry has to be free.
PublishOverlapping(id, entry) ==
    /\ published[id] = None
    /\ Applicable(id[1], entry.envelope.from) = {}
    /\ published' = [published EXCEPT ![id] = entry]

Publish(id, entry) ==
    /\ published[id] = None
    /\ \A day \in Days : Covers(entry.envelope, day) => Applicable(id[1], day) = {}
    /\ published' = [published EXCEPT ![id] = entry]

Next == \E id \in Ids, entry \in Entry : Publish(id, entry)

Spec == Init /\ [][Next]_published
=============================================================================
