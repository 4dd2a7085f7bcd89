--------------------------- MODULE MCRuleSelection ---------------------------
(***************************************************************************)
(* An instance of RuleSelection: a fortnight of three days, a day within   *)
(* it and the month it belongs to, and a termination on its last day.      *)
(***************************************************************************)
EXTENDS RuleSelection, TLC

CONSTANTS r1, r2, CO, PE, c1, fortnight, day, termination

TwoRequests == {r1, r2}
ThreeIds == {<<CO, 1>>, <<CO, 2>>, <<PE, 1>>}
OneContent == {c1}
FourDays == 0..3
TwoPeriods == {fortnight, day}
OneTermination == {termination}
FirstDays == fortnight :> 0 @@ day :> 1 @@ termination :> 2
LastDays == fortnight :> 2 @@ day :> 1 @@ termination :> 2
=============================================================================
