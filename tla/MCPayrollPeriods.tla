-------------------------- MODULE MCPayrollPeriods --------------------------
(***************************************************************************)
(* Small instances of PayrollPeriods.                                      *)
(***************************************************************************)
EXTENDS PayrollPeriods, TLC

CONSTANTS r1, r2, ana, luis, co2025, co2026

TwoRequests == {r1, r2}
OneEmployee == {ana}
TwoEmployees == {ana, luis}
OneRuleSet == {co2025}
TwoRuleSets == {co2025, co2026}

OneTypePerPolicy == {"MONTHLY", "BONUS", "EXTRAORDINARY"}
Monthly == {"MONTHLY"}

\* No action or property tells two requests apart.
RequestSymmetry == Permutations(Requests)
=============================================================================
