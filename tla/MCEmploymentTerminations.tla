---------------------- MODULE MCEmploymentTerminations ----------------------
(***************************************************************************)
(* Small instances of EmploymentTerminations.                              *)
(***************************************************************************)
EXTENDS EmploymentTerminations, TLC

CONSTANTS r1, r2, ana, t1, t2, co2025, co2026, dates1, dates2

TwoRequests == {r1, r2}
OneEmployee == {ana}
TwoTerminations == {t1, t2}
TwoRuleSets == {co2025, co2026}
OneRuleSet == {co2025}
TwoInputs == {dates1, dates2}
OneInput == {dates1}

\* No action or property tells two members of one of these sets apart.
Symmetries == Permutations(Requests) \cup Permutations(Terminations)
              \cup Permutations(RuleSets) \cup Permutations(Inputs)
=============================================================================
