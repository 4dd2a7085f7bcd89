----------------------------- MODULE MCRuleSets -----------------------------
(***************************************************************************)
(* Instances of RuleSets.                                                  *)
(***************************************************************************)
EXTENDS RuleSets, TLC

CONSTANTS r1, r2, u1, u2, CO, k1, k2, c1, c2

TwoRequests == {r1, r2}
OneUser == {u1}
OneJurisdiction == {CO}
TwoLocks == {k1, k2}
OneHash == CO :> k1
OneContent == {c1}
TwoContents == {c1, c2}
=============================================================================
