----------------------- MODULE MCPayrollPeriodCreation -----------------------
(***************************************************************************)
(* Small instances of PayrollPeriodCreation.                               *)
(***************************************************************************)
EXTENDS PayrollPeriodCreation

CONSTANTS r1, r2, acme, k1, k2

TwoRequests == {r1, r2}
OneCompany == {acme}
ThreeTypes == {"SEMIMONTHLY", "WEEKLY", "EXTRAORDINARY"}
TwoLocks == {k1, k2}

\* The lock names of all types collide; k2 is a key nobody should use.
Colliding == [name \in Companies \X Types |-> k1]
=============================================================================
