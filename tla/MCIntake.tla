------------------------------ MODULE MCIntake ------------------------------
(* Small instances of Intake for TLC. *)
EXTENDS Intake, TLC

CONSTANTS r1, r2, empty, located, trip, tripNat

MCRequests == {r1, r2}
\* located is incomplete but carries a nationality; trip is complete without.
MCPartial == {empty, located}
MCComplete == {trip, tripNat}
MCWithNationality == {located, tripNat}

\* Serial callers need more versions to go around once through a reset.
MCMaxVersion == [e \in Envs |-> IF "overlap" \in e THEN 3 ELSE 5]

Symmetry == Permutations(MCRequests)
=============================================================================
