-------------------------- MODULE MCMigrationLock --------------------------
(* Instances of MigrationLock for TLC. *)
EXTENDS MigrationLock, TLC

CONSTANTS i1, i2, i3, s1, s2, s3

Both       == {TRUE, FALSE}
OnlyPooled == {TRUE}

ThreeInstances == {i1, i2, i3}
TwoInstances   == {i1, i2}
ThreeSessions  == {s1, s2, s3}
Own == [i \in Instances |-> IF i = i1 THEN s1 ELSE IF i = i2 THEN s2 ELSE s3]
=============================================================================
