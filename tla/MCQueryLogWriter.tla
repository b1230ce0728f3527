-------------------------- MODULE MCQueryLogWriter --------------------------
(* Instances of QueryLogWriter for TLC. *)
EXTENDS QueryLogWriter

CONSTANTS e1, e2, e3

ThreeEntries == {e1, e2, e3}
NoneRejected == {}
OneRejected  == {e3}
=============================================================================
