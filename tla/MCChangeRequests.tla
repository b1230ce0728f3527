-------------------------- MODULE MCChangeRequests --------------------------
(* Instances of ChangeRequests for TLC. *)
EXTENDS ChangeRequests, TLC

CONSTANTS r1, r2, s1, p1, o1, o2

Op(k, o) == [kind |-> k, phone |-> p1, chan |-> "voice", org |-> o]

\* o1's own changes, and what others do to its number.
FewOps == {Op("add", o1), Op("remove", o1), Op("ingest", o2),
           Op("lookup", o1), Op("bulkLookup", o1), Op("generateKey", o1), Op("revokeKey", o1)}

RowOf(o) == [dataset |-> "subscriber", status |-> "active", org |-> o]

Plan(a, b) == [r \in Requests |-> IF r = r1 THEN a ELSE b]

\* A change of the list beside an ingest of its number; what may be sent twice
\* beside what may not.
FewPlans == {
    Plan(Op("add", o1), Op("ingest", o2)),
    Plan(Op("remove", o1), Op("ingest", o2)),
    Plan(Op("generateKey", o1), Op("bulkLookup", o1)),
    Plan(Op("revokeKey", o1), Op("bulkLookup", o1)),
    Plan(Op("lookup", o1), Op("bulkLookup", o1))}

NamedOrBoth == {[owner |-> o1, events |-> {}],
                [owner |-> o2, events |-> {"dno.removed"}]}

\* The number is listed by o1.
ListedTable == {[EmptyTable EXCEPT ![<<p1, "voice">>] = RowOf(o1)]}
=============================================================================
