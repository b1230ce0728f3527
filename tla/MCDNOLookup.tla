---------------------------- MODULE MCDNOLookup ----------------------------
(* Instances of DNOLookup for TLC. *)
EXTENDS DNOLookup, TLC

CONSTANTS p1, query, portal, l1, l2, c1, c2

OnePhone  == {p1}
Channels  == {"voice", "both"}
Asked     == {p1} \X {"voice", "both"}

\* As deployed: the query service looks up, the portal changes.
Deployed  == {query, portal}
QueryOnly == {query}
PortalOnly == {portal}

\* One process that does both, as the service tests run it.
Together  == {query}

OneLookup  == {l1}
TwoLookups == {l1, l2}
OneChange  == {c1}
TwoChanges == {c1, c2}
=============================================================================
