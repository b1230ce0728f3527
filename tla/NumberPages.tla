---------------------------- MODULE NumberPages ----------------------------
(***************************************************************************)
(* One page of ListNumbers and GetAuditLog: a COUNT, then an ORDER BY a    *)
(* time stamp, newest first, with LIMIT and OFFSET.  "stamp" is a function *)
(* from the rows that match the WHERE clause to their time stamps.         *)
(***************************************************************************)
EXTENDS Integers, FiniteSetsExt

CONSTANTS DefaultPageSize, MaxPageSize  \* 25 and 100

ASSUME PageSizes == MaxPageSize \in Nat /\ DefaultPageSize \in 1..MaxPageSize

PageSize(asked) == IF asked \in 1..MaxPageSize THEN asked ELSE DefaultPageSize

\* total / pageSize, rounded up.
TotalPages(total, size) == (total + size - 1) \div size

\* Mutant of Newest: oldest first.
Newest_Oldest(stamp, n) ==
    {S \in SUBSET DOMAIN stamp :
        /\ Cardinality(S) = n
        /\ \A x \in S, y \in DOMAIN stamp \ S : stamp[x] <= stamp[y]}

\* The first n rows by updated_at DESC.  The order of rows with one stamp is the
\* database's choice, anew in each query.
Newest(stamp, n) ==
    {S \in SUBSET DOMAIN stamp :
        /\ Cardinality(S) = n
        /\ \A x \in S, y \in DOMAIN stamp \ S : stamp[x] >= stamp[y]}

\* The rows from place "from" on to place "to", each query in its own order.
Slice(stamp, from, to) ==
    {S \ skipped : S \in Newest(stamp, to), skipped \in Newest(stamp, from)}

\* LIMIT size OFFSET (page - 1) * size.
Pages(stamp, page, size) ==
    LET n      == Cardinality(DOMAIN stamp)
        offset == Min({n, (page - 1) * size})
    IN  Slice(stamp, offset, Min({n, offset + size}))
=============================================================================
