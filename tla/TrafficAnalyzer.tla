--------------------------- MODULE TrafficAnalyzer ---------------------------
(***************************************************************************)
(* The report of AnalyzeTraffic: the calls of an uploaded traffic sample   *)
(* against the numbers its SELECTs returned.  "hits" is the map the        *)
(* SELECTs filled, from numbers to datasets.                               *)
(***************************************************************************)
EXTENDS PhoneNumber

\* numberCounts: how often each valid caller id occurs.
Occurrences(records, n) ==
    Cardinality({i \in DOMAIN records : Normalize(records[i]) = n})

\* unique: what has to be looked up, each number once.
Lookups(records) == {n \in {Normalize(records[i]) : i \in DOMAIN records} : Valid(n)}

EmptyReport(hits) ==
    [hits |-> 0, misses |-> 0,
     byDataset |-> [d \in {hits[n] : n \in DOMAIN hits} |-> 0],
     spoofed |-> [n \in DOMAIN hits |-> 0]]

\* Mutant of Counted: a number is counted in its dataset when first met only.
Counted_DatasetOnce(rep, n, hits, frequency) ==
    IF n \notin DOMAIN hits THEN [rep EXCEPT !.misses = @ + 1]
    ELSE [rep EXCEPT !.hits = @ + 1,
                     !.byDataset[hits[n]] = IF rep.spoofed[n] > 0 THEN @ ELSE @ + 1,
                     !.spoofed[n] = @ + frequency]

\* One call.  That of a listed number adds the number's whole frequency to its count.
Counted(rep, n, hits, frequency) ==
    IF n \notin DOMAIN hits THEN [rep EXCEPT !.misses = @ + 1]
    ELSE [rep EXCEPT !.hits = @ + 1,
                     !.byDataset[hits[n]] = @ + 1,
                     !.spoofed[n] = @ + frequency]

\* One pass over the calls.
Report(records, hits) ==
    LET upTo[i \in 0..Len(records)] ==
          IF i = 0 THEN EmptyReport(hits)
          ELSE LET n == Normalize(records[i])
               IN  Counted(upTo[i - 1], n, hits, Occurrences(records, n))
    IN  upTo[Len(records)]
=============================================================================
