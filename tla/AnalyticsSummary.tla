-------------------------- MODULE AnalyticsSummary --------------------------
(***************************************************************************)
(* What GetAnalytics and GenerateComplianceReport read, and in which       *)
(* order.  View is every count of a database at one moment; a report takes *)
(* one entry of it per statement.  The windows of 24 hours and 30 days are *)
(* taken to hold the whole log: it only grows while a report is put        *)
(* together.                                                               *)
(***************************************************************************)
EXTENDS DNOTable, Integers, Sequences, Functions

ActiveKeys(t) == {k \in Key : Active(t, k)}

\* GROUP BY over the active rows: a group without a row is absent.
GroupBy(t, Col(_)) ==
    [g \in {Col(k) : k \in ActiveKeys(t)} |->
        Cardinality({k \in ActiveKeys(t) : Col(k) = g})]

Group(groups, g) == IF g \in DOMAIN groups THEN groups[g] ELSE 0

OfDatasets(groups) ==
    Group(groups, "auto") + Group(groups, "subscriber")
        + Group(groups, "itg") + Group(groups, "tss_registry")

OfChannels(groups) ==
    Group(groups, "voice") + Group(groups, "text") + Group(groups, "both")

View(d) ==
    [total     |-> Cardinality(ActiveKeys(d.dno)),
     byDataset |-> GroupBy(d.dno, LAMBDA k : d.dno[k].dataset),
     byChannel |-> GroupBy(d.dno, LAMBDA k : k[2]),
     queries   |-> d.queries,
     hits      |-> d.hits,
     byHour    |-> d.queries]        \* the sum over the hours

\* Mutant of SummaryReads: the hours come before the totals.
SummaryReads_HoursFirst ==
    <<"total", "byDataset", "byChannel", "byHour", "queries", "hits">>

\* The statements of GetAnalytics, in order, without the grouping by number type,
\* which is like the one by channel, and the two counts of the audit trail, which
\* nothing else in the summary is to agree with.
SummaryReads ==
    <<"total", "byDataset", "byChannel", "queries", "hits", "byHour">>

\* The statements of GenerateComplianceReport its assessment looks at, in order.
ComplianceReads == <<"total", "byDataset", "queries">>

\* What is left in the report when a statement fails or its rows end early: the
\* zero value or some of the groups.
Remains(x, value) ==
    IF x = "byDataset"
    THEN {Restrict(value, S) : S \in SUBSET DOMAIN value}
    ELSE {0, value}

\* Mutant of ComplianceStatus: no test of the queries.
ComplianceStatus_NoQueryTest(rep) ==
    CASE rep.total = 0 -> "non_compliant"
      [] rep.total > 0 /\ "auto" \notin DOMAIN rep.byDataset -> "at_risk"
      [] OTHER -> "compliant"

\* The last of the code's tests that applies decides.
ComplianceStatus(rep) ==
    CASE rep.queries = 0 -> "at_risk"
      [] rep.queries > 0 /\ rep.total = 0 -> "non_compliant"
      [] rep.queries > 0 /\ rep.total > 0 /\ "auto" \notin DOMAIN rep.byDataset -> "at_risk"
      [] OTHER -> "compliant"
=============================================================================
