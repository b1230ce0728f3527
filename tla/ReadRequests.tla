---------------------------- MODULE ReadRequests ----------------------------
(***************************************************************************)
(* The requests that read the DNO list, statement by statement, while      *)
(* others change it: BulkQuery, the pages a client walks through with      *)
(* ListNumbers and GetAuditLog, GetAnalytics with its cache, AnalyzeTraffic *)
(* and GenerateComplianceReport.  Requests that read do not disturb each   *)
(* other, so a behaviour is about one kind of request, its topic, and one  *)
(* is in progress at a time.  Changes come from this portal process, which *)
(* then drops its cached summary, and from elsewhere.  Analytics and the   *)
(* audit trail are read from the replica, which follows the database with  *)
(* a delay.                                                                *)
(***************************************************************************)
EXTENDS BulkQuery, TrafficAnalyzer, NumberPages, AnalyticsSummary

CONSTANTS Lists,         \* numbers as clients send them, in sequences
          BulkLimit,     \* 1000
          AnalyzeLimit,  \* 100000
          BatchSize,     \* 500: numbers in one SELECT of the analyzer
          AskedSizes,    \* page sizes clients ask for
          InitTables,    \* for each kind of request, the lists to start from
          InitStamps,    \* when their rows were last changed
          AddChannels,   \* channels of additions and removals
          None,          \* no cached summary
          Topics,        \* the kinds of request asked
          MaxChanges, MaxLogged   \* bounds of an instance

VARIABLES topic,    \* the kind of request this behaviour is about
          db,           \* dno_numbers, its updated_at, audit_log and query_log
          replica,  \* the copy analytics read
          now,      \* the clock of the time stamps, which are rounded to seconds
          summary,  \* the entry of the analytics cache
          pending,  \* additions and removals of this process not finished yet
          changes,  \* changes made so far
          req       \* the request in progress

vars == <<topic, db, replica, now, summary, pending, changes, req>>

Topic == {"bulk", "analysis", "numbers", "audit", "summary", "compliance"}

\* Whatever passes the format check is stored, numbers that begin with 1 included:
\* normalizePhone takes two prefixes off "+11..." and leaves such a one.
ASSUME ListedNumbers == \A p \in Phones : Valid(p)

ASSUME InstanceParameters ==
    /\ IsFiniteSet(Phones)
    /\ Lists \subseteq Seq(Seq(Symbol))
    /\ Topics \subseteq Topic
    /\ \A t \in Topics : InitTables[t] \subseteq DNOTable
    /\ InitStamps \in [Key -> 0..1]
    /\ AddChannels \subseteq Channel
    /\ MaxChanges \in Nat
    /\ MaxLogged \in Nat

Voice == "voice"    \* the channel of bulk queries and analyses

Idle == [pc |-> "idle"]

\* A SELECT for number n finds an active row.
Listed(d, n) == n \in Phones /\ Hit(d.dno, n, Voice)

Databases ==
    [dno : DNOTable, at : [Key -> 0..MaxChanges + 1],
     audit : UNION {[1..n -> 0..MaxChanges + 1] : n \in 0..MaxChanges + 1},
     queries : 0..MaxLogged, hits : 0..MaxLogged]

Init ==
    /\ topic \in Topics
    /\ db \in {[dno |-> t, at |-> InitStamps, audit |-> <<0>>,
                queries |-> 0, hits |-> 0] : t \in InitTables[topic]}
    /\ replica = db
    /\ now = 1
    /\ summary = None
    /\ pending = [add |-> 0, remove |-> 0]
    /\ changes = 0
    /\ req = Idle

-----------------------------------------------------------------------------
(* A request's record: where it is, what it is about, and as history       *)
(*   moments  the databases it could have read since it began,             *)
(*   grew     a row has come in since the last COUNT,                      *)
(*   shrank   a row that matched no longer does,                           *)
(*   overtaken  a ChangeElsewhere or an invalidation came since.           *)

\* AnalyticsReader, the replica, or Reader.
OnReplica == topic \in {"summary", "audit"}

Source == IF OnReplica THEN replica ELSE db

\* f, and g where f has nothing.
Over(f, g) == [x \in DOMAIN f \cup DOMAIN g |-> IF x \in DOMAIN f THEN f[x] ELSE g[x]]

Begin(about, pc, fields) ==
    /\ topic = about
    /\ req = Idle
    /\ req' = Over([pc |-> pc, moments |-> {Source}, grew |-> FALSE, shrank |-> FALSE,
                    overtaken |-> FALSE], fields)
    /\ UNCHANGED <<topic, db, replica, now, summary, pending, changes>>

\* A step of the request that only reads.
To(pc, fields) ==
    /\ req' = Over([pc |-> pc], Over(fields, req))
    /\ UNCHANGED <<topic, db, replica, now, pending, changes>>

\* An error goes to the client and nothing is kept.
Fail ==
    /\ req' = Idle
    /\ UNCHANGED <<topic, db, replica, now, summary, pending, changes>>

Close ==
    /\ req.pc = "answered"
    /\ Fail

\* The rows a page is about and the time stamps it is ordered by.
NumberStamps(d) ==
    [k \in {k \in Key : /\ Exists(d.dno, k)
                        /\ req.filter = "active" => Active(d.dno, k)} |-> d.at[k]]

AuditStamps(d) == d.audit

Stamps(d) == IF topic = "audit" THEN AuditStamps(d) ELSE NumberStamps(d)

Rows(d) == DOMAIN Stamps(d)

\* What it is to the request in progress that its database goes from d to e.
Noticed(d, e) ==
    IF topic \in {"numbers", "audit"}
    THEN [req EXCEPT !.moments = @ \cup {e},
                     !.grew = @ \/ ~ Rows(e) \subseteq Rows(d),
                     !.shrank = @ \/ ~ Rows(d) \subseteq Rows(e)]
    ELSE [req EXCEPT !.moments = @ \cup {e}]

-----------------------------------------------------------------------------
(* Changes by others.                                                      *)

Written(d, overtakes) ==
    /\ db' = d
    /\ req' = CASE req = Idle -> req
                [] req # Idle /\ OnReplica -> [req EXCEPT !.overtaken = @ \/ overtakes]
                [] OTHER -> Noticed(db, d)
    /\ UNCHANGED <<topic, replica>>

\* A statement that sets updated_at of the rows K.
Change(K, table, t, overtakes) ==
    /\ changes < MaxChanges
    /\ changes' = changes + 1
    /\ now' = t
    /\ Written([db EXCEPT !.dno = table,
                          !.at = [k \in Key |-> IF k \in K THEN t ELSE db.at[k]]],
               overtakes)

\* What is left to do after the change: it touches the audit trail and the summary.
Unfinished(kind) ==
    pending' = IF OnReplica THEN [pending EXCEPT ![kind] = @ + 1] ELSE pending

AddNumber(p, c, t) ==
    /\ \E o \in Orgs :
          Change({<<p, c>>}, UpsertSubscriber(db.dno, p, c, o), t, FALSE)
    /\ Unfinished("add")
    /\ UNCHANGED summary

RemoveNumber(p, c, t) ==
    /\ \E o \in Orgs :
          LET K == RemoveTargets(db.dno, p, c, o) IN
            K # {} /\ Change(K, Deactivate(db.dno, K), t, FALSE)
    /\ Unfinished("remove")
    /\ UNCHANGED summary

Excused(s) == IF s = None THEN None ELSE [s EXCEPT !.excused = TRUE]

\* A change that drops no summary here.  One statement stands for them all: porting
\* events, ITG ingestion and the TSS sync invalidate nothing, in this process either,
\* and additions and removals of other processes invalidate over there.
ChangeElsewhere(p, t) ==
    /\ Change({<<p, Voice>>}, UpsertSystem(db.dno, p, Voice, "auto"), t, TRUE)
    /\ summary' = Excused(summary)
    /\ UNCHANGED pending

\* Mutant of Finish: the summary stays.
Finish_KeepsSummary(kind) ==
    /\ pending[kind] > 0
    /\ pending' = [pending EXCEPT ![kind] = @ - 1]
    /\ \E kept \in IF topic = "audit" THEN BOOLEAN ELSE {TRUE} :
          Written([db EXCEPT !.audit = IF kept THEN Append(@, now) ELSE @], TRUE)
    /\ UNCHANGED <<now, summary, changes>>

\* The audit entry, whose error is ignored, and then the invalidation.
Finish(kind) ==
    /\ pending[kind] > 0
    /\ pending' = [pending EXCEPT ![kind] = @ - 1]
    /\ \E kept \in IF topic = "audit" THEN BOOLEAN ELSE {TRUE} :
          Written([db EXCEPT !.audit = IF kept THEN Append(@, now) ELSE @], TRUE)
    /\ summary' = None
    /\ UNCHANGED <<now, changes>>

\* AddNumber's second statement fails, or the driver cannot say how many rows
\* RemoveNumber's update took: no audit entry and no invalidation.
GiveUp(kind) ==
    /\ pending[kind] > 0
    /\ pending' = [pending EXCEPT ![kind] = @ - 1]
    /\ summary' = Excused(summary)
    /\ Written(db, TRUE)
    /\ UNCHANGED <<now, changes>>

\* The query log's writer flushes an entry.
QueryLogged(n) ==
    /\ db.queries < MaxLogged
    /\ Written([db EXCEPT !.queries = @ + 1, !.hits = @ + n], FALSE)
    /\ UNCHANGED <<now, summary, pending, changes>>

Replicate ==
    /\ replica # db
    /\ replica' = db
    /\ req' = IF req = Idle THEN req ELSE Noticed(replica, db)
    /\ UNCHANGED <<topic, db, now, summary, pending, changes>>

Expire ==
    /\ summary # None
    /\ summary' = None
    /\ UNCHANGED <<topic, db, replica, now, pending, changes, req>>

-----------------------------------------------------------------------------
(* BulkQuery: the cache, one SELECT for the rest, the answer.              *)

BulkRefused(list) == list = <<>>

BulkStart(list) ==
    /\ ~ BulkRefused(list) /\ Len(list) <= BulkLimit
    /\ \E got \in [{i \in DOMAIN list : Valid(Normalize(list[i]))}
                   -> {"nothing", "hit", "miss"}] :
          Begin("bulk", "select", [list |-> list, got |-> got,
                               first |-> FirstPass(list, got)])

BulkReply(list, acc, found) ==
    /\ To("answered", [found |-> found, answer |-> BulkAnswer(list, SecondPass(acc, found))])
    /\ UNCHANGED summary

BulkSelect ==
    /\ req.pc = "select"
    /\ BulkReply(req.list, req.first,
                 {n \in ToSet(req.first.rest) : Listed(db, n)})

-----------------------------------------------------------------------------
(* A walk through the pages, as the client's buttons do it: one request    *)
(* per page, to the number of pages the last answer gave.                  *)

Walk(about, filter, asked) ==
    Begin(about, "count", [filter |-> filter, size |-> PageSize(asked), page |-> 1,
                           total |-> 0, seen |-> {}])

ListStart(filter, asked) == Walk("numbers", filter, asked)

AuditStart(asked) == Walk("audit", "all", asked)

WalkCount ==
    /\ req.pc = "count"
    /\ To("page", [total |-> Cardinality(Rows(Source)), grew |-> FALSE])
    /\ UNCHANGED summary

WalkPage ==
    /\ req.pc = "page"
    /\ \E rows \in Pages(Stamps(Source), req.page, req.size) :
          LET seen == req.seen \cup rows IN
            IF req.page < TotalPages(req.total, req.size)
            THEN To("count", [seen |-> seen, page |-> req.page + 1])
            ELSE To("answered", [seen |-> seen])
    /\ UNCHANGED summary

-----------------------------------------------------------------------------
(* GetAnalytics.                                                           *)

SummaryCached ==
    /\ summary # None
    /\ Begin("summary", "answered", [view |-> summary.view, built |-> FALSE])

SummaryStart ==
    /\ summary = None
    /\ Begin("summary", "read", [view |-> <<>>])

NextOf(reads) == reads[Cardinality(DOMAIN req.view) + 1]

\* What was read goes into the view.
Noted(x, value) == [y \in DOMAIN req.view \cup {x} |-> IF y = x THEN value ELSE req.view[y]]

Taken(reads) == Cardinality(DOMAIN req.view) = Len(reads)

Reading(about) == topic = about /\ req.pc = "read"

SummaryRead ==
    /\ Reading("summary") /\ ~ Taken(SummaryReads)
    /\ LET x == NextOf(SummaryReads)
       IN  To("read", [view |-> Noted(x, View(Source)[x])])
    /\ UNCHANGED summary

\* Mutant of SummaryStore: the last read's error is passed over.
SummaryStore_Short ==
    /\ Reading("summary") /\ Cardinality(DOMAIN req.view) >= Len(SummaryReads) - 1
    /\ summary' = [view |-> req.view,
                   excused |-> req.overtaken \/ replica # db
                                \/ Cardinality(req.moments) > 1]
    /\ To("answered", [built |-> TRUE])

SummaryStore ==
    /\ Reading("summary") /\ Taken(SummaryReads)
    /\ summary' = [view |-> req.view,
                   excused |-> req.overtaken \/ replica # db
                                \/ Cardinality(req.moments) > 1]
    /\ To("answered", [built |-> TRUE])

-----------------------------------------------------------------------------
(* GenerateComplianceReport: every error is ignored.                       *)

ComplianceStart == Begin("compliance", "read", [view |-> <<>>])

ComplianceRead ==
    /\ Reading("compliance") /\ ~ Taken(ComplianceReads)
    /\ LET x == NextOf(ComplianceReads)
       IN  \E value \in Remains(x, View(Source)[x]) :
              To("read", [view |-> Noted(x, value)])
    /\ UNCHANGED summary

ComplianceReply ==
    /\ Reading("compliance") /\ Taken(ComplianceReads)
    /\ To("answered", [status |-> ComplianceStatus(req.view)])
    /\ UNCHANGED summary

-----------------------------------------------------------------------------
(* AnalyzeTraffic: the numbers in batches, in the order of a map.          *)

AnalyzeRefused(list) == list = <<>> \/ Len(list) > AnalyzeLimit

AnalyzeStart(list) ==
    /\ ~ AnalyzeRefused(list)
    /\ Begin("analysis", "analyze", [list |-> list, cut |-> FALSE,
                         todo |-> Lookups(list), found |-> <<>>])

\* With a voice row and a "both" row the later one is kept, in no set order.
DatasetsOf(n) == {db.dno[k].dataset : k \in {k \in Covering(n, Voice) : Active(db.dno, k)}}

\* The error of an interrupted result is not looked at: the rest of the batch is
\* taken to be off the list.
AnalyzeBatch ==
    /\ req.pc = "analyze"
    /\ req.todo # {}
    /\ \E batch \in SUBSET req.todo :
          /\ Cardinality(batch) = Min({BatchSize, Cardinality(req.todo)})
          /\ LET listed == {n \in batch : Listed(db, n)} IN
             \E came \in SUBSET listed :
             \E data \in {f \in [came -> Dataset] : \A n \in came : f[n] \in DatasetsOf(n)} :
                To("analyze", [todo |-> req.todo \ batch, found |-> Over(data, req.found),
                               cut |-> req.cut \/ came # listed])
    /\ UNCHANGED summary

AnalyzeReply ==
    /\ req.pc = "analyze"
    /\ req.todo = {}
    /\ To("answered", [report |-> Report(req.list, req.found)])
    /\ UNCHANGED summary

\* A statement of a request that looks at its errors fails.
ReadFails ==
    /\ req.pc \in {"select", "count", "page", "analyze"} \/ Reading("summary")
    /\ Fail

-----------------------------------------------------------------------------

\* Two changes may have one time stamp, where time stamps matter.
Ticks == IF topic \in {"numbers", "audit"} THEN {now, now + 1} ELSE {now}

\* Each kind of change where it can make a difference to the topic.
Others ==
    \/ \E p \in Phones, c \in AddChannels, t \in Ticks :
          AddNumber(p, c, t) \/ RemoveNumber(p, c, t)
    \/ \E p \in Phones, t \in Ticks : ChangeElsewhere(p, t)
    \/ /\ OnReplica
       /\ Replicate \/ \E kind \in {"add", "remove"} : Finish(kind) \/ GiveUp(kind)
    \/ /\ topic \in {"summary", "compliance"}
       /\ Expire \/ \E n \in {0, 1} : QueryLogged(n)

Requests ==
    \/ \E list \in Lists : BulkStart(list) \/ AnalyzeStart(list)
    \/ BulkSelect \/ AnalyzeBatch \/ AnalyzeReply
    \/ \E n \in AskedSizes : AuditStart(n) \/ \E filter \in {"all", "active"} : ListStart(filter, n)
    \/ WalkCount \/ WalkPage
    \/ SummaryCached \/ SummaryStart \/ SummaryRead \/ SummaryStore
    \/ ComplianceStart \/ ComplianceRead \/ ComplianceReply
    \/ ReadFails \/ Close

\* An answer is given at once: nothing happens between a reply and Close.
Next ==
    \/ req.pc # "answered" /\ Others
    \/ Requests

Spec == Init /\ [][Next]_vars

-----------------------------------------------------------------------------
(* Properties.                                                             *)

TypeOK ==
    /\ topic \in Topic
    /\ db \in Databases /\ replica \in Databases
    /\ now \in 1..MaxChanges + 1
    /\ summary = None \/ DOMAIN summary.view = ToSet(SummaryReads)
    /\ pending \in [{"add", "remove"} -> 0..MaxChanges]
    /\ changes \in 0..MaxChanges
    /\ req.pc \in {"idle", "answered", "select", "count", "page", "read", "analyze"}

Answered(about) == topic \in about /\ req.pc = "answered"

\* A bulk answer has, in some order, exactly one result per entry of the request,
\* each what that entry alone would have got, also for repeated, invalid and
\* differently written numbers of which only some are cached; its counts agree with
\* its results, and what goes to the query log is its valid results.
BulkAnswersEach ==
    Answered({"bulk"}) =>
        LET alone == [i \in DOMAIN req.list |->
                        AnsweredAlone(req.list[i], req.got, i, req.found,
                                      [1..Digits -> Digit])]
        IN  /\ IsPermutationOf(req.answer.results, alone)
            /\ req.answer.total = Len(alone)
            /\ req.answer.hits + req.answer.misses = req.answer.total
            /\ req.answer.hits = Cardinality({i \in DOMAIN alone : alone[i].dno})
            /\ \A r \in ToSet(req.answer.logged) \cup ToSet(alone) :
                  Times(req.answer.logged, r) = IF r.error THEN 0 ELSE Times(alone, r)

\* Walking through the pages while others add, remove and list again, a client sees
\* every row that matched all the time with a time stamp of its own, unless a row
\* came in after the last COUNT or a row left the filtered set.
WalkSeesUntouched ==
    Answered({"numbers", "audit"}) /\ ~ req.grew /\ ~ req.shrank =>
        LET Steady(k) == \A d, e \in req.moments :
                            /\ k \in Rows(d)
                            /\ Stamps(d)[k] = Stamps(e)[k]
                            /\ \A x \in Rows(d) \ {k} : Stamps(d)[x] # Stamps(d)[k]
        IN  \A k \in UNION {Rows(d) : d \in req.moments} : Steady(k) => k \in req.seen

\* A summary never counts more queries or more hits than its hours hold.
HoursHoldAll ==
    Answered({"summary"}) /\ req.built =>
        req.view.queries <= req.view.byHour /\ req.view.hits <= req.view.byHour

\* So it is; and put together while the list stood still, a summary's groups add up
\* to its total.
SummaryAddsUp ==
    /\ HoursHoldAll
    /\ Answered({"summary"}) /\ req.built /\ (\A d, e \in req.moments : d.dno = e.dno) =>
          /\ OfDatasets(req.view.byDataset) = req.view.total
          /\ OfChannels(req.view.byChannel) = req.view.total

\* A cached summary whose list counts are not those of the list has a cause: a change
\* that drops no summary in this process (another process's, a porting event, ITG
\* ingestion or TSS sync of any process, an addition or removal of this one that
\* failed half way), an addition or removal of this process that is not finished, or
\* a change, an invalidation or a lagging replica while it was put together.
StaleSummaryHasACause ==
    \/ summary = None
    \/ summary.excused
    \/ pending # [add |-> 0, remove |-> 0]
    \/ \A x \in {"total", "byDataset", "byChannel"} : summary.view[x] = View(db)[x]

\* A number that an analysis lists was on the list, with that dataset, at some moment
\* of the analysis, and one it passes over was off it at some moment unless a result
\* was cut off.
AnalysisWasTrue ==
    Answered({"analysis"}) =>
        LET hits == DOMAIN req.found IN
        /\ \A n \in hits : \E d \in req.moments :
              \E k \in Covering(n, Voice) : Active(d.dno, k) /\ d.dno[k].dataset = req.found[n]
        /\ ~ req.cut => \A n \in Lookups(req.list) \ hits :
                           \E d \in req.moments : ~ Listed(d, n)

\* So it is; and the analysis counts every call once, as a hit of one dataset or a miss.
AnalysisIsJustified ==
    /\ AnalysisWasTrue
    /\ Answered({"analysis"}) =>
          /\ req.report.hits + req.report.misses = Len(req.list)
          /\ OfDatasets(req.report.byDataset) = req.report.hits

\* Whatever statements of it failed, a report says "compliant" only if, since the
\* request began, the list had an active number and one of the auto set at some
\* moment, and queries were logged.
CompliantIsEarned ==
    Answered({"compliance"}) /\ req.status = "compliant" =>
        /\ \E d \in req.moments : ActiveKeys(d.dno) # {}
        /\ \E d \in req.moments : \E k \in ActiveKeys(d.dno) : d.dno[k].dataset = "auto"
        /\ \E d \in req.moments : d.queries > 0
=============================================================================
