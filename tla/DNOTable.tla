------------------------------ MODULE DNOTable ------------------------------
(***************************************************************************)
(* The two tables every DNO operation reads or writes, dno_numbers and     *)
(* number_registry, and the SQL statements of the services as operators on *)
(* them.  One statement is atomic; what a handler does between two         *)
(* statements belongs to the modules that use these operators.             *)
(*                                                                         *)
(* dno_numbers is a function from its UNIQUE(phone_number, channel) key to *)
(* a row or NoRow.  The columns kept are those a WHERE clause or an upsert *)
(* distinguishes; reason, timestamps and ITG metadata are left out.        *)
(***************************************************************************)
EXTENDS FiniteSets

CONSTANTS Phones,   \* normalised ten-digit numbers
          Orgs,     \* organizations.id
          NoOrg,    \* SQL NULL in added_by_org_id and owner_org_id
          NoRow,    \* no dno_numbers row has this key
          NoEntry   \* no number_registry row for this number

Channel  == {"voice", "text", "both"}
Dataset  == {"auto", "subscriber", "itg", "tss_registry"}
Status   == {"active", "inactive"}
Key      == Phones \X Channel
Row      == [dataset : Dataset, status : Status, org : Orgs \cup {NoOrg}]
DNOTable == [Key -> Row \cup {NoRow}]

NumberType == {"local", "toll_free"}
RegStatus  == {"assigned", "unassigned", "ported", "disconnected"}
Entry      == [owner : Orgs \cup {NoOrg}, type : NumberType,
               status : RegStatus, text : BOOLEAN]
Registry   == [Phones -> Entry \cup {NoEntry}]

ASSUME NullsAreNotValues ==
    /\ NoOrg \notin Orgs
    /\ NoRow \notin Row
    /\ NoEntry \notin Entry

EmptyTable == [k \in Key |-> NoRow]

Exists(t, k) == t[k] # NoRow

Active(t, k) == Exists(t, k) /\ t[k].status = "active"

\* The keys a lookup or a removal on channel c looks at: channel = c OR 'both'.
Covering(p, c) == {<<p, c>>, <<p, "both">>}

\* A lookup is a hit when some covering row is active.  LIMIT 1 has no ORDER BY,
\* so which of several rows is reported is left open.
Hit(t, p, c) == \E k \in Covering(p, c) : Active(t, k)

\* Mutant of UpsertSubscriber: the conflict clause sets the dataset too.
UpsertSubscriber_TakesDataset(t, p, c, o) ==
    [t EXCEPT ![<<p, c>>] =
        IF Exists(t, <<p, c>>)
        THEN [@ EXCEPT !.status = "active", !.dataset = "subscriber"]
        ELSE [dataset |-> "subscriber", status |-> "active", org |-> o]]

\* Mutant of UpsertSubscriber: the conflict clause overwrites the row.
UpsertSubscriber_TakesRow(t, p, c, o) ==
    [t EXCEPT ![<<p, c>>] =
        [dataset |-> "subscriber", status |-> "active", org |-> o]]

\* AddNumber: the row is inserted as a subscriber row of org o; an existing row
\* is only reactivated and keeps its dataset and its organization.
UpsertSubscriber(t, p, c, o) ==
    [t EXCEPT ![<<p, c>>] =
        IF Exists(t, <<p, c>>)
        THEN [@ EXCEPT !.status = "active"]
        ELSE [dataset |-> "subscriber", status |-> "active", org |-> o]]

\* Mutant of UpsertSystem: a new row waits for an approval.
UpsertSystem_Pending(t, p, c, d) ==
    [t EXCEPT ![<<p, c>>] =
        IF Exists(t, <<p, c>>)
        THEN [@ EXCEPT !.status = "active", !.dataset = d]
        ELSE [dataset |-> d, status |-> "pending", org |-> NoOrg]]

\* Mutant of UpsertSystem: the conflict clause reactivates only, as AddNumber's does.
UpsertSystem_KeepsDataset(t, p, c, d) ==
    [t EXCEPT ![<<p, c>>] =
        IF Exists(t, <<p, c>>)
        THEN [@ EXCEPT !.status = "active"]
        ELSE [dataset |-> d, status |-> "active", org |-> NoOrg]]

\* IngestITGNumber and a disconnecting NPAC event: an existing row is
\* reactivated and moved to dataset d, and keeps its organization.
UpsertSystem(t, p, c, d) ==
    [t EXCEPT ![<<p, c>>] =
        IF Exists(t, <<p, c>>)
        THEN [@ EXCEPT !.status = "active", !.dataset = d]
        ELSE [dataset |-> d, status |-> "active", org |-> NoOrg]]

Deactivate(t, K) ==
    [k \in Key |-> IF k \in K THEN [t[k] EXCEPT !.status = "inactive"] ELSE t[k]]

\* Mutant of RemoveTargets: no dataset = 'subscriber' condition.
RemoveTargets_AnyDataset(t, p, c, o) ==
    {k \in Covering(p, c) : Exists(t, k) /\ t[k].org = o}

\* Mutant of RemoveTargets: no added_by_org_id condition.
RemoveTargets_AnyOrg(t, p, c, o) ==
    {k \in Covering(p, c) : Exists(t, k) /\ t[k].dataset = "subscriber"}

\* RemoveNumber: the caller's own subscriber rows.  There is no status filter.
RemoveTargets(t, p, c, o) ==
    {k \in Covering(p, c) : /\ Exists(t, k)
                            /\ t[k].dataset = "subscriber"
                            /\ t[k].org = o}

\* Mutant of AutoTargets: no dataset = 'auto' condition.
AutoTargets_AnyDataset(t, p) == {k \in {p} \X Channel : Active(t, k)}

\* A porting or assigning NPAC event: the active rows of the auto set.
AutoTargets(t, p) ==
    {k \in {p} \X Channel : Active(t, k) /\ t[k].dataset = "auto"}

\* The upsert of a porting or assigning event; the number type and the text flag
\* of a known number are kept.
UpsertRegistry(r, p, s, o) ==
    [r EXCEPT ![p] =
        IF r[p] # NoEntry
        THEN [@ EXCEPT !.owner = o, !.status = s]
        ELSE [owner |-> o, type |-> "local", status |-> s, text |-> FALSE]]

-----------------------------------------------------------------------------
(* The TSS Registry sync, INSERT ... SELECT in one statement.              *)

\* The filter compares text_enabled with 0: SQLite answers it, PostgreSQL has a
\* BOOLEAN column there and refuses the statement (SyncTSS of DNORegistry).
NonTextTollFree(r) ==
    {p \in Phones : r[p] # NoEntry /\ r[p].type = "toll_free" /\ ~ r[p].text}

\* Mutant of SyncTargets: any text row, also an inactive one, counts as present.
SyncTargets_AnyTextRow(t, r) ==
    {p \in NonTextTollFree(r) : ~ Exists(t, <<p, "text">>)}

\* NOT IN (... dataset = 'tss_registry' AND channel = 'text').
SyncTargets(t, r) ==
    {p \in NonTextTollFree(r) :
        ~ (Exists(t, <<p, "text">>) /\ t[<<p, "text">>].dataset = "tss_registry")}

\* The filter does not see a text row of another dataset: inserting the number
\* then breaks UNIQUE(phone_number, channel), and the statement inserts nothing.
SyncConflict(t, r) == \E p \in SyncTargets(t, r) : Exists(t, <<p, "text">>)

InsertTSS(t, P) ==
    [k \in Key |->
        IF k[1] \in P /\ k[2] = "text"
        THEN [dataset |-> "tss_registry", status |-> "active", org |-> NoOrg]
        ELSE t[k]]
=============================================================================
