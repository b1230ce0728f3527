---------------------------- MODULE DNORegistry ----------------------------
(***************************************************************************)
(* The operations that change the DNO list, interleaved statement by       *)
(* statement: AddNumber and RemoveNumber of DNOService (called by the      *)
(* portal's handlers and by the bulk worker), IngestITGNumber,             *)
(* ProcessNPACPortingEvent and SyncTSSRegistry of FeaturesService.  No     *)
(* handler opens a transaction, so a call is a sequence of statements that *)
(* other calls interleave with and that may stop half way on an error.     *)
(***************************************************************************)
EXTENDS DNOTable

CONSTANTS Calls,          \* requests the services work on at the same time
          InputChannels,  \* the channels requests name in an instance
          PortEvents,     \* the <<status, owner>> of porting events in an instance
          InitRegistry,   \* number_registry contents to start from
          Dialect         \* the database, "sqlite" or "postgres"

VARIABLES dno,       \* dno_numbers
          registry,  \* number_registry
          audit,     \* audit_log: who did what to which number
          call,      \* where each request in flight stands
          listedBy   \* history: the last feed that listed a key, if any did

vars == <<dno, registry, audit, call, listedBy>>

ASSUME InputsAreValid ==
    /\ InputChannels \subseteq Channel
    /\ PortEvents \subseteq {"ported", "assigned"} \X (Orgs \cup {NoOrg})
    /\ InitRegistry \subseteq Registry
    /\ Dialect \in {"sqlite", "postgres"}

Pending == {"addSelect", "addAudit", "removeAudit", "npacClear"}
Idle    == [pc |-> "idle"]
InFlight == [pc : Pending, phone : Phones, chan : Channel, org : Orgs \cup {NoOrg}]
AuditEntry == [action : {"add", "remove"}, org : Orgs, phone : Phones]

\* listedBy remembers calls, not labels, and no guard reads it: the dataset column
\* of a row may be overwritten, what the feeds have said of it stays said.
Feed == {"none", "itg", "tss", "npac"}

TypeOK ==
    /\ dno \in DNOTable
    /\ registry \in Registry
    /\ audit \subseteq AuditEntry
    /\ call \in [Calls -> InFlight \cup {Idle}]
    /\ listedBy \in [Key -> Feed]

Init ==
    /\ dno = EmptyTable
    /\ registry \in InitRegistry
    /\ audit = {}
    /\ call = [x \in Calls |-> Idle]
    /\ listedBy = [k \in Key |-> "none"]

Free(x) == call[x] = Idle

Become(x, s, p, c, o) ==
    call' = [call EXCEPT ![x] = [pc |-> s, phone |-> p, chan |-> c, org |-> o]]

Finish(x) == call' = [call EXCEPT ![x] = Idle]

\* An audit INSERT whose error is ignored: the entry may be lost.
AuditOrLose(a, x) ==
    \/ audit' = audit \cup {[action |-> a, org |-> call[x].org, phone |-> call[x].phone]}
    \/ UNCHANGED audit

-----------------------------------------------------------------------------
(* AddNumber: upsert, read the id back, audit.  An error of the second     *)
(* statement returns before the audit entry, with the row in place.  The   *)
(* invalidation of the caller's own caches and the webhook after the audit *)
(* touch no table and are part of the last step.                           *)

AddUpsert(x, p, c, o) ==
    /\ Free(x)
    /\ dno' = UpsertSubscriber(dno, p, c, o)
    /\ Become(x, "addSelect", p, c, o)
    /\ UNCHANGED <<registry, audit, listedBy>>

AddSelect(x) ==
    /\ call[x].pc = "addSelect"
    /\ \/ /\ Exists(dno, <<call[x].phone, call[x].chan>>)
          /\ Become(x, "addAudit", call[x].phone, call[x].chan, call[x].org)
       \/ Finish(x)                  \* the SELECT failed: error to the caller
    /\ UNCHANGED <<dno, registry, audit, listedBy>>

AddAudit(x) ==
    /\ call[x].pc = "addAudit"
    /\ AuditOrLose("add", x)
    /\ Finish(x)
    /\ UNCHANGED <<dno, registry, listedBy>>

\* RemoveNumber: the update must match a row, or the call is refused.
RemoveUpdate(x, p, c, o) ==
    /\ Free(x)
    /\ RemoveTargets(dno, p, c, o) # {}
    /\ dno' = Deactivate(dno, RemoveTargets(dno, p, c, o))
    /\ Become(x, "removeAudit", p, c, o)
    /\ UNCHANGED <<registry, audit, listedBy>>

\* RowsAffected failed: the caller is told of an error although the row is off the
\* list, and there is no audit entry.
RemoveGivesUp(x) ==
    /\ call[x].pc = "removeAudit"
    /\ Finish(x)
    /\ UNCHANGED <<dno, registry, audit, listedBy>>

RemoveAudit(x) ==
    /\ call[x].pc = "removeAudit"
    /\ AuditOrLose("remove", x)
    /\ Finish(x)
    /\ UNCHANGED <<dno, registry, listedBy>>

IngestITG(p, c) ==
    /\ dno' = UpsertSystem(dno, p, c, "itg")
    /\ listedBy' = [listedBy EXCEPT ![<<p, c>>] = "itg"]
    /\ UNCHANGED <<registry, audit, call>>

\* A porting or assigning event: the registry first, then the auto set.  The
\* error of the second statement is ignored.
NPACPort(x, p, s, o) ==
    /\ Free(x)
    /\ s \in {"ported", "assigned"}
    /\ registry' = UpsertRegistry(registry, p, s, o)
    /\ Become(x, "npacClear", p, "voice", o)
    /\ UNCHANGED <<dno, audit, listedBy>>

NPACClear(x) ==
    /\ call[x].pc = "npacClear"
    /\ \/ dno' = Deactivate(dno, AutoTargets(dno, call[x].phone))
       \/ UNCHANGED dno
    /\ Finish(x)
    /\ UNCHANGED <<registry, audit, listedBy>>

\* A disconnecting or unassigning event leaves the registry as it was.
NPACDisconnect(p) ==
    /\ dno' = UpsertSystem(dno, p, "voice", "auto")
    /\ listedBy' = [listedBy EXCEPT ![<<p, "voice">>] = "npac"]
    /\ UNCHANGED <<registry, audit, call>>

\* The statement takes effect on SQLite only; on PostgreSQL each call ends in an error.
SyncTSS ==
    /\ Dialect = "sqlite"
    /\ ~ SyncConflict(dno, registry)
    /\ dno' = InsertTSS(dno, SyncTargets(dno, registry))
    /\ listedBy' = [k \in Key |->
                      IF k \in SyncTargets(dno, registry) \X {"text"} THEN "tss" ELSE listedBy[k]]
    /\ UNCHANGED <<registry, audit, call>>

Next ==
    \/ \E x \in Calls, p \in Phones, o \in Orgs, c \in InputChannels :
          AddUpsert(x, p, c, o) \/ RemoveUpdate(x, p, c, o)
    \/ \E x \in Calls : \/ AddSelect(x) \/ AddAudit(x)
                        \/ RemoveGivesUp(x) \/ RemoveAudit(x) \/ NPACClear(x)
    \/ \E x \in Calls, p \in Phones, e \in PortEvents : NPACPort(x, p, e[1], e[2])
    \/ \E p \in Phones, c \in InputChannels : IngestITG(p, c)
    \/ \E p \in Phones : NPACDisconnect(p)
    \/ SyncTSS

Spec == Init /\ [][Next]_vars

-----------------------------------------------------------------------------
(* Properties.                                                             *)

\* A number that the ITG has traced, or the TSS sync has listed, stays listed
\* whatever is added, removed or ported since, in any interleaving; until an NPAC
\* disconnect says something newer of its voice row.  That event moves the row to
\* the auto set and a later porting event may then take it off the list, as it may
\* any number that was disconnected last: so a traced voice number can leave, by
\* this route alone, and a traced text number cannot.
TracedStaysListed ==
    \A k \in Key :
        /\ listedBy[k] \in {"itg", "tss"} => Active(dno, k)
        /\ listedBy[k] = "npac" => k[2] = "voice"

\* Every subscriber row has an organization, so someone may remove it; a
\* tss_registry row is a text row that no organization can claim.
Provenance ==
    \A k \in Key : Exists(dno, k) =>
        /\ dno[k].dataset = "subscriber" => dno[k].org \in Orgs
        /\ dno[k].dataset = "tss_registry" => k[2] = "text" /\ dno[k].org = NoOrg

\* The audit trail accuses nobody wrongly: an 'add' entry is about a number that
\* is in the table, a 'remove' entry about a number of which the organization
\* holds a row, also when other calls ran between the change and its entry.
AuditSound ==
    \A a \in audit : \E c \in Channel :
        /\ Exists(dno, <<a.phone, c>>)
        /\ a.action = "remove" => dno[<<a.phone, c>>].org = a.org

\* A row that carries an organization's id, whatever its dataset is by now, leaves
\* the list in one of two ways only: by a removal that this organization called, if
\* no feed has ever listed the row; or in the clearing statement of a porting event
\* of its number, if the last feed that listed it was an NPAC disconnect.  Such a
\* disconnect relabels an organization's own voice row 'auto', so a later porting
\* event takes off the list what the organization had put on it.
OwnNumbersLeave ==
    [][\A k \in Key :
         Active(dno, k) /\ dno[k].org \in Orgs /\ ~ Active(dno', k) =>
            \E x \in Calls :
               \/ /\ listedBy[k] = "none"
                  /\ call[x] = Idle
                  /\ call'[x].pc = "removeAudit"
                  /\ call'[x].org = dno[k].org
                  /\ call'[x].phone = k[1]
               \/ /\ listedBy[k] = "npac"
                  /\ call[x].pc = "npacClear"
                  /\ call[x].phone = k[1]
                  /\ call'[x] = Idle]_vars

\* Once a row is in a system dataset no operation makes it a subscriber row again
\* (AddNumber only reactivates it), so it can never again be removed by an
\* organization, not even by the one whose id it still carries.
SystemRowsAreNotReclaimed ==
    [][\A k \in Key :
         Exists(dno, k) /\ dno[k].dataset # "subscriber"
            => Exists(dno', k) /\ dno'[k].dataset # "subscriber"]_vars

\* In every state of the list, a TSS sync that meets no conflict leaves every non-text-enabled
\* toll-free number a hit on text, also the numbers it skips because they have a
\* tss_registry row already.
SyncCoversAll ==
    ~ SyncConflict(dno, registry) =>
        \A p \in NonTextTollFree(registry) :
            Hit(InsertTSS(dno, SyncTargets(dno, registry)), p, "text")

\* README: "Sync non-text-enabled TFNs to text DNO".  The statement is never
\* refused by the table's UNIQUE constraint.
SyncNeverBlocked == ~ SyncConflict(dno, registry)
=============================================================================
