--------------------------- MODULE MCDNORegistry ---------------------------
(* Instances of DNORegistry for TLC. *)
EXTENDS DNORegistry, TLC

CONSTANTS p1, p2, o1, o2, x1, x2

Symmetry == Permutations(Orgs) \cup Permutations(Calls)

TollFree(o) == [owner |-> o, type |-> "toll_free", status |-> "assigned", text |-> FALSE]

OnePhone   == {p1}
TwoPhones  == {p1, p2}
TwoOrgs    == {o1, o2}
OneOrg     == {o1}
TwoCalls   == {x1, x2}
OneCall    == {x1}

\* What callers name: with the text channel the TSS sync meets their rows; NPAC
\* events work on voice rows.
TextInputs == {"text", "both"}
AllPorts   == {"ported", "assigned"} \X (Orgs \cup {NoOrg})

\* Voice, the default, is where callers and the ITG meet the NPAC events.
AllInputs == Channel

\* A number is toll-free without text or unknown, as seeded.
RegistryTollFree == [Phones -> {TollFree(o) : o \in Orgs} \cup {NoEntry}]

\* The two statuses of a porting event have the same effect on the list, and nothing
\* else here reads the owner: one status without an owner is enough beside two calls.
RegistryPorted == [Phones -> {[TollFree(NoOrg) EXCEPT !.status = "ported"], NoEntry}]
OnePort        == {<<"ported", NoOrg>>}
=============================================================================
