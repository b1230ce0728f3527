--------------------------- MODULE MCReadRequests ---------------------------
(* Instances of ReadRequests for TLC. *)
EXTENDS ReadRequests

CONSTANTS o1

\* Numbers of one digit; a prefix may swallow the "1", and the number that is one can
\* be stored all the same.
TwoNumbers == {<<"2">>, <<"1">>}
AllDigits  == {"1", "2", "3"}
OneOrg     == {o1}
Inputs     == {"voice"}

A == <<"2">>
B == <<"1">>

\* How a client has to write B for it to be understood.
SentB == <<"1", "1">>

\* Spelled differently, repeated, with a swallowed digit, empty, too long.
ClientLists ==
    { <<A>>, <<A, A>>, <<A, SentB, A>>,
      <<<<"+", "1", "2">>, A>>, <<<<"1", "-", "2">>, SentB>>,
      <<<<"+", "1", "1", "2">>, A>>, <<<<"+", "1", "1", "1">>, SentB>>, <<B, A>>,
      <<<<"-">>, A>>, <<<<"2", "3">>, A>>, <<<<"+", "2">>, SentB>>, <<<<"3">>, A>>,
      <<SentB, A, A, SentB>> }

Row1(d) == [dataset |-> d, status |-> "active", org |-> IF d = "subscriber" THEN o1 ELSE NoOrg]

\* One listed number, as a subscriber's; two, one of them of the auto set.
OneListed == [EmptyTable EXCEPT ![<<A, "voice">>] = Row1("subscriber")]
TwoListed == [EmptyTable EXCEPT ![<<A, "both">>] = Row1("subscriber"),
                                ![<<B, "voice">>] = Row1("auto")]
TwoOwned  == [EmptyTable EXCEPT ![<<A, "both">>] = Row1("subscriber"),
                                ![<<B, "voice">>] = Row1("subscriber")]

Tables ==
    [about \in Topic |-> CASE about = "numbers" -> {TwoOwned}
                           [] about = "summary" -> {TwoListed}
                           [] about = "audit" -> {OneListed}
                           [] OTHER -> {OneListed, TwoListed}]

Stamped == [k \in Key |-> IF k[1] = A THEN 0 ELSE 1]

Sizes == {0, 2}

AllTopics == Topic
=============================================================================
