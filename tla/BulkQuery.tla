------------------------------ MODULE BulkQuery ------------------------------
(***************************************************************************)
(* How BulkQuery assembles its answer: a loop over the request that deals  *)
(* with invalid and cached numbers at once, one SELECT for the rest, and a *)
(* loop over the rest.  got[i] is what the cache said at entry i: nothing, *)
(* a hit or a miss; other requests and the clock work on the cache during  *)
(* the loop, so two entries of one number may find different things.       *)
(* "found" is the set of numbers the SELECT returned.  ReadRequests has    *)
(* the steps in time.                                                      *)
(***************************************************************************)
EXTENDS PhoneNumber

Result(n, dno) == [number |-> n, dno |-> dno, error |-> FALSE]

Refusal(raw) == [number |-> raw, dno |-> FALSE, error |-> TRUE]

One(b) == IF b THEN 1 ELSE 0

\* A result goes to the answer, the hit counter and the query log together.
Give(acc, r) ==
    [acc EXCEPT !.results = Append(@, r), !.hits = @ + One(r.dno),
                !.logged = Append(@, r)]

Unanswered == [results |-> <<>>, hits |-> 0, logged |-> <<>>, rest |-> <<>>]

\* Mutant of Entered: a number already waiting for the SELECT is skipped.
Entered_Dedup(acc, list, got, i) ==
    LET n == Normalize(list[i]) IN
      CASE ~ Valid(n) -> [acc EXCEPT !.results = Append(@, Refusal(list[i]))]
        [] Valid(n) /\ got[i] # "nothing" -> Give(acc, Result(n, got[i] = "hit"))
        [] OTHER -> IF n \in ToSet(acc.rest) THEN acc
                    ELSE [acc EXCEPT !.rest = Append(@, n)]

\* Refused and cached numbers are answered, the others wait in "rest".
Entered(acc, list, got, i) ==
    LET n == Normalize(list[i]) IN
      CASE ~ Valid(n) -> [acc EXCEPT !.results = Append(@, Refusal(list[i]))]
        [] Valid(n) /\ got[i] # "nothing" -> Give(acc, Result(n, got[i] = "hit"))
        [] OTHER -> [acc EXCEPT !.rest = Append(@, n)]

FirstPass(list, got) ==
    LET upTo[i \in 0..Len(list)] ==
          IF i = 0 THEN Unanswered ELSE Entered(upTo[i - 1], list, got, i)
    IN  upTo[Len(list)]

SecondPass(acc, found) ==
    LET upTo[k \in 0..Len(acc.rest)] ==
          IF k = 0 THEN acc
          ELSE Give(upTo[k - 1], Result(acc.rest[k], acc.rest[k] \in found))
    IN  upTo[Len(acc.rest)]

BulkAnswer(list, acc) ==
    [results |-> acc.results, logged |-> acc.logged, total |-> Len(list),
     hits |-> acc.hits, misses |-> Len(list) - acc.hits]

-----------------------------------------------------------------------------
(* Reference: every entry of the request answered on its own.              *)

AnsweredAlone(raw, got, i, found, numbers) ==
    IF \E n \in numbers : Means(raw, n)
    THEN LET n == CHOOSE n \in numbers : Means(raw, n)
         IN  Result(n, IF got[i] = "nothing" THEN n \in found ELSE got[i] = "hit")
    ELSE Refusal(raw)

Times(s, x) == Cardinality({i \in DOMAIN s : s[i] = x})

IsPermutationOf(s, t) ==
    Len(s) = Len(t) /\ \A x \in ToSet(s) \cup ToSet(t) : Times(s, x) = Times(t, x)
=============================================================================
