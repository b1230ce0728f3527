----------------------------- MODULE MCSessions -----------------------------
(* Instances of Sessions for TLC. *)
EXTENDS Sessions, TLC

CONSTANTS c1, c2, c3, c4, t1, t2, script

\* Two requests of one tab, beside a login in another and a request of a script.
TwoTabs == (c1 :> t1) @@ (c2 :> t1) @@ (c3 :> t2) @@ (c4 :> script)

Plan == (c1 :> {"read"}) @@ (c2 :> {"read"}) @@ (c3 :> {"login"}) @@ (c4 :> {"read", "admin"})

\* The two requests of the tab are alike.
Alike == Permutations({c1, c2})
=============================================================================
