---------------------------- MODULE MCLocalCache ----------------------------
(* An instance of LocalCache for TLC: a key is a number and a channel. *)
EXTENDS LocalCache, TLC

Keys      == {"n1:voice", "n1:text", "n2:voice"}
HitOrMiss == {"hit", "miss"}

\* "n1:" is the prefix of both channels' keys.
NumberOf == [k \in Keys |-> IF k = "n2:voice" THEN "n2:" ELSE "n1:"]
=============================================================================
