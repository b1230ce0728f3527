------------------------------ MODULE LossyMap ------------------------------
(***************************************************************************)
(* What a user of the cache may rely on, without saying how entries are    *)
(* stored or evicted: a lookup misses, or finds the value of the last Set  *)
(* of that key, at most Life clock units after that Set and never after a  *)
(* deletion.  Any entry may be forgotten at any Set and as time passes;    *)
(* what was forgotten or deleted comes back only by another Set.           *)
(***************************************************************************)
EXTENDS Integers

CONSTANTS MapKey, MapValue, Life, Miss

VARIABLES view,   \* what a lookup finds now
          clock

mapVars == <<view, clock>>

MapInit == view = [k \in MapKey |-> Miss] /\ clock \in Int

\* All keys of K but those that are forgotten answer as before.
MayForget(K) == \A k \in K : view'[k] \in {view[k], Miss}

Shape == view' = [k \in MapKey |-> view'[k]]

MapSet(k, v) ==
    /\ Shape
    /\ view'[k] = [value |-> v, expiresAt |-> clock + Life]
    /\ MayForget(MapKey \ {k})
    /\ clock' = clock

MapDelete(K) ==
    /\ view' = [k \in MapKey |-> IF k \in K THEN Miss ELSE view[k]]
    /\ clock' = clock

\* Time passes: an entry whose life is over is gone, others are still there.
MapTick ==
    /\ clock' > clock
    /\ view' = [k \in MapKey |->
                  IF view[k] # Miss /\ clock' > view[k].expiresAt
                  THEN Miss ELSE view[k]]

MapNext ==
    \/ \E k \in MapKey, v \in MapValue : MapSet(k, v)
    \/ \E K \in SUBSET MapKey : MapDelete(K)
    \/ MapTick

MapSpec == MapInit /\ [][MapNext]_mapVars
=============================================================================
