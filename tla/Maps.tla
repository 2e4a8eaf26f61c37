-------------------------------- MODULE Maps --------------------------------
(***************************************************************************)
(* std::map as a function whose DOMAIN is the set of keys present.         *)
(***************************************************************************)
EXTENDS Integers, Functions

(* map::erase(key) of each key, and map[key] = value. *)
Erase(map, keys) == Restrict(map, DOMAIN map \ keys)
Put(map, key, value) ==
    [k \in DOMAIN map \cup {key} |-> IF k = key THEN value ELSE map[k]]
=============================================================================
