------------------------------- MODULE GoMaps -------------------------------
(***************************************************************************)
(* Go maps: a function whose DOMAIN is the set of the keys present.        *)
(***************************************************************************)

EmptyMap == [k \in {} |-> k]

Put(m, k, v) == [x \in DOMAIN m \cup {k} |-> IF x = k THEN v ELSE m[x]]

IsMap(m, K, V) == DOMAIN m \subseteq K /\ m \in [DOMAIN m -> V]
=============================================================================
