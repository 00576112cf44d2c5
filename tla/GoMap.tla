------------------------------- MODULE GoMap -------------------------------
(***************************************************************************)
(* The built-in map of Go, as the components use it: a map is a function   *)
(* whose domain is the set of keys present.  A map of pointers to structs  *)
(* is a map of the structs' values.                                        *)
(***************************************************************************)

\* m[k] = v
Put(m, k, v) ==
    [x \in (DOMAIN m) \cup {k} |-> IF x = k THEN v ELSE m[x]]

\* delete(m, k)
Delete(m, k) == [x \in (DOMAIN m) \ {k} |-> m[x]]

\* "_, exists := m[k]"
Has(m, k) == k \in DOMAIN m

\* The maps with keys in K and values in V.
IsMap(m, K, V) == /\ DOMAIN m \subseteq K
                  /\ m \in [DOMAIN m -> V]

\* make(map[K]V)
EmptyMap == [x \in {} |-> x]
=============================================================================
