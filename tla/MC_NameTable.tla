---------------------------- MODULE MC_NameTable ----------------------------
(***************************************************************************)
(* Two locals whose mangled names have different lengths ("x:1" takes 4   *)
(* bytes, "ab:1" 5) and one parameter, in separate hash buckets; a first  *)
(* arena block of 8 bytes, so that a function's names fill it and chain a *)
(* second one, and after ic_reset land on the bytes of earlier keys.      *)
(***************************************************************************)
EXTENDS NameTable

CONSTANTS x, ab, p

MC_Locals == {x, ab}
MC_Params == {p}
MC_NameLen == [v \in {x, ab} |-> IF v = x THEN 4 ELSE 5]
MC_Bucket == [v \in {x, ab, p} |-> CASE v = x -> 1 [] v = ab -> 2 [] v = p -> 3]
=============================================================================
