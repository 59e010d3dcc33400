----------------------------- MODULE MCNavigation -----------------------------
(* Navigation on small instances.                                          *)
EXTENDS Navigation, TLC

CONSTANTS d1, d2, d3

(* d1 and d2 are two loads of one address.                                 *)
Reloaded == [d \in Doc |-> IF d = d3 THEN "b" ELSE "a"]
Different == [d \in Doc |-> CASE d = d1 -> "a" [] d = d2 -> "b" [] OTHER -> "c"]
Interchangeable == Permutations(Session) \cup Permutations(Kind)
=============================================================================
