------------------------------ MODULE MCHashMap ------------------------------
(***************************************************************************)
(* Small instances of HashMap for TLC.                                     *)
(***************************************************************************)
EXTENDS HashMap, TLC

CONSTANTS k1, k2, k3

\* k1 and k2 collide always, k3 with them modulo 1 and 3.
MCHash == [k \in Key |-> IF k \in {k1, k2} THEN 1 ELSE 4]

\* Maps and values are interchangeable.
Symmetry == Permutations(Map) \cup Permutations(Val)
=============================================================================
