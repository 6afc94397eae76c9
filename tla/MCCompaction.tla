---------------------------- MODULE MCCompaction ----------------------------
(***************************************************************************)
(* Small instances of Compaction for TLC.                                  *)
(***************************************************************************)
EXTENDS Compaction, TLC

CONSTANTS u, v

\* Class objects and the instances of v take one cell, those of u two.
MCInstSize == [k \in Classes |-> IF k = u THEN 2 ELSE 1]
=============================================================================
