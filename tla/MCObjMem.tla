------------------------------ MODULE MCObjMem ------------------------------
(***************************************************************************)
(* Small instances of ObjMem for TLC.                                      *)
(***************************************************************************)
EXTENDS ObjMem, TLC

\* Object identities are interchangeable, except the builtin classes and
\* those reserved for user-defined classes.
Symmetry == Permutations(Obj \ ({Builtin} \cup ClassIds)) \cup Permutations(ClassIds)
=============================================================================
