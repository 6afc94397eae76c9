------------------------------ MODULE MCSymbols ------------------------------
\* Strings for module SymbolPool: two in one bucket, one too long for the old
\* space.
EXTENDS SymbolPool

MCBucketOf == [a |-> 1, b |-> 1, c |-> 2, long |-> 1]
=============================================================================
