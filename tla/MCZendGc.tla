------------------------------- MODULE MCZendGc -------------------------------
EXTENDS ZendGcPhases, TLC

Symmetric == Permutations(Zval) \cup Permutations(Object)
Bounded == ~spoilt /\ Cardinality(In("user")) <= MaxNesting
=============================================================================
