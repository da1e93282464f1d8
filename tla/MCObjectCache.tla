---------------------------- MODULE MCObjectCache ----------------------------
(* Model-checking instance of ObjectCache: two keys, two object pointers.  *)
EXTENDS ObjectCache, TLC

CONSTANTS o1, o2

MCObjects == {o1, o2}
MCKeys    == {1, 2}
AllOps    == {"insert", "swap", "reserve", "remove", "destroy"}
AllKinds  == {"vector", "multi_vector", "map", "multimap"}

\* Pointers are compared only for equality, so permuting them is sound.
Symmetry == Permutations(MCObjects)
=============================================================================
