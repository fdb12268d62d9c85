-------------------------- MODULE MCIndexedStore --------------------------
(***************************************************************************)
(* Instances of IndexedStore for TLC.                                      *)
(***************************************************************************)
EXTENDS IndexedStore, FiniteSets, TLC

StoreSymmetry == Permutations(IDs) \cup Permutations(Keys)

\* Bound: how many IDs are written over.
OneReplaced == Cardinality(replaced) <= 1
===========================================================================
