--------------------------- MODULE MCStoreCommits ---------------------------
(***************************************************************************)
(* StoreCommits on small instances.                                        *)
(***************************************************************************)
EXTENDS StoreCommits, TLC

\* The names of the listeners do not matter.
Symmetry == Permutations(CommitListeners)

=============================================================================
