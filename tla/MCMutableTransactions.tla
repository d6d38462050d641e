----------------------- MODULE MCMutableTransactions -----------------------
(***************************************************************************)
(* Finite instances of MutableTransactions.                                *)
(***************************************************************************)
EXTENDS MutableTransactions, TLC

\* No definition names an action.
Symmetry == Permutations(Actions)

=============================================================================
