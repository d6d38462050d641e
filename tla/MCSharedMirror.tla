--------------------------- MODULE MCSharedMirror ---------------------------
(***************************************************************************)
(* SharedMirror on small instances.                                        *)
(***************************************************************************)
EXTENDS SharedMirror, TLC

\* Clients and calls are interchangeable; used by the safety runs only.
Symmetry == Permutations(Clients) \cup Permutations(Calls)

=============================================================================
