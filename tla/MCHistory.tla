----------------------------- MODULE MCHistory -----------------------------
(* An instance of History: two keys, the whole store or one key of it, and *)
(* one value that patches cannot represent.                                *)
EXTENDS History

MCKeys == {"a", "b"}
MCValues == {0, 1, 2}
MCOdd == {2}
MCInitial == {0, 2}
MCProjections == {{"a"}}
MCFaults == {"refuse", "throw"}

=============================================================================
