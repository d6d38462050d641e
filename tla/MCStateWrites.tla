---------------------------- MODULE MCStateWrites ----------------------------
(* A root with a record and a leaf, one with a list, and a slice store.       *)
EXTENDS StateWrites

Start(nodes, slices) == [heap |-> nodes, root |-> Ref(1), slices |-> slices]
MCStarts == {
    Start(<<Node("plain", << <<"a", Ref(2)>>, <<"b", Leaf(1)>> >>),
            Node("plain", << <<"c", Leaf(1)>> >>)>>, FALSE),
    Start(<<Node("plain", << <<"a", Ref(2)>>, <<"b", Leaf(1)>> >>),
            ListNode(<<Leaf(1), Leaf(2)>>)>>, FALSE),
    Start(<<Node("plain", << <<"a", Ref(2)>>, <<"b", Ref(3)>> >>),
            Node("plain", << <<"c", Leaf(1)>> >>),
            Node("plain", << <<"c", Leaf(1)>> >>)>>, TRUE)}

Simple(v) == [nodes |-> <<>>, val |-> v]
Setup(share, patch, observed, bound) ==
    [share |-> share, patch |-> patch, observed |-> observed, bound |-> bound]
MCSetups == {Setup("none", FALSE, TRUE, 2), Setup("none", TRUE, TRUE, 1),
             Setup("none", FALSE, FALSE, 1), Setup("main", FALSE, TRUE, 1),
             Setup("json", FALSE, FALSE, 1)}

MCPayloads == {
    Simple(Leaf(2)),
    [nodes |-> <<Node("plain", << <<"c", Leaf(2)>>, <<"d", Fn(1)>>, <<"__proto__", Leaf(2)>> >>)>>,
     val |-> Ref(1)],
    [nodes |-> <<Node("null", << <<"c", Ref(1)>>, <<"d", Lossy>> >>)>>, val |-> Ref(1)]}
=============================================================================
