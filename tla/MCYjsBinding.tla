----------------------------- MODULE MCYjsBinding -----------------------------
(* Instances of YjsBinding.  A setup is the state the stores start with, what  *)
(* the document holds then, the writes the application and its subscribers     *)
(* make, and the transactions of other peers; a path of a transaction is empty *)
(* when it replaces the state map itself.                                      *)
EXTENDS YjsBinding

Zero == Leaf(0)
One == Leaf(1)
Two == Leaf(2)
OnA == <<Key("a")>>
OnB == <<Key("b")>>
OnN == <<Key("n")>>
OnX == <<Key("n"), Key("x")>>
OnY == <<Key("n"), Key("y")>>
OnL == <<Key("l")>>
OnItem(i) == <<Key("l"), Idx(i)>>
OnItemX(i) == <<Key("l"), Idx(i), Key("x")>>
Write(path, v) == [path |-> path, value |-> v]
Item(v) == Obj([x |-> v])

\* Two scalars: every shape of the root, values and keys that are refused.
Flat == [state |-> Obj([a |-> Zero, b |-> Zero]),
         locals |-> {Write(OnA, One), Write(OnB, One), Write(OnA, Bad)},
         reactions |-> {Write(OnB, Two)},
         remotes |-> {SetOp(OnA, Two), DeleteOp(OnA), SetOp(OnB, Bad),
                      SetOp(<<Key("z")>>, One), SetOp(<<Key("__proto__")>>, One),
                      SetOp(<<>>, YMap([a |-> Two])), SetOp(<<>>, Obj([b |-> Two])),
                      SetOp(<<>>, Absent), SetOp(<<>>, Leaf(7))}]

\* A nested object, edited in place, replaced by a Y.Map and by a plain object.
Nested == [state |-> Obj([n |-> Obj([x |-> Zero, y |-> Zero])]),
           locals |-> {Write(OnX, One), Write(OnN, Obj([y |-> Two])), Write(OnN, One)},
           reactions |-> {},
           remotes |-> {SetOp(OnX, Two), SetOp(OnY, Two), DeleteOp(OnX),
                        SetOp(OnN, YMap([x |-> Leaf(3)])), SetOp(OnN, Obj([y |-> Leaf(3)])),
                        DeleteOp(OnN)}]

\* An array of objects: edits of its entries, insertions and removals.
Listed == [state |-> Obj([l |-> Arr(<<Item(Zero), Item(One)>>)]),
           locals |-> {Write(OnItemX(1), Two), Write(OnL, Arr(<<Item(One)>>)),
                       Write(OnL, Arr(<<Item(Zero), Item(One), One>>))},
           reactions |-> {},
           remotes |-> {SetOp(OnItem(1), One), DeleteOp(OnItem(1)), DeleteOp(OnItem(2)),
                        SetOp(OnItemX(1), Leaf(3)), SetOp(OnItemX(2), Leaf(3))}]

\* Two stores on one document, or one store and longer behaviours.
Bounds(local, remote, retry, reaction, destroy, throw) ==
    [local |-> local, remote |-> remote, retry |-> retry, reaction |-> reaction,
     destroy |-> destroy, throw |-> throw]
From(group, entry, stores, bounds) ==
    group @@ [doc |-> entry, stores |-> stores, bounds |-> bounds]
Pair(group, entry) == From(group, entry, Stores, Bounds(1, 1, 0, 0, 0, 0))
Single(group, entry) == From(group, entry, {"p"}, Bounds(1, 2, 1, 1, 1, 1))

MCSetups ==
    {From(Flat, Absent, Stores, Bounds(1, 2, 0, 0, 0, 0)),
     Pair(Flat, YMap([a |-> Bad])), Single(Flat, Obj([a |-> One]))}
    \cup {Pair(g, Shared(g.state)) : g \in {Nested, Listed}}
    \cup {Single(g, Shared(g.state)) : g \in {Nested, Listed}}
=============================================================================
