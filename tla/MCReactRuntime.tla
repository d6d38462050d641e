--------------------------- MODULE MCReactRuntime ---------------------------
EXTENDS ReactRuntime

NoPay(v) == [nodes |-> <<>>, val |-> v]
Edit(op, path, v) == [op |-> op, path |-> path, pay |-> NoPay(v)]
Put(op, path, node) == [op |-> op, path |-> path, pay |-> [nodes |-> <<node>>, val |-> Ref(1)]]
Sel(e) == [kind |-> "selector", expr |-> e]
Obs(e) == [kind |-> "observer", expr |-> e]
Path(p) == <<"path", p>>
Rec(vals) == Node("plain", vals)

\* A record, a leaf and a list.
Plain == <<Rec(<< <<"a", Ref(2)>>, <<"b", Leaf(1)>>, <<"l", Ref(3)>> >>),
           Rec(<< <<"c", Leaf(1)>>, <<"d", Leaf(1)>> >>),
           ListNode(<<Leaf(1), Leaf(2)>>)>>
\* Two names for one record.
Alias == <<Rec(<< <<"a", Ref(2)>>, <<"b", Ref(2)>> >>), Rec(<< <<"c", Leaf(1)>> >>)>>

Setup(nodes, journal, x, y, edits) ==
    [heap |-> nodes, root |-> Ref(1), journal |-> journal,
     reads |-> ("x" :> x @@ "y" :> y), edits |-> edits]

MCTrackers == <<"t1", "t2", "t3", "t4", "t5", "t6", "t7">>
MCDeriveds ==
    "pick" :> [kind |-> "derive", body |-> <<"if", <<"b">>, Path(<<"a", "c">>), Path(<<"a", "d">>)>>] @@
    "deep" :> [kind |-> "deep", body |-> <<"wrap", Path(<<"a">>)>>] @@
    "at" :> [kind |-> "path", body |-> Path(<<"a", "d">>)] @@
    "got" :> [kind |-> "getter", body |-> Path(<<"a", "d">>)]

SetC == Edit("replace", <<"a", "c">>, Leaf(2))
SetD == Edit("replace", <<"a", "d">>, Leaf(2))
SetB == Edit("replace", <<"b">>, Leaf(2))
NewA == Put("replace", <<"a">>, Rec(<< <<"c", Leaf(1)>>, <<"d", Leaf(3)>> >>))
AddZ == Edit("add", <<"a", "z">>, Leaf(1))
DropD == Edit("remove", <<"a", "d">>, None)
InsL == Edit("add", <<"l", "0">>, Leaf(1))
CutL == Edit("replace", <<"l", "length">>, Leaf(1))

MCSetups == {
    Setup(Plain, FALSE, Sel(Path(<<"a", "c">>)), Obs(<<"both", Path(<<"b">>), Path(<<"a", "d">>)>>),
          {SetC, SetB, SetD}),
    Setup(Plain, TRUE, Sel(Path(<<"a">>)), Obs(<<"keys", <<"a">>>>), {AddZ, DropD}),
    Setup(Plain, TRUE, Sel(<<"wrap", Path(<<"a">>)>>), Sel(<<"root">>), {NewA}),
    Setup(Plain, TRUE, Sel(<<"derived", "pick">>), Obs(<<"derived", "deep">>), {SetB, NewA}),
    Setup(Plain, FALSE, Sel(<<"derived", "at">>), Obs(<<"derived", "got">>), {NewA}),
    Setup(Plain, TRUE, Sel(Path(<<"l", "length">>)), Obs(Path(<<"l", "1">>)), {InsL}),
    Setup(Plain, TRUE, Sel(Path(<<"a", "c">>)),
          Obs(<<"both", Path(<<"a", "c">>), <<"keys", <<"a">>>>>>), {NewA}),
    Setup(Plain, FALSE, Sel(<<"if", <<"b">>, Path(<<"a", "c">>), Path(<<"a", "d">>)>>),
          [kind |-> "full", expr |-> <<"root">>], {SetC, SetB, SetD}),
    Setup(Plain, TRUE, Sel(<<"untracked", <<"a", "c">>>>), Obs(Path(<<"l", "1">>)), {SetC, CutL}),
    Setup(Alias, TRUE, Sel(Path(<<"a", "c">>)), Obs(<<"whole", <<"b">>>>),
          {SetC, Put("replace", <<"b">>, Rec(<< <<"c", Leaf(1)>> >>))})}
=============================================================================
