----------------------------- MODULE RebasePaths -----------------------------
(* rebasePaths.ts and paths.ts of the synchronisation: local mutations and     *)
(* remote patches start from one base, and a mutation is translated to where   *)
(* its list entries are after the remote's changes.                            *)
(*                                                                             *)
(* A tree gives each slot of the state an identity.  The code's fresh Symbols  *)
(* are the origin of the slot here: the base or the patch that made it, and    *)
(* the path it was made at.                                                    *)
EXTENDS StatePatches

NoTree == [id |-> <<>>, kind |-> "absent", kids |-> <<>>]
KidKeys(t) == [i \in DOMAIN t.kids |-> t.kids[i][1]]
KidIds(t) == [i \in DOMAIN t.kids |-> t.kids[i][2].id]

Child(t, k) ==
    IF k \in ToSet(KidKeys(t)) THEN (CHOOSE s \in ToSet(t.kids) : s[1] = k)[2]
    ELSE NoTree

\* tree: a replaced slot keeps its identity, and those below it that still exist.
RECURSIVE TreeOf(_, _, _, _)
TreeOf(h, v, previous, id) ==
    LET slots == IF IsRef(v) THEN h[v[2]].slots ELSE <<>>
    IN [id |-> IF previous = NoTree THEN id ELSE previous.id,
        kind |-> IF IsRef(v) THEN h[v[2]].kind ELSE "leaf",
        kids |-> [i \in DOMAIN slots |->
                    <<slots[i][1], TreeOf(h, slots[i][2], Child(previous, slots[i][1]),
                                          Append(id, slots[i][1]))>>]]

\* The children after a change, a list's keys following their entries.
WithKids(t, kids) ==
    [t EXCEPT !.kids = IF t.kind = "array"
                       THEN [i \in DOMAIN kids |-> <<IndexKeys[i], kids[i][2]>>]
                       ELSE kids]
PutKid(t, k, kid) ==
    IF Child(t, k) = NoTree THEN WithKids(t, Append(t.kids, <<k, kid>>))
    ELSE WithKids(t, [i \in DOMAIN t.kids |->
                        IF t.kids[i][1] = k THEN <<k, kid>> ELSE t.kids[i]])
DropKid(t, k) == WithKids(t, SelectSeq(t.kids, LAMBDA s : s[1] # k))
InsertKid(t, at, kid) == WithKids(t, InsertAt(t.kids, at, <<"", kid>>))

\* A step of a stable path names a record's key or a list's entry.
KeyStep(k) == <<"key", k>>

\* Mutant: an insertion always goes last.
MutantPlaceOf(t, before) == Len(t.kids) + 1

\* Where an insertion goes: before the first of its successors that survives.
PlaceOf(t, before) ==
    LET left == SelectSeq(before, LAMBDA id : id \in ToSet(KidIds(t)))
    IN IF left = <<>> THEN Len(t.kids) + 1
       ELSE CHOOSE i \in DOMAIN t.kids : t.kids[i][2].id = left[1]

\* apply: render a change against the current tree.  It is refused when a parent
\* or the entry it names no longer exists.
RECURSIVE Visit(_, _, _)
Visit(t, c, depth) ==
    LET step == c.path[depth]
        last == depth = Len(c.path)
        inserts == last /\ c.inserts
        at == IF inserts THEN PlaceOf(t, c.before)
              ELSE IF t.kind # "array" THEN 0
              ELSE IF step \notin ToSet(KidIds(t)) THEN -1
              ELSE CHOOSE i \in DOMAIN t.kids : t.kids[i][2].id = step
        key == IF t.kind = "array" THEN IndexKeys[at] ELSE step[2]
        below == Visit(Child(t, key), c, depth + 1)
        fails == [ok |-> FALSE, tree |-> t, path |-> <<>>]
    IN IF depth > Len(c.path) THEN [ok |-> TRUE, tree |-> c.value, path |-> <<>>]
       ELSE IF t.kind \in {"leaf", "absent"} \/ at = -1 THEN fails
       ELSE IF ~last
       THEN IF ~below.ok THEN fails
            ELSE [ok |-> TRUE, tree |-> PutKid(t, key, below.tree),
                  path |-> <<key>> \o below.path]
       ELSE [ok |-> TRUE, path |-> <<key>>,
             tree |-> IF c.op = "remove" THEN DropKid(t, key)
                      ELSE IF inserts THEN InsertKid(t, at, c.value)
                      ELSE PutKid(t, key, c.value)]
Render(t, c) ==
    LET r == Visit(t, c, 1)
    IN [ok |-> r.ok, tree |-> r.tree, patch |-> Patch(c.op, r.path, c.val)]

\* record: a patch read in the tree its predecessors made.  A truncation is the
\* removal of each entry it takes.
RECURSIVE StablePath(_, _)
StablePath(t, path) ==
    IF path = <<>> THEN <<>>
    ELSE LET kid == Child(t, path[1])
         IN <<IF t.kind = "array" THEN kid.id ELSE KeyStep(path[1])>> \o
               StablePath(kid, Tail(path))

ParentIn(t, path) == FoldLeft(LAMBDA u, k : Child(u, k), t, Front(path))

\* parent is the parent in t of the place p names, value what p puts there.
ChangeOf(t, p, parent, value) ==
    LET list == parent.kind = "array"
        inserts == list /\ p.op = "add"
        at == IF Last(p.path) = "-" THEN Len(parent.kids) + 1 ELSE IndexOf(Last(p.path))
    IN [op |-> p.op, val |-> p.val, value |-> value, inserts |-> inserts,
        path |-> StablePath(t, Front(p.path)) \o
                 <<IF ~list THEN KeyStep(Last(p.path))
                   ELSE IF inserts THEN value.id
                   ELSE Child(parent, Last(p.path)).id>>,
        before |-> IF inserts THEN SubSeq(KidIds(parent), at, Len(parent.kids)) ELSE <<>>]
Recorded(t, change) == [tree |-> Visit(t, change, 1).tree, changes |-> <<change>>]
RootRecorded(p, tree) ==
    [tree |-> tree,
     changes |-> <<[op |-> p.op, val |-> p.val, inserts |-> FALSE, path |-> <<>>,
                    before |-> <<>>, value |-> tree]>>]
RecordUnder(h, t, p, origin, parent) ==
    LET previous == IF p.op = "replace" THEN Child(parent, Last(p.path)) ELSE NoTree
    IN Recorded(t, ChangeOf(t, p, parent, IF p.op = "remove" THEN NoTree
                                          ELSE TreeOf(h, p.val, previous, origin)))
RecordOne(h, t, p, origin) ==
    IF p.path = <<>> THEN RootRecorded(p, TreeOf(h, p.val, t, origin))
    ELSE RecordUnder(h, t, p, origin, ParentIn(t, p.path))

RemovalsOf(p, parent) ==
    LET gone == Len(parent.kids) - p.val[2]
    IN [i \in 1..(IF gone > 0 THEN gone ELSE 0) |->
           Patch("remove", Front(p.path) \o <<IndexKeys[Len(parent.kids) + 1 - i]>>, None)]
AddTo(changes, r) == [tree |-> r.tree, changes |-> changes \o r.changes]
\* What a patch stands for in the tree t.
Expanded(t, p) ==
    IF p.path = <<>> THEN <<p>>
    ELSE IF Last(p.path) = "length" /\ ParentIn(t, p.path).kind = "array"
    THEN RemovalsOf(p, ParentIn(t, p.path))
    ELSE <<p>>
Record(h, t, p, origin) ==
    FoldLeft(LAMBDA acc, q : AddTo(acc.changes, RecordOne(h, acc.tree, q, origin)),
             [tree |-> t, changes |-> <<>>], Expanded(t, p))

AddEach(each, r) == [tree |-> r.tree, each |-> Append(each, r.changes)]
RecordAll(h, t, patches, origin) ==
    FoldLeft(LAMBDA acc, i : AddEach(acc.each, Record(h, acc.tree, patches[i],
                                                      <<origin, ToString(i)>>)),
             [tree |-> t, each |-> <<>>], [i \in DOMAIN patches |-> i])

\* Two changes meet when one is at, above or below the other.
Overlap(a, b) == \A i \in 1..(IF Len(a) < Len(b) THEN Len(a) ELSE Len(b)) : a[i] = b[i]

\* createRebasePaths for one mutation: the remote patches it meets, and the
\* mutation in the remote's coordinates.
RenderNext(acc, r) ==
    [ok |-> acc.ok /\ r.ok, tree |-> r.tree, patches |-> Append(acc.patches, r.patch)]
RenderAll(tree, changes) ==
    FoldLeft(LAMBDA acc, c : RenderNext(acc, Render(acc.tree, c)),
             [ok |-> TRUE, tree |-> tree, patches |-> <<>>], changes)
Translated(theirs, changes, done) ==
    [overlapping |-> {i \in DOMAIN theirs.each :
                        \E c \in ToSet(changes), d \in ToSet(theirs.each[i]) :
                           Overlap(c.path, d.path)},
     ok |-> done.ok, patches |-> done.patches]
Across(theirs, changes) == Translated(theirs, changes, RenderAll(theirs.tree, changes))
RebaseIn(h, tree, remote, mutation) ==
    Across(RecordAll(h, tree, remote, "remote"),
           FlattenSeq(RecordAll(h, tree, mutation, "local").each))
Rebase(h, base, remote, mutation) ==
    RebaseIn(h, TreeOf(h, base, NoTree, <<"base">>), remote, mutation)
=============================================================================
