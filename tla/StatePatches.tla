----------------------------- MODULE StatePatches -----------------------------
(* The patch operations of utils.ts over the graphs of StateGraphs: applying,  *)
(* completing what Mutative reports of a recipe, deriving inverses, replacing  *)
(* and merging roots, and the fixed schema of a store.                         *)
(*                                                                             *)
(* A patch is an operation, a path (a sequence of keys) and a value.  States   *)
(* are immutable: a write copies the nodes on its path and shares the others,  *)
(* as Mutative does.                                                           *)
EXTENDS StateGraphs

None == <<"none", 0>>
Patch(op, path, val) == [op |-> op, path |-> path, val |-> val]
Pair(p, q) == [patches |-> p, inversePatches |-> q]
NoPair == Pair(<<>>, <<>>)

SafePath(path) == ToSet(path) \cap UnsafeKeys = {}
AssertSafePatches(patches) == \A p \in ToSet(patches) : SafePath(p.path)

Get(h, v, k) ==
    IF ~IsRef(v) THEN None
    ELSE IF Has(h[v[2]], k) THEN At(h[v[2]], k)
    ELSE IF h[v[2]].kind = "array" /\ k = "length" THEN Leaf(h[v[2]].len)
    ELSE None
ReadAt(h, v, path) == FoldLeft(LAMBDA u, k : Get(h, u, k), v, path)
IsArray(h, v) == IsRef(v) /\ h[v[2]].kind = "array"

\* The nodes of a payload are put behind the heap, and its references moved.
Move(h, v) == IF IsRef(v) THEN Ref(Len(h) + v[2]) ELSE v
Place(h, p) ==
    [heap |-> h \o [i \in DOMAIN p.nodes |->
                      [p.nodes[i] EXCEPT !.slots =
                         [j \in DOMAIN p.nodes[i].slots |->
                            <<p.nodes[i].slots[j][1], Move(h, p.nodes[i].slots[j][2])>>]]],
     val |-> Move(h, p.val)]

NoPayload == [nodes |-> <<>>, val |-> None]

\* readPatchTarget.
Target(h, v, path) ==
    IF path = <<>> THEN [exists |-> TRUE, parent |-> None, val |-> v]
    ELSE LET parent == ReadAt(h, v, Front(path))
         IN [exists |-> Get(h, parent, Last(path)) # None, parent |-> parent,
             val |-> Get(h, parent, Last(path))]

-----------------------------------------------------------------------------
(* Applying patches.                                                          *)

SetSlot(node, k, v) ==
    IF Has(node, k)
    THEN [node EXCEPT !.slots =
             [i \in DOMAIN node.slots |->
                 IF node.slots[i][1] = k THEN <<k, v>> ELSE node.slots[i]]]
    ELSE [node EXCEPT !.slots = Append(@, <<k, v>>)]

\* One operation on one node; an array shifts on add and remove, and "-" is the
\* place after its last entry.
EditNode(node, op, k, v) ==
    LET vals == Values(node)
        at == IF k = "-" \/ ~IsIndex(k) THEN Len(vals) + 1 ELSE IndexOf(k)
    IN IF node.kind # "array"
       THEN IF op = "remove"
            THEN [node EXCEPT !.slots = SelectSeq(@, LAMBDA s : s[1] # k)]
            ELSE SetSlot(node, k, v)
       ELSE CASE op = "replace" /\ k = "length" ->
                    ListNode(SubSeq(vals, 1, IF v[2] < Len(vals) THEN v[2]
                                             ELSE Len(vals)))
              [] op = "replace" /\ k # "length" -> SetSlot(node, k, v)
              [] op = "add" ->
                    ListNode(IF at > Len(vals) THEN Append(vals, v)
                             ELSE InsertAt(vals, at, v))
              [] op = "remove" ->
                    ListNode(IF at > Len(vals) THEN vals ELSE RemoveAt(vals, at))

\* A write at a path: the nodes on it are copied, and a write that changes
\* nothing copies nothing.
RECURSIVE WriteAt(_, _, _, _, _)
WriteAt(h, v, path, op, val) ==
    IF ~IsRef(v) THEN [ok |-> FALSE, heap |-> h, val |-> v]
    ELSE LET node == h[v[2]]
             below == WriteAt(h, Get(h, v, path[1]), Tail(path), op, val)
             new == IF Len(path) = 1 THEN EditNode(node, op, path[1], val)
                    ELSE SetSlot(node, path[1], below.val)
             base == IF Len(path) = 1 THEN h ELSE below.heap
         IN IF Len(path) > 1 /\ ~below.ok THEN [ok |-> FALSE, heap |-> h, val |-> v]
            ELSE IF new = node THEN [ok |-> TRUE, heap |-> base, val |-> v]
            ELSE [ok |-> TRUE, heap |-> Append(base, new), val |-> Ref(Len(base) + 1)]

\* applyPatches.  What precedes the last root replacement is without effect, and
\* a root replacement at the end is taken as it is.  Mutative clones each value
\* as a tree; values that are no trees are cloned together, with one memo.
LastRoot(patches) ==
    Max({0} \cup {i \in DOMAIN patches : patches[i].op = "replace" /\ patches[i].path = <<>>})
PatchValues(patches) == [i \in DOMAIN patches |-> patches[i].val]

\* Values to be applied, and whether each is to be cloned then.
AsTrees(h, vals) == [heap |-> h, vals |-> vals, trees |-> TRUE]
AsGraph(c) == [heap |-> c.heap, vals |-> c.vals, trees |-> FALSE]
ToApply(h, vals, graph) ==
    IF graph THEN AsGraph(CloneAll(h, vals, FALSE)) ELSE AsTrees(h, vals)

WriteValue(c, v, p) == WriteAt(c.heap, v, p.path, p.op, c.val)
ApplyOne(acc, p, val, trees) ==
    IF ~acc.ok THEN acc
    ELSE WriteValue(IF trees THEN TreeClone(acc.heap, val) ELSE [heap |-> acc.heap, val |-> val],
                    acc.val, p)

\* The patches, each with its value in c; fresh says that c begins with the root.
ApplyAll(c, v, patches, fresh) ==
    FoldLeft(LAMBDA acc, i : ApplyOne(acc, patches[i], c.vals[IF fresh THEN i + 1 ELSE i],
                                      c.trees),
             [ok |-> TRUE, heap |-> c.heap, val |-> IF fresh THEN c.vals[1] ELSE v],
             [i \in DOMAIN patches |-> i])

ApplyPatches(h, v, patches) ==
    LET last == LastRoot(patches)
    IN IF last > 0 /\ last = Len(patches)
       THEN [ok |-> TRUE, heap |-> h, val |-> patches[last].val]
       ELSE ApplyAll(ToApply(h, SubSeq(PatchValues(patches), IF last = 0 THEN 1 ELSE last,
                                       Len(patches)),
                             NeedsRootSnapshot(h, PatchValues(patches))),
                     v, SubSeq(patches, last + 1, Len(patches)), last > 0)

\* clonePatchValues, one memo for the list.
WithValues(patches, c) ==
    [heap |-> c.heap,
     patches |-> [i \in DOMAIN patches |-> [patches[i] EXCEPT !.val = c.vals[i]]]]
ClonePatchValues(h, patches) ==
    WithValues(patches, CloneAll(h, PatchValues(patches), FALSE))

-----------------------------------------------------------------------------
(* Describing a transition.                                                   *)

SnapshotPair(before, after) ==
    IF before = after THEN NoPair
    ELSE Pair(<<Patch("replace", <<>>, after)>>, <<Patch("replace", <<>>, before)>>)

\* createRootReplacementPatches: removed keys, then added and changed ones.
RootReplacementPair(h, cur, next) ==
    LET a == h[cur[2]]
        b == h[next[2]]
        gone == SelectSeq(KeysOf(a), LAMBDA k : k \notin UnsafeKeys /\ ~Has(b, k))
        new == SelectSeq(KeysOf(b), LAMBDA k :
                  k \notin UnsafeKeys /\ (Has(a, k) => At(a, k) # At(b, k)))
        redo(k) == IF Has(a, k) THEN Patch("replace", <<k>>, At(b, k))
                   ELSE Patch("add", <<k>>, At(b, k))
        undo(k) == IF Has(a, k) THEN Patch("replace", <<k>>, At(a, k))
                   ELSE Patch("remove", <<k>>, None)
    IN IF NeedsRootSnapshot(h, <<cur>>) \/ NeedsRootSnapshot(h, <<next>>)
       THEN SnapshotPair(cur, next)
       ELSE Pair([i \in DOMAIN gone |-> Patch("remove", <<gone[i]>>, None)] \o
                    [i \in DOMAIN new |-> redo(new[i])],
                 [i \in DOMAIN gone |-> Patch("add", <<gone[i]>>, At(a, gone[i]))] \o
                    [i \in DOMAIN new |-> undo(new[i])])

\* matchesProducerPatches for one scalar replacement: along its path everything
\* else has kept its identity.
RECURSIVE ScalarMatches(_, _, _, _, _)
ScalarMatches(h, before, after, path, val) ==
    IF path = <<>> THEN after = val
    ELSE /\ IsRef(before) /\ IsRef(after)
         /\ KeysOf(h[before[2]]) = KeysOf(h[after[2]])
         /\ \A k \in ToSet(KeysOf(h[after[2]])) \ {path[1]} :
               Get(h, after, k) = Get(h, before, k)
         /\ ScalarMatches(h, Get(h, before, path[1]), Get(h, after, path[1]),
                          Tail(path), val)

\* matchesProducerPatches otherwise: next is what the replay gave, and a branch
\* the replay left alone is identical, not merely equal.
RECURSIVE ReplayMatches(_, _, _, _)
ReplayMatches(h, base, next, replayed) ==
    \/ next = replayed
    \/ /\ base # replayed
       /\ IsRef(next) /\ IsRef(replayed)
       /\ KeysOf(h[next[2]]) = KeysOf(h[replayed[2]])
       /\ h[next[2]].len = h[replayed[2]].len
       /\ \A k \in ToSet(KeysOf(h[next[2]])) :
             ReplayMatches(h, Get(h, base, k), Get(h, next, k), Get(h, replayed, k))

Reproduces(r, before, after) == r.ok /\ ReplayMatches(r.heap, before, after, r.val)
MatchesReplay(h, before, after, patches) ==
    Reproduces(ApplyPatches(h, before, patches), before, after)

\* Mutant: what the producer reports is trusted.
MutantCompletePair(h, before, after, pair, snapshot) ==
    IF snapshot \/ pair.patches = <<>> THEN SnapshotPair(before, after) ELSE pair

\* completeProducerPatches.
CompletePair(h, before, after, pair, snapshot) ==
    LET ps == pair.patches
        scalar == /\ Len(ps) = 1
                  /\ ps[1].op = "replace"
                  /\ ~IsRef(ps[1].val)
                  /\ ps[1].path # <<>> => Last(ps[1].path) # "length"
    IN IF snapshot \/ ps = <<>> THEN SnapshotPair(before, after)
       ELSE IF scalar /\ ScalarMatches(h, before, after, ps[1].path, ps[1].val)
       THEN Pair(ps, <<Patch("replace", ps[1].path, ReadAt(h, before, ps[1].path))>>)
       ELSE IF ~scalar /\ MatchesReplay(h, before, after, ps)
                       /\ MatchesReplay(h, after, before, pair.inversePatches)
       THEN pair
       ELSE IF KeysOf(h[before[2]]) # KeysOf(h[after[2]]) THEN SnapshotPair(before, after)
       ELSE RootReplacementPair(h, before, after)

\* createInversePatches: each patch is inverted at the state it applies to, and
\* the inverses are put in the reverse order.  Restoring the length alone would
\* not bring back what a truncation removed.
UndoAt(h, t, p) ==
    LET list == IsArray(h, t.parent)
        truncates == /\ list
                     /\ p.op = "replace"
                     /\ Last(p.path) = "length"
                     /\ p.val[2] < h[t.parent[2]].len
    IN CASE p.op = "add" /\ (list \/ ~t.exists) -> Patch("remove", p.path, None)
         [] p.op = "add" /\ ~list /\ t.exists -> Patch("replace", p.path, t.val)
         [] p.op = "remove" -> Patch("add", p.path, t.val)
         [] p.op = "replace" /\ truncates -> Patch("replace", Front(p.path), t.parent)
         [] p.op = "replace" /\ ~truncates -> Patch("replace", p.path, t.val)
UndoOf(h, v, p) == UndoAt(h, Target(h, v, p.path), p)

\* One inverse more: its value u is sanitized (c), and the patch applied (a).
Inverted(a, c, u, before) ==
    [heap |-> a.heap, val |-> a.val, inverse |-> <<[u EXCEPT !.val = c.val]>> \o before]
InvertAfter(c, acc, u, p) ==
    Inverted(ApplyPatches(c.heap, acc.val, <<p>>), c, u, acc.inverse)
InvertUndo(acc, u, p) == InvertAfter(Sanitize(acc.heap, u.val), acc, u, p)

WholeState(c) == [heap |-> c.heap, patches |-> <<Patch("replace", <<>>, c.val)>>]
PatchByPatch(done) == [heap |-> done.heap, patches |-> done.inverse]
InversePatches(h, v, patches) ==
    IF patches # <<>> /\ (\/ NeedsRootSnapshot(h, <<v>>)
                          \/ NeedsRootSnapshot(h, PatchValues(patches)))
    THEN WholeState(Sanitize(h, v))
    ELSE PatchByPatch(FoldLeft(LAMBDA acc, p : InvertUndo(acc, UndoOf(acc.heap, acc.val, p), p),
                               [heap |-> h, val |-> v, inverse |-> <<>>], patches))

-----------------------------------------------------------------------------
(* Merging an object into a root, and the schema that may not change.         *)

SafeKeys(node) == ToSet(KeysOf(node)) \ UnsafeKeys

\* assignOwnEnumerable onto a draft of v: every safe key of the source gets a
\* sanitized copy of its value.
AssignSlots(c, v, slots) ==
    FoldLeft(LAMBDA acc, i : WriteAt(acc.heap, acc.val, <<slots[i][1]>>, "replace", c.vals[i]),
             [ok |-> TRUE, heap |-> c.heap, val |-> v], [i \in DOMAIN slots |-> i])
AssignOwn(h, v, source) ==
    LET slots == KeptSlots(h[source[2]], FALSE)
    IN AssignSlots(CloneAll(h, Values([slots |-> slots]), FALSE), v, slots)

\* mergeObject: a slice store merges slice by slice, and only into slices it has.
PutSlice(s, v, k) == WriteAt(s.heap, v, <<k>>, "replace", s.val)
MergeObject(h, v, source, slices) ==
    LET both == SelectSeq(KeysOf(h[source[2]]), LAMBDA k :
                   /\ k \notin UnsafeKeys
                   /\ IsRef(Get(h, v, k))
                   /\ IsRef(Get(h, source, k)))
    IN IF slices
       THEN FoldLeft(LAMBDA acc, k : PutSlice(AssignOwn(acc.heap, Get(acc.heap, acc.val, k),
                                                        Get(h, source, k)), acc.val, k),
                     [ok |-> TRUE, heap |-> h, val |-> v], both)
       ELSE AssignOwn(h, v, source)

CreateStateSchema(h, v, slices) ==
    [rootKeys |-> SafeKeys(h[v[2]]),
     sliceKeys |-> [k \in {k \in SafeKeys(h[v[2]]) : slices /\ IsRef(Get(h, v, k))} |->
                       SafeKeys(h[Get(h, v, k)[2]])]]

\* assertKnownStateShape.
KnownShape(h, v, schema, slices, requireSliceRoots) ==
    IsRef(v) =>
    /\ SafeKeys(h[v[2]]) \subseteq schema.rootKeys
    /\ slices /\ requireSliceRoots =>
          \A k \in DOMAIN schema.sliceKeys : Has(h[v[2]], k)
    /\ slices => \A k \in DOMAIN schema.sliceKeys \cap SafeKeys(h[v[2]]) :
          /\ IsRef(Get(h, v, k))
          /\ SafeKeys(h[Get(h, v, k)[2]]) \subseteq schema.sliceKeys[k]
=============================================================================
