----------------------------- MODULE StateWrites -----------------------------
(* The writes of one store with an immutable root: setState with a recipe or   *)
(* an object, apply with patches or a state, and the replay of a published     *)
(* pair (handleState.ts, storeFactory.ts).  What each of them publishes, what  *)
(* it refuses, and the frozen snapshot derived values read, carried along.     *)
EXTENDS RebasePaths

CONSTANTS
    Starts,      \* initial states: records of a heap, its root and isSliceStore
    Payloads,    \* values a caller passes: records of nodes and a value
    Setups,      \* the kinds of store: whether it is shared ("none", "main" for an
                 \* authority, "json" for a client without its worker), whether
                 \* store.patch is installed, whether anything observes commits, and
                 \* the bound on the edits and other writes of a behaviour
    MaxCommits   \* bound on the published commits, for replays

VARIABLES
    heap,        \* every node so far
    root,        \* internal.rootState
    schema,      \* internal.stateSchema
    config,      \* what does not change: slices, share, patch, observed
    cache,       \* internal.computedSnapshotCache
    journal,     \* published commits, with the states they lead from and to
    foreign,     \* nodes that belong to a caller
    writes       \* number of edits and other writes, refused ones included
vars == <<heap, root, schema, config, cache, journal, foreign, writes>>

Init ==
    \E s \in Starts, c \in Setups :
        /\ heap = s.heap
        /\ root = s.root
        /\ schema = CreateStateSchema(s.heap, s.root, s.slices)
        /\ c.share # "none" => ValidateSharedInitialState(s.heap, s.root, s.slices)
        /\ config = [slices |-> s.slices, share |-> c.share, patch |-> c.patch,
                     observed |-> c.observed, bound |-> c.bound]
        /\ cache = <<>>
        /\ journal = <<>>
        /\ foreign = {}
        /\ writes = 0

-----------------------------------------------------------------------------
(* Validation.                                                                *)

\* Mutant: a client without its worker is not checked.
MutantValidState(h, v) == config.share = "main" => AssertSharedJsonValue(h, v)

ValidState(h, v) == config.share # "none" => AssertSharedJsonValue(h, v)

\* validateUpdatePatches, which only an authority has: JSON values that no two
\* patches share, and no root replacement.
ValidPatches(h, patches) ==
    config.share = "main" =>
       /\ JsonWork(h, [i \in DOMAIN patches |->
                         <<IF patches[i].op = "remove" THEN Leaf(1)
                           ELSE patches[i].val, "data">>], {}, FALSE)
       /\ \A p \in ToSet(patches) : p.path # <<>>

ValidReplacement(h, v) ==
    config.share # "none" => ValidateSharedReplacementSource(h, v)

\* store.patch: a middleware that keeps "b" as it is, when it can tell.
Filtered(patches) == SelectSeq(patches, LAMBDA p : p.path[1] # "b")
Transform(pair) ==
    IF config.patch /\ \A p \in ToSet(pair.patches \o pair.inversePatches) : p.path # <<>>
    THEN Pair(Filtered(pair.patches), Filtered(pair.inversePatches))
    ELSE pair

-----------------------------------------------------------------------------
(* The commit.                                                                *)

\* updateImmutableStateSnapshot: along a scalar's path when the producer was
\* checked, from the state when a patch carries an object, and otherwise by
\* applying the patches to the previous snapshot and pairing the nodes on their
\* paths (finalizeImmutableStateSnapshot).
RECURSIVE CopyPath(_, _, _, _, _, _)
CopyPath(h, c, state, snapshot, path, val) ==
    IF path = <<>> THEN [heap |-> h, cache |-> c, val |-> val]
    ELSE LET below == CopyPath(h, c, Get(h, state, path[1]), Get(h, snapshot, path[1]),
                               Tail(path), val)
             new == Len(below.heap) + 1
         IN [heap |-> Append(below.heap, SetSlot(h[snapshot[2]], path[1], below.val)),
             cache |-> [n \in DOMAIN below.cache \cup {state[2]} |->
                           IF n = state[2] THEN new ELSE below.cache[n]],
             val |-> Ref(new)]

PairAlong(h, c, state, snapshot, path) ==
    LET prefixes == {SubSeq(path, 1, i) : i \in 0..Len(path)}
        met == {p \in prefixes :
                   /\ \A q \in prefixes : Len(q) <= Len(p) =>
                         /\ Freezable(h, ReadAt(h, state, q))
                         /\ Freezable(h, ReadAt(h, snapshot, q))}
        at(n) == {p \in met : ReadAt(h, state, p) = Ref(n)}
        keys == {ReadAt(h, state, p)[2] : p \in met}
        deepest(ps) == CHOOSE p \in ps : \A q \in ps : Len(q) <= Len(p)
    IN [n \in DOMAIN c \cup keys |->
           IF n \in keys THEN ReadAt(h, snapshot, deepest(at(n)))[2] ELSE c[n]]

PairAll(applied, c, next, patches) ==
    [heap |-> applied.heap,
     cache |-> FoldLeft(LAMBDA acc, p : PairAlong(applied.heap, acc, next, applied.val, p.path),
                        c, patches)]

\* Mutant: a truncation takes the path of a scalar.
MutantUpdateSnapshot(h, c, previous, next, patches, checked) ==
    LET scalar == /\ checked
                  /\ Len(patches) = 1
                  /\ patches[1].op = "replace"
    IN IF previous[2] \notin DOMAIN c \/ patches = <<>> THEN [heap |-> h, cache |-> c]
       ELSE IF scalar
       THEN CopyPath(h, c, next, Ref(c[previous[2]]), patches[1].path, patches[1].val)
       ELSE IF \E p \in ToSet(patches) : IsRef(p.val)
       THEN TakeSnapshot(h, c, next)
       ELSE PairAll(ApplyPatches(h, Ref(c[previous[2]]), patches), c, next, patches)

UpdateSnapshot(h, c, previous, next, patches, checked) ==
    LET scalar == /\ checked
                  /\ Len(patches) = 1
                  /\ patches[1].op = "replace"
                  /\ Last(patches[1].path) # "length"
    IN IF previous[2] \notin DOMAIN c \/ patches = <<>> THEN [heap |-> h, cache |-> c]
       ELSE IF scalar
       THEN CopyPath(h, c, next, Ref(c[previous[2]]), patches[1].path, patches[1].val)
       ELSE IF \E p \in ToSet(patches) : IsRef(p.val)
       THEN TakeSnapshot(h, c, next)
       ELSE PairAll(ApplyPatches(h, Ref(c[previous[2]]), patches), c, next, patches)

\* applyState from the assignment on, and publishCommit.
Become(carried, next, pair, cost) ==
    /\ heap' = carried.heap
    /\ cache' = carried.cache
    /\ root' = next
    /\ journal' = IF config.observed /\ (pair.patches # <<>> \/ pair.inversePatches # <<>>)
                  THEN Append(journal, [pair |-> pair, from |-> root, to |-> next])
                  ELSE journal
    /\ writes' = writes + cost
    /\ UNCHANGED <<schema, config>>
Commit(h, next, patches, pair, checked, cost) ==
    Become(UpdateSnapshot(h, cache, root, next, patches, checked), next, pair, cost)

\* What a caller has passed stays its own, unless the write was refused.
Lend(nodes) == foreign' = IF heap' = heap THEN foreign ELSE foreign \cup nodes

\* A write that throws leaves the store as it was.
Refuse(cost) ==
    /\ writes' = writes + cost
    /\ UNCHANGED <<heap, root, schema, config, cache, journal>>

\* A state that was not produced and checked before is checked here.
CommitApplied(a, next, pair, trusted, useProduced, cost) ==
    IF \/ ~a.ok
       \/ ~trusted /\ ~KnownShape(a.heap, next, schema, config.slices, TRUE)
       \/ ~trusted /\ ~ValidState(a.heap, next)
    THEN Refuse(cost)
    ELSE Commit(a.heap, next, pair.patches, pair, useProduced, cost)

\* applyPair and publishCommit: the pair is sanitized, applied and checked.
ApplyPair(h, pair, produced, useProduced, cost) ==
    IF ~AssertSafePatches(pair.patches \o pair.inversePatches) THEN Refuse(cost)
    ELSE \E p \in {ClonePatchValues(h, pair.patches)} :
         \E q \in {ClonePatchValues(p.heap, pair.inversePatches)} :
            IF p.patches = <<>>
            THEN Commit(q.heap, root, <<>>, Pair(<<>>, q.patches), FALSE, cost)
            ELSE \E a \in {ApplyPatches(q.heap, root, p.patches)} :
                 CommitApplied(a, IF useProduced THEN produced ELSE a.val,
                               Pair(p.patches, q.patches), produced # None,
                               useProduced, cost)

\* defaultUpdater after the recipe: the produced state is checked, the producer's
\* pair completed, passed through store.patch and applied.
Produce(h, produced, reported, cost) ==
    LET snapshot == \/ NeedsRootSnapshot(h, <<root>>)
                    \/ NeedsRootSnapshot(h, <<produced>>)
    IN \E pair \in {Transform(CompletePair(h, root, produced, reported, snapshot))} :
          IF \/ ~KnownShape(h, produced, schema, config.slices, TRUE)
             \/ ~ValidState(h, produced)
             \/ ~ValidPatches(h, pair.patches)
          THEN Refuse(cost)
          ELSE ApplyPair(h, pair, IF config.patch THEN None ELSE produced,
                         ~config.patch /\ \A p \in ToSet(pair.patches) : ~IsRef(p.val), cost)

-----------------------------------------------------------------------------
(* Inputs.                                                                    *)

\* Paths of a state, two keys deep: enough for an entry of a list in a root.
PathsOf(h, v) ==
    LET one == {<<k>> : k \in IF IsRef(v) THEN ToSet(KeysOf(h[v[2]])) ELSE {}}
        two == UNION {{p \o <<k>> : k \in
                          IF IsRef(ReadAt(h, v, p))
                          THEN ToSet(KeysOf(h[ReadAt(h, v, p)[2]])) ELSE {}} : p \in one}
    IN one \cup two
\* Recipes do not edit inside a cycle, which Mutative's drafts do not support.
Editable(h, v, path) == \A i \in 0..Len(path) :
    LET u == ReadAt(h, v, SubSeq(path, 1, i))
    IN IsRef(u) => /\ h[u[2]].kind # "atomic"
                   /\ u[2] \notin Reach(h, Values(h[u[2]]))

\* What a recipe or a patch may do: write a payload, an existing node (an alias)
\* or, at the root, an unknown key; delete; insert; truncate; and touch a node so
\* that it is copied with nothing changed.
EditsOf(h, v) ==
    LET paths == {p \in PathsOf(h, v) : Editable(h, v, Front(p)) /\ SafePath(p)}
        lists == {p \in paths : IsArray(h, ReadAt(h, v, p))}
        nodes == {p \in paths : IsRef(ReadAt(h, v, p))}
        entry(p) == Len(p) = 2 /\ IsArray(h, ReadAt(h, v, Front(p)))
    IN [op : {"replace"}, path : paths, pay : Payloads, from : {<<>>}]
       \cup [op : {"replace"}, path : paths, pay : {NoPayload}, from : {p \in nodes : Len(p) = 1}]
       \cup [op : {"add"}, path : {<<"z">>} \cup {p \in paths : entry(p)},
             pay : Payloads, from : {<<>>}]
       \cup [op : {"remove"}, path : {p \in paths : Len(p) = 2}, pay : {NoPayload}, from : {<<>>}]
       \cup [op : {"length"}, path : lists, pay : {NoPayload}, from : {<<>>}]
       \cup [op : {"touch"}, path : nodes, pay : {NoPayload}, from : {<<>>}]

\* The patch an edit stands for; its value is put into the heap first.
PatchOf(h, v, e) ==
    LET placed == IF e.pay = NoPayload THEN [heap |-> h, val |-> ReadAt(h, v, e.from)]
                  ELSE Place(h, e.pay)
    IN CASE e.op = "length" ->
               [heap |-> h, patch |-> Patch("replace", e.path \o <<"length">>, Leaf(1))]
         [] e.op = "touch" ->
               [heap |-> Append(h, h[ReadAt(h, v, e.path)[2]]),
                patch |-> Patch("replace", e.path, Ref(Len(h) + 1))]
         [] e.op = "remove" -> [heap |-> h, patch |-> Patch("remove", e.path, None)]
         [] e.op \in {"add", "replace"} ->
               [heap |-> placed.heap, patch |-> Patch(e.op, e.path, placed.val)]

\* A recipe on a draft, and what Mutative reports of it: the patches in the order
\* of the edits, and nothing of a node it merely copied.
Edited(acc, p, w, silent) ==
    [heap |-> w.heap, val |-> w.val,
     cost |-> acc.cost + 1,
     pair |-> IF silent \/ w.val = acc.val THEN acc.pair
              ELSE Pair(Append(acc.pair.patches, p.patch),
                        <<UndoOf(acc.heap, acc.val, p.patch)>> \o acc.pair.inversePatches)]
EditAs(acc, p, silent) ==
    Edited(acc, p, WriteAt(p.heap, acc.val, p.patch.path, p.patch.op, p.patch.val), silent)
Edit(acc, e) == EditAs(acc, PatchOf(acc.heap, acc.val, e), e.op = "touch")
NoEdit(h, v) == [heap |-> h, val |-> v, cost |-> 0, pair |-> NoPair]

\* Recipes of as many edits as the bound leaves.
Recipes ==
    LET RECURSIVE More(_)
        More(n) == IF n = 0 THEN {NoEdit(heap, root)}
                   ELSE LET some == More(n - 1)
                        IN some \cup UNION {{Edit(r, e) : e \in EditsOf(r.heap, r.val)} :
                                              r \in some}
    IN More(config.bound - writes)

\* A producer is not relied on: its two lists may also come in the wrong order,
\* as when a patch points at a value the recipe moved.
Reports(pair) ==
    {pair, Pair(Reverse(pair.patches), pair.inversePatches),
     Pair(pair.patches, Reverse(pair.inversePatches))}

-----------------------------------------------------------------------------
(* The operations.                                                            *)

\* Without observers, derived reads and checks the recipe's result is the state.
Fast == /\ ~config.observed
        /\ config.share = "none"
        /\ cache = <<>>

FastCommit(h, next, cost) ==
    IF ~KnownShape(h, next, schema, config.slices, TRUE) THEN Refuse(cost)
    ELSE /\ heap' = h
         /\ root' = next
         /\ writes' = writes + cost
         /\ UNCHANGED <<schema, config, cache, journal>>

\* A recipe's objects are adopted there as they are; they hold no unsafe keys.
SetRecipe ==
    \E r \in Recipes :
        /\ r.val # root
        /\ Fast => \A n \in Reach(r.heap, <<r.val>>) :
                      ToSet(KeysOf(r.heap[n])) \cap UnsafeKeys = {}
        /\ IF Fast THEN FastCommit(r.heap, r.val, r.cost)
           ELSE \E reported \in Reports(r.pair) : Produce(r.heap, r.val, reported, r.cost)
        /\ Lend({})

\* setState(object).  On the fast path the root is copied first, so that it is a
\* new object whatever the merge changes.
Objects == {p \in Payloads : IsRef(p.val)}
MergedWrite(m) ==
    /\ m.val # root
    /\ Produce(m.heap, m.val, RootReplacementPair(m.heap, root, m.val), 1)
SetObject ==
    \E p \in Objects, key \in {"a", "z"} :
    \E placed \in {Place(heap, p)} :
        LET h == Append(placed.heap, Node("plain", << <<key, placed.val>> >>))
            next == Ref(Len(h))
        IN /\ IF ~ValidState(h, next) \/ ~KnownShape(h, next, schema, config.slices, FALSE)
              THEN Refuse(1)
              ELSE IF Fast
              THEN \E m \in {MergeObject(Append(h, h[root[2]]), Ref(Len(h) + 1), next,
                                         config.slices)} : FastCommit(m.heap, m.val, 1)
              ELSE MergedWrite(MergeObject(h, root, next, config.slices))
           /\ Lend((Len(heap) + 1)..Len(h))

\* store.apply(state, patches): everything is sanitized and the inverse derived.
CommitInverted(inverse, next, patches) ==
    Commit(inverse.heap, next, patches, Pair(patches, inverse.patches), FALSE, 1)
ApplySafe(patch, safe, a) ==
    \E next \in {Sanitize(a.heap, a.val)} :
        IF \/ ~AssertSafePatches(<<patch>>)
           \/ ~a.ok
           \/ ~KnownShape(next.heap, next.val, schema, config.slices, TRUE)
           \/ ~ValidState(next.heap, next.val)
        THEN Refuse(1)
        ELSE CommitInverted(InversePatches(next.heap, root, safe), next.val, safe)
ApplyWithPatches ==
    \E e \in {f \in EditsOf(heap, root) : f.op # "touch"} :
    \E p \in {PatchOf(heap, root, e)} :
        /\ IF ~ValidPatches(p.heap, <<p.patch>>) THEN Refuse(1)
           ELSE \E safe \in {ClonePatchValues(p.heap, <<p.patch>>)} :
                   ApplySafe(p.patch, safe.patches,
                             ApplyPatches(safe.heap, root, safe.patches))
        /\ Lend((Len(heap) + 1)..Len(p.heap))

\* store.apply(state).  A replacement carries no patches, so the snapshot of the
\* derived values is left to be taken again.
ReplaceState(next) ==
    IF \/ ~KnownShape(next.heap, next.val, schema, config.slices, TRUE)
       \/ ~ValidState(next.heap, next.val)
    THEN Refuse(1)
    ELSE Commit(next.heap, next.val, <<>>,
                RootReplacementPair(next.heap, root, next.val), FALSE, 1)
ApplyState ==
    \E p \in Objects, q \in Payloads :
    \E first \in {Place(heap, p)} :
    \E second \in {Place(first.heap, q)} :
        LET h == Append(second.heap, Node("plain", << <<"a", first.val>>, <<"b", second.val>> >>))
        IN /\ IF ~ValidReplacement(h, Ref(Len(h))) THEN Refuse(1)
              ELSE ReplaceState(Sanitize(h, Ref(Len(h))))
           /\ Lend((Len(heap) + 1)..Len(h))

\* replayStorePatches of the last commit's pair, to undo it or to do it again.
Replay ==
    /\ journal # <<>> /\ Len(journal) < MaxCommits
    /\ LET last == Last(journal)
       IN /\ root = last.to
          /\ ApplyPair(heap, Transform(Pair(last.pair.inversePatches, last.pair.patches)),
                       None, FALSE, 0)
    /\ Lend({})

\* A derived value reads the state through its frozen snapshot.
ReadDerived ==
    /\ LET s == TakeSnapshot(heap, cache, root)
       IN heap' = s.heap /\ cache' = s.cache /\ cache' # cache
    /\ UNCHANGED <<root, schema, config, journal, foreign, writes>>

Write == SetRecipe \/ SetObject \/ ApplyWithPatches \/ ApplyState
Next == ReadDerived \/ Replay \/ (writes < config.bound /\ Write)
Spec == Init /\ [][Next]_vars

-----------------------------------------------------------------------------
(* Properties.                                                                *)

\* Two values are the same: a one to one map of their nodes that keeps kinds,
\* lengths, slots (in their order if asked) and the identity of class instances.
\* The comparison and the commits are checked against this definition.
Isomorphic(h, a, b, ordered) ==
    LET left == Reach(h, <<a>>)
        right == Reach(h, <<b>>)
        image(f, v) == IF IsRef(v) THEN Ref(f[v[2]]) ELSE v
        slots(f, n) == [i \in DOMAIN h[n].slots |->
                           <<h[n].slots[i][1], image(f, h[n].slots[i][2])>>]
    IN IF ~IsRef(a) \/ ~IsRef(b) THEN a = b
       ELSE IF Cardinality(left) # Cardinality(right) THEN FALSE
       ELSE \E f \in [left -> right] :
               /\ f[a[2]] = b[2]
               /\ {f[n] : n \in left} = right
               /\ \A n \in left :
                     /\ h[n].kind = h[f[n]].kind
                     /\ h[n].len = h[f[n]].len
                     /\ h[n].kind = "atomic" => f[n] = n
                     /\ ordered => slots(f, n) = h[f[n]].slots
                     /\ ToSet(slots(f, n)) = ToSet(h[f[n]].slots)

\* Replay preserves the committed result, its topology included, and so does the
\* replay of the inverse, whatever a producer reported; and the published commits
\* of an observed store lead to its state without a gap.
CommitsReplay ==
    /\ journal # <<>> => root = Last(journal).to
    /\ \A i \in 2..Len(journal) : journal[i].from = journal[i - 1].to
    /\ \A i \in DOMAIN journal :
           LET c == journal[i]
               redo == ApplyPatches(heap, c.from, c.pair.patches)
               undo == ApplyPatches(heap, c.to, c.pair.inversePatches)
           IN /\ redo.ok /\ Isomorphic(redo.heap, redo.val, c.to, FALSE)
              /\ undo.ok /\ Isomorphic(undo.heap, undo.val, c.from, FALSE)

\* Nobody but the store decides what is in it: no object a caller passed to
\* setState(object) or apply is part of the state or of a published pair.
StateIsOwned ==
    foreign \cap Reach(heap, <<root>> \o FlattenSeq([i \in DOMAIN journal |->
        [j \in DOMAIN journal[i].pair.patches |-> journal[i].pair.patches[j].val]])) = {}

\* A shared state survives its transport unchanged, but for null prototypes.
SharedIsCarried ==
    config.share # "none" =>
    LET plain == [n \in DOMAIN heap |-> IF heap[n].kind = "null"
                                         THEN [heap[n] EXCEPT !.kind = "plain"] ELSE heap[n]]
        c == EncodeDecode(plain, root)
    IN /\ AssertSharedJsonValue(heap, root)
       /\ SameStructure(c.heap, c.val, root)

\* A derived value reads what the state holds: the snapshot carried along the
\* patches is the one that would be taken now.
SnapshotIsState ==
    \A n \in DOMAIN cache :
        n \in Reach(heap, <<root>>) => SameStructure(heap, Ref(n), Ref(cache[n]))

\* A tree as a value: what two heaps can be compared by.
RECURSIVE ShapeOf(_, _)
ShapeOf(h, v) ==
    IF ~IsRef(v) THEN v
    ELSE <<h[v[2]].kind, {<<s[1], ShapeOf(h, s[2])>> : s \in ToSet(h[v[2]].slots)}>>

\* Two insertions at one boundary have an order that depends on who is first.
SameBoundary(p, q) == /\ p.op = "add" /\ q.op = "add"
                      /\ Front(p.path) = Front(q.path)
Then(one, patches) == ApplyPatches(one.heap, one.val, patches)
Agree(left, right) ==
    /\ left.ok /\ right.ok
    /\ ShapeOf(left.heap, left.val) = ShapeOf(right.heap, right.val)
Commute(h, base, ours, theirs, mine, yours) ==
    \/ mine.overlapping # {}
    \/ \E q \in ToSet(ours), p \in ToSet(theirs) : SameBoundary(q, p)
    \/ /\ mine.ok /\ yours.ok
       /\ Agree(Then(ApplyPatches(h, base, theirs), mine.patches),
                Then(ApplyPatches(h, base, ours), yours.patches))
CommutesWith(p, base, ours) ==
    Commute(p.heap, base, ours, <<p.patch>>, Rebase(p.heap, base, <<p.patch>>, ours),
            Rebase(p.heap, base, ours, <<p.patch>>))
\* What a synchronised store holds: JSON.
Sayable(base, patches) ==
    \A v \in {base} \cup {patches[j].val : j \in {i \in DOMAIN patches :
                                                 patches[i].op # "remove"}} :
        AssertSharedJsonValue(heap, v)
RemoteEdits(base) ==
    {e \in EditsOf(heap, base) : e.op # "touch" /\ e.from = <<>> /\ Len(e.pay.nodes) = 0}

\* A local mutation and a remote change that do not meet both take effect, and in
\* either order: each is translated to where its entries are after the other.  The
\* remote's change is one edit, of a leaf.
RebaseCommutes ==
    Len(journal) = 1 /\ cache = <<>> =>
    LET base == journal[1].from
        ours == journal[1].pair.patches
    IN Sayable(base, ours) =>
          \A e \in RemoteEdits(base) : CommutesWith(PatchOf(heap, base, e), base, ours)
=============================================================================
