----------------------------- MODULE StateGraphs -----------------------------
(* The state of a store as the graph of JavaScript objects it is: what        *)
(* utils.ts, immutableState.ts and sharedState.ts compute by walking it.      *)
(*                                                                            *)
(* A heap is a sequence of nodes and only grows.  A node has a kind, its      *)
(* slots (own enumerable properties in their order) and, for an array, its    *)
(* length.  A value is a leaf, a function, a derived property (an accessor or *)
(* a Computed) or a reference to a node, so that two references are identical *)
(* (Object.is) exactly when they are equal here.                              *)
EXTENDS Integers, FiniteSets, SequencesExt

Leaf(x) == <<"leaf", x>>
Ref(n) == <<"ref", n>>
Fn(x) == <<"fn", x>>

\* A leaf JSON does not carry: NaN, -0, an infinity, undefined, a BigInt, a symbol.
Lossy == Leaf(0)

UnsafeKeys == {"__proto__", "prototype", "constructor"}
SymbolKeys == {"@@symbol"}
IndexKeys == <<"0", "1", "2", "3", "4", "5", "6", "7">>
IsIndex(k) == k \in ToSet(IndexKeys)
IndexOf(k) == CHOOSE i \in DOMAIN IndexKeys : IndexKeys[i] = k

Node(kind, slots) ==
    [kind |-> kind, slots |-> slots,
     len |-> IF kind = "array" THEN Len(slots) ELSE 0]
ListNode(vals) ==
    Node("array", [i \in DOMAIN vals |-> <<IndexKeys[i], vals[i]>>])

IsRef(v) == v[1] = "ref"
Values(node) == [i \in DOMAIN node.slots |-> node.slots[i][2]]
KeysOf(node) == [i \in DOMAIN node.slots |-> node.slots[i][1]]
Has(node, k) == k \in ToSet(KeysOf(node))
At(node, k) == (CHOOSE s \in ToSet(node.slots) : s[1] = k)[2]
Refs(vals) == {v[2] : v \in {w \in ToSet(vals) : IsRef(w)}}

\* Every node that can be reached from start along next.
Closure(start, next(_)) ==
    LET RECURSIVE Grow(_, _)
        Grow(seen, front) ==
            IF front = {} THEN seen
            ELSE LET more == UNION {next(n) : n \in front} \ seen
                 IN Grow(seen \cup more, more)
    IN Grow(start, start)

Reach(h, vals) == Closure(Refs(vals), LAMBDA n : Refs(Values(h[n])))

-----------------------------------------------------------------------------
(* Copies.                                                                    *)

\* The slots a clone keeps: unsafe keys are dropped, and functions too unless
\* they are asked for or fill an array index.
KeptSlots(node, fns) ==
    SelectSeq(node.slots, LAMBDA s :
        /\ s[1] \notin UnsafeKeys
        /\ \/ fns
           \/ s[2][1] # "fn"
           \/ node.kind = "array" /\ IsIndex(s[1]))

\* The slots of a node with other values in them.
Refilled(slots, fill(_)) ==
    [i \in DOMAIN slots |-> <<slots[i][1], fill(slots[i][2])>>]

\* What cloneStateValue visits: instances of classes are kept as they are.
Cloned(h, vals, fns) ==
    LET plain(ns) == {n \in ns : h[n].kind # "atomic"}
    IN Closure(plain(Refs(vals)),
               LAMBDA n : plain(Refs(Values([slots |-> KeptSlots(h[n], fns)]))))

\* cloneStateValue with one memo for all of vals: the nodes it visits are copied
\* once each, so cycles and aliases keep their topology.
CopyNodes(h, vals, fns, order) ==
    LET move(v) == IF IsRef(v) /\ v[2] \in ToSet(order)
                   THEN Ref(Len(h) + (CHOOSE i \in DOMAIN order : order[i] = v[2]))
                   ELSE v
    IN [heap |-> h \o [i \in DOMAIN order |->
                         [h[order[i]] EXCEPT !.slots =
                             Refilled(KeptSlots(h[order[i]], fns), move)]],
        vals |-> [i \in DOMAIN vals |-> move(vals[i])]]
CloneAll(h, vals, fns) ==
    CopyNodes(h, vals, fns, SetToSortSeq(Cloned(h, vals, fns), <))

\* Mutant: the caller's objects are adopted.
MutantSanitize(h, v) == [heap |-> h, val |-> v]

\* sanitizeReplacementState.
Alone(c) == [heap |-> c.heap, val |-> c.vals[1]]
Sanitize(h, v) == Alone(CloneAll(h, <<v>>, FALSE))

\* The deep clone Mutative makes of each value it applies: a tree, whatever the
\* value's topology was.  It is only asked for values that are trees.
RECURSIVE TreeClone(_, _)
TreeClone(h, v) ==
    IF ~IsRef(v) THEN [heap |-> h, val |-> v]
    ELSE IF h[v[2]].kind = "atomic" THEN [heap |-> h, val |-> v]
    ELSE LET node == h[v[2]]
             step(acc, s) ==
                LET c == TreeClone(acc.heap, s[2])
                IN [heap |-> c.heap, slots |-> Append(acc.slots, <<s[1], c.val>>)]
             done == FoldLeft(step, [heap |-> h, slots |-> <<>>], node.slots)
         IN [heap |-> Append(done.heap, [node EXCEPT !.slots = done.slots]),
             val |-> Ref(Len(done.heap) + 1)]

-----------------------------------------------------------------------------
(* Comparing and classifying.                                                 *)

\* isSameStructure: a worklist of pairs, and the one to one map between the
\* nodes of the two sides that the pairs seen so far have fixed.
RECURSIVE SameFrom(_, _, _)
SameFrom(h, pending, map) ==
    pending = <<>> \/
    LET a == Last(pending)[1]
        b == Last(pending)[2]
        rest == Front(pending)
    IN IF ~IsRef(a) \/ ~IsRef(b) THEN a = b /\ SameFrom(h, rest, map)
       ELSE LET x == h[a[2]]
                y == h[b[2]]
            IN IF x.kind # y.kind THEN FALSE
               ELSE IF x.kind = "atomic" THEN a = b /\ SameFrom(h, rest, map)
               ELSE IF x.len # y.len THEN FALSE
               ELSE IF \E p \in map : p[1] = a[2] \/ p[2] = b[2]
                    THEN <<a[2], b[2]>> \in map /\ SameFrom(h, rest, map)
               ELSE /\ KeysOf(x) = KeysOf(y)
                    /\ SameFrom(h, rest \o [i \in DOMAIN x.slots |->
                                              <<x.slots[i][2], y.slots[i][2]>>],
                                map \cup {<<a[2], b[2]>>})
SameStructure(h, a, b) == a = b \/ SameFrom(h, << <<a, b>> >>, {})

\* A value Mutative's tree clones would change: a node met twice, a node that is
\* not a plain object or a dense array, a symbol key, a named array property.
Irregular(node) ==
    \/ node.kind \in {"atomic", "null"}
    \/ node.kind = "array" /\ Len(node.slots) # node.len
    \/ \E k \in ToSet(KeysOf(node)) :
          k \in SymbolKeys \/ (node.kind = "array" /\ ~IsIndex(k))

RECURSIVE MeetsIrregular(_, _, _)
MeetsIrregular(h, pending, seen) ==
    IF pending = <<>> THEN FALSE
    ELSE LET v == Last(pending)
         IN IF ~IsRef(v) THEN MeetsIrregular(h, Front(pending), seen)
            ELSE IF v[2] \in seen \/ Irregular(h[v[2]]) THEN TRUE
            ELSE MeetsIrregular(h, Front(pending) \o Values(h[v[2]]),
                                seen \cup {v[2]})
NeedsRootSnapshot(h, vals) == MeetsIrregular(h, vals, {})

-----------------------------------------------------------------------------
(* What a shared store accepts, and what its transport carries.               *)

\* A slot the walk skips: functions of an action root, and its derived
\* properties when the root is an initial state.
SkippedSlot(mode, s) ==
    \/ mode \in {"initial", "replacement"} /\ s[2][1] = "fn"
    \/ mode = "initial" /\ s[2][1] = "derived"

RefusesNode(node) ==
    \/ node.kind = "atomic"
    \/ node.kind = "array" /\ Irregular(node)
    \/ \E k \in ToSet(KeysOf(node)) : k \in SymbolKeys \cup UnsafeKeys

\* assertSharedJsonWork: pending holds pairs of a value and the mode of its node;
\* the slices of a slice store are initial roots of their own.
RECURSIVE JsonWork(_, _, _, _)
JsonWork(h, pending, seen, slices) ==
    IF pending = <<>> THEN TRUE
    ELSE LET v == Last(pending)[1]
             mode == Last(pending)[2]
         IN IF v[1] # "ref" THEN /\ v[1] = "leaf"
                                 /\ v # Lossy
                                 /\ JsonWork(h, Front(pending), seen, slices)
            ELSE LET node == h[v[2]]
                     open == SelectSeq(node.slots, LAMBDA s :
                                node.kind = "array" \/ ~SkippedSlot(mode, s))
                     below == IF slices /\ seen = {} THEN "initial" ELSE "data"
                 IN /\ v[2] \notin seen
                    /\ ~RefusesNode(node)
                    /\ JsonWork(h, Front(pending) \o
                                   [i \in DOMAIN open |-> <<open[i][2], below>>],
                                seen \cup {v[2]}, slices)

AssertSharedJsonValue(h, v) == JsonWork(h, << <<v, "data">> >>, {}, FALSE)
ValidateSharedInitialState(h, v, slices) ==
    JsonWork(h, << <<v, IF slices THEN "data" ELSE "initial">> >>, {}, slices)
ValidateSharedReplacementSource(h, v) ==
    /\ IsRef(v)
    /\ h[v[2]].kind # "array"
    /\ JsonWork(h, << <<v, "replacement">> >>, {}, FALSE)

\* JSON.stringify and JSON.parse: a fresh tree of plain objects and dense arrays,
\* without what JSON has no words for.
RECURSIVE JsonCopy(_, _)
JsonCopy(h, v) ==
    IF v = Lossy THEN [heap |-> h, val |-> Leaf(9)]
    ELSE IF ~IsRef(v) THEN [heap |-> h, val |-> v]
    ELSE LET node == h[v[2]]
             said == SelectSeq(node.slots, LAMBDA s :
                        s[1] \notin SymbolKeys /\ s[2][1] # "fn")
             step(acc, s) ==
                LET c == JsonCopy(acc.heap, s[2])
                IN [heap |-> c.heap, slots |-> Append(acc.slots, <<s[1], c.val>>)]
             done == FoldLeft(step, [heap |-> h, slots |-> <<>>], said)
         IN [heap |-> Append(done.heap,
                             Node(IF node.kind = "array" THEN "array" ELSE "plain",
                                  done.slots)),
             val |-> Ref(Len(done.heap) + 1)]

\* decodeSharedJson(encodeSharedJson(v)), defined for what the encoder accepts.
EncodeDecode(h, v) == JsonCopy(h, v)

-----------------------------------------------------------------------------
(* The frozen snapshots derived values read.  cache is a partial function from *)
(* state nodes to snapshot nodes.                                             *)

Freezable(h, v) == IsRef(v) /\ h[v[2]].kind # "atomic"

\* getImmutableStateSnapshot: cached nodes are reused, the others are copied with
\* all their slots.
Unfrozen(h, cache, v) ==
    LET open(ns) == {n \in ns : Freezable(h, Ref(n)) /\ n \notin DOMAIN cache}
    IN Closure(open({v[2]}), LAMBDA n : open(Refs(Values(h[n]))))
FreezeNodes(h, cache, v, order) ==
    LET image(n) == IF n \in DOMAIN cache THEN cache[n]
                    ELSE IF n \in ToSet(order)
                    THEN Len(h) + (CHOOSE i \in DOMAIN order : order[i] = n)
                    ELSE n
        freeze(u) == IF IsRef(u) THEN Ref(image(u[2])) ELSE u
    IN [heap |-> h \o [i \in DOMAIN order |->
                         [h[order[i]] EXCEPT !.slots = Refilled(h[order[i]].slots, freeze)]],
        cache |-> [n \in DOMAIN cache \cup ToSet(order) |-> image(n)],
        val |-> freeze(v)]
TakeSnapshot(h, cache, v) ==
    IF ~Freezable(h, v) THEN [heap |-> h, cache |-> cache, val |-> v]
    ELSE FreezeNodes(h, cache, v, SetToSortSeq(Unfrozen(h, cache, v), <))
=============================================================================
