------------------------------- MODULE YjsTrees -------------------------------
(* What @coaction/yjs computes of states and documents: conversions between    *)
(* plain values and shared types, the diff a local state writes (sync.ts), and *)
(* the operations remote events become (remoteOperations.ts).                  *)
(*                                                                             *)
(* A value is tagged: a leaf, an object ("map") or array ("list") of plain     *)
(* values, in a document also a Y.Map ("ymap") or Y.Array ("ylist"), or        *)
(* something that does not round-trip ("bad").  A path is a sequence of        *)
(* segments, string keys and array indices (from 1).                           *)
EXTENDS Integers, FiniteSets, SequencesExt

Leaf(n) == <<"leaf", n>>
Obj(f) == <<"map", f>>
Arr(s) == <<"list", s>>
YMap(f) == <<"ymap", f>>
YArr(s) == <<"ylist", s>>
Bad == <<"bad", 0>>
Absent == <<"absent", 0>>
Key(k) == <<"key", k>>
Idx(i) == <<"index", i>>

UnsafeKeys == {"__proto__", "prototype", "constructor"}
Without(f, keys) == [k \in DOMAIN f \ keys |-> f[k]]
At(f, k) == IF k \in DOMAIN f THEN f[k] ELSE Absent
Put(f, k, v) == [j \in DOMAIN f \cup {k} |-> IF j = k THEN v ELSE f[j]]

\* findYjsStateViolation finds nothing.
RECURSIVE Serializable(_)
Serializable(v) ==
    /\ v[1] # "bad"
    /\ v[1] \in {"map", "list"} => \A k \in DOMAIN v[2] : Serializable(v[2][k])

\* toPlainValue, with sanitizePlainValue for the plain objects in a document.
RECURSIVE Plain(_)
Plain(v) ==
    IF v[1] \in {"ymap", "map"}
    THEN Obj([k \in DOMAIN v[2] \ UnsafeKeys |-> Plain(v[2][k])])
    ELSE IF v[1] \in {"ylist", "list"}
    THEN Arr([i \in DOMAIN v[2] |-> Plain(v[2][i])])
    ELSE v

\* toYValue, createYMap and createYArray.
RECURSIVE Shared(_)
Shared(v) ==
    IF v[1] = "map" THEN YMap([k \in DOMAIN v[2] \ UnsafeKeys |-> Shared(v[2][k])])
    ELSE IF v[1] = "list" THEN YArr([i \in DOMAIN v[2] |-> Shared(v[2][i])])
    ELSE v

-----------------------------------------------------------------------------
(* Writing a local state: what changed since previous, and nothing else.      *)

\* Mutant: the state is compared with nothing, so every key is written.
MutantSyncMap(target, previous, source) ==
    [k \in (DOMAIN target \ UnsafeKeys) \cup DOMAIN source |->
        IF k \in DOMAIN source THEN Shared(source[k]) ELSE target[k]]

\* A value at one key or index: nested types are written in place where the
\* value before, the value now and the document agree on the type.
RECURSIVE SyncMap(_, _, _), SyncList(_, _, _)
SyncValue(current, previous, next) ==
    IF next[1] = "list" /\ previous[1] = "list" /\ current[1] = "ylist"
    THEN YArr(SyncList(current[2], previous[2], next[2]))
    ELSE IF next[1] = "map" /\ previous[1] = "map" /\ current[1] = "ymap"
    THEN YMap(SyncMap(current[2], previous[2], next[2]))
    ELSE Shared(next)

\* syncObjectToYMap.
SyncMap(target, previous, source) ==
    LET gone == (DOMAIN previous \ DOMAIN source) \cup UnsafeKeys
        written == {k \in DOMAIN source \ UnsafeKeys :
                       At(previous, k) # source[k]}
    IN [k \in (DOMAIN target \ gone) \cup written |->
           IF k \in written
           THEN SyncValue(At(target, k), At(previous, k), source[k])
           ELSE target[k]]

\* syncArrayToYArray, index by index after the tail is cut, up to an insert
\* behind the end: Y.Array.insert throws there.
SyncList(target, previous, source) ==
    LET cut == SubSeq(target, 1, IF Len(source) < Len(target)
                                 THEN Len(source) ELSE Len(target))
        before(i) == IF i <= Len(previous) THEN previous[i] ELSE Absent
        step(t, i) ==
            IF before(i) = source[i] THEN t
            ELSE IF i > Len(t) + 1 THEN t
            ELSE IF i = Len(t) + 1 THEN Append(t, Shared(source[i]))
            ELSE [t EXCEPT ![i] = SyncValue(t[i], before(i), source[i])]
    IN FoldLeft(step, cut, [i \in DOMAIN source |-> i])

\* An index behind the end of the document's array, where Y.Array.insert throws.
RECURSIVE Overruns(_, _, _)
Overruns(current, previous, next) ==
    IF next[1] = "map" /\ previous[1] = "map" /\ current[1] = "ymap"
    THEN \E k \in DOMAIN next[2] :
            Overruns(At(current[2], k), At(previous[2], k), next[2][k])
    ELSE /\ next[1] = "list" /\ previous[1] = "list" /\ current[1] = "ylist"
         /\ \E i \in DOMAIN next[2] :
               IF i > Len(current[2])
               THEN /\ At(previous[2], i) # next[2][i]
                    /\ \E j \in (Len(current[2]) + 1)..(i - 1) :
                          At(previous[2], j) = next[2][j]
               ELSE Overruns(current[2][i], At(previous[2], i), next[2][i])

-----------------------------------------------------------------------------
(* Remote operations.                                                         *)

SetOp(path, v) == [type |-> "set", path |-> path, value |-> v]
DeleteOp(path) == [type |-> "delete", path |-> path, value |-> Absent]

SafePath(path) == \A k \in UnsafeKeys : Key(k) \notin ToSet(path)

\* getYValueAtPath.
ValueAt(root, path) ==
    FoldLeft(LAMBDA v, s :
                IF s[1] = "key" /\ v[1] = "ymap" THEN At(v[2], s[2])
                ELSE IF s[1] = "index" /\ v[1] = "ylist" THEN At(v[2], s[2])
                ELSE Absent,
             root, path)

\* The types whose own content a transaction changed, as the events of
\* observeDeep name them: the keys of Y.Maps, and Y.Arrays as a whole.
RECURSIVE Touched(_, _, _)
Touched(path, old, new) ==
    IF old = new THEN {}
    ELSE IF old[1] = "ymap" /\ new[1] = "ymap"
    THEN UNION {Touched(Append(path, Key(k)), At(old[2], k), At(new[2], k)) :
                   k \in DOMAIN old[2] \cup DOMAIN new[2]}
    ELSE IF /\ old[1] = "ylist" /\ new[1] = "ylist"
            /\ Len(old[2]) = Len(new[2])
            /\ \A i \in DOMAIN old[2] :
                  old[2][i] # new[2][i] => old[2][i][1] = "ymap" /\ new[2][i][1] = "ymap"
    THEN UNION {Touched(Append(path, Idx(i)), old[2][i], new[2][i]) :
                   i \in DOMAIN old[2]}
    ELSE {path}

\* collectRemoteOperations: the values are those of the document at the event.
Collect(paths, root) ==
    LET op(path) == IF ValueAt(root, path) = Absent THEN DeleteOp(path)
                    ELSE SetOp(path, Plain(ValueAt(root, path)))
    IN SetToSeq({op(path) : path \in {p \in paths : SafePath(p)}})

\* Mutant: the first operation on a path is kept.
MutantCompact(ops) ==
    LET firsts == SelectSeq([i \in DOMAIN ops |-> i], LAMBDA i :
                     \A j \in DOMAIN ops : j < i => ops[j].path # ops[i].path)
        order(i, j) == \/ Len(ops[i].path) < Len(ops[j].path)
                       \/ Len(ops[i].path) = Len(ops[j].path) /\ i < j
        sorted == SetToSortSeq(ToSet(firsts), order)
    IN [n \in DOMAIN sorted |-> ops[sorted[n]]]

\* compactOperations: the last operation on each path, short paths first.
Compact(ops) ==
    LET lasts == {i \in DOMAIN ops :
                    \A j \in DOMAIN ops : j > i => ops[j].path # ops[i].path}
        order(i, j) == \/ Len(ops[i].path) < Len(ops[j].path)
                       \/ Len(ops[i].path) = Len(ops[j].path) /\ i < j
        sorted == SetToSortSeq(lasts, order)
    IN [n \in DOMAIN sorted |-> ops[sorted[n]]]

\* An array with an entry written; the indices before it that it lacks are
\* holes, which do not round-trip.
PutIndex(s, i, v) ==
    [j \in 1..(IF i > Len(s) THEN i ELSE Len(s)) |->
        IF j = i THEN v ELSE IF j > Len(s) THEN Bad ELSE s[j]]

\* setAtPath: what is missing or of the wrong kind on the way is replaced.
RECURSIVE SetAtPath(_, _, _)
SetAtPath(target, path, v) ==
    LET s == Head(path)
        empty == IF s[1] = "index" THEN Arr(<<>>) ELSE Obj(<<>>)
        node == IF target[1] = empty[1] THEN target ELSE empty
        child == At(node[2], s[2])
        below == IF Len(path) = 1 THEN v ELSE SetAtPath(child, Tail(path), v)
    IN IF s[1] = "index" THEN Arr(PutIndex(node[2], s[2], below))
       ELSE Obj(Put(node[2], s[2], below))

\* deleteAtPath: an index is spliced out, and nothing happens off the path.
RECURSIVE DeleteAtPath(_, _)
DeleteAtPath(target, path) ==
    LET s == Head(path)
        kind == IF s[1] = "index" THEN "list" ELSE "map"
    IN IF target[1] # kind \/ s[2] \notin DOMAIN target[2] THEN target
       ELSE IF Len(path) > 1
       THEN <<kind, [target[2] EXCEPT ![s[2]] = DeleteAtPath(@, Tail(path))]>>
       ELSE IF kind = "list" THEN Arr(RemoveAt(target[2], s[2]))
       ELSE Obj(Without(target[2], {s[2]}))

ApplyAll(state, ops) ==
    FoldLeft(LAMBDA v, op : IF op.type = "set" THEN SetAtPath(v, op.path, op.value)
                            ELSE DeleteAtPath(v, op.path),
             state, ops)
=============================================================================
