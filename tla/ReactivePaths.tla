---------------------------- MODULE ReactivePaths ----------------------------
(* Fine-grained reads of a store with an immutable root: reactivePath.ts,      *)
(* derived.ts, computed.ts, reactiveTracker.ts and the readonly views of       *)
(* getRawStateStateProperty.ts.                                                *)
(*                                                                             *)
(* A read inside a tracked evaluation makes nodes in a trie of paths; a node   *)
(* has a signal for the value at its path and one for its keys.  A graph is    *)
(* the trie, the paths each state object was reached at, the subscribers       *)
(* (trackers and derived values) and the caches of the derived values.         *)
(*                                                                             *)
(* A dependency is a path, what is depended on, and whether the node it was    *)
(* recorded on is still in the trie: a pruned node is never found again.       *)
EXTENDS StatePatches

CONSTANT Deriveds    \* name -> [kind, body]: "derive", "deep", "path", "getter"

PrefixesOf(path) == {SubSeq(path, 1, i) : i \in 0..Len(path)}
Extends(path, prefix) == prefix \in PrefixesOf(path)

EmptyNode == [tick |-> 0, signals |-> {}, kept |-> {}]
Subscriber == [next |-> {}, drawn |-> {}, links |-> {}, deps |-> {}, version |-> 0]
EmptyGraph ==
    [trie |-> (<<>> :> EmptyNode), meta |-> <<>>,
     subs |-> [d \in DOMAIN Deriveds |-> Subscriber],
     cache |-> [d \in DOMAIN Deriveds |-> [fresh |-> FALSE, val |-> None, refs |-> {}]]]

Foreign(sub) == sub \in DOMAIN Deriveds /\ Deriveds[sub].kind = "getter"

-----------------------------------------------------------------------------
(* The trie.                                                                  *)

\* getNode with create.
Grown(w, path) ==
    [w EXCEPT !.trie = [p \in DOMAIN @ \cup PrefixesOf(path) |->
                           IF p \in DOMAIN @ THEN @[p] ELSE EmptyNode]]

HasActiveDependency(w, path) ==
    \/ w.trie[path].kept # {}
    \/ \E s \in DOMAIN w.subs : \E k \in {"value", "structure"} :
          <<path, k, TRUE>> \in w.subs[s].deps
HasChildren(w, path) == \E p \in DOMAIN w.trie : p # <<>> /\ Front(p) = path

\* A node leaves the trie with its signals: what was linked to them, or recorded
\* in an evaluation that is still going on, is linked to nothing.
Forget(w, path) ==
    LET signals == {<<"value", path>>, <<"structure", path>>}
        lost(e) == IF e[1] = path THEN <<e[1], e[2], FALSE>> ELSE e
    IN [w EXCEPT !.trie = [p \in DOMAIN @ \ {path} |-> @[p]],
                 !.subs = [s \in DOMAIN @ |->
                    [@[s] EXCEPT !.next = {lost(e) : e \in @},
                                 !.drawn = @ \ signals, !.links = @ \ signals]]]

\* Mutant: the parents of a pruned node stay.
MutantPrune(w, path) ==
    IF \/ path = <<>>
       \/ path \notin DOMAIN w.trie
       \/ HasActiveDependency(w, path)
       \/ HasChildren(w, path)
    THEN w
    ELSE Forget(w, path)

\* pruneNode.
RECURSIVE Prune(_, _)
Prune(w, path) ==
    IF \/ path = <<>>
       \/ path \notin DOMAIN w.trie
       \/ HasActiveDependency(w, path)
       \/ HasChildren(w, path)
    THEN w
    ELSE Prune(Forget(w, path), Front(path))
PruneAll(w, paths) == FoldSet(LAMBDA p, acc : Prune(acc, p), w, paths)

-----------------------------------------------------------------------------
(* Tracking.                                                                  *)

Link(w, sub, source) == [w EXCEPT !.subs[sub].drawn = @ \cup {source}]
Signal(w, sub, path, k) ==
    Link([w EXCEPT !.trie[path].signals = @ \cup {k}], sub, <<k, path>>)

\* recordSubscriberDependency: who has no finalization pass keeps the node.
Record(w, sub, path, marks) ==
    IF Foreign(sub)
    THEN [w EXCEPT !.trie[path].kept = @ \cup (marks \ {"terminal"})]
    ELSE [w EXCEPT !.subs[sub].next = @ \cup {<<path, m, TRUE>> : m \in marks}]

TrackPath(w, sub, path) ==
    Signal(Record(Grown(w, path), sub, path, {"value", "terminal"}), sub, path, "value")
TrackTraversal(w, sub, path) ==
    IF Foreign(sub) THEN TrackPath(w, sub, path)
    ELSE Record(Grown(w, path), sub, path, {"value"})
TrackStructure(w, sub, path) ==
    Signal(Record(Grown(w, path), sub, path, {"structure"}), sub, path, "structure")
TrackAll(w, sub, paths) == FoldSet(LAMBDA p, acc : TrackPath(acc, sub, p), w, paths)

\* Mutant: every step on the way is a dependency.
MutantMinimal(next) == {e \in next : e[2] # "terminal"}

\* minimizeTrackedDependencies: a step on the way to something deeper is dropped
\* unless it was marked, and an object whose keys are read counts by its keys.
Minimal(next) ==
    {e \in next :
        \/ e[2] = "structure"
        \/ /\ e[2] = "value"
           /\ \/ <<e[1], "terminal", e[3]>> \in next
              \/ /\ <<e[1], "structure", e[3]>> \notin next
                 /\ ~\E f \in next : f[1] # e[1] /\ Extends(f[1], e[1])}

\* Who no tracker reaches is unlinked, and evaluated again when it is read.
Unwatch(w) ==
    LET of(s) == {l[2] : l \in {m \in w.subs[s].links \cup w.subs[s].drawn :
                                   m[1] = "derived"}}
        watched == Closure(UNION {of(s) : s \in DOMAIN w.subs \ DOMAIN Deriveds}, of)
        idle == DOMAIN Deriveds \ watched
    IN [w EXCEPT !.subs = [s \in DOMAIN @ |->
                              IF s \in idle THEN [@[s] EXCEPT !.links = {}] ELSE @[s]],
                 !.cache = [d \in DOMAIN @ |->
                              IF d \in idle THEN [@[d] EXCEPT !.fresh = FALSE] ELSE @[d]]]

Begin(w, sub) ==
    [w EXCEPT !.subs[sub].next = {}, !.subs[sub].drawn = {}]

\* The nodes of the dependencies that are not kept.
NodesBut(w, sub, deps) == {e[1] : e \in {f \in w.subs[sub].deps \ deps : f[3]}}

\* A step on the way that turns out to be a dependency is linked.
Linked(w, sub, deps) ==
    FoldSet(LAMBDA e, acc : Signal(acc, sub, e[1], "value"), w,
            {e \in deps : /\ e[2] = "value" /\ e[3]
                          /\ <<e[1], "terminal", TRUE>> \notin w.subs[sub].next})
Counted(w, sub, deps) ==
    [w EXCEPT !.subs[sub] = [next |-> {}, drawn |-> {}, links |-> @.drawn, deps |-> deps,
                             version |-> @.version]]

\* endReactiveSubscriberTrack: the new dependencies are counted before the nodes
\* of the removed ones are pruned.
EndWith(w, sub, deps) ==
    PruneAll(Counted(Linked(w, sub, deps), sub, deps), NodesBut(w, sub, deps))
End(w, sub) == EndWith(w, sub, Minimal(w.subs[sub].next))

\* disposeReactiveSubscriber, for a tracker.
Dispose(w, sub) ==
    Unwatch(PruneAll([w EXCEPT !.subs = [s \in DOMAIN @ \ {sub} |-> @[s]]],
                     NodesBut(w, sub, {})))

-----------------------------------------------------------------------------
(* Reading the public state.  s is a record of the heap and the root.         *)

\* addReactivePathTo: the paths of an object, none of which contains another.
AddPath(paths, path) ==
    IF \E p \in paths : Extends(path, p) THEN paths
    ELSE {p \in paths : ~Extends(p, path)} \cup {path}
PathsTo(w, v) == IF v[2] \in DOMAIN w.meta THEN w.meta[v[2]] ELSE {}
ReachedAt(w, v, paths) ==
    [w EXCEPT !.meta = [n \in DOMAIN @ \cup {v[2]} |-> IF n = v[2] THEN paths ELSE @[n]]]
Reached(w, v, paths) ==
    ReachedAt(w, v, FoldSet(LAMBDA p, acc : AddPath(acc, p), PathsTo(w, v), paths))

\* One property of the public state: an object may be a step on the way.
ReadInner(w, v) == [w |-> w, val |-> v, paths |-> PathsTo(w, v)]
ReadValue(w, sub, v, paths) ==
    IF IsRef(v)
    THEN ReadInner(Reached(FoldSet(LAMBDA p, acc : TrackTraversal(acc, sub, p), w, paths),
                           v, paths), v)
    ELSE [w |-> TrackAll(w, sub, paths), val |-> v, paths |-> {}]
ReadKey(s, acc, sub, key) ==
    IF ~IsRef(acc.val) THEN [acc EXCEPT !.val = None]
    ELSE ReadValue(acc.w, sub, Get(s.heap, acc.val, key), {Append(p, key) : p \in acc.paths})

\* A getter reads frozen snapshots: the field of the root, and nothing below it.
ReadPath(s, w, sub, path) ==
    IF Foreign(sub)
    THEN [w |-> TrackPath(w, sub, <<path[1]>>), val |-> ReadAt(s.heap, s.root, path),
          paths |-> {}]
    ELSE FoldLeft(LAMBDA acc, k : ReadKey(s, acc, sub, k),
                  [w |-> w, val |-> s.root, paths |-> {<<>>}], path)

\* trackReadonlyStateValue, getReadonlyStateValueVersion.
Facade == <<"facade", 0>>
IsState(v) == IsRef(v) \/ v = Facade
StatePaths(w, v) == IF v = Facade THEN {<<>>} ELSE PathsTo(w, v)
Version(w, v) ==
    FoldSet(LAMBDA p, acc : acc + (IF p \in DOMAIN w.trie THEN w.trie[p].tick ELSE 0),
            0, StatePaths(w, v))
Versioned(w, held) == [w |-> w, refs |-> {<<v, Version(w, v)>> : v \in held}]
TrackResult(w, sub, held) ==
    Versioned(TrackAll(w, sub, UNION {StatePaths(w, v) : v \in held}), held)

RECURSIVE Shape(_, _)
Shape(h, v) ==
    IF ~IsRef(v) THEN v
    ELSE <<"shape", [i \in DOMAIN h[v[2]].slots |->
                        <<h[v[2]].slots[i][1], Shape(h, h[v[2]].slots[i][2])>>]>>

\* What a selector is made of.  Its result carries state objects out ("held"): as
\* itself, or in a wrapper that it reuses.
RECURSIVE Eval(_, _, _, _), Update(_, _, _)

\* Calling what createDerived returned: evaluated unless it is cached, and linked
\* to the caller either way.
ResultOf(w, sub, d, result) ==
    [w |-> Link(w, sub, <<"derived", d>>), val |-> result.val,
     held |-> IF IsRef(result.val) THEN {result.val} ELSE {r[1] : r \in result.refs}]
Called(w, sub, d) == ResultOf(w, sub, d, w.cache[d])
ReadDerived(s, w, sub, d) == Called(IF w.cache[d].fresh THEN w ELSE Update(s, w, d), sub, d)

Holding(r) == [w |-> r.w, val |-> r.val, held |-> IF IsRef(r.val) THEN {r.val} ELSE {}]
Keyed(s, sub, r) ==
    [w |-> FoldSet(LAMBDA p, acc : TrackStructure(acc, sub, p), r.w, r.paths),
     val |-> <<"keys", IF IsRef(r.val) THEN KeysOf(s.heap[r.val[2]]) ELSE <<>>>>,
     held |-> {}]
Walked(s, sub, r) ==
    [w |-> TrackAll(r.w, sub, r.paths), val |-> Shape(s.heap, r.val), held |-> {}]
Branch(s, sub, r, e) == Eval(s, r.w, sub, IF r.val = Leaf(1) THEN e[3] ELSE e[4])
Together(left, right) == [w |-> right.w, val |-> <<"both", <<left, right.val>>>>, held |-> {}]
Both(s, sub, left, e) == Together(left.val, Eval(s, left.w, sub, e))

Eval(s, w, sub, e) ==
    CASE e[1] = "path" -> Holding(ReadPath(s, w, sub, e[2]))
      [] e[1] = "root" -> [w |-> w, val |-> Facade, held |-> {Facade}]
      [] e[1] = "keys" -> Keyed(s, sub, ReadPath(s, w, sub, e[2]))
      [] e[1] = "whole" -> Walked(s, sub, ReadPath(s, w, sub, e[2]))
      [] e[1] = "untracked" -> [w |-> w, val |-> ReadAt(s.heap, s.root, e[2]), held |-> {}]
      [] e[1] = "wrap" -> [Eval(s, w, sub, e[2]) EXCEPT !.val = <<"wrap", 0>>]
      [] e[1] = "if" -> Branch(s, sub, ReadPath(s, w, sub, e[2]), e)
      [] e[1] = "both" -> Both(s, sub, Eval(s, w, sub, e[2]), e[3])
      [] e[1] = "derived" -> ReadDerived(s, w, sub, e[2])

\* derive: the selector reads the public state.
Derive(s, w, d) == Eval(s, w, d, Deriveds[d].body)

\* derivePath: the path alone is a dependency, and its value comes off the state.
DerivePath(s, w, d) ==
    Holding([w |-> TrackPath(w, d, Deriveds[d].body[2]),
             val |-> ReadAt(s.heap, s.root, Deriveds[d].body[2])])

\* retainReactiveTraversalPaths: every object on the way becomes a dependency.
RetainTraversal(w, d) ==
    TrackAll(w, d, {e[1] : e \in {f \in w.subs[d].next : f[2] = "value"}})

\* createDerived: what an evaluation read is recorded even when its result is the
\* previous one.  Without deep, it keeps every object it went through.
Cached(w, d, val, refs) == [w EXCEPT !.cache[d] = [fresh |-> TRUE, val |-> val, refs |-> refs]]
Retained(w, d) == IF Deriveds[d].kind = "derive" THEN RetainTraversal(w, d) ELSE w
CacheTracked(d, result, val) == Cached(End(Retained(result.w, d), d), d, val, result.refs)
CacheResult(d, r) == CacheTracked(d, TrackResult(r.w, d, r.held), r.val)
CreateDerived(s, w, d) ==
    CacheResult(d, IF Deriveds[d].kind = "path" THEN DerivePath(s, Begin(w, d), d)
                   ELSE Derive(s, Begin(w, d), d))

\* createCachedGetter: nobody tracks what the getter returns, and its reads are
\* not finalized (Foreign).
CacheGetter(d, r) ==
    [Cached(r.w, d, r.val, {}) EXCEPT !.subs[d] = [@ EXCEPT !.links = r.w.subs[d].drawn,
                                                            !.drawn = {}]]
CachedGetter(s, w, d) == CacheGetter(d, Eval(s, Begin(w, d), d, Deriveds[d].body))

\* The evaluation that alien-signals asks for.
Update(s, w, d) ==
    IF Deriveds[d].kind = "getter" THEN CachedGetter(s, w, d) ELSE CreateDerived(s, w, d)

\* trackReturnedStateValues: the same walk, through React elements too.
TrackReturned(w, t, held) == TrackResult(w, t, held)

\* createReactiveTracker and track, for one evaluation.
WithTracker(w, t) ==
    [w EXCEPT !.subs = [u \in DOMAIN @ \cup {t} |-> IF u = t THEN Subscriber ELSE @[u]]]
Selection(w, t, val, refs) ==
    [w |-> w, selection |-> [tracker |-> t, snapshot |-> 0, val |-> val, refs |-> refs,
                             reactive |-> w.subs[t].links # {}]]
Tracked(t, result, val) == Selection(End(result.w, t), t, val, result.refs)
Returned(t, r) == Tracked(t, TrackReturned(r.w, t, r.held), r.val)
Track(s, w, t, e) == Returned(t, Eval(s, WithTracker(w, t), t, e))

-----------------------------------------------------------------------------
(* Invalidating.                                                              *)

Deep(path) == {<<k, p>> : k \in {"value", "structure"}, p \in {path}}
Below(w, path) == UNION {Deep(p) : p \in {q \in DOMAIN w.trie : Extends(q, path)}}
Entries(w, path, from) ==
    UNION {Below(w, p) : p \in {q \in DOMAIN w.trie :
              /\ q # <<>> /\ Front(q) = path
              /\ IsIndex(Last(q)) /\ IndexOf(Last(q)) >= from}}

\* invalidateReactivePaths for one patch; s is the new state.
EntrySignals(s, w, parent, list, key, op) ==
    CASE ~IsArray(s.heap, list) -> {}
      [] op = "replace" /\ key = "length" ->
            {<<"structure", parent>>} \cup Entries(w, parent, s.heap[list[2]].len + 1)
      [] op \in {"add", "remove"} /\ IsIndex(key) ->
            {<<"value", Append(parent, "length")>>} \cup Entries(w, parent, IndexOf(key) + 1)
      [] OTHER -> {}
PatchSignals(s, w, p) ==
    IF p.path = <<>> THEN Below(w, <<>>)
    ELSE {<<"value", q>> : q \in PrefixesOf(Front(p.path))}
         \cup Below(w, p.path)
         \cup (IF p.op \in {"add", "remove"} THEN {<<"structure", Front(p.path)>>} ELSE {})
         \cup EntrySignals(s, w, Front(p.path), ReadAt(s.heap, s.root, Front(p.path)),
                           Last(p.path), p.op)

Reshaped(h, old, new) ==
    \/ ~IsRef(old) \/ ~IsRef(new)
    \/ h[old[2]].kind # h[new[2]].kind
    \/ KeysOf(h[old[2]]) # KeysOf(h[new[2]])

\* invalidateReactiveTransition: no journal, but the two states.
TransitionSignals(s, w, before) ==
    UNION {{<<"value", p>>} \cup
           (IF Reshaped(s.heap, ReadAt(s.heap, before, p), ReadAt(s.heap, s.root, p))
            THEN {<<"structure", p>>} ELSE {}) :
           p \in {q \in DOMAIN w.trie : \A r \in PrefixesOf(q) :
                     ReadAt(s.heap, before, r) # ReadAt(s.heap, s.root, r)}}

\* The signals that exist get their next value, and dirty what is derived of them.
Existing(w, signals) ==
    {x \in signals : x[2] \in DOMAIN w.trie /\ x[1] \in w.trie[x[2]].signals}
DerivedOn(w, sources) == {d \in DOMAIN Deriveds : w.subs[d].links \cap sources # {}}
Bumped(w, bumped, dirty) ==
    [w |-> [w EXCEPT !.trie = [p \in DOMAIN @ |->
                                IF <<"value", p>> \in bumped
                                THEN [@[p] EXCEPT !.tick = @ + 1] ELSE @[p]],
                    !.cache = [d \in DOMAIN @ |->
                                IF d \in dirty THEN [@[d] EXCEPT !.fresh = FALSE] ELSE @[d]]],
     bumped |-> bumped, dirty |-> dirty,
     queue |-> {t \in DOMAIN w.subs \ DOMAIN Deriveds :
                  w.subs[t].links \cap (bumped \cup {<<"derived", d>> : d \in dirty}) # {}}]
BumpAll(w, bumped) ==
    Bumped(w, bumped,
           Closure(DerivedOn(w, bumped), LAMBDA d : DerivedOn(w, {<<"derived", d>>})))
Bump(w, signals) == BumpAll(w, Existing(w, signals))

\* Object.is on the results and sameRefs on what they hold.
SameResult(x, y) == x.val = y.val /\ x.refs = y.refs

\* The flush evaluates what is derived before it decides whether a tracker that
\* depends on it has to run.
Settled(b, before, t, w, mine) ==
    [w |-> w, fires |-> \/ w.subs[t].links \cap b.bumped # {}
                        \/ \E d \in mine : ~SameResult(w.cache[d], before.cache[d])]
SettleEach(s, b, before, t, w, mine) ==
    Settled(b, before, t,
            FoldSet(LAMBDA d, acc : IF acc.cache[d].fresh THEN acc ELSE Update(s, acc, d),
                    w, mine), mine)
Settle(s, b, before, t, w) ==
    SettleEach(s, b, before, t, w, {d \in b.dirty : <<"derived", d>> \in w.subs[t].links})
=============================================================================
