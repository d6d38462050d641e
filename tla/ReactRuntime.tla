---------------------------- MODULE ReactRuntime ----------------------------
(* coaction-react/src/runtime.ts over the reactive core: components that read  *)
(* a store with a selector, as observers, or whole.  A render is not a commit: *)
(* its tracker exists from the render on, React may throw the render away, and *)
(* effects, timers and writes fall between.                                    *)
EXTENDS ReactivePaths

CONSTANTS
    Components,
    Setups,       \* [heap, root, journal, reads, edits]: the initial state, whether
                  \* commits are observed, what each component is ([kind, expr], of
                  \* kind "selector", "observer" or "full"), and the writes
    Trackers,     \* names for trackers, used again when they are free
    MaxWrites,    \* bound on the writes
    MaxTurns,     \* bound on renders thrown away, subtrees hidden and unmounted
    SmallReads,   \* read sets up to here are compared, larger ones get patches (8)
    Gaps          \* what a behaviour may hold besides: "passive", a write between a
                  \* commit and its passive effects; "reveal", a subtree hidden for
                  \* longer than the release and shown without a render

VARIABLES
    heap, root,   \* internal.rootState
    graph,        \* the trie, the subscribers and the caches of ReactivePaths
    comps,        \* component -> its tracker state and React's view of it
    timers,       \* trackers whose cleanup is scheduled
    full,         \* fullStateVersion
    setup,        \* which of Setups
    writes,       \* number of writes
    turns         \* number of renders thrown away, subtrees hidden and unmounted
vars == <<heap, root, graph, comps, timers, full, setup, writes, turns>>

Now == [heap |-> heap, root |-> root]
ReadsOf(c) == setup.reads[c]
NoTracker == "none"
NoSelection == [tracker |-> NoTracker, snapshot |-> 0, val |-> None, refs |-> {},
                reactive |-> FALSE]
NoWork == [content |-> None, version |-> -1]
Absent == [phase |-> "absent", work |-> NoWork, shown |-> NoWork, active |-> NoSelection,
           latest |-> NoSelection, version |-> 0, source |-> "none"]

Init ==
    \E x \in Setups :
        /\ setup = x
        /\ heap = x.heap
        /\ root = x.root
        /\ graph = EmptyGraph
        /\ comps = [c \in Components |-> Absent]
        /\ timers = {}
        /\ full = 0
        /\ writes = 0
        /\ turns = 0

\* What a component shows of a state: an evaluation with nothing cached.
Look(s, v) == Shape(s.heap, IF v = Facade THEN s.root ELSE v)
Appearance(s, e) ==
    LET fresh == [EmptyGraph EXCEPT !.subs = [u \in DOMAIN @ \cup {NoTracker} |-> Subscriber]]
        r == Eval(s, fresh, NoTracker, e)
    IN <<Look(s, r.val), {Look(s, v) : v \in r.held}>>

-----------------------------------------------------------------------------
(* The tracker states.  st is [graph, comps, timers]; s is the state read.     *)

St == [graph |-> graph, comps |-> comps, timers |-> timers]
Becomes(st) == graph' = st.graph /\ comps' = st.comps /\ timers' = st.timers

FreeTrackers(st) == {t \in ToSet(Trackers) : t \notin DOMAIN st.graph.subs}
NextTracker(st) == Trackers[CHOOSE i \in DOMAIN Trackers :
                               /\ Trackers[i] \in FreeTrackers(st)
                               /\ \A j \in 1..(i - 1) : Trackers[j] \notin FreeTrackers(st)]
Live(st, t) == t \in DOMAIN st.graph.subs
VersionOf(st, t) == IF Live(st, t) THEN st.graph.subs[t].version ELSE 0

Listening(st, c) == st.comps[c].phase = "mounted"
Schedule(st, t) == IF t = NoTracker THEN st ELSE [st EXCEPT !.timers = @ \cup {t}]
ClearTimer(st, t) == [st EXCEPT !.timers = @ \ {t}]
Release(st, t) ==
    IF ~Live(st, t) THEN st
    ELSE [ClearTimer(st, t) EXCEPT !.graph = Dispose(@, t)]
Notify(st, c) == [st EXCEPT !.comps[c].version = @ + 1]

\* evaluate.
Selected(st, r) == [st |-> [st EXCEPT !.graph = r.w], selection |-> r.selection]
Evaluated(s, st, c) == Selected(st, Track(s, st.graph, NextTracker(st), ReadsOf(c).expr))
Differs(old, new) == old.val # new.val \/ old.refs # new.refs
Current(st, selection) ==
    selection.reactive /\ VersionOf(st, selection.tracker) = selection.snapshot

\* retargetActive, after the new selection has become active.
Retarget(st, c, selection) ==
    [st EXCEPT !.comps[c].source =
        IF ~Listening(st, c) THEN "none"
        ELSE IF selection.reactive THEN "tracker" ELSE "store"]

\* refreshActive.
NotifyIf(told, st, c) == IF told THEN Notify(st, c) ELSE st
Activated(st, c, previous, next) ==
    Release(Retarget([st EXCEPT !.comps[c].active = next], c, next), previous.tracker)
Refreshed(c, previous, e) ==
    NotifyIf(Differs(previous, e.selection), Activated(e.st, c, previous, e.selection), c)
Refresh(s, st, c) ==
    IF st.comps[c].active = NoSelection THEN st
    ELSE Refreshed(c, st.comps[c].active, Evaluated(s, st, c))

\* syncActiveSnapshot.
SyncSnapshot(st, c) ==
    LET active == st.comps[c].active
        version == VersionOf(st, active.tracker)
    IN IF active = NoSelection \/ version = active.snapshot THEN st
       ELSE Notify([st EXCEPT !.comps[c].active.snapshot = version], c)

\* Mutant: what fell between the commit and the subscription is not looked for.
MutantSubscribeActive(s, st, c) ==
    LET active == st.comps[c].active
    IN IF active = NoSelection \/ ~Listening(st, c) THEN st
       ELSE IF ReadsOf(c).kind = "observer"
       THEN SyncSnapshot([st EXCEPT !.comps[c].source = "tracker"], c)
       ELSE Retarget(st, c, active)

\* subscribeActive and subscribeActiveTracker.
SubscribeActive(s, st, c) ==
    LET active == st.comps[c].active
    IN IF active = NoSelection \/ ~Listening(st, c) THEN st
       ELSE IF ReadsOf(c).kind = "observer"
       THEN SyncSnapshot([st EXCEPT !.comps[c].source = "tracker"], c)
       ELSE IF active.reactive /\ ~Current(st, active)
       THEN Refresh(s, Retarget(st, c, active), c)
       ELSE Retarget(st, c, active)

\* commit of a selector: what was rendered is evaluated again unless it is known
\* to be current, and a component that shows something else is told.
Adopted(st, c, next) ==
    Retarget([st EXCEPT !.comps[c].active = next, !.comps[c].latest = NoSelection], c, next)
Held(st, c, t) == IF Listening(st, c) THEN st ELSE Schedule(st, t)
Superseded(e, t) == [e EXCEPT !.st = Release(@, t)]
Recheck(s, st, c, rendered) ==
    IF Current(st, rendered)
    THEN [st |-> ClearTimer(st, rendered.tracker), selection |-> rendered]
    ELSE Superseded(Evaluated(s, st, c), rendered.tracker)
Committed(c, rendered, previous, again) ==
    NotifyIf(Differs(rendered, again.selection),
             Release(Held(Adopted(again.st, c, again.selection), c, again.selection.tracker),
                     previous.tracker), c)
CommitSelector(s, st, c) ==
    Committed(c, st.comps[c].latest, st.comps[c].active, Recheck(s, st, c, st.comps[c].latest))

\* commit of an observer.
Observing(st, c, rendered) ==
    [ClearTimer(st, rendered.tracker) EXCEPT !.comps[c].active = rendered,
                                             !.comps[c].latest = NoSelection]
CommitObserver(s, st, c) ==
    LET rendered == st.comps[c].latest
        previous == st.comps[c].active
    IN SyncSnapshot(Release(Held(SubscribeActive(s, Observing(st, c, rendered), c),
                                 c, rendered.tracker),
                            previous.tracker), c)

\* The layout effect, which runs after every commit.
CommitEffect(s, st, c) ==
    IF st.comps[c].latest = NoSelection THEN st
    ELSE IF ReadsOf(c).kind = "selector" THEN CommitSelector(s, st, c)
    ELSE CommitObserver(s, st, c)

-----------------------------------------------------------------------------
(* React.                                                                     *)

CurrentVersion(c) == IF ReadsOf(c).kind = "full" THEN full ELSE comps[c].version
Pending(c) == comps[c].shown.version # CurrentVersion(c)
Room == Cardinality(FreeTrackers(St)) > Cardinality(Components)

Turn == turns < MaxTurns /\ turns' = turns + 1

Rendered(e, c) ==
    [Schedule(e.st, e.selection.tracker) EXCEPT !.comps[c].latest = e.selection]

\* track: a render, of a new component or because its version has changed.
Render(c) ==
    /\ Room
    /\ comps[c].work = NoWork
    /\ \/ comps[c].phase = "absent"
       \/ comps[c].phase = "mounted" /\ Pending(c)
    /\ Becomes([IF ReadsOf(c).kind = "full" THEN St ELSE Rendered(Evaluated(Now, St, c), c) EXCEPT
                   !.comps[c].work = [content |-> Appearance(Now, ReadsOf(c).expr),
                                      version |-> CurrentVersion(c)],
                   !.comps[c].phase = IF @ = "absent" THEN "fresh" ELSE @])
    /\ UNCHANGED <<heap, root, full, setup, writes, turns>>

\* The render is thrown away; a component that was never committed goes with it.
Discard(c) ==
    /\ comps[c].work # NoWork
    /\ comps' = [comps EXCEPT ![c] = IF @.phase = "fresh" THEN Absent
                                     ELSE [@ EXCEPT !.work = NoWork]]
    /\ Turn
    /\ UNCHANGED <<heap, root, graph, timers, full, setup, writes>>

\* The render is committed and the layout effects run.
CommitRender(c) ==
    LET shown == [St EXCEPT !.comps[c].shown = comps[c].work, !.comps[c].work = NoWork,
                            !.comps[c].phase = IF @ = "fresh" THEN "layout" ELSE @]
    IN /\ Room
       /\ comps[c].work # NoWork
       /\ Becomes(CommitEffect(Now, shown, c))
       /\ UNCHANGED <<heap, root, full, setup, writes, turns>>

\* The passive effect of useSyncExternalStore: subscribe.
Subscribe(c) ==
    LET on == [ClearTimer(St, comps[c].active.tracker) EXCEPT !.comps[c].phase = "mounted"]
    IN /\ Room
       /\ comps[c].phase = "layout"
       /\ Becomes(SubscribeActive(Now, on, c))
       /\ UNCHANGED <<heap, root, full, setup, writes, turns>>

\* The last listener leaves: the tracker is released by a timer.
Unsubscribed(st, c) ==
    LET off == [st EXCEPT !.comps[c].source = "none"]
    IN IF Listening(st, c) THEN Schedule(off, st.comps[c].active.tracker) ELSE off

Unmount(c) ==
    /\ comps[c].phase \in {"layout", "mounted", "hidden"}
    /\ Becomes([Unsubscribed(St, c) EXCEPT !.comps[c] = Absent])
    /\ Turn
    /\ UNCHANGED <<heap, root, full, setup, writes>>

\* A subtree is hidden, or StrictMode replays its effects.
Hide(c) ==
    /\ comps[c].phase = "mounted"
    /\ comps[c].work = NoWork
    /\ Becomes([Unsubscribed(St, c) EXCEPT !.comps[c].phase = "hidden"])
    /\ Turn
    /\ UNCHANGED <<heap, root, full, setup, writes>>

\* It is shown again: its effects run, and it renders only if it has to.
Show(c) ==
    /\ Room
    /\ comps[c].phase = "hidden"
    /\ \/ "reveal" \in Gaps
       \/ comps[c].active # NoSelection \/ ReadsOf(c).kind = "full"
    /\ Becomes(CommitEffect(Now, [St EXCEPT !.comps[c].phase = "layout"], c))
    /\ UNCHANGED <<heap, root, full, setup, writes, turns>>

\* A cleanup timer: a render is committed or thrown away before its 10 s are over,
\* and passive effects run before that.
Expire(t) ==
    LET gone(sel) == IF sel.tracker = t THEN NoSelection ELSE sel
    IN /\ t \in timers
       /\ \A c \in Components :
             /\ comps[c].work # NoWork => comps[c].latest.tracker # t
             /\ comps[c].phase = "layout" => comps[c].active.tracker # t
       /\ Becomes(Release([St EXCEPT !.comps = [c \in Components |->
                      [@[c] EXCEPT !.source = IF comps[c].active.tracker = t THEN "none"
                                              ELSE @,
                                   !.active = gone(@), !.latest = gone(@)]]], t))
       /\ UNCHANGED <<heap, root, full, setup, writes, turns>>

-----------------------------------------------------------------------------
(* Writes.                                                                    *)

ReadCount(w) ==
    FoldSet(LAMBDA s, n : n + Cardinality(w.subs[s].deps), 0, DOMAIN w.subs)
Snapshotted(w) == \E p \in DOMAIN w.trie : w.trie[p].kept # {}

\* A tracker that fires runs its listener and keeps no link.
Hear(s, st, t) ==
    FoldSet(LAMBDA c, acc : IF ReadsOf(c).kind = "observer" THEN SyncSnapshot(acc, c)
                            ELSE Refresh(s, acc, c),
            st, {c \in Components : /\ st.comps[c].active.tracker = t
                                   /\ st.comps[c].source = "tracker"})
Unlinked(st, t) == IF ~Live(st, t) THEN st ELSE [st EXCEPT !.graph.subs[t].links = {}]
Fire(s, st, t) == Unlinked(Hear(s, [st EXCEPT !.graph.subs[t].version = @ + 1], t), t)

\* endBatch: the trackers in their order, then the listeners of the store.
FireIf(s, st, t, r) ==
    IF r.fires THEN Fire(s, [st EXCEPT !.graph = r.w], t) ELSE [st EXCEPT !.graph = r.w]
Run(s, b, before, st, t) ==
    IF ~Live(st, t) THEN st
    ELSE [FireIf(s, st, t, Settle(s, b, before, t, st.graph)) EXCEPT !.graph = Unwatch(@)]
Flush(s, st, b, before) ==
    FoldSet(LAMBDA c, acc : Refresh(s, acc, c),
            FoldLeft(LAMBDA acc, t : Run(s, b, before, acc, t), st,
                     SelectSeq(Trackers, LAMBDA t : t \in b.queue)),
            {c \in Components : st.comps[c].source = "store"})

\* What a commit invalidates: the two states are compared when nobody observes
\* the patches and little is read.
Snapshot(h, v) == NeedsRootSnapshot(h, <<root>>) \/ NeedsRootSnapshot(h, <<v>>)
PairOf(w, before, patch) ==
    CompletePair(w.heap, root, w.val, Pair(<<patch>>, <<UndoOf(before, root, patch)>>),
                 Snapshot(w.heap, w.val))
SignalsOf(s, patches) == UNION {PatchSignals(s, graph, p) : p \in ToSet(patches)}
Signals(s, w, before, patch) ==
    IF ~setup.journal /\ ~Snapshotted(graph) /\ ReadCount(graph) <= SmallReads
    THEN TransitionSignals(s, graph, root)
    ELSE SignalsOf(s, PairOf(w, before, patch).patches)

\* A write between a commit and its passive effects is heard by those that read
\* no state with a tracker only when they subscribe.
PassiveDone ==
    \A c \in Components :
        ~(comps[c].phase \in {"layout", "hidden"} /\ comps[c].active # NoSelection
                                                 /\ ~comps[c].active.reactive)

\* setState with one edit, and everything that happens before it returns.
Publish(s, b) == Becomes(Flush(s, [St EXCEPT !.graph = b.w], b, graph))
Write(e) ==
    \E placed \in {Place(heap, e.pay)} :
    \E w \in {WriteAt(placed.heap, root, e.path, e.op, placed.val)} :
        /\ Room
        /\ writes < MaxWrites
        /\ IF e.op = "add" THEN IsRef(ReadAt(heap, root, Front(e.path)))
           ELSE ReadAt(heap, root, e.path) # None
        /\ w.ok /\ (IsRef(placed.val) \/ Shape(w.heap, w.val) # Shape(heap, root))
        /\ "passive" \in Gaps \/ PassiveDone
        /\ heap' = w.heap
        /\ root' = w.val
        /\ Publish([heap |-> w.heap, root |-> w.val],
                   Bump(graph, Signals([heap |-> w.heap, root |-> w.val], w, placed.heap,
                                       Patch(e.op, e.path, placed.val))))
        /\ full' = full + 1
        /\ writes' = writes + 1
        /\ UNCHANGED <<setup, turns>>

Next ==
    \/ \E e \in setup.edits : Write(e)
    \/ \E c \in Components : Render(c) \/ Discard(c) \/ CommitRender(c) \/ Subscribe(c)
                             \/ Unmount(c) \/ Hide(c) \/ Show(c)
    \/ \E t \in timers : Expire(t)
Spec == Init /\ [][Next]_vars

-----------------------------------------------------------------------------
\* A component that has nothing to render shows the state as it is: no write is
\* missed, whatever fell between its render, its commit and its subscription, and
\* whatever its selector returns (README of @coaction/react).
ShownIsCurrent ==
    \A c \in Components :
        comps[c].phase = "mounted" /\ comps[c].work = NoWork /\ ~Pending(c)
        => comps[c].shown.content = Appearance(Now, ReadsOf(c).expr)

\* Path nodes are reclaimed exactly: the trie holds the paths something depends
\* on, with the steps to them, and nobody depends on a node that has left it.
TrieIsExact ==
    LET deps == UNION {graph.subs[s].deps : s \in DOMAIN graph.subs}
        used == {e[1] : e \in deps} \cup {p \in DOMAIN graph.trie : graph.trie[p].kept # {}}
    IN /\ \A e \in deps : e[3]
       /\ DOMAIN graph.trie = {<<>>} \cup UNION {PrefixesOf(p) : p \in used}

\* The paths an expression reads in a state, and whether it reads all that is there
\* or its keys alone.
RECURSIVE PathsRead(_, _)
PathsRead(s, e) ==
    CASE e[1] \in {"path", "whole"} -> {<<e[2], "all">>}
      [] e[1] = "keys" -> {<<e[2], "keys">>}
      [] e[1] = "root" -> {<< <<>>, "all">>}
      [] e[1] = "untracked" -> {}
      [] e[1] = "wrap" -> PathsRead(s, e[2])
      [] e[1] = "if" -> {<<e[2], "all">>} \cup
            PathsRead(s, IF ReadAt(s.heap, s.root, e[2]) = Leaf(1) THEN e[3] ELSE e[4])
      [] e[1] = "both" -> PathsRead(s, e[2]) \cup PathsRead(s, e[3])
      [] e[1] = "derived" -> PathsRead(s, Deriveds[e[2]].body)

\* An edit may exchange what is read for something that looks the same: it replaces
\* an object on the way or inside it, or moves the elements of a list on the way.
Moves(e, q) ==
    /\ e.op \in {"add", "remove"} /\ IsIndex(Last(e.path))
    /\ Len(q) >= Len(e.path) /\ Front(e.path) = SubSeq(q, 1, Len(e.path) - 1)
    /\ IsIndex(q[Len(e.path)]) /\ IndexOf(q[Len(e.path)]) > IndexOf(Last(e.path))
Exchanges(e, read) ==
    \/ Extends(read[1], e.path) \/ Moves(e, read[1])
    \/ read[2] = "all" /\ Extends(e.path, read[1])

\* The write of an edit.
Writes(e) ==
    \E placed \in {Place(heap, e.pay)} :
       LET w == WriteAt(placed.heap, root, e.path, e.op, placed.val)
       IN heap' = w.heap /\ root' = w.val

\* A write makes a component render only when what it reads has changed, while no
\* two paths lead to one object.  What is exchanged for something that looks the
\* same counts as changed: for an observer all of it, because what a patch puts in
\* place is invalidated with everything below (invalidateNode in reactivePath.ts),
\* and for a selector, which evaluates again, only the objects that it holds.
OnlyReadersRender ==
    [][writes' # writes /\ ~NeedsRootSnapshot(heap, <<root>>)
                       /\ ~NeedsRootSnapshot(heap', <<root'>>) =>
       \A e \in setup.edits, c \in Components :
          Writes(e) /\ comps'[c].version # comps[c].version =>
             \/ Appearance(Now', ReadsOf(c).expr) # Appearance(Now, ReadsOf(c).expr)
             \/ \E read \in PathsRead(Now, ReadsOf(c).expr) :
                   /\ Exchanges(e, read)
                   /\ ReadsOf(c).kind = "observer" \/ IsRef(ReadAt(heap, root, read[1]))]_vars
=============================================================================
