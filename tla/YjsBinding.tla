------------------------------ MODULE YjsBinding ------------------------------
(* @coaction/yjs: stores bound to one Yjs document, whose other peers reach it *)
(* through a provider.  Yjs itself is external: a transaction changes the      *)
(* document at once and calls the observers of every binding but its own.      *)
(*                                                                             *)
(* doc is the entry STATE_KEY of the root map.  A binding keeps the state it   *)
(* last agreed on (lastSyncedState) and what remote events left for its next   *)
(* flush, which runs from a microtask or, after a refused setState, a timer.   *)
EXTENDS YjsTrees

CONSTANTS
    Stores,       \* the stores, each with a binding
    Setups        \* what a behaviour starts with, see MCYjsBinding: the state,
                  \* the document, the stores that bind, the writes and the
                  \* transactions to choose from, and the bounds on them

VARIABLES
    setup,
    doc,       \* the value under STATE_KEY, or Absent
    store,     \* store -> its pure state
    binding,   \* store -> "none", "bound" or "destroyed"
    synced,    \* store -> lastSyncedState
    snapshot,  \* store -> pendingSnapshot, or Absent
    ops,       \* store -> pendingOperations
    scheduled, \* store -> flushScheduled
    timers,    \* store -> timers of refused flushes
    raced,     \* store -> root keys a race listed at Raced touched (history)
    budget     \* what is left of the bounds

vars == <<setup, doc, store, binding, synced, snapshot, ops, scheduled, timers,
          raced, budget>>

Keys == DOMAIN setup.state[2]
Bound == {s \in Stores : binding[s] = "bound"}
RootKeys(paths) == {p[1][2] : p \in paths}
PathsOf(list) == {list[i].path : i \in DOMAIN list}
Overlap(p, q) == IsPrefix(p, q) \/ IsPrefix(q, p)

\* A state the fixed schema of the store accepts.
InSchema(state) == state[1] = "map" /\ DOMAIN state[2] \subseteq Keys

Init ==
    /\ setup \in Setups
    /\ doc = setup.doc
    /\ store = [s \in Stores |-> setup.state]
    /\ binding = [s \in Stores |-> "none"]
    /\ synced = store
    /\ snapshot = [s \in Stores |-> Absent]
    /\ ops = [s \in Stores |-> <<>>]
    /\ scheduled = [s \in Stores |-> FALSE]
    /\ timers = [s \in Stores |-> 0]
    /\ raced = [s \in Stores |-> {}]
    /\ budget = setup.bounds

\* Bounds: local writes, remote transactions, flushes that find a setState under
\* way, flushes that throw, writes of subscribers while a flush applies, and
\* destroyed bindings.
Spend(what) == budget[what] > 0 /\ budget' = [budget EXCEPT ![what] = @ - 1]

-----------------------------------------------------------------------------
(* Observers.  A race is what may leave a store different from the document:  *)
(* an event while a snapshot waits (it is dropped), an operation that waits    *)
(* and is overtaken by one above its path (they are sorted), by a local write  *)
(* or by a local restore, a write of a subscriber during a flush, a flush that *)
(* throws and a local write that throws: lastSyncedState stays behind.         *)

Raced(s, new) ==
    IF snapshot[s] # Absent THEN RootKeys(PathsOf(new))
    ELSE RootKeys({n \in PathsOf(new) : \E o \in PathsOf(ops[s]) :
                      o # n /\ IsPrefix(n, o)})

\* stateObserver and enqueueOperations, for the bindings in who.
Enqueue(who, new) ==
    LET hit(s) == s \in who /\ new # <<>>
    IN /\ ops' = [s \in Stores |->
                    IF hit(s) /\ snapshot[s] = Absent THEN ops[s] \o new ELSE ops[s]]
       /\ scheduled' = [s \in Stores |-> scheduled[s] \/ hit(s)]
       /\ raced' = [s \in Stores |->
                      IF hit(s) THEN raced[s] \cup Raced(s, new) ELSE raced[s]]
       /\ UNCHANGED <<snapshot, timers>>

\* enqueueSnapshot for the bindings in who: they observe another state map.
EnqueueSnapshot(who, state) ==
    /\ snapshot' = [s \in Stores |-> IF s \in who THEN state ELSE snapshot[s]]
    /\ ops' = [s \in Stores |-> IF s \in who THEN <<>> ELSE ops[s]]
    /\ scheduled' = [s \in Stores |-> scheduled[s] \/ s \in who]
    /\ raced' = [s \in Stores |-> IF s \in who THEN {} ELSE raced[s]]

\* restoreRootState by s, whose own pending work has been taken out.
Restore(s) ==
    /\ doc' = Shared(store[s])
    /\ synced' = [synced EXCEPT ![s] = store[s]]
    /\ snapshot' = [t \in Stores |->
                      IF t = s THEN Absent
                      ELSE IF t \in Bound THEN Plain(Shared(store[s])) ELSE snapshot[t]]
    /\ ops' = [t \in Stores |-> IF t = s \/ t \in Bound THEN <<>> ELSE ops[t]]
    /\ scheduled' = [t \in Stores |-> IF t = s THEN FALSE
                                      ELSE scheduled[t] \/ t \in Bound]
    /\ raced' = [t \in Stores |-> IF t = s \/ t \in Bound THEN {} ELSE raced[t]]
    /\ UNCHANGED <<store, timers>>

-----------------------------------------------------------------------------
(* bindYjs and destroy.                                                       *)

\* applyInitialRemoteState takes what the document has, or restores the root; a
\* document without a state gets the store's.
Bind(s) ==
    /\ binding[s] = "none"
    /\ s \in setup.stores
    /\ Serializable(store[s])
    /\ binding' = [binding EXCEPT ![s] = "bound"]
    /\ LET remote == Plain(doc)
           found == doc[1] \in {"ymap", "map"}
       IN IF found /\ Serializable(remote) /\ InSchema(remote)
          THEN /\ store' = [store EXCEPT ![s] = remote]
               /\ synced' = [synced EXCEPT ![s] = remote]
               /\ doc' = IF doc[1] = "map" THEN Shared(remote) ELSE doc
               /\ UNCHANGED <<snapshot, ops, scheduled, timers, raced>>
          ELSE Restore(s)
    /\ UNCHANGED <<setup, budget>>

\* destroy: nothing reaches the store or leaves it any more.
Destroy(s) ==
    /\ binding[s] = "bound"
    /\ Spend("destroy")
    /\ binding' = [binding EXCEPT ![s] = "destroyed"]
    /\ UNCHANGED <<setup, doc, store, synced, snapshot, ops, scheduled, timers,
                   raced>>

-----------------------------------------------------------------------------
(* A local write: the store's subscriber runs syncNow.                        *)

\* restoreLastSyncedState: what the store has after a state that does not
\* round-trip was written into it.
Refused(s, next) == synced[s]

\* What a sync writes: what the store changed since it last agreed.
Changed(old, new) == Touched(<<>>, Shared(Plain(old)), Shared(Plain(new)))

\* The transaction of a sync.  Where an array insert throws, what was written
\* before it stays, and the keys of the state behind it are not reached.
Synced(s, next) ==
    LET may == {k \in DOMAIN next[2] : ~Overruns(At(doc[2], k), At(synced[s][2], k), next[2][k])}
        reached(behind) == [k \in DOMAIN next[2] |->
                               IF k \in behind THEN At(synced[s][2], k) ELSE next[2][k]]
    IN IF Overruns(doc, synced[s], next)
       THEN {SyncMap(doc[2], synced[s][2], reached(behind)) : behind \in SUBSET may}
       ELSE {SyncMap(doc[2], synced[s][2], next[2])}

LocalWrite(s) == \E w \in setup.locals :
    LET next == SetAtPath(store[s], w.path, w.value)
        written == {w.path} \cup Changed(synced[s], next)
        overtaken == {o \in PathsOf(ops[s]) : \E p \in written : Overlap(o, p)}
        throws == Overruns(doc, synced[s], next)
    IN /\ next # store[s]
       /\ Len(w.path) > 1 => ValueAt(Shared(store[s]), w.path) # Absent
       /\ s \in setup.stores
       /\ binding[s] # "destroyed"
       /\ Spend("local")
       /\ IF binding[s] # "bound"
          THEN /\ store' = [store EXCEPT ![s] = next]
               /\ UNCHANGED <<doc, synced, snapshot, ops, scheduled, timers, raced>>
          ELSE IF ~Serializable(next)
          THEN /\ store' = [store EXCEPT ![s] = Refused(s, next)]
               /\ UNCHANGED <<doc, synced, snapshot, ops, scheduled, timers, raced>>
          ELSE /\ store' = [store EXCEPT ![s] = next]
               /\ synced' = [synced EXCEPT ![s] = IF throws THEN @ ELSE next]
               /\ \E content \in Synced(s, next) : doc' = YMap(content)
               /\ LET new == Collect(Touched(<<>>, doc, doc'), doc')
                      others == Bound \ {s}
                      mine == IF snapshot[s] # Absent \/ throws THEN RootKeys(written)
                              ELSE RootKeys(overtaken)
                  IN /\ ops' = [t \in Stores |->
                                  IF t \in others /\ snapshot[t] = Absent
                                  THEN ops[t] \o new ELSE ops[t]]
                     /\ scheduled' = [t \in Stores |->
                                        scheduled[t] \/ (t \in others /\ new # <<>>)]
                     /\ raced' = [t \in Stores |-> raced[t] \cup
                                    (IF t = s THEN mine
                                     ELSE IF t \in others THEN Raced(t, new) ELSE {})]
               /\ UNCHANGED <<snapshot, timers>>
       /\ UNCHANGED <<setup, binding>>

-----------------------------------------------------------------------------
(* Transactions of other peers.                                               *)

\* An edit of the document as a remote peer makes it on shared types.
RECURSIVE Edit(_, _, _)
Edit(v, path, c) ==
    LET s == Head(path)
    IN IF Len(path) > 1
       THEN <<v[1], [v[2] EXCEPT ![s[2]] = Edit(@, Tail(path), c)]>>
       ELSE IF c.type = "delete"
       THEN IF s[1] = "index" THEN YArr(RemoveAt(v[2], s[2]))
            ELSE YMap(Without(v[2], {s[2]}))
       ELSE IF s[1] = "index" THEN YArr(InsertAt(v[2], s[2], c.value))
       ELSE YMap(Put(v[2], s[2], c.value))

CanEdit(c) ==
    LET parent == ValueAt(doc, Front(c.path))
        s == Last(c.path)
    IN IF s[1] = "index"
       THEN parent[1] = "ylist" /\ s[2] <= Len(parent[2]) + (IF c.type = "delete" THEN 0 ELSE 1)
       ELSE parent[1] = "ymap" /\ (c.type = "delete" => s[2] \in DOMAIN parent[2])

\* A change below the state map: one event, of a key or of an array.
RemoteEdit == \E c \in setup.remotes :
    /\ c.path # <<>>
    /\ doc[1] = "ymap"
    /\ CanEdit(c)
    /\ Spend("remote")
    /\ doc' = Edit(doc, c.path, c)
    /\ doc' # doc
    /\ LET at == IF Last(c.path)[1] = "index" THEN Front(c.path) ELSE c.path
       IN Enqueue(Bound, Collect({at}, doc'))
    /\ UNCHANGED <<setup, store, binding, synced>>

\* The state map is replaced by another one, by a plain object or by nothing:
\* the first observer migrates the root, and all take what it holds.
RemoteRoot == \E c \in setup.remotes :
    /\ c.path = <<>>
    /\ c.value[1] \in {"ymap", "map", "absent"}
    /\ doc # c.value
    /\ Spend("remote")
    /\ LET state == IF c.value = Absent THEN Obj(<<>>) ELSE Plain(c.value)
       IN /\ doc' = IF Bound = {} \/ c.value[1] = "ymap" THEN c.value
                    ELSE Shared(state)
          /\ EnqueueSnapshot(Bound, state)
    /\ UNCHANGED <<setup, store, binding, synced, timers>>

\* The state map is replaced by something else: the first observer puts its own
\* state back, and keeps what it had pending.
RemoteJunk == \E c \in setup.remotes :
    /\ c.path = <<>>
    /\ c.value[1] \in {"leaf", "bad"}
    /\ Spend("remote")
    /\ IF Bound = {}
       THEN /\ doc' = c.value
            /\ UNCHANGED <<synced, snapshot, ops, scheduled, raced>>
       ELSE \E s \in Bound :
            /\ doc' = Shared(store[s])
            /\ synced' = [synced EXCEPT ![s] = store[s]]
            /\ snapshot' = [t \in Stores |-> IF t \in Bound \ {s} THEN store[s]
                                             ELSE snapshot[t]]
            /\ ops' = [t \in Stores |-> IF t \in Bound \ {s} THEN <<>> ELSE ops[t]]
            /\ scheduled' = [t \in Stores |-> scheduled[t] \/ t \in Bound \ {s}]
            /\ raced' = [t \in Stores |->
                           IF t \in Bound \ {s} THEN {}
                           ELSE IF t # s THEN raced[t]
                           ELSE IF snapshot[s] # Absent THEN Keys
                           ELSE RootKeys(PathsOf(ops[s]))]
    /\ UNCHANGED <<setup, store, binding, timers>>

-----------------------------------------------------------------------------
(* flushFromYjs.                                                              *)

\* The state a flush asks of the store, or Bad where it is refused: a value that
\* does not round-trip, or a key outside the schema.
Target(s) ==
    LET list == Compact(ops[s])
        next == ApplyAll(store[s], list)
    IN IF snapshot[s] # Absent
       THEN IF Serializable(snapshot[s]) /\ InSchema(snapshot[s])
            THEN snapshot[s] ELSE Bad
       ELSE IF (\A i \in DOMAIN list : Serializable(list[i].value) \/ list[i].type = "delete")
               /\ InSchema(next)
            THEN next ELSE Bad

\* lastSyncedState after the store became state: whatever the store holds.
Settled(s, state) ==
    /\ store' = [store EXCEPT ![s] = state]
    /\ synced' = [synced EXCEPT ![s] = state]

Pending(s) == snapshot[s] # Absent \/ ops[s] # <<>>

\* The work is applied; a subscriber may answer the change with a write of its
\* own, which syncNow skips.
FlushApplied(s) ==
    /\ Target(s) # Bad
    /\ \/ /\ Settled(s, Target(s))
          /\ UNCHANGED <<raced, budget>>
       \/ \E w \in setup.reactions :
            /\ Spend("reaction")
            /\ Settled(s, SetAtPath(Target(s), w.path, w.value))
            /\ raced' = [raced EXCEPT ![s] = @ \cup RootKeys({w.path})]
    /\ snapshot' = [snapshot EXCEPT ![s] = Absent]
    /\ ops' = [ops EXCEPT ![s] = <<>>]
    /\ scheduled' = [scheduled EXCEPT ![s] = FALSE]
    /\ UNCHANGED <<doc, timers>>

FlushRefused(s) ==
    /\ Target(s) = Bad
    /\ Restore(s)
    /\ UNCHANGED budget

\* setState throws because another update of the store is under way: the work is
\* kept, and a timer schedules the flush again.
FlushPostponed(s) ==
    /\ Spend("retry")
    /\ ops' = [ops EXCEPT ![s] = IF snapshot[s] # Absent THEN <<>> ELSE Compact(@)]
    /\ scheduled' = [scheduled EXCEPT ![s] = FALSE]
    /\ timers' = [timers EXCEPT ![s] = @ + 1]
    /\ UNCHANGED <<doc, store, synced, snapshot, raced>>

\* setState throws another error, and the work is gone: a commit validator has
\* refused it, or a subscriber has thrown once the store had changed.
FlushThrows(s) ==
    /\ Target(s) # Bad
    /\ Spend("throw")
    /\ store' \in {store, [store EXCEPT ![s] = Target(s)]}
    /\ raced' = [raced EXCEPT ![s] = @ \cup RootKeys(Changed(store[s], Target(s)))]
    /\ snapshot' = [snapshot EXCEPT ![s] = Absent]
    /\ ops' = [ops EXCEPT ![s] = <<>>]
    /\ scheduled' = [scheduled EXCEPT ![s] = FALSE]
    /\ UNCHANGED <<doc, synced, timers>>

FlushIdle(s) ==
    /\ scheduled' = [scheduled EXCEPT ![s] = FALSE]
    /\ UNCHANGED <<doc, store, synced, snapshot, ops, timers, raced, budget>>

Flush(s) ==
    /\ scheduled[s]
    /\ IF binding[s] = "bound" /\ Pending(s)
       THEN FlushApplied(s) \/ FlushRefused(s) \/ FlushPostponed(s) \/ FlushThrows(s)
       ELSE FlushIdle(s)
    /\ UNCHANGED <<setup, binding>>

\* Mutant: the flag is still set when the timer runs, and nothing is scheduled.
MutantRetry(s) ==
    /\ timers[s] > 0
    /\ timers' = [timers EXCEPT ![s] = @ - 1]
    /\ UNCHANGED <<setup, doc, store, binding, synced, snapshot, ops, scheduled,
                   raced, budget>>

\* scheduleFlushFromYjs, from a timer.
Retry(s) ==
    /\ timers[s] > 0
    /\ timers' = [timers EXCEPT ![s] = @ - 1]
    /\ scheduled' = [scheduled EXCEPT ![s] = @ \/ binding[s] = "bound"]
    /\ UNCHANGED <<setup, doc, store, binding, synced, snapshot, ops, raced, budget>>

-----------------------------------------------------------------------------
Next ==
    \/ \E s \in Stores : Bind(s) \/ Destroy(s) \/ LocalWrite(s) \/ Flush(s) \/ Retry(s)
    \/ RemoteEdit \/ RemoteRoot \/ RemoteJunk

\* Microtasks and timers run.
Fairness == \A s \in Stores : WF_vars(Flush(s)) /\ WF_vars(Retry(s))

Spec == Init /\ [][Next]_vars /\ Fairness

-----------------------------------------------------------------------------
(* Properties.                                                                *)

AtRest(s) == ~Pending(s) /\ ~scheduled[s] /\ timers[s] = 0

\* With nothing waiting, a bound store and the document hold the same state:
\* whoever wrote, whatever was refused, migrated or retried, and however local
\* writes and flushes interleaved.  Only root keys that one of the races named
\* at Raced touched may differ.
StoresAgree ==
    \A s \in Bound : AtRest(s) =>
        LET shown == Plain(doc)
        IN /\ doc[1] = "ymap"
           /\ \A k \in (DOMAIN shown[2] \cup Keys) \ raced[s] :
                 At(shown[2], k) = At(store[s][2], k)

\* A local write changes the document where the store has changed since it last
\* agreed with it, and nowhere else: what other peers wrote and this store has
\* not seen survives.
WritesAreDiffs ==
    [][\A s \in Bound :
          LET mine == Changed(store[s], store'[s]) \cup Changed(synced[s], store'[s])
              apart(p) == /\ \A o \in PathsOf(ops[s]) : ~Overlap(o, p)
                          /\ p[1][2] \notin raced'[s]
          IN (/\ budget'.local < budget.local
              /\ mine # {}
              /\ snapshot[s] = Absent
              /\ \A p \in mine : apart(p))
             => /\ \A p \in mine : Plain(ValueAt(doc', p)) =
                                   Plain(ValueAt(Shared(store'[s]), p))
                /\ \A p \in Changed(doc, doc') : \E c \in mine : IsPrefix(c, p)]_vars

\* The stores do not answer each other's transactions for ever: once the peers
\* stop, every binding comes to rest.
Settles == <>[](\A s \in Stores : AtRest(s) \/ binding[s] # "bound")
=============================================================================
