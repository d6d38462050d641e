# Coaction in TLA+

Coaction is a state library: a store holds one immutable tree, actions change
it through drafts, and the same store may be shared between threads, kept in
step with a remote service or a Yjs document, persisted, undone, bound to the
store of another library, and rendered.  This directory models the parts of it
that are protocols or that compute with states and paths, checks them with TLC
on small instances, and proves eight of them with TLAPS for every instance.

## 1. The system

| part | source (packages/) | state it keeps | operations |
|---|---|---|---|
| Shared store protocol | core/src/handleMainTransport.ts, asyncClientStore.ts, getRawStateClientAction.ts | epoch and sequence on both sides, `connectGeneration`, `connectSync`, `syncTail`, one promise per remote action | write and emit, execute, fullSync, connect, receive an update, call an action, time out, destroy |
| Store writes and observers | core/src/notifications.ts, storeFactory.ts, storeCommit.ts, handleState.ts | `rootState`, the queues `commits` and `listeners`, `depth`, `failure`, `pendingCommitSource`, the listener sets | setState, apply, replayStorePatches, subscribe, onStoreCommit, destroy |
| Mutable actions | core/src/getRawStateLocalAction.ts, handleDraft.ts, externalApply.ts | one draft and its owner, a chain of action contexts | enter, suspend, resume and leave an action; commit the draft |
| Patch and state utilities | core/src/utils.ts, sharedState.ts, immutableState.ts, externalCommit.ts | the frozen snapshots of states | copy, compare and check a state; apply, complete, invert and derive patches; carry a snapshot across a commit |
| Reactive paths and derived values | core/src/reactivePath.ts, derived.ts, computed.ts, reactiveTracker.ts | a trie of the paths read, the paths each object was reached at, caches | track, invalidate by patches or by transition, prune, derive, derivePath, getters |
| Remote synchronisation | coaction-sync/src/index.ts, checkpoint.ts, mutations.ts | `outbox`, `cursor`, `revision`, `status`, `remoteEpoch`, `pullOwed`, write queue, remote lane, retry timer, two storage keys | hydrate, local commit, push, pull, remote event, rebase, retry, clearPending, destroy |
| Rebase coordinates | coaction-sync/src/rebasePaths.ts, paths.ts | none | rewrite the paths of a mutation across remote patches |
| CRUD and vendor adapters | coaction-sync/src/crud.ts, supabase.ts, firestore.ts | `remoteIds`: what the remote is believed to hold | push as one call for each record, pull by page, by query and by change, events, checkpoint |
| Persistence | coaction-persist/src/index.ts | `hasHydrated`, `isHydrating`, `hasPendingPersist`, the queue behind `writePromise`, one storage key | rehydrate, store after a change, migrate and write back, clearStorage, destroy |
| Undo history | coaction-history/src/index.ts | a journal of patches with a cursor, or past, future and current snapshots; `isSetStateRecording`, `isTimeTraveling`, `suppressionDepth` | record, undo, redo, clear, runWithoutRecording, destroy |
| Yjs binding | coaction-yjs/src/index.ts, sync.ts, remoteOperations.ts | `lastSyncedState`, `pendingOperations`, `pendingSnapshot`, `flushScheduled`, a retry timer | bind, write a local change as a diff, collect remote operations, compact and flush them, put a refused root back, destroy |
| React runtime | coaction-react/src/runtime.ts | for each component its active and latest selection, trackers with cleanup timers, `fullStateVersion` | render, commit, subscribe, hide, show, unmount, clean up |
| State library adapters | coaction-mobx, -valtio, -pinia (the library keeps the state), coaction-zustand, -redux, -jotai, -xstate (a second copy), core/src/externalApply.ts, replaceExternalStoreState.ts | `lastSnapshot`, flags that mark Coaction's own writes | write through, hand on, notice a foreign write, refuse and put back |
| Everything else | construction (create.ts, getRawState*.ts, lifecycle.ts, ...), framework bindings, logger | none of their own | object wiring, I/O |

How they interact: every write ends in `internal.notifyStateChange` and
`internal.publishCommit`.  The commit goes to the transport (which numbers it
and sends it to the mirrors) and to the commit listeners, which is how the
history, the synchronisation and the Yjs binding learn of local writes; each of
them writes back with `replayStorePatches`.  A mirror receives updates and
snapshots and writes them with `store.apply`, which runs its own observers.

What is hard: messages that are lost, late, repeated or overtaken; state read
before an `await` and used after it; user callbacks that write, throw or destroy
the store in the middle of a write; timers racing answers; crashes between a
request and the write of its result.  `PROJECT.json` lists each of these hazards
at its line with the properties about it.

## 2. Modules

| module | models | composes or implements |
|---|---|---|
| `SharedMirror` | the write authority, client mirrors, full synchronisation, remote actions | implements `MirroredHistory` |
| `MirroredHistory` | what a shared store promises without its transport: mirrors jump forward between published points of the authorities' histories | - |
| `SharedMirrorProofs` | theorems about `SharedMirror` | extends `SharedMirror` |
| `StoreCommits` | one store: writes, commit listeners, subscribers and the transport callback, with the call stack | implements `CommitLog` |
| `CommitLog` | what a store promises its observers: one log, told to every listener in order | - |
| `StoreCommitsProofs` | theorems about `StoreCommits` | extends `StoreCommits` |
| `MutableTransactions` | actions of a store bound to a mutable instance, their one draft and its owner | - |
| `MutableTransactionsProofs` | theorems about `MutableTransactions` | extends `MutableTransactions` |
| `SyncOutbox` | `sync()`: outbox, checkpoint and journal, hydration, push, pull, events, rebase, retry, crash and restart | - |
| `SyncOutboxProofs` | theorems about `SyncOutbox`: what is stored, what is shown, the order of remote facts and of the outbox | extends `SyncOutbox` |
| `Persist` | `persist()`: hydration, the queue of storage operations, migration, clear, crash and restart | - |
| `PersistProofs` | theorems about `Persist` | extends `Persist` |
| `History` | `history()`: recording in its three ways, undo, redo, clear, hydration without recording | implements `UndoTimeline` |
| `HistoryProofs` | theorems about `History` | extends `History` |
| `UndoTimeline` | what an undo history promises: a line of states with a cursor | - |
| `StateGraphs` | states as graphs of objects: copies, comparison, what a shared store accepts, frozen snapshots | - |
| `StatePatches` | patches over these graphs: applying, completing, inverting, replacing, merging, the fixed schema | extends `StateGraphs` |
| `RebasePaths` | the rewriting of paths by a rebase, with list entries that have an identity | extends `StatePatches` |
| `StateWrites` | one store with every way to write it | extends `RebasePaths` |
| `ReactivePaths` | the trie of paths, tracking, invalidation, derived values | extends `StatePatches` |
| `ReactRuntime` | components that read a store, with React's own scheduling | extends `ReactivePaths` |
| `CrudAdapter` | the CRUD adapter on five backends, with the outbox, the lane and the checkpoint it meets | - |
| `CrudAdapterProofs` | theorems about `CrudAdapter` | extends `CrudAdapter` |
| `YjsTrees` | conversions, the diff a local write makes, the operations remote events become | - |
| `YjsBinding` | stores bound to one document | extends `YjsTrees` |
| `ExternalStores` | a store bound to the store of another library, for seven libraries | - |
| `ExternalStoresProofs` | theorems about `ExternalStores` | extends `ExternalStores` |
| `MC*` | the finite instances, with their symmetry sets | extend the module of the same name |

### SharedMirror

One step is one synchronous stretch of the program: an event handler up to its
first `await`, or a continuation.  Promise jobs of one client are ordered by its
own queues (`syncTail`, `syncing`, `handling`).

- *Authority.* `StartAuthority` and `StopAuthority` are the life of
  `handleMainTransport`; `Write` is any commit that is emitted; an action is
  split at its `await`s into `ExecuteBegin`, `ExecuteWrite` and `ExecuteEnd`
  (or `ExecuteRefuse`, when the epoch in the request is another one).
- *Client.* `Connect` is the transport's connect event.  `StartSync`,
  `SkipSync` and `FinishSync` are `fullSync` and the tail it is chained to.
  `Deliver` hands an update to `handleUpdate`, whose branches are `DropUpdate`,
  `SyncEpoch`, `ApplyUpdate`, `SyncGap`, `MismatchedEpoch` and `Recover`.
- *Remote action.* `CallAction`, the three `Receive` actions, `WaitTimeout` and
  `Destroy` settle one promise; `LoseCall` and `FailSync` are the transport
  giving up.
- *Data.* The i-th write of epoch e is `<<e, i>>` and a state is the sequence of
  writes that lead to it, so a gap, a repetition or a mixture of two
  authorities shows.  What is sent and not yet delivered is every update ever
  emitted: the transport may lose, delay and reorder it, and deliver it twice
  with the `duplicate` fault.

### StoreCommits

The program is sequential, so its hard behaviour is reentrancy.  `stack` holds a
"run" frame for each call of `notifications.run` and a "callback" frame for each
observer that runs.  While a callback is on top, user code may call `setState`,
a replay, `apply` or `destroy`, add and remove listeners, return, or throw.
`commits`, `listeners`, `depth` (only the outermost frame is at depth 0) and
`failure` are those of `notifications.ts`; `pendingCommitSource` is that of
`handleState.ts`.  A write body is one step, since nothing else runs in it.
Once the outermost frame is left, both queues are empty, no failure waits, the state is
what the log adds up to, and the transport has numbered every commit
(`NothingLeftBehind`).
`told` counts how often each listener has been called, so that a second delivery of one
commit is a step `CommitLog` does not take.

### MutableTransactions

`Enter` and `Begin` are the two halves of a call, `Finish` and `End` those of
`handleResult`: between the halves `handleDraft` has committed and its observers
run, while the owner is still the old one.  `Suspend`, `Resume` and `Return` are
those of an async function; `stack` holds the actions that run now.  `drafts` is
`internal.rootState` (empty when it is the instance), `chain` the `displaced`
pointers followed to their end, `closed` how the last `handleDraft` of an action
ended.  A write is a number; `state` and `published` are the writes in the instance
and in commits.  `torn` is a history variable: a `setState` has failed inside an action,
which leaves that action without a draft.  Faults: a validator refuses, an observer throws, the update of a
`setState` fails, an observer calls an action.

### SyncOutbox

All waiting is on promises.  A continuation of a write is a name in that write's
`waiters`, and in `due` once the write has settled; the guard `Quiet` lets
continuations run before a timer, a response or storage does anything, which is
what the JavaScript runtime guarantees.  A local commit may happen at any moment.
The write queue is a sequence of writes whose contents are taken when the write
starts (the checkpoint) or when it is asked for (the journal), as in `persist`
and `persistPreHydration`.  The state of the store is abstracted to the remote
fact it is based on (`base`, which is also the cursor) and to how often each
mutation is applied to it.  `remoteEpoch` appears as the flag `moved` of a request
that has captured it.  A setup says which faults may happen and what the
application may call: crash, failed write, read, removal, push and pull, a stored or
answered value that parsing refuses ("malformed"), a declined mutation, a conflict, a
rebase that is refused, and a subscriber that throws in a rebase; the calls flush,
pull, clear and destroy; and a subscription, or none.
The remote is modelled from what `SyncAdapter` lets it do: it takes what it is
sent, less what it declines, and answers with its state or without.  Its events are
assumed to come in the order of their facts and once; they and its answers may overtake
each other in either direction.  How often a mutation is applied is counted in the
store, not at the remote, which may be sent one twice.  `revived` is a history variable:
the mutations that a hydration has found in a journal left behind though they were
taken or cleared before.

### Persist

`life`, `start` and `config` are the running program: a program starts (`Start`),
is destroyed (`Destroy`) or crashes (`Crash`), and the next one finds what storage
holds.  `hydration` is the `await` at which `runRehydrate` stands: "reading"
(getItem), "read" (its answer is in `raw`), "migrating", "writeBack", "written",
"flush" (the `finally`, when `isHydrating` is off again), or "idle" when there is
no `hydrationPromise`.  `scheduled` is the microtask that hydrates a new store.
`queue` holds what is chained on `writePromise`, one queue for each program, with
the `await` of `runRehydrate` that waits for an operation; the queue of a destroyed
store goes on.  `Write` is a change of the store, told to persist by its
subscription or by the wrapped `setState`; `HydrateApply` is `merge`,
`applyHydratedState` and what follows up to the next `await`.
A state is the set of the writes it contains.  The item in storage carries
everything its store showed, and a merge keeps all of that and any subset of the
store's own writes, since the item wins for the keys both have.  Faults: a crash; a
read, `deserialize`, `migrate` or `merge` that fails ("read"); an observer of the
merged state that throws ("apply"); a storage operation that fails ("write"); a
subscriber that throws in `setState` ("throw"); and "overlap", under which storage is
read while writes to it are still queued, by an explicit `rehydrate` or by a new
program.  `merged`, `owed` and `emptied` are history variables of the properties.

### History

`engine` is the way of recording: "journal" (the journal of the travels library, here
`entries` and `position`, modelled as `test/controlled-journal.test.ts` does),
"snapshots" (`snapshotPast`, `snapshotFuture`, `snapshotCurrent`, once
`beginSnapshotCompatibility` has been called) and "legacy" (`snapshotHistory`, for a first
state that patches cannot represent).  `tracked` is what `partialize` selects: all keys,
or some.  `stack` holds the calls that are under way, `waiting` the subscribers to be
called when the outermost one is through, of which "history" is the subscription made
by history itself.  A write and what the commit listener of history records of it are
one step, since the commit is delivered before another write can be made.
A store is a function from keys to values; some values are those that patches
cannot represent, and what makes them so (dates, cycles, symbols) is not looked into.
Patches are functions from the keys that change.
`UndoTimeline` is shown to be implemented with a mapping that computes the states of
a journal from its patches (`materialize`), and takes back what a move has done to the
lists of snapshots until the move is through.  A write that an observer makes while
the cursor of a journal moves is in none of its patches: undo and redo then lead to
other states, and the abstract specification allows that (`meddled`).

### StateGraphs, StatePatches and StateWrites

A heap is a sequence of nodes and only grows: a write copies the nodes on its path, as
Mutative does, so an old state stays what it was and sharing shows.  A node has a kind
("plain", "null" for no prototype, "array", "atomic" for an instance of a class) and
its own properties in their order; two references are identical when they are equal.
`StateGraphs` has what walks such a graph: `Sanitize` (cloneStateValue),
`SameStructure`, `NeedsRootSnapshot`, `JsonWork` (the checks of a shared store) and
`TakeSnapshot`.  `StatePatches` has `ApplyPatches`, the completion of
what a recipe reports (`CompletePair`), inverses, root replacements and merges, and the
schema that fixes the keys of a store.
Mutative and JSON are external: what they do to a graph is modelled by their effect.
`StateWrites` is one store of a given role: `SetRecipe` and `SetObject` are
`setState`, `ApplyWithPatches` and `ApplyState` are `apply`, and `Replay` is
`replayStorePatches` of a published pair, each refused as the code refuses it.  `journal` keeps each published pair with the states it leads from and
to, `foreign` the nodes that belong to a caller, `cache` the frozen snapshot that is
carried along.

### RebasePaths

The code gives list elements fresh Symbols and renders a mutation's path against the
tree after the remote's changes.  Here the identity of a slot is where it came from (the
base, or the patch that made it).  `RebaseCommutes` takes two pairs published from one
state, rebases one over the other, and compares with a reference definition that moves
the elements by identity; it is checked in the states of `StateWrites`, on the
commits its writes publish.

### ReactivePaths and ReactRuntime

A graph is the trie of paths (a node exists while it, or a node below it, has a
reader), the paths at which each object was reached, the subscribers and the caches.
`Track` is one tracked evaluation; at its end the dependencies are reduced to those no
other implies (`Minimal`) and what lost its readers is pruned (`Prune`).  A commit bumps
the signals on the paths of its patches (`PatchSignals`) or, without patches, those that
a comparison of the two states finds (`TransitionSignals`); `ReadDerived`, `Derive`, `DerivePath` and `CachedGetter` are the
kinds of derived value.
`ReactRuntime` keeps apart what React keeps apart: `Render` evaluates and creates a
tracker, `Discard` throws the result away, `CommitRender` installs it in the layout
effect, `Subscribe` is the passive effect, `Hide` and `Show` an `<Activity>`,
`Expire` a cleanup timer.  A write may fall between any two of them.  `Gaps` names
the two places where it may not, see "Known divergences".
A write that puts an object in the place of one that looks the same is a write as well:
`OnlyReadersRender` states for each edit what a component may render for (`Exchanges`).

### CrudAdapter

A record is a number, and a backend is a record of options: what it refuses, whether it
answers with the record, whether it pages, narrows, normalises or reports changes.  A
push is one step for each record (`PushRecord`), each answered (`PushReturns`), refused
(`PushRefused`) or lost (`PushLost`), and then acknowledged as a whole (`PushDone`); a pull
is one step for each page.  `Restart` takes `remoteIds` from the checkpoint.  What the
sync core does with the results is modelled as far as it decides what the adapter sees.
`told` and `raced` are history variables: the newest revision of each record the client
was told of, and the records whose answers came back out of order, crossed a pull or were
never confirmed.  Only an authoritative list says of a record it leaves out that it is gone.

### YjsTrees and YjsBinding

`doc` is the entry of the root map; Yjs is external, and a transaction changes it at
once and calls the observers of every binding but its own.  `LocalWrite` is a write and
the diff it makes (`SyncMap`, `SyncList`); a remote transaction (`RemoteEdit`,
`RemoteRoot`, `RemoteJunk`) is turned into operations that wait in `ops` or, when the root
is replaced, into a snapshot; `Flush` compacts and applies them in a microtask, and
puts a root it refuses back (`FlushRefused`), puts the work off (`FlushPostponed`), or, on
any other error, loses the work it took (`FlushThrows`); `Retry` is the timer of a flush
that found a `setState` under way.  A local write whose list insert lies past the end
of the document's list throws, and leaves what its transaction wrote before (`Synced`).
`raced` is a history variable with the root keys that one of seven named races and
failures has touched.

### ExternalStores

One module for seven bindings, since they differ in few steps.  For the libraries that keep
the state (`runtime`), a write goes through `internal.externalApply` and the notification
comes back at once, at the end of a transaction, or in a microtask (`pending`), where it is
compared with `last`.  For those with a second copy, `root` is committed and handed on, and
a foreign write is taken over, refused, or (on a client) undone.  A state is a function
from keys to values, one of which validation refuses.  While Coaction writes the object of
the first kind, code that reacts at once may write one more key of it, with any value
(`Reactions`).  A client's XState actor is left alone by its binding (`Detached`).  `told` is what the commits add up
to, `heard` the state at the latest call of a subscriber, and `astray` the keys
written where the binding is known not to pass them on.

## 3. What the runs show

| run | properties | shows |
|---|---|---|
| `SharedMirror_safety` | `MirrorShowsHistory`, `ImplementsHistory`, `ResolvesCaughtUp` | under lost, late, repeated and reordered updates, failing requests, two connects and two authorities, a mirror shows only published points, in order; a promise that resolves finds its own writes, unless the client reconnected |
| `SharedMirror_liveness` | `CallsSettle`, `MirrorConverges` | every promise settles; over a transport that loses nothing, mirrors catch up |
| `StoreCommits_reentrancy` | `NothingLeftBehind`, `SubscribersAreCurrent`, `ImplementsLog` | nested writes, errors and destroy never lose, repeat or reorder a commit (deliveries are counted), and leave nothing for a later call |
| `MutableTransactions_overlap` | `CommitsRebuildState`, `EachWriteInOnePlace`, `DraftIsOwned` | actions that nest, suspend and finish in any order, with refusals, throwing observers and `setState` anywhere: the draft belongs to an unfinished action, every write is in the instance, the draft or rolled back, and what is in the instance is in a commit |
| `StateWrites_replay` | `CommitsReplay`, `StateIsOwned`, `SharedIsCarried`, `SnapshotIsState`, `RebaseCommutes` | every published pair replays, forwards and backwards; no object of a caller is in the state; a shared state survives its transport; the carried snapshot is the state; two changes from one base commute after a rebase |
| `SyncOutbox_outbox` | `NothingLost`, `ShownIsPendingOrTaken`, `OutboxInOrder`, `AnswersNeverRewind`, `Delivers` | whatever crashes or fails in two sessions, a mutation that reached storage stays there until it is taken or given up; store, outbox and remote agree, and the store applies each mutation once unless a hydration revives it; no answer is put over a newer remote fact; every pending mutation is taken in the end |
| `CrudAdapter_backends` | `LatestIsShown`, `BaselineIsTold`, `AckedIsOnRemote`, `Drains` | on every backend, what is shown is what was told last, the baseline is what the remote was seen to hold, an acknowledged write is there, and no record wedges the outbox |
| `Persist_storage` | `StoredIsShown`, `ClearedStaysCleared`, `StoredStaysStored`, `OwedIsStored` | with crashes, failures, clears and destroy between all awaits, what is in storage is not overwritten unread, the store shows it, and what persist has undertaken to store is stored |
| `History_timeline` | `TimelineIsShown`, `ImplementsTimeline` | with writes, moves, clears and hydrations in each other's observers, refused moves and throwing subscribers, in all three ways of recording and across the change between two of them: every change is recorded once, undo and redo show the very state that was there, and a refused move leaves everything where it was |
| `YjsBinding_document` | `StoresAgree`, `WritesAreDiffs`, `Settles` | with nothing waiting, stores and document agree except at keys in `raced`; a local write changes nothing in the document but what the store changed since the two last agreed; bindings do not answer each other for ever |
| `ReactRuntime_render` | `ShownIsCurrent`, `TrieIsExact`, `OnlyReadersRender` | a mounted component with nothing to render shows the state as it is; the trie is the paths that have readers and their parents; a write that changes nothing a component reads, and exchanges nothing it reads for an equal object, does not render it |
| `ExternalStores_bindings` | `CommitsLeadToState`, `RefusedNeverStays`, `SubscribersHear` | at rest, and outside `astray`, the commits add up to the state shown and both copies agree; a refused value does not stay on a shared store unless a reaction wrote it during Coaction's own write; subscribers were called with the state as it is |

`TypeOK` in `SharedMirror`, `StoreCommits`, `MutableTransactions`, `SyncOutbox`, `Persist`
and `History` documents the types; it is proved for all of them.
`MirrorAdvances` (a mirror's point only moves forward) follows from `ImplementsHistory` and
is proved on its own.

### Known divergences

Modelling met the following disagreements between the code and what it, its documents or
its tests say.  Each is outside what a run's setup allows, or counted in a history
variable that the properties except; each is a hazard of `PROJECT.json` whose note
begins "Known to go wrong".

| where (packages/) | what happens | how the model keeps it apart |
|---|---|---|
| core/src/asyncClientStore.ts:160 | a reconnect while a call's fallback snapshot waits in the tail makes `fullSync` return quietly, and the call resolves though its mirror is behind (docs/architecture/threading-model.md:63) | `ResolvesCaughtUp` is about clients that have not reconnected |
| core/src/asyncClientStore.ts:145 | a subscriber that throws leaves the new state under the old epoch and sequence | fault "throw", in no run; `NoThrow` in the proofs |
| core/src/handleState.ts:353, 381 | a `setState` that fails inside an action opens no draft again; the action's next write is in no commit | `torn` |
| core/src/getRawStateLocalAction.ts:155 | an action called by an observer inside `closeTransaction` loses the ownership of its draft | fault "observer", in no run |
| core/src/transportProtocol.ts:94 | a recipe on a shared store whose writes cancel out reports a root patch that the authority refuses (docs/architecture/core-runtime.md:20) | no such recipe on a shared store |
| core/src/utils.ts:829 | the inverse of a patch that ends in "-" removes at "-" | not among the edits |
| core/src/externalApply.ts:46 | `setState` and replay on a MobX, Valtio or Pinia store ask no validator (storeCommit.ts:161) | `RefusedNeverStays` is about shared stores, which the transport checks |
| coaction-sync/src/index.ts:529 | a failed write that none follows leaves `writeQueue` rejected, and every retry fails on it (the comment at 527) | `Undisturbed`, the premise of `Delivers` |
| coaction-sync/src/index.ts:487 | an explicit pull that succeeds cancels the retry of a failed flush | `Undisturbed` |
| coaction-sync/src/index.ts:623-629, 684 | a mutation whose journal was not removed, because the removal failed or the program ended after the mutation was taken or cleared, is taken from the journal by the next hydration, applied a second time and pushed again | `revived` |
| coaction-sync/src/index.ts:750-754 | an event is applied as it comes: one that arrives after an answer that held its fact takes the store back to the older state | `AnswersNeverRewind` is about answers |
| coaction-sync/src/crud.ts:187 | without `authoritativeList`, the default, a record that others delete is believed in for ever; if the backend refuses to update it, a push that names it fails for ever | of the setups with such a list only changes-since has `strictUpdate`, and its events say what was deleted |
| coaction-sync/src/crud.ts:320, 431 and the order of answers | a create whose answer is lost is not deleted later; a record brought back by a whole write is updated though it is gone; answers that cross show the older record | `raced`; Rest never loses an answer with whole writes |
| coaction-sync/src/crud.ts:317 | a whole write is acknowledged though a pull has meanwhile brought a record it left out: the store goes on hiding that record, and a pull of changes never mentions it | whole writes only on a backend with full lists |
| coaction-persist/src/index.ts:177, 127 | storage is read while writes to it are queued | fault "overlap", in no run |
| coaction-persist/src/index.ts:155, 286 | a write while hydrating, or one whose subscriber throws in `setState`, is neither stored nor put off | `OwedIsStored` is about the other writes |
| coaction-history/src/index.ts:769 | a subscriber that throws, or a legacy call inside a call, loses or misplaces a record | faults "lose" and "nested", in no run |
| coaction-yjs/src/index.ts:364, 419, 426, 550, remoteOperations.ts:88 | five races of flushes and remote operations | `raced` |
| coaction-yjs/src/index.ts:385, 405 | an error of a commit validator or a subscriber in a flush is thrown on after the pending work was taken: store and document stay apart | `raced` |
| coaction-yjs/src/sync.ts:113-114 | a local write to a list that remote operations still to be flushed have shortened inserts past its end and throws: the store keeps the write, the document half of it | `raced` |
| core/src/reactivePath.ts:470, 437 | what a patch puts in place is invalidated with everything below, and so are shifted list entries: an observer of `a.c` renders when `a` is replaced by an object with the same `c`, where coaction-react/README.md:55 says it re-renders "only when the Coaction state/getters it read during render change" | `Exchanges` in `OnlyReadersRender` |
| coaction-react/src/runtime.ts:491 | a write between the commit of a selector that reads nothing reactive, which is subscribed to the whole state, and its passive effect is missed (coaction-react/README.md:76) | `Gaps` without "passive" |
| coaction-react/src/runtime.ts:506 | a subtree hidden for longer than its tracker and shown without a render | `Gaps` without "reveal" |
| coaction-mobx/src/index.ts:103, coaction-valtio/src/index.ts:83-89 and their like | a foreign write absorbed by Coaction's own is in no commit; a client's subscribers are not called for what main sends; a refused value stays in the store of a library with a second copy | `astray`, and the roles `SubscribersHear` is about |
| coaction-mobx/src/index.ts:133-135, 276, and Valtio and Pinia alike | what a reaction or a synchronous watcher writes while the flag of Coaction's own write is up is taken for Coaction's and becomes the snapshot: it is in no commit, nobody validates it, a refused value stays on a shared store, and while it does a main store ignores every notification | `astray`, in `RefusedNeverStays` too; `SubscribersHear` is about main stores that show no refused value |
| coaction-xstate/src/index.ts:65-67 | the actor of a client (which test/index.test.ts:146 makes) is neither listened to nor written: after main's first update it differs from the state | `Detached` |

### Bounds

`MaxEpoch = 2` gives one replacement of an authority, `MaxSequence = 2` a gap (an
update missed, the next one delivered), and `MaxConnects = 2` a superseded
generation; `MaxPending` only limits how much undelivered work queues up in one
client.  Clients do not interact with each other, only with the authority, so one
client is enough.  One remote action is enough too: its fallback snapshot is chained
behind those of connections and gaps, as it would be behind another's.  The liveness run
has one write for each authority and one connection: what a client waits for is decided
by those it has missed, and one is enough to miss.
`MaxCalls = 3` in `StoreCommits` is a write, a write in its delivery, and one in
the delivery of that; two commit listeners tell order apart, and the symmetry of
the two is sound because no definition names one.  `MutableTransactions` has three
actions, since the hand-back must skip one that is done to reach another; three
writes are one before, one between and one after.
`SyncOutbox` has six setups, since all faults at once are too many: two where storage
fails or the program ends, across a restart; one where the remote fails, declines or wins,
across a restart; one with the application's flush and clear; one where events, pulls and
pushes meet in the lane; and one with two faults of the remote before everything is
delivered.  Two mutations tell order, a partial acknowledgement and a late commit apart;
two sessions are a crash and a recovery; two remote facts make one older than the other.
`PullAttempts` is 2 in the code and 1 in the runs: what it decides is whether one more
answer is discarded.
In `Persist` two programs are one that leaves something in storage and one that finds
it, the first write can be the item's and the second the store's own, two versions
make a mismatch, and two calls are a clear around a rehydration.
In `History` a limit of two is reached by the third write, two keys tell a projection
from what it leaves out, the values are one of patches, one to change it to, and one
that patches cannot represent; two calls deep is an observer's call.
`StateWrites` starts from a record with a record and a leaf, one with a list, and a slice
store; payloads are a leaf, an object with a function and an unsafe key, and a cyclic object
without prototype that holds what JSON does not carry.  One write follows another (two in the plain
store), and any published pair is replayed, which is enough for a replay of something
older than the state.
`CrudAdapter` has two records, one there at first, and bounds for each backend on the
application's writes, those of others, lost answers and restarts.  `YjsBinding` has one or
two stores and three shapes of state (leaves, an object, a list of objects), with two remote
transactions for one store or one each for two.  `ReactRuntime` has two components in nine setups, each a pair of readers
and the writes that tell them apart, two writes, and one render thrown away or subtree hidden;
`SmallReads` is 8 in the code and 1 here, so that both ways to invalidate happen.
`ExternalStores` has two keys and three values, and six writes by anyone.
`CHECK_DEADLOCK FALSE` is set everywhere because every bound ends the behaviours:
the program may stop.

### Fairness

`SharedMirror`: weak fairness of what a client does by itself (the event loop runs
its promise jobs and timers), and of the transport answering or giving up on a
request (`data-transport` times out).  Nothing makes users call, authorities
write or updates arrive; `MirrorConverges` has `ReliableDelivery`, that each update
is delivered, as its premise.
`SyncOutbox`: weak fairness of `Progress`, one formula for all that the program,
storage and the remote do without a fault; faults are bounded, so the remote is
reachable in the end.  `Delivers` is claimed where no write fails and the application
makes no calls of its own (`Undisturbed`), for the reasons in the table above.  A crash or a
failed hydration ends the obligation for that session; that a crashed session's
mutations survive is `NothingLost`.
`CrudAdapter`: weak fairness of each step of a push, of a pull and of the subscription, and
of starting them: the retry timer of the sync core starts what is pending, the remote
answers or refuses, and the application pulls from time to time.  Losing an answer,
the other client and restarts are not fair.
`YjsBinding`: weak fairness of `Flush` and `Retry`: microtasks and timers run.
`Persist`: weak fairness of `HydrationStep` (promise jobs run, and storage answers
getItem) and of the operation at the head of each queue, which is reached or fails.
Nothing makes the application write, or a program start or stop.

## 4. What is proved

`SharedMirrorProofs.tla`, checked by TLAPS for every set of clients and calls, every bound
and every choice of faults:

- `TypeCorrect`: `Spec => []TypeOK`.
- `MirrorsShowHistory`, `MirrorsAdvance`, `MirrorsImplementHistory`:
  `Spec => []MirrorShowsHistory`, `Spec => MirrorAdvances` and
  `Spec => ImplementsHistory`, when no subscriber throws (`NoThrow`).  The
  assumption is necessary: a subscriber's error is thrown after the state was
  replaced, and then epoch and sequence are put back under the new state.
- `PromisesFindTheirWrites`: `Spec => []ResolvesCaughtUp`, under the same assumption.

`MirrorShowsHistory` is not inductive: a snapshot is applied long after the
authority answered it, and an update long after it was emitted.  The inductive
invariant `MirrorInvariant` is `TypeOK` together with, for each client, `Sound`:
the mirror shows history; every update in hand, or that a queued job is about, has
been emitted; an answered request carries a point that was published, of an
authority no older than the mirror's; and at most one request is out, so that
nothing moves the mirror to another epoch while it is.  The proof that a step
preserves it has one step for each action, and one lemma for the actions that only
add to what is published.  `MirrorAdvances` and the step simulation of
`MirroredHistory` then follow from the invariant and from the guards of
`ApplyUpdate` and `FinishSync`.

`ResolvesCaughtUp` needs more, since a promise may resolve through a chain of steps of its
own: `CallInvariant` says that an answer carries a sequence its action's writes are part
of (`RecordSound`), and that a snapshot asked for on behalf of an action is still the one
its promise needs, or the promise has settled without it (`RequestSound`).  The steps that
resolve a promise are those that compare the mirror with that answer.

`PersistProofs.tla`, for every bound, every set of versions and every choice of faults and
calls:

- `TypeCorrect`: `Spec => []TypeOK`.
- `StoreShowsStorage`, `StorageKeepsWhatItHolds`: `Spec => []StoredIsShown` and
  `Spec => StoredStaysStored`, when storage is not read while writes to it are queued
  (`NoOverlap`).  The assumption is necessary, as the table of divergences says: the queue
  orders writes among themselves, and getItem does not wait for it.
- `ClearIsFinal`: `Spec => []ClearedStaysCleared`, under the same assumption.

`StoredIsShown` is not inductive, since what a step puts into storage was queued
earlier and what it merges was read earlier.  `StorageInvariant` adds: whatever is
queued by the running program can land in order without storage losing what it
holds or getting more than the store shows (`QueueSound`); the queues of other
programs are empty (`OthersDone`); while storage is being read no state is queued, so
that what was read is still all that storage holds (`ReadIsCurrent`); and a program
that has not read storage yet queues no state, unless it skips hydration
(`UnreadIsKept`).  The proof has one step for each action.  `ClearInvariant`, for
`ClearIsFinal`, adds that one operation at most is awaited, by the hydration that waits for
it, and that after `clearStorage` the queue ends in its removal.

`StoreCommitsProofs.tla`, for every set of commit listeners and subscribers and every
number of calls, so for every depth of nesting; there is no assumption on what the
observers do:

- `TypeCorrect`: `Spec => []TypeOK`.
- `WritesLeaveNothing`, `SubscribersFollow`: `Spec => []NothingLeftBehind` and
  `Spec => []SubscribersAreCurrent`.
- `StoresImplementLog`: `Spec => ImplementsLog`.

The two invariants speak of a store at rest only, and so say nothing about the states in
between that a step starts from.  `CommitInvariant` describes the middle of a write: only
the first frame of the stack believes itself outermost, so only its end can empty the
stack (`OneOuter`); a source that is announced belongs to an unfinished replay, and
one that a frame keeps to a replay below it (`SourceIsOwned`); what is queued is about the last commit
alone, with the transport in front and its number due (`LastIsDelivered`); a listener that
has not been told of the last commit is in the queue (`ListenersAreTold`); nobody is registered
or queued twice, and a listener has been called as often as it has received commits (`CalledOnce`); a subscriber
that has not been called since is in its queue (`SubscribersAreQueued`).  `LastIsDelivered`
and `ListenersAreTold` are what the guard of a body, that no commit is left to deliver,
turns into the precondition of a commit in `CommitLog`.  The proof has lemmas for what a
step does to the stack (a call, a callback, the end of a body, a return) and to each queue,
and one step for each action that combines them.

`SyncOutboxProofs.tla`, for every number of mutations and every
setup `SetupType` allows, so for every set of faults and calls and any number of sessions:

- `TypeCorrect`: `Spec => []TypeOK`.  It is not as shallow as it sounds: a mutation that a
  rebase rolls back has been applied, and nobody takes from an empty lane.
- `StoredMutationsSurvive`, `OptimismIsPending`: `Spec => []NothingLost` and
  `Spec => []ShownIsPendingOrTaken`.
- `FactsNeverRewind`: `Spec => AnswersNeverRewind`.
- `MutationsStayInOrder`: `Spec => []OutboxInOrder`.

What is owed survives because of what the writes under way will store.  `OutboxInvariant`
says: storage holds what is owed, and so does a hydrated outbox (`OwedIsHeld`); a write of
the checkpoint that has begun will store all that is owed, nothing is stored that was not
pending, and the journal is written before the checkpoint (`QueueHolds`); whoever may remove
the journal may do so because the checkpoint holds everything (`JournalGoes`); the first
result of the lane waits for one write (`LaneWaits`); and what each checkpoint shows is
pending, taken or cleared, once unless it was revived (`ShowsPending`).
`FactsInvariant` adds that the flush in progress is the only one that waits, that nothing in
the store, in storage or in the lane is newer than the remote, and that the results
that will be applied come in the order of their facts, with the answers still to join them
(`LaneInOrder`): an answer that would be older has been marked as moved.  Events are left out of
that order, since nothing marks one that an answer has overtaken.
`OrderInvariant` adds that of what is still owed, what is stored is older than what is not,
the checkpoint is older than the journal, and what a write is about to store is older than
what it is not.  The proofs rest on lemmas about the operators of the module (`Without`,
`Merge`): which elements they keep and that they keep them in order.
The first attempt at `JournalGoes` failed on a destroyed store that went on hydrating; the
code looks at `destroyed` after its await (coaction-sync/src/index.ts:612), and so does
`Drained` now.

`MutableTransactionsProofs.tla`, for every number of actions and writes and every choice of
faults:

- `TypeCorrect`: `Spec => []TypeOK`.
- `WritesAreInOnePlace`: `Spec => []EachWriteInOnePlace`.
- `TransactionIsOwned`, `CommitsAreComplete`: `Spec => []DraftIsOwned` and
  `Spec => []CommitsRebuildState`, when observers call no actions (`NoObserver`).  The
  assumption is necessary: an action that an observer calls inside `closeTransaction` takes
  over a draft that the closing action then drops (see the table).  Both speak of a store in
  which no `setState` has failed inside an action (`torn`), for the reason in the table.

`TypeInvariant` has the stack discipline: one action at a time opens or closes, and one draft at
most is open (`OneMoves`, `OneDraft`).  `Placed` divides the writes made so far between
instance, drafts and rolled back.  `OwnerInvariant` is about who owns the draft: the chain
of the owner holds every other unfinished action, and what is further down a chain is in the
chain of what is above it (`AllWait`, `Nested`), so that the hand-back, which skips actions
that are done, never skips one that is not.

`ExternalStoresProofs.tla`, for every set of keys and values, any number of writes, and
every combination of library, role and validation the code permits (`SetupsAssumption`: only a
Redux binding is refused to a client):

- `PublishedIsShown`, `RefusedIsPutBack`, `SubscribersAreCalled`:
  `Spec => []CommitsLeadToState`, `Spec => []RefusedNeverStays` and
  `Spec => []SubscribersHear`.

The three speak of a binding at rest, and except what the table of divergences says of
reactions, late notifications and the actor of a client.  `BindingInvariant` says what is true meanwhile.  For a
binding that reads through (`Settled`): object and snapshot differ only where the library has
still to tell of a write, and the commits lead to the snapshot, which is accepted.  For one
that holds a copy (`Copied`): everything but the library's own store follows the root
state.

`HistoryProofs.tla`, for every set of keys and values, every projection, limit and depth of
calls, and every choice of faults but those named:

- `TypeCorrect`: `Spec => []TypeOK`; `MovesCanBeTakenBack`: `Spec => [](Limited /\ MovesHaveRoom)`.
- `CurrentIsShown`: `Spec => []TimelineIsShown`, when no observer throws where its error keeps a
  change from being recorded (`NoLoss`).
- `HistoriesImplementTimeline`: `Spec => ImplementsTimeline`, when in addition no observer calls
  a legacy history in the middle of a call (`NoNesting`); `PatchesLeadBack`, under the same
  assumptions, is the part of the invariant that is about patches.

Both assumptions are necessary: the table of divergences has what goes wrong without them.
`TimelineIsShown` is about a history at rest, and the refinement is about states that a journal
computes from patches, one after the other; `TimelineInvariant` says what lies behind both.
Of the calls that are under way, one at most moves, none moves in a hydration, and a refused
write is the innermost (`CallsNest`); a subscriber waits only while a call is under way
(`CallsRest`).  What history calls current is the store, or its subscription or the end
of a `setState` has still to look at it; the journal of a whole store, which hears of commits,
is never behind (`Followed`).  A legacy history is called in the middle of a call by plain
writes alone (`LegacyCalls`).  A move goes where the patches or the list it has taken from lead,
and is there once it has written the store, unless an observer writes (`MovesArrive`).  There is
a line of states of which the patches of each entry lead to the next and the inverse ones back
(`Exact`), and only its first may hold a value that patches cannot represent
(`OddIsFirst`): without this a journal of a projection could turn into snapshots without a
change to record.
The proof first shows what `materialize` computes: `Steps` is a recursive function, and
`SteppingExists`, `StepsFacts` and `StepsAreUnique` say that it is the only sequence of states
that patches lead to, from which follow `RecordMaterializes` (what an entry behind the cursor
does to the states before and after it, with the limit) and `LineMoves` (what a move of
the cursor does).  Then one lemma for each action says what it does to the calls, to what
history follows, to the journal, and, last, which step of `UndoTimeline` it is: a move is seen
when it ends, a change when it is recorded.

`CrudAdapterProofs.tla`, for every finite set of records, any bounds, and every backend
`SetupsAssumption` allows: any options, but that an authoritative list is neither one of changes
nor narrowed by a query, and no list is both.  A full list that is not authoritative is the
default of the code and among them:

- `TypeCorrect`: `Spec => []TypeInvariant`.
- `BaselineHolds`: `Spec => []BaselineIsTold`.
- `AcknowledgedIsOnRemote`: `Spec => AckedIsOnRemote`.

The last two speak of what a client knows of a remote that others write too, and of records
that are not in `raced`.  `AckedIsOnRemote` is besides about records that no other client
has written since and whose newest revision this client had heard of when its push began.
`BaselineInvariant` says it of every message under way: an event, a row of a pull or a taken
call that carries the newest revision of a record carries the record as it is
(`EventsReport`, `RowsReport`, `CallWrote`); a full pull that is through has a row for each record
(`PullCovers`); what a push has been answered is about records it believes in, unless the
push was overtaken (`AnswersBelieved`).  `Believes` is `BaselineIsTold` without its premise
that nothing is in flight, once for memory and once for the checkpoint that a restart takes the baseline
from.  A query makes this harder, since a subscription reports that a record left the query
as a removal: the adapter may take that for the truth only because it believed in the record by
then (`QueryReported`, `LeaversKnown`).
`AckInvariant` adds what the outbox and a push have to do with each other: no write of the
whole collection follows a removal, and each mutation has a number of its own (`Fits`);
the push makes a call for every record a mutation it sent names, and the call carries what the
store had when the push began (`PushFits`, `CallFits`); and a record the push is done with is on
the remote as the store had it, or somebody has written it since (`Settled`).
The proof has lemmas about the folds of the module, which become recursive functions
(`ApplyAllSteps`, `SelectingSelects`) that keep what no mutation names (`UnnamedStays`)
and lose what was removed (`RemovedIsGone`), and then one lemma for each action and each
part of the invariant that it can disturb.

Only model-checked:

- The liveness properties (`CallsSettle`, `MirrorConverges`, `Delivers`, `Drains`, `Settles`,
  `OwedIsStored`), which like ENABLED are outside the prover's reach.
- `StateWrites`, `YjsBinding` and `ReactRuntime`.  `StateGraphs` and what extends it,
  `ReactivePaths` and the Yjs modules walk graphs and trees with RECURSIVE operators, which
  the prover does not handle; what they compute for every input would need an induction
  over data of a depth no bound is known for.  Where a recursion is over the numbers up to a
  known one, as in `Without` and `Merge` of `SyncOutbox`, `Steps` of `History` and the folds of
  `CrudAdapter`, a recursive function and an induction with a set for the predicate
  (`Induction` in the modules of their proofs) do it.
- `LatestIsShown` of `CrudAdapter`.  It is about the base of the store, so it needs an invariant of what
  each request in flight knows of the base, on each kind of backend; and it is not true of every
  backend `SetupsAssumption` allows, as the table says of whole writes and lists of changes.

## 5. What is not modelled

Message codecs and the validation of messages (a message arrives whole or not), the
construction of stores (create.ts, getRawState*.ts, lifecycle.ts: property descriptors,
slices, middleware), `persistState: false` of `sync()`, its status values and delays, the
delays of timers in general (a timer may fire at any time), actions on a
mutable instance while nobody hears commits or inside an updater, the destruction of an
undo history and moves inside moves, wrapped middleware and prepare listeners of a commit,
failing and circular derived values, auto selectors, custom equality and the server
snapshot of the React binding, text and XML types of Yjs, `fetchAdapter.ts` and
`indexeddb.ts` (I/O), the other framework bindings and the logger (thin wrappers), and
what each state library does besides keeping a store.  `PROJECT.json` says it for
each component.

## 6. Plan

In order of importance; 1 to 11 exist.

1. `SharedMirror`, `MirroredHistory`, proofs.
2. `StoreCommits`, `CommitLog`, proofs.  Left: prepare listeners and wrapped middleware.
3. `SyncOutbox`, with proofs of its safety properties.
4. `MutableTransactions`, with proofs of its safety properties.
5. `StateGraphs`, `StatePatches`, `StateWrites` and `RebasePaths`.  Left: the edits a
   recipe makes through several aliases of one draft, and longer histories of replays.
6. `CrudAdapter`, with proofs of two of its safety properties.  Left: the composition with the whole of `SyncOutbox`, of which it has the
   outbox, the lane and the checkpoint; and the theorem of `LatestIsShown`, with what
   whole writes on a backend with lists of changes except.
7. `Persist`, with proofs of its safety properties.
8. `History`, `UndoTimeline`, with proofs of `TimelineIsShown` and of the refinement.  Left to
   model: destroy and moves inside moves.
9. `YjsBinding`.  Left: three stores, text types.
10. `ReactivePaths`, `ReactRuntime`.  Left: failing evaluations and auto selectors.
11. `ExternalStores`, with proofs of its safety properties.
12. The construction and destruction of stores, and the message codecs.
