------------------------------ MODULE Persist ------------------------------
(***************************************************************************)
(* A store kept in storage by persist() (packages/coaction-persist/src/    *)
(* index.ts): hydration, the queue of storage operations, and the flags    *)
(* that decide whether a change is stored, put off or ignored.  A program  *)
(* is started, destroyed, crashes and is started again on the same         *)
(* storage.                                                                *)
(*                                                                         *)
(* One step is one synchronous stretch of the program: a call, or what     *)
(* runs after an await.  A state of the store is the set of the writes it  *)
(* contains; write 0 is what storage held before.  The states of one store *)
(* differ in the keys written, so a merge keeps everything that was stored *)
(* and, of the store's own writes, those to other keys: any subset.        *)
(***************************************************************************)
EXTENDS Integers, Sequences

CONSTANTS
  MaxWrites,    \* bound: local writes
  MaxStarts,    \* bound: times a program is started
  MaxCalls,     \* bound: calls of rehydrate and clearStorage
  MaxFaults,    \* bound: faults
  Versions,     \* the versions a program may be configured with
  Faults,       \* what may go wrong
  UserCalls     \* what the application calls besides its own actions

ASSUME PersistAssumption ==
  /\ MaxWrites \in Nat
  /\ MaxStarts \in Nat
  /\ MaxCalls \in Nat
  /\ MaxFaults \in Nat
  /\ Versions \subseteq Nat \ {0}
  /\ Faults \subseteq {"crash", "read", "apply", "write", "throw", "overlap"}
  /\ UserCalls \subseteq {"rehydrate", "clear", "destroy"}

VARIABLES
  life,         \* of the program: "down", "up" or "destroyed"
  start,        \* the number of the program
  config,       \* what persist() was called with
  state,        \* the writes in the store
  hasHydrated,
  hydration,    \* where runRehydrate is
  raw,          \* what getItem has returned
  pending,      \* hasPendingPersist
  scheduled,    \* whether the microtask of line 312 has not run yet
  queue,        \* the operations behind writePromise, for each program
  stored,       \* storage: the item
  made,         \* number of local writes
  calls,        \* number of calls of rehydrate and clearStorage
  faults,       \* number of faults
  merged,       \* whether what storage held has been put into the store
  owed,         \* writes that persist has undertaken to store
  emptied       \* whether clearStorage was the last thing that was called

programVars == <<life, start, config>>
hydrationVars == <<hasHydrated, hydration, raw, scheduled>>
boundVars == <<calls, faults>>
ghostVars == <<merged, owed, emptied>>
vars == <<programVars, state, hydrationVars, pending, queue, stored, made,
          boundVars, ghostVars>>

Writes == 0..MaxWrites
Starts == 1..MaxStarts

\* A stored item: its version (0 when it has none), its state, and the
\* program that stored it.
Item == [version : Versions \cup {0}, writes : SUBSET Writes,
         by : Starts \cup {0}]
NoItem == [version |-> -1, writes |-> {}, by |-> 0]
Legacy == [version |-> 0, writes |-> {0}, by |-> 0]

\* An operation on storage, and the await of runRehydrate that waits for it.
Op == [kind : {"set", "remove"}, item : Item \cup {NoItem},
       waiter : {"none", "writeBack", "flush"}]

Config == [version : Versions, migrate : BOOLEAN, skip : BOOLEAN]

\* Where runRehydrate is while isHydrating is set; in "flush" it is not.
Hydrating == {"reading", "read", "migrating", "writeBack", "written"}

TypeOK ==
  /\ life \in {"down", "up", "destroyed"}
  /\ start \in Starts \cup {0}
  /\ config \in Config
  /\ state \in SUBSET Writes
  /\ hasHydrated \in BOOLEAN
  /\ hydration \in Hydrating \cup {"idle", "flush"}
  /\ raw \in Item \cup {NoItem}
  /\ pending \in BOOLEAN
  /\ scheduled \in BOOLEAN
  /\ queue \in [Starts -> Seq(Op)]
  /\ stored \in Item \cup {NoItem}
  /\ made \in Writes
  /\ calls \in 0..MaxCalls
  /\ faults \in 0..MaxFaults
  /\ merged \in BOOLEAN
  /\ owed \in SUBSET Writes
  /\ emptied \in BOOLEAN

Init ==
  /\ life = "down"
  /\ start = 0
  /\ config \in [version : Versions, migrate : {FALSE}, skip : {FALSE}]
  /\ state = {}
  /\ hasHydrated = FALSE
  /\ hydration = "idle"
  /\ raw = NoItem
  /\ pending = FALSE
  /\ scheduled = FALSE
  /\ queue = [i \in Starts |-> <<>>]
  /\ stored \in {NoItem, Legacy}
  /\ made = 0
  /\ calls = 0
  /\ faults = 0
  /\ merged = FALSE
  /\ owed = {}
  /\ emptied = FALSE

Fault(f) ==
  /\ f \in Faults
  /\ faults < MaxFaults
  /\ faults' = faults + 1

\* A call of the application, made while the store lives.
Call(c) ==
  /\ c \in UserCalls
  /\ calls < MaxCalls
  /\ calls' = calls + 1

\* No state of program i is queued for storage.
NoSets(i) == \A n \in DOMAIN queue[i] : queue[i][n].kind # "set"

QueuesEmpty == \A i \in Starts : queue[i] = <<>>

(***************************************************************************)
(* The queue of storage operations                                         *)
(***************************************************************************)

\* enqueuePersistWrite of what the store holds in content.
Enqueued(content, waiter) ==
  [queue EXCEPT ![start] =
     Append(@, [kind |-> "set",
                item |-> [version |-> config.version, writes |-> content,
                          by |-> start],
                waiter |-> waiter])]

\* Mutant: a store that has not read storage yet writes to it.
MutantPersistState(content) ==
  \/ /\ hydration \in Hydrating
     /\ UNCHANGED <<pending, queue>>
  \/ /\ hydration \notin Hydrating
     /\ queue' = Enqueued(content, "none")
     /\ UNCHANGED pending

\* persistState, for a store that holds content.
PersistState(content) ==
  \/ /\ hydration \in Hydrating
     /\ UNCHANGED <<pending, queue>>
  \/ /\ hydration \notin Hydrating
     /\ ~config.skip /\ ~hasHydrated
     /\ pending' = TRUE
     /\ UNCHANGED queue
  \/ /\ hydration \notin Hydrating
     /\ config.skip \/ hasHydrated
     /\ queue' = Enqueued(content, "none")
     /\ UNCHANGED pending

\* The await of runRehydrate that an operation of program i ends; a write-back
\* that failed is an error of the hydration, which sets hasHydrated as well.
Awaited(i, op) ==
  IF i # start \/ op.waiter = "none"
  THEN UNCHANGED hydration
  ELSE hydration' = IF op.waiter = "writeBack" THEN "written" ELSE "idle"

\* The operation at the head of a queue has reached storage, or failed, and
\* the next one is started; the queue of a destroyed program goes on.
OpSettled(i) ==
  /\ queue[i] # <<>>
  /\ i = start => ~scheduled
  /\ LET op == Head(queue[i]) IN
       /\ \/ stored' = op.item /\ UNCHANGED <<faults, emptied>>
          \/ Fault("write") /\ emptied' = FALSE /\ UNCHANGED stored
       /\ owed' = owed \ op.item.writes
       /\ Awaited(i, op)
       /\ hasHydrated' = (hasHydrated \/ (i = start /\ op.waiter = "writeBack"))
  /\ queue' = [queue EXCEPT ![i] = Tail(@)]
  /\ UNCHANGED <<programVars, state, raw, scheduled, pending, made, calls,
                 merged>>

\* Mutant: clearStorage does not wait for what is queued.
MutantClearStorage ==
  /\ life = "up"
  /\ Call("clear")
  /\ stored' = NoItem
  /\ emptied' = /\ config.skip \/ hasHydrated
                /\ hydration \notin Hydrating
  /\ UNCHANGED <<programVars, state, hydrationVars, pending, queue, made,
                 faults, merged, owed>>

\* clearStorage.  It is the last word when no hydration is under way and none
\* is to come.
ClearStorage ==
  /\ life = "up"
  /\ Call("clear")
  /\ queue' = [queue EXCEPT ![start] =
                 Append(@, [kind |-> "remove", item |-> NoItem,
                            waiter |-> "none"])]
  /\ emptied' = /\ config.skip \/ hasHydrated
                /\ hydration \notin Hydrating
  /\ UNCHANGED <<programVars, state, hydrationVars, pending, stored, made,
                 faults, merged, owed>>

(***************************************************************************)
(* Hydration                                                               *)
(***************************************************************************)

\* rehydrate: nothing happens when there is a hydrationPromise.
StartRehydrate ==
  /\ hydration = "idle"
  /\ ~NoSets(start) => "overlap" \in Faults
  /\ hydration' = "reading"
  /\ emptied' = FALSE

RunScheduled ==
  /\ scheduled
  /\ scheduled' = FALSE
  /\ IF life = "up" /\ hydration = "idle"
     THEN StartRehydrate
     ELSE UNCHANGED <<hydration, emptied>>
  /\ UNCHANGED <<programVars, state, hasHydrated, raw, pending, queue, stored,
                 made, boundVars, merged, owed>>

Rehydrate ==
  /\ life = "up"
  /\ Call("rehydrate")
  /\ StartRehydrate
  /\ UNCHANGED <<programVars, state, hasHydrated, raw, scheduled, pending,
                 queue, stored, made, faults, merged, owed>>

\* Storage answers getItem.
StorageReads ==
  /\ hydration = "reading"
  /\ hydration' = "read"
  /\ raw' = stored
  /\ UNCHANGED <<programVars, state, hasHydrated, scheduled, pending, queue,
                 stored, made, boundVars, ghostVars>>

\* Mutant: a change that was put off is stored only after a hydration that
\* found something.
MutantEndHydration(content) ==
  IF pending /\ life = "up" /\ raw # NoItem
  THEN /\ pending' = FALSE
       /\ queue' = Enqueued(content, "flush")
       /\ hydration' = "flush"
  ELSE /\ hydration' = "idle"
       /\ UNCHANGED <<pending, queue>>

\* The finally of runRehydrate, for a store that holds content.
EndHydration(content) ==
  IF pending /\ life = "up"
  THEN /\ pending' = FALSE
       /\ queue' = Enqueued(content, "flush")
       /\ hydration' = "flush"
  ELSE /\ hydration' = "idle"
       /\ UNCHANGED <<pending, queue>>

\* runRehydrate goes on after an await in which the store was not destroyed.
Resumed(at) ==
  /\ hydration \in at
  /\ ~scheduled
  /\ life = "up"

Mismatch == raw.version # 0 /\ raw.version # config.version

\* Storage is empty; or the item is of another version and there is no
\* migrate; or getItem, deserialize, migrate or merge fails.
HydrateNothing ==
  /\ Resumed({"read", "migrating"})
  /\ \/ hydration = "read" /\ raw = NoItem /\ merged' = TRUE /\ UNCHANGED faults
     \/ /\ hydration = "read" /\ raw # NoItem /\ Mismatch /\ ~config.migrate
        /\ UNCHANGED <<merged, faults>>
     \/ Fault("read") /\ UNCHANGED merged
  /\ hasHydrated' = TRUE
  /\ EndHydration(state)
  /\ UNCHANGED <<programVars, state, raw, scheduled, stored, made, calls, owed,
                 emptied>>

Migrate ==
  /\ Resumed({"read"})
  /\ raw # NoItem /\ Mismatch /\ config.migrate
  /\ hydration' = "migrating"
  /\ UNCHANGED <<programVars, state, hasHydrated, raw, scheduled, pending,
                 queue, stored, made, boundVars, ghostVars>>

ReadyToApply ==
  \/ Resumed({"read"}) /\ raw # NoItem /\ ~Mismatch
  \/ Resumed({"migrating"})

\* Mutant: what the store has wins.
MutantMerges == {state \cup kept : kept \in SUBSET raw.writes}

\* merge: what was stored, and what the store has under other keys.
Merges == {raw.writes \cup kept : kept \in SUBSET state}

\* applyHydratedState.  An item whose version is not the configured one is
\* then written back; an observer of the new state may have thrown, or have
\* destroyed the store, and then it is not.
HydrateApply ==
  /\ ReadyToApply
  /\ state' \in Merges
  /\ merged' = TRUE
  /\ \/ /\ raw.version # config.version
        /\ queue' = Enqueued(state', "writeBack")
        /\ hydration' = "writeBack"
        /\ UNCHANGED <<life, hasHydrated, pending, faults>>
     \/ /\ \/ raw.version = config.version /\ UNCHANGED faults
           \/ Fault("apply")
        /\ hasHydrated' = TRUE
        /\ EndHydration(state')
        /\ UNCHANGED life
     \/ /\ "destroy" \in UserCalls
        /\ life' = "destroyed"
        /\ hasHydrated' = TRUE
        /\ hydration' = "idle"
        /\ UNCHANGED <<pending, queue, faults>>
  /\ owed' = IF life' = "up" THEN owed \cap state' ELSE {}
  /\ UNCHANGED <<start, config, raw, scheduled, stored, made, calls, emptied>>

\* The write-back has settled.
HydrateWritten ==
  /\ hydration = "written"
  /\ EndHydration(state)
  /\ UNCHANGED <<programVars, state, hasHydrated, raw, scheduled, stored,
                 made, boundVars, ghostVars>>

\* runRehydrate finds the store destroyed after an await.
HydrateDropped ==
  /\ life = "destroyed"
  /\ hydration \in {"read", "migrating"}
  /\ hydration' = "idle"
  /\ UNCHANGED <<programVars, state, hasHydrated, raw, scheduled, pending,
                 queue, stored, made, boundVars, ghostVars>>

(***************************************************************************)
(* The application                                                         *)
(***************************************************************************)

\* A write, through store.setState or found by the subscription.  When a
\* subscriber throws in store.setState, the subscription of persist is muted
\* and persistAfterChange is not reached.
Write ==
  /\ life = "up"
  /\ made < MaxWrites
  /\ made' = made + 1
  /\ state' = state \cup {made'}
  /\ \/ /\ PersistState(state')
        /\ owed' = IF hydration \in Hydrating THEN owed ELSE owed \cup {made'}
        /\ UNCHANGED faults
     \/ Fault("throw") /\ UNCHANGED <<pending, queue, owed>>
  /\ emptied' = FALSE
  /\ UNCHANGED <<programVars, hydrationVars, stored, calls, merged>>

\* store.destroy: what is queued stays queued.
Destroy ==
  /\ life = "up"
  /\ "destroy" \in UserCalls
  /\ life' = "destroyed"
  /\ owed' = {w \in owed : \E n \in DOMAIN queue[start] :
                             w \in queue[start][n].item.writes}
  /\ UNCHANGED <<start, config, state, hydrationVars, pending, queue, stored,
                 made, boundVars, merged, emptied>>

\* A program starts; the queue of one that was destroyed is gone through,
\* unless operations may overlap.
Start ==
  /\ life # "up"
  /\ start < MaxStarts
  /\ ~QueuesEmpty => "overlap" \in Faults
  /\ life' = "up"
  /\ start' = start + 1
  /\ config' \in Config
  /\ state' = {}
  /\ hasHydrated' = FALSE
  /\ hydration' = "idle"
  /\ raw' = NoItem
  /\ pending' = FALSE
  /\ scheduled' = ~config'.skip
  /\ merged' = FALSE
  /\ emptied' = FALSE
  /\ UNCHANGED <<queue, stored, made, boundVars, owed>>

\* The process ends: nothing but storage is left.
Crash ==
  /\ life # "down"
  /\ Fault("crash")
  /\ life' = "down"
  /\ hydration' = "idle"
  /\ scheduled' = FALSE
  /\ queue' = [i \in Starts |-> <<>>]
  /\ owed' = {}
  /\ emptied' = FALSE
  /\ UNCHANGED <<start, config, state, hasHydrated, raw, pending, stored,
                 made, calls, merged>>

(***************************************************************************)
(* The specification                                                       *)
(***************************************************************************)

HydrationStep ==
  \/ RunScheduled
  \/ StorageReads
  \/ HydrateNothing
  \/ Migrate
  \/ HydrateApply
  \/ HydrateWritten
  \/ HydrateDropped

Next ==
  \/ \E i \in Starts : OpSettled(i)
  \/ HydrationStep
  \/ ClearStorage
  \/ Rehydrate
  \/ Write
  \/ Destroy
  \/ Start
  \/ Crash

Spec == Init /\ [][Next]_vars

\* Promise jobs run, and storage answers what it is asked.
FairSpec ==
  /\ Spec
  /\ WF_vars(HydrationStep)
  /\ \A i \in Starts : WF_vars(OpSettled(i))

(***************************************************************************)
(* Properties                                                              *)
(***************************************************************************)

\* Storage holds nothing that the store does not show, once the store has
\* taken what was stored or has stored something itself: a later write of
\* the whole state (persistState) then loses nothing.
StoredIsShown ==
  life = "up" /\ (merged \/ stored.by = start) => stored.writes \subseteq state

\* What a program finds in storage is not overwritten before the program has
\* tried to read it, and not by a state without it once that has succeeded
\* (the guards of persistState and the order of the queue).
StoredStaysStored ==
  [][\/ stored.writes \subseteq stored'.writes
     \/ stored' = NoItem
     \/ hasHydrated /\ ~merged
     \/ config.skip /\ ~merged]_vars

\* After clearStorage storage ends up empty, when nothing was written and
\* nothing hydrated since, whatever was queued before it.
ClearedStaysCleared ==
  emptied /\ QueuesEmpty => stored = NoItem

\* A write made while no hydration is under way is stored in the end, even
\* when it had to wait for hydration and that failed, unless its own storage
\* operation fails, a merge overrides it, or the process ends; a destroyed
\* store still stores what is queued.
OwedIsStored ==
  \A w \in Writes : w \in owed ~> w \notin owed

=============================================================================
