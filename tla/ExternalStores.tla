---------------------------- MODULE ExternalStores ----------------------------
(***************************************************************************)
(* A Coaction store bound to the store of another state library.           *)
(*                                                                         *)
(* MobX, Valtio and Pinia keep the state: Coaction reads through to the    *)
(* library's object, writes into it through internal.externalApply, and    *)
(* learns of what others wrote from a notification that comes when a       *)
(* transaction closes (MobX) or in a later microtask (Valtio, Pinia).      *)
(* Zustand, Redux, Jotai and XState hold a second copy: Coaction commits   *)
(* to its own root state and hands it on through internal.updateImmutable. *)
(*                                                                         *)
(* Either way two writers share one state.  What the binding promises is   *)
(* that the commits it publishes lead where the state is, that the two     *)
(* copies agree, that a refused value does not stay, and that subscribers  *)
(* are called.  A state is a function from its keys to values; one value   *)
(* stands for what the schema, the transport or a validator refuses.       *)
(***************************************************************************)
EXTENDS Naturals

CONSTANTS
  Keys,        \* the keys of the bound state
  Values,      \* what a key can hold
  Refusable,   \* the value that validation refuses
  First,       \* the value every key holds at first
  Setups,      \* the combinations of binding and store (MCSetups)
  MaxWrites    \* bound: writes by anyone

ASSUME ExternalAssumption ==
  /\ Refusable \in Values /\ First \in Values \ {Refusable}
  /\ MaxWrites \in Nat

(* A Redux binding is refused to a client. *)
ASSUME SetupsAssumption ==
  Setups \subseteq
    {s \in [kind : {"mobx", "valtio", "pinia", "zustand", "redux", "jotai", "xstate"},
            share : {"none", "main", "client"}, validated : BOOLEAN] :
       s.share = "client" => s.kind # "redux"}

VARIABLES
  setup,     \* [kind, share, validated]: the library, the role of the store, and
             \* whether commit listeners and validators are registered
  runtime,   \* what the library's store holds
  root,      \* internal.rootState of a binding that holds a second copy
  last,      \* lastSnapshot: the state a reading-through binding last settled on
  pending,   \* the library owes the binding a notification
  dirty,     \* keys others wrote since the binding last looked
  astray,    \* keys written where the binding is known not to pass them on
  told,      \* the first state and every published patch; on a client, what main sent
  heard,     \* the state at the latest call of a subscriber
  alive,     \* store.destroy() has not run
  writes     \* writes so far, for MaxWrites

vars == <<setup, runtime, root, last, pending, dirty, astray, told, heard, alive,
          writes>>

States == [Keys -> Values]
Refused(state) == \E k \in Keys : state[k] = Refusable

(* The libraries Coaction reads through, and those of them that notify in a
   later microtask. *)
ReadThrough == {"mobx", "valtio", "pinia"}
Deferred == {"valtio", "pinia"}

Main == setup.share = "main"
Client == setup.share = "client"
Reading == setup.kind \in ReadThrough
(* A client's actor is neither written nor listened to. *)
Detached == Client /\ setup.kind = "xstate"

(* Somebody reads the patches: a transport, or a commit listener. *)
Observing == Main \/ setup.validated
(* Validation sees the next state of a binding that holds a copy. *)
Checked == Main \/ setup.validated

Shown == IF Reading THEN runtime ELSE root
AtRest == alive /\ ~pending

(* What changed from one state to the next, key by key, and its application; the
   patch of one key. *)
Diff(from, to) == [k \in {j \in Keys : from[j] # to[j]} |-> to[k]]
Patched(state, patch) ==
  [k \in Keys |-> IF k \in DOMAIN patch THEN patch[k] ELSE state[k]]
Single(k, v) == [j \in {k} |-> v]
IsEqualSnapshot(left, right) == \A k \in Keys : left[k] = right[k]

Wrote == writes < MaxWrites /\ writes' = writes + 1

(* The binding is made and the store is ready: both copies are the library's
   state, and that is what is shown and what a new client is sent. *)
Init ==
  /\ setup \in Setups
  /\ runtime = [k \in Keys |-> First]
  /\ root = runtime /\ last = runtime /\ told = runtime /\ heard = runtime
  /\ pending = FALSE /\ dirty = {} /\ astray = {}
  /\ alive = TRUE /\ writes = 0

(* The patches of one transition reach the transport and the commit listeners. *)
Publish(patch) == told' = IF Observing \/ Client THEN Patched(told, patch) ELSE told

-----------------------------------------------------------------------------
(* Libraries Coaction reads through: MobX, Valtio, Pinia. *)

(* The library's object is rewritten key by key. *)
ReplaceMutableState(source) == runtime' = source /\ dirty' = {}

(* Code that hears of a write at once -- a MobX reaction as the transaction closes,
   a synchronous watcher of Valtio or Pinia -- may write one more key, of any
   value, while the flag that marks Coaction's own write is up. *)
Reactions(source) ==
  {Diff(source, source)} \cup
    (IF source = runtime \/ (setup.kind = "mobx" /\ pending) THEN {}
     ELSE UNION {{Single(k, v) : v \in Values \ {source[k]}} : k \in Keys})

(* Mutant: the object is left as it is. *)
MutantRestoreClientState(owed) ==
  UNCHANGED <<runtime, last, told, heard, astray>> /\ pending' = FALSE /\ dirty' = {}

(* Put the library's object back to the snapshot the binding last settled on. *)
RestoreClientState(owed) ==
  \E extra \in Reactions(last) :
    /\ ReplaceMutableState(Patched(last, extra))
    /\ last' = runtime'
    /\ astray' = astray \cup DOMAIN extra
    /\ pending' = owed
    /\ UNCHANGED <<told, heard>>

(* A library that notifies late will notify of what is rewritten. *)
NotifiedLater == pending \/ setup.kind \in Deferred

(* internal.externalApply accepts the state: the object is rewritten with the flag
   up, and whatever it then holds becomes the snapshot -- what others wrote and the
   library has not yet told, and what a reaction adds, included.  Subscribers hear
   when the library notifies. *)
Rewritten(next, patch) ==
  \E extra \in Reactions(next) :
    /\ ReplaceMutableState(Patched(next, extra))
    /\ last' = runtime'
    /\ astray' = ((astray \cup dirty) \ DOMAIN patch) \cup DOMAIN extra
    /\ pending' = NotifiedLater
    /\ heard' = IF pending' THEN heard ELSE runtime'
    /\ Publish(patch)

ValtioApply(next, patch) == setup.kind = "valtio" /\ Rewritten(next, patch)

PiniaApply(next, patch) == setup.kind = "pinia" /\ Rewritten(next, patch)

(* MobX closes its transaction inside, so that its subscribers hear at once, unless
   the write happens inside a transaction of the caller.  *)
MobxApply(next, patch) == setup.kind = "mobx" /\ Rewritten(next, patch)

ExternalApply(next, patch) ==
  MobxApply(next, patch) \/ ValtioApply(next, patch) \/ PiniaApply(next, patch)

(* store.apply() and a method of the library's object, where somebody observes:
   the pair is worked out against the object as it is, commit validators see it
   first, a shared store validates inside externalApply and puts the snapshot
   back when it refuses. *)
ApplyThroughExternalRuntime(next) ==
  LET patch == Diff(runtime, next) IN
  /\ ~(setup.validated /\ DOMAIN patch # {} /\ Refused(next))
  /\ IF Main /\ Refused(next)
       THEN RestoreClientState(NotifiedLater)
       ELSE ExternalApply(next, patch)

(* setState() publishes its own commit, so the writer above is called as if nobody
   observed: a shared store has validated the object and the patches, a commit
   validator is not asked. *)
SetState(next) ==
  LET patch == Diff(runtime, next) IN
  /\ DOMAIN patch # {}
  /\ ~(Main /\ (Refused(runtime) \/ Refused(next)))
  /\ ExternalApply(next, patch)

(* Without patches an action and setState() write on the object itself, as any
   other code does, and the library notifies of it. *)
DirectWrite(k, v) ==
  /\ v # runtime[k]
  /\ runtime' = [runtime EXCEPT ![k] = v]
  /\ dirty' = dirty \cup {k}
  /\ pending' = TRUE
  /\ UNCHANGED <<last, astray, told, heard>>

(* One write of a key through Coaction. *)
WriteThrough ==
  /\ Reading /\ alive /\ ~Client /\ Wrote
  /\ \E k \in Keys, v \in Values :
       LET next == [runtime EXCEPT ![k] = v] IN
       IF Observing THEN SetState(next) \/ ApplyThroughExternalRuntime(next)
                    ELSE DirectWrite(k, v)
  /\ UNCHANGED <<setup, root, alive>>

(* A replacement of the whole state, on a store that may be applied to. *)
ReplaceThrough ==
  /\ Reading /\ alive /\ ~Client /\ Wrote
  /\ \E next \in States : ApplyThroughExternalRuntime(next)
  /\ UNCHANGED <<setup, root, alive>>

(* Code that knows nothing of Coaction writes on the object.  A MobX transaction
   of that code stays open until the notification. *)
ObjectWrite ==
  /\ Reading /\ Wrote
  /\ \E k \in Keys, v \in Values : DirectWrite(k, v)
  /\ UNCHANGED <<setup, root, alive>>

(* Main sends an update or a snapshot.  Messages are handled outside a MobX
   transaction; a client whose object holds a refused value rolls the update back
   and asks again. *)
ReceiveThrough ==
  /\ Reading /\ Client /\ alive /\ Wrote
  /\ setup.kind = "mobx" => ~pending
  /\ \/ \E k \in Keys, v \in Values \ {Refusable} :
          LET next == [runtime EXCEPT ![k] = v] IN
          IF Refused(next) THEN RestoreClientState(NotifiedLater)
                           ELSE ExternalApply(next, Single(k, v))
     \/ \E next \in [Keys -> Values \ {Refusable}] : ExternalApply(next, next)
  /\ UNCHANGED <<setup, root, alive>>

(* The library notifies.  On a client anything others wrote is undone, and nobody
   is told; the undoing is notified of in turn. *)
SyncClientChange ==
  /\ Client
  /\ IF IsEqualSnapshot(runtime, last)
       THEN /\ pending' = FALSE /\ dirty' = {}
            /\ UNCHANGED <<runtime, last, told, heard, astray>>
       ELSE RestoreClientState(TRUE)

(* Mutant: the commit is worked out against the object, which has changed already. *)
MutantSyncMainChange ==
  /\ Main
  /\ IF Refused(runtime)
       THEN RestoreClientState(runtime # last)
       ELSE LET patch == Diff(runtime, runtime) IN
            /\ Publish(patch)
            /\ astray' = astray \ DOMAIN patch
            /\ last' = runtime /\ heard' = runtime
            /\ dirty' = {} /\ pending' = FALSE
            /\ UNCHANGED runtime

(* On a main store what others wrote since the snapshot becomes a commit, with the
   snapshot for its previous state; refused, it is undone, which the library
   notifies of when it changes something. *)
SyncMainChange ==
  /\ Main
  /\ IF Refused(runtime)
       THEN RestoreClientState(runtime # last)
       ELSE LET patch == Diff(last, runtime) IN
            /\ Publish(patch)
            /\ astray' = astray \ DOMAIN patch
            /\ last' = runtime /\ heard' = runtime
            /\ dirty' = {} /\ pending' = FALSE
            /\ UNCHANGED runtime

(* Mutant: subscribers are not called. *)
MutantSyncLocalChange ==
  /\ ~Client /\ ~Main
  /\ last' = runtime /\ heard' = heard
  /\ astray' = astray \cup dirty
  /\ dirty' = {} /\ pending' = FALSE
  /\ UNCHANGED <<runtime, told>>

(* On a local store it is accepted as it is: subscribers are called, no commit says
   so, and no validator is asked. *)
SyncLocalChange ==
  /\ ~Client /\ ~Main
  /\ last' = runtime /\ heard' = runtime
  /\ astray' = astray \cup dirty
  /\ dirty' = {} /\ pending' = FALSE
  /\ UNCHANGED <<runtime, told>>

SyncSharedExternalChange ==
  /\ Reading /\ alive /\ pending
  /\ SyncClientChange \/ SyncMainChange \/ SyncLocalChange
  /\ UNCHANGED <<setup, root, alive, writes>>

(* The transaction that wrote closes and the autorun runs. *)
MobxAutorun == setup.kind = "mobx" /\ SyncSharedExternalChange

(* The microtask of proxy.subscribe(), and of $subscribe(). *)
ValtioSubscription == setup.kind = "valtio" /\ SyncSharedExternalChange

PiniaSubscription == setup.kind = "pinia" /\ SyncSharedExternalChange

-----------------------------------------------------------------------------
(* Libraries that hold a second copy: Zustand, Redux, Jotai, XState. *)

(* The committed state is written into the library's store with the binding's flag
   up.  A subscriber of that store may write again before the flag is down: the
   binding takes it for Coaction's own. *)
HandedOn(next) ==
  \/ runtime' = next /\ astray' = {}
  \/ \E k \in Keys, v \in Values :
       /\ v # next[k]
       /\ runtime' = [next EXCEPT ![k] = v]
       /\ astray' = {k}

(* internal.updateImmutable of each library: setState() with the functions of the
   store kept, a replace action for the reducer, every atom in turn. *)
ZustandUpdate(next) == setup.kind = "zustand" /\ HandedOn(next)

ReduxUpdate(next) == setup.kind = "redux" /\ HandedOn(next)

JotaiUpdate(next) == setup.kind = "jotai" /\ HandedOn(next)

UpdateImmutable(next) ==
  ZustandUpdate(next) \/ ReduxUpdate(next) \/ JotaiUpdate(next)

(* The commit: the root state is replaced, its patches are published, subscribers
   are called. *)
CommitCopy(next) ==
  /\ root' = next
  /\ heard' = next
  /\ Publish(Diff(root, next))

(* Coaction writes: setState(), store.apply() and the library's own setter.  An
   XState binding refuses them all: its state moves by sending the actor events. *)
CopyWrite ==
  /\ ~Reading /\ setup.kind # "xstate" /\ alive /\ ~Client /\ Wrote
  /\ \E next \in States :
       /\ ~(Checked /\ Refused(next))
       /\ CommitCopy(next)
       /\ UpdateImmutable(next)
  /\ UNCHANGED <<setup, last, pending, dirty, alive>>

(* replaceExternalStoreState: the library's state becomes the root state, without
   being written back.  Refused, it throws at whoever wrote: the library's store is
   left ahead. *)
ReplaceExternalStoreState(next, k) ==
  IF Checked /\ Refused(next)
    THEN /\ astray' = astray \cup {k}
         /\ UNCHANGED <<root, told, heard>>
    ELSE CommitCopy(next) /\ astray' = {}

(* Other code writes the library's store of this kind. *)
StoreWrite(kind) ==
  setup.kind = kind /\ Wrote /\ UNCHANGED <<setup, last, pending, dirty, alive>>

(* A store whose binding is gone, and a client's actor. *)
Unheard(next) ==
  /\ ~alive \/ Detached
  /\ runtime' = next
  /\ UNCHANGED <<root, told, heard, astray>>

(* A client's store is put back to what Coaction holds, and the writer gets an
   error. *)
ZustandRestore ==
  runtime' = root /\ astray' = {} /\ UNCHANGED <<root, told, heard>>

Accepted(next, k) ==
  alive /\ runtime' = next /\ ReplaceExternalStoreState(next, k)

HeardByClient(next, k) ==
  IF Client THEN alive /\ ZustandRestore ELSE Accepted(next, k)

(* The library calls the binding with each key that is written. *)
Written(k, v) == [runtime EXCEPT ![k] = v]

ZustandSubscription ==
  /\ StoreWrite("zustand")
  /\ \E k \in Keys, v \in Values :
       Unheard(Written(k, v)) \/ HeardByClient(Written(k, v), k)

JotaiSubscription ==
  /\ StoreWrite("jotai")
  /\ \E k \in Keys, v \in Values :
       Unheard(Written(k, v)) \/ HeardByClient(Written(k, v), k)

(* A Redux store is never a client's. *)
ReduxSubscription ==
  /\ StoreWrite("redux")
  /\ \E k \in Keys, v \in Values :
       Unheard(Written(k, v)) \/ Accepted(Written(k, v), k)

(* Nobody listens to a client's actor. *)
XStateSubscription ==
  /\ StoreWrite("xstate")
  /\ \E k \in Keys, v \in Values :
       Unheard(Written(k, v)) \/ (~Client /\ Accepted(Written(k, v), k))

(* Main sends an update or a snapshot; no writer hands it on to a client's actor. *)
ReceiveCopy ==
  /\ ~Reading /\ Client /\ alive /\ Wrote
  /\ \E next \in [Keys -> Values \ {Refusable}] :
       CommitCopy(next) /\ (IF Detached THEN UNCHANGED <<runtime, astray>>
                                        ELSE UpdateImmutable(next))
  /\ UNCHANGED <<setup, last, pending, dirty, alive>>

-----------------------------------------------------------------------------
(* The binding's destroy() removes its subscription and every subscriber. *)
Destroy ==
  /\ alive /\ alive' = FALSE
  /\ UNCHANGED <<setup, runtime, root, last, pending, dirty, astray, told, heard,
                 writes>>

Next ==
  \/ WriteThrough \/ ReplaceThrough \/ ObjectWrite \/ ReceiveThrough
  \/ MobxAutorun \/ ValtioSubscription \/ PiniaSubscription
  \/ CopyWrite \/ ReceiveCopy
  \/ ZustandSubscription \/ JotaiSubscription \/ ReduxSubscription
  \/ XStateSubscription
  \/ Destroy

Spec == Init /\ [][Next]_vars

-----------------------------------------------------------------------------
(* The commits a store publishes lead where its state is, and a client shows what
   main sent: from the first state and every patch since, an observer rebuilds the
   state shown at rest -- except at keys written on a read-through object while
   the binding could not tell them from its own write.  And the two copies agree
   wherever nobody wrote behind the binding: whatever a client's store is written,
   whoever writes first, and after any refusal once the next write is accepted.
   A client's XState actor is left alone, and is no second copy. *)
CommitsLeadToState ==
  /\ AtRest /\ (Observing \/ Client) =>
       \A k \in Keys \ (IF Reading THEN astray ELSE {}) : told[k] = Shown[k]
  /\ alive /\ ~Reading /\ ~Detached => \A k \in Keys \ astray : runtime[k] = root[k]

(* A refused value does not stay: at rest a shared store and a validated second
   copy show only what validation accepts -- except at keys that a reaction wrote
   in the middle of Coaction's own write, which nobody validates. *)
RefusedNeverStays ==
  AtRest /\ (Main \/ Client \/ (Checked /\ ~Reading)) =>
    \A k \in Keys \ (IF Reading THEN astray ELSE {}) : Shown[k] # Refusable

(* Subscribers have been called with the state shown at rest -- except on a client
   of a library that notifies late, which takes main's writes for its own, and on a
   main store where a reaction's refused value stays: every notification of such a
   state is ignored. *)
SubscribersHear ==
  AtRest /\ ~(Client /\ setup.kind \in Deferred) /\ ~(Main /\ Refused(Shown)) =>
    heard = Shown
=============================================================================
