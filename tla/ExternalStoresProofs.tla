------------------------- MODULE ExternalStoresProofs -------------------------
(***************************************************************************)
(* Proofs about ExternalStores for every set of keys and values, every     *)
(* library and every role of the store.                                    *)
(***************************************************************************)
EXTENDS ExternalStores, TLAPS

USE ExternalAssumption, SetupsAssumption

Kinds == {"mobx", "valtio", "pinia", "zustand", "redux", "jotai", "xstate"}

TypeOK ==
  /\ setup \in Setups
  /\ runtime \in States /\ root \in States /\ last \in States
  /\ told \in States /\ heard \in States
  /\ pending \in BOOLEAN /\ alive \in BOOLEAN
  /\ dirty \subseteq Keys /\ astray \subseteq Keys

\* A binding that reads through: the object differs from the snapshot only at
\* keys the library still has to tell of, and what was published leads to the
\* snapshot, not to the object.  What validation refuses is in the snapshot only
\* where a reaction put it, and such a snapshot is notified of to nobody.
Settled ==
  /\ \A k \in Keys \ dirty : runtime[k] = last[k]
  /\ ~pending => dirty = {}
  /\ Observing \/ Client => \A k \in Keys \ astray : told[k] = last[k]
  /\ Main \/ Client => \A k \in Keys \ astray : last[k] # Refusable
  /\ ~Client /\ ~pending /\ ~(Main /\ Refused(last)) => heard = last
  /\ Client /\ setup.kind \notin Deferred => heard = last

\* A binding that holds a copy: everything but the library's store follows the
\* root state, which never holds what validation refuses.
Copied ==
  /\ ~pending
  /\ alive /\ ~Detached => \A k \in Keys \ astray : runtime[k] = root[k]
  /\ Observing \/ Client => told = root
  /\ Checked \/ Client => ~Refused(root)
  /\ heard = root

BindingInvariant ==
  /\ TypeOK
  /\ Reading => Settled
  /\ ~Reading => Copied

-----------------------------------------------------------------------------
(* Patches.                                                                *)

LEMMA PatchFacts ==
  ASSUME NEW s \in States, NEW next \in States, NEW patch,
         \A k \in DOMAIN patch : k \in Keys /\ patch[k] = next[k]
  PROVE  /\ Patched(s, patch) \in States
         /\ \A k \in Keys : Patched(s, patch)[k] = IF k \in DOMAIN patch THEN next[k] ELSE s[k]
BY DEF Patched, States

LEMMA DiffFacts ==
  ASSUME NEW from \in States, NEW to \in States
  PROVE  /\ DOMAIN Diff(from, to) = {k \in Keys : from[k] # to[k]}
         /\ \A k \in DOMAIN Diff(from, to) : k \in Keys /\ Diff(from, to)[k] = to[k]
BY DEF Diff, States

\* The commit of a transition, applied to what it starts from.
LEMMA DiffLeads ==
  ASSUME NEW from \in States, NEW to \in States
  PROVE  Patched(from, Diff(from, to)) = to
<1>1. PICK patch : patch = Diff(from, to)
  OBVIOUS
<1>2. /\ DOMAIN patch = {k \in Keys : from[k] # to[k]}
      /\ \A k \in DOMAIN patch : k \in Keys /\ patch[k] = to[k]
  BY <1>1, DiffFacts
<1>3. PICK s : s = Patched(from, patch)
  OBVIOUS
<1>4. s \in States /\ \A k \in Keys : s[k] = to[k]
  BY <1>2, <1>3, PatchFacts
<1>. QED  BY <1>1, <1>3, <1>4 DEF States

\* The patch leads from the object to what is written.
Fits(patch, next) ==
  /\ \A k \in DOMAIN patch : k \in Keys /\ patch[k] = next[k]
  /\ \A k \in Keys \ DOMAIN patch : next[k] = runtime[k]

LEMMA DiffFits ==
  ASSUME runtime \in States, NEW next \in States
  PROVE  Fits(Diff(runtime, next), next)
<1>1. PICK patch : patch = Diff(runtime, next)
  OBVIOUS
<1>2. /\ DOMAIN patch = {k \in Keys : runtime[k] # next[k]}
      /\ \A k \in DOMAIN patch : k \in Keys /\ patch[k] = next[k]
  BY <1>1, DiffFacts
<1>3. \A k \in Keys \ DOMAIN patch : next[k] = runtime[k]
  BY <1>2
<1>. QED  BY <1>1, <1>2, <1>3 DEF Fits

LEMMA OneFits ==
  ASSUME runtime \in States, NEW k \in Keys, NEW v \in Values,
         NEW next, next = [runtime EXCEPT ![k] = v]
  PROVE  next \in States /\ Fits(Single(k, v), next)
BY DEF Fits, States, Single

LEMMA AllFits ==
  ASSUME NEW next \in States
  PROVE  Fits(next, next)
BY DEF Fits, States

LEMMA PublishFacts ==
  ASSUME TypeOK, NEW next \in States, NEW patch, Publish(patch),
         \A k \in DOMAIN patch : k \in Keys /\ patch[k] = next[k]
  PROVE  /\ told' \in States
         /\ Observing \/ Client =>
              \A k \in Keys : told'[k] = IF k \in DOMAIN patch THEN next[k] ELSE told[k]
BY PatchFacts DEF Publish, TypeOK

-----------------------------------------------------------------------------
(* Libraries Coaction reads through.                                       *)

\* What a reaction adds to a state: one key at most, and none to the state that
\* the object has already.
LEMMA ReactionFacts ==
  ASSUME NEW source \in States, NEW extra \in Reactions(source)
  PROVE  /\ Patched(source, extra) \in States /\ DOMAIN extra \subseteq Keys
         /\ \A k \in Keys \ DOMAIN extra : Patched(source, extra)[k] = source[k]
         /\ source = runtime \/ (setup.kind = "mobx" /\ pending)
              => Patched(source, extra) = source
<1>1. \/ DOMAIN extra = {}
      \/ /\ ~(source = runtime \/ (setup.kind = "mobx" /\ pending))
         /\ \E k \in Keys, v \in Values : extra = Single(k, v)
  <2>1. CASE extra = Diff(source, source)
    <3>1. DOMAIN Diff(source, source) = {k \in Keys : source[k] # source[k]}
      BY ONLY DiffFacts, source \in States
    <3>. QED  BY <2>1, <3>1
  <2>2. CASE extra # Diff(source, source)
    BY <2>2 DEF Reactions
  <2>. QED  BY <2>1, <2>2
<1>2. CASE DOMAIN extra = {}
  <2>1. Patched(source, extra) = source
    BY <1>2 DEF Patched, States
  <2>. QED  BY <1>2, <2>1
<1>3. CASE /\ ~(source = runtime \/ (setup.kind = "mobx" /\ pending))
           /\ \E k \in Keys, v \in Values : extra = Single(k, v)
  <2>1. PICK k \in Keys, v \in Values : extra = Single(k, v)
    BY <1>3
  <2>2. DOMAIN extra = {k} /\ extra[k] = v
    BY <2>1 DEF Single
  <2>3. /\ Patched(source, extra) \in States
        /\ \A j \in Keys \ DOMAIN extra : Patched(source, extra)[j] = source[j]
    BY <2>2 DEF Patched, States
  <2>. QED  BY <1>3, <2>2, <2>3
<1>. QED  BY <1>1, <1>2, <1>3

LEMMA RestoreKeeps ==
  ASSUME BindingInvariant, Reading, NEW owed \in BOOLEAN, RestoreClientState(owed),
         UNCHANGED <<setup, root, alive>>,
         ~owed => runtime = last /\ ((Main /\ Refused(last)) \/ ~pending)
  PROVE  BindingInvariant'
<1>1. TypeOK /\ Settled
  BY DEF BindingInvariant
<1>2. PICK extra \in Reactions(last) :
        /\ runtime' = Patched(last, extra) /\ dirty' = {} /\ last' = runtime'
        /\ astray' = astray \cup DOMAIN extra
        /\ pending' = owed
        /\ UNCHANGED <<told, heard>>
  BY DEF RestoreClientState, ReplaceMutableState
<1>3. /\ runtime' \in States /\ DOMAIN extra \subseteq Keys
      /\ \A k \in Keys \ DOMAIN extra : last'[k] = last[k]
      /\ last = runtime \/ (setup.kind = "mobx" /\ pending) => last' = last
  BY <1>1, <1>2, ReactionFacts DEF TypeOK
<1>4. TypeOK'
  BY <1>1, <1>2, <1>3 DEF TypeOK
<1>5. ~Client /\ ~pending' /\ ~(Main /\ Refused(last)) => heard' = last'
  BY <1>1, <1>2, <1>3 DEF Settled
<1>6. Client /\ setup.kind \notin Deferred => heard' = last'
  <2>1. SUFFICES ASSUME Client, setup.kind \notin Deferred PROVE last' = last
    BY <1>1, <1>2, <2>1 DEF Settled
  <2>2. setup.kind = "mobx"
    BY <2>1 DEF Reading, ReadThrough, Deferred
  <2>3. ~pending => runtime = last
    BY <1>1 DEF Settled, TypeOK, States
  <2>. QED  BY <1>3, <2>2, <2>3
<1>7. ~pending' => last' = last
  BY <1>2, <1>3
<1>8. Settled'
  BY <1>1, <1>2, <1>3, <1>5, <1>6, <1>7 DEF Settled, Observing, Client, Main, Refused
<1>. QED  BY <1>2, <1>4, <1>8 DEF BindingInvariant, Reading

\* What an externalApply that refuses still owes.
LEMMA OwedFacts ==
  ASSUME BindingInvariant, Reading
  PROVE  /\ NotifiedLater \in BOOLEAN
         /\ ~NotifiedLater => runtime = last /\ ~pending
<1>1. TypeOK /\ Settled
  BY DEF BindingInvariant
<1>2. NotifiedLater \in BOOLEAN
  BY <1>1, Zenon DEF NotifiedLater, TypeOK
<1>3. ~NotifiedLater => ~pending
  BY Zenon DEF NotifiedLater
<1>4. ~pending => runtime = last
  BY <1>1 DEF Settled, TypeOK, States
<1>. QED  BY <1>2, <1>3, <1>4

LEMMA RewriteKeeps ==
  ASSUME BindingInvariant, Reading, NEW next \in States, NEW patch, Fits(patch, next),
         ExternalApply(next, patch), UNCHANGED <<setup, root, alive>>,
         Main \/ Client => ~Refused(next),
         Client /\ setup.kind = "mobx" => ~pending
  PROVE  BindingInvariant'
<1>1. TypeOK /\ Settled
  BY DEF BindingInvariant
<1>2. Rewritten(next, patch) /\ setup.kind \in ReadThrough
  BY DEF ExternalApply, MobxApply, ValtioApply, PiniaApply, ReadThrough
<1>3. PICK extra \in Reactions(next) :
        /\ runtime' = Patched(next, extra) /\ dirty' = {} /\ last' = runtime'
        /\ pending' = NotifiedLater
        /\ astray' = ((astray \cup dirty) \ DOMAIN patch) \cup DOMAIN extra
        /\ heard' = IF pending' THEN heard ELSE runtime'
        /\ Publish(patch)
  BY <1>2 DEF Rewritten, ReplaceMutableState
<1>4. /\ told' \in States
      /\ Observing \/ Client =>
           \A k \in Keys : told'[k] = IF k \in DOMAIN patch THEN next[k] ELSE told[k]
  BY <1>1, <1>3, PublishFacts DEF Fits
<1>5. /\ runtime' \in States /\ DOMAIN extra \subseteq Keys
      /\ \A k \in Keys \ DOMAIN extra : last'[k] = next[k]
  BY <1>3, ReactionFacts
<1>6. pending' \in BOOLEAN
  BY <1>3, OwedFacts
<1>7. TypeOK'
  BY <1>1, <1>3, <1>4, <1>5, <1>6 DEF TypeOK
<1>8. Observing \/ Client => \A k \in Keys \ astray' : told'[k] = last'[k]
  BY <1>1, <1>3, <1>4, <1>5 DEF Settled, Fits
<1>9. ~pending' => heard' = last'
  BY <1>3
<1>10. Client /\ setup.kind \notin Deferred => heard' = last'
  <2>1. SUFFICES ASSUME Client, setup.kind \notin Deferred PROVE ~pending'
    BY <1>9
  <2>2. setup.kind = "mobx"
    BY <1>2, <2>1 DEF ReadThrough, Deferred
  <2>. QED  BY <1>3, <2>1, <2>2, Zenon DEF NotifiedLater
<1>11. Main \/ Client => \A k \in Keys \ astray' : last'[k] # Refusable
  BY <1>3, <1>5 DEF Refused
<1>12. Settled'
  BY <1>3, <1>8, <1>9, <1>10, <1>11 DEF Settled, Observing, Client, Main, Refused
<1>. QED  BY <1>7, <1>12 DEF BindingInvariant, Reading

LEMMA ApplyKeeps ==
  ASSUME BindingInvariant, Reading, ~Client, NEW next \in States,
         ApplyThroughExternalRuntime(next) \/ SetState(next), UNCHANGED <<setup, root, alive>>
  PROVE  BindingInvariant'
<1>1. PICK patch : patch = Diff(runtime, next)
  OBVIOUS
<1>2. Fits(patch, next)
  BY <1>1, DiffFits DEF BindingInvariant, TypeOK
<1>3. \/ RestoreClientState(NotifiedLater)
      \/ ~(Main /\ Refused(next)) /\ ExternalApply(next, patch)
  BY <1>1 DEF ApplyThroughExternalRuntime, SetState
<1>. QED  BY <1>2, <1>3, OwedFacts, RestoreKeeps, RewriteKeeps

LEMMA DirectWriteKeeps ==
  ASSUME BindingInvariant, Reading, NEW k \in Keys, NEW v \in Values, DirectWrite(k, v),
         UNCHANGED <<setup, root, alive>>
  PROVE  BindingInvariant'
<1>1. TypeOK /\ Settled
  BY DEF BindingInvariant
<1>2. /\ runtime' = [runtime EXCEPT ![k] = v]
      /\ dirty' = dirty \cup {k} /\ pending' = TRUE
      /\ UNCHANGED <<last, astray, told, heard>>
  BY DEF DirectWrite
<1>3. runtime' \in States /\ \A j \in Keys : j # k => runtime'[j] = runtime[j]
  BY <1>1, <1>2 DEF TypeOK, States
<1>4. TypeOK'
  BY <1>1, <1>2, <1>3 DEF TypeOK
<1>5. Settled'
  BY <1>1, <1>2, <1>3 DEF Settled, Observing, Client, Main, Refused
<1>. QED  BY <1>4, <1>5 DEF BindingInvariant, Reading

LEMMA WritingThroughKeeps ==
  ASSUME BindingInvariant, WriteThrough \/ ReplaceThrough \/ ObjectWrite
  PROVE  BindingInvariant'
<1>1. runtime \in States /\ UNCHANGED <<setup, root, alive>> /\ Reading
  BY DEF BindingInvariant, TypeOK, WriteThrough, ReplaceThrough, ObjectWrite
<1>2. CASE WriteThrough
  <2>1. PICK k \in Keys, v \in Values :
          \/ /\ SetState([runtime EXCEPT ![k] = v])
                \/ ApplyThroughExternalRuntime([runtime EXCEPT ![k] = v])
          \/ DirectWrite(k, v)
    BY <1>2 DEF WriteThrough
  <2>2. [runtime EXCEPT ![k] = v] \in States /\ ~Client
    BY <1>1, <1>2 DEF WriteThrough, States
  <2>. QED  BY <1>1, <2>1, <2>2, ApplyKeeps, DirectWriteKeeps
<1>3. CASE ReplaceThrough
  BY <1>1, <1>3, ApplyKeeps DEF ReplaceThrough
<1>4. CASE ObjectWrite
  BY <1>1, <1>4, DirectWriteKeeps DEF ObjectWrite
<1>. QED  BY <1>2, <1>3, <1>4

LEMMA ReceivingThroughKeeps ==
  ASSUME BindingInvariant, ReceiveThrough
  PROVE  BindingInvariant'
<1>1. /\ runtime \in States /\ UNCHANGED <<setup, root, alive>> /\ Reading /\ Client
      /\ setup.kind = "mobx" => ~pending
  BY DEF BindingInvariant, TypeOK, ReceiveThrough
<1>2. CASE \E k \in Keys, v \in Values \ {Refusable} :
             LET next == [runtime EXCEPT ![k] = v] IN
             IF Refused(next) THEN RestoreClientState(NotifiedLater)
                              ELSE ExternalApply(next, Single(k, v))
  <2>1. PICK k \in Keys, v \in Values \ {Refusable} :
             LET next == [runtime EXCEPT ![k] = v] IN
             IF Refused(next) THEN RestoreClientState(NotifiedLater)
                              ELSE ExternalApply(next, Single(k, v))
    BY <1>2
  <2>2. PICK next : next = [runtime EXCEPT ![k] = v]
    OBVIOUS
  <2>3. next \in States /\ Fits(Single(k, v), next)
    BY <1>1, <2>2, OneFits
  <2>4. CASE RestoreClientState(NotifiedLater)
    BY <1>1, <2>4, OwedFacts, RestoreKeeps
  <2>5. CASE ~Refused(next) /\ ExternalApply(next, Single(k, v))
    BY <1>1, <2>3, <2>5, RewriteKeeps
  <2>. QED  BY <2>1, <2>2, <2>4, <2>5
<1>3. CASE \E next \in [Keys -> Values \ {Refusable}] : ExternalApply(next, next)
  <2>1. PICK next \in [Keys -> Values \ {Refusable}] : ExternalApply(next, next)
    BY <1>3
  <2>2. next \in States /\ ~Refused(next)
    BY DEF States, Refused
  <2>. QED  BY <1>1, <2>1, <2>2, AllFits, RewriteKeeps
<1>. QED  BY <1>2, <1>3 DEF ReceiveThrough

LEMMA SyncKeeps ==
  ASSUME BindingInvariant, SyncSharedExternalChange
  PROVE  BindingInvariant'
<1>1. /\ TypeOK /\ Settled /\ Reading
      /\ UNCHANGED <<setup, root, alive>>
  BY DEF BindingInvariant, SyncSharedExternalChange
<1>2. CASE \/ Client /\ RestoreClientState(TRUE)
           \/ Main /\ Refused(runtime) /\ RestoreClientState(runtime # last)
  BY <1>1, <1>2, RestoreKeeps
<1>3. CASE /\ Client /\ IsEqualSnapshot(runtime, last)
           /\ pending' = FALSE /\ dirty' = {}
           /\ UNCHANGED <<runtime, last, told, heard, astray>>
  <2>1. TypeOK'
    BY <1>1, <1>3 DEF TypeOK
  <2>2. Settled'
    BY <1>1, <1>3 DEF Settled, IsEqualSnapshot, Observing, Client, Main, Refused
  <2>. QED  BY <1>1, <2>1, <2>2 DEF BindingInvariant, Reading
<1>4. CASE /\ Main /\ ~Refused(runtime)
           /\ Publish(Diff(last, runtime))
           /\ astray' = astray \ DOMAIN Diff(last, runtime)
           /\ last' = runtime /\ heard' = runtime
           /\ dirty' = {} /\ pending' = FALSE
           /\ UNCHANGED runtime
  <2>1. PICK patch : patch = Diff(last, runtime)
    OBVIOUS
  <2>2. /\ DOMAIN patch = {k \in Keys : last[k] # runtime[k]}
        /\ \A k \in DOMAIN patch : k \in Keys /\ patch[k] = runtime[k]
    <3>1. last \in States /\ runtime \in States
      BY <1>1 DEF TypeOK
    <3>. QED  BY <2>1, <3>1, DiffFacts
  <2>3. /\ told' \in States
        /\ \A k \in Keys : told'[k] = IF k \in DOMAIN patch THEN runtime[k] ELSE told[k]
    BY <1>1, <1>4, <2>1, <2>2, PublishFacts DEF TypeOK, Observing
  <2>4. TypeOK'
    BY <1>1, <1>4, <2>3 DEF TypeOK
  <2>5. \A k \in Keys \ astray' : told'[k] = last'[k]
    BY <1>1, <1>4, <2>1, <2>2, <2>3 DEF Settled, Observing
  <2>6. Settled'
    BY <1>1, <1>4, <2>5 DEF Settled, Observing, Client, Main, Refused
  <2>. QED  BY <1>1, <2>4, <2>6 DEF BindingInvariant, Reading
<1>5. CASE SyncLocalChange
  <2>1. TypeOK'
    BY <1>1, <1>5 DEF TypeOK, SyncLocalChange
  <2>2. Settled'
    BY <1>1, <1>5 DEF SyncLocalChange, Settled, Observing, Client, Main, Refused
  <2>. QED  BY <1>1, <2>1, <2>2 DEF BindingInvariant, Reading
<1>. QED
  BY <1>2, <1>3, <1>4, <1>5
  DEF SyncSharedExternalChange, SyncClientChange, SyncMainChange

-----------------------------------------------------------------------------
(* Libraries that hold a second copy.                                      *)

LEMMA CommitCopyFacts ==
  ASSUME BindingInvariant, ~Reading, NEW next \in States, CommitCopy(next)
  PROVE  /\ root' = next /\ heard' = next /\ told' \in States
         /\ Observing \/ Client => told' = next
<1>1. TypeOK /\ Copied
  BY DEF BindingInvariant
<1>2. root \in States /\ told \in States
  BY <1>1 DEF TypeOK
<1>3. PICK patch : patch = Diff(root, next)
  OBVIOUS
<1>4. \A k \in DOMAIN patch : k \in Keys /\ patch[k] = next[k]
  BY <1>2, <1>3, DiffFacts
<1>5. root' = next /\ heard' = next /\ Publish(patch)
  BY <1>3 DEF CommitCopy
<1>6. told' \in States
  BY <1>1, <1>4, <1>5, PublishFacts
<1>7. ASSUME Observing \/ Client PROVE told' = next
  <2>1. told' = Patched(root, patch)
    BY <1>1, <1>5, <1>7 DEF Publish, Copied
  <2>. QED  BY <1>2, <1>3, <2>1, DiffLeads
<1>. QED  BY <1>5, <1>6, <1>7

LEMMA HandedOnFacts ==
  ASSUME NEW next \in States, HandedOn(next)
  PROVE  /\ runtime' \in States /\ astray' \subseteq Keys
         /\ \A k \in Keys \ astray' : runtime'[k] = next[k]
<1>1. CASE runtime' = next /\ astray' = {}
  BY <1>1
<1>2. CASE \E k \in Keys, v \in Values : runtime' = [next EXCEPT ![k] = v] /\ astray' = {k}
  BY <1>2 DEF States
<1>. QED  BY <1>1, <1>2 DEF HandedOn

\* A commit, and what is handed on, keep the invariant when validation accepts.
LEMMA CommitKeeps ==
  ASSUME BindingInvariant, ~Reading, NEW next \in States, CommitCopy(next),
         Checked \/ Client => ~Refused(next),
         runtime' \in States, astray' \subseteq Keys,
         Detached \/ \A k \in Keys \ astray' : runtime'[k] = next[k],
         UNCHANGED <<setup, last, pending, dirty, alive>>
  PROVE  BindingInvariant'
<1>1. TypeOK /\ Copied
  BY DEF BindingInvariant
<1>2. /\ root' = next /\ heard' = next /\ told' \in States
      /\ Observing \/ Client => told' = next
  BY CommitCopyFacts
<1>3. TypeOK'
  BY <1>1, <1>2 DEF TypeOK
<1>4. Copied'
  BY <1>1, <1>2 DEF Copied, Detached, Observing, Checked, Client, Main, Refused
<1>. QED  BY <1>3, <1>4 DEF BindingInvariant, Reading

LEMMA CopyingKeeps ==
  ASSUME BindingInvariant, CopyWrite \/ ReceiveCopy
  PROVE  BindingInvariant'
<1>1. /\ ~Reading
      /\ UNCHANGED <<setup, last, pending, dirty, alive>>
      /\ \E next \in States :
           /\ Checked \/ Client => ~Refused(next)
           /\ CommitCopy(next)
           /\ UpdateImmutable(next) \/ (Detached /\ UNCHANGED <<runtime, astray>>)
  <2>1. CASE CopyWrite
    BY <2>1 DEF CopyWrite
  <2>2. CASE ReceiveCopy
    <3>1. \A next \in [Keys -> Values \ {Refusable}] : next \in States /\ ~Refused(next)
      BY DEF States, Refused
    <3>. QED  BY <2>2, <3>1 DEF ReceiveCopy
  <2>. QED  BY <2>1, <2>2
<1>2. PICK next \in States :
        /\ Checked \/ Client => ~Refused(next)
        /\ CommitCopy(next)
        /\ UpdateImmutable(next) \/ (Detached /\ UNCHANGED <<runtime, astray>>)
  BY <1>1
<1>3. CASE UpdateImmutable(next)
  <2>1. HandedOn(next)
    BY <1>3 DEF UpdateImmutable, ZustandUpdate, ReduxUpdate, JotaiUpdate
  <2>. QED  BY <1>1, <1>2, <2>1, HandedOnFacts, CommitKeeps
<1>4. CASE Detached /\ UNCHANGED <<runtime, astray>>
  BY <1>1, <1>2, <1>4, CommitKeeps DEF BindingInvariant, TypeOK
<1>. QED  BY <1>2, <1>3, <1>4

LEMMA SubscriptionKeeps ==
  ASSUME BindingInvariant,
         ZustandSubscription \/ JotaiSubscription \/ ReduxSubscription \/ XStateSubscription
  PROVE  BindingInvariant'
<1>1. TypeOK /\ UNCHANGED <<setup, last, pending, dirty, alive>>
  BY DEF BindingInvariant, ZustandSubscription, JotaiSubscription, ReduxSubscription,
         XStateSubscription, StoreWrite
<1>2. ~Reading
  BY DEF Reading, ReadThrough, ZustandSubscription, JotaiSubscription, ReduxSubscription,
         XStateSubscription, StoreWrite
<1>3. Copied
  BY <1>2 DEF BindingInvariant
<1>4. PICK k \in Keys, v \in Values :
        \/ Unheard(Written(k, v))
        \/ Client /\ ZustandRestore
        \/ ~Client /\ Accepted(Written(k, v), k)
  <2>1. setup \in Setups
    BY <1>1 DEF TypeOK
  <2>2. setup.kind = "redux" => ~Client
    BY <2>1 DEF Client
  <2>3. CASE ZustandSubscription \/ JotaiSubscription
    BY <2>3 DEF ZustandSubscription, JotaiSubscription, HeardByClient
  <2>4. CASE ReduxSubscription \/ XStateSubscription
    BY <2>2, <2>4 DEF ReduxSubscription, XStateSubscription, StoreWrite
  <2>. QED  BY <2>3, <2>4
<1>5. PICK next : next = Written(k, v)
  OBVIOUS
<1>6. next \in States /\ \A j \in Keys : j # k => next[j] = runtime[j]
  BY <1>1, <1>5 DEF Written, TypeOK, States
<1>7. CASE Unheard(next)
  <2>1. /\ ~alive \/ Detached
        /\ runtime' = next /\ UNCHANGED <<root, told, heard, astray>>
    BY <1>7 DEF Unheard
  <2>2. TypeOK'
    BY <1>1, <1>6, <2>1 DEF TypeOK
  <2>3. Copied'
    BY <1>1, <1>3, <2>1 DEF Copied, Detached, Observing, Checked, Client, Main
  <2>. QED  BY <1>1, <1>2, <2>2, <2>3 DEF BindingInvariant, Reading
<1>8. CASE Client /\ ZustandRestore
  <2>1. runtime' = root /\ astray' = {} /\ UNCHANGED <<root, told, heard>>
    BY <1>8 DEF ZustandRestore
  <2>2. TypeOK'
    BY <1>1, <2>1 DEF TypeOK
  <2>3. Copied'
    BY <1>1, <1>3, <2>1 DEF Copied, Detached, Observing, Checked, Client, Main
  <2>. QED  BY <1>1, <1>2, <2>2, <2>3 DEF BindingInvariant, Reading
<1>9. CASE ~Client /\ Accepted(next, k)
  <2>1. runtime' = next /\ ReplaceExternalStoreState(next, k)
    BY <1>9 DEF Accepted
  <2>2. CASE Checked /\ Refused(next)
    <3>1. astray' = astray \cup {k} /\ UNCHANGED <<root, told, heard>>
      BY <2>1, <2>2 DEF ReplaceExternalStoreState
    <3>2. TypeOK'
      BY <1>1, <1>6, <2>1, <3>1 DEF TypeOK
    <3>3. Copied'
      BY <1>1, <1>3, <1>6, <2>1, <3>1 DEF Copied, Detached, Observing, Checked, Client, Main
    <3>. QED  BY <1>1, <1>2, <3>2, <3>3 DEF BindingInvariant, Reading
  <2>3. CASE ~(Checked /\ Refused(next))
    <3>1. CommitCopy(next) /\ astray' = {}
      BY <2>1, <2>3 DEF ReplaceExternalStoreState
    <3>. QED  BY <1>1, <1>2, <1>6, <1>9, <2>1, <2>3, <3>1, CommitKeeps
  <2>. QED  BY <2>2, <2>3
<1>. QED  BY <1>4, <1>5, <1>7, <1>8, <1>9

LEMMA BindingInvariantHolds == Spec => []BindingInvariant
<1>1. ASSUME Init PROVE BindingInvariant
  <2>1. /\ runtime = [k \in Keys |-> First]
        /\ root = runtime /\ last = runtime /\ told = runtime /\ heard = runtime
        /\ pending = FALSE /\ dirty = {} /\ astray = {} /\ alive = TRUE /\ setup \in Setups
    BY <1>1 DEF Init
  <2>2. runtime \in States /\ ~Refused(runtime)
    BY <2>1 DEF States, Refused
  <2>3. TypeOK
    BY <2>1, <2>2 DEF TypeOK
  <2>4. Settled
    BY <2>1, <2>2 DEF Settled, Refused
  <2>5. Copied
    BY <2>1, <2>2 DEF Copied, Refused
  <2>. QED  BY <2>3, <2>4, <2>5 DEF BindingInvariant
<1>2. ASSUME BindingInvariant, [Next]_vars PROVE BindingInvariant'
  <2>1. CASE WriteThrough \/ ReplaceThrough \/ ObjectWrite
    BY <1>2, <2>1, WritingThroughKeeps
  <2>2. CASE ReceiveThrough
    BY <1>2, <2>2, ReceivingThroughKeeps
  <2>3. CASE MobxAutorun \/ ValtioSubscription \/ PiniaSubscription
    BY <1>2, <2>3, SyncKeeps DEF MobxAutorun, ValtioSubscription, PiniaSubscription
  <2>4. CASE CopyWrite \/ ReceiveCopy
    BY <1>2, <2>4, CopyingKeeps
  <2>5. CASE ZustandSubscription \/ JotaiSubscription \/ ReduxSubscription \/ XStateSubscription
    BY <1>2, <2>5, SubscriptionKeeps
  <2>6. CASE Destroy
    <3>1. alive' = FALSE
          /\ UNCHANGED <<setup, runtime, root, last, pending, dirty, astray, told, heard>>
      BY <2>6 DEF Destroy
    <3>2. TypeOK'
      BY <1>2, <3>1 DEF BindingInvariant, TypeOK
    <3>. QED  BY <1>2, <3>1, <3>2 DEF BindingInvariant, Settled, Copied, Reading, Detached,
                                     Observing, Checked, Client, Main, Refused
  <2>7. CASE UNCHANGED vars
    <3>1. UNCHANGED <<setup, runtime, root, last, pending, dirty, astray, told, heard, alive>>
      BY <2>7 DEF vars
    <3>2. TypeOK'
      BY <1>2, <3>1 DEF BindingInvariant, TypeOK
    <3>. QED  BY <1>2, <3>1, <3>2 DEF BindingInvariant, Settled, Copied, Reading, Detached,
                                     Observing, Checked, Client, Main, Refused
  <2>. QED  BY <1>2, <2>1, <2>2, <2>3, <2>4, <2>5, <2>6, <2>7 DEF Next
<1>. QED  BY <1>1, <1>2, PTL DEF Spec

-----------------------------------------------------------------------------
(* What a binding promises.                                                *)

\* At rest an observer that applies every published patch to the first state, and
\* a client that applies what main sent, have the state the store shows, but for
\* the keys of a read-through object that were written, by others or by a reaction,
\* where the binding took the write for its own; and the library's store agrees
\* with Coaction's copy wherever nobody wrote behind the binding, but for the XState
\* actor of a client, which Coaction never writes.
THEOREM PublishedIsShown == Spec => []CommitsLeadToState
<1>1. ASSUME BindingInvariant PROVE CommitsLeadToState
  <2>1. CASE Reading
    <3>1. Settled
      BY <1>1, <2>1 DEF BindingInvariant
    <3>. QED  BY <2>1, <3>1 DEF CommitsLeadToState, Settled, AtRest, Shown
  <2>2. CASE ~Reading
    <3>1. Copied
      BY <1>1, <2>2 DEF BindingInvariant
    <3>. QED  BY <2>2, <3>1 DEF CommitsLeadToState, Copied, AtRest, Shown
  <2>. QED  BY <2>1, <2>2
<1>. QED  BY <1>1, BindingInvariantHolds, PTL

\* At rest a shared store and a validated second copy show a value that validation
\* refuses at no key, but for the keys of a read-through object that were last
\* written in the middle of Coaction's own write: externalApply and the notification
\* put the snapshot back, and a second copy is not committed.
THEOREM RefusedIsPutBack == Spec => []RefusedNeverStays
<1>1. ASSUME BindingInvariant PROVE RefusedNeverStays
  <2>1. CASE Reading
    <3>1. Settled /\ TypeOK
      BY <1>1, <2>1 DEF BindingInvariant
    <3>2. SUFFICES ASSUME ~pending, Main \/ Client
                   PROVE  \A k \in Keys \ astray : runtime[k] # Refusable
      BY <2>1 DEF RefusedNeverStays, AtRest, Shown
    <3>. QED  BY <3>1, <3>2 DEF Settled
  <2>2. CASE ~Reading
    <3>1. Copied
      BY <1>1, <2>2 DEF BindingInvariant
    <3>. QED  BY <2>2, <3>1 DEF RefusedNeverStays, Copied, AtRest, Shown, Checked, Refused
  <2>. QED  BY <2>1, <2>2
<1>. QED  BY <1>1, BindingInvariantHolds, PTL

\* At rest the latest call of the subscribers was with the state shown, but for a
\* client of a library that notifies late, and a main store that still shows a
\* refused value that a reaction wrote.
THEOREM SubscribersAreCalled == Spec => []SubscribersHear
<1>1. ASSUME BindingInvariant PROVE SubscribersHear
  <2>1. CASE Reading
    <3>1. Settled /\ runtime \in States /\ last \in States
      BY <1>1, <2>1 DEF BindingInvariant, TypeOK
    <3>2. SUFFICES ASSUME ~pending, ~(Client /\ setup.kind \in Deferred),
                          ~(Main /\ Refused(runtime))
                   PROVE  heard = runtime
      BY <2>1 DEF SubscribersHear, AtRest, Shown
    <3>3. runtime = last
      BY <3>1, <3>2 DEF Settled, States
    <3>. QED  BY <3>1, <3>2, <3>3 DEF Settled
  <2>2. CASE ~Reading
    <3>1. Copied
      BY <1>1, <2>2 DEF BindingInvariant
    <3>. QED  BY <2>2, <3>1 DEF SubscribersHear, Copied, Shown
  <2>. QED  BY <2>1, <2>2
<1>. QED  BY <1>1, BindingInvariantHolds, PTL

=============================================================================
