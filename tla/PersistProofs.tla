--------------------------- MODULE PersistProofs ---------------------------
(***************************************************************************)
(* Proofs about Persist for every bound and every choice of versions,      *)
(* faults and calls: type correctness, and, when storage is not read while *)
(* states are queued for it, that the store shows what storage holds and   *)
(* that storage keeps what it holds.                                       *)
(***************************************************************************)
EXTENDS Persist, SequenceTheorems, TLAPS

USE PersistAssumption

(* Type correctness *)

LEMMA EnqueuedType ==
  ASSUME TypeOK, start \in Starts, NEW content \in SUBSET Writes,
         NEW waiter \in {"none", "writeBack", "flush"}
  PROVE  Enqueued(content, waiter) \in [Starts -> Seq(Op)]
<1>. DEFINE item == [version |-> config.version, writes |-> content,
                     by |-> start]
            op == [kind |-> "set", item |-> item, waiter |-> waiter]
<1>1. config.version \in Versions
  BY DEF TypeOK, Config
<1>2. item \in Item
  BY <1>1 DEF Item
<1>3. op \in Op
  BY <1>2 DEF Op
<1>4. Append(queue[start], op) \in Seq(Op)
  BY <1>3 DEF TypeOK
<1>. QED  BY <1>4 DEF Enqueued, TypeOK

LEMMA EndHydrationType ==
  ASSUME TypeOK, start \in Starts \/ life # "up",
         NEW content \in SUBSET Writes, EndHydration(content)
  PROVE  /\ pending' \in BOOLEAN
         /\ queue' \in [Starts -> Seq(Op)]
         /\ hydration' \in Hydrating \cup {"idle", "flush"}
<1>1. CASE pending /\ life = "up"
  <2>1. queue' \in [Starts -> Seq(Op)]
    BY <1>1, EnqueuedType DEF EndHydration
  <2>2. pending' = FALSE /\ hydration' = "flush"
    BY <1>1 DEF EndHydration
  <2>. QED  BY <2>1, <2>2
<1>2. CASE ~(pending /\ life = "up")
  <2>1. hydration' = "idle" /\ UNCHANGED <<pending, queue>>
    BY <1>2, Zenon DEF EndHydration
  <2>. QED  BY <2>1 DEF TypeOK
<1>. QED  BY <1>1, <1>2

LEMMA PersistStateType ==
  ASSUME TypeOK, start \in Starts, NEW content \in SUBSET Writes,
         PersistState(content)
  PROVE  pending' \in BOOLEAN /\ queue' \in [Starts -> Seq(Op)]
<1>1. Enqueued(content, "none") \in [Starts -> Seq(Op)]
  BY EnqueuedType
<1>. QED  BY <1>1 DEF PersistState, TypeOK

\* A program that runs has a number, and after a crash nothing is left of it.
Running ==
  /\ life # "down" => start \in Starts
  /\ life = "down" => hydration = "idle" /\ QueuesEmpty

LEMMA AwaitedType ==
  ASSUME TypeOK, NEW i, NEW op \in Op, Awaited(i, op)
  PROVE  hydration' \in Hydrating \cup {"idle", "flush"}
BY DEF Awaited, Hydrating, TypeOK

\* What happens at the head of a queue.
LEMMA HeadType ==
  ASSUME TypeOK, NEW i \in Starts, queue[i] # <<>>
  PROVE  /\ Head(queue[i]) \in Op
         /\ [queue EXCEPT ![i] = Tail(@)] \in [Starts -> Seq(Op)]
<1>1. queue[i] \in Seq(Op)
  BY DEF TypeOK
<1>2. Head(queue[i]) \in Op /\ Tail(queue[i]) \in Seq(Op)
  BY <1>1, HeadTailProperties
<1>. QED  BY <1>2 DEF TypeOK

LEMMA QueueTypes ==
  ASSUME TypeOK, NEW i \in Starts, OpSettled(i)
  PROVE  TypeOK'
<1>1. Head(queue[i]) \in Op /\ queue' \in [Starts -> Seq(Op)]
  BY HeadType DEF OpSettled
<1>2. hydration' \in Hydrating \cup {"idle", "flush"}
  BY <1>1, AwaitedType DEF OpSettled
<1>3. stored' \in Item \cup {NoItem}
  BY <1>1 DEF OpSettled, Op, TypeOK
<1>4. owed' \in SUBSET Writes /\ faults' \in 0..MaxFaults
  BY DEF OpSettled, Fault, TypeOK
<1>5. hasHydrated' \in BOOLEAN
  BY Zenon DEF OpSettled
<1>6. emptied' \in BOOLEAN
  BY DEF OpSettled, TypeOK
<1>7. UNCHANGED <<programVars, state, raw, scheduled, pending, made, calls,
                  merged>>
  BY DEF OpSettled
<1>. QED  BY <1>1, <1>2, <1>3, <1>4, <1>5, <1>6, <1>7 DEF TypeOK, programVars

\* What a hydration step leaves alone keeps its type when hydration, pending
\* and the queue do.
LEMMA HydrationTypes ==
  ASSUME TypeOK, Running
  PROVE  HydrationStep => TypeOK'
<1>1. ASSUME RunScheduled PROVE TypeOK'
  <2>1. hydration' \in {hydration, "reading"}
    BY <1>1, Zenon DEF RunScheduled, StartRehydrate
  <2>2. scheduled' \in BOOLEAN /\ emptied' \in BOOLEAN
    BY <1>1, Zenon DEF RunScheduled, StartRehydrate, TypeOK
  <2>3. UNCHANGED <<programVars, state, hasHydrated, raw, pending, queue,
                    stored, made, boundVars, merged, owed>>
    BY <1>1 DEF RunScheduled
  <2>. QED  BY <2>1, <2>2, <2>3 DEF TypeOK, Hydrating, programVars, boundVars
<1>2. ASSUME StorageReads PROVE TypeOK'
  BY <1>2 DEF StorageReads, TypeOK, Hydrating, programVars, boundVars,
              ghostVars
<1>3. ASSUME NEW content \in SUBSET Writes, EndHydration(content)
      PROVE  /\ pending' \in BOOLEAN
             /\ queue' \in [Starts -> Seq(Op)]
             /\ hydration' \in Hydrating \cup {"idle", "flush"}
  <2>1. start \in Starts \/ life # "up"
    BY DEF Running
  <2>. QED  BY <1>3, <2>1, EndHydrationType
<1>4. state \in SUBSET Writes
  BY DEF TypeOK
<1>5. ASSUME HydrateNothing PROVE TypeOK'
  <2>1. EndHydration(state) /\ hasHydrated' = TRUE
    BY <1>5 DEF HydrateNothing
  <2>2. merged' = TRUE \/ merged' = merged
    BY <1>5 DEF HydrateNothing
  <2>3. merged' \in BOOLEAN
    BY <2>2, Zenon DEF TypeOK
  <2>4. faults' \in 0..MaxFaults
    BY <1>5 DEF HydrateNothing, Fault, TypeOK
  <2>5. UNCHANGED <<programVars, state, raw, scheduled, stored, made, calls,
                    owed, emptied>>
    BY <1>5 DEF HydrateNothing
  <2>. QED  BY <1>3, <1>4, <2>1, <2>3, <2>4, <2>5 DEF TypeOK, programVars
<1>6. ASSUME Migrate PROVE TypeOK'
  BY <1>6 DEF Migrate, TypeOK, Hydrating, programVars, boundVars, ghostVars
<1>7. ASSUME state' \in Merges PROVE state' \in SUBSET Writes
  BY <1>7 DEF Merges, TypeOK, Item, NoItem
<1>8. ASSUME HydrateApply PROVE TypeOK'
  <2>1. state' \in SUBSET Writes /\ owed' \in SUBSET Writes
    BY <1>7, <1>8 DEF HydrateApply, TypeOK
  <2>2. merged' = TRUE /\ life' \in {life, "destroyed"}
        /\ faults' \in 0..MaxFaults
    BY <1>8 DEF HydrateApply, Fault, TypeOK
  <2>3. UNCHANGED <<start, config, raw, scheduled, stored, made, calls,
                    emptied>>
    BY <1>8 DEF HydrateApply
  <2>4. /\ pending' \in BOOLEAN
        /\ queue' \in [Starts -> Seq(Op)]
        /\ hydration' \in Hydrating \cup {"idle", "flush"}
        /\ hasHydrated' \in BOOLEAN
    <3>1. CASE /\ queue' = Enqueued(state', "writeBack")
               /\ hydration' = "writeBack"
               /\ UNCHANGED <<hasHydrated, pending>>
      <4>1. start \in Starts
        BY <1>8 DEF HydrateApply, ReadyToApply, Resumed, Running
      <4>2. queue' \in [Starts -> Seq(Op)]
        BY <2>1, <3>1, <4>1, EnqueuedType
      <4>. QED  BY <3>1, <4>2 DEF TypeOK, Hydrating
    <3>2. CASE hasHydrated' = TRUE /\ EndHydration(state')
      BY <1>3, <2>1, <3>2
    <3>3. CASE /\ hasHydrated' = TRUE /\ hydration' = "idle"
               /\ UNCHANGED <<pending, queue>>
      BY <3>3 DEF TypeOK
    <3>. QED  BY <1>8, <3>1, <3>2, <3>3 DEF HydrateApply
  <2>. QED  BY <2>1, <2>2, <2>3, <2>4 DEF TypeOK
<1>9. ASSUME HydrateWritten PROVE TypeOK'
  <2>1. EndHydration(state)
    BY <1>9 DEF HydrateWritten
  <2>2. UNCHANGED <<programVars, state, hasHydrated, raw, scheduled, stored,
                    made, boundVars, ghostVars>>
    BY <1>9 DEF HydrateWritten
  <2>. QED  BY <1>3, <1>4, <2>1, <2>2
            DEF TypeOK, programVars, boundVars, ghostVars
<1>10. ASSUME HydrateDropped PROVE TypeOK'
  BY <1>10 DEF HydrateDropped, TypeOK, programVars, boundVars, ghostVars
<1>. QED  BY <1>1, <1>2, <1>5, <1>6, <1>8, <1>9, <1>10 DEF HydrationStep

LEMMA CallTypes ==
  ASSUME TypeOK, Running
  PROVE  /\ ClearStorage => TypeOK'
         /\ Rehydrate => TypeOK'
         /\ Write => TypeOK'
         /\ Destroy => TypeOK'
         /\ Start => TypeOK'
         /\ Crash => TypeOK'
<1>1. ASSUME ClearStorage PROVE TypeOK'
  <2>. DEFINE op == [kind |-> "remove", item |-> NoItem, waiter |-> "none"]
  <2>1. start \in Starts
    BY <1>1 DEF ClearStorage, Running
  <2>2. op \in Op
    BY DEF Op
  <2>3. Append(queue[start], op) \in Seq(Op)
    BY <2>1, <2>2 DEF TypeOK
  <2>4. queue' \in [Starts -> Seq(Op)]
    BY <1>1, <2>3 DEF ClearStorage, TypeOK
  <2>5. calls' \in 0..MaxCalls
    BY <1>1 DEF ClearStorage, Call, TypeOK
  <2>6. emptied' \in BOOLEAN
    BY <1>1, Zenon DEF ClearStorage
  <2>7. UNCHANGED <<programVars, state, hydrationVars, pending, stored, made,
                    faults, merged, owed>>
    BY <1>1 DEF ClearStorage
  <2>. QED  BY <2>4, <2>5, <2>6, <2>7 DEF TypeOK, programVars, hydrationVars
<1>2. ASSUME Rehydrate PROVE TypeOK'
  <2>1. hydration' = "reading" /\ emptied' = FALSE
    BY <1>2 DEF Rehydrate, StartRehydrate
  <2>2. calls' \in 0..MaxCalls
    BY <1>2 DEF Rehydrate, Call, TypeOK
  <2>3. UNCHANGED <<programVars, state, hasHydrated, raw, scheduled, pending,
                    queue, stored, made, faults, merged, owed>>
    BY <1>2 DEF Rehydrate
  <2>. QED  BY <2>1, <2>2, <2>3 DEF TypeOK, Hydrating, programVars
<1>3. ASSUME made < MaxWrites, made' = made + 1, state' = state \cup {made'}
      PROVE  made' \in Writes /\ state' \in SUBSET Writes
  BY <1>3 DEF TypeOK, Writes
<1>4. ASSUME Write PROVE TypeOK'
  <2>1. made' \in Writes /\ state' \in SUBSET Writes
    BY <1>3, <1>4 DEF Write
  <2>2. start \in Starts
    BY <1>4 DEF Write, Running
  <2>3. pending' \in BOOLEAN /\ queue' \in [Starts -> Seq(Op)]
    BY <1>4, <2>1, <2>2, PersistStateType DEF Write, TypeOK
  <2>4. owed' \in SUBSET Writes
    BY <1>4, <2>1 DEF Write, TypeOK
  <2>5. faults' \in 0..MaxFaults
    BY <1>4 DEF Write, Fault, TypeOK
  <2>6. UNCHANGED <<programVars, hydrationVars, stored, calls, merged>>
        /\ emptied' = FALSE
    BY <1>4 DEF Write
  <2>. QED  BY <2>1, <2>3, <2>4, <2>5, <2>6
            DEF TypeOK, programVars, hydrationVars
<1>5. ASSUME Destroy PROVE TypeOK'
  <2>1. owed' \in SUBSET Writes
    BY <1>5 DEF Destroy, TypeOK
  <2>. QED  BY <1>5, <2>1 DEF Destroy, TypeOK, hydrationVars, boundVars
<1>6. ASSUME Start PROVE TypeOK'
  <2>1. start' \in Starts
    BY <1>6 DEF Start, TypeOK, Starts
  <2>2. scheduled' \in BOOLEAN
    <3>1. scheduled' = ~config'.skip
      BY <1>6 DEF Start
    <3>2. (~config'.skip) \in BOOLEAN
      OBVIOUS
    <3>. QED  BY <3>1, <3>2, Zenon
  <2>3. /\ life' = "up" /\ config' \in Config /\ state' = {}
        /\ hasHydrated' = FALSE /\ hydration' = "idle" /\ raw' = NoItem
        /\ pending' = FALSE /\ merged' = FALSE /\ emptied' = FALSE
        /\ UNCHANGED <<queue, stored, made, boundVars, owed>>
    BY <1>6 DEF Start
  <2>. QED  BY <2>1, <2>2, <2>3 DEF TypeOK, boundVars
<1>7. ASSUME Crash PROVE TypeOK'
  <2>1. queue' \in [Starts -> Seq(Op)]
    BY <1>7 DEF Crash
  <2>2. faults' \in 0..MaxFaults
    BY <1>7 DEF Crash, Fault, TypeOK
  <2>. QED  BY <1>7, <2>1, <2>2 DEF Crash, TypeOK
<1>. QED  BY <1>1, <1>2, <1>4, <1>5, <1>6, <1>7

LEMMA InitType == Init => TypeOK
<1>1. Init => config \in Config
  BY DEF Init, Config
<1>2. Init => stored \in Item \cup {NoItem}
  BY DEF Init, Item, Legacy, Writes
<1>3. Init => queue \in [Starts -> Seq(Op)]
  BY DEF Init
<1>4. Init => /\ made \in Writes
              /\ calls \in 0..MaxCalls
              /\ faults \in 0..MaxFaults
  BY DEF Init, Writes
<1>5. Init => start \in Starts \cup {0} /\ raw \in Item \cup {NoItem}
  BY DEF Init
<1>6. Init => /\ state = {} /\ owed = {} /\ life = "down"
              /\ hydration = "idle" /\ hasHydrated = FALSE
              /\ pending = FALSE /\ scheduled = FALSE /\ merged = FALSE
              /\ emptied = FALSE
  BY DEF Init
<1>. QED  BY <1>1, <1>2, <1>3, <1>4, <1>5, <1>6 DEF TypeOK

LEMMA StutterType ==
  ASSUME TypeOK, UNCHANGED vars
  PROVE  TypeOK'
BY DEF TypeOK, vars, programVars, hydrationVars, boundVars, ghostVars

LEMMA NextType ==
  ASSUME TypeOK, Running, Next
  PROVE  TypeOK'
BY QueueTypes, HydrationTypes, CallTypes DEF Next

-----------------------------------------------------------------------------
(* A program that runs, and one that does not *)

LEMMA NextRunning ==
  ASSUME TypeOK, Running, Next
  PROVE  Running'
<1>1. CASE Start
  <2>1. start' \in Starts /\ life' = "up"
    BY <1>1 DEF Start, TypeOK, Starts
  <2>. QED  BY <2>1 DEF Running
<1>2. CASE Crash
  BY <1>2 DEF Crash, Running, QueuesEmpty
<1>3. CASE ~Start /\ ~Crash
  <2>1. UNCHANGED start /\ (life' = "down" => life = "down")
    BY <1>3 DEF Next, HydrationStep, OpSettled, ClearStorage, Rehydrate, Write,
       Destroy, RunScheduled, StorageReads, HydrateNothing, Migrate,
       HydrateApply, ReadyToApply, Resumed, HydrateWritten, HydrateDropped,
       programVars
  <2>2. life # "down" => life' # "down" /\ start' \in Starts
    BY <2>1 DEF Running
  <2>3. ASSUME life = "down" PROVE UNCHANGED <<life, hydration, queue, start>>
    <3>1. \A i \in Starts : ~OpSettled(i)
      BY <2>3 DEF Running, QueuesEmpty, OpSettled
    <3>2. RunScheduled
      BY <1>3, <2>3, <3>1 DEF Next, HydrationStep, Running, StorageReads,
         HydrateNothing, Migrate, HydrateApply, HydrateWritten,
         HydrateDropped, ReadyToApply, Resumed, ClearStorage, Rehydrate,
         Write, Destroy
    <3>. QED  BY <2>3, <3>2 DEF RunScheduled, programVars
  <2>. QED  BY <2>1, <2>2, <2>3 DEF Running, QueuesEmpty
<1>. QED  BY <1>1, <1>2, <1>3

\* The types of Persist: every variable keeps its type in every behaviour.
THEOREM TypeCorrect == Spec => []TypeOK
<1>1. Init => TypeOK /\ Running
  BY InitType DEF Init, Running, QueuesEmpty
<1>2. TypeOK /\ Running /\ [Next]_vars => (TypeOK /\ Running)'
  <2>1. CASE Next
    BY <2>1, NextType, NextRunning
  <2>2. CASE UNCHANGED vars
    BY <2>2, StutterType
       DEF Running, QueuesEmpty, vars, programVars, hydrationVars
  <2>. QED  BY <2>1, <2>2
<1>. QED  BY <1>1, <1>2, PTL DEF Spec

-----------------------------------------------------------------------------
(* What is queued *)

\* A queue of program i, for a store that holds content, over an item that
\* holds held: its states are parts of what the store holds, each part of the
\* next, and the first no less than the item when own is true.
Sound(q, i, content, held, own) ==
  /\ \A n \in DOMAIN q :
       \/ /\ q[n].kind = "remove"
          /\ q[n].item = NoItem
       \/ /\ q[n].kind = "set"
          /\ q[n].item.by = i
          /\ q[n].item.writes \subseteq content
          /\ own => held \subseteq q[n].item.writes
  /\ \A n, m \in DOMAIN q :
       n < m /\ q[n].kind = "set" /\ q[m].kind = "set" =>
         q[n].item.writes \subseteq q[m].item.writes

LEMMA SoundSet ==
  ASSUME NEW q \in Seq(Op), NEW i, NEW content, NEW held, NEW own,
         Sound(q, i, content, held, own), own => held \subseteq content,
         NEW op \in Op, op.kind = "set", op.item.by = i,
         op.item.writes = content
  PROVE  Sound(Append(q, op), i, content, held, own)
<1>. DEFINE r == Append(q, op)
<1>1. /\ DOMAIN r = 1..(Len(q) + 1)
      /\ \A n \in 1..Len(q) : r[n] = q[n]
      /\ r[Len(q) + 1] = op
      /\ DOMAIN q = 1..Len(q)
      /\ Len(q) \in Nat
  OBVIOUS
<1>. HIDE DEF r
<1>2. \A n \in DOMAIN r : n \in DOMAIN q \/ n = Len(q) + 1
  BY <1>1
<1>3. \A n \in DOMAIN r :
        \/ r[n].kind = "remove" /\ r[n].item = NoItem
        \/ /\ r[n].kind = "set"
           /\ r[n].item.by = i
           /\ r[n].item.writes \subseteq content
           /\ own => held \subseteq r[n].item.writes
  BY <1>1, <1>2 DEF Sound
<1>4. ASSUME NEW n \in DOMAIN r, NEW m \in DOMAIN r, n < m,
             r[n].kind = "set", r[m].kind = "set"
      PROVE  r[n].item.writes \subseteq r[m].item.writes
  <2>1. n \in DOMAIN q /\ r[n] = q[n]
    BY <1>1, <1>4
  <2>2. CASE m \in DOMAIN q
    BY <1>1, <1>4, <2>1, <2>2 DEF Sound
  <2>3. CASE m = Len(q) + 1
    <3>1. r[n].item.writes \subseteq content
      BY <1>3, <1>4
    <3>. QED  BY <1>1, <2>3, <3>1
  <2>. QED  BY <1>2, <2>2, <2>3
<1>. QED  BY <1>3, <1>4 DEF r, Sound

LEMMA SoundRemove ==
  ASSUME NEW q \in Seq(Op), NEW i, NEW content, NEW held, NEW own,
         Sound(q, i, content, held, own),
         NEW op \in Op, op.kind = "remove", op.item = NoItem
  PROVE  Sound(Append(q, op), i, content, held, own)
<1>. DEFINE r == Append(q, op)
<1>1. /\ DOMAIN r = 1..(Len(q) + 1)
      /\ \A n \in 1..Len(q) : r[n] = q[n]
      /\ r[Len(q) + 1] = op
      /\ DOMAIN q = 1..Len(q)
      /\ Len(q) \in Nat
  OBVIOUS
<1>. HIDE DEF r
<1>2. \A n \in DOMAIN r : n \in DOMAIN q \/ n = Len(q) + 1
  BY <1>1
<1>3. \A n \in DOMAIN r : r[n].kind = "set" => n \in DOMAIN q /\ r[n] = q[n]
  BY <1>1, <1>2
<1>4. \A n \in DOMAIN r : n \notin DOMAIN q => r[n] = op
  BY <1>1, <1>2
<1>5. \A n \in DOMAIN q : r[n] = q[n]
  BY <1>1
<1>. QED  BY <1>3, <1>4, <1>5 DEF r, Sound

\* The head of a sound queue has been dealt with, and the item is no more
\* than the queued states.
LEMMA SoundTail ==
  ASSUME NEW q \in Seq(Op), q # <<>>, NEW i, NEW content, NEW held, NEW own,
         Sound(q, i, content, held, own),
         NEW held1, NEW own1,
         \A n \in DOMAIN q :
           n > 1 /\ q[n].kind = "set" /\ own1 =>
             held1 \subseteq q[n].item.writes
  PROVE  Sound(Tail(q), i, content, held1, own1)
<1>. DEFINE r == Tail(q)
<1>1. /\ DOMAIN r = 1..(Len(q) - 1)
      /\ \A n \in 1..(Len(q) - 1) : r[n] = q[n + 1]
      /\ DOMAIN q = 1..Len(q)
      /\ Len(q) \in Nat
  OBVIOUS
<1>. HIDE DEF r
<1>2. \A n \in DOMAIN r : n + 1 \in DOMAIN q /\ r[n] = q[n + 1] /\ n + 1 > 1
  BY <1>1
<1>3. \A n, m \in DOMAIN r : n < m => n + 1 < m + 1
  BY <1>1
<1>4. \A n \in DOMAIN r :
        \/ r[n].kind = "remove" /\ r[n].item = NoItem
        \/ /\ r[n].kind = "set"
           /\ r[n].item.by = i
           /\ r[n].item.writes \subseteq content
           /\ own1 => held1 \subseteq r[n].item.writes
  <2>. SUFFICES ASSUME NEW n \in DOMAIN r
                PROVE  \/ r[n].kind = "remove" /\ r[n].item = NoItem
                       \/ /\ r[n].kind = "set"
                          /\ r[n].item.by = i
                          /\ r[n].item.writes \subseteq content
                          /\ own1 => held1 \subseteq r[n].item.writes
    OBVIOUS
  <2>. QED  BY <1>2 DEF Sound
<1>5. \A n, m \in DOMAIN r :
        n < m /\ r[n].kind = "set" /\ r[m].kind = "set" =>
          r[n].item.writes \subseteq r[m].item.writes
  BY <1>2, <1>3 DEF Sound
<1>. QED  BY <1>4, <1>5 DEF r, Sound

\* A queue of removals is sound whatever the store and storage hold.
LEMMA SoundRemovals ==
  ASSUME NEW q, NEW i, NEW content, NEW held, NEW own,
         Sound(q, i, content, held, own),
         \A n \in DOMAIN q : q[n].kind # "set",
         NEW content1, NEW held1, NEW own1
  PROVE  Sound(q, i, content1, held1, own1)
BY DEF Sound

\* A store that grows keeps its queue sound.
LEMMA SoundGrown ==
  ASSUME NEW q, NEW i, NEW content, NEW held, NEW own,
         Sound(q, i, content, held, own),
         NEW content1, content \subseteq content1
  PROVE  Sound(q, i, content1, held, own)
BY DEF Sound

-----------------------------------------------------------------------------
(* The inductive invariant *)

NoOverlap == "overlap" \notin Faults

\* Whether the store has taken what was stored, or has stored something.
Own == merged \/ stored.by = start

\* Only the running program has operations queued.
OthersDone == \A i \in Starts \ {start} : queue[i] = <<>>

QueueSound ==
  life # "down" => Sound(queue[start], start, state, stored.writes, Own)

ShownWhileAlive == life # "down" /\ Own => stored.writes \subseteq state

\* While storage is read no state is queued, so what was read is still what
\* storage holds, or more.
ReadIsCurrent ==
  /\ hydration \in {"reading", "read", "migrating"} => NoSets(start)
  /\ hydration \in {"read", "migrating"} => stored.writes \subseteq raw.writes
  /\ hydration = "written" => hasHydrated

UnreadIsKept ==
  life # "down" /\ ~config.skip /\ ~hasHydrated /\ ~merged => NoSets(start)

StorageInvariant ==
  /\ TypeOK
  /\ Running
  /\ OthersDone
  /\ QueueSound
  /\ stored.by \in 0..start
  /\ ShownWhileAlive
  /\ ReadIsCurrent
  /\ UnreadIsKept

\* What the parts of the invariant depend on.
queueView == <<life, start, config, state, hasHydrated, hydration, raw, queue,
               stored, merged>>

LEMMA StutterInvariant ==
  ASSUME StorageInvariant, TypeOK', UNCHANGED queueView
  PROVE  StorageInvariant'
BY DEF StorageInvariant, Running, QueuesEmpty, OthersDone, QueueSound, Sound,
   ShownWhileAlive, Own, ReadIsCurrent, UnreadIsKept, NoSets, queueView

LEMMA InitInvariant == Init => StorageInvariant
<1>. SUFFICES ASSUME Init PROVE StorageInvariant
  OBVIOUS
<1>1. TypeOK /\ Running
  BY InitType DEF Init, Running, QueuesEmpty
<1>2. OthersDone
  BY DEF Init, OthersDone
<1>3. stored.by \in 0..start
  BY DEF Init, NoItem, Legacy
<1>4. life = "down" /\ hydration = "idle"
  BY DEF Init
<1>. QED  BY <1>1, <1>2, <1>3, <1>4 DEF StorageInvariant, QueueSound,
          ShownWhileAlive, ReadIsCurrent, UnreadIsKept

\* A state is queued: it is all that the store holds.
LEMMA EnqueueSound ==
  ASSUME StorageInvariant, start \in Starts, NEW content \in SUBSET Writes,
         NEW waiter \in {"none", "writeBack", "flush"}, NEW own,
         Sound(queue[start], start, content, stored.writes, own),
         own => stored.writes \subseteq content,
         queue' = Enqueued(content, waiter), UNCHANGED start
  PROVE  /\ OthersDone'
         /\ Sound(queue'[start], start, content, stored.writes, own)
<1>. DEFINE item == [version |-> config.version, writes |-> content,
                     by |-> start]
            op == [kind |-> "set", item |-> item, waiter |-> waiter]
<1>1. queue \in [Starts -> Seq(Op)]
  BY DEF StorageInvariant, TypeOK
<1>2. config.version \in Versions
  BY DEF StorageInvariant, TypeOK, Config
<1>3. op \in Op
  BY <1>2 DEF Op, Item
<1>4. queue'[start] = Append(queue[start], op)
  BY <1>1 DEF Enqueued
<1>5. op.kind = "set" /\ op.item.by = start /\ op.item.writes = content
  OBVIOUS
<1>. HIDE DEF op
<1>6. Sound(queue'[start], start, content, stored.writes, own)
  BY <1>1, <1>3, <1>4, <1>5, SoundSet
<1>7. OthersDone'
  BY <1>1 DEF StorageInvariant, OthersDone, Enqueued
<1>. QED  BY <1>6, <1>7

\* The end of a hydration, whether a change that was put off is queued or not.
LEMMA EndSound ==
  ASSUME StorageInvariant, NEW content \in SUBSET Writes, NEW own,
         life # "down",
         Sound(queue[start], start, content, stored.writes, own),
         own => stored.writes \subseteq content,
         EndHydration(content), UNCHANGED start
  PROVE  /\ OthersDone'
         /\ Sound(queue'[start], start, content, stored.writes, own)
         /\ hydration' \in {"idle", "flush"}
<1>0. start \in Starts
  BY DEF StorageInvariant, Running
<1>1. CASE pending /\ life = "up"
  <2>1. queue' = Enqueued(content, "flush") /\ hydration' = "flush"
    BY <1>1 DEF EndHydration
  <2>. QED  BY <1>0, <2>1, EnqueueSound
<1>2. CASE ~(pending /\ life = "up")
  <2>1. hydration' = "idle" /\ UNCHANGED <<pending, queue>>
    BY <1>2, Zenon DEF EndHydration
  <2>. QED  BY <2>1 DEF StorageInvariant, OthersDone
<1>. QED  BY <1>1, <1>2

\* A hydration ends with the store holding what storage holds, as far as
\* anything later relies on it.
LEMMA EndInvariant ==
  ASSUME StorageInvariant, TypeOK', Running', life # "down",
         EndHydration(state'), UNCHANGED <<life, start, config, stored>>,
         Sound(queue[start], start, state', stored.writes, Own'),
         Own' => stored.writes \subseteq state',
         hasHydrated' \/ merged'
  PROVE  StorageInvariant'
<1>1. state' \in SUBSET Writes
  BY DEF TypeOK
<1>2. /\ OthersDone'
      /\ Sound(queue'[start], start, state', stored.writes, Own')
      /\ hydration' \in {"idle", "flush"}
  BY <1>1, EndSound
<1>3. QueueSound'
  BY <1>2 DEF QueueSound
<1>4. stored'.by \in 0..start'
  BY DEF StorageInvariant
<1>5. ShownWhileAlive'
  BY DEF ShownWhileAlive
<1>6. ReadIsCurrent' /\ UnreadIsKept'
  BY <1>2 DEF ReadIsCurrent, UnreadIsKept
<1>. QED  BY <1>2, <1>3, <1>4, <1>5, <1>6 DEF StorageInvariant

\* What was read goes into the store.
LEMMA MergesHold ==
  ASSUME StorageInvariant, hydration \in {"read", "migrating"},
         life # "down", state' \in Merges, NEW own
  PROVE  /\ stored.writes \subseteq state'
         /\ NoSets(start)
         /\ Sound(queue[start], start, state', stored.writes, own)
<1>1. stored.writes \subseteq raw.writes /\ NoSets(start)
  BY DEF StorageInvariant, ReadIsCurrent
<1>2. raw.writes \subseteq state'
  BY DEF Merges
<1>3. Sound(queue[start], start, state, stored.writes, Own)
  BY DEF StorageInvariant, QueueSound
<1>4. Sound(queue[start], start, state', stored.writes, own)
  BY <1>1, <1>3, SoundRemovals DEF NoSets
<1>. QED  BY <1>1, <1>2, <1>4

LEMMA HydrationInvariant ==
  ASSUME StorageInvariant, NoOverlap, TypeOK', Running', HydrationStep
  PROVE  StorageInvariant'
<1>0. life # "down" => Sound(queue[start], start, state, stored.writes, Own)
  BY DEF StorageInvariant, QueueSound
<1>1. ASSUME UNCHANGED <<life, start, config, state, hasHydrated, queue,
                         stored, merged>>,
             ReadIsCurrent'
      PROVE  StorageInvariant'
  BY <1>1 DEF StorageInvariant, OthersDone, QueueSound, Sound,
     ShownWhileAlive, Own, UnreadIsKept, NoSets
<1>2. CASE RunScheduled
  <2>1. UNCHANGED <<life, start, config, state, hasHydrated, queue, stored,
                    merged, raw>>
    BY <1>2 DEF RunScheduled, programVars
  <2>2. CASE life = "up" /\ hydration = "idle"
    <3>1. NoSets(start) /\ hydration' = "reading"
      BY <1>2, <2>2 DEF RunScheduled, StartRehydrate, NoOverlap
    <3>. QED  BY <1>1, <2>1, <3>1 DEF ReadIsCurrent, NoSets
  <2>3. CASE ~(life = "up" /\ hydration = "idle")
    <3>1. UNCHANGED hydration
      BY <1>2, <2>3, Zenon DEF RunScheduled
    <3>. QED  BY <1>1, <2>1, <3>1 DEF StorageInvariant, ReadIsCurrent, NoSets
  <2>. QED  BY <2>2, <2>3
<1>3. CASE StorageReads
  BY <1>1, <1>3 DEF StorageReads, programVars, ghostVars, StorageInvariant,
                    ReadIsCurrent, NoSets
<1>4. CASE Migrate
  BY <1>1, <1>4 DEF Migrate, Resumed, programVars, ghostVars,
                    StorageInvariant, ReadIsCurrent, NoSets
<1>5. CASE HydrateDropped
  BY <1>1, <1>5 DEF HydrateDropped, programVars, ghostVars, ReadIsCurrent
<1>6. ASSUME UNCHANGED <<life, start, config, stored, state, merged>>,
             EndHydration(state), hasHydrated' \/ merged', life # "down"
      PROVE  StorageInvariant'
  <2>1. Own' = Own
    BY <1>6 DEF Own
  <2>2. Sound(queue[start], start, state', stored.writes, Own')
    BY <1>0, <1>6, <2>1
  <2>3. Own' => stored.writes \subseteq state'
    BY <1>6, <2>1 DEF StorageInvariant, ShownWhileAlive
  <2>4. EndHydration(state')
    BY <1>6
  <2>. QED  BY <1>6, <2>2, <2>3, <2>4, EndInvariant
<1>7. CASE HydrateNothing
  <2>1. /\ hydration \in {"read", "migrating"} /\ life = "up"
        /\ hasHydrated' = TRUE /\ EndHydration(state)
        /\ UNCHANGED <<life, start, config, stored, state>>
        /\ raw = NoItem \/ UNCHANGED merged
    BY <1>7 DEF HydrateNothing, Resumed, programVars
  <2>2. CASE UNCHANGED merged
    BY <1>6, <2>1, <2>2
  <2>3. CASE raw = NoItem
    <3>1. stored.writes = {} /\ NoSets(start)
      BY <2>1, <2>3 DEF StorageInvariant, ReadIsCurrent, NoItem
    <3>2. Sound(queue[start], start, state, stored.writes, Own')
      BY <1>0, <2>1, <3>1, SoundRemovals DEF NoSets
    <3>3. /\ EndHydration(state')
          /\ Sound(queue[start], start, state', stored.writes, Own')
      BY <2>1, <3>2
    <3>. QED  BY <2>1, <3>1, <3>3, EndInvariant
  <2>. QED  BY <2>1, <2>2, <2>3
<1>8. CASE HydrateWritten
  <2>1. hasHydrated' /\ life # "down"
    BY <1>8 DEF HydrateWritten, StorageInvariant, ReadIsCurrent, Running
  <2>. QED  BY <1>6, <1>8, <2>1 DEF HydrateWritten, programVars, ghostVars
<1>9. CASE HydrateApply
  <2>1. /\ state' \in Merges /\ merged' = TRUE
        /\ UNCHANGED <<start, config, stored>>
        /\ hydration \in {"read", "migrating"} /\ life = "up"
    BY <1>9 DEF HydrateApply, ReadyToApply, Resumed
  <2>2. /\ stored.writes \subseteq state'
        /\ Sound(queue[start], start, state', stored.writes, Own')
    BY <2>1, MergesHold
  <2>3. CASE hasHydrated' = TRUE /\ EndHydration(state') /\ UNCHANGED life
    BY <2>1, <2>2, <2>3, EndInvariant
  <2>4. CASE /\ queue' = Enqueued(state', "writeBack")
             /\ hydration' = "writeBack"
             /\ UNCHANGED <<life, hasHydrated, pending>>
    <3>1. start \in Starts /\ state' \in SUBSET Writes
      BY <2>1 DEF StorageInvariant, Running, TypeOK
    <3>2. /\ OthersDone'
          /\ Sound(queue'[start], start, state', stored.writes, Own')
      BY <2>1, <2>2, <2>4, <3>1, EnqueueSound
    <3>3. QueueSound'
      BY <2>1, <3>2 DEF QueueSound
    <3>. QED  BY <2>1, <2>2, <2>4, <3>2, <3>3 DEF StorageInvariant,
              ShownWhileAlive, ReadIsCurrent, UnreadIsKept
  <2>5. CASE hydration' = "idle" /\ UNCHANGED queue
    <3>1. OthersDone' /\ QueueSound'
      BY <2>1, <2>2, <2>5 DEF StorageInvariant, OthersDone, QueueSound
    <3>. QED  BY <2>1, <2>2, <2>5, <3>1 DEF StorageInvariant, ShownWhileAlive,
              ReadIsCurrent, UnreadIsKept
  <2>. QED  BY <1>9, <2>3, <2>4, <2>5 DEF HydrateApply
<1>. QED  BY <1>2, <1>3, <1>4, <1>5, <1>7, <1>8, <1>9 DEF HydrationStep

\* The head of the queue: only the running program has one.
LEMMA HeadFacts ==
  ASSUME StorageInvariant, NEW i \in Starts, queue[i] # <<>>
  PROVE  /\ i = start
         /\ life # "down"
         /\ queue[start] \in Seq(Op)
         /\ 1 \in DOMAIN queue[start]
         /\ Head(queue[start]) = queue[start][1]
         /\ Sound(queue[start], start, state, stored.writes, Own)
<1>1. i = start /\ life # "down"
  BY DEF StorageInvariant, OthersDone, Running, QueuesEmpty
<1>2. queue[start] \in Seq(Op) /\ queue[start] # <<>>
  BY <1>1 DEF StorageInvariant, TypeOK
<1>3. 1 \in DOMAIN queue[start] /\ Head(queue[start]) = queue[start][1]
  BY <1>2
<1>. QED  BY <1>1, <1>2, <1>3 DEF StorageInvariant, QueueSound

\* Removing the head adds no state to a queue.
LEMMA TailNoSets ==
  ASSUME StorageInvariant, NEW i \in Starts, queue[i] # <<>>,
         queue' = [queue EXCEPT ![i] = Tail(@)], UNCHANGED start,
         NoSets(start)
  PROVE  NoSets(start)'
<1>1. i = start /\ queue[start] \in Seq(Op) /\ queue[start] # <<>>
  BY HeadFacts
<1>2. queue'[start] = Tail(queue[start])
  BY <1>1 DEF StorageInvariant, TypeOK
<1>3. \A n \in DOMAIN Tail(queue[start]) :
        /\ n + 1 \in DOMAIN queue[start]
        /\ Tail(queue[start])[n] = queue[start][n + 1]
  BY <1>1
<1>. QED  BY <1>2, <1>3 DEF NoSets

LEMMA QueueInvariant ==
  ASSUME StorageInvariant, TypeOK', Running', NEW i \in Starts,
         OpSettled(i)
  PROVE  StorageInvariant'
<1>. DEFINE q == queue[start]
            op == Head(q)
<1>1. /\ i = start /\ life # "down" /\ q \in Seq(Op) /\ q # <<>>
      /\ 1 \in DOMAIN q /\ op = q[1]
      /\ Sound(q, start, state, stored.writes, Own)
  BY HeadFacts DEF OpSettled
<1>2. /\ queue' = [queue EXCEPT ![i] = Tail(@)]
      /\ UNCHANGED <<life, start, config, state, raw, merged>>
      /\ Awaited(i, op)
      /\ hasHydrated => hasHydrated'
  BY <1>1, Zenon DEF OpSettled, programVars
<1>3. queue'[start] = Tail(q)
  BY <1>1, <1>2 DEF StorageInvariant, TypeOK
<1>4. OthersDone'
  BY <1>1, <1>2 DEF StorageInvariant, OthersDone, TypeOK
<1>5. hydration' \in {hydration, "written", "idle"}
      /\ (hydration' = "written" =>
             hydration = "written" \/ op.waiter = "writeBack")
  BY <1>2 DEF Awaited
<1>6. NoSets(start) => NoSets(start)'
  BY <1>1, <1>2, TailNoSets
<1>7. hydration' = "written" => hasHydrated'
  <2>1. CASE hydration = "written"
    BY <1>2, <2>1 DEF StorageInvariant, ReadIsCurrent
  <2>2. CASE op.waiter = "writeBack"
    BY <1>1, <2>2, Zenon DEF OpSettled
  <2>. QED  BY <1>5, <2>1, <2>2
<1>8. UnreadIsKept'
  BY <1>2, <1>6 DEF StorageInvariant, UnreadIsKept
<1>9. CASE UNCHANGED stored
  <2>1. UNCHANGED stored /\ Own' = Own
    BY <1>2, <1>9 DEF Own
  <2>2. \A n \in DOMAIN q :
          n > 1 /\ q[n].kind = "set" /\ Own =>
            stored.writes \subseteq q[n].item.writes
    BY <1>1 DEF Sound
  <2>3. Sound(Tail(q), start, state, stored.writes, Own)
    BY <1>1, <2>2, SoundTail
  <2>4. QueueSound' /\ ShownWhileAlive'
    BY <1>2, <1>3, <2>1, <2>3
       DEF StorageInvariant, QueueSound, ShownWhileAlive
  <2>5. ReadIsCurrent'
    BY <1>2, <1>5, <1>6, <1>7, <2>1 DEF StorageInvariant, ReadIsCurrent
  <2>. QED  BY <1>2, <1>4, <1>8, <2>1, <2>4, <2>5 DEF StorageInvariant
<1>10. CASE stored' = op.item
  <2>1. stored' = q[1].item
    BY <1>1, <1>10
  <2>2. \/ q[1].kind = "remove" /\ stored'.writes = {} /\ stored'.by = 0
        \/ /\ q[1].kind = "set" /\ stored'.by = start
           /\ stored'.writes \subseteq state
    BY <1>1, <2>1 DEF Sound, NoItem
  <2>3. stored'.by \in 0..start'
    BY <1>2, <2>2 DEF StorageInvariant, TypeOK, Starts
  <2>4. ASSUME NEW n \in DOMAIN q, n > 1, q[n].kind = "set"
        PROVE  stored'.writes \subseteq q[n].item.writes
    BY <1>1, <2>1, <2>2, <2>4 DEF Sound
  <2>5. Sound(Tail(q), start, state, stored'.writes, Own')
    BY <1>1, <2>4, SoundTail
  <2>6. QueueSound' /\ ShownWhileAlive'
    BY <1>2, <1>3, <2>2, <2>5 DEF QueueSound, ShownWhileAlive
  <2>7. NoSets(start) => stored'.writes = {}
    BY <1>1, <2>2 DEF NoSets
  <2>8. ReadIsCurrent'
    BY <1>2, <1>5, <1>6, <1>7, <2>7 DEF StorageInvariant, ReadIsCurrent
  <2>. QED  BY <1>2, <1>4, <1>8, <2>3, <2>6, <2>8 DEF StorageInvariant
<1>. QED  BY <1>1, <1>9, <1>10 DEF OpSettled

LEMMA CallInvariant ==
  ASSUME StorageInvariant, NoOverlap, TypeOK', Running',
         ClearStorage \/ Rehydrate \/ Write \/ Destroy \/ Start \/ Crash
  PROVE  StorageInvariant'
<1>0. life # "down" => Sound(queue[start], start, state, stored.writes, Own)
  BY DEF StorageInvariant, QueueSound
<1>1. CASE ClearStorage
  <2>. DEFINE op == [kind |-> "remove", item |-> NoItem, waiter |-> "none"]
  <2>1. /\ UNCHANGED <<life, start, config, state, hasHydrated, hydration, raw,
                       stored, merged>>
        /\ queue' = [queue EXCEPT ![start] = Append(@, op)]
        /\ life = "up"
    BY <1>1 DEF ClearStorage, programVars, hydrationVars
  <2>2. start \in Starts /\ queue[start] \in Seq(Op) /\ op \in Op
    BY <2>1 DEF StorageInvariant, Running, TypeOK, Op
  <2>3. queue'[start] = Append(queue[start], op)
    BY <2>1, <2>2 DEF StorageInvariant, TypeOK
  <2>4. op.kind = "remove" /\ op.item = NoItem
    OBVIOUS
  <2>5. OthersDone'
    BY <2>1 DEF StorageInvariant, OthersDone, TypeOK
  <2>. HIDE DEF op
  <2>6. Sound(queue'[start], start, state, stored.writes, Own)
    BY <1>0, <2>1, <2>2, <2>3, <2>4, SoundRemove
  <2>7. Own' = Own
    BY <2>1 DEF Own
  <2>8. QueueSound' /\ ShownWhileAlive'
    BY <2>1, <2>6, <2>7 DEF StorageInvariant, QueueSound, ShownWhileAlive
  <2>9. NoSets(start) => NoSets(start)'
    <3>1. \A n \in DOMAIN queue'[start] :
            queue'[start][n] = op \/ /\ n \in DOMAIN queue[start]
                                     /\ queue'[start][n] = queue[start][n]
      BY <2>2, <2>3
    <3>. QED  BY <2>1, <2>4, <3>1 DEF NoSets
  <2>. QED  BY <2>1, <2>5, <2>8, <2>9
            DEF StorageInvariant, ReadIsCurrent, UnreadIsKept
<1>2. CASE Rehydrate
  <2>1. /\ UNCHANGED <<life, start, config, state, hasHydrated, raw, queue,
                       stored, merged>>
        /\ hydration' = "reading" /\ NoSets(start)
    BY <1>2 DEF Rehydrate, StartRehydrate, NoOverlap, programVars
  <2>2. ReadIsCurrent'
    BY <2>1 DEF ReadIsCurrent, NoSets
  <2>. QED  BY <2>1, <2>2 DEF StorageInvariant, OthersDone, QueueSound, Sound,
            ShownWhileAlive, Own, UnreadIsKept, NoSets
<1>3. ASSUME Write
      PROVE  /\ life = "up" /\ state \subseteq state'
             /\ UNCHANGED <<life, start, config, hasHydrated, hydration, raw,
                            stored, merged>>
             /\ Own' = Own
             /\ Sound(queue[start], start, state', stored.writes, Own')
             /\ Own' => stored.writes \subseteq state'
  <2>1. /\ life = "up" /\ state \subseteq state'
        /\ UNCHANGED <<life, start, config, hasHydrated, hydration, raw,
                       stored, merged>>
    BY <1>3 DEF Write, programVars, hydrationVars
  <2>2. Own' = Own
    BY <2>1 DEF Own
  <2>3. Sound(queue[start], start, state', stored.writes, Own')
    BY <1>0, <2>1, <2>2, SoundGrown
  <2>4. Own' => stored.writes \subseteq state'
    BY <2>1, <2>2 DEF StorageInvariant, ShownWhileAlive
  <2>. QED  BY <2>1, <2>2, <2>3, <2>4
<1>4. ASSUME Write, UNCHANGED queue
      PROVE  StorageInvariant'
  <2>1. OthersDone' /\ QueueSound'
    BY <1>3, <1>4 DEF StorageInvariant, OthersDone, QueueSound
  <2>. QED  BY <1>3, <1>4, <2>1 DEF StorageInvariant, ShownWhileAlive,
            ReadIsCurrent, UnreadIsKept, NoSets
<1>5. CASE Write
  <2>1. CASE UNCHANGED queue
    BY <1>4, <1>5, <2>1
  <2>2. CASE queue' # queue
    <3>1. /\ hydration \notin Hydrating
          /\ config.skip \/ hasHydrated
          /\ queue' = Enqueued(state', "none")
      BY <1>5, <2>2 DEF Write, PersistState
    <3>2. start \in Starts /\ state' \in SUBSET Writes
      BY <1>3, <1>5 DEF StorageInvariant, Running, TypeOK
    <3>3. /\ OthersDone'
          /\ Sound(queue'[start], start, state', stored.writes, Own')
      BY <1>3, <1>5, <3>1, <3>2, EnqueueSound
    <3>4. QueueSound'
      BY <1>3, <1>5, <3>3 DEF QueueSound
    <3>5. ReadIsCurrent' /\ UnreadIsKept'
      BY <1>3, <1>5, <3>1 DEF StorageInvariant, ReadIsCurrent, UnreadIsKept,
                              Hydrating
    <3>. QED  BY <1>3, <1>5, <3>3, <3>4, <3>5
              DEF StorageInvariant, ShownWhileAlive
  <2>. QED  BY <2>1, <2>2
<1>6. CASE Destroy
  <2>1. /\ UNCHANGED <<start, config, state, hasHydrated, hydration, raw, queue,
                       stored, merged>>
        /\ life = "up"
    BY <1>6 DEF Destroy, hydrationVars
  <2>. QED  BY <2>1 DEF StorageInvariant, OthersDone, QueueSound, Sound,
            ShownWhileAlive, Own, ReadIsCurrent, UnreadIsKept, NoSets
<1>7. CASE Start
  <2>1. /\ UNCHANGED <<queue, stored>>
        /\ start' = start + 1 /\ merged' = FALSE /\ hydration' = "idle"
        /\ QueuesEmpty
    BY <1>7 DEF Start, NoOverlap
  <2>2. stored.by \in 0..start /\ start \in Nat
    BY DEF StorageInvariant, TypeOK, Starts
  <2>3. stored'.by \in 0..start' /\ ~Own'
    BY <2>1, <2>2 DEF Own
  <2>4. start' \in Starts
    BY <1>7 DEF Start, StorageInvariant, TypeOK, Starts
  <2>5. queue'[start'] = <<>> /\ OthersDone'
    BY <2>1, <2>4 DEF QueuesEmpty, OthersDone
  <2>6. QueueSound' /\ NoSets(start)'
    BY <2>5 DEF QueueSound, Sound, NoSets
  <2>. QED  BY <2>1, <2>3, <2>5, <2>6 DEF StorageInvariant, ShownWhileAlive,
            ReadIsCurrent, UnreadIsKept
<1>8. CASE Crash
  <2>1. /\ life' = "down" /\ hydration' = "idle"
        /\ queue' = [i \in Starts |-> <<>>] /\ UNCHANGED <<start, stored>>
    BY <1>8 DEF Crash
  <2>. QED  BY <2>1 DEF StorageInvariant, OthersDone, QueueSound,
            ShownWhileAlive, ReadIsCurrent, UnreadIsKept
<1>. QED  BY <1>1, <1>2, <1>5, <1>6, <1>7, <1>8

-----------------------------------------------------------------------------
(* The theorems *)

LEMMA InvariantStep ==
  ASSUME NoOverlap, StorageInvariant, [Next]_vars
  PROVE  StorageInvariant'
<1>1. CASE Next
  <2>1. TypeOK' /\ Running'
    BY <1>1, NextType, NextRunning DEF StorageInvariant
  <2>. QED  BY <1>1, <2>1, QueueInvariant, HydrationInvariant, CallInvariant
            DEF Next
<1>2. CASE UNCHANGED vars
  <2>1. TypeOK'
    BY <1>2, StutterType DEF StorageInvariant
  <2>. QED  BY <1>2, <2>1, StutterInvariant
            DEF vars, programVars, hydrationVars, ghostVars, queueView
<1>. QED  BY <1>1, <1>2

\* When storage is not read while states are queued for it, the store shows
\* all that storage holds, once it has read or written it.
THEOREM StoreShowsStorage ==
  ASSUME NoOverlap
  PROVE  Spec => []StoredIsShown
<1>1. StorageInvariant /\ [Next]_vars => StorageInvariant'
  BY InvariantStep
<1>2. StorageInvariant => StoredIsShown
  BY DEF StorageInvariant, ShownWhileAlive, Own, StoredIsShown
<1>. QED  BY <1>1, <1>2, InitInvariant, PTL DEF Spec

\* Storage loses nothing that the program has not read, and nothing that it
\* has.
LEMMA StorageKept ==
  ASSUME StorageInvariant, [Next]_vars
  PROVE  \/ stored.writes \subseteq stored'.writes
         \/ stored' = NoItem
         \/ hasHydrated /\ ~merged
         \/ config.skip /\ ~merged
<1>1. CASE UNCHANGED stored
  BY <1>1
<1>2. ASSUME NEW i \in Starts, OpSettled(i), stored' # stored
      PROVE  \/ stored.writes \subseteq stored'.writes
             \/ stored' = NoItem
             \/ hasHydrated /\ ~merged
             \/ config.skip /\ ~merged
  <2>. DEFINE q == queue[start]
  <2>1. /\ i = start /\ life # "down" /\ 1 \in DOMAIN q
        /\ Head(q) = q[1] /\ Sound(q, start, state, stored.writes, Own)
    BY <1>2, HeadFacts DEF OpSettled
  <2>2. stored' = q[1].item
    BY <1>2, <2>1 DEF OpSettled
  <2>3. CASE q[1].kind # "set"
    BY <2>1, <2>2, <2>3 DEF Sound
  <2>4. CASE q[1].kind = "set" /\ merged
    BY <2>1, <2>2, <2>4 DEF Sound, Own
  <2>5. CASE q[1].kind = "set" /\ ~merged
    <3>1. config.skip \/ hasHydrated
      BY <2>1, <2>5 DEF StorageInvariant, UnreadIsKept, NoSets
    <3>. QED  BY <2>5, <3>1
  <2>. QED  BY <2>3, <2>4, <2>5
<1>3. CASE stored' # stored
  <2>1. \E i \in Starts : OpSettled(i)
    BY <1>3 DEF Next, HydrationStep, ClearStorage, Rehydrate, Write, Destroy,
       Start, Crash, RunScheduled, StorageReads, HydrateNothing, Migrate,
       HydrateApply, HydrateWritten, HydrateDropped, vars
  <2>. QED  BY <1>2, <1>3, <2>1
<1>. QED  BY <1>1, <1>3

\* When storage is not read while states are queued for it, an item is only
\* replaced by one that holds as much, unless the program could not read it
\* or was told not to.
THEOREM StorageKeepsWhatItHolds ==
  ASSUME NoOverlap
  PROVE  Spec => StoredStaysStored
<1>1. StorageInvariant /\ [Next]_vars => StorageInvariant'
  BY InvariantStep
<1>2. StorageInvariant /\ [Next]_vars =>
        [\/ stored.writes \subseteq stored'.writes
         \/ stored' = NoItem
         \/ hasHydrated /\ ~merged
         \/ config.skip /\ ~merged]_vars
  BY StorageKept
<1>. QED  BY <1>1, <1>2, InitInvariant, PTL DEF Spec, StoredStaysStored

-----------------------------------------------------------------------------
(* Storage that was cleared *)

\* At most one operation is awaited, by a hydration that waits for it.
AwaitedOnce ==
  life # "down" =>
    \A n \in DOMAIN queue[start] :
      queue[start][n].waiter # "none" =>
        /\ hydration = queue[start][n].waiter
        /\ \A m \in DOMAIN queue[start] : queue[start][m].waiter # "none" => n = m

\* What is left to do after clearStorage ends in its own removal.
NothingAfterClear ==
  emptied =>
    /\ life # "down" /\ hydration \notin Hydrating
    /\ queue[start] = <<>> => stored = NoItem
    /\ queue[start] # <<>> => queue[start][Len(queue[start])].kind = "remove"

ClearInvariant == StorageInvariant /\ AwaitedOnce /\ NothingAfterClear

\* The operation that joins the queue of the program.
LEMMA QueuedLast ==
  ASSUME TypeOK, start \in Starts, NEW op,
         queue' = [queue EXCEPT ![start] = Append(@, op)]
  PROVE  /\ Len(queue[start]) \in Nat /\ DOMAIN queue[start] = 1 .. Len(queue[start])
         /\ DOMAIN queue'[start] = 1 .. Len(queue[start]) + 1
         /\ Len(queue'[start]) = Len(queue[start]) + 1 /\ queue'[start] # <<>>
         /\ \A n \in DOMAIN queue[start] : queue'[start][n] = queue[start][n]
         /\ queue'[start][Len(queue[start]) + 1] = op
<1>1. queue[start] \in Seq(Op) /\ queue'[start] = Append(queue[start], op)
  BY DEF TypeOK
<1>2. /\ Len(queue[start]) \in Nat /\ DOMAIN queue[start] = 1 .. Len(queue[start])
      /\ Len(Append(queue[start], op)) = Len(queue[start]) + 1
      /\ DOMAIN Append(queue[start], op) = 1 .. Len(queue[start]) + 1
      /\ \A n \in 1 .. Len(queue[start]) : Append(queue[start], op)[n] = queue[start][n]
      /\ Append(queue[start], op)[Len(queue[start]) + 1] = op
  BY <1>1, AppendProperties
<1>3. Append(queue[start], op) # <<>>
  BY <1>1, AppendProperties
<1>. QED  BY <1>1, <1>2, <1>3

LEMMA AwaitKinds ==
  ASSUME StorageInvariant, life # "down"
  PROVE  /\ start \in Starts /\ queue[start] \in Seq(Op)
         /\ \A n \in DOMAIN queue[start] :
              queue[start][n].waiter \in {"none", "writeBack", "flush"}
<1>1. start \in Starts /\ queue[start] \in Seq(Op)
  BY DEF StorageInvariant, Running, TypeOK
<1>2. \A n \in DOMAIN queue[start] : queue[start][n] \in Op
  BY <1>1, ElementOfSeq, LenProperties
<1>. QED  BY <1>1, <1>2 DEF Op

LEMMA QueuedAwaited ==
  ASSUME ClearInvariant, start \in Starts, life # "down", NEW op,
         queue' = [queue EXCEPT ![start] = Append(@, op)], UNCHANGED start,
         op.waiter = "none" => hydration' = hydration,
         op.waiter # "none" =>
           hydration' = op.waiter /\ hydration \notin {"none", "writeBack", "flush"}
  PROVE  AwaitedOnce'
<1>. DEFINE last == Len(queue[start]) + 1
<1>a. TypeOK
  BY DEF ClearInvariant, StorageInvariant
<1>b. /\ Len(queue[start]) \in Nat /\ DOMAIN queue[start] = 1 .. Len(queue[start])
      /\ DOMAIN queue'[start] = 1 .. last
      /\ \A n \in DOMAIN queue[start] : queue'[start][n] = queue[start][n]
      /\ queue'[start][last] = op
  BY <1>a, QueuedLast, Zenon
<1>1. /\ \A n \in DOMAIN queue'[start] : n \in DOMAIN queue[start] \/ n = last
      /\ \A n \in DOMAIN queue[start] : queue'[start][n] = queue[start][n]
      /\ queue'[start][last] = op
  BY <1>b
<1>. HIDE DEF last
<1>2. \A n \in DOMAIN queue[start] :
        queue[start][n].waiter # "none" =>
          /\ hydration = queue[start][n].waiter
          /\ \A m \in DOMAIN queue[start] : queue[start][m].waiter # "none" => n = m
  BY DEF ClearInvariant, AwaitedOnce
<1>3. CASE op.waiter # "none"
  <2>1. \A n \in DOMAIN queue[start] : queue[start][n].waiter \in {"none", "writeBack", "flush"}
    BY AwaitKinds DEF ClearInvariant
  <2>2. \A n \in DOMAIN queue'[start] : queue'[start][n].waiter # "none" => n = last
    BY <1>1, <1>2, <1>3, <2>1
  <2>. QED  BY <1>1, <1>3, <2>2 DEF AwaitedOnce
<1>4. CASE op.waiter = "none"
  <2>1. \A n \in DOMAIN queue'[start] :
          queue'[start][n].waiter # "none" =>
            n \in DOMAIN queue[start] /\ queue'[start][n] = queue[start][n]
    BY <1>1, <1>4
  <2>. QED  BY <1>2, <1>4, <2>1 DEF AwaitedOnce
<1>. QED  BY <1>3, <1>4

LEMMA EnqueuedAwaited ==
  ASSUME ClearInvariant, start \in Starts, life # "down", NEW content,
         NEW waiter, queue' = Enqueued(content, waiter), UNCHANGED start,
         waiter = "none" => hydration' = hydration,
         waiter # "none" =>
           hydration' = waiter /\ hydration \notin {"none", "writeBack", "flush"}
  PROVE  AwaitedOnce'
<1>. DEFINE op == [kind |-> "set",
                   item |-> [version |-> config.version, writes |-> content,
                             by |-> start],
                   waiter |-> waiter]
<1>1. queue' = [queue EXCEPT ![start] = Append(@, op)]
  BY DEF Enqueued
<1>2. op.waiter = waiter
  OBVIOUS
<1>. HIDE DEF op
<1>. QED  BY <1>1, <1>2, QueuedAwaited

\* A hydration that no longer waits for its write-back ends.
LEMMA EndAwaited ==
  ASSUME ClearInvariant, NEW content, EndHydration(content), UNCHANGED start,
         life # "down", hydration \in {"read", "migrating", "written"}
  PROVE  AwaitedOnce'
<1>1. CASE pending /\ life = "up"
  <2>1. /\ queue' = Enqueued(content, "flush") /\ hydration' = "flush"
        /\ start \in Starts
    BY <1>1 DEF EndHydration, ClearInvariant, StorageInvariant, Running
  <2>. QED  BY <2>1, EnqueuedAwaited
<1>2. CASE ~(pending /\ life = "up")
  <2>1. UNCHANGED queue
    BY <1>2, Zenon DEF EndHydration
  <2>2. \A n \in DOMAIN queue[start] : queue[start][n].waiter \in {"none", "writeBack", "flush"}
    BY AwaitKinds DEF ClearInvariant
  <2>4. \A n \in DOMAIN queue[start] : queue[start][n].waiter = "none"
    BY <2>2 DEF ClearInvariant, AwaitedOnce
  <2>. QED  BY <2>1, <2>4 DEF AwaitedOnce
<1>. QED  BY <1>1, <1>2

LEMMA ClearQueue ==
  ASSUME ClearInvariant, NEW i \in Starts, OpSettled(i)
  PROVE  AwaitedOnce' /\ NothingAfterClear'
<1>. DEFINE q == queue[start]
            op == Head(q)
<1>1. /\ i = start /\ life # "down" /\ q \in Seq(Op) /\ q # <<>>
      /\ 1 \in DOMAIN q /\ op = q[1]
      /\ Sound(q, start, state, stored.writes, Own)
  BY HeadFacts DEF OpSettled, ClearInvariant
<1>2. /\ queue' = [queue EXCEPT ![i] = Tail(@)]
      /\ UNCHANGED <<life, start>>
      /\ Awaited(i, op)
  BY <1>1, Zenon DEF OpSettled, programVars
<1>a. (stored' = op.item /\ emptied' = emptied) \/ emptied' = FALSE
  BY <1>1 DEF OpSettled
<1>3. queue'[start] = Tail(q)
  BY <1>1, <1>2 DEF ClearInvariant, StorageInvariant, TypeOK
<1>4. /\ Len(q) \in Nat \ {0} /\ DOMAIN q = 1 .. Len(q)
      /\ Len(Tail(q)) = Len(q) - 1 /\ DOMAIN Tail(q) = 1 .. Len(q) - 1
      /\ \A n \in 1 .. Len(q) - 1 : Tail(q)[n] = q[n + 1]
  BY <1>1, HeadTailProperties
<1>b. \A n \in DOMAIN Tail(q) :
        /\ n + 1 \in DOMAIN q /\ n \in Nat /\ n + 1 # 1
        /\ Tail(q)[n] = q[n + 1]
  BY <1>4
<1>5. /\ \A n \in DOMAIN q :
           q[n].waiter # "none" =>
             /\ hydration = q[n].waiter
             /\ \A m \in DOMAIN q : q[m].waiter # "none" => n = m
      /\ \A n \in DOMAIN q : q[n].kind = "remove" => q[n].item = NoItem
      /\ op \in Op
  BY <1>1 DEF ClearInvariant, AwaitedOnce, Sound
<1>6. emptied => hydration \notin Hydrating /\ q[Len(q)].kind = "remove"
  BY <1>1 DEF ClearInvariant, NothingAfterClear
<1>. HIDE DEF op, q
<1>7. ASSUME op.waiter = "none" PROVE AwaitedOnce'
  <2>1. hydration' = hydration
    BY <1>2, <1>7 DEF Awaited
  <2>2. \A n, m \in DOMAIN Tail(q) : n + 1 = m + 1 => n = m
    BY <1>b
  <2>3. \A n \in DOMAIN Tail(q) : Tail(q)[n].waiter # "none" =>
          /\ hydration = Tail(q)[n].waiter
          /\ \A m \in DOMAIN Tail(q) : Tail(q)[m].waiter # "none" => n = m
    BY <1>5, <1>b, <2>2
  <2>. QED  BY <1>2, <1>3, <2>1, <2>3 DEF AwaitedOnce
<1>8. ASSUME op.waiter # "none" PROVE AwaitedOnce'
  <2>1. \A n \in DOMAIN Tail(q) : Tail(q)[n].waiter = "none"
    BY <1>1, <1>5, <1>8, <1>b
  <2>. QED  BY <1>2, <1>3, <2>1 DEF AwaitedOnce
<1>9. AwaitedOnce'
  BY <1>7, <1>8
<1>10. ASSUME emptied' PROVE NothingAfterClear'
  <2>1. emptied /\ stored' = op.item
    BY <1>10, <1>a
  <2>2. hydration' \notin Hydrating
    <3>1. op.waiter # "writeBack"
      BY <1>1, <1>5, <1>6, <2>1 DEF Hydrating
    <3>2. hydration' \in {hydration, "idle"}
      BY <1>2, <3>1 DEF Awaited
    <3>. QED  BY <1>6, <2>1, <3>2 DEF Hydrating
  <2>3. CASE Len(q) = 1
    <3>1. stored' = NoItem
      BY <1>1, <1>5, <1>6, <2>1, <2>3
    <3>2. Tail(q) = <<>>
      BY <1>1, <1>4, <2>3, HeadTailProperties, EmptySeq
    <3>. QED  BY <1>1, <1>2, <1>3, <2>2, <3>1, <3>2 DEF NothingAfterClear
  <2>4. CASE Len(q) # 1
    <3>1. Len(q) - 1 \in DOMAIN Tail(q) /\ Len(Tail(q)) = Len(q) - 1 /\ Len(q) - 1 + 1 = Len(q)
      BY <1>4, <2>4
    <3>2. Tail(q)[Len(Tail(q))].kind = "remove"
      BY <1>6, <1>b, <2>1, <3>1
    <3>3. ASSUME Tail(q) = <<>> PROVE FALSE
      <4>1. DOMAIN Tail(q) = {}
        BY <3>3
      <4>. QED  BY <3>1, <4>1
    <3>. QED  BY <1>1, <1>2, <1>3, <2>2, <3>2, <3>3 DEF NothingAfterClear
  <2>. QED  BY <2>3, <2>4
<1>. QED  BY <1>9, <1>10 DEF NothingAfterClear

LEMMA ClearHydration ==
  ASSUME ClearInvariant, NoOverlap, HydrationStep
  PROVE  AwaitedOnce' /\ NothingAfterClear'
<1>1. ASSUME UNCHANGED <<life, start, queue, stored, emptied>>,
             \/ hydration' = hydration
             \/ /\ hydration \notin {"writeBack", "flush"}
                /\ hydration' \in Hydrating => hydration \in Hydrating
      PROVE  AwaitedOnce' /\ NothingAfterClear'
  <2>1. AwaitedOnce'
    <3>1. life # "down" => \A n \in DOMAIN queue[start] :
            queue[start][n].waiter \in {"none", "writeBack", "flush"}
      BY AwaitKinds DEF ClearInvariant
    <3>. QED  BY <1>1, <3>1 DEF ClearInvariant, AwaitedOnce
  <2>2. NothingAfterClear'
    BY <1>1 DEF ClearInvariant, NothingAfterClear
  <2>. QED  BY <2>1, <2>2
<1>2. ASSUME NEW content, EndHydration(content), UNCHANGED <<start, emptied>>,
             life # "down", hydration \in {"read", "migrating", "written"}
      PROVE  AwaitedOnce' /\ NothingAfterClear'
  <2>1. ~emptied
    BY <1>2 DEF ClearInvariant, NothingAfterClear, Hydrating
  <2>. QED  BY <1>2, <2>1, EndAwaited DEF NothingAfterClear
<1>3. CASE RunScheduled
  <2>1. UNCHANGED <<life, start, queue, stored>>
    BY <1>3 DEF RunScheduled, programVars
  <2>2. CASE life = "up" /\ hydration = "idle"
    <3>1. hydration' = "reading" /\ emptied' = FALSE
      BY <1>3, <2>2 DEF RunScheduled, StartRehydrate
    <3>3. \A n \in DOMAIN queue[start] :
            queue[start][n].waiter \in {"none", "writeBack", "flush"}
      BY <2>2, AwaitKinds DEF ClearInvariant
    <3>4. AwaitedOnce'
      BY <2>1, <2>2, <3>3 DEF ClearInvariant, AwaitedOnce
    <3>. QED  BY <3>1, <3>4 DEF NothingAfterClear
  <2>3. CASE ~(life = "up" /\ hydration = "idle")
    <3>1. UNCHANGED <<hydration, emptied>>
      BY <1>3, <2>3, Zenon DEF RunScheduled
    <3>. QED  BY <1>1, <2>1, <3>1
  <2>. QED  BY <2>2, <2>3
<1>4. CASE StorageReads
  BY <1>1, <1>4 DEF StorageReads, programVars, ghostVars, Hydrating
<1>5. CASE Migrate
  BY <1>1, <1>5 DEF Migrate, Resumed, programVars, ghostVars, Hydrating
<1>6. CASE HydrateDropped
  BY <1>1, <1>6 DEF HydrateDropped, programVars, ghostVars, Hydrating
<1>7. CASE HydrateNothing
  <2>1. /\ EndHydration(state) /\ UNCHANGED <<start, emptied>>
        /\ life = "up" /\ hydration \in {"read", "migrating"}
    BY <1>7 DEF HydrateNothing, Resumed, programVars
  <2>. QED  BY <1>2, <2>1
<1>8. CASE HydrateWritten
  <2>1. /\ EndHydration(state) /\ UNCHANGED <<start, emptied>> /\ hydration = "written"
    BY <1>8 DEF HydrateWritten, programVars, ghostVars
  <2>2. life # "down"
    BY <2>1 DEF ClearInvariant, StorageInvariant, Running
  <2>. QED  BY <1>2, <2>1, <2>2
<1>9. CASE HydrateApply
  <2>1. /\ life = "up" /\ hydration \in {"read", "migrating"}
        /\ UNCHANGED <<start, stored, emptied>>
    BY <1>9 DEF HydrateApply, ReadyToApply, Resumed
  <2>2. ~emptied'
    BY <2>1 DEF ClearInvariant, NothingAfterClear, Hydrating
  <2>3. CASE EndHydration(state')
    BY <1>2, <2>1, <2>3
  <2>4. CASE queue' = Enqueued(state', "writeBack") /\ hydration' = "writeBack"
    <3>1. start \in Starts
      BY <2>1 DEF ClearInvariant, StorageInvariant, Running
    <3>2. AwaitedOnce'
      BY <2>1, <2>4, <3>1, EnqueuedAwaited
    <3>. QED  BY <2>2, <3>2 DEF NothingAfterClear
  <2>5. CASE hydration' = "idle" /\ UNCHANGED queue
    <3>2. \A n \in DOMAIN queue[start] :
            queue[start][n].waiter \in {"none", "writeBack", "flush"}
      BY <2>1, AwaitKinds DEF ClearInvariant
    <3>3. AwaitedOnce'
      BY <2>1, <2>5, <3>2 DEF ClearInvariant, AwaitedOnce
    <3>. QED  BY <2>2, <3>3 DEF NothingAfterClear
  <2>. QED  BY <1>9, <2>3, <2>4, <2>5 DEF HydrateApply
<1>. QED  BY <1>3, <1>4, <1>5, <1>6, <1>7, <1>8, <1>9 DEF HydrationStep

LEMMA ClearCalls ==
  ASSUME ClearInvariant, NoOverlap,
         ClearStorage \/ Rehydrate \/ Write \/ Destroy \/ Start \/ Crash
  PROVE  AwaitedOnce' /\ NothingAfterClear'
<1>1. CASE ClearStorage
  <2>. DEFINE op == [kind |-> "remove", item |-> NoItem, waiter |-> "none"]
  <2>1. /\ UNCHANGED <<life, start, hydration>> /\ life = "up"
        /\ queue' = [queue EXCEPT ![start] = Append(@, op)]
        /\ emptied' => hydration \notin Hydrating
    BY <1>1 DEF ClearStorage, programVars, hydrationVars
  <2>2. op.kind = "remove" /\ op.waiter = "none"
    OBVIOUS
  <2>. HIDE DEF op
  <2>3. start \in Starts /\ TypeOK
    BY <2>1 DEF ClearInvariant, StorageInvariant, Running
  <2>4. AwaitedOnce'
    BY <2>1, <2>2, <2>3, QueuedAwaited
  <2>5. queue'[start] # <<>> /\ queue'[start][Len(queue'[start])] = op
    BY <2>1, <2>3, QueuedLast
  <2>6. NothingAfterClear'
    BY <2>1, <2>2, <2>5 DEF NothingAfterClear
  <2>. QED  BY <2>4, <2>6
<1>2. CASE Rehydrate
  <2>1. /\ UNCHANGED <<life, start, queue>> /\ emptied' = FALSE /\ life = "up"
        /\ hydration = "idle"
    BY <1>2 DEF Rehydrate, StartRehydrate, programVars
  <2>3. \A n \in DOMAIN queue[start] :
          queue[start][n].waiter \in {"none", "writeBack", "flush"}
    BY <2>1, AwaitKinds DEF ClearInvariant
  <2>. QED  BY <2>1, <2>3 DEF ClearInvariant, AwaitedOnce, NothingAfterClear
<1>3. CASE Write
  <2>1. /\ UNCHANGED <<life, start, hydration>> /\ emptied' = FALSE /\ life = "up"
        /\ UNCHANGED queue \/ queue' = Enqueued(state', "none")
    BY <1>3 DEF Write, PersistState, programVars, hydrationVars
  <2>2. start \in Starts
    BY <2>1 DEF ClearInvariant, StorageInvariant, Running
  <2>3. CASE UNCHANGED queue
    BY <2>1, <2>3 DEF ClearInvariant, AwaitedOnce, NothingAfterClear
  <2>4. CASE queue' = Enqueued(state', "none")
    BY <2>1, <2>2, <2>4, EnqueuedAwaited DEF NothingAfterClear
  <2>. QED  BY <2>1, <2>3, <2>4
<1>4. CASE Destroy
  BY <1>4 DEF Destroy, hydrationVars, ClearInvariant, AwaitedOnce, NothingAfterClear
<1>5. CASE Start
  <2>1. /\ UNCHANGED queue /\ emptied' = FALSE /\ QueuesEmpty /\ start' \in Starts
    BY <1>5 DEF Start, NoOverlap, ClearInvariant, StorageInvariant, TypeOK, Starts
  <2>2. queue'[start'] = <<>>
    BY <2>1 DEF QueuesEmpty
  <2>. QED  BY <2>1, <2>2 DEF AwaitedOnce, NothingAfterClear
<1>6. CASE Crash
  BY <1>6 DEF Crash, AwaitedOnce, NothingAfterClear
<1>. QED  BY <1>1, <1>2, <1>3, <1>4, <1>5, <1>6

LEMMA ClearStep ==
  ASSUME NoOverlap, ClearInvariant, [Next]_vars
  PROVE  ClearInvariant'
<1>1. StorageInvariant'
  BY InvariantStep DEF ClearInvariant
<1>2. CASE Next
  <2>1. AwaitedOnce' /\ NothingAfterClear'
    BY <1>2, ClearQueue, ClearHydration, ClearCalls DEF Next
  <2>. QED  BY <1>1, <2>1 DEF ClearInvariant
<1>3. CASE UNCHANGED vars
  <2>1. UNCHANGED <<life, start, queue, stored, emptied, hydration>>
    BY <1>3 DEF vars, programVars, hydrationVars, ghostVars
  <2>. QED  BY <1>1, <2>1 DEF ClearInvariant, AwaitedOnce, NothingAfterClear
<1>. QED  BY <1>2, <1>3

\* When a program starts only after the operations of the one before it are
\* done, storage ends up empty after clearStorage, unless something is written
\* or hydrated after it, whatever was queued before and whatever fails.
THEOREM ClearIsFinal ==
  ASSUME NoOverlap
  PROVE  Spec => []ClearedStaysCleared
<1>1. Init => ClearInvariant
  BY InitInvariant DEF Init, ClearInvariant, AwaitedOnce, NothingAfterClear
<1>2. ClearInvariant /\ [Next]_vars => ClearInvariant'
  BY ClearStep
<1>3. ClearInvariant => ClearedStaysCleared
  BY DEF ClearInvariant, StorageInvariant, Running, NothingAfterClear, QueuesEmpty,
         ClearedStaysCleared
<1>. QED  BY <1>1, <1>2, <1>3, PTL DEF Spec

=============================================================================
