------------------------- MODULE SyncOutboxProofs -------------------------
(***************************************************************************)
(* Proofs about SyncOutbox for every number of mutations and every setup.  *)
(***************************************************************************)
EXTENDS SyncOutbox, SequenceTheorems, WellFoundedInduction, TLAPS

USE SyncAssumption

-----------------------------------------------------------------------------
(* Sequences of mutations.                                                 *)

\* Induction over the numbers up to n, with a set for a predicate: a smallest
\* number that is not in T would be a contradiction.
LEMMA Induction ==
  ASSUME NEW T, NEW n \in Nat, 0 \in T, \A i \in 0 .. n - 1 : i \in T => i + 1 \in T
  PROVE  0 .. n \subseteq T
<1>. DEFINE Less == {p \in Nat \X Nat : p[1] < p[2]}
            Left == {i \in Nat : i <= n /\ i \notin T}
<1>1. IsWellFoundedOn(Less, Nat)
  <2>1. Less = OpToRel(<, Nat)
    BY Zenon DEF OpToRel
  <2>. QED  BY <2>1, NatLessThanWellFounded, Zenon
<1>2. SUFFICES ASSUME Left # {} PROVE FALSE
  OBVIOUS
<1>3. PICK i \in Left : \A j \in Left : ~(<<j, i>> \in Less)
  BY <1>1, <1>2, WFMin
<1>4. i # 0 /\ i - 1 \in 0 .. n - 1 /\ <<i - 1, i>> \in Less
  BY <1>3
<1>5. i - 1 \in T
  BY <1>3, <1>4
<1>. QED  BY <1>3, <1>4, <1>5

LEMMA ToSetOfConcat ==
  ASSUME NEW S, NEW s \in Seq(S), NEW t \in Seq(S)
  PROVE  /\ s \o t \in Seq(S)
         /\ ToSet(s \o t) = ToSet(s) \cup ToSet(t)
<1>1. /\ s \o t \in Seq(S)
      /\ Len(s \o t) = Len(s) + Len(t)
      /\ \A i \in 1 .. Len(s) + Len(t) :
           (s \o t)[i] = IF i <= Len(s) THEN s[i] ELSE t[i - Len(s)]
  BY ConcatProperties
<1>2. /\ DOMAIN s = 1 .. Len(s) /\ Len(s) \in Nat
      /\ DOMAIN t = 1 .. Len(t) /\ Len(t) \in Nat
      /\ DOMAIN (s \o t) = 1 .. Len(s) + Len(t)
  BY <1>1, LenProperties
<1>3. ASSUME NEW i \in DOMAIN s PROVE s[i] \in ToSet(s \o t)
  <2>1. i \in DOMAIN (s \o t) /\ (s \o t)[i] = s[i]
    BY <1>1, <1>2
  <2>. QED  BY <2>1 DEF ToSet
<1>4. ASSUME NEW i \in DOMAIN t PROVE t[i] \in ToSet(s \o t)
  <2>1. i + Len(s) \in DOMAIN (s \o t) /\ (s \o t)[i + Len(s)] = t[i]
    BY <1>1, <1>2
  <2>. QED  BY <2>1 DEF ToSet
<1>5. ASSUME NEW i \in DOMAIN (s \o t) PROVE (s \o t)[i] \in ToSet(s) \cup ToSet(t)
  <2>1. CASE i <= Len(s)
    BY <1>1, <1>2, <2>1 DEF ToSet
  <2>2. CASE ~(i <= Len(s))
    <3>1. i - Len(s) \in DOMAIN t
      BY <1>2, <2>2
    <3>. QED  BY <1>1, <1>2, <2>2, <3>1 DEF ToSet
  <2>. QED  BY <2>1, <2>2
<1>. QED  BY <1>1, <1>3, <1>4, <1>5 DEF ToSet

LEMMA ToSetOfAppend ==
  ASSUME NEW S, NEW s \in Seq(S), NEW x \in S
  PROVE  /\ Append(s, x) \in Seq(S)
         /\ ToSet(Append(s, x)) = ToSet(s) \cup {x}
<1>1. /\ Append(s, x) \in Seq(S)
      /\ Len(Append(s, x)) = Len(s) + 1
      /\ \A i \in 1 .. Len(s) : Append(s, x)[i] = s[i]
      /\ Append(s, x)[Len(s) + 1] = x
  BY AppendProperties
<1>2. DOMAIN s = 1 .. Len(s) /\ Len(s) \in Nat
  BY LenProperties
<1>3. DOMAIN Append(s, x) = 1 .. Len(s) + 1
  BY <1>1, LenProperties
<1>. QED  BY <1>1, <1>2, <1>3 DEF ToSet

LEMMA ToSetOfEmpty == ToSet(<<>>) = {}
BY DEF ToSet

LEMMA ToSetType ==
  ASSUME NEW S, NEW s \in Seq(S)
  PROVE  ToSet(s) \subseteq S
BY ElementOfSeq, LenProperties DEF ToSet

\* What the function in Without makes of its own values up to n.
Keeping(kept, s, gone, n) ==
  [i \in 0 .. n |-> IF i = 0 THEN <<>>
                    ELSE IF s[i] \in gone THEN kept[i - 1]
                                          ELSE Append(kept[i - 1], s[i])]

LEMMA KeptExists ==
  ASSUME NEW S, NEW s \in Seq(S), NEW gone
  PROVE  \E kept : kept = Keeping(kept, s, gone, Len(s))
<1>. DEFINE Body(f, n) == Keeping(f, s, gone, n)
            T == {n \in 0 .. Len(s) : \E f : f = Body(f, n)}
<1>1. Len(s) \in Nat
  BY LenProperties
<1>2. 0 \in T
  <2>. DEFINE f == [i \in 0 .. 0 |-> <<>>]
  <2>1. ASSUME NEW i \in 0 .. 0 PROVE f[i] = Body(f, 0)[i]
    BY <2>1 DEF Keeping
  <2>2. f = Body(f, 0)
    BY <2>1 DEF Keeping
  <2>3. \E g : g = Body(g, 0)
    BY <2>2
  <2>. QED  BY <1>1, <2>3
<1>3. ASSUME NEW n \in 0 .. Len(s) - 1, n \in T PROVE n + 1 \in T
  <2>1. PICK f : f = Body(f, n)
    BY <1>3
  <2>. DEFINE next == IF s[n + 1] \in gone THEN f[n] ELSE Append(f[n], s[n + 1])
              g == [i \in 0 .. n + 1 |-> IF i = n + 1 THEN next ELSE f[i]]
  <2>2. n \in Nat /\ \A i \in 0 .. n + 1 : i = n + 1 \/ i \in 0 .. n
    BY <1>3
  <2>. HIDE DEF next
  <2>3. \A i \in 0 .. n + 1 : g[i] = IF i = n + 1 THEN next ELSE f[i]
    OBVIOUS
  <2>4. ASSUME NEW i \in 0 .. n + 1 PROVE g[i] = Body(g, n + 1)[i]
    <3>1. CASE i = 0
      <4>1. f[0] = <<>>
        <5>1. 0 \in 0 .. n
          BY <2>2
        <5>. QED  BY <2>1, <5>1 DEF Keeping
      <4>. QED  BY <2>2, <2>3, <3>1, <4>1 DEF Keeping
    <3>2. CASE i \in 1 .. n
      <4>1. i - 1 \in 0 .. n + 1 /\ i - 1 # n + 1 /\ i \in 0 .. n /\ i # 0
            /\ i # n + 1
        BY <2>2, <3>2
      <4>2. f[i] = Body(f, n)[i]
        BY <2>1, Zenon
      <4>3. f[i] = IF s[i] \in gone THEN f[i - 1] ELSE Append(f[i - 1], s[i])
        BY <4>1, <4>2 DEF Keeping
      <4>. QED  BY <2>3, <4>1, <4>3 DEF Keeping
    <3>3. CASE i = n + 1
      <4>1. i # 0 /\ i - 1 = n /\ n \in 0 .. n + 1 /\ n # n + 1
        BY <2>2, <3>3
      <4>2. g[n] = f[n] /\ g[i] = next
        BY <2>3, <3>3, <4>1
      <4>. QED  BY <3>3, <4>1, <4>2 DEF next, Keeping
    <3>. QED  BY <2>2, <3>1, <3>2, <3>3
  <2>5. g = Body(g, n + 1)
    BY <2>4 DEF Keeping
  <2>. HIDE DEF g
  <2>6. \E h : h = Body(h, n + 1)
    BY <2>5
  <2>7. n + 1 \in 0 .. Len(s)
    BY <1>1, <1>3
  <2>. QED  BY <2>6, <2>7
<1>4. \A n \in 0 .. Len(s) - 1 : n \in T => n + 1 \in T
  BY <1>3
<1>5. Len(s) \in T
  <2>. HIDE DEF T
  <2>1. 0 .. Len(s) \subseteq T
    BY <1>1, <1>2, <1>4, Induction
  <2>. QED  BY <1>1, <2>1
<1>. QED  BY <1>5

LEMMA ToSetOfWithout ==
  ASSUME NEW S, NEW s \in Seq(S), NEW gone
  PROVE  /\ Without(s, gone) \in Seq(S)
         /\ ToSet(Without(s, gone)) = ToSet(s) \ gone
<1>. DEFINE kept == CHOOSE f : f = Keeping(f, s, gone, Len(s))
            Prefix(n) == {s[i] : i \in 1 .. n}
            T == {n \in 0 .. Len(s) : /\ kept[n] \in Seq(S)
                                      /\ ToSet(kept[n]) = Prefix(n) \ gone}
<1>1. Without(s, gone) = kept[Len(s)]
  BY DEF Without, Keeping
<1>2. kept = Keeping(kept, s, gone, Len(s))
  BY KeptExists
<1>3. Len(s) \in Nat /\ DOMAIN s = 1 .. Len(s) /\ \A i \in 1 .. Len(s) : s[i] \in S
  BY LenProperties, ElementOfSeq
<1>. HIDE DEF kept
<1>4. 0 \in T
  BY <1>2, <1>3, ToSetOfEmpty, EmptySeq DEF Keeping
<1>5. ASSUME NEW n \in 0 .. Len(s) - 1, n \in T PROVE n + 1 \in T
  <2>1. n + 1 \in 0 .. Len(s) /\ n + 1 # 0 /\ n + 1 \in 1 .. Len(s) /\ (n + 1) - 1 = n
    BY <1>3
  <2>2. kept[n + 1] = IF s[n + 1] \in gone THEN kept[n] ELSE Append(kept[n], s[n + 1])
    BY <1>2, <2>1 DEF Keeping
  <2>3. Prefix(n + 1) = Prefix(n) \cup {s[n + 1]}
    BY <1>3
  <2>4. kept[n] \in Seq(S) /\ ToSet(kept[n]) = Prefix(n) \ gone
    BY <1>5
  <2>5. kept[n + 1] \in Seq(S) /\ ToSet(kept[n + 1]) = Prefix(n + 1) \ gone
    <3>1. CASE s[n + 1] \in gone
      BY <2>2, <2>3, <2>4, <3>1
    <3>2. CASE s[n + 1] \notin gone
      <4>1. /\ Append(kept[n], s[n + 1]) \in Seq(S)
            /\ ToSet(Append(kept[n], s[n + 1])) = ToSet(kept[n]) \cup {s[n + 1]}
        BY <1>3, <2>1, <2>4, ToSetOfAppend
      <4>. QED  BY <2>2, <2>3, <2>4, <3>2, <4>1
    <3>. QED  BY <3>1, <3>2
  <2>. QED  BY <2>1, <2>5
<1>a. \A n \in 0 .. Len(s) - 1 : n \in T => n + 1 \in T
  BY <1>5
<1>. HIDE DEF T
<1>6. Len(s) \in T
  <2>1. 0 .. Len(s) \subseteq T
    BY <1>3, <1>4, <1>a, Induction
  <2>. QED  BY <1>3, <2>1
<1>7. kept[Len(s)] \in Seq(S) /\ ToSet(kept[Len(s)]) = Prefix(Len(s)) \ gone
  BY <1>6 DEF T
<1>. QED  BY <1>1, <1>3, <1>7 DEF ToSet

LEMMA ToSetOfMerge ==
  ASSUME NEW S, NEW left \in Seq(S), NEW right \in Seq(S)
  PROVE  /\ Merge(left, right) \in Seq(S)
         /\ ToSet(Merge(left, right)) = ToSet(left) \cup ToSet(right)
BY ToSetOfWithout, ToSetOfConcat DEF Merge
-----------------------------------------------------------------------------
(* The queue of writes.                                                    *)

\* The same writes, for some of which more flushes or the hydration wait.
SameWrites ==
  /\ writeQueue' \in Seq(Writes)
  /\ DOMAIN writeQueue' = DOMAIN writeQueue
  /\ \A i \in DOMAIN writeQueue :
       /\ writeQueue'[i].key = writeQueue[i].key
       /\ writeQueue'[i].content = writeQueue[i].content
       /\ writeQueue'[i].started = writeQueue[i].started
       /\ writeQueue'[i].waiters
            \subseteq writeQueue[i].waiters \cup {"flush", "hydrate"}

LEMMA UnchangedWrites ==
  ASSUME TypeOK, writeQueue' = writeQueue
  PROVE  SameWrites
BY DEF TypeOK, SameWrites

LEMMA QueueShape ==
  ASSUME TypeOK
  PROVE  /\ Len(writeQueue) \in Nat
         /\ DOMAIN writeQueue = 1 .. Len(writeQueue)
         /\ \A i \in 1 .. Len(writeQueue) : writeQueue[i] \in Writes
         /\ writeQueue # <<>> => /\ Len(writeQueue) > 0
                                 /\ Head(writeQueue) = writeQueue[1]
                                 /\ Head(writeQueue) \in Writes
BY LenProperties, ElementOfSeq, EmptySeq DEF TypeOK

LEMMA AppendedWrite ==
  ASSUME TypeOK, NEW w \in Writes, writeQueue' = Append(writeQueue, w)
  PROVE  /\ writeQueue' \in Seq(Writes)
         /\ DOMAIN writeQueue' = 1 .. Len(writeQueue) + 1
         /\ \A i \in 1 .. Len(writeQueue) : writeQueue'[i] = writeQueue[i]
         /\ writeQueue'[Len(writeQueue) + 1] = w
<1>1. writeQueue \in Seq(Writes) /\ Len(writeQueue) \in Nat
  BY LenProperties DEF TypeOK
<1>2. /\ writeQueue' \in Seq(Writes)
      /\ Len(writeQueue') = Len(writeQueue) + 1
      /\ \A i \in 1 .. Len(writeQueue) : writeQueue'[i] = writeQueue[i]
      /\ writeQueue'[Len(writeQueue) + 1] = w
  BY <1>1, AppendProperties
<1>. QED  BY <1>1, <1>2, LenProperties

\* The last write has one more continuation.
LEMMA AwaitedWrite ==
  ASSUME TypeOK, writeQueue # <<>>, NEW who \in {"flush", "hydrate"},
         writeQueue' = [writeQueue EXCEPT ![Len(writeQueue)].waiters = @ \cup {who}]
  PROVE  SameWrites
<1>1. /\ Len(writeQueue) \in Nat \ {0} /\ writeQueue \in Seq(Writes)
      /\ DOMAIN writeQueue = 1 .. Len(writeQueue)
      /\ \A i \in 1 .. Len(writeQueue) : writeQueue[i] \in Writes
  BY QueueShape DEF TypeOK
<1>. DEFINE last == writeQueue[Len(writeQueue)]
            w == [last EXCEPT !.waiters = @ \cup {who}]
<1>2. last \in Writes
  BY <1>1
<1>. HIDE DEF last
<1>3. /\ w \in Writes /\ w.key = last.key /\ w.content = last.content
      /\ w.started = last.started /\ w.waiters = last.waiters \cup {who}
  BY <1>2 DEF Writes, Waiters
<1>. HIDE DEF w
<1>4. writeQueue' = [writeQueue EXCEPT ![Len(writeQueue)] = w]
  BY DEF w, last
<1>5. writeQueue' \in Seq(Writes) /\ DOMAIN writeQueue' = DOMAIN writeQueue
  <2>1. writeQueue' \in [1 .. Len(writeQueue) -> Writes]
    BY <1>1, <1>3, <1>4
  <2>. QED  BY <1>1, <2>1 DEF Seq
<1>6. \A i \in 1 .. Len(writeQueue) :
        writeQueue'[i] = IF i = Len(writeQueue) THEN w ELSE writeQueue[i]
  BY <1>1, <1>4
<1>. QED  BY <1>1, <1>3, <1>5, <1>6 DEF SameWrites, last

LEMMA FirstRemoved ==
  ASSUME TypeOK, writeQueue # <<>>, writeQueue' = Tail(writeQueue)
  PROVE  /\ writeQueue' \in Seq(Writes)
         /\ DOMAIN writeQueue' = 1 .. Len(writeQueue) - 1
         /\ \A i \in DOMAIN writeQueue' :
              writeQueue'[i] = writeQueue[i + 1] /\ i + 1 \in DOMAIN writeQueue
<1>1. Len(writeQueue) \in Nat \ {0} /\ DOMAIN writeQueue = 1 .. Len(writeQueue)
      /\ writeQueue \in Seq(Writes)
  BY QueueShape DEF TypeOK
<1>2. /\ Tail(writeQueue) \in Seq(Writes)
      /\ Len(Tail(writeQueue)) = Len(writeQueue) - 1
      /\ \A i \in 1 .. Len(Tail(writeQueue)) : Tail(writeQueue)[i] = writeQueue[i + 1]
  BY <1>1, HeadTailProperties
<1>3. DOMAIN writeQueue' = 1 .. Len(writeQueue) - 1
  BY <1>2, LenProperties
<1>. QED  BY <1>1, <1>2, <1>3

LEMMA StateType ==
  ASSUME TypeOK
  PROVE  /\ State \in Checkpoints
         /\ \A key \in {"main", "journal"}, c \in Checkpoints, who \in Waiters :
              Write(key, c, who) \in Writes
BY DEF TypeOK, State, Checkpoints, Write, Writes

LEMMA AwaitEffect ==
  ASSUME TypeOK, NEW pending \in SUBSET due, Await(writeQueue, pending)
  PROVE  /\ SameWrites
         /\ due' \subseteq due \cup [who: {"flush"}, ok: BOOLEAN]
         /\ \A r \in due' : r \in pending \/ r.who = "flush"
<1>1. CASE writeQueue = <<>>
  <2>1. /\ writeQueue' = writeQueue
        /\ due' = pending \cup {[who |-> "flush", ok |-> ~failed]}
    BY <1>1 DEF Await
  <2>2. [who |-> "flush", ok |-> ~failed] \in [who: {"flush"}, ok: BOOLEAN]
    OBVIOUS
  <2>3. due' \subseteq due \cup [who: {"flush"}, ok: BOOLEAN]
    BY <2>1, <2>2
  <2>4. \A r \in due' : r \in pending \/ r.who = "flush"
    BY <2>1
  <2>. QED  BY <2>1, <2>3, <2>4, UnchangedWrites
<1>2. CASE writeQueue # <<>>
  <2>1. /\ writeQueue' = [writeQueue EXCEPT
             ![Len(writeQueue)].waiters = @ \cup {"flush"}]
        /\ due' = pending
    BY <1>2 DEF Await
  <2>. QED  BY <1>2, <2>1, AwaitedWrite
<1>. QED  BY <1>1, <1>2

\* Flush, wherever it is called, changes the flush, who waits for the last
\* write, and who is due.
LEMMA FlushEffect ==
  ASSUME TypeOK, NEW pending \in SUBSET due, Flush(writeQueue, pending)
  PROVE  /\ SameWrites
         /\ due' \subseteq due \cup [who: {"flush"}, ok: BOOLEAN]
         /\ \A r \in due' : r \in pending \/ r.who = "flush"
<1>1. \/ Await(writeQueue, pending)
      \/ writeQueue' = writeQueue /\ due' = pending
  BY DEF Flush
<1>. QED  BY <1>1, AwaitEffect, UnchangedWrites

-----------------------------------------------------------------------------
(* Types.                                                                  *)

LEMMA SameTypes ==
  ASSUME UNCHANGED setup
  PROVE  /\ Facts' = Facts /\ Checkpoints' = Checkpoints /\ Writes' = Writes
         /\ Results' = Results /\ Flushes' = Flushes /\ Pulls' = Pulls
         /\ MaxFacts' = MaxFacts /\ MaxSessions' = MaxSessions
         /\ MaxFaults' = MaxFaults /\ Faults' = Faults /\ Realtime' = Realtime
BY DEF Facts, Checkpoints, Writes, Results, Flushes, Pulls, MaxFacts,
       MaxSessions, MaxFaults, Faults, Realtime

LEMMA Bounds ==
  ASSUME setup \in Setups
  PROVE  /\ MaxFacts \in Nat /\ MaxSessions \in Nat /\ MaxFaults \in Nat
         /\ 0 \in Facts /\ setup.mutations \in 0 .. MaxMutations
         /\ PullAttempts \in Nat /\ Realtime \in BOOLEAN
<1>1. setup \in SetupType
  OBVIOUS
<1>. QED  BY <1>1 DEF SetupType, MaxFacts, MaxSessions, MaxFaults, Facts, PullAttempts,
                      Realtime

LEMMA SmallTypes ==
  ASSUME TypeOK
  PROVE  /\ NoFlush \in Flushes /\ NoFlush.pc = "idle" /\ NoFlush.ack = {}
         /\ [NoFlush EXCEPT !.pc = "waiting"] \in Flushes
         /\ NoPull \in Pulls /\ NoPull.pc = "idle"
         /\ Nothing \in [Mutations -> Nat]
         /\ \A attempt \in Nat, resume \in BOOLEAN : Asking(attempt, resume) \in Pulls
<1>1. 0 \in Facts
  BY Bounds DEF TypeOK
<1>2. NoFlush \in Flushes
  BY <1>1 DEF Flushes, NoFlush
<1>3. [NoFlush EXCEPT !.pc = "waiting"] \in Flushes
  BY <1>2 DEF Flushes
<1>4. NoPull \in Pulls
  BY <1>1 DEF Pulls, NoPull
<1>5. \A attempt \in Nat, resume \in BOOLEAN : Asking(attempt, resume) \in Pulls
  BY <1>4 DEF Pulls, Asking
<1>6. NoFlush.pc = "idle" /\ NoFlush.ack = {} /\ NoPull.pc = "idle"
  BY DEF NoFlush, NoPull
<1>. QED  BY <1>2, <1>3, <1>4, <1>5, <1>6 DEF Nothing

LEMMA FaultTyped ==
  ASSUME TypeOK, NEW kind, Fault(kind)
  PROVE  faults' \in 0 .. MaxFaults /\ sessions' = sessions
BY Bounds DEF TypeOK, Fault

LEMMA RetryTyped == ASSUME Retry PROVE timer' \in BOOLEAN
BY DEF Retry, Open

\* What Flush does to the flush in progress.
LEMMA FlushKept ==
  ASSUME TypeOK, NEW pending, Flush(writeQueue, pending)
  PROVE  /\ flush' \in Flushes
         /\ flush'.ack \subseteq flush.ack
         /\ flush'.pc # "idle" => flush.pc # "idle" \/ life = "ready"
<1>1. \/ flush' = flush
      \/ flush' = [NoFlush EXCEPT !.pc = "waiting"] /\ life = "ready"
  BY DEF Flush
<1>2. [NoFlush EXCEPT !.pc = "waiting"].ack = {}
  BY DEF NoFlush
<1>. QED  BY <1>1, <1>2, SmallTypes DEF TypeOK

\* ... and what Resume does.
LEMMA ResumeEffect ==
  ASSUME TypeOK, NEW pending \in SUBSET due, NEW result \in Results, NEW ok \in BOOLEAN,
         Resume(result, ok, writeQueue, pending)
  PROVE  /\ SameWrites
         /\ due' \subseteq due \cup [who: {"flush"}, ok: BOOLEAN]
         /\ \A r \in due' : r \in pending \/ r.who = "flush"
         /\ flush' \in Flushes /\ flush'.ack \subseteq flush.ack
         /\ pull' \in Pulls
         /\ timer' \in BOOLEAN /\ pullOwed' \in BOOLEAN
         /\ pull'.pc # "idle" => pull.pc # "idle"
<1>1. NoFlush \in Flushes /\ NoFlush.ack = {} /\ NoPull \in Pulls /\ NoPull.pc = "idle"
  BY SmallTypes
<1>2. flush \in Flushes /\ pull \in Pulls /\ timer \in BOOLEAN /\ pullOwed \in BOOLEAN
  BY DEF TypeOK
<1>3. [flush EXCEPT !.pc = "waiting", !.sent = {}] \in Flushes
      /\ [flush EXCEPT !.pc = "waiting", !.sent = {}].ack = flush.ack
  BY <1>2 DEF Flushes
<1>4. Retry => timer' \in BOOLEAN
  BY DEF Retry, Open
<1>5. CASE result.who = "push" /\ ok
  <2>1. /\ flush' = [flush EXCEPT !.pc = "waiting", !.sent = {}]
        /\ Await(writeQueue, pending) /\ UNCHANGED <<pull, retryVars>>
    BY <1>5 DEF Resume
  <2>2. /\ SameWrites
        /\ due' \subseteq due \cup [who: {"flush"}, ok: BOOLEAN]
        /\ \A r \in due' : r \in pending \/ r.who = "flush"
    BY <2>1, AwaitEffect
  <2>. QED  BY <1>2, <1>3, <2>1, <2>2 DEF retryVars
<1>6. CASE result.who = "push" /\ ~ok
  <2>1. /\ flush' = NoFlush /\ writeQueue' = writeQueue /\ due' = pending
        /\ Retry /\ UNCHANGED <<pull, pullOwed>>
    BY <1>6 DEF Resume
  <2>. QED  BY <1>1, <1>2, <1>4, <2>1, UnchangedWrites
<1>7. CASE result.who = "pull" /\ ok
  <2>1. /\ pull' = NoPull /\ pullOwed' = FALSE /\ timer' = FALSE
        /\ \/ Flush(writeQueue, pending)
           \/ writeQueue' = writeQueue /\ due' = pending /\ flush' = flush
    BY <1>7 DEF Resume
  <2>2. CASE Flush(writeQueue, pending)
    BY <1>1, <2>1, <2>2, FlushEffect, FlushKept
  <2>3. CASE writeQueue' = writeQueue /\ due' = pending /\ flush' = flush
    BY <1>1, <1>2, <2>1, <2>3, UnchangedWrites
  <2>. QED  BY <2>1, <2>2, <2>3
<1>8. CASE result.who = "pull" /\ ~ok
  <2>1. /\ pull' = NoPull /\ pullOwed' = TRUE /\ Retry
        /\ writeQueue' = writeQueue /\ due' = pending /\ flush' = flush
    BY <1>8 DEF Resume
  <2>. QED  BY <1>1, <1>2, <1>4, <2>1, UnchangedWrites
<1>9. CASE result.who = "event"
  <2>1. /\ writeQueue' = writeQueue /\ due' = pending
        /\ flush' = flush /\ pull' = pull /\ pullOwed' = pullOwed
        /\ timer' = timer \/ Retry
    BY <1>9 DEF Resume
  <2>. QED  BY <1>1, <1>2, <1>4, <2>1, UnchangedWrites
<1>. QED  BY <1>5, <1>6, <1>7, <1>8, <1>9 DEF Results

-----------------------------------------------------------------------------
(* The inductive invariant.                                                *)

\* Mutations that are no longer owed to anybody.
Given == taken \cup dropped \cup cleared

Owed == durable \ Given

\* Who waits for a write: in the queue, or since it has settled.
Queued(who) == {i \in DOMAIN writeQueue : who \in writeQueue[i].waiters}

Settling(who) == {r \in due : r.who = who}

\* The first result of the lane waits for exactly one write.
LaneWaits ==
  /\ \A i \in Queued("lane") :
       /\ life \in {"ready", "closing"}
       /\ life = "ready" => lane # <<>> /\ busy # "no"
       /\ Settling("lane") = {}
       /\ \A j \in Queued("lane") : i = j
  /\ \A r \in Settling("lane") :
       /\ life \in {"ready", "closing"}
       /\ life = "ready" => lane # <<>> /\ busy # "no"
       /\ \A q \in Settling("lane") : q = r

\* Storage holds what is owed, and after hydration so does the outbox.
OwedIsHeld ==
  /\ Owed \subseteq ToSet(main.outbox) \cup ToSet(journal)
  /\ life \in {"merged", "ready"} => Owed \subseteq Pending

\* A write of the checkpoint will store what is owed, and nothing is stored
\* that is not in the outbox; the journal is written before the checkpoint.
QueueHolds ==
  \A i \in DOMAIN writeQueue :
    LET w == writeQueue[i] IN
      /\ w.started => i = 1
      /\ ToSet(w.content.outbox) \subseteq Pending \cup Given
      /\ w.key = "journal" => /\ w.waiters \cap {"start", "clear"} = {}
                              /\ \A j \in 1 .. i : writeQueue[j].key = "journal"
      /\ w.key = "main" => /\ life \in {"ready", "closing"}
                           /\ Owed \subseteq Pending
                           /\ w.started => Owed \subseteq ToSet(w.content.outbox)

\* The journal is removed when the checkpoint holds everything.
JournalGoes ==
  removing # {} \/ (\E r \in due : r.ok /\ r.who \in {"start", "clear"}) =>
    /\ life \in {"ready", "closing"}
    /\ Owed \subseteq ToSet(main.outbox)
    /\ \A i \in DOMAIN writeQueue : writeQueue[i].key = "main"

\* The remote has taken what it acknowledges.
AcksAreTaken ==
  /\ flush.ack \subseteq taken
  /\ \A i \in DOMAIN lane : lane[i].ack \subseteq taken

\* What a state shows is pending, or taken or cleared; and it shows it once,
\* but for what hydration has revived.
Shows(s) ==
  /\ \A m \in ToSet(s.outbox) : s.applied[m] > 0
  /\ \A m \in Mutations \ revived : s.applied[m] <= 1
  /\ \A m \in Mutations \ (taken \cup cleared) :
       s.applied[m] > 0 => m \in ToSet(s.outbox)

ShowsPending ==
  /\ revived \subseteq taken \cup cleared
  /\ Shows(State)
  /\ Shows(main)
  /\ \A i \in DOMAIN writeQueue :
       writeQueue[i].key = "main" => Shows(writeQueue[i].content)

\* Only a hydrated store that is not destroyed talks to the remote.
Attended ==
  life # "ready" =>
    lane = <<>> /\ busy = "no" /\ flush.pc = "idle" /\ pull.pc = "idle"

OutboxInvariant ==
  /\ TypeOK
  /\ Attended
  /\ LaneWaits
  /\ OwedIsHeld
  /\ QueueHolds
  /\ JournalGoes
  /\ AcksAreTaken
  /\ ShowsPending


-----------------------------------------------------------------------------
(* Steps that leave most of it alone.                                      *)

\* Somebody removes the journal, or is about to.
JournalMayGo ==
  removing # {} \/ \E r \in due : r.ok /\ r.who \in {"start", "clear"}

\* What is pending, stored and owed stays, but for a journal that may go.
Aside ==
  /\ SameWrites
  /\ UNCHANGED <<outbox, applied, base, main, durable, dropped, cleared, revived>>
  /\ taken \subseteq taken'
  /\ \/ journal' = journal
     \/ removing # {} /\ journal' = <<>>
  /\ JournalMayGo' => JournalMayGo
  /\ life' \in {"merged", "ready"} => life \in {"merged", "ready"}
  /\ life \in {"ready", "closing"} => life' \in {"ready", "closing"}

LEMMA AsideKeeps ==
  ASSUME OutboxInvariant, Aside
  PROVE  OwedIsHeld' /\ QueueHolds' /\ JournalGoes' /\ ShowsPending'
<1>1. /\ TypeOK /\ OwedIsHeld /\ QueueHolds /\ JournalGoes /\ ShowsPending
  BY DEF OutboxInvariant
<1>2. Given \subseteq Given' /\ Owed' \subseteq Owed /\ Pending' = Pending
  BY DEF Aside, Given, Owed, Pending
<1>3. /\ State' = State
      /\ \A s : Shows(s) => Shows(s)'
  BY DEF Aside, State, Shows
<1>4. /\ DOMAIN writeQueue' = DOMAIN writeQueue
      /\ \A i \in DOMAIN writeQueue :
           /\ writeQueue'[i].key = writeQueue[i].key
           /\ writeQueue'[i].content = writeQueue[i].content
           /\ writeQueue'[i].started = writeQueue[i].started
           /\ writeQueue'[i].waiters
                \subseteq writeQueue[i].waiters \cup {"flush", "hydrate"}
      /\ DOMAIN writeQueue = 1 .. Len(writeQueue) /\ Len(writeQueue) \in Nat
  BY <1>1, QueueShape DEF Aside, SameWrites
<1>5. JournalGoes'
  <2>1. SUFFICES ASSUME JournalMayGo'
        PROVE  /\ life' \in {"ready", "closing"}
               /\ Owed' \subseteq ToSet(main'.outbox)
               /\ \A i \in DOMAIN writeQueue' : writeQueue'[i].key = "main"
    BY DEF JournalGoes, JournalMayGo
  <2>2. /\ life \in {"ready", "closing"}
        /\ Owed \subseteq ToSet(main.outbox)
        /\ \A i \in DOMAIN writeQueue : writeQueue[i].key = "main"
    BY <1>1, <2>1 DEF JournalGoes, JournalMayGo, Aside
  <2>. QED  BY <1>2, <1>4, <2>2 DEF Aside
<1>6. OwedIsHeld'
  <2>1. removing # {} => Owed \subseteq ToSet(main.outbox)
    BY <1>1 DEF JournalGoes
  <2>. QED  BY <1>1, <1>2, <2>1 DEF OwedIsHeld, Aside
<1>7. QueueHolds'
  <2>1. SUFFICES ASSUME NEW i \in DOMAIN writeQueue
        PROVE  LET w == writeQueue'[i] IN
                 /\ w.started => i = 1
                 /\ ToSet(w.content.outbox) \subseteq Pending' \cup Given'
                 /\ w.key = "journal" =>
                      /\ w.waiters \cap {"start", "clear"} = {}
                      /\ \A j \in 1 .. i : writeQueue'[j].key = "journal"
                 /\ w.key = "main" =>
                      /\ life' \in {"ready", "closing"}
                      /\ Owed' \subseteq Pending'
                      /\ w.started => Owed' \subseteq ToSet(w.content.outbox)
    BY <1>4 DEF QueueHolds
  <2>2. LET w == writeQueue[i] IN
          /\ w.started => i = 1
          /\ ToSet(w.content.outbox) \subseteq Pending \cup Given
          /\ w.key = "journal" => /\ w.waiters \cap {"start", "clear"} = {}
                                  /\ \A j \in 1 .. i : writeQueue[j].key = "journal"
          /\ w.key = "main" => /\ life \in {"ready", "closing"}
                               /\ Owed \subseteq Pending
                               /\ w.started => Owed \subseteq ToSet(w.content.outbox)
    BY <1>1 DEF QueueHolds
  <2>3. \A j \in 1 .. i : j \in DOMAIN writeQueue
    BY <1>4
  <2>. QED  BY <1>2, <1>4, <2>2, <2>3 DEF Aside
<1>8. ShowsPending'
  BY <1>1, <1>3, <1>4 DEF ShowsPending, Aside
<1>. QED  BY <1>5, <1>6, <1>7, <1>8

\* Nobody begins or ceases to wait for the first result of the lane.
LaneStays ==
  /\ SameWrites
  /\ \A r \in due' : r.who = "lane" => r \in due
  /\ life \in {"ready", "closing"} => life' \in {"ready", "closing"}
  /\ life' = "ready" => life = "ready"
  /\ life' = "ready" /\ lane # <<>> /\ busy # "no" => lane' # <<>> /\ busy' # "no"

LEMMA LaneStaysKeeps ==
  ASSUME TypeOK, LaneWaits, LaneStays
  PROVE  LaneWaits'
<1>1. Queued("lane")' \subseteq Queued("lane")
  <2>1. /\ DOMAIN writeQueue' = DOMAIN writeQueue
        /\ \A i \in DOMAIN writeQueue :
             "lane" \in writeQueue'[i].waiters => "lane" \in writeQueue[i].waiters
    BY DEF LaneStays, SameWrites
  <2>. QED  BY <2>1 DEF Queued
<1>. QED  BY <1>1 DEF LaneStays, LaneWaits, Settling

LEMMA LaneAppended ==
  ASSUME TypeOK, NEW result \in Results, lane' = Append(lane, result)
  PROVE  /\ lane' \in Seq(Results) /\ lane' # <<>>
         /\ Len(lane) \in Nat
         /\ DOMAIN lane = 1 .. Len(lane) /\ DOMAIN lane' = 1 .. Len(lane) + 1
         /\ \A i \in 1 .. Len(lane) : lane'[i] = lane[i]
         /\ lane'[Len(lane) + 1] = result
<1>1. lane \in Seq(Results) /\ Len(lane) \in Nat /\ DOMAIN lane = 1 .. Len(lane)
  BY LenProperties DEF TypeOK
<1>2. /\ lane' \in Seq(Results)
      /\ Len(lane') = Len(lane) + 1
      /\ \A i \in 1 .. Len(lane) : lane'[i] = lane[i]
      /\ lane'[Len(lane) + 1] = result
  BY <1>1, AppendProperties
<1>3. DOMAIN lane' = 1 .. Len(lane) + 1 /\ lane' # <<>>
  BY <1>1, <1>2, LenProperties, EmptySeq
<1>. QED  BY <1>1, <1>2, <1>3

LEMMA LaneShape ==
  ASSUME TypeOK
  PROVE  /\ Len(lane) \in Nat /\ DOMAIN lane = 1 .. Len(lane)
         /\ \A i \in DOMAIN lane : lane[i] \in Results
         /\ lane # <<>> => /\ 1 \in DOMAIN lane /\ Head(lane) = lane[1]
                           /\ Head(lane) \in Results
<1>1. lane \in Seq(Results)
  BY DEF TypeOK
<1>2. Len(lane) \in Nat /\ DOMAIN lane = 1 .. Len(lane)
      /\ \A i \in DOMAIN lane : lane[i] \in Results
  BY <1>1, LenProperties, ElementOfSeq
<1>3. lane # <<>> => Len(lane) > 0 /\ Head(lane) = lane[1]
  BY <1>1, <1>2, EmptySeq, HeadTailProperties
<1>. QED  BY <1>2, <1>3

LEMMA LaneShortened ==
  ASSUME TypeOK, lane # <<>>, lane' = Tail(lane)
  PROVE  /\ lane' \in Seq(Results)
         /\ DOMAIN lane' = 1 .. Len(lane) - 1
         /\ \A i \in DOMAIN lane' : lane'[i] = lane[i + 1] /\ i + 1 \in DOMAIN lane
<1>1. Len(lane) \in Nat \ {0} /\ DOMAIN lane = 1 .. Len(lane) /\ lane \in Seq(Results)
  BY LaneShape DEF TypeOK
<1>2. /\ Tail(lane) \in Seq(Results)
      /\ Len(Tail(lane)) = Len(lane) - 1
      /\ \A i \in 1 .. Len(Tail(lane)) : Tail(lane)[i] = lane[i + 1]
  BY <1>1, HeadTailProperties
<1>3. DOMAIN lane' = 1 .. Len(lane) - 1
  BY <1>2, LenProperties
<1>. QED  BY <1>1, <1>2, <1>3

\* A step that leaves most of it alone keeps the invariant.
LEMMA QuietStep ==
  ASSUME OutboxInvariant, TypeOK', Aside, LaneStays, Attended', AcksAreTaken'
  PROVE  OutboxInvariant'
<1>1. TypeOK /\ LaneWaits
  BY DEF OutboxInvariant
<1>2. LaneWaits'
  BY <1>1, LaneStaysKeeps
<1>. QED  BY <1>2, AsideKeeps DEF OutboxInvariant

LEMMA FailRemovalKeeps ==
  ASSUME OutboxInvariant, UNCHANGED setup, NEW who, FailRemoval(who)
  PROVE  OutboxInvariant'
<1>1. TypeOK /\ Attended /\ LaneWaits /\ AcksAreTaken
  BY DEF OutboxInvariant
<1>2. timer' \in BOOLEAN /\ faults' \in 0 .. MaxFaults /\ sessions' = sessions
  <2>1. (Retry \/ timer' = timer) /\ Fault("remove")
    BY DEF FailRemoval
  <2>. QED  BY <1>1, <2>1, FaultTyped, RetryTyped DEF TypeOK
<1>5. TypeOK'
  BY <1>1, SameTypes, <1>2
     DEF FailRemoval, TypeOK, storeVars, writeVars, laneVars, retryVars,
         storageVars, remoteVars, ghostVars, boundVars
<1>6. Aside
  BY <1>1, UnchangedWrites
     DEF FailRemoval, Aside, JournalMayGo, storeVars, writeVars, laneVars,
         retryVars, storageVars, remoteVars, ghostVars, boundVars
<1>7. LaneStays
  BY <1>1, <1>6
     DEF FailRemoval, Aside, LaneStays, storeVars, writeVars, laneVars,
         retryVars, storageVars, remoteVars, ghostVars, boundVars
<1>8. Attended'
  BY <1>1
     DEF FailRemoval, Attended, storeVars, writeVars, laneVars, retryVars,
         storageVars, remoteVars, ghostVars, boundVars
<1>9. AcksAreTaken'
  BY <1>1
     DEF FailRemoval, AcksAreTaken, storeVars, writeVars, laneVars, retryVars,
         storageVars, remoteVars, ghostVars, boundVars
<1>. QED  BY <1>5, <1>6, <1>7, <1>8, <1>9, QuietStep

LEMMA StartKeeps ==
  ASSUME OutboxInvariant, UNCHANGED setup, Start
  PROVE  OutboxInvariant'
<1>1. TypeOK /\ Attended /\ LaneWaits /\ AcksAreTaken
  BY DEF OutboxInvariant
<1>5. TypeOK'
  BY <1>1, SameTypes, Bounds
     DEF Start, TypeOK, storeVars, writeVars, laneVars, retryVars, storageVars,
         remoteVars, ghostVars, boundVars
<1>6. Aside
  BY <1>1, UnchangedWrites
     DEF Start, Aside, JournalMayGo, storeVars, writeVars, laneVars, retryVars,
         storageVars, remoteVars, ghostVars, boundVars
<1>7. LaneStays
  BY <1>1, <1>6
     DEF Start, Aside, LaneStays, storeVars, writeVars, laneVars, retryVars,
         storageVars, remoteVars, ghostVars, boundVars
<1>8. Attended'
  BY <1>1
     DEF Start, Attended, storeVars, writeVars, laneVars, retryVars,
         storageVars, remoteVars, ghostVars, boundVars
<1>9. AcksAreTaken'
  BY <1>1
     DEF Start, AcksAreTaken, storeVars, writeVars, laneVars, retryVars,
         storageVars, remoteVars, ghostVars, boundVars
<1>. QED  BY <1>5, <1>6, <1>7, <1>8, <1>9, QuietStep

LEMMA FailedHydrationKeeps ==
  ASSUME OutboxInvariant, UNCHANGED setup, life \in {"reading", "journal"},
         NEW kind, Fault(kind), FailedHydration
  PROVE  OutboxInvariant'
<1>1. TypeOK /\ Attended /\ LaneWaits /\ AcksAreTaken
  BY DEF OutboxInvariant
<1>5. TypeOK'
  BY <1>1, SameTypes, FaultTyped
     DEF FailedHydration, TypeOK, storeVars, writeVars, laneVars, retryVars,
         storageVars, remoteVars, ghostVars, boundVars
<1>6. Aside
  BY <1>1, UnchangedWrites
     DEF FailedHydration, Aside, JournalMayGo, storeVars, writeVars, laneVars,
         retryVars, storageVars, remoteVars, ghostVars, boundVars
<1>7. LaneStays
  BY <1>1, <1>6
     DEF FailedHydration, Aside, LaneStays, storeVars, writeVars, laneVars,
         retryVars, storageVars, remoteVars, ghostVars, boundVars
<1>8. Attended'
  BY <1>1
     DEF FailedHydration, Attended, storeVars, writeVars, laneVars, retryVars,
         storageVars, remoteVars, ghostVars, boundVars
<1>9. AcksAreTaken'
  BY <1>1
     DEF FailedHydration, AcksAreTaken, storeVars, writeVars, laneVars,
         retryVars, storageVars, remoteVars, ghostVars, boundVars
<1>. QED  BY <1>5, <1>6, <1>7, <1>8, <1>9, QuietStep

LEMMA DrainedKeeps ==
  ASSUME OutboxInvariant, UNCHANGED setup, NEW r, Drained(r)
  PROVE  OutboxInvariant'
<1>1. TypeOK /\ Attended /\ LaneWaits /\ AcksAreTaken
  BY DEF OutboxInvariant
<1>5. TypeOK'
  BY <1>1, SameTypes
     DEF Drained, TypeOK, storeVars, writeVars, laneVars, retryVars,
         storageVars, remoteVars, ghostVars, boundVars
<1>6. Aside
  BY <1>1, UnchangedWrites
     DEF Drained, Aside, JournalMayGo, storeVars, writeVars, laneVars,
         retryVars, storageVars, remoteVars, ghostVars, boundVars
<1>7. LaneStays
  BY <1>1, <1>6
     DEF Drained, Aside, LaneStays, storeVars, writeVars, laneVars, retryVars,
         storageVars, remoteVars, ghostVars, boundVars
<1>8. Attended'
  BY <1>1
     DEF Drained, Attended, storeVars, writeVars, laneVars, retryVars,
         storageVars, remoteVars, ghostVars, boundVars
<1>9. AcksAreTaken'
  BY <1>1
     DEF Drained, AcksAreTaken, storeVars, writeVars, laneVars, retryVars,
         storageVars, remoteVars, ghostVars, boundVars
<1>. QED  BY <1>5, <1>6, <1>7, <1>8, <1>9, QuietStep

LEMMA EndedKeeps ==
  ASSUME OutboxInvariant, UNCHANGED setup, NEW r, Ended(r)
  PROVE  OutboxInvariant'
<1>1. TypeOK /\ Attended /\ LaneWaits /\ AcksAreTaken
  BY DEF OutboxInvariant
<1>5. TypeOK'
  BY <1>1, SameTypes
     DEF Ended, TypeOK, storeVars, writeVars, laneVars, retryVars, storageVars,
         remoteVars, ghostVars, boundVars
<1>6. Aside
  BY <1>1, UnchangedWrites
     DEF Ended, Aside, JournalMayGo, storeVars, writeVars, laneVars, retryVars,
         storageVars, remoteVars, ghostVars, boundVars
<1>7. LaneStays
  BY <1>1, <1>6
     DEF Ended, Aside, LaneStays, storeVars, writeVars, laneVars, retryVars,
         storageVars, remoteVars, ghostVars, boundVars
<1>8. Attended'
  BY <1>1
     DEF Ended, Attended, storeVars, writeVars, laneVars, retryVars,
         storageVars, remoteVars, ghostVars, boundVars
<1>9. AcksAreTaken'
  BY <1>1
     DEF Ended, AcksAreTaken, storeVars, writeVars, laneVars, retryVars,
         storageVars, remoteVars, ghostVars, boundVars
<1>. QED  BY <1>5, <1>6, <1>7, <1>8, <1>9, QuietStep

LEMMA StartWrittenKeeps ==
  ASSUME OutboxInvariant, UNCHANGED setup, NEW r, StartWritten(r)
  PROVE  OutboxInvariant'
<1>1. TypeOK /\ Attended /\ LaneWaits /\ AcksAreTaken
  BY DEF OutboxInvariant
<1>2. timer' \in BOOLEAN
  BY <1>1, RetryTyped DEF StartWritten, TypeOK
<1>5. TypeOK'
  BY <1>1, SameTypes, <1>2
     DEF StartWritten, TypeOK, storeVars, writeVars, laneVars, retryVars,
         storageVars, remoteVars, ghostVars, boundVars
<1>6. Aside
  BY <1>1, UnchangedWrites
     DEF StartWritten, Aside, JournalMayGo, storeVars, writeVars, laneVars,
         retryVars, storageVars, remoteVars, ghostVars, boundVars
<1>7. LaneStays
  BY <1>1, <1>6
     DEF StartWritten, Aside, LaneStays, storeVars, writeVars, laneVars,
         retryVars, storageVars, remoteVars, ghostVars, boundVars
<1>8. Attended'
  BY <1>1
     DEF StartWritten, Attended, storeVars, writeVars, laneVars, retryVars,
         storageVars, remoteVars, ghostVars, boundVars
<1>9. AcksAreTaken'
  BY <1>1
     DEF StartWritten, AcksAreTaken, storeVars, writeVars, laneVars, retryVars,
         storageVars, remoteVars, ghostVars, boundVars
<1>. QED  BY <1>5, <1>6, <1>7, <1>8, <1>9, QuietStep

LEMMA ClearWrittenKeeps ==
  ASSUME OutboxInvariant, UNCHANGED setup, NEW r, ClearWritten(r)
  PROVE  OutboxInvariant'
<1>1. TypeOK /\ Attended /\ LaneWaits /\ AcksAreTaken
  BY DEF OutboxInvariant
<1>5. TypeOK'
  BY <1>1, SameTypes
     DEF ClearWritten, TypeOK, storeVars, writeVars, laneVars, retryVars,
         storageVars, remoteVars, ghostVars, boundVars
<1>6. Aside
  BY <1>1, UnchangedWrites
     DEF ClearWritten, Aside, JournalMayGo, storeVars, writeVars, laneVars,
         retryVars, storageVars, remoteVars, ghostVars, boundVars
<1>7. LaneStays
  BY <1>1, <1>6
     DEF ClearWritten, Aside, LaneStays, storeVars, writeVars, laneVars,
         retryVars, storageVars, remoteVars, ghostVars, boundVars
<1>8. Attended'
  BY <1>1
     DEF ClearWritten, Attended, storeVars, writeVars, laneVars, retryVars,
         storageVars, remoteVars, ghostVars, boundVars
<1>9. AcksAreTaken'
  BY <1>1
     DEF ClearWritten, AcksAreTaken, storeVars, writeVars, laneVars, retryVars,
         storageVars, remoteVars, ghostVars, boundVars
<1>. QED  BY <1>5, <1>6, <1>7, <1>8, <1>9, QuietStep

LEMMA DestroyKeeps ==
  ASSUME OutboxInvariant, UNCHANGED setup, Destroy
  PROVE  OutboxInvariant'
<1>1. TypeOK /\ Attended /\ LaneWaits /\ AcksAreTaken
  BY DEF OutboxInvariant
<1>2. /\ taken' \subseteq Mutations /\ taken \subseteq taken'
      /\ flush' \in Flushes /\ flush'.pc = "idle" /\ flush'.ack = {}
      /\ pull' \in Pulls /\ pull'.pc = "idle"
      /\ lane' \in Seq(Results) /\ \A i \in DOMAIN lane' : FALSE
  <2>1. /\ taken' \subseteq taken \cup flush.sent /\ taken \subseteq taken'
        /\ flush' = NoFlush /\ pull' = NoPull /\ lane' = <<>>
    BY DEF Destroy, Abandoned
  <2>2. flush.sent \subseteq Mutations /\ taken \subseteq Mutations
    BY <1>1 DEF TypeOK, Flushes
  <2>. QED  BY <1>1, <2>1, <2>2, SmallTypes, EmptySeq
<1>5. TypeOK'
  BY <1>1, SameTypes, <1>2
     DEF Destroy, Open, Abandoned, TypeOK, storeVars, writeVars, laneVars,
         retryVars, storageVars, remoteVars, ghostVars, boundVars
<1>6. Aside
  BY <1>1, UnchangedWrites, <1>2
     DEF Destroy, Open, Abandoned, Aside, JournalMayGo, storeVars, writeVars,
         laneVars, retryVars, storageVars, remoteVars, ghostVars, boundVars
<1>7. LaneStays
  BY <1>1, <1>6, <1>2
     DEF Destroy, Open, Abandoned, Aside, LaneStays, storeVars, writeVars,
         laneVars, retryVars, storageVars, remoteVars, ghostVars, boundVars
<1>8. Attended'
  BY <1>1, <1>2
     DEF Destroy, Open, Abandoned, Attended, storeVars, writeVars, laneVars,
         retryVars, storageVars, remoteVars, ghostVars, boundVars
<1>9. AcksAreTaken'
  BY <1>1, <1>2
     DEF Destroy, Open, Abandoned, AcksAreTaken, storeVars, writeVars,
         laneVars, retryVars, storageVars, remoteVars, ghostVars, boundVars
<1>. QED  BY <1>5, <1>6, <1>7, <1>8, <1>9, QuietStep

LEMMA GiveUpFlushKeeps ==
  ASSUME OutboxInvariant, UNCHANGED setup, NEW kind, Fault(kind), GiveUpFlush
  PROVE  OutboxInvariant'
<1>1. TypeOK /\ Attended /\ LaneWaits /\ AcksAreTaken
  BY DEF OutboxInvariant
<1>2. /\ timer' \in BOOLEAN
      /\ flush' \in Flushes /\ flush'.pc = "idle" /\ flush'.ack = {}
  BY <1>1, SmallTypes, RetryTyped DEF GiveUpFlush
<1>5. TypeOK'
  BY <1>1, SameTypes, <1>2, FaultTyped
     DEF GiveUpFlush, TypeOK, storeVars, writeVars, laneVars, retryVars,
         storageVars, remoteVars, ghostVars, boundVars
<1>6. Aside
  BY <1>1, UnchangedWrites, <1>2
     DEF GiveUpFlush, Aside, JournalMayGo, storeVars, writeVars, laneVars,
         retryVars, storageVars, remoteVars, ghostVars, boundVars
<1>7. LaneStays
  BY <1>1, <1>6, <1>2
     DEF GiveUpFlush, Aside, LaneStays, storeVars, writeVars, laneVars,
         retryVars, storageVars, remoteVars, ghostVars, boundVars
<1>8. Attended'
  BY <1>1, <1>2
     DEF GiveUpFlush, Attended, storeVars, writeVars, laneVars, retryVars,
         storageVars, remoteVars, ghostVars, boundVars
<1>9. AcksAreTaken'
  BY <1>1, <1>2
     DEF GiveUpFlush, AcksAreTaken, storeVars, writeVars, laneVars, retryVars,
         storageVars, remoteVars, ghostVars, boundVars
<1>. QED  BY <1>5, <1>6, <1>7, <1>8, <1>9, QuietStep

LEMMA UserPullKeeps ==
  ASSUME OutboxInvariant, UNCHANGED setup, UserPull
  PROVE  OutboxInvariant'
<1>1. TypeOK /\ Attended /\ LaneWaits /\ AcksAreTaken
  BY DEF OutboxInvariant
<1>2. pull' \in Pulls
  BY <1>1, SmallTypes DEF UserPull
<1>5. TypeOK'
  BY <1>1, SameTypes, <1>2
     DEF UserPull, TypeOK, storeVars, writeVars, laneVars, retryVars,
         storageVars, remoteVars, ghostVars, boundVars
<1>6. Aside
  BY <1>1, UnchangedWrites
     DEF UserPull, Aside, JournalMayGo, storeVars, writeVars, laneVars,
         retryVars, storageVars, remoteVars, ghostVars, boundVars
<1>7. LaneStays
  BY <1>1, <1>6
     DEF UserPull, Aside, LaneStays, storeVars, writeVars, laneVars, retryVars,
         storageVars, remoteVars, ghostVars, boundVars
<1>8. Attended'
  BY <1>1
     DEF UserPull, Attended, storeVars, writeVars, laneVars, retryVars,
         storageVars, remoteVars, ghostVars, boundVars
<1>9. AcksAreTaken'
  BY <1>1
     DEF UserPull, AcksAreTaken, storeVars, writeVars, laneVars, retryVars,
         storageVars, remoteVars, ghostVars, boundVars
<1>. QED  BY <1>5, <1>6, <1>7, <1>8, <1>9, QuietStep

LEMMA RemoteAnswersPullKeeps ==
  ASSUME OutboxInvariant, UNCHANGED setup, RemoteAnswersPull
  PROVE  OutboxInvariant'
<1>1. TypeOK /\ Attended /\ LaneWaits /\ AcksAreTaken
  BY DEF OutboxInvariant
<1>2. pull' \in Pulls /\ pull.pc = "asking"
  BY <1>1 DEF RemoteAnswersPull, Pulls, TypeOK
<1>5. TypeOK'
  BY <1>1, SameTypes, <1>2
     DEF RemoteAnswersPull, TypeOK, storeVars, writeVars, laneVars, retryVars,
         storageVars, remoteVars, ghostVars, boundVars
<1>6. Aside
  BY <1>1, UnchangedWrites, <1>2
     DEF RemoteAnswersPull, Aside, JournalMayGo, storeVars, writeVars,
         laneVars, retryVars, storageVars, remoteVars, ghostVars, boundVars
<1>7. LaneStays
  BY <1>1, <1>6, <1>2
     DEF RemoteAnswersPull, Aside, LaneStays, storeVars, writeVars, laneVars,
         retryVars, storageVars, remoteVars, ghostVars, boundVars
<1>8. Attended'
  BY <1>1, <1>2
     DEF RemoteAnswersPull, Attended, storeVars, writeVars, laneVars,
         retryVars, storageVars, remoteVars, ghostVars, boundVars
<1>9. AcksAreTaken'
  BY <1>1, <1>2
     DEF RemoteAnswersPull, AcksAreTaken, storeVars, writeVars, laneVars,
         retryVars, storageVars, remoteVars, ghostVars, boundVars
<1>. QED  BY <1>5, <1>6, <1>7, <1>8, <1>9, QuietStep

LEMMA FailPullKeeps ==
  ASSUME OutboxInvariant, UNCHANGED setup, FailPull
  PROVE  OutboxInvariant'
<1>1. TypeOK /\ Attended /\ LaneWaits /\ AcksAreTaken
  BY DEF OutboxInvariant
<1>2. /\ timer' \in BOOLEAN /\ faults' \in 0 .. MaxFaults /\ sessions' = sessions
      /\ pull' \in Pulls /\ pull'.pc = "idle"
  BY <1>1, SmallTypes, RetryTyped, FaultTyped DEF FailPull
<1>5. TypeOK'
  BY <1>1, SameTypes, <1>2
     DEF FailPull, TypeOK, storeVars, writeVars, laneVars, retryVars,
         storageVars, remoteVars, ghostVars, boundVars
<1>6. Aside
  BY <1>1, UnchangedWrites, <1>2
     DEF FailPull, Aside, JournalMayGo, storeVars, writeVars, laneVars,
         retryVars, storageVars, remoteVars, ghostVars, boundVars
<1>7. LaneStays
  BY <1>1, <1>6, <1>2
     DEF FailPull, Aside, LaneStays, storeVars, writeVars, laneVars, retryVars,
         storageVars, remoteVars, ghostVars, boundVars
<1>8. Attended'
  BY <1>1, <1>2
     DEF FailPull, Attended, storeVars, writeVars, laneVars, retryVars,
         storageVars, remoteVars, ghostVars, boundVars
<1>9. AcksAreTaken'
  BY <1>1, <1>2
     DEF FailPull, AcksAreTaken, storeVars, writeVars, laneVars, retryVars,
         storageVars, remoteVars, ghostVars, boundVars
<1>. QED  BY <1>5, <1>6, <1>7, <1>8, <1>9, QuietStep

LEMMA RemoteWriteKeeps ==
  ASSUME OutboxInvariant, UNCHANGED setup, RemoteWrite
  PROVE  OutboxInvariant'
<1>1. TypeOK /\ Attended /\ LaneWaits /\ AcksAreTaken
  BY DEF OutboxInvariant
<1>2. server' \in Facts
  BY <1>1, Bounds DEF RemoteWrite, Facts, TypeOK
<1>5. TypeOK'
  BY <1>1, SameTypes, <1>2
     DEF RemoteWrite, TypeOK, storeVars, writeVars, laneVars, retryVars,
         storageVars, remoteVars, ghostVars, boundVars
<1>6. Aside
  BY <1>1, UnchangedWrites, <1>2
     DEF RemoteWrite, Aside, JournalMayGo, storeVars, writeVars, laneVars,
         retryVars, storageVars, remoteVars, ghostVars, boundVars
<1>7. LaneStays
  BY <1>1, <1>6, <1>2
     DEF RemoteWrite, Aside, LaneStays, storeVars, writeVars, laneVars,
         retryVars, storageVars, remoteVars, ghostVars, boundVars
<1>8. Attended'
  BY <1>1, <1>2
     DEF RemoteWrite, Attended, storeVars, writeVars, laneVars, retryVars,
         storageVars, remoteVars, ghostVars, boundVars
<1>9. AcksAreTaken'
  BY <1>1, <1>2
     DEF RemoteWrite, AcksAreTaken, storeVars, writeVars, laneVars, retryVars,
         storageVars, remoteVars, ghostVars, boundVars
<1>. QED  BY <1>5, <1>6, <1>7, <1>8, <1>9, QuietStep

LEMMA FinishRemovalKeeps ==
  ASSUME OutboxInvariant, UNCHANGED setup, NEW who, FinishRemoval(who)
  PROVE  OutboxInvariant'
<1>1. TypeOK /\ Attended /\ LaneWaits /\ AcksAreTaken
  BY DEF OutboxInvariant
<1>2. \/ Flush(writeQueue, due)
      \/ UNCHANGED <<flush, writeQueue, due>>
  BY DEF FinishRemoval
<1>3. /\ SameWrites
      /\ due' \subseteq due \cup [who: {"flush"}, ok: BOOLEAN]
      /\ \A r \in due' : r \in due \/ r.who = "flush"
      /\ flush' \in Flushes /\ flush'.ack \subseteq flush.ack
      /\ flush'.pc # "idle" => flush.pc # "idle" \/ life = "ready"
  BY <1>1, <1>2, FlushEffect, FlushKept, UnchangedWrites DEF TypeOK
<1>4. writeQueue' \in Seq(Writes) /\ due' \subseteq [who: Waiters, ok: BOOLEAN]
  BY <1>1, <1>3 DEF SameWrites, TypeOK, Waiters
<1>5. TypeOK'
  BY <1>1, SameTypes, <1>2, <1>3, EmptySeq, <1>4
     DEF FinishRemoval, TypeOK, storeVars, writeVars, laneVars, retryVars,
         storageVars, remoteVars, ghostVars, boundVars
<1>6. Aside
  BY <1>1, UnchangedWrites, <1>2, <1>3, EmptySeq
     DEF FinishRemoval, Aside, JournalMayGo, storeVars, writeVars, laneVars,
         retryVars, storageVars, remoteVars, ghostVars, boundVars
<1>7. LaneStays
  BY <1>1, <1>6, <1>2, <1>3, EmptySeq
     DEF FinishRemoval, Aside, LaneStays, storeVars, writeVars, laneVars,
         retryVars, storageVars, remoteVars, ghostVars, boundVars
<1>8. Attended'
  BY <1>1, <1>2, <1>3, EmptySeq
     DEF FinishRemoval, Attended, storeVars, writeVars, laneVars, retryVars,
         storageVars, remoteVars, ghostVars, boundVars
<1>9. AcksAreTaken'
  BY <1>1, <1>2, <1>3, EmptySeq
     DEF FinishRemoval, AcksAreTaken, storeVars, writeVars, laneVars,
         retryVars, storageVars, remoteVars, ghostVars, boundVars
<1>. QED  BY <1>5, <1>6, <1>7, <1>8, <1>9, QuietStep

LEMMA CommitWrittenKeeps ==
  ASSUME OutboxInvariant, UNCHANGED setup, NEW r, CommitWritten(r)
  PROVE  OutboxInvariant'
<1>1. TypeOK /\ Attended /\ LaneWaits /\ AcksAreTaken
  BY DEF OutboxInvariant
<1>2. timer' \in BOOLEAN
  BY <1>1, RetryTyped DEF CommitWritten, TypeOK
<1>3. /\ SameWrites
      /\ due' \subseteq due \cup [who: {"flush"}, ok: BOOLEAN]
      /\ \A q \in due' : q \in due \/ q.who = "flush"
      /\ flush' \in Flushes /\ flush'.ack \subseteq flush.ack
      /\ flush'.pc # "idle" => flush.pc # "idle" \/ life = "ready"
  <2>1. CASE Flush(writeQueue, due \ {r})
    BY <1>1, <2>1, FlushEffect, FlushKept
  <2>2. CASE due' = due \ {r} /\ UNCHANGED <<writeQueue, flush>>
    BY <1>1, <2>2, UnchangedWrites DEF TypeOK
  <2>. QED  BY <2>1, <2>2 DEF CommitWritten
<1>4. writeQueue' \in Seq(Writes) /\ due' \subseteq [who: Waiters, ok: BOOLEAN]
  BY <1>1, <1>3 DEF SameWrites, TypeOK, Waiters
<1>5. TypeOK'
  BY <1>1, SameTypes, <1>2, <1>3, <1>4
     DEF CommitWritten, TypeOK, storeVars, writeVars, laneVars, retryVars,
         storageVars, remoteVars, ghostVars, boundVars
<1>6. Aside
  BY <1>1, UnchangedWrites, <1>2, <1>3
     DEF CommitWritten, Aside, JournalMayGo, storeVars, writeVars, laneVars,
         retryVars, storageVars, remoteVars, ghostVars, boundVars
<1>7. LaneStays
  BY <1>1, <1>6, <1>2, <1>3
     DEF CommitWritten, Aside, LaneStays, storeVars, writeVars, laneVars,
         retryVars, storageVars, remoteVars, ghostVars, boundVars
<1>8. Attended'
  BY <1>1, <1>2, <1>3
     DEF CommitWritten, Attended, storeVars, writeVars, laneVars, retryVars,
         storageVars, remoteVars, ghostVars, boundVars
<1>9. AcksAreTaken'
  BY <1>1, <1>2, <1>3
     DEF CommitWritten, AcksAreTaken, storeVars, writeVars, laneVars,
         retryVars, storageVars, remoteVars, ghostVars, boundVars
<1>. QED  BY <1>5, <1>6, <1>7, <1>8, <1>9, QuietStep

LEMMA UserFlushKeeps ==
  ASSUME OutboxInvariant, UNCHANGED setup, UserFlush
  PROVE  OutboxInvariant'
<1>1. TypeOK /\ Attended /\ LaneWaits /\ AcksAreTaken
  BY DEF OutboxInvariant
<1>3. /\ SameWrites
      /\ due' \subseteq due \cup [who: {"flush"}, ok: BOOLEAN]
      /\ \A q \in due' : q \in due \/ q.who = "flush"
      /\ flush' \in Flushes /\ flush'.ack \subseteq flush.ack
      /\ flush'.pc # "idle" => flush.pc # "idle" \/ life = "ready"
  BY <1>1, FlushEffect, FlushKept DEF UserFlush
<1>4. writeQueue' \in Seq(Writes) /\ due' \subseteq [who: Waiters, ok: BOOLEAN]
  BY <1>1, <1>3 DEF SameWrites, TypeOK, Waiters
<1>5. TypeOK'
  BY <1>1, SameTypes, <1>3, <1>4
     DEF UserFlush, TypeOK, storeVars, writeVars, laneVars, retryVars,
         storageVars, remoteVars, ghostVars, boundVars
<1>6. Aside
  BY <1>1, UnchangedWrites, <1>3
     DEF UserFlush, Aside, JournalMayGo, storeVars, writeVars, laneVars,
         retryVars, storageVars, remoteVars, ghostVars, boundVars
<1>7. LaneStays
  BY <1>1, <1>6, <1>3
     DEF UserFlush, Aside, LaneStays, storeVars, writeVars, laneVars,
         retryVars, storageVars, remoteVars, ghostVars, boundVars
<1>8. Attended'
  BY <1>1, <1>3
     DEF UserFlush, Attended, storeVars, writeVars, laneVars, retryVars,
         storageVars, remoteVars, ghostVars, boundVars
<1>9. AcksAreTaken'
  BY <1>1, <1>3
     DEF UserFlush, AcksAreTaken, storeVars, writeVars, laneVars, retryVars,
         storageVars, remoteVars, ghostVars, boundVars
<1>. QED  BY <1>5, <1>6, <1>7, <1>8, <1>9, QuietStep

LEMMA ReadStateKeeps ==
  ASSUME OutboxInvariant, UNCHANGED setup, ReadState
  PROVE  OutboxInvariant'
<1>1. TypeOK /\ Attended /\ LaneWaits /\ AcksAreTaken
  BY DEF OutboxInvariant
<1>3. SameWrites /\ due' \subseteq due \cup [who: {"hydrate"}, ok: BOOLEAN]
      /\ \A r \in due' : r \in due \/ r.who = "hydrate"
  <2>1. CASE writeQueue = <<>>
    <3>1. writeQueue' = writeQueue /\ due' = {[who |-> "hydrate", ok |-> TRUE]}
      BY <2>1 DEF ReadState
    <3>. QED  BY <1>1, <3>1, UnchangedWrites
  <2>2. CASE writeQueue # <<>>
    <3>1. writeQueue' = [writeQueue EXCEPT
            ![Len(writeQueue)].waiters = @ \cup {"hydrate"}]
          /\ due' = due
      BY <2>2 DEF ReadState
    <3>. QED  BY <1>1, <2>2, <3>1, AwaitedWrite
  <2>. QED  BY <2>1, <2>2
<1>4. writeQueue' \in Seq(Writes) /\ due' \subseteq [who: Waiters, ok: BOOLEAN]
  BY <1>1, <1>3 DEF SameWrites, TypeOK, Waiters
<1>5. TypeOK'
  BY <1>1, SameTypes, <1>3, <1>4
     DEF ReadState, TypeOK, storeVars, writeVars, laneVars, retryVars,
         storageVars, remoteVars, ghostVars, boundVars
<1>6. Aside
  BY <1>1, UnchangedWrites, <1>3
     DEF ReadState, Aside, JournalMayGo, storeVars, writeVars, laneVars,
         retryVars, storageVars, remoteVars, ghostVars, boundVars
<1>7. LaneStays
  BY <1>1, <1>6, <1>3
     DEF ReadState, Aside, LaneStays, storeVars, writeVars, laneVars,
         retryVars, storageVars, remoteVars, ghostVars, boundVars
<1>8. Attended'
  BY <1>1, <1>3
     DEF ReadState, Attended, storeVars, writeVars, laneVars, retryVars,
         storageVars, remoteVars, ghostVars, boundVars
<1>9. AcksAreTaken'
  BY <1>1, <1>3
     DEF ReadState, AcksAreTaken, storeVars, writeVars, laneVars, retryVars,
         storageVars, remoteVars, ghostVars, boundVars
<1>. QED  BY <1>5, <1>6, <1>7, <1>8, <1>9, QuietStep

LEMMA SendKeeps ==
  ASSUME OutboxInvariant, UNCHANGED setup, NEW r, Send(r)
  PROVE  OutboxInvariant'
<1>1. TypeOK /\ Attended /\ LaneWaits /\ AcksAreTaken
  BY DEF OutboxInvariant
<1>2. /\ flush' \in Flushes /\ flush'.ack \subseteq flush.ack /\ timer' \in BOOLEAN
      /\ life = "ready"
  <2>1. ToSet(outbox) \subseteq Mutations
    BY <1>1, ToSetType DEF TypeOK
  <2>2. \A submitted \in SUBSET Mutations :
          LET next == [flush EXCEPT !.pc = "pushing", !.sent = submitted,
                                    !.attempted = @ \cup submitted, !.moved = FALSE]
          IN  next \in Flushes /\ next.ack = flush.ack
    BY <1>1 DEF TypeOK, Flushes
  <2>3. (flush.declined \/ pullOwed) \in BOOLEAN /\ timer \in BOOLEAN
    BY <1>1 DEF TypeOK, Flushes
  <2>4. ToSet(outbox) \ flush.attempted \subseteq Mutations
    BY <2>1
  <2>5. \/ /\ \E submitted \in SUBSET Mutations :
                flush' = [flush EXCEPT !.pc = "pushing", !.sent = submitted,
                            !.attempted = @ \cup submitted, !.moved = FALSE]
           /\ timer' = timer
        \/ flush' = NoFlush /\ timer' = (flush.declined \/ pullOwed)
        \/ flush' = NoFlush /\ Retry
    BY <2>4 DEF Send
  <2>6. flush' \in Flushes /\ flush'.ack \subseteq flush.ack
    BY <1>1, <2>2, <2>5, SmallTypes
  <2>7. timer' \in BOOLEAN
    BY <2>3, <2>5, RetryTyped
  <2>. QED  BY <2>6, <2>7 DEF Send
<1>5. TypeOK'
  BY <1>1, SameTypes, <1>2
     DEF Send, TypeOK, storeVars, writeVars, laneVars, retryVars, storageVars,
         remoteVars, ghostVars, boundVars
<1>6. Aside
  BY <1>1, UnchangedWrites, <1>2
     DEF Send, Aside, JournalMayGo, storeVars, writeVars, laneVars, retryVars,
         storageVars, remoteVars, ghostVars, boundVars
<1>7. LaneStays
  BY <1>1, <1>6, <1>2
     DEF Send, Aside, LaneStays, storeVars, writeVars, laneVars, retryVars,
         storageVars, remoteVars, ghostVars, boundVars
<1>8. Attended'
  BY <1>1, <1>2
     DEF Send, Attended, storeVars, writeVars, laneVars, retryVars,
         storageVars, remoteVars, ghostVars, boundVars
<1>9. AcksAreTaken'
  BY <1>1, <1>2
     DEF Send, AcksAreTaken, storeVars, writeVars, laneVars, retryVars,
         storageVars, remoteVars, ghostVars, boundVars
<1>. QED  BY <1>5, <1>6, <1>7, <1>8, <1>9, QuietStep

LEMMA RemoteTakesKeeps ==
  ASSUME OutboxInvariant, UNCHANGED setup, RemoteTakes
  PROVE  OutboxInvariant'
<1>1. TypeOK /\ Attended /\ LaneWaits /\ AcksAreTaken
  BY DEF OutboxInvariant
<1>2. /\ taken \subseteq taken' /\ taken' \subseteq Mutations
      /\ flush' \in Flushes /\ flush'.ack \subseteq taken'
      /\ faults' \in 0 .. MaxFaults /\ sessions' = sessions
  <2>1. PICK left \in Declinable(flush.sent), fact \in {0, server} :
          /\ taken' = taken \cup (flush.sent \ left)
          /\ flush' = [flush EXCEPT !.pc = "answered", !.ack = flush.sent \ left,
                                    !.fact = fact]
          /\ UNCHANGED boundVars \/ Fault("decline")
    BY DEF RemoteTakes
  <2>2. flush.sent \ left \subseteq Mutations /\ fact \in Facts
    BY <1>1, Bounds DEF TypeOK, Flushes
  <2>3. flush' \in Flushes /\ flush'.ack = flush.sent \ left
    BY <1>1, <2>1, <2>2 DEF TypeOK, Flushes
  <2>4. faults' \in 0 .. MaxFaults /\ sessions' = sessions
    BY <1>1, <2>1, FaultTyped DEF boundVars, TypeOK
  <2>. QED  BY <1>1, <2>1, <2>2, <2>3, <2>4 DEF TypeOK
<1>5. TypeOK'
  BY <1>1, SameTypes, <1>2
     DEF RemoteTakes, TypeOK, storeVars, writeVars, laneVars, retryVars,
         storageVars, remoteVars, ghostVars, boundVars
<1>6. Aside
  BY <1>1, UnchangedWrites, <1>2
     DEF RemoteTakes, Aside, JournalMayGo, storeVars, writeVars, laneVars,
         retryVars, storageVars, remoteVars, ghostVars, boundVars
<1>7. LaneStays
  BY <1>1, <1>6, <1>2
     DEF RemoteTakes, Aside, LaneStays, storeVars, writeVars, laneVars,
         retryVars, storageVars, remoteVars, ghostVars, boundVars
<1>8. Attended'
  BY <1>1, <1>2
     DEF RemoteTakes, Attended, storeVars, writeVars, laneVars, retryVars,
         storageVars, remoteVars, ghostVars, boundVars
<1>9. AcksAreTaken'
  BY <1>1, <1>2
     DEF RemoteTakes, AcksAreTaken, storeVars, writeVars, laneVars, retryVars,
         storageVars, remoteVars, ghostVars, boundVars
<1>. QED  BY <1>5, <1>6, <1>7, <1>8, <1>9, QuietStep

LEMMA ReceivePushKeeps ==
  ASSUME OutboxInvariant, UNCHANGED setup, ReceivePush
  PROVE  OutboxInvariant'
<1>1. TypeOK /\ Attended /\ LaneWaits /\ AcksAreTaken
  BY DEF OutboxInvariant
<1>. DEFINE result == [who |-> "push", ack |-> flush.ack,
                       fact |-> IF flush.moved THEN 0 ELSE flush.fact]
<1>2. /\ flush' \in Flushes /\ flush'.ack = {}
      /\ pull' \in Pulls /\ pull'.pc = pull.pc
      /\ pullOwed' \in BOOLEAN
      /\ life = "ready"
  <2>1. /\ flush.pc = "answered" /\ pullOwed' = (pullOwed \/ flush.moved)
        /\ pull' = [pull EXCEPT !.moved = (pull.pc # "idle")]
        /\ flush' = [flush EXCEPT !.pc = "applying", !.ack = {}, !.fact = 0,
                       !.moved = FALSE, !.declined = @ \/ flush.ack # flush.sent]
    BY DEF ReceivePush
  <2>2. flush \in Flushes /\ pull \in Pulls /\ 0 \in Facts
    BY <1>1, Bounds DEF TypeOK
  <2>3. flush' \in Flushes /\ flush'.ack = {}
    <3>1. (flush.declined \/ flush.ack # flush.sent) \in BOOLEAN
      OBVIOUS
    <3>. QED  BY <2>1, <2>2, <3>1 DEF Flushes
  <2>4. pull' \in Pulls /\ pull'.pc = pull.pc
    BY <2>1, <2>2 DEF Pulls
  <2>5. pullOwed' \in BOOLEAN
    BY <2>1
  <2>. QED  BY <1>1, <2>1, <2>3, <2>4, <2>5 DEF Attended
<1>3. result \in Results /\ result.ack = flush.ack
  BY <1>1, Bounds DEF Results, TypeOK, Flushes
<1>4. /\ lane' \in Seq(Results) /\ lane' # <<>>
      /\ \A i \in DOMAIN lane' : lane'[i] = result \/ (i \in DOMAIN lane /\ lane'[i] = lane[i])
  <2>1. lane' = Append(lane, result)
    BY DEF ReceivePush
  <2>. HIDE DEF result
  <2>. QED  BY <1>1, <1>3, <2>1, LaneAppended
<1>. HIDE DEF result
<1>5. TypeOK'
  BY <1>1, SameTypes, <1>2, <1>4
     DEF ReceivePush, TypeOK, storeVars, writeVars, laneVars, retryVars,
         storageVars, remoteVars, ghostVars, boundVars
<1>6. Aside
  BY <1>1, UnchangedWrites, <1>2, <1>4
     DEF ReceivePush, Aside, JournalMayGo, storeVars, writeVars, laneVars,
         retryVars, storageVars, remoteVars, ghostVars, boundVars
<1>7. LaneStays
  BY <1>1, <1>6, <1>2, <1>4
     DEF ReceivePush, Aside, LaneStays, storeVars, writeVars, laneVars,
         retryVars, storageVars, remoteVars, ghostVars, boundVars
<1>8. Attended'
  BY <1>1, <1>2, <1>4
     DEF ReceivePush, Attended, storeVars, writeVars, laneVars, retryVars,
         storageVars, remoteVars, ghostVars, boundVars
<1>9. AcksAreTaken'
  BY <1>1, <1>2, <1>4, <1>3
     DEF ReceivePush, AcksAreTaken, storeVars, writeVars, laneVars, retryVars,
         storageVars, remoteVars, ghostVars, boundVars
<1>. QED  BY <1>5, <1>6, <1>7, <1>8, <1>9, QuietStep

LEMMA EventKeeps ==
  ASSUME OutboxInvariant, UNCHANGED setup, Event
  PROVE  OutboxInvariant'
<1>1. TypeOK /\ Attended /\ LaneWaits /\ AcksAreTaken
  BY DEF OutboxInvariant
<1>. DEFINE result == [who |-> "event", fact |-> events', ack |-> {}]
<1>2. /\ events' \in Facts
      /\ flush' \in Flushes /\ flush'.ack = flush.ack
      /\ pull' \in Pulls /\ pull'.pc = pull.pc
  <2>1. /\ flush' = [flush EXCEPT !.moved = InFlight]
        /\ pull' = [pull EXCEPT !.moved = (pull.pc # "idle")]
        /\ events' = events + 1 /\ events < server
    BY DEF Event
  <2>2. InFlight \in BOOLEAN
    BY DEF InFlight
  <2>3. setup \in Setups /\ events \in Facts /\ server \in Facts
    BY <1>1 DEF TypeOK
  <2>4. events' \in Facts
    BY <2>1, <2>3, Bounds DEF Facts
  <2>. QED  BY <1>1, <2>1, <2>2, <2>4 DEF TypeOK, Flushes, Pulls
<1>3. result \in Results /\ result.ack = {}
  BY <1>2 DEF Results
<1>4. /\ lane' \in Seq(Results) /\ lane' # <<>>
      /\ \A i \in DOMAIN lane' : lane'[i] = result \/ (i \in DOMAIN lane /\ lane'[i] = lane[i])
  <2>1. lane' = Append(lane, result)
    BY DEF Event
  <2>. HIDE DEF result
  <2>. QED  BY <1>1, <1>3, <2>1, LaneAppended
<1>. HIDE DEF result
<1>5. TypeOK'
  BY <1>1, SameTypes, <1>2, <1>4
     DEF Event, TypeOK, storeVars, writeVars, laneVars, retryVars, storageVars,
         remoteVars, ghostVars, boundVars
<1>6. Aside
  BY <1>1, UnchangedWrites, <1>2, <1>4
     DEF Event, Aside, JournalMayGo, storeVars, writeVars, laneVars, retryVars,
         storageVars, remoteVars, ghostVars, boundVars
<1>7. LaneStays
  BY <1>1, <1>6, <1>2, <1>4
     DEF Event, Aside, LaneStays, storeVars, writeVars, laneVars, retryVars,
         storageVars, remoteVars, ghostVars, boundVars
<1>8. Attended'
  BY <1>1, <1>2, <1>4
     DEF Event, Attended, storeVars, writeVars, laneVars, retryVars,
         storageVars, remoteVars, ghostVars, boundVars
<1>9. AcksAreTaken'
  BY <1>1, <1>2, <1>4, <1>3
     DEF Event, AcksAreTaken, storeVars, writeVars, laneVars, retryVars,
         storageVars, remoteVars, ghostVars, boundVars
<1>. QED  BY <1>5, <1>6, <1>7, <1>8, <1>9, QuietStep

LEMMA ReceivePullKeeps ==
  ASSUME OutboxInvariant, UNCHANGED setup, ReceivePull
  PROVE  OutboxInvariant'
<1>1. TypeOK /\ Attended /\ LaneWaits /\ AcksAreTaken
  BY DEF OutboxInvariant
<1>. DEFINE result == [who |-> "pull", fact |-> pull.fact, ack |-> {}]
<1>2. pull' \in Pulls /\ life = "ready"
  BY <1>1, Bounds DEF ReceivePull, TypeOK, Pulls, Attended
<1>3. result \in Results /\ result.ack = {}
  BY <1>1 DEF Results, TypeOK, Pulls
<1>4. /\ lane' \in Seq(Results) /\ lane' # <<>>
      /\ \A i \in DOMAIN lane' : lane'[i] = result \/ (i \in DOMAIN lane /\ lane'[i] = lane[i])
  <2>1. lane' = Append(lane, result)
    BY DEF ReceivePull
  <2>. HIDE DEF result
  <2>. QED  BY <1>1, <1>3, <2>1, LaneAppended
<1>. HIDE DEF result
<1>5. TypeOK'
  BY <1>1, SameTypes, <1>2, <1>4
     DEF ReceivePull, TypeOK, storeVars, writeVars, laneVars, retryVars,
         storageVars, remoteVars, ghostVars, boundVars
<1>6. Aside
  BY <1>1, UnchangedWrites, <1>2, <1>4
     DEF ReceivePull, Aside, JournalMayGo, storeVars, writeVars, laneVars,
         retryVars, storageVars, remoteVars, ghostVars, boundVars
<1>7. LaneStays
  BY <1>1, <1>6, <1>2, <1>4
     DEF ReceivePull, Aside, LaneStays, storeVars, writeVars, laneVars,
         retryVars, storageVars, remoteVars, ghostVars, boundVars
<1>8. Attended'
  BY <1>1, <1>2, <1>4
     DEF ReceivePull, Attended, storeVars, writeVars, laneVars, retryVars,
         storageVars, remoteVars, ghostVars, boundVars
<1>9. AcksAreTaken'
  BY <1>1, <1>2, <1>4, <1>3
     DEF ReceivePull, AcksAreTaken, storeVars, writeVars, laneVars, retryVars,
         storageVars, remoteVars, ghostVars, boundVars
<1>. QED  BY <1>5, <1>6, <1>7, <1>8, <1>9, QuietStep

LEMMA FireTimerKeeps ==
  ASSUME OutboxInvariant, UNCHANGED setup, FireTimer
  PROVE  OutboxInvariant'
<1>1. TypeOK /\ Attended /\ LaneWaits /\ AcksAreTaken
  BY DEF OutboxInvariant
<1>3. /\ SameWrites
      /\ due' \subseteq due \cup [who: {"flush"}, ok: BOOLEAN]
      /\ \A q \in due' : q \in due \/ q.who = "flush"
      /\ flush' \in Flushes /\ flush'.ack \subseteq flush.ack
      /\ pull' \in Pulls
  <2>1. CASE pullOwed
    <3>1. /\ UNCHANGED <<flush, writeQueue, due>>
          /\ \/ pull' = Asking(0, TRUE)
             \/ pull' = [pull EXCEPT !.resume = TRUE]
      BY <2>1 DEF FireTimer
    <3>2. pull' \in Pulls
      <4>1. Asking(0, TRUE) \in Pulls
        BY <1>1, SmallTypes
      <4>2. pull \in Pulls
        BY <1>1 DEF TypeOK
      <4>3. [pull EXCEPT !.resume = TRUE] \in Pulls
        BY <4>2 DEF Pulls
      <4>. QED  BY <3>1, <4>1, <4>3
    <3>. QED  BY <1>1, <3>1, <3>2, UnchangedWrites DEF TypeOK
  <2>2. CASE ~pullOwed
    <3>1. Flush(writeQueue, due) /\ pull' = pull
      BY <2>2 DEF FireTimer
    <3>. QED  BY <1>1, <3>1, FlushEffect, FlushKept DEF TypeOK
  <2>. QED  BY <2>1, <2>2
<1>4. writeQueue' \in Seq(Writes) /\ due' \subseteq [who: Waiters, ok: BOOLEAN]
  BY <1>1, <1>3 DEF SameWrites, TypeOK, Waiters
<1>5. TypeOK'
  BY <1>1, SameTypes, <1>3, <1>4
     DEF FireTimer, TypeOK, storeVars, writeVars, laneVars, retryVars,
         storageVars, remoteVars, ghostVars, boundVars
<1>6. Aside
  BY <1>1, UnchangedWrites, <1>3
     DEF FireTimer, Aside, JournalMayGo, storeVars, writeVars, laneVars,
         retryVars, storageVars, remoteVars, ghostVars, boundVars
<1>7. LaneStays
  BY <1>1, <1>6, <1>3
     DEF FireTimer, Aside, LaneStays, storeVars, writeVars, laneVars,
         retryVars, storageVars, remoteVars, ghostVars, boundVars
<1>8. Attended'
  BY <1>1, <1>3
     DEF FireTimer, Attended, storeVars, writeVars, laneVars, retryVars,
         storageVars, remoteVars, ghostVars, boundVars
<1>9. AcksAreTaken'
  BY <1>1, <1>3
     DEF FireTimer, AcksAreTaken, storeVars, writeVars, laneVars, retryVars,
         storageVars, remoteVars, ghostVars, boundVars
<1>. QED  BY <1>5, <1>6, <1>7, <1>8, <1>9, QuietStep

LEMMA DiscardKeeps ==
  ASSUME OutboxInvariant, UNCHANGED setup, Discard
  PROVE  OutboxInvariant'
<1>1. TypeOK /\ Attended /\ LaneWaits /\ AcksAreTaken
  BY DEF OutboxInvariant
<1>2. /\ lane # <<>> /\ busy = "no" /\ life = "ready"
      /\ lane' \in Seq(Results)
      /\ \A i \in DOMAIN lane' : i + 1 \in DOMAIN lane /\ lane'[i] = lane[i + 1]
  BY <1>1, LaneShortened DEF Discard, LaneReady, Attended
<1>3. /\ SameWrites
      /\ due' \subseteq due \cup [who: {"flush"}, ok: BOOLEAN]
      /\ \A q \in due' : q \in due \/ q.who = "flush"
      /\ flush' \in Flushes /\ flush'.ack \subseteq flush.ack
      /\ pull' \in Pulls
      /\ timer' \in BOOLEAN /\ pullOwed' \in BOOLEAN
  <2>1. CASE pull.attempt < PullAttempts
    <3>1. /\ pull' = Asking(pull.attempt + 1, pull.resume)
          /\ UNCHANGED <<retryVars, flush, writeQueue, due>>
      BY <2>1 DEF Discard
    <3>2. pull.attempt + 1 \in Nat /\ pull.resume \in BOOLEAN
      BY <1>1 DEF TypeOK, Pulls
    <3>3. pull' \in Pulls
      BY <1>1, <3>1, <3>2, SmallTypes
    <3>. QED  BY <1>1, <3>1, <3>3, UnchangedWrites DEF TypeOK, retryVars
  <2>2. CASE ~(pull.attempt < PullAttempts)
    <3>1. /\ pull' = NoPull /\ pullOwed' = TRUE /\ Retry
          /\ \/ Flush(writeQueue, due)
             \/ UNCHANGED <<flush, writeQueue, due>>
      BY <2>2 DEF Discard
    <3>2. timer' \in BOOLEAN /\ pullOwed' \in BOOLEAN /\ pull' \in Pulls
      BY <1>1, <3>1, RetryTyped, SmallTypes
    <3>3. CASE Flush(writeQueue, due)
      BY <1>1, <3>2, <3>3, FlushEffect, FlushKept
    <3>4. CASE UNCHANGED <<flush, writeQueue, due>>
      BY <1>1, <3>2, <3>4, UnchangedWrites DEF TypeOK
    <3>. QED  BY <3>1, <3>3, <3>4
  <2>. QED  BY <2>1, <2>2
<1>4. writeQueue' \in Seq(Writes) /\ due' \subseteq [who: Waiters, ok: BOOLEAN]
  BY <1>1, <1>3 DEF SameWrites, TypeOK, Waiters
<1>5. TypeOK'
  BY <1>1, SameTypes, <1>2, <1>3, <1>4
     DEF Discard, TypeOK, storeVars, writeVars, laneVars, retryVars,
         storageVars, remoteVars, ghostVars, boundVars
<1>6. Aside
  BY <1>1, UnchangedWrites, <1>2, <1>3
     DEF Discard, Aside, JournalMayGo, storeVars, writeVars, laneVars,
         retryVars, storageVars, remoteVars, ghostVars, boundVars
<1>7. LaneStays
  BY <1>1, <1>6, <1>2, <1>3
     DEF Discard, Aside, LaneStays, storeVars, writeVars, laneVars, retryVars,
         storageVars, remoteVars, ghostVars, boundVars
<1>8. Attended'
  BY <1>1, <1>2, <1>3
     DEF Discard, Attended, storeVars, writeVars, laneVars, retryVars,
         storageVars, remoteVars, ghostVars, boundVars
<1>9. AcksAreTaken'
  BY <1>1, <1>2, <1>3
     DEF Discard, AcksAreTaken, storeVars, writeVars, laneVars, retryVars,
         storageVars, remoteVars, ghostVars, boundVars
<1>. QED  BY <1>5, <1>6, <1>7, <1>8, <1>9, QuietStep

LEMMA RefuseKeeps ==
  ASSUME OutboxInvariant, UNCHANGED setup, Refuse
  PROVE  OutboxInvariant'
<1>1. TypeOK /\ Attended /\ LaneWaits /\ AcksAreTaken
  BY DEF OutboxInvariant
<1>2. /\ lane # <<>> /\ busy = "no" /\ life = "ready"
      /\ lane' \in Seq(Results)
      /\ \A i \in DOMAIN lane' : i + 1 \in DOMAIN lane /\ lane'[i] = lane[i + 1]
  BY <1>1, LaneShortened DEF Refuse, LaneReady, Attended
<1>3. /\ SameWrites
      /\ due' \subseteq due \cup [who: {"flush"}, ok: BOOLEAN]
      /\ \A q \in due' : q \in due \/ q.who = "flush"
      /\ flush' \in Flushes /\ flush'.ack \subseteq flush.ack
      /\ pull' \in Pulls
      /\ timer' \in BOOLEAN /\ pullOwed' \in BOOLEAN
  <2>1. CASE Head(lane).who = "pull"
    <3>1. /\ pull' = NoPull /\ pullOwed' = TRUE /\ Retry
          /\ flush' = [flush EXCEPT !.moved = InFlight]
          /\ UNCHANGED <<writeQueue, due>>
      BY <2>1 DEF Refuse, PullMoves
    <3>2. timer' \in BOOLEAN /\ pullOwed' \in BOOLEAN /\ pull' \in Pulls
      BY <1>1, <3>1, RetryTyped, SmallTypes
    <3>3. InFlight \in BOOLEAN
      BY DEF InFlight
    <3>4. flush' \in Flushes /\ flush'.ack = flush.ack
      BY <1>1, <3>1, <3>3 DEF TypeOK, Flushes
    <3>. QED  BY <1>1, <3>1, <3>2, <3>4, UnchangedWrites
  <2>2. CASE Head(lane).who # "pull"
    <3>1. Resume(Head(lane), FALSE, writeQueue, due)
      BY <2>2 DEF Refuse
    <3>2. Head(lane) \in Results
      BY <1>1, <1>2, LaneShape
    <3>. QED  BY <1>1, <3>1, <3>2, ResumeEffect
  <2>. QED  BY <2>1, <2>2
<1>b. faults' \in 0 .. MaxFaults /\ sessions' = sessions
  BY <1>1, FaultTyped DEF Refuse
<1>4. writeQueue' \in Seq(Writes) /\ due' \subseteq [who: Waiters, ok: BOOLEAN]
  BY <1>1, <1>3 DEF SameWrites, TypeOK, Waiters
<1>5. TypeOK'
  BY <1>1, SameTypes, <1>2, <1>3, <1>4, <1>b
     DEF Refuse, TypeOK, storeVars, writeVars, laneVars, retryVars,
         storageVars, remoteVars, ghostVars, boundVars
<1>6. Aside
  BY <1>1, UnchangedWrites, <1>2, <1>3
     DEF Refuse, Aside, JournalMayGo, storeVars, writeVars, laneVars,
         retryVars, storageVars, remoteVars, ghostVars, boundVars
<1>7. LaneStays
  BY <1>1, <1>6, <1>2, <1>3
     DEF Refuse, Aside, LaneStays, storeVars, writeVars, laneVars, retryVars,
         storageVars, remoteVars, ghostVars, boundVars
<1>8. Attended'
  BY <1>1, <1>2, <1>3
     DEF Refuse, Attended, storeVars, writeVars, laneVars, retryVars,
         storageVars, remoteVars, ghostVars, boundVars
<1>9. AcksAreTaken'
  BY <1>1, <1>2, <1>3
     DEF Refuse, AcksAreTaken, storeVars, writeVars, laneVars, retryVars,
         storageVars, remoteVars, ghostVars, boundVars
<1>. QED  BY <1>5, <1>6, <1>7, <1>8, <1>9, QuietStep

LEMMA AppliedKeeps ==
  ASSUME OutboxInvariant, UNCHANGED setup, NEW r, Applied(r)
  PROVE  OutboxInvariant'
<1>1. TypeOK /\ Attended /\ LaneWaits /\ AcksAreTaken
  BY DEF OutboxInvariant
<1>a. Settling("lane") = {r} /\ lane # <<>> /\ life = "ready" /\ Queued("lane") = {}
  BY <1>1 DEF Applied, LaneWaits, Settling
<1>2. /\ lane # <<>> /\ life = "ready"
      /\ lane' \in Seq(Results)
      /\ \A i \in DOMAIN lane' : i + 1 \in DOMAIN lane /\ lane'[i] = lane[i + 1]
  BY <1>1, <1>a, LaneShortened DEF Applied
<1>3. /\ SameWrites
      /\ due' \subseteq due \cup [who: {"flush"}, ok: BOOLEAN]
      /\ \A q \in due' : q \in due \ {r} \/ q.who = "flush"
      /\ flush' \in Flushes /\ flush'.ack \subseteq flush.ack
      /\ pull' \in Pulls
      /\ timer' \in BOOLEAN /\ pullOwed' \in BOOLEAN
  <2>1. Resume(Head(lane), r.ok /\ busy = "writing", writeQueue, due \ {r})
    BY DEF Applied
  <2>2. Head(lane) \in Results /\ (r.ok /\ busy = "writing") \in BOOLEAN
    BY <1>1, <1>2, LaneShape
  <2>. HIDE DEF Resume
  <2>. QED  BY <1>1, <2>1, <2>2, ResumeEffect
<1>4. writeQueue' \in Seq(Writes) /\ due' \subseteq [who: Waiters, ok: BOOLEAN]
  BY <1>1, <1>3 DEF SameWrites, TypeOK, Waiters
<1>5. TypeOK'
  BY <1>1, SameTypes, <1>2, <1>3, <1>4
     DEF Applied, TypeOK, storeVars, writeVars, laneVars, retryVars,
         storageVars, remoteVars, ghostVars, boundVars
<1>6. Aside
  BY <1>1, UnchangedWrites, <1>2, <1>3
     DEF Applied, Aside, JournalMayGo, storeVars, writeVars, laneVars,
         retryVars, storageVars, remoteVars, ghostVars, boundVars
<1>7. LaneWaits'
  <2>1. Settling("lane")' = {}
    BY <1>a, <1>3 DEF Settling
  <2>2. Queued("lane")' = {}
    BY <1>a, <1>3 DEF Queued, SameWrites
  <2>. QED  BY <2>1, <2>2 DEF LaneWaits
<1>8. Attended'
  BY <1>1, <1>2, <1>3
     DEF Applied, Attended, storeVars, writeVars, laneVars, retryVars,
         storageVars, remoteVars, ghostVars, boundVars
<1>9. AcksAreTaken'
  BY <1>1, <1>2, <1>3
     DEF Applied, AcksAreTaken, storeVars, writeVars, laneVars, retryVars,
         storageVars, remoteVars, ghostVars, boundVars
<1>. QED  BY <1>5, <1>6, <1>7, <1>8, <1>9, AsideKeeps DEF OutboxInvariant

-----------------------------------------------------------------------------
(* Steps of the queue of writes.                                           *)

LEMMA StartWriteKeeps ==
  ASSUME OutboxInvariant, UNCHANGED setup, StartWrite
  PROVE  OutboxInvariant'
<1>. DEFINE first == Head(writeQueue)
            content == IF first.key = "main" THEN State ELSE first.content
            w == [first EXCEPT !.started = TRUE, !.content = content]
<1>1. /\ TypeOK /\ Attended /\ LaneWaits /\ OwedIsHeld /\ QueueHolds /\ JournalGoes
      /\ AcksAreTaken /\ ShowsPending
  BY DEF OutboxInvariant
<1>2. /\ Len(writeQueue) \in Nat /\ Len(writeQueue) > 0
      /\ DOMAIN writeQueue = 1 .. Len(writeQueue)
      /\ \A i \in 1 .. Len(writeQueue) : writeQueue[i] \in Writes
      /\ first = writeQueue[1] /\ first \in Writes
  BY <1>1, QueueShape DEF StartWrite
<1>3. /\ w \in Writes /\ w.key = first.key /\ w.waiters = first.waiters
      /\ w.started = TRUE /\ w.content = content
  BY <1>1, <1>2, StateType DEF Writes
<1>4. writeQueue' = [writeQueue EXCEPT ![1] = w]
  BY DEF StartWrite
<1>5. /\ life' = life /\ lane' = lane /\ busy' = busy /\ due' = due
      /\ removing' = removing /\ flush' = flush /\ pull' = pull
      /\ State' = State /\ outbox' = outbox /\ main' = main /\ journal' = journal
      /\ Given' = Given /\ Owed' = Owed /\ Pending' = Pending
      /\ taken' = taken /\ cleared' = cleared /\ revived' = revived
  BY DEF StartWrite, storeVars, laneVars, storageVars, remoteVars, ghostVars,
         State, Given, Owed, Pending
<1>6. /\ writeQueue' \in Seq(Writes)
      /\ DOMAIN writeQueue' = 1 .. Len(writeQueue)
      /\ writeQueue'[1] = w
      /\ \A i \in 2 .. Len(writeQueue) : writeQueue'[i] = writeQueue[i]
  <2>. HIDE DEF w
  <2>1. writeQueue' \in [1 .. Len(writeQueue) -> Writes]
    BY <1>2, <1>3, <1>4
  <2>. QED  BY <1>2, <1>4, <2>1 DEF Seq
<1>7. ASSUME NEW i \in 1 .. Len(writeQueue)
      PROVE  /\ writeQueue'[i].key = writeQueue[i].key
             /\ writeQueue'[i].waiters = writeQueue[i].waiters
             /\ i # 1 => writeQueue'[i] = writeQueue[i]
  <2>1. i = 1 \/ i \in 2 .. Len(writeQueue)
    BY <1>2
  <2>. HIDE DEF w, first
  <2>. QED  BY <1>2, <1>3, <1>6, <2>1
<1>. HIDE DEF w, first
<1>8. TypeOK'
  BY <1>1, <1>6, SameTypes
     DEF TypeOK, StartWrite, storeVars, laneVars, retryVars, storageVars, remoteVars,
         ghostVars, boundVars
<1>9. LaneWaits'
  <2>1. Queued("lane")' = Queued("lane") /\ Settling("lane")' = Settling("lane")
    BY <1>2, <1>5, <1>6, <1>7 DEF Queued, Settling
  <2>. QED  BY <1>1, <1>5, <2>1 DEF LaneWaits
<1>10. QueueHolds'
  <2>1. ASSUME NEW i \in 1 .. Len(writeQueue)
        PROVE  LET v == writeQueue'[i] IN
                 /\ v.started => i = 1
                 /\ ToSet(v.content.outbox) \subseteq Pending \cup Given
                 /\ v.key = "journal" =>
                      /\ v.waiters \cap {"start", "clear"} = {}
                      /\ \A j \in 1 .. i : writeQueue'[j].key = "journal"
                 /\ v.key = "main" =>
                      /\ life \in {"ready", "closing"}
                      /\ Owed \subseteq Pending
                      /\ v.started => Owed \subseteq ToSet(v.content.outbox)
    <3>1. /\ writeQueue[i].started => i = 1
          /\ ToSet(writeQueue[i].content.outbox) \subseteq Pending \cup Given
          /\ writeQueue[i].key = "journal" =>
               /\ writeQueue[i].waiters \cap {"start", "clear"} = {}
               /\ \A j \in 1 .. i : writeQueue[j].key = "journal"
          /\ writeQueue[i].key = "main" =>
               /\ life \in {"ready", "closing"}
               /\ Owed \subseteq Pending
               /\ writeQueue[i].started
                    => Owed \subseteq ToSet(writeQueue[i].content.outbox)
      BY <1>1, <1>2 DEF QueueHolds
    <3>2. \A j \in 1 .. i : j \in 1 .. Len(writeQueue)
      OBVIOUS
    <3>3. ToSet(State.outbox) = Pending
      BY DEF State, Pending
    <3>4. \A j \in 1 .. i : writeQueue'[j].key = writeQueue[j].key
      BY <1>7, <3>2
    <3>5. CASE i = 1
      BY <1>2, <1>3, <1>6, <3>1, <3>3, <3>4, <3>5 DEF first
    <3>6. CASE i # 1
      BY <1>7, <3>1, <3>4, <3>6
    <3>. QED  BY <3>5, <3>6
  <2>. QED  BY <1>5, <1>6, <2>1 DEF QueueHolds
<1>11. OwedIsHeld' /\ AcksAreTaken' /\ Attended'
  BY <1>1, <1>5 DEF OwedIsHeld, AcksAreTaken, Attended
<1>12. JournalGoes'
  BY <1>1, <1>2, <1>5, <1>6, <1>7 DEF JournalGoes
<1>13. ShowsPending'
  <2>1. \A s : Shows(s)' <=> Shows(s)
    BY <1>5 DEF Shows
  <2>2. ASSUME NEW i \in 1 .. Len(writeQueue), writeQueue'[i].key = "main"
        PROVE  Shows(writeQueue'[i].content)
    <3>1. CASE i = 1
      BY <1>1, <1>2, <1>3, <1>6, <2>2, <3>1 DEF ShowsPending
    <3>2. CASE i # 1
      BY <1>1, <1>2, <1>7, <2>2, <3>2 DEF ShowsPending
    <3>. QED  BY <3>1, <3>2
  <2>. QED  BY <1>1, <1>5, <1>6, <2>1, <2>2 DEF ShowsPending
<1>. QED  BY <1>8, <1>9, <1>10, <1>11, <1>12, <1>13 DEF OutboxInvariant

\* The write under way settles: who waited for it is due.
LEMMA SettledEffect ==
  ASSUME OutboxInvariant, NEW ok \in BOOLEAN, Settled(ok), life' = life,
         lane' = lane, busy' = busy
  PROVE  /\ Len(writeQueue) \in Nat \ {0}
         /\ DOMAIN writeQueue = 1 .. Len(writeQueue)
         /\ Head(writeQueue) = writeQueue[1] /\ writeQueue[1] \in Writes
         /\ writeQueue[1].started /\ due = {}
         /\ writeQueue' \in Seq(Writes)
         /\ DOMAIN writeQueue' = 1 .. Len(writeQueue) - 1
         /\ \A i \in DOMAIN writeQueue' :
              writeQueue'[i] = writeQueue[i + 1] /\ i + 1 \in DOMAIN writeQueue
         /\ due' \subseteq [who: Waiters, ok: {ok}]
         /\ \A r \in due' : r.who \in writeQueue[1].waiters
         /\ failed' \in BOOLEAN
         /\ LaneWaits'
<1>1. TypeOK /\ LaneWaits
  BY DEF OutboxInvariant
<1>2. writeQueue # <<>> /\ Head(writeQueue).started /\ due = {}
      /\ writeQueue' = Tail(writeQueue)
      /\ failed' = ~ok
      /\ due' = {[who |-> who, ok |-> ok] : who \in Head(writeQueue).waiters}
  BY DEF Settled, Quiet
<1>3. /\ Len(writeQueue) \in Nat \ {0}
      /\ DOMAIN writeQueue = 1 .. Len(writeQueue)
      /\ Head(writeQueue) = writeQueue[1] /\ writeQueue[1] \in Writes
  BY <1>1, <1>2, QueueShape
<1>4. /\ writeQueue' \in Seq(Writes)
      /\ DOMAIN writeQueue' = 1 .. Len(writeQueue) - 1
      /\ \A i \in DOMAIN writeQueue' :
           writeQueue'[i] = writeQueue[i + 1] /\ i + 1 \in DOMAIN writeQueue
  BY <1>1, <1>2, FirstRemoved
<1>5. /\ due' \subseteq [who: Waiters, ok: {ok}]
      /\ \A r \in due' : r.who \in writeQueue[1].waiters
  <2>1. writeQueue[1].waiters \subseteq Waiters
    BY <1>3 DEF Writes
  <2>. QED  BY <1>2, <1>3, <2>1
<1>6. LaneWaits'
  <2>1. ASSUME NEW i \in Queued("lane")'
        PROVE  i + 1 \in Queued("lane") /\ i \in Nat /\ i # 0
    BY <1>3, <1>4 DEF Queued
  <2>2. \A r \in Settling("lane")' : 1 \in Queued("lane") /\ r = [who |-> "lane", ok |-> ok]
    <3>1. 1 \in DOMAIN writeQueue
      BY <1>3
    <3>. QED  BY <1>3, <1>5, <3>1 DEF Settling, Queued
  <2>3. \A i, j \in Queued("lane") : i = j
    BY <1>1 DEF LaneWaits
  <2>4. Queued("lane") # {} => /\ life \in {"ready", "closing"}
                               /\ life = "ready" => lane # <<>> /\ busy # "no"
    BY <1>1 DEF LaneWaits
  <2>5. Settling("lane")' # {} => Queued("lane")' = {}
    BY <2>1, <2>2, <2>3
  <2>6. ASSUME NEW i \in Queued("lane")'
        PROVE  /\ life' \in {"ready", "closing"}
               /\ life' = "ready" => lane' # <<>> /\ busy' # "no"
               /\ Settling("lane")' = {}
               /\ \A j \in Queued("lane")' : i = j
    <3>1. \A j \in Queued("lane")' : i + 1 = j + 1 /\ j \in Nat /\ i \in Nat
      BY <2>1, <2>3
    <3>2. Queued("lane") # {}
      BY <2>1
    <3>. QED  BY <2>4, <2>5, <3>1, <3>2
  <2>7. ASSUME NEW r \in Settling("lane")'
        PROVE  /\ life' \in {"ready", "closing"}
               /\ life' = "ready" => lane' # <<>> /\ busy' # "no"
               /\ \A q \in Settling("lane")' : q = r
    BY <2>2, <2>4
  <2>. QED  BY <2>6, <2>7 DEF LaneWaits
<1>. QED  BY <1>2, <1>3, <1>4, <1>5, <1>6

\* What the queue says of the writes after the first.
LEMMA ShiftedQueue ==
  ASSUME QueueHolds, Len(writeQueue) \in Nat \ {0},
         DOMAIN writeQueue = 1 .. Len(writeQueue),
         DOMAIN writeQueue' = 1 .. Len(writeQueue) - 1,
         \A i \in DOMAIN writeQueue' :
           writeQueue'[i] = writeQueue[i + 1] /\ i + 1 \in DOMAIN writeQueue,
         life' = life, Pending' = Pending, Given' = Given,
         \A i \in DOMAIN writeQueue : writeQueue[i].key = "main" => Owed' \subseteq Pending
  PROVE  QueueHolds'
<1>1. ASSUME NEW i \in DOMAIN writeQueue'
      PROVE  LET w == writeQueue'[i] IN
               /\ w.started => i = 1
               /\ ToSet(w.content.outbox) \subseteq Pending \cup Given
               /\ w.key = "journal" => /\ w.waiters \cap {"start", "clear"} = {}
                                       /\ \A j \in 1 .. i : writeQueue'[j].key = "journal"
               /\ w.key = "main" => /\ life \in {"ready", "closing"}
                                    /\ Owed' \subseteq Pending
                                    /\ w.started => Owed' \subseteq ToSet(w.content.outbox)
  <2>1. /\ i \in Nat \ {0} /\ i + 1 \in DOMAIN writeQueue /\ i + 1 # 1
        /\ writeQueue'[i] = writeQueue[i + 1]
    OBVIOUS
  <2>2. LET w == writeQueue[i + 1] IN
          /\ ~w.started
          /\ ToSet(w.content.outbox) \subseteq Pending \cup Given
          /\ w.key = "journal" => /\ w.waiters \cap {"start", "clear"} = {}
                                  /\ \A j \in 1 .. i + 1 : writeQueue[j].key = "journal"
          /\ w.key = "main" => life \in {"ready", "closing"} /\ Owed' \subseteq Pending
    BY <2>1 DEF QueueHolds
  <2>3. \A j \in 1 .. i : j \in DOMAIN writeQueue' /\ j + 1 \in 1 .. i + 1
    BY <2>1
  <2>. QED  BY <2>1, <2>2, <2>3
<1>. QED  BY <1>1 DEF QueueHolds

LEMMA FinishWriteKeeps ==
  ASSUME OutboxInvariant, UNCHANGED setup, FinishWrite
  PROVE  OutboxInvariant'
<1>. DEFINE w == writeQueue[1]
            stored == ToSet(w.content.outbox)
<1>1. /\ TypeOK /\ Attended /\ LaneWaits /\ OwedIsHeld /\ QueueHolds /\ JournalGoes
      /\ AcksAreTaken /\ ShowsPending
  BY DEF OutboxInvariant
<1>2. /\ life' = life /\ lane' = lane /\ busy' = busy /\ flush' = flush /\ pull' = pull
      /\ removing' = removing /\ outbox' = outbox /\ State' = State
      /\ taken' = taken /\ cleared' = cleared /\ dropped' = dropped
      /\ revived' = revived /\ Given' = Given /\ Pending' = Pending
  BY DEF FinishWrite, storeVars, laneVars, remoteVars, State, Given, Pending
<1>3. /\ Len(writeQueue) \in Nat \ {0}
      /\ DOMAIN writeQueue = 1 .. Len(writeQueue)
      /\ Head(writeQueue) = w /\ w \in Writes
      /\ w.started /\ due = {}
      /\ writeQueue' \in Seq(Writes)
      /\ DOMAIN writeQueue' = 1 .. Len(writeQueue) - 1
      /\ \A i \in DOMAIN writeQueue' :
           writeQueue'[i] = writeQueue[i + 1] /\ i + 1 \in DOMAIN writeQueue
      /\ due' \subseteq [who: Waiters, ok: {TRUE}]
      /\ \A r \in due' : r.who \in w.waiters
      /\ failed' \in BOOLEAN
      /\ LaneWaits'
  BY <1>2, SettledEffect DEF FinishWrite
<1>4. /\ main' = IF w.key = "main" THEN w.content ELSE main
      /\ journal' = IF w.key = "journal" THEN Merge(journal, w.content.outbox) ELSE journal
      /\ durable' = durable \cup stored
  BY <1>3 DEF FinishWrite
<1>5. 1 \in DOMAIN writeQueue
  BY <1>3
<1>6. /\ w.content \in Checkpoints /\ w.content.outbox \in Seq(Mutations)
      /\ stored \subseteq Mutations
      /\ w.key \in {"main", "journal"}
  BY <1>3, ToSetType DEF Writes, Checkpoints
<1>7. /\ stored \subseteq Pending \cup Given
      /\ w.key = "journal" => w.waiters \cap {"start", "clear"} = {}
      /\ w.key = "main" => /\ life \in {"ready", "closing"}
                           /\ Owed \subseteq Pending
                           /\ Owed \subseteq stored
      /\ \A i \in DOMAIN writeQueue : writeQueue[i].key = "journal" => w.key = "journal"
  <2>1. \A i \in DOMAIN writeQueue : 1 \in 1 .. i
    BY <1>3
  <2>. QED  BY <1>1, <1>3, <1>5, <2>1 DEF QueueHolds
<1>. HIDE DEF w, stored
<1>8. /\ Merge(journal, w.content.outbox) \in Seq(Mutations)
      /\ ToSet(Merge(journal, w.content.outbox)) = ToSet(journal) \cup stored
  BY <1>1, <1>6, ToSetOfMerge DEF TypeOK, stored
<1>9. TypeOK'
  <2>1. main' \in Checkpoints /\ journal' \in Seq(Mutations) /\ durable' \subseteq Mutations
        /\ due' \subseteq [who: Waiters, ok: BOOLEAN]
    BY <1>1, <1>3, <1>4, <1>6, <1>8 DEF TypeOK
  <2>. QED  BY <1>1, <1>2, <1>3, <2>1, SameTypes
            DEF TypeOK, FinishWrite, storeVars, laneVars, retryVars, remoteVars, boundVars
<1>10. Owed' \subseteq Owed \cup (stored \ Given)
  BY <1>2, <1>4 DEF Owed
<1>11. Owed' \subseteq ToSet(main'.outbox) \cup ToSet(journal')
  <2>1. CASE w.key = "main"
    BY <1>4, <1>7, <1>10, <2>1 DEF stored
  <2>2. CASE w.key = "journal"
    BY <1>1, <1>4, <1>8, <1>10, <2>2 DEF OwedIsHeld
  <2>. QED  BY <1>6, <2>1, <2>2
<1>12. Owed \subseteq Pending => Owed' \subseteq Pending'
  BY <1>2, <1>7, <1>10
<1>13. OwedIsHeld'
  BY <1>1, <1>2, <1>11, <1>12 DEF OwedIsHeld
<1>14. QueueHolds'
  <2>1. ASSUME NEW i \in DOMAIN writeQueue, writeQueue[i].key = "main"
        PROVE  Owed' \subseteq Pending
    <3>1. Owed \subseteq Pending
      BY <1>1, <2>1 DEF QueueHolds
    <3>. QED  BY <1>2, <1>12, <3>1
  <2>. QED  BY <1>1, <1>2, <1>3, <2>1, ShiftedQueue
<1>15. JournalGoes'
  <2>1. SUFFICES ASSUME JournalMayGo'
        PROVE  /\ life' \in {"ready", "closing"}
               /\ Owed' \subseteq ToSet(main'.outbox)
               /\ \A i \in DOMAIN writeQueue' : writeQueue'[i].key = "main"
    BY DEF JournalGoes, JournalMayGo
  <2>2. w.key = "main"
    <3>1. CASE removing # {}
      BY <1>1, <1>5, <3>1 DEF JournalGoes, w
    <3>2. CASE removing = {}
      <4>1. w.waiters \cap {"start", "clear"} # {}
        BY <1>2, <1>3, <2>1, <3>2 DEF JournalMayGo
      <4>. QED  BY <1>6, <1>7, <4>1
    <3>. QED  BY <3>1, <3>2
  <2>3. \A i \in DOMAIN writeQueue : writeQueue[i].key = "main"
    <3>1. \A i \in DOMAIN writeQueue : writeQueue[i] \in Writes
      BY <1>1, QueueShape
    <3>2. \A i \in DOMAIN writeQueue : writeQueue[i].key # "journal"
      BY <1>7, <2>2
    <3>. QED  BY <3>1, <3>2 DEF Writes
  <2>. QED  BY <1>2, <1>3, <1>4, <1>7, <1>10, <2>2, <2>3 DEF stored
<1>16. ShowsPending'
  <2>1. \A s : Shows(s)' <=> Shows(s)
    BY <1>2 DEF Shows
  <2>2. Shows(main')
    BY <1>1, <1>4, <1>5 DEF ShowsPending, w
  <2>. QED  BY <1>1, <1>2, <1>3, <2>1, <2>2 DEF ShowsPending
<1>17. Attended' /\ AcksAreTaken'
  BY <1>1, <1>2 DEF Attended, AcksAreTaken
<1>. QED  BY <1>3, <1>9, <1>13, <1>14, <1>15, <1>16, <1>17 DEF OutboxInvariant

LEMMA FailWriteKeeps ==
  ASSUME OutboxInvariant, UNCHANGED setup, FailWrite
  PROVE  OutboxInvariant'
<1>1. /\ TypeOK /\ Attended /\ LaneWaits /\ OwedIsHeld /\ QueueHolds /\ JournalGoes
      /\ AcksAreTaken /\ ShowsPending
  BY DEF OutboxInvariant
<1>2. /\ life' = life /\ lane' = lane /\ busy' = busy /\ flush' = flush /\ pull' = pull
      /\ removing' = removing /\ outbox' = outbox /\ State' = State
      /\ taken' = taken /\ cleared' = cleared /\ main' = main /\ journal' = journal
      /\ Given' = Given /\ Pending' = Pending /\ Owed' = Owed /\ revived' = revived
  BY DEF FailWrite, storeVars, laneVars, remoteVars, storageVars, ghostVars, State,
         Given, Pending, Owed
<1>3. /\ Len(writeQueue) \in Nat \ {0}
      /\ DOMAIN writeQueue = 1 .. Len(writeQueue)
      /\ writeQueue' \in Seq(Writes)
      /\ DOMAIN writeQueue' = 1 .. Len(writeQueue) - 1
      /\ \A i \in DOMAIN writeQueue' :
           writeQueue'[i] = writeQueue[i + 1] /\ i + 1 \in DOMAIN writeQueue
      /\ due' \subseteq [who: Waiters, ok: {FALSE}]
      /\ failed' \in BOOLEAN
      /\ LaneWaits'
  BY <1>2, SettledEffect DEF FailWrite
<1>4. TypeOK'
  <2>1. due' \subseteq [who: Waiters, ok: BOOLEAN]
    BY <1>3
  <2>2. faults' \in 0 .. MaxFaults /\ sessions' = sessions
    BY <1>1, FaultTyped DEF FailWrite
  <2>. QED  BY <1>1, <1>2, <1>3, <2>1, <2>2, SameTypes
            DEF TypeOK, FailWrite, storeVars, laneVars, retryVars, storageVars,
                remoteVars, ghostVars
<1>5. OwedIsHeld' /\ Attended' /\ AcksAreTaken'
  BY <1>1, <1>2 DEF OwedIsHeld, Attended, AcksAreTaken
<1>6. QueueHolds'
  <2>1. \A i \in DOMAIN writeQueue : writeQueue[i].key = "main" => Owed' \subseteq Pending
    BY <1>1, <1>2 DEF QueueHolds
  <2>. QED  BY <1>1, <1>2, <1>3, <2>1, ShiftedQueue
<1>7. JournalGoes'
  <2>1. \A r \in due' : ~r.ok
    BY <1>3
  <2>. QED  BY <1>1, <1>2, <1>3, <2>1 DEF JournalGoes
<1>8. ShowsPending'
  <2>1. \A s : Shows(s)' <=> Shows(s)
    BY <1>2 DEF Shows
  <2>. QED  BY <1>1, <1>2, <1>3, <2>1 DEF ShowsPending
<1>. QED  BY <1>3, <1>4, <1>5, <1>6, <1>7, <1>8 DEF OutboxInvariant

-----------------------------------------------------------------------------
(* Steps that change what is pending, or end the program.                  *)

LEMMA NewWrite ==
  ASSUME TypeOK, NEW key \in {"main", "journal"}, NEW content \in Checkpoints,
         NEW who \in Waiters, writeQueue' = Append(writeQueue, Write(key, content, who))
  PROVE  /\ writeQueue' \in Seq(Writes)
         /\ Len(writeQueue) \in Nat /\ DOMAIN writeQueue = 1 .. Len(writeQueue)
         /\ DOMAIN writeQueue' = 1 .. Len(writeQueue) + 1
         /\ \A i \in DOMAIN writeQueue : writeQueue'[i] = writeQueue[i]
         /\ writeQueue'[Len(writeQueue) + 1].key = key
         /\ writeQueue'[Len(writeQueue) + 1].content = content
         /\ writeQueue'[Len(writeQueue) + 1].started = FALSE
         /\ writeQueue'[Len(writeQueue) + 1].waiters = {who}
         /\ \A other : other # who => Queued(other)' = Queued(other)
<1>. DEFINE w == Write(key, content, who)
<1>1. /\ w \in Writes
      /\ w.key = key /\ w.content = content /\ w.started = FALSE /\ w.waiters = {who}
  BY DEF Write, Writes
<1>. HIDE DEF w
<1>2. /\ writeQueue' \in Seq(Writes)
      /\ DOMAIN writeQueue' = 1 .. Len(writeQueue) + 1
      /\ \A i \in 1 .. Len(writeQueue) : writeQueue'[i] = writeQueue[i]
      /\ writeQueue'[Len(writeQueue) + 1] = w
  <2>1. writeQueue' = Append(writeQueue, w)
    BY DEF w
  <2>. QED  BY <1>1, <2>1, AppendedWrite
<1>3. Len(writeQueue) \in Nat /\ DOMAIN writeQueue = 1 .. Len(writeQueue)
  BY QueueShape
<1>4. ASSUME NEW other, other # who PROVE Queued(other)' = Queued(other)
  BY <1>1, <1>2, <1>3, <1>4 DEF Queued
<1>. QED  BY <1>1, <1>2, <1>3, <1>4

\* A write joins the queue in a step after which no more is owed than before.
LEMMA NewWriteHolds ==
  ASSUME TypeOK, QueueHolds,
         NEW key \in {"main", "journal"}, NEW content \in Checkpoints,
         NEW who \in Waiters, writeQueue' = Append(writeQueue, Write(key, content, who)),
         Pending \cup Given \subseteq Pending' \cup Given', Owed' \subseteq Owed,
         life \in {"ready", "closing"} => life' \in {"ready", "closing"},
         life' = "ready" => Owed' \subseteq Pending',
         life \in {"ready", "closing"} => Owed' \subseteq Pending',
         ToSet(content.outbox) \subseteq Pending' \cup Given',
         key = "journal" => /\ who \notin {"start", "clear"}
                            /\ life \notin {"ready", "closing"},
         key = "main" => life' = "ready"
  PROVE  QueueHolds'
<1>. DEFINE n == Len(writeQueue) + 1
<1>1. /\ n \in Nat \ {0}
      /\ DOMAIN writeQueue' = 1 .. n
      /\ \A j \in 1 .. n : j = n \/ j \in DOMAIN writeQueue
      /\ \A i \in DOMAIN writeQueue : i \in Nat /\ \A j \in 1 .. i : j \in DOMAIN writeQueue
      /\ \A i \in DOMAIN writeQueue : writeQueue'[i] = writeQueue[i]
      /\ writeQueue'[n].key = key
      /\ writeQueue'[n].content = content
      /\ writeQueue'[n].started = FALSE
      /\ writeQueue'[n].waiters = {who}
  <2>1. Len(writeQueue) \in Nat /\ DOMAIN writeQueue = 1 .. Len(writeQueue)
    BY NewWrite
  <2>2. n \in Nat \ {0} /\ \A j \in 1 .. n : j = n \/ j \in DOMAIN writeQueue
    BY <2>1
  <2>3. \A i \in DOMAIN writeQueue : i \in Nat /\ \A j \in 1 .. i : j \in DOMAIN writeQueue
    BY <2>1
  <2>. QED  BY <2>2, <2>3, NewWrite
<1>. HIDE DEF n
<1>2. ASSUME NEW i \in DOMAIN writeQueue
      PROVE  LET w == writeQueue'[i] IN
               /\ w.started => i = 1
               /\ ToSet(w.content.outbox) \subseteq Pending' \cup Given'
               /\ w.key = "journal" => /\ w.waiters \cap {"start", "clear"} = {}
                                       /\ \A j \in 1 .. i : writeQueue'[j].key = "journal"
               /\ w.key = "main" => /\ life' \in {"ready", "closing"}
                                    /\ Owed' \subseteq Pending'
                                    /\ w.started => Owed' \subseteq ToSet(w.content.outbox)
  <2>1. \A j \in 1 .. i : j \in DOMAIN writeQueue
    BY <1>1
  <2>. QED  BY <1>1, <2>1 DEF QueueHolds
<1>3. key = "journal" => \A j \in 1 .. n : writeQueue'[j].key = "journal"
  <2>1. \A j \in DOMAIN writeQueue : writeQueue[j].key \in {"main", "journal"}
    BY QueueShape DEF Writes
  <2>2. key = "journal" => \A j \in DOMAIN writeQueue : writeQueue[j].key = "journal"
    BY <2>1 DEF QueueHolds
  <2>3. \A j \in 1 .. n : j = n \/ j \in DOMAIN writeQueue
    BY <1>1
  <2>. QED  BY <1>1, <2>2, <2>3
<1>4. \A i \in DOMAIN writeQueue' : i = n \/ i \in DOMAIN writeQueue
  BY <1>1
<1>5. LET w == writeQueue'[n] IN
        /\ ~w.started
        /\ ToSet(w.content.outbox) \subseteq Pending' \cup Given'
        /\ w.key = "journal" => /\ w.waiters \cap {"start", "clear"} = {}
                                /\ \A j \in 1 .. n : writeQueue'[j].key = "journal"
        /\ w.key = "main" => life' \in {"ready", "closing"} /\ Owed' \subseteq Pending'
  BY <1>1, <1>3
<1>. QED  BY <1>2, <1>4, <1>5 DEF QueueHolds

\* Nobody but the store waits for the lane when a write that is not the lane's
\* joins the queue.
LEMMA NewWriteLane ==
  ASSUME TypeOK, LaneWaits, Queued("lane")' = Queued("lane"),
         lane' = lane, busy' = busy, due' = due,
         life' = life \/ (life = "merged" /\ life' = "ready")
  PROVE  LaneWaits'
BY DEF LaneWaits, Settling

LEMMA FinishHydrationKeeps ==
  ASSUME OutboxInvariant, UNCHANGED setup, FinishHydration
  PROVE  OutboxInvariant'
<1>1. /\ TypeOK /\ Attended /\ LaneWaits /\ OwedIsHeld /\ QueueHolds /\ JournalGoes
      /\ AcksAreTaken /\ ShowsPending
  BY DEF OutboxInvariant
<1>2. /\ life = "merged" /\ life' = "ready"
      /\ writeQueue' = Append(writeQueue, Write("main", State, "start"))
      /\ lane' = lane /\ busy' = busy /\ flush' = flush /\ pull' = pull
      /\ due' = due /\ removing' = removing /\ outbox' = outbox /\ State' = State
      /\ taken' = taken /\ cleared' = cleared /\ main' = main /\ journal' = journal
      /\ Given' = Given /\ Pending' = Pending /\ Owed' = Owed /\ revived' = revived
  BY DEF FinishHydration, Persisted, storeVars, laneVars, remoteVars, storageVars,
         ghostVars, State, Given, Pending, Owed
<1>3. /\ State \in Checkpoints
      /\ "start" \in Waiters /\ "lane" # "start" /\ ToSet(State.outbox) = Pending
  BY <1>1, StateType DEF Waiters, State, Pending
<1>4. /\ writeQueue' \in Seq(Writes)
      /\ DOMAIN writeQueue' = 1 .. Len(writeQueue) + 1
      /\ Len(writeQueue) \in Nat /\ DOMAIN writeQueue = 1 .. Len(writeQueue)
      /\ \A i \in DOMAIN writeQueue : writeQueue'[i] = writeQueue[i]
      /\ writeQueue'[Len(writeQueue) + 1].content = State
      /\ Queued("lane")' = Queued("lane")
  BY <1>1, <1>2, <1>3, NewWrite
<1>5. TypeOK'
  BY <1>1, <1>2, <1>4, SameTypes
     DEF TypeOK, FinishHydration, storeVars, laneVars, retryVars, storageVars, remoteVars,
         ghostVars, boundVars
<1>6. QueueHolds'
  BY <1>1, <1>2, <1>3, NewWriteHolds DEF OwedIsHeld
<1>7. LaneWaits'
  BY <1>1, <1>2, <1>4, NewWriteLane
<1>8. OwedIsHeld' /\ Attended' /\ AcksAreTaken' /\ JournalGoes'
  BY <1>1, <1>2 DEF OwedIsHeld, Attended, AcksAreTaken, JournalGoes
<1>9. ShowsPending'
  <2>1. \A s : Shows(s)' <=> Shows(s)
    BY <1>2 DEF Shows
  <2>2. \A i \in DOMAIN writeQueue' : i \in DOMAIN writeQueue \/ i = Len(writeQueue) + 1
    BY <1>4
  <2>. QED  BY <1>1, <1>2, <1>4, <2>1, <2>2 DEF ShowsPending
<1>. QED  BY <1>5, <1>6, <1>7, <1>8, <1>9 DEF OutboxInvariant

LEMMA CommitKeeps ==
  ASSUME OutboxInvariant, UNCHANGED setup, Commit
  PROVE  OutboxInvariant'
<1>. DEFINE m == made + 1
            saved == IF life = "ready" THEN State ELSE [State EXCEPT !.outbox = outbox']
            key == IF life = "ready" THEN "main" ELSE "journal"
<1>1. /\ TypeOK /\ Attended /\ LaneWaits /\ OwedIsHeld /\ QueueHolds /\ JournalGoes
      /\ AcksAreTaken /\ ShowsPending
  BY DEF OutboxInvariant
<1>2. /\ Open /\ made' = m /\ m \in Mutations
      /\ outbox' = Append(outbox, m)
      /\ applied' = [applied EXCEPT ![m] = 1]
      /\ writeQueue' = Append(writeQueue, Write(key, saved, "commit"))
      /\ life' = life /\ lane' = lane /\ busy' = busy /\ flush' = flush /\ pull' = pull
      /\ due' = due /\ removing' = removing /\ base' = base
      /\ taken' = taken /\ cleared' = cleared /\ main' = main /\ journal' = journal
      /\ Given' = Given /\ Owed' = Owed /\ revived' = revived
  <2>1. m \in Mutations
    BY <1>1, Bounds DEF Commit, Mutations, TypeOK
  <2>. QED  BY <2>1 DEF Commit, Persisted, laneVars, remoteVars, storageVars, Given, Owed
<1>. HIDE DEF m
<1>3. /\ outbox' \in Seq(Mutations)
      /\ Pending' = Pending \cup {m}
      /\ applied' \in [Mutations -> Nat]
      /\ applied'[m] = 1
      /\ \A n \in Mutations : n # m => applied'[n] = applied[n]
  BY <1>1, <1>2, ToSetOfAppend DEF TypeOK, Pending
<1>4. /\ saved \in Checkpoints /\ key \in {"main", "journal"} /\ "commit" \in Waiters
      /\ ToSet(saved.outbox) \subseteq Pending'
  <2>1. State.outbox = outbox /\ [State EXCEPT !.outbox = outbox'].outbox = outbox'
    BY DEF State
  <2>2. State \in Checkpoints /\ [State EXCEPT !.outbox = outbox'] \in Checkpoints
    BY <1>1, <1>3, StateType DEF Checkpoints
  <2>. QED  BY <1>3, <2>1, <2>2 DEF Waiters, Pending
<1>. HIDE DEF saved
<1>5. /\ writeQueue' \in Seq(Writes)
      /\ DOMAIN writeQueue' = 1 .. Len(writeQueue) + 1
      /\ Len(writeQueue) \in Nat /\ DOMAIN writeQueue = 1 .. Len(writeQueue)
      /\ \A i \in DOMAIN writeQueue : writeQueue'[i] = writeQueue[i]
      /\ writeQueue'[Len(writeQueue) + 1].content = saved
      /\ writeQueue'[Len(writeQueue) + 1].key = key
      /\ Queued("lane")' = Queued("lane")
  <2>. HIDE DEF key
  <2>1. "lane" # "commit"
    OBVIOUS
  <2>2. writeQueue' = Append(writeQueue, Write(key, saved, "commit"))
    BY <1>2
  <2>. QED  BY <1>1, <1>4, <2>1, <2>2, NewWrite
<1>6. TypeOK'
  <2>1. made' \in 0 .. MaxMutations
    BY <1>1, <1>2 DEF Mutations, m, TypeOK
  <2>. QED  BY <1>1, <1>2, <1>3, <1>5, <2>1, SameTypes
            DEF TypeOK, Commit, laneVars, retryVars, storageVars, remoteVars, boundVars
<1>7. QueueHolds'
  <2>1. life = "ready" => Owed' \subseteq Pending'
    BY <1>1, <1>2, <1>3 DEF OwedIsHeld
  <2>2. life \notin {"closing"} /\ (key = "journal" => life # "ready")
    BY <1>2 DEF Open
  <2>3. key = "main" => life = "ready"
    OBVIOUS
  <2>. HIDE DEF key
  <2>. QED  BY <1>1, <1>2, <1>3, <1>4, <2>1, <2>2, <2>3, NewWriteHolds
<1>8. LaneWaits'
  BY <1>1, <1>2, <1>5, NewWriteLane
<1>9. OwedIsHeld' /\ Attended' /\ AcksAreTaken'
  BY <1>1, <1>2, <1>3 DEF OwedIsHeld, Attended, AcksAreTaken
<1>10. JournalGoes'
  <2>1. life \in {"ready", "closing"} => key = "main"
    BY <1>2 DEF Open
  <2>2. \A i \in DOMAIN writeQueue' : i \in DOMAIN writeQueue \/ i = Len(writeQueue) + 1
    BY <1>5
  <2>. QED  BY <1>1, <1>2, <1>5, <2>1, <2>2 DEF JournalGoes
<1>11. ShowsPending'
  <2>1. \A s : Shows(s)' <=> Shows(s)
    BY <1>2 DEF Shows
  <2>2. Shows(State')
    <3>1. State'.outbox = outbox' /\ State'.applied = applied'
          /\ State.outbox = outbox /\ State.applied = applied
      BY DEF State
    <3>2. ToSet(outbox) \subseteq Mutations /\ ToSet(outbox') = ToSet(outbox) \cup {m}
      BY <1>1, <1>3, ToSetType DEF TypeOK, Pending
    <3>. QED  BY <1>1, <1>3, <3>1, <3>2 DEF Shows, ShowsPending
  <2>3. \A i \in DOMAIN writeQueue' : i \in DOMAIN writeQueue \/ i = Len(writeQueue) + 1
    BY <1>5
  <2>4. key = "main" => saved = State
    BY DEF saved
  <2>. QED  BY <1>1, <1>2, <1>5, <2>1, <2>2, <2>3, <2>4 DEF ShowsPending
<1>. QED  BY <1>6, <1>7, <1>8, <1>9, <1>10, <1>11 DEF OutboxInvariant

LEMMA ClearPendingKeeps ==
  ASSUME OutboxInvariant, UNCHANGED setup, ClearPending
  PROVE  OutboxInvariant'
<1>1. /\ TypeOK /\ Attended /\ LaneWaits /\ OwedIsHeld /\ QueueHolds /\ JournalGoes
      /\ AcksAreTaken /\ ShowsPending
  BY DEF OutboxInvariant
<1>2. /\ life = "ready" /\ life' = life
      /\ outbox' = <<>> /\ cleared' = cleared \cup Pending
      /\ writeQueue' = Append(writeQueue, Write("main", State, "clear"))
      /\ lane' = lane /\ busy' = busy /\ flush' = flush /\ pull' = pull
      /\ due' = due /\ removing' = removing /\ applied' = applied /\ base' = base
      /\ taken' = taken /\ dropped' = dropped /\ main' = main /\ journal' = journal
      /\ durable' = durable /\ revived' = revived
  BY DEF ClearPending, Persisted, laneVars, remoteVars, storageVars, Pending
<1>3. /\ Pending' = {} /\ Given' = Given \cup Pending /\ Owed' = {}
  <2>1. Owed \subseteq Pending
    BY <1>1, <1>2 DEF OwedIsHeld
  <2>2. Pending' = {}
    BY <1>2, ToSetOfEmpty DEF Pending
  <2>. QED  BY <1>2, <2>1, <2>2 DEF Given, Owed
<1>4. /\ State \in Checkpoints /\ "clear" \in Waiters /\ "lane" # "clear"
      /\ ToSet(State.outbox) = Pending
  BY <1>1, StateType DEF Waiters, State, Pending
<1>5. /\ writeQueue' \in Seq(Writes)
      /\ DOMAIN writeQueue' = 1 .. Len(writeQueue) + 1
      /\ Len(writeQueue) \in Nat /\ DOMAIN writeQueue = 1 .. Len(writeQueue)
      /\ \A i \in DOMAIN writeQueue : writeQueue'[i] = writeQueue[i]
      /\ writeQueue'[Len(writeQueue) + 1].content = State
      /\ writeQueue'[Len(writeQueue) + 1].key = "main"
      /\ Queued("lane")' = Queued("lane")
  BY <1>1, <1>2, <1>4, NewWrite
<1>6. TypeOK'
  <2>1. cleared' \subseteq Mutations /\ outbox' \in Seq(Mutations)
    BY <1>1, <1>2, ToSetType, EmptySeq DEF TypeOK, Pending
  <2>. QED  BY <1>1, <1>2, <1>5, <2>1, SameTypes
            DEF TypeOK, ClearPending, laneVars, retryVars, storageVars, remoteVars,
                boundVars
<1>7. QueueHolds'
  BY <1>1, <1>2, <1>3, <1>4, NewWriteHolds
<1>8. LaneWaits'
  BY <1>1, <1>2, <1>5, NewWriteLane
<1>9. OwedIsHeld' /\ Attended' /\ AcksAreTaken'
  BY <1>1, <1>2, <1>3 DEF OwedIsHeld, Attended, AcksAreTaken
<1>10. JournalGoes'
  <2>1. \A i \in DOMAIN writeQueue' : i \in DOMAIN writeQueue \/ i = Len(writeQueue) + 1
    BY <1>5
  <2>. QED  BY <1>1, <1>2, <1>3, <1>5, <2>1 DEF JournalGoes
<1>11. ShowsPending'
  <2>1. \A s : Shows(s) => Shows(s)'
    BY <1>2 DEF Shows
  <2>2. Shows(State)'
    <3>1. State'.outbox = outbox' /\ State'.applied = applied
          /\ State.outbox = outbox /\ State.applied = applied
      BY <1>2 DEF State
    <3>. QED  BY <1>1, <1>2, <1>3, <3>1 DEF Shows, ShowsPending, Pending
  <2>3. \A i \in DOMAIN writeQueue' : i \in DOMAIN writeQueue \/ i = Len(writeQueue) + 1
    BY <1>5
  <2>. QED  BY <1>1, <1>2, <1>5, <2>1, <2>2, <2>3 DEF ShowsPending
<1>. QED  BY <1>6, <1>7, <1>8, <1>9, <1>10, <1>11 DEF OutboxInvariant

\* What a rebase leaves pending.
LEMMA RebaseEffect ==
  ASSUME TypeOK, ShowsPending, NEW fact \in Facts, NEW ack \in SUBSET taken,
         Rebase(fact, Without(outbox, ack)), taken' = taken, cleared' = cleared,
         revived' = revived
  PROVE  /\ outbox' \in Seq(Mutations) /\ applied' \in [Mutations -> Nat]
         /\ base' \in Facts
         /\ dropped' \subseteq Mutations /\ dropped \subseteq dropped'
         /\ Pending \subseteq Pending' \cup ack \cup dropped'
         /\ Pending' \subseteq Pending
         /\ Shows(State)'
<1>. DEFINE rest == Without(outbox, ack)
<1>1. /\ outbox \in Seq(Mutations) /\ Pending \subseteq Mutations
      /\ rest \in Seq(Mutations) /\ ToSet(rest) = Pending \ ack
  BY ToSetOfWithout, ToSetType DEF TypeOK, Pending
<1>. HIDE DEF rest
<1>2. applied \in [Mutations -> Nat] /\ base \in Facts /\ dropped \subseteq Mutations
      /\ taken \subseteq Mutations
  BY DEF TypeOK
<1>3. /\ \A m \in Pending : applied[m] > 0
      /\ \A m \in Mutations \ revived : applied[m] <= 1
      /\ revived \subseteq taken \cup cleared
      /\ \A m \in Mutations \ (taken \cup cleared) : applied[m] > 0 => m \in Pending
  BY DEF ShowsPending, Shows, State, Pending
<1>4. \E gone \in SUBSET (Pending \ ack) :
        /\ outbox' \in Seq(Mutations) /\ Pending' = (Pending \ ack) \ gone
        /\ applied' = [m \in Mutations |-> IF m \in gone THEN applied[m] - 1
                                                         ELSE applied[m]]
        /\ base' \in Facts
        /\ dropped' = dropped \cup gone
  <2>1. CASE fact = 0
    <3>1. outbox' = rest /\ applied' = applied /\ base' = base /\ dropped' = dropped
      BY <2>1 DEF Rebase, rest
    <3>2. applied' = [m \in Mutations |-> IF m \in {} THEN applied[m] - 1 ELSE applied[m]]
      BY <1>2, <3>1
    <3>3. Pending' = (Pending \ ack) \ {}
      BY <1>1, <3>1 DEF Pending
    <3>4. outbox' \in Seq(Mutations) /\ base' \in Facts /\ dropped' = dropped \cup {}
          /\ {} \in SUBSET (Pending \ ack)
      BY <1>1, <1>2, <3>1
    <3>. QED  BY <3>2, <3>3, <3>4, Zenon
  <2>2. CASE fact # 0
    <3>1. PICK gone \in Droppable(rest) :
            /\ outbox' = Without(rest, gone)
            /\ applied' = [m \in Mutations |-> IF m \in gone THEN applied[m] - 1
                                                             ELSE applied[m]]
            /\ base' = fact
            /\ dropped' = dropped \cup gone
      BY <2>2 DEF Rebase, rest
    <3>2. gone \subseteq ToSet(rest)
      BY DEF Droppable
    <3>3. outbox' \in Seq(Mutations) /\ Pending' = ToSet(rest) \ gone
      BY <1>1, <3>1, ToSetOfWithout DEF Pending
    <3>4. /\ gone \in SUBSET (Pending \ ack) /\ base' \in Facts
          /\ Pending' = (Pending \ ack) \ gone
      BY <1>1, <3>1, <3>2, <3>3
    <3>. QED  BY <3>1, <3>3, <3>4, Zenon
  <2>. QED  BY <2>1, <2>2
<1>5. PICK gone \in SUBSET (Pending \ ack) :
        /\ outbox' \in Seq(Mutations) /\ Pending' = (Pending \ ack) \ gone
        /\ applied' = [m \in Mutations |-> IF m \in gone THEN applied[m] - 1
                                                         ELSE applied[m]]
        /\ base' \in Facts
        /\ dropped' = dropped \cup gone
  BY <1>4
<1>6. applied' \in [Mutations -> Nat]
  BY <1>1, <1>2, <1>3, <1>5
<1>7. Shows(State)'
  <2>1. State'.outbox = outbox' /\ State'.applied = applied'
    BY DEF State
  <2>2. \A m \in Pending' : m \in Pending /\ m \notin gone /\ m \in Mutations
    BY <1>1, <1>5
  <2>3. \A m \in Pending' : applied'[m] > 0
    BY <1>3, <1>5, <2>2
  <2>4. ASSUME NEW m \in Mutations \ (taken \cup cleared)
        PROVE  applied'[m] > 0 => m \in Pending'
    BY <1>2, <1>3, <1>5
  <2>5. ASSUME NEW m \in Mutations \ revived
        PROVE  applied'[m] <= 1
    BY <1>1, <1>2, <1>3, <1>5
  <2>. QED  BY <2>1, <2>3, <2>4, <2>5 DEF Shows, Pending
<1>. QED  BY <1>1, <1>2, <1>5, <1>6, <1>7

LEMMA ApplyKeeps ==
  ASSUME OutboxInvariant, UNCHANGED setup, Apply
  PROVE  OutboxInvariant'
<1>. DEFINE first == Head(lane)
<1>1. /\ TypeOK /\ Attended /\ LaneWaits /\ OwedIsHeld /\ QueueHolds /\ JournalGoes
      /\ AcksAreTaken /\ ShowsPending
  BY DEF OutboxInvariant
<1>2. /\ lane # <<>> /\ busy = "no" /\ life = "ready"
      /\ Rebase(first.fact, Without(outbox, first.ack))
      /\ writeQueue' = Append(writeQueue, Write("main", State, "lane"))
      /\ busy' \in {"writing", "threw"}
      /\ life' = life /\ lane' = lane /\ pull' = pull
      /\ due' = due /\ removing' = removing
      /\ taken' = taken /\ cleared' = cleared /\ main' = main /\ journal' = journal
      /\ durable' = durable /\ revived' = revived
      /\ UNCHANGED boundVars \/ Fault("throw")
  BY <1>1 DEF Apply, LaneReady, Attended, Persisted, laneVars, remoteVars, storageVars
<1>3. /\ first \in Results /\ first = lane[1] /\ 1 \in DOMAIN lane
      /\ first.fact \in Facts /\ first.ack \subseteq taken
  BY <1>1, <1>2, LaneShape DEF Results, AcksAreTaken
<1>4. /\ flush' \in Flushes /\ flush'.ack = flush.ack
  <2>1. flush' = [flush EXCEPT !.moved = InFlight] \/ flush' = flush
    BY DEF Apply, PullMoves
  <2>2. InFlight \in BOOLEAN /\ flush \in Flushes
    BY <1>1 DEF InFlight, TypeOK
  <2>. QED  BY <2>1, <2>2 DEF Flushes
<1>. HIDE DEF first
<1>5. /\ outbox' \in Seq(Mutations) /\ applied' \in [Mutations -> Nat]
      /\ base' \in Facts
      /\ dropped' \subseteq Mutations /\ dropped \subseteq dropped'
      /\ Pending \subseteq Pending' \cup first.ack \cup dropped'
      /\ Pending' \subseteq Pending
      /\ Shows(State)'
  BY <1>1, <1>2, <1>3, RebaseEffect
<1>6. /\ Given \subseteq Given' /\ Owed' \subseteq Owed
      /\ Pending \subseteq Pending' \cup Given'
      /\ Owed' \subseteq Pending'
  <2>1. Owed \subseteq Pending
    BY <1>1, <1>2 DEF OwedIsHeld
  <2>. QED  BY <1>2, <1>3, <1>5, <2>1 DEF Given, Owed
<1>7. /\ State \in Checkpoints /\ "lane" \in Waiters /\ ToSet(State.outbox) = Pending
  BY <1>1, StateType DEF Waiters, State, Pending
<1>8. /\ writeQueue' \in Seq(Writes)
      /\ DOMAIN writeQueue' = 1 .. Len(writeQueue) + 1
      /\ Len(writeQueue) \in Nat /\ DOMAIN writeQueue = 1 .. Len(writeQueue)
      /\ \A i \in DOMAIN writeQueue : writeQueue'[i] = writeQueue[i]
      /\ writeQueue'[Len(writeQueue) + 1].content = State
      /\ writeQueue'[Len(writeQueue) + 1].key = "main"
  BY <1>1, <1>2, <1>7, NewWrite
<1>9. TypeOK'
  <2>1. faults' \in 0 .. MaxFaults /\ sessions' = sessions
    BY <1>1, <1>2, FaultTyped DEF boundVars, TypeOK
  <2>. QED  BY <1>1, <1>2, <1>4, <1>5, <1>8, <2>1, SameTypes
            DEF TypeOK, Apply, retryVars, storageVars, remoteVars
<1>10. QueueHolds'
  BY <1>1, <1>2, <1>6, <1>7, NewWriteHolds
<1>11. LaneWaits'
  <2>1. Queued("lane") = {} /\ Settling("lane") = {}
    BY <1>1, <1>2 DEF LaneWaits
  <2>2. Settling("lane")' = {}
    BY <1>2, <2>1 DEF Settling
  <2>3. \A i \in Queued("lane")' : i = Len(writeQueue) + 1
    BY <1>8, <2>1 DEF Queued
  <2>. QED  BY <1>2, <2>2, <2>3 DEF LaneWaits
<1>12. OwedIsHeld'
  BY <1>1, <1>2, <1>6 DEF OwedIsHeld
<1>13. Attended' /\ AcksAreTaken'
  BY <1>1, <1>2, <1>4 DEF Attended, AcksAreTaken
<1>14. JournalGoes'
  <2>1. \A i \in DOMAIN writeQueue' : i \in DOMAIN writeQueue \/ i = Len(writeQueue) + 1
    BY <1>8
  <2>. QED  BY <1>1, <1>2, <1>6, <1>8, <2>1 DEF JournalGoes
<1>15. ShowsPending'
  <2>1. \A s : Shows(s) => Shows(s)'
    BY <1>2 DEF Shows
  <2>2. \A i \in DOMAIN writeQueue' : i \in DOMAIN writeQueue \/ i = Len(writeQueue) + 1
    BY <1>8
  <2>. QED  BY <1>1, <1>2, <1>5, <1>8, <2>1, <2>2 DEF ShowsPending
<1>. QED  BY <1>9, <1>10, <1>11, <1>12, <1>13, <1>14, <1>15 DEF OutboxInvariant

LEMMA HydrateKeeps ==
  ASSUME OutboxInvariant, UNCHANGED setup, Hydrate
  PROVE  OutboxInvariant'
<1>. DEFINE stored == ToSet(main.outbox)
<1>1. /\ TypeOK /\ Attended /\ LaneWaits /\ OwedIsHeld /\ QueueHolds /\ JournalGoes
      /\ AcksAreTaken /\ ShowsPending
  BY DEF OutboxInvariant
<1>2. PICK gone \in Droppable(PreHydration) :
        /\ outbox' = main.outbox \o Without(PreHydration, gone)
        /\ applied' = [m \in Mutations |->
                         IF m \in ToSet(Without(PreHydration, gone))
                         THEN main.applied[m] + 1 ELSE main.applied[m]]
        /\ dropped' = dropped \cup gone
        /\ revived' = revived \cup {m \in ToSet(Without(PreHydration, gone)) :
                                    main.applied[m] > 0}
  BY DEF Hydrate
<1>3. /\ life = "journal" /\ life' = "merged" /\ due = {}
      /\ writeQueue' = writeQueue /\ due' = due /\ removing' = removing
      /\ lane' = lane /\ busy' = busy /\ flush' = flush /\ pull' = pull
      /\ taken' = taken /\ cleared' = cleared /\ main' = main /\ journal' = journal
      /\ durable' = durable /\ base' = main.base
  BY DEF Hydrate, Quiet, writeVars, laneVars, remoteVars, storageVars
<1>. DEFINE replayed == Without(PreHydration, gone)
<1>4. /\ main.outbox \in Seq(Mutations) /\ main.applied \in [Mutations -> Nat]
      /\ main.base \in Facts /\ journal \in Seq(Mutations) /\ outbox \in Seq(Mutations)
      /\ dropped \subseteq Mutations
  BY <1>1 DEF TypeOK, Checkpoints
<1>5. /\ PreHydration \in Seq(Mutations)
      /\ ToSet(PreHydration) = (ToSet(journal) \cup Pending) \ stored
  <2>1. /\ Without(journal, stored) \in Seq(Mutations)
        /\ ToSet(Without(journal, stored)) = ToSet(journal) \ stored
    BY <1>4, ToSetOfWithout
  <2>2. /\ Merge(Without(journal, stored), outbox) \in Seq(Mutations)
        /\ ToSet(Merge(Without(journal, stored), outbox))
             = (ToSet(journal) \ stored) \cup Pending
    BY <1>4, <2>1, ToSetOfMerge DEF Pending
  <2>3. /\ Without(Merge(Without(journal, stored), outbox), stored) \in Seq(Mutations)
        /\ ToSet(Without(Merge(Without(journal, stored), outbox), stored))
             = ((ToSet(journal) \ stored) \cup Pending) \ stored
    BY <2>2, ToSetOfWithout
  <2>. QED  BY <2>3 DEF PreHydration
<1>6. /\ gone \subseteq ToSet(PreHydration)
      /\ replayed \in Seq(Mutations) /\ ToSet(replayed) = ToSet(PreHydration) \ gone
  BY <1>5, ToSetOfWithout DEF Droppable
<1>. HIDE DEF replayed
<1>7. /\ outbox' \in Seq(Mutations) /\ Pending' = stored \cup ToSet(replayed)
  <2>1. outbox' = main.outbox \o replayed
    BY <1>2 DEF replayed
  <2>. QED  BY <1>4, <1>6, <2>1, ToSetOfConcat DEF Pending
<1>8. ToSet(PreHydration) \subseteq Mutations
  BY <1>5, ToSetType
<1>9. applied' = [m \in Mutations |-> IF m \in ToSet(replayed)
                                      THEN main.applied[m] + 1 ELSE main.applied[m]]
  BY <1>2 DEF replayed
<1>10. /\ applied' \in [Mutations -> Nat]
       /\ revived' = revived \cup {m \in ToSet(replayed) : main.applied[m] > 0}
  BY <1>2, <1>4, <1>9 DEF replayed
<1>11. /\ Given' = Given \cup gone /\ Owed' \subseteq Owed
       /\ Pending \cup Given \subseteq Pending' \cup Given'
       /\ Owed' \subseteq Pending'
  <2>1. Given' = Given \cup gone /\ Owed' = Owed \ gone
    BY <1>2, <1>3 DEF Given, Owed
  <2>2. stored \cup ToSet(journal) \cup Pending \subseteq Pending' \cup gone
    BY <1>5, <1>6, <1>7
  <2>. QED  BY <1>1, <2>1, <2>2 DEF OwedIsHeld
<1>12. TypeOK'
  <2>1. dropped' \subseteq Mutations /\ revived' \subseteq Mutations
    BY <1>1, <1>2, <1>4, <1>6, <1>8, <1>10 DEF TypeOK
  <2>. QED  BY <1>1, <1>3, <1>4, <1>7, <1>10, <2>1, SameTypes
            DEF TypeOK, Hydrate, writeVars, laneVars, retryVars, storageVars, remoteVars,
                boundVars
<1>13. Shows(State)' /\ revived' \subseteq taken \cup cleared
  <2>1. State'.outbox = outbox' /\ State'.applied = applied'
    BY DEF State
  <2>2. /\ stored \subseteq Mutations /\ revived \subseteq taken \cup cleared
        /\ \A m \in stored : main.applied[m] > 0
        /\ \A m \in Mutations \ revived : main.applied[m] <= 1
        /\ \A m \in Mutations \ (taken \cup cleared) :
             main.applied[m] > 0 => m \in stored
    BY <1>1, <1>4, ToSetType DEF ShowsPending, Shows
  <2>3. ToSet(replayed) \subseteq Mutations \ stored
    BY <1>5, <1>6, <1>8
  <2>4. \A m \in Pending' : applied'[m] > 0
    BY <1>4, <1>7, <1>9, <2>2, <2>3
  <2>5. ASSUME NEW m \in Mutations \ (taken \cup cleared)
        PROVE  applied'[m] > 0 => m \in Pending'
    BY <1>4, <1>7, <1>9, <2>2, <2>3
  <2>6. ASSUME NEW m \in Mutations \ revived'
        PROVE  applied'[m] <= 1
    BY <1>4, <1>9, <1>10, <2>2, <2>3
  <2>7. revived' \subseteq taken \cup cleared
    BY <1>10, <2>2, <2>3
  <2>. QED  BY <1>3, <2>1, <2>4, <2>5, <2>6, <2>7 DEF Shows, Pending
<1>14. ShowsPending'
  <2>1. \A s : Shows(s) => Shows(s)'
    BY <1>3, <1>10 DEF Shows
  <2>. QED  BY <1>1, <1>3, <1>13, <2>1 DEF ShowsPending
<1>15. QueueHolds'
  <2>1. \A i \in DOMAIN writeQueue : writeQueue[i].key # "main"
    BY <1>1, <1>3 DEF QueueHolds
  <2>. QED  BY <1>1, <1>3, <1>11, <2>1 DEF QueueHolds
<1>16. LaneWaits' /\ Attended' /\ AcksAreTaken'
  BY <1>1, <1>3 DEF LaneWaits, Attended, AcksAreTaken, Queued, Settling
<1>17. OwedIsHeld'
  BY <1>1, <1>3, <1>11 DEF OwedIsHeld
<1>18. JournalGoes'
  BY <1>1, <1>3 DEF JournalGoes
<1>. QED  BY <1>12, <1>14, <1>15, <1>16, <1>17, <1>18 DEF OutboxInvariant

\* The memory of the program goes; storage stays.
LEMMA GoneKeeps ==
  ASSUME OutboxInvariant, UNCHANGED setup, Gone, TypeOK', Attended', AcksAreTaken',
         UNCHANGED storageVars, UNCHANGED ghostVars, taken \subseteq taken'
  PROVE  OutboxInvariant'
<1>1. /\ TypeOK /\ OwedIsHeld /\ ShowsPending
  BY DEF OutboxInvariant
<1>2. /\ life' = "down" /\ outbox' = <<>> /\ applied' = Nothing /\ writeQueue' = <<>>
      /\ removing' = {} /\ due' = {} /\ main' = main /\ journal' = journal
      /\ Owed' \subseteq Owed
  BY DEF Gone, storageVars, ghostVars, Owed, Given
<1>3. DOMAIN writeQueue' = {}
  BY <1>2
<1>4. LaneWaits' /\ QueueHolds' /\ JournalGoes'
  BY <1>2, <1>3 DEF LaneWaits, QueueHolds, JournalGoes, Queued, Settling
<1>5. OwedIsHeld'
  BY <1>1, <1>2 DEF OwedIsHeld
<1>6. ShowsPending'
  <2>1. \A s : Shows(s) => Shows(s)'
    BY DEF Shows, ghostVars
  <2>2. Shows(State)'
    <3>1. State'.outbox = <<>> /\ State'.applied = Nothing
      BY <1>2 DEF State
    <3>2. \A m \in Mutations : Nothing[m] = 0
      BY DEF Nothing
    <3>. QED  BY <3>1, <3>2, ToSetOfEmpty DEF Shows
  <2>3. revived' \subseteq taken' \cup cleared'
    BY <1>1 DEF ShowsPending, ghostVars
  <2>. QED  BY <1>1, <1>2, <1>3, <2>1, <2>2, <2>3 DEF ShowsPending
<1>. QED  BY <1>4, <1>5, <1>6 DEF OutboxInvariant

LEMMA StopKeeps ==
  ASSUME OutboxInvariant, UNCHANGED setup, Stop
  PROVE  OutboxInvariant'
<1>1. TypeOK /\ Attended /\ AcksAreTaken
  BY DEF OutboxInvariant
<1>2. TypeOK'
  BY <1>1, SameTypes, Bounds, SmallTypes, EmptySeq
     DEF TypeOK, Stop, Gone, laneVars, retryVars, storageVars, remoteVars, ghostVars,
         boundVars
<1>3. Attended' /\ AcksAreTaken'
  BY <1>1 DEF Attended, AcksAreTaken, Stop, Gone, laneVars, remoteVars
<1>. QED  BY <1>2, <1>3, GoneKeeps DEF Stop, remoteVars

LEMMA CrashKeeps ==
  ASSUME OutboxInvariant, UNCHANGED setup, Crash
  PROVE  OutboxInvariant'
<1>1. TypeOK /\ Attended /\ AcksAreTaken
  BY DEF OutboxInvariant
<1>2. /\ taken' \subseteq Mutations /\ taken \subseteq taken'
      /\ flush' \in Flushes /\ flush'.pc = "idle" /\ flush'.ack = {}
      /\ pull' \in Pulls /\ pull'.pc = "idle"
      /\ lane' \in Seq(Results) /\ lane' = <<>>
  <2>1. /\ taken' \subseteq taken \cup flush.sent /\ taken \subseteq taken'
        /\ flush' = NoFlush /\ pull' = NoPull /\ lane' = <<>>
    BY DEF Crash, Abandoned
  <2>2. flush.sent \subseteq Mutations /\ taken \subseteq Mutations
    BY <1>1 DEF TypeOK, Flushes
  <2>. QED  BY <1>1, <2>1, <2>2, SmallTypes, EmptySeq
<1>3. TypeOK'
  <2>1. faults' \in 0 .. MaxFaults /\ sessions' = sessions
    BY <1>1, FaultTyped DEF Crash
  <2>2. applied' \in [Mutations -> Nat] /\ base' \in Facts /\ outbox' \in Seq(Mutations)
        /\ writeQueue' \in Seq(Writes)
    BY <1>1, SmallTypes, Bounds, EmptySeq DEF Crash, Gone, TypeOK
  <2>. QED  BY <1>1, <1>2, <2>1, <2>2, SameTypes
            DEF TypeOK, Crash, Gone, Abandoned, storageVars, ghostVars
<1>4. Attended' /\ AcksAreTaken'
  BY <1>2 DEF Attended, AcksAreTaken, Crash, Abandoned
<1>. QED  BY <1>2, <1>3, <1>4, GoneKeeps DEF Crash

-----------------------------------------------------------------------------
(* The theorems.                                                           *)

LEMMA InvariantInitially == Init => OutboxInvariant
<1>. SUFFICES ASSUME Init PROVE OutboxInvariant
  OBVIOUS
<1>1. /\ MaxFacts \in Nat /\ MaxSessions \in Nat /\ MaxFaults \in Nat /\ 0 \in Facts
  BY Bounds DEF Init
<1>2. NoFlush \in Flushes /\ NoPull \in Pulls /\ Nothing \in [Mutations -> Nat]
  BY <1>1 DEF NoFlush, NoPull, Nothing, Flushes, Pulls
<1>3. /\ \A S : <<>> \in Seq(S)
      /\ DOMAIN <<>> = {} /\ ToSet(<<>>) = {}
      /\ \A m \in Mutations : Nothing[m] = 0
  BY EmptySeq, ToSetOfEmpty DEF Nothing
<1>4. main \in Checkpoints
  BY <1>1, <1>2, <1>3 DEF Init, Checkpoints
<1>5. TypeOK
  <2>1. /\ outbox \in Seq(Mutations) /\ writeQueue \in Seq(Writes)
        /\ lane \in Seq(Results) /\ journal \in Seq(Mutations)
    BY <1>3 DEF Init
  <2>2. made \in 0 .. MaxMutations /\ sessions \in 0 .. MaxSessions
        /\ faults \in 0 .. MaxFaults
    BY <1>1 DEF Init
  <2>. QED  BY <1>1, <1>2, <1>4, <2>1, <2>2 DEF Init, TypeOK
<1>6. /\ Owed = {} /\ main.outbox = <<>> /\ main.applied = Nothing
      /\ State.outbox = <<>> /\ State.applied = Nothing
  BY DEF Init, Owed, State
<1>7. LaneWaits /\ OwedIsHeld /\ QueueHolds /\ JournalGoes /\ Attended /\ AcksAreTaken
  BY <1>2, <1>3, <1>6
     DEF Init, LaneWaits, OwedIsHeld, QueueHolds, JournalGoes, Attended, AcksAreTaken,
         Queued, Settling, NoFlush, NoPull
<1>8. ShowsPending
  BY <1>3, <1>6 DEF Init, ShowsPending, Shows
<1>. QED  BY <1>5, <1>7, <1>8 DEF OutboxInvariant

LEMMA InvariantStutters ==
  ASSUME OutboxInvariant, UNCHANGED vars
  PROVE  OutboxInvariant'
<1>1. /\ TypeOK /\ Attended /\ LaneWaits /\ AcksAreTaken
  BY DEF OutboxInvariant
<1>2. TypeOK'
  BY <1>1, SameTypes
     DEF TypeOK, vars, storeVars, writeVars, laneVars, retryVars, storageVars, remoteVars,
         ghostVars, boundVars
<1>3. Aside
  BY <1>1, UnchangedWrites
     DEF Aside, JournalMayGo, vars, storeVars, writeVars, laneVars, storageVars,
         remoteVars, ghostVars
<1>4. LaneStays /\ Attended' /\ AcksAreTaken'
  BY <1>1, <1>3
     DEF Aside, LaneStays, Attended, AcksAreTaken, vars, writeVars, laneVars, remoteVars
<1>. QED  BY <1>2, <1>3, <1>4, QuietStep

LEMMA InvariantSteps ==
  ASSUME OutboxInvariant, [Next]_vars
  PROVE  OutboxInvariant'
<1>1. CASE UNCHANGED vars
  BY <1>1, InvariantStutters
<1>2. CASE Next
  <2>1. UNCHANGED setup /\ (Progress \/ Failures \/ UserNext)
    BY <1>2 DEF Next
  <2>2. CASE Progress
    <3>1. CASE \E r \in due : Continuation(r)
      <4>1. PICK r \in due : Continuation(r)
        BY <3>1
      <4>. QED  BY <2>1, <4>1, DrainedKeeps, CommitWrittenKeeps, StartWrittenKeeps,
                    ClearWrittenKeeps, SendKeeps, AppliedKeeps, EndedKeeps
                DEF Continuation
    <3>2. CASE \E who \in removing : FinishRemoval(who)
      BY <2>1, <3>2, FinishRemovalKeeps
    <3>. QED  BY <2>1, <2>2, <3>1, <3>2, StartWriteKeeps, FinishHydrationKeeps,
                  DiscardKeeps, ApplyKeeps, FinishWriteKeeps, ReadStateKeeps, HydrateKeeps,
                  RemoteTakesKeeps, ReceivePushKeeps, RemoteAnswersPullKeeps,
                  ReceivePullKeeps, EventKeeps, FireTimerKeeps, StopKeeps
              DEF Progress
  <2>3. CASE Failures
    <3>1. CASE \E who \in removing : FailRemoval(who)
      BY <2>1, <3>1, FailRemovalKeeps
    <3>2. CASE FailRead \/ RefuseStored
      BY <2>1, <3>2, FailedHydrationKeeps DEF FailRead, RefuseStored
    <3>3. CASE FailPush \/ RefuseAnswer
      BY <2>1, <3>3, GiveUpFlushKeeps DEF FailPush, RefuseAnswer
    <3>. QED  BY <2>1, <2>3, <3>1, <3>2, <3>3, FailWriteKeeps, FailPullKeeps, RefuseKeeps,
                  CrashKeeps
              DEF Failures
  <2>4. CASE UserNext
    BY <2>1, <2>4, StartKeeps, CommitKeeps, ClearPendingKeeps, UserFlushKeeps,
       UserPullKeeps, DestroyKeeps, RemoteWriteKeeps
       DEF UserNext
  <2>. QED  BY <2>1, <2>2, <2>3, <2>4
<1>. QED  BY <1>1, <1>2

LEMMA Invariance == Spec => []OutboxInvariant
<1>1. OutboxInvariant /\ [Next]_vars => OutboxInvariant'
  BY InvariantSteps
<1>. QED  BY <1>1, InvariantInitially, PTL DEF Spec

\* Every variable of the synchronised store keeps its type, in every setup and
\* for every number of mutations: in particular no mutation is rolled back more
\* often than it was applied (rebase), and nobody takes from an empty lane.
THEOREM TypeCorrect == Spec => []TypeOK
<1>1. OutboxInvariant => TypeOK
  BY DEF OutboxInvariant
<1>. QED  BY <1>1, Invariance, PTL

\* A mutation whose own write has succeeded stays in storage, and in the outbox
\* of a hydrated store, until the remote has taken it, it has lost a conflict
\* or the application has given it up (persist, persistPreHydration, hydration,
\* applyRemoteResult, removeItem of the journal).
THEOREM StoredMutationsSurvive == Spec => []NothingLost
<1>1. OutboxInvariant => NothingLost
  BY DEF OutboxInvariant, OwedIsHeld, NothingLost, Owed, Given, Pending
<1>. QED  BY <1>1, Invariance, PTL

\* What the store shows is pending, or was taken or cleared; what is pending is
\* shown; and a mutation is applied once, through hydration, rebases, refused
\* results and restarts.  Only one that was taken or cleared, and that hydration
\* finds again in a journal left behind, is applied twice (revived).
THEOREM OptimismIsPending == Spec => []ShownIsPendingOrTaken
<1>1. OutboxInvariant => ShownIsPendingOrTaken
  BY DEF OutboxInvariant, ShowsPending, Shows, State, ShownIsPendingOrTaken, Pending
<1>. QED  BY <1>1, Invariance, PTL

-----------------------------------------------------------------------------
(* The order of facts and of the outbox: the inductive invariant.         *)

\* One continuation waits under this name, for a write or for its turn.
OneWaits(who) ==
  /\ \A i \in Queued(who) : Settling(who) = {} /\ \A j \in Queued(who) : i = j
  /\ \A r, q \in Settling(who) : q = r

\* The flush in progress is the one that waits.
FlushWaits ==
  /\ OneWaits("flush")
  /\ Queued("flush") # {} \/ Settling("flush") # {} =>
       life \in {"ready", "closing"} /\ (life = "ready" => flush.pc = "waiting")

\* The facts the store and storage are based on, and those on their way.
Held ==
  {base, main.base} \cup {writeQueue[i].content.base : i \in DOMAIN writeQueue}
                    \cup {lane[i].fact : i \in DOMAIN lane}

\* The remote has written it.
Known(fact) == fact <= server

FactsKnown ==
  /\ events <= server /\ flush.fact <= server /\ pull.fact <= server
  /\ \A fact \in Held : Known(fact)

\* A result of the lane belongs to the request in progress.
LaneOwned ==
  /\ \A i \in DOMAIN lane : /\ lane[i].who = "pull" => pull.pc = "applying"
                            /\ lane[i].who = "push" => flush.pc = "applying"
  /\ \A i, j \in DOMAIN lane :
       lane[i].who = lane[j].who /\ lane[i].who # "event" => i = j

\* The results of the lane that are still to be applied.
Coming == {i \in DOMAIN lane : /\ i > 1 \/ busy = "no"
                               /\ lane[i].fact # 0
                               /\ ~Outdated(lane[i])}

\* No answer is older than the store, or than what is applied before it, and
\* neither is one that is yet to join them.  An event may be.
LaneInOrder ==
  /\ \A i \in Coming : lane[i].who # "event" =>
       /\ base <= lane[i].fact
       /\ \A j \in Coming : j < i => lane[j].fact <= lane[i].fact
  /\ flush.pc = "answered" /\ ~flush.moved /\ flush.fact # 0 =>
       /\ base <= flush.fact
       /\ \A i \in Coming : lane[i].who # "pull" => lane[i].fact <= flush.fact
  /\ pull.pc = "answered" /\ ~pull.moved =>
       /\ base <= pull.fact
       /\ \A i \in Coming : lane[i].fact <= pull.fact

FactsInvariant ==
  /\ OutboxInvariant
  /\ FlushWaits
  /\ FactsKnown
  /\ LaneOwned
  /\ LaneInOrder

-----------------------------------------------------------------------------
(* The flush that waits.                                                   *)

LEMMA FlushWaitsStays ==
  ASSUME FlushWaits, Queued("flush")' \subseteq Queued("flush"),
         Settling("flush")' \subseteq Settling("flush"),
         life \in {"ready", "closing"} => life' \in {"ready", "closing"},
         life \in {"ready", "closing"} /\ life' = "ready" /\ flush.pc = "waiting" =>
           life = "ready" /\ flush'.pc = "waiting",
         life = "closing" => life' = "closing"
  PROVE  FlushWaits'
BY DEF FlushWaits, OneWaits

LEMMA SameQueued ==
  ASSUME writeQueue' = writeQueue
  PROVE  \A who : Queued(who)' = Queued(who)
BY DEF Queued

\* When no flush waits, Await makes one wait.
LEMMA AwaitWaits ==
  ASSUME TypeOK, NEW pending \in SUBSET due, Await(writeQueue, pending),
         Queued("flush") = {}, \A r \in pending : r.who # "flush"
  PROVE  OneWaits("flush")'
<1>1. CASE writeQueue = <<>>
  <2>1. /\ writeQueue' = writeQueue
        /\ due' = pending \cup {[who |-> "flush", ok |-> ~failed]}
    BY <1>1 DEF Await
  <2>2. Queued("flush")' = {}
    BY <2>1, SameQueued
  <2>3. \A r \in Settling("flush")' : r = [who |-> "flush", ok |-> ~failed]
    BY <2>1 DEF Settling
  <2>. QED  BY <2>2, <2>3 DEF OneWaits
<1>2. CASE writeQueue # <<>>
  <2>1. /\ writeQueue' = [writeQueue EXCEPT
             ![Len(writeQueue)].waiters = @ \cup {"flush"}]
        /\ due' = pending
    BY <1>2 DEF Await
  <2>2. Len(writeQueue) \in Nat /\ DOMAIN writeQueue = 1 .. Len(writeQueue)
    BY QueueShape
  <2>3. /\ DOMAIN writeQueue' = DOMAIN writeQueue
        /\ \A i \in DOMAIN writeQueue :
             i # Len(writeQueue) => writeQueue'[i] = writeQueue[i]
    BY <2>1
  <2>4. Settling("flush")' = {}
    BY <2>1 DEF Settling
  <2>5. \A i \in Queued("flush")' : i = Len(writeQueue)
    BY <2>3 DEF Queued
  <2>. QED  BY <2>4, <2>5 DEF OneWaits
<1>. QED  BY <1>1, <1>2

LEMMA FlushWaitsAfterFlush ==
  ASSUME TypeOK, FlushWaits, NEW pending \in SUBSET due, Flush(writeQueue, pending),
         life' = life
  PROVE  FlushWaits'
<1>1. CASE flush.pc = "idle" /\ life = "ready"
  <2>1. flush' = [NoFlush EXCEPT !.pc = "waiting"] /\ Await(writeQueue, pending)
    BY <1>1 DEF Flush
  <2>2. flush'.pc = "waiting"
    BY <2>1 DEF NoFlush
  <2>3. Queued("flush") = {} /\ Settling("flush") = {}
    BY <1>1 DEF FlushWaits
  <2>4. OneWaits("flush")'
    BY <2>1, <2>3, AwaitWaits DEF Settling
  <2>. QED  BY <1>1, <2>2, <2>4 DEF FlushWaits
<1>2. CASE ~(flush.pc = "idle" /\ life = "ready")
  <2>1. flush' = flush /\ writeQueue' = writeQueue /\ due' = pending
    BY <1>2 DEF Flush
  <2>2. Settling("flush")' \subseteq Settling("flush")
    BY <2>1 DEF Settling
  <2>. QED  BY <2>1, <2>2, SameQueued, FlushWaitsStays
<1>. QED  BY <1>1, <1>2

-----------------------------------------------------------------------------
(* Steps that leave facts and results alone.                               *)

LEMMA HeldStays ==
  ASSUME TypeOK, SameWrites, base' = base, main' = main, lane' = lane
  PROVE  Held' = Held
BY DEF SameWrites, Held

LEMMA HeldType ==
  ASSUME TypeOK
  PROVE  Held \subseteq Facts /\ Facts \subseteq Nat
<1>1. Facts \subseteq Nat
  BY DEF Facts
<1>2. base \in Facts /\ main.base \in Facts
  BY DEF TypeOK, Checkpoints
<1>3. \A i \in DOMAIN writeQueue : writeQueue[i].content.base \in Facts
  BY QueueShape DEF Writes, Checkpoints
<1>4. \A i \in DOMAIN lane : lane[i].fact \in Facts
  BY LaneShape DEF Results
<1>. QED  BY <1>1, <1>2, <1>3, <1>4 DEF Held

\* No fact is held that was not held, and the remote only goes forward.
FactsFrame ==
  /\ Held' \subseteq Held \cup {0}
  /\ server <= server' /\ events <= events' /\ events' <= server'
  /\ flush'.fact <= server' /\ pull'.fact <= server'
  /\ life' # "down" => life # "down"

LEMMA FactsFrameKeeps ==
  ASSUME TypeOK, TypeOK', UNCHANGED setup, FactsKnown, FactsFrame
  PROVE  FactsKnown'
<1>1. /\ server \in Nat /\ events \in Nat /\ server' \in Nat /\ events' \in Nat
      /\ Held \subseteq Nat
  <2>1. Facts \subseteq Nat /\ Facts' = Facts
    BY HeldType, SameTypes
  <2>. QED  BY <2>1, HeldType DEF TypeOK
<1>2. ASSUME NEW fact \in Held' PROVE Known(fact)'
  <2>1. CASE fact \in Held
    BY <1>1, <2>1 DEF FactsKnown, FactsFrame, Known
  <2>2. CASE fact = 0
    BY <1>1, <2>2 DEF Known
  <2>. QED  BY <1>2, <2>1, <2>2 DEF FactsFrame
<1>. QED  BY <1>2 DEF FactsKnown, FactsFrame

\* The requests in progress go on as they are, or ask for the latest fact.
FlushCalm ==
  /\ flush.pc = "applying" => flush'.pc = "applying"
  /\ flush'.pc = "answered" /\ ~flush'.moved /\ flush'.fact # 0 =>
       \/ flush.pc = "answered" /\ ~flush.moved /\ flush'.fact = flush.fact
       \/ flush'.fact = server

PullCalm ==
  /\ pull.pc = "applying" => pull'.pc = "applying" /\ (pull.moved => pull'.moved)
  /\ pull'.pc = "answered" /\ ~pull'.moved =>
       \/ pull.pc = "answered" /\ ~pull.moved /\ pull'.fact = pull.fact
       \/ pull'.fact = server

LEMMA KnownFacts ==
  ASSUME TypeOK, FactsKnown
  PROVE  /\ base <= server /\ base \in Nat /\ server \in Nat /\ events \in Nat
         /\ \A i \in DOMAIN lane : lane[i].fact \in Nat /\ lane[i].fact <= server
         /\ flush.fact \in Nat /\ pull.fact \in Nat
<1>1. Facts \subseteq Nat
  BY HeldType
<1>2. base \in Held /\ \A i \in DOMAIN lane : lane[i].fact \in Held
  BY DEF Held
<1>3. base \in Nat /\ \A i \in DOMAIN lane : lane[i].fact \in Nat
  BY <1>2, HeldType
<1>4. flush.fact \in Facts /\ pull.fact \in Facts
  BY DEF TypeOK, Flushes, Pulls
<1>. QED  BY <1>1, <1>2, <1>3, <1>4 DEF FactsKnown, Known, TypeOK

LEMMA LaneFrameKeeps ==
  ASSUME TypeOK, FactsKnown, LaneOwned, LaneInOrder,
         base' = base, lane' = lane, busy' = busy, FlushCalm, PullCalm
  PROVE  LaneOwned' /\ LaneInOrder'
<1>1. LaneOwned'
  BY DEF LaneOwned, FlushCalm, PullCalm
<1>2. Coming' \subseteq Coming
  BY DEF Coming, Outdated, LaneOwned, PullCalm
<1>3. Coming \subseteq DOMAIN lane
  BY DEF Coming
<1>4. flush'.pc = "answered" /\ ~flush'.moved /\ flush'.fact # 0 =>
       /\ base <= flush'.fact
       /\ \A i \in Coming : lane[i].who # "pull" => lane[i].fact <= flush'.fact
  BY <1>3, KnownFacts DEF LaneInOrder, FlushCalm
<1>5. pull'.pc = "answered" /\ ~pull'.moved =>
       /\ base <= pull'.fact
       /\ \A i \in Coming : lane[i].fact <= pull'.fact
  BY <1>3, KnownFacts DEF LaneInOrder, PullCalm
<1>. QED  BY <1>1, <1>2, <1>4, <1>5 DEF LaneInOrder

\* The first result leaves the lane.
LEMMA LaneShifts ==
  ASSUME TypeOK, FactsKnown, LaneOwned, LaneInOrder,
         lane # <<>>, lane' = Tail(lane), base' = base, busy' = "no",
         Head(lane).who # "push" => FlushCalm,
         Head(lane).who = "push" => flush'.pc # "answered",
         Head(lane).who # "pull" => PullCalm,
         Head(lane).who = "pull" =>
           /\ pull'.pc # "answered"
           /\ flush'.pc = "answered" /\ ~flush'.moved /\ flush'.fact # 0 =>
                flush.pc = "answered" /\ ~flush.moved /\ flush'.fact = flush.fact
  PROVE  LaneOwned' /\ LaneInOrder'
<1>1. /\ Len(lane) \in Nat \ {0} /\ DOMAIN lane = 1 .. Len(lane)
      /\ Head(lane) = lane[1] /\ Head(lane) \in Results /\ 1 \in DOMAIN lane
  BY LaneShape
<1>2. /\ DOMAIN lane' = 1 .. Len(lane) - 1
      /\ \A i \in DOMAIN lane' : lane'[i] = lane[i + 1] /\ i + 1 \in DOMAIN lane
  BY LaneShortened
<1>3. \A i \in DOMAIN lane' : i \in Nat \ {0} /\ i + 1 # 1 /\ i + 1 > 1
  BY <1>1, <1>2
<1>4. \A i \in DOMAIN lane' :
        lane'[i].who = lane[1].who => lane'[i].who = "event"
  BY <1>1, <1>2, <1>3 DEF LaneOwned
<1>5. LaneOwned'
  <2>1. ASSUME NEW i \in DOMAIN lane'
        PROVE  /\ lane'[i].who = "pull" => pull'.pc = "applying"
               /\ lane'[i].who = "push" => flush'.pc = "applying"
    BY <1>1, <1>2, <1>4 DEF LaneOwned, FlushCalm, PullCalm
  <2>2. \A i, j \in DOMAIN lane' :
          lane'[i].who = lane'[j].who /\ lane'[i].who # "event" => i = j
    <3>1. \A i, j \in DOMAIN lane' : i + 1 = j + 1 => i = j
      BY <1>3
    <3>. QED  BY <1>2, <3>1 DEF LaneOwned
  <2>. QED  BY <2>1, <2>2 DEF LaneOwned
<1>6. ASSUME NEW i \in Coming' PROVE i + 1 \in Coming /\ lane'[i] = lane[i + 1] /\ i \in Nat
  <2>1. /\ i \in DOMAIN lane' /\ i + 1 \in DOMAIN lane /\ i + 1 > 1 /\ i \in Nat
        /\ lane'[i] = lane[i + 1] /\ lane[i + 1].fact # 0
        /\ ~(lane[i + 1].who = "pull" /\ pull'.moved)
    BY <1>2, <1>3 DEF Coming, Outdated
  <2>2. lane[i + 1].who = "pull" => ~pull.moved
    BY <1>1, <1>4, <2>1 DEF LaneOwned, PullCalm
  <2>. QED  BY <2>1, <2>2 DEF Coming, Outdated
<1>7. Coming \subseteq DOMAIN lane
  BY DEF Coming
<1>8. flush'.pc = "answered" /\ ~flush'.moved /\ flush'.fact # 0 =>
       /\ base <= flush'.fact
       /\ \A i \in Coming : lane[i].who # "pull" => lane[i].fact <= flush'.fact
  BY <1>7, KnownFacts DEF LaneInOrder, FlushCalm
<1>9. pull'.pc = "answered" /\ ~pull'.moved =>
       /\ base <= pull'.fact
       /\ \A i \in Coming : lane[i].fact <= pull'.fact
  BY <1>7, KnownFacts DEF LaneInOrder, PullCalm
<1>10. \A i \in Coming' : lane'[i].who # "event" =>
         /\ base' <= lane'[i].fact
         /\ \A j \in Coming' : j < i => lane'[j].fact <= lane'[i].fact
  <2>1. \A i \in Coming' : i + 1 \in Coming /\ lane'[i] = lane[i + 1] /\ i \in Nat
    BY <1>6
  <2>2. \A i, j \in Coming' : i < j => i + 1 < j + 1
    BY <2>1
  <2>. QED  BY <2>1, <2>2 DEF LaneInOrder
<1>11. LaneInOrder'
  BY <1>6, <1>8, <1>9, <1>10 DEF LaneInOrder
<1>. QED  BY <1>5, <1>11

\* There is no lane before hydration and after the end.
LEMMA LaneEmpty ==
  ASSUME lane' = <<>>, flush'.pc = "idle", pull'.pc = "idle"
  PROVE  LaneOwned' /\ LaneInOrder'
BY DEF LaneOwned, LaneInOrder, Coming

\* Flush leaves facts alone.
LEMMA FlushInOrder ==
  ASSUME TypeOK, FlushWaits, FactsKnown, NEW pending \in SUBSET due,
         Flush(writeQueue, pending), life' = life
  PROVE  /\ FlushWaits' /\ SameWrites /\ FlushCalm /\ flush'.fact <= server
         /\ flush'.pc = "answered" => flush' = flush
<1>1. \/ flush' = flush
      \/ flush' = [NoFlush EXCEPT !.pc = "waiting"] /\ flush.pc = "idle"
  BY DEF Flush
<1>2. [NoFlush EXCEPT !.pc = "waiting"].fact = 0
      /\ [NoFlush EXCEPT !.pc = "waiting"].pc = "waiting"
  BY DEF NoFlush
<1>3. server \in Nat /\ flush.fact <= server /\ 0 <= server
  BY KnownFacts DEF FactsKnown
<1>4. FlushCalm
  BY <1>1, <1>2 DEF FlushCalm
<1>5. flush'.fact <= server /\ (flush'.pc = "answered" => flush' = flush)
  BY <1>1, <1>2, <1>3
<1>. QED  BY <1>4, <1>5, FlushEffect, FlushWaitsAfterFlush

\* The continuations that Resume does not touch.
LEMMA FewerWaits ==
  ASSUME FlushWaits, NEW pending \in SUBSET due, writeQueue' = writeQueue, due' = pending,
         life' = life, flush.pc = "waiting" => flush'.pc = "waiting"
  PROVE  FlushWaits'
BY SameQueued, FlushWaitsStays DEF Settling

LEMMA ResumeInOrder ==
  ASSUME TypeOK, FlushWaits, FactsKnown, NEW pending \in SUBSET due,
         NEW result \in Results, NEW ok \in BOOLEAN,
         Resume(result, ok, writeQueue, pending), life' = life, life = "ready",
         result.who = "push" => flush.pc = "applying",
         result.who = "pull" => pull.pc = "applying"
  PROVE  /\ FlushWaits' /\ SameWrites
         /\ flush'.fact <= server /\ pull'.fact <= server
         /\ result.who # "push" => FlushCalm
         /\ result.who = "push" => flush'.pc # "answered"
         /\ result.who # "pull" => PullCalm
         /\ result.who = "pull" =>
              /\ pull'.pc # "answered"
              /\ flush'.pc = "answered" => flush' = flush
<1>1. /\ server \in Nat /\ flush.fact <= server /\ pull.fact <= server
      /\ NoFlush.fact = 0 /\ NoFlush.pc = "idle" /\ NoPull.fact = 0 /\ NoPull.pc = "idle"
  BY KnownFacts DEF FactsKnown, NoFlush, NoPull
<1>2. CASE result.who = "push" /\ ok
  <2>1. /\ flush' = [flush EXCEPT !.pc = "waiting", !.sent = {}]
        /\ Await(writeQueue, pending) /\ pull' = pull
    BY <1>2 DEF Resume
  <2>2. flush'.pc = "waiting" /\ flush'.fact = flush.fact
    BY <2>1 DEF TypeOK, Flushes
  <2>3. Queued("flush") = {} /\ Settling("flush") = {}
    BY <1>2 DEF FlushWaits
  <2>4. OneWaits("flush")'
    BY <2>1, <2>3, AwaitWaits DEF Settling
  <2>5. FlushWaits'
    BY <2>2, <2>4 DEF FlushWaits
  <2>6. PullCalm
    BY <2>1 DEF PullCalm
  <2>. QED  BY <1>1, <1>2, <2>1, <2>2, <2>5, <2>6, AwaitEffect
<1>3. CASE result.who = "push" /\ ~ok
  <2>1. /\ flush' = NoFlush /\ writeQueue' = writeQueue /\ due' = pending /\ pull' = pull
    BY <1>3 DEF Resume
  <2>2. FlushWaits'
    BY <1>3, <2>1, FewerWaits
  <2>3. PullCalm
    BY <2>1 DEF PullCalm
  <2>. QED  BY <1>1, <1>3, <2>1, <2>2, <2>3, UnchangedWrites
<1>4. CASE result.who = "pull"
  <2>1. /\ pull' = NoPull
        /\ \/ Flush(writeQueue, pending)
           \/ writeQueue' = writeQueue /\ due' = pending /\ flush' = flush
    BY <1>4 DEF Resume
  <2>2. CASE Flush(writeQueue, pending)
    BY <1>1, <1>4, <2>1, <2>2, FlushInOrder
  <2>3. CASE writeQueue' = writeQueue /\ due' = pending /\ flush' = flush
    <3>1. FlushWaits' /\ SameWrites
      BY <2>3, FewerWaits, UnchangedWrites
    <3>2. FlushCalm
      BY <2>3 DEF FlushCalm
    <3>. QED  BY <1>1, <1>4, <2>1, <2>3, <3>1, <3>2
  <2>. QED  BY <2>1, <2>2, <2>3
<1>5. CASE result.who = "event"
  <2>1. /\ writeQueue' = writeQueue /\ due' = pending /\ flush' = flush /\ pull' = pull
    BY <1>5 DEF Resume
  <2>2. FlushWaits' /\ SameWrites
    BY <2>1, FewerWaits, UnchangedWrites
  <2>3. FlushCalm /\ PullCalm
    BY <2>1 DEF FlushCalm, PullCalm
  <2>. QED  BY <1>1, <1>5, <2>1, <2>2, <2>3
<1>. QED  BY <1>2, <1>3, <1>4, <1>5 DEF Results

\* A write that nobody flushes after joins the queue.
LEMMA NewWriteOrder ==
  ASSUME TypeOK, FlushWaits, NEW key \in {"main", "journal"}, NEW content \in Checkpoints,
         NEW who \in Waiters \ {"flush"},
         writeQueue' = Append(writeQueue, Write(key, content, who)),
         due' = due, content.base = base, base' = base, main' = main, lane' = lane,
         life \in {"ready", "closing"} => life' = life, flush' = flush
  PROVE  FlushWaits' /\ Held' \subseteq Held
<1>1. /\ Len(writeQueue) \in Nat /\ DOMAIN writeQueue = 1 .. Len(writeQueue)
      /\ DOMAIN writeQueue' = 1 .. Len(writeQueue) + 1
      /\ \A i \in DOMAIN writeQueue : writeQueue'[i] = writeQueue[i]
      /\ writeQueue'[Len(writeQueue) + 1].content = content
      /\ Queued("flush")' = Queued("flush")
  BY NewWrite
<1>2. Settling("flush")' = Settling("flush")
  BY DEF Settling
<1>3. FlushWaits'
  BY <1>1, <1>2, FlushWaitsStays
<1>4. \A i \in DOMAIN writeQueue' : i \in DOMAIN writeQueue \/ i = Len(writeQueue) + 1
  BY <1>1
<1>5. \A i \in DOMAIN writeQueue' : writeQueue'[i].content.base \in Held
  BY <1>1, <1>4 DEF Held
<1>6. base' \in Held /\ main'.base \in Held /\ \A i \in DOMAIN lane' : lane'[i].fact \in Held
  BY DEF Held
<1>7. \A fact \in Held' : fact \in Held
  BY <1>5, <1>6 DEF Held
<1>. QED  BY <1>3, <1>7

LEMMA StartedWrite ==
  ASSUME TypeOK, StartWrite
  PROVE  /\ \A who : Queued(who)' = Queued(who)
         /\ Held' \subseteq Held
<1>. DEFINE first == Head(writeQueue)
            w == [first EXCEPT !.started = TRUE,
                    !.content = IF first.key = "main" THEN State ELSE first.content]
<1>1. /\ DOMAIN writeQueue = 1 .. Len(writeQueue) /\ Len(writeQueue) \in Nat \ {0}
      /\ first = writeQueue[1] /\ first \in Writes
      /\ writeQueue' = [writeQueue EXCEPT ![1] = w]
      /\ base' = base /\ main' = main /\ lane' = lane
  BY QueueShape DEF StartWrite, storeVars, laneVars, storageVars
<1>2. w.waiters = first.waiters /\ (w.content = State \/ w.content = first.content)
  BY <1>1 DEF Writes
<1>. HIDE DEF w, first
<1>3. /\ DOMAIN writeQueue' = DOMAIN writeQueue
      /\ \A i \in DOMAIN writeQueue :
           /\ writeQueue'[i].waiters = writeQueue[i].waiters
           /\ \/ writeQueue'[i].content = State
              \/ writeQueue'[i].content = writeQueue[i].content
  BY <1>1, <1>2
<1>4. State.base = base
  BY DEF State
<1>5. \A who : Queued(who)' = Queued(who)
  BY <1>3 DEF Queued
<1>6. \A fact \in Held' : fact \in Held
  BY <1>1, <1>3, <1>4 DEF Held
<1>. QED  BY <1>5, <1>6

\* The flush goes on waiting, for its turn, when its write settles.
LEMMA SettledFlush ==
  ASSUME OutboxInvariant, FlushWaits, NEW ok \in BOOLEAN, Settled(ok), life' = life,
         lane' = lane, busy' = busy, flush' = flush
  PROVE  FlushWaits'
<1>1. /\ Len(writeQueue) \in Nat \ {0}
      /\ DOMAIN writeQueue = 1 .. Len(writeQueue)
      /\ DOMAIN writeQueue' = 1 .. Len(writeQueue) - 1
      /\ \A i \in DOMAIN writeQueue' :
           writeQueue'[i] = writeQueue[i + 1] /\ i + 1 \in DOMAIN writeQueue
      /\ due' \subseteq [who: Waiters, ok: {ok}]
      /\ \A r \in due' : r.who \in writeQueue[1].waiters
  BY SettledEffect
<1>2. ASSUME NEW i \in Queued("flush")'
      PROVE  i + 1 \in Queued("flush") /\ i \in Nat /\ i + 1 # 1
  BY <1>1 DEF Queued
<1>3. \A r \in Settling("flush")' : 1 \in Queued("flush") /\ r = [who |-> "flush", ok |-> ok]
  <2>1. 1 \in DOMAIN writeQueue
    BY <1>1
  <2>. QED  BY <1>1, <2>1 DEF Settling, Queued
<1>4. \A i, j \in Queued("flush") : i = j
  BY DEF FlushWaits, OneWaits
<1>5. \A i, j \in Queued("flush")' : i = j
  <2>1. \A i, j \in Queued("flush")' : i + 1 = j + 1 /\ i \in Nat /\ j \in Nat
    BY <1>2, <1>4
  <2>. QED  BY <2>1
<1>6. Queued("flush")' # {} => Settling("flush")' = {}
  BY <1>2, <1>3, <1>4
<1>7. OneWaits("flush")'
  BY <1>3, <1>5, <1>6 DEF OneWaits
<1>8. Queued("flush")' # {} \/ Settling("flush")' # {} => Queued("flush") # {}
  BY <1>2, <1>3
<1>. QED  BY <1>7, <1>8 DEF FlushWaits

\* A result joins the lane.
LEMMA LaneGrows ==
  ASSUME TypeOK, FactsKnown, LaneOwned, LaneInOrder, NEW result \in Results,
         lane' = Append(lane, result), base' = base, busy' = busy,
         flush.pc = "applying" => flush'.pc = "applying",
         pull.pc = "applying" => pull'.pc = "applying" /\ (pull.moved => pull'.moved),
         result.who = "pull" => pull.pc # "applying" /\ pull'.pc = "applying",
         result.who = "push" => flush.pc # "applying" /\ flush'.pc = "applying",
         result.who # "event" /\ result.fact # 0 /\ ~(result.who = "pull" /\ pull'.moved) =>
           /\ base <= result.fact
           /\ \A i \in Coming : ~(lane[i].who = "pull" /\ pull'.moved) =>
                lane[i].fact <= result.fact,
         flush'.pc = "answered" /\ ~flush'.moved /\ flush'.fact # 0 =>
           /\ flush.pc = "answered" /\ ~flush.moved /\ flush'.fact = flush.fact
           /\ result.who = "pull",
         ~(pull'.pc = "answered" /\ ~pull'.moved)
  PROVE  LaneOwned' /\ LaneInOrder'
<1>. DEFINE n == Len(lane) + 1
<1>1. /\ n \in Nat /\ DOMAIN lane = 1 .. Len(lane) /\ DOMAIN lane' = 1 .. n
      /\ Len(lane) \in Nat
      /\ \A i \in DOMAIN lane : lane'[i] = lane[i]
      /\ lane'[n] = result
  BY LaneAppended
<1>2. /\ \A i \in DOMAIN lane' : i = n \/ i \in DOMAIN lane
      /\ \A i \in DOMAIN lane : i \in Nat /\ i < n
  BY <1>1
<1>. HIDE DEF n
<1>3. LaneOwned'
  <2>1. \A i \in DOMAIN lane' : /\ lane'[i].who = "pull" => pull'.pc = "applying"
                                /\ lane'[i].who = "push" => flush'.pc = "applying"
    BY <1>1, <1>2 DEF LaneOwned
  <2>2. \A i \in DOMAIN lane : lane[i].who = result.who => result.who = "event"
    BY <1>1, LaneShape DEF LaneOwned, Results
  <2>3. \A i, j \in DOMAIN lane' :
          lane'[i].who = lane'[j].who /\ lane'[i].who # "event" => i = j
    BY <1>1, <1>2, <2>2 DEF LaneOwned
  <2>. QED  BY <2>1, <2>3 DEF LaneOwned
<1>4. ASSUME NEW i \in Coming', i # n
      PROVE  i \in Coming /\ lane'[i] = lane[i] /\ ~(lane[i].who = "pull" /\ pull'.moved)
  <2>1. i \in DOMAIN lane /\ lane'[i] = lane[i] /\ lane[i].fact # 0
        /\ (i > 1 \/ busy = "no") /\ ~(lane[i].who = "pull" /\ pull'.moved)
    BY <1>1, <1>2, <1>4 DEF Coming, Outdated
  <2>2. ~(lane[i].who = "pull" /\ pull.moved)
    BY <2>1 DEF LaneOwned
  <2>. QED  BY <2>1, <2>2 DEF Coming, Outdated
<1>5. ASSUME n \in Coming', result.who # "event"
      PROVE  /\ base <= result.fact
             /\ \A i \in Coming : ~(lane[i].who = "pull" /\ pull'.moved) =>
                  lane[i].fact <= result.fact
  <2>1. lane'[n].fact # 0 /\ ~(lane'[n].who = "pull" /\ pull'.moved)
    BY <1>5 DEF Coming, Outdated
  <2>. QED  BY <1>1, <1>5, <2>1 DEF Outdated
<1>6. \A i \in Coming' : lane'[i].who # "event" => base' <= lane'[i].fact
  BY <1>1, <1>4, <1>5 DEF LaneInOrder
<1>7. ASSUME NEW i \in Coming', NEW j \in Coming', i < j, lane'[j].who # "event"
      PROVE  lane'[i].fact <= lane'[j].fact
  <2>1. i # n
    <3>1. j \in DOMAIN lane' /\ i \in DOMAIN lane'
      BY DEF Coming
    <3>. QED  BY <1>1, <1>2, <1>7, <3>1
  <2>2. CASE j = n
    BY <1>1, <1>4, <1>5, <1>7, <2>1, <2>2
  <2>3. CASE j # n
    BY <1>4, <1>7, <2>1, <2>3 DEF LaneInOrder
  <2>. QED  BY <2>2, <2>3
<1>8. flush'.pc = "answered" /\ ~flush'.moved /\ flush'.fact # 0 =>
       /\ base' <= flush'.fact
       /\ \A i \in Coming' : lane'[i].who # "pull" => lane'[i].fact <= flush'.fact
  BY <1>1, <1>4 DEF LaneInOrder
<1>9. ~(pull'.pc = "answered" /\ ~pull'.moved)
  OBVIOUS
<1>10. LaneInOrder'
  BY <1>6, <1>7, <1>8, <1>9 DEF LaneInOrder
<1>. QED  BY <1>3, <1>10

LEMMA HeadShifts ==
  ASSUME TypeOK, SameWrites, base' = base, main' = main, lane # <<>>, lane' = Tail(lane)
  PROVE  Held' \subseteq Held
<1>1. \A i \in DOMAIN lane' : i + 1 \in DOMAIN lane /\ lane'[i] = lane[i + 1]
  BY LaneShortened
<1>2. \A i \in DOMAIN lane' : lane'[i].fact \in Held
  BY <1>1 DEF Held
<1>3. \A i \in DOMAIN writeQueue' : writeQueue'[i].content.base \in Held
  BY DEF SameWrites, Held
<1>4. \A fact \in Held' : fact \in Held
  BY <1>2, <1>3 DEF Held
<1>. QED  BY <1>4

-----------------------------------------------------------------------------
(* The steps, one by one.                                                  *)

LEMMA FactsParts ==
  ASSUME FactsInvariant
  PROVE  /\ TypeOK /\ Attended /\ LaneWaits /\ FlushWaits /\ FactsKnown /\ LaneOwned
         /\ LaneInOrder
         /\ server \in Nat /\ events \in Nat
         /\ flush.fact \in Nat /\ pull.fact \in Nat
         /\ events <= server /\ flush.fact <= server /\ pull.fact <= server
<1>1. /\ TypeOK /\ Attended /\ LaneWaits /\ FlushWaits /\ FactsKnown /\ LaneOwned
      /\ LaneInOrder
  BY DEF FactsInvariant, OutboxInvariant
<1>. QED  BY <1>1, KnownFacts DEF FactsKnown

LEMMA FailRemovalOrders ==
  ASSUME FactsInvariant, OutboxInvariant', UNCHANGED setup, NEW who, FailRemoval(who)
  PROVE  FactsInvariant'
<1>1. TypeOK' /\ Attended'
  BY DEF OutboxInvariant
<1>5. FlushWaits'
  BY FactsParts, SameQueued, FlushWaitsStays
     DEF FailRemoval, Settling, storeVars, writeVars, laneVars, retryVars,
         storageVars, remoteVars, ghostVars, boundVars
<1>6. FactsKnown'
  <2>1. FactsFrame
    BY FactsParts, UnchangedWrites, HeldStays
       DEF FailRemoval, FactsFrame, storeVars, writeVars, laneVars, retryVars,
           storageVars, remoteVars, ghostVars, boundVars
  <2>. QED  BY <1>1, <2>1, FactsParts, FactsFrameKeeps
<1>7. LaneOwned' /\ LaneInOrder'
  <2>1. FlushCalm /\ PullCalm
    BY
       DEF FailRemoval, FlushCalm, PullCalm, storeVars, writeVars, laneVars,
           retryVars, storageVars, remoteVars, ghostVars, boundVars
  <2>. QED
    BY <2>1, FactsParts, LaneFrameKeeps
       DEF FailRemoval, storeVars, writeVars, laneVars, retryVars, storageVars,
           remoteVars, ghostVars, boundVars
<1>. QED  BY <1>5, <1>6, <1>7 DEF FactsInvariant

LEMMA DrainedOrders ==
  ASSUME FactsInvariant, OutboxInvariant', UNCHANGED setup, NEW r, Drained(r)
  PROVE  FactsInvariant'
<1>1. TypeOK' /\ Attended'
  BY DEF OutboxInvariant
<1>5. FlushWaits'
  BY FactsParts, SameQueued, FlushWaitsStays
     DEF Drained, Settling, storeVars, writeVars, laneVars, retryVars,
         storageVars, remoteVars, ghostVars, boundVars
<1>6. FactsKnown'
  <2>1. FactsFrame
    BY FactsParts, UnchangedWrites, HeldStays
       DEF Drained, FactsFrame, storeVars, writeVars, laneVars, retryVars,
           storageVars, remoteVars, ghostVars, boundVars
  <2>. QED  BY <1>1, <2>1, FactsParts, FactsFrameKeeps
<1>7. LaneOwned' /\ LaneInOrder'
  <2>1. FlushCalm /\ PullCalm
    BY
       DEF Drained, FlushCalm, PullCalm, storeVars, writeVars, laneVars,
           retryVars, storageVars, remoteVars, ghostVars, boundVars
  <2>. QED
    BY <2>1, FactsParts, LaneFrameKeeps
       DEF Drained, storeVars, writeVars, laneVars, retryVars, storageVars,
           remoteVars, ghostVars, boundVars
<1>. QED  BY <1>5, <1>6, <1>7 DEF FactsInvariant

LEMMA FailedHydrationOrders ==
  ASSUME FactsInvariant, OutboxInvariant', UNCHANGED setup, life \in {"reading", "journal"}, FailedHydration
  PROVE  FactsInvariant'
<1>1. TypeOK' /\ Attended'
  BY DEF OutboxInvariant
<1>5. FlushWaits'
  BY FactsParts, SameQueued, FlushWaitsStays
     DEF FailedHydration, Settling, storeVars, writeVars, laneVars, retryVars,
         storageVars, remoteVars, ghostVars, boundVars
<1>6. FactsKnown'
  <2>1. FactsFrame
    BY FactsParts, UnchangedWrites, HeldStays
       DEF FailedHydration, FactsFrame, storeVars, writeVars, laneVars,
           retryVars, storageVars, remoteVars, ghostVars, boundVars
  <2>. QED  BY <1>1, <2>1, FactsParts, FactsFrameKeeps
<1>7. LaneOwned' /\ LaneInOrder'
  <2>1. FlushCalm /\ PullCalm
    BY
       DEF FailedHydration, FlushCalm, PullCalm, storeVars, writeVars,
           laneVars, retryVars, storageVars, remoteVars, ghostVars, boundVars
  <2>. QED
    BY <2>1, FactsParts, LaneFrameKeeps
       DEF FailedHydration, storeVars, writeVars, laneVars, retryVars,
           storageVars, remoteVars, ghostVars, boundVars
<1>. QED  BY <1>5, <1>6, <1>7 DEF FactsInvariant

LEMMA EndedOrders ==
  ASSUME FactsInvariant, OutboxInvariant', UNCHANGED setup, NEW r, Ended(r)
  PROVE  FactsInvariant'
<1>1. TypeOK' /\ Attended'
  BY DEF OutboxInvariant
<1>5. FlushWaits'
  BY FactsParts, SameQueued, FlushWaitsStays
     DEF Ended, Settling, storeVars, writeVars, laneVars, retryVars,
         storageVars, remoteVars, ghostVars, boundVars
<1>6. FactsKnown'
  <2>1. FactsFrame
    BY FactsParts, UnchangedWrites, HeldStays
       DEF Ended, FactsFrame, storeVars, writeVars, laneVars, retryVars,
           storageVars, remoteVars, ghostVars, boundVars
  <2>. QED  BY <1>1, <2>1, FactsParts, FactsFrameKeeps
<1>7. LaneOwned' /\ LaneInOrder'
  <2>1. FlushCalm /\ PullCalm
    BY
       DEF Ended, FlushCalm, PullCalm, storeVars, writeVars, laneVars,
           retryVars, storageVars, remoteVars, ghostVars, boundVars
  <2>. QED
    BY <2>1, FactsParts, LaneFrameKeeps
       DEF Ended, storeVars, writeVars, laneVars, retryVars, storageVars,
           remoteVars, ghostVars, boundVars
<1>. QED  BY <1>5, <1>6, <1>7 DEF FactsInvariant

LEMMA StartWrittenOrders ==
  ASSUME FactsInvariant, OutboxInvariant', UNCHANGED setup, NEW r, StartWritten(r)
  PROVE  FactsInvariant'
<1>1. TypeOK' /\ Attended'
  BY DEF OutboxInvariant
<1>5. FlushWaits'
  BY FactsParts, SameQueued, FlushWaitsStays
     DEF StartWritten, Settling, storeVars, writeVars, laneVars, retryVars,
         storageVars, remoteVars, ghostVars, boundVars
<1>6. FactsKnown'
  <2>1. FactsFrame
    BY FactsParts, UnchangedWrites, HeldStays
       DEF StartWritten, FactsFrame, storeVars, writeVars, laneVars, retryVars,
           storageVars, remoteVars, ghostVars, boundVars
  <2>. QED  BY <1>1, <2>1, FactsParts, FactsFrameKeeps
<1>7. LaneOwned' /\ LaneInOrder'
  <2>1. FlushCalm /\ PullCalm
    BY
       DEF StartWritten, FlushCalm, PullCalm, storeVars, writeVars, laneVars,
           retryVars, storageVars, remoteVars, ghostVars, boundVars
  <2>. QED
    BY <2>1, FactsParts, LaneFrameKeeps
       DEF StartWritten, storeVars, writeVars, laneVars, retryVars,
           storageVars, remoteVars, ghostVars, boundVars
<1>. QED  BY <1>5, <1>6, <1>7 DEF FactsInvariant

LEMMA ClearWrittenOrders ==
  ASSUME FactsInvariant, OutboxInvariant', UNCHANGED setup, NEW r, ClearWritten(r)
  PROVE  FactsInvariant'
<1>1. TypeOK' /\ Attended'
  BY DEF OutboxInvariant
<1>5. FlushWaits'
  BY FactsParts, SameQueued, FlushWaitsStays
     DEF ClearWritten, Settling, storeVars, writeVars, laneVars, retryVars,
         storageVars, remoteVars, ghostVars, boundVars
<1>6. FactsKnown'
  <2>1. FactsFrame
    BY FactsParts, UnchangedWrites, HeldStays
       DEF ClearWritten, FactsFrame, storeVars, writeVars, laneVars, retryVars,
           storageVars, remoteVars, ghostVars, boundVars
  <2>. QED  BY <1>1, <2>1, FactsParts, FactsFrameKeeps
<1>7. LaneOwned' /\ LaneInOrder'
  <2>1. FlushCalm /\ PullCalm
    BY
       DEF ClearWritten, FlushCalm, PullCalm, storeVars, writeVars, laneVars,
           retryVars, storageVars, remoteVars, ghostVars, boundVars
  <2>. QED
    BY <2>1, FactsParts, LaneFrameKeeps
       DEF ClearWritten, storeVars, writeVars, laneVars, retryVars,
           storageVars, remoteVars, ghostVars, boundVars
<1>. QED  BY <1>5, <1>6, <1>7 DEF FactsInvariant

LEMMA UserPullOrders ==
  ASSUME FactsInvariant, OutboxInvariant', UNCHANGED setup, UserPull
  PROVE  FactsInvariant'
<1>1. TypeOK' /\ Attended'
  BY DEF OutboxInvariant
<1>5. FlushWaits'
  BY FactsParts, SameQueued, FlushWaitsStays
     DEF UserPull, Asking, NoPull, Settling, storeVars, writeVars, laneVars,
         retryVars, storageVars, remoteVars, ghostVars, boundVars
<1>6. FactsKnown'
  <2>1. FactsFrame
    BY FactsParts, UnchangedWrites, HeldStays
       DEF UserPull, Asking, NoPull, FactsFrame, storeVars, writeVars,
           laneVars, retryVars, storageVars, remoteVars, ghostVars, boundVars
  <2>. QED  BY <1>1, <2>1, FactsParts, FactsFrameKeeps
<1>7. LaneOwned' /\ LaneInOrder'
  <2>1. FlushCalm /\ PullCalm
    BY
       DEF UserPull, Asking, NoPull, FlushCalm, PullCalm, storeVars, writeVars,
           laneVars, retryVars, storageVars, remoteVars, ghostVars, boundVars
  <2>. QED
    BY <2>1, FactsParts, LaneFrameKeeps
       DEF UserPull, Asking, NoPull, storeVars, writeVars, laneVars, retryVars,
           storageVars, remoteVars, ghostVars, boundVars
<1>. QED  BY <1>5, <1>6, <1>7 DEF FactsInvariant

LEMMA RemoteAnswersPullOrders ==
  ASSUME FactsInvariant, OutboxInvariant', UNCHANGED setup, RemoteAnswersPull
  PROVE  FactsInvariant'
<1>1. TypeOK' /\ Attended'
  BY DEF OutboxInvariant
<1>2. pull'.fact = server /\ (pull.pc = "asking")
  BY FactsParts DEF RemoteAnswersPull, TypeOK, Pulls
<1>5. FlushWaits'
  BY FactsParts, SameQueued, FlushWaitsStays
     DEF RemoteAnswersPull, Settling, storeVars, writeVars, laneVars,
         retryVars, storageVars, remoteVars, ghostVars, boundVars
<1>6. FactsKnown'
  <2>1. FactsFrame
    BY <1>2, FactsParts, UnchangedWrites, HeldStays
       DEF RemoteAnswersPull, FactsFrame, storeVars, writeVars, laneVars, storageVars,
           remoteVars
  <2>. QED  BY <1>1, <2>1, FactsParts, FactsFrameKeeps
<1>7. LaneOwned' /\ LaneInOrder'
  <2>1. FlushCalm /\ PullCalm
    BY <1>2 DEF RemoteAnswersPull, FlushCalm, PullCalm
  <2>. QED
    BY <2>1, FactsParts, LaneFrameKeeps DEF RemoteAnswersPull, storeVars, laneVars
<1>. QED  BY <1>5, <1>6, <1>7 DEF FactsInvariant

LEMMA FailPullOrders ==
  ASSUME FactsInvariant, OutboxInvariant', UNCHANGED setup, FailPull
  PROVE  FactsInvariant'
<1>1. TypeOK' /\ Attended'
  BY DEF OutboxInvariant
<1>5. FlushWaits'
  BY FactsParts, SameQueued, FlushWaitsStays
     DEF FailPull, NoPull, Settling, storeVars, writeVars, laneVars, retryVars,
         storageVars, remoteVars, ghostVars, boundVars
<1>6. FactsKnown'
  <2>1. FactsFrame
    BY FactsParts, UnchangedWrites, HeldStays
       DEF FailPull, NoPull, FactsFrame, storeVars, writeVars, laneVars,
           retryVars, storageVars, remoteVars, ghostVars, boundVars
  <2>. QED  BY <1>1, <2>1, FactsParts, FactsFrameKeeps
<1>7. LaneOwned' /\ LaneInOrder'
  <2>1. FlushCalm /\ PullCalm
    BY
       DEF FailPull, NoPull, FlushCalm, PullCalm, storeVars, writeVars,
           laneVars, retryVars, storageVars, remoteVars, ghostVars, boundVars
  <2>. QED
    BY <2>1, FactsParts, LaneFrameKeeps
       DEF FailPull, NoPull, storeVars, writeVars, laneVars, retryVars,
           storageVars, remoteVars, ghostVars, boundVars
<1>. QED  BY <1>5, <1>6, <1>7 DEF FactsInvariant

LEMMA RemoteWriteOrders ==
  ASSUME FactsInvariant, OutboxInvariant', UNCHANGED setup, RemoteWrite
  PROVE  FactsInvariant'
<1>1. TypeOK' /\ Attended'
  BY DEF OutboxInvariant
<1>5. FlushWaits'
  BY FactsParts, SameQueued, FlushWaitsStays
     DEF RemoteWrite, Settling, storeVars, writeVars, laneVars, retryVars,
         storageVars, remoteVars, ghostVars, boundVars
<1>6. FactsKnown'
  <2>1. FactsFrame
    BY FactsParts, UnchangedWrites, HeldStays
       DEF RemoteWrite, FactsFrame, storeVars, writeVars, laneVars, retryVars,
           storageVars, remoteVars, ghostVars, boundVars
  <2>. QED  BY <1>1, <2>1, FactsParts, FactsFrameKeeps
<1>7. LaneOwned' /\ LaneInOrder'
  <2>1. FlushCalm /\ PullCalm
    BY
       DEF RemoteWrite, FlushCalm, PullCalm, storeVars, writeVars, laneVars,
           retryVars, storageVars, remoteVars, ghostVars, boundVars
  <2>. QED
    BY <2>1, FactsParts, LaneFrameKeeps
       DEF RemoteWrite, storeVars, writeVars, laneVars, retryVars, storageVars,
           remoteVars, ghostVars, boundVars
<1>. QED  BY <1>5, <1>6, <1>7 DEF FactsInvariant

LEMMA GiveUpFlushOrders ==
  ASSUME FactsInvariant, OutboxInvariant', UNCHANGED setup, flush.pc \in {"pushing", "answered"}, GiveUpFlush
  PROVE  FactsInvariant'
<1>1. TypeOK' /\ Attended'
  BY DEF OutboxInvariant
<1>5. FlushWaits'
  BY FactsParts, SameQueued, FlushWaitsStays
     DEF GiveUpFlush, NoFlush, Settling, storeVars, writeVars, laneVars,
         retryVars, storageVars, remoteVars, ghostVars, boundVars
<1>6. FactsKnown'
  <2>1. FactsFrame
    BY FactsParts, UnchangedWrites, HeldStays
       DEF GiveUpFlush, NoFlush, FactsFrame, storeVars, writeVars, laneVars,
           retryVars, storageVars, remoteVars, ghostVars, boundVars
  <2>. QED  BY <1>1, <2>1, FactsParts, FactsFrameKeeps
<1>7. LaneOwned' /\ LaneInOrder'
  <2>1. FlushCalm /\ PullCalm
    BY
       DEF GiveUpFlush, NoFlush, FlushCalm, PullCalm, storeVars, writeVars,
           laneVars, retryVars, storageVars, remoteVars, ghostVars, boundVars
  <2>. QED
    BY <2>1, FactsParts, LaneFrameKeeps
       DEF GiveUpFlush, NoFlush, storeVars, writeVars, laneVars, retryVars,
           storageVars, remoteVars, ghostVars, boundVars
<1>. QED  BY <1>5, <1>6, <1>7 DEF FactsInvariant

LEMMA StartWriteOrders ==
  ASSUME FactsInvariant, OutboxInvariant', UNCHANGED setup, StartWrite
  PROVE  FactsInvariant'
<1>1. TypeOK' /\ Attended'
  BY DEF OutboxInvariant
<1>5. FlushWaits'
  BY FactsParts, StartedWrite, FlushWaitsStays
     DEF StartWrite, Settling, writeVars
<1>6. FactsKnown'
  <2>1. FactsFrame
    BY FactsParts, StartedWrite DEF StartWrite, FactsFrame, remoteVars
  <2>. QED  BY <1>1, <2>1, FactsParts, FactsFrameKeeps
<1>7. LaneOwned' /\ LaneInOrder'
  <2>1. FlushCalm /\ PullCalm
    BY
       DEF StartWrite, FlushCalm, PullCalm, storeVars, writeVars, laneVars,
           retryVars, storageVars, remoteVars, ghostVars, boundVars
  <2>. QED
    BY <2>1, FactsParts, LaneFrameKeeps
       DEF StartWrite, storeVars, writeVars, laneVars, retryVars, storageVars,
           remoteVars, ghostVars, boundVars
<1>. QED  BY <1>5, <1>6, <1>7 DEF FactsInvariant

LEMMA UserFlushOrders ==
  ASSUME FactsInvariant, OutboxInvariant', UNCHANGED setup, UserFlush
  PROVE  FactsInvariant'
<1>1. TypeOK' /\ Attended'
  BY DEF OutboxInvariant
<1>2. FlushWaits' /\ SameWrites /\ FlushCalm /\ flush'.fact <= server
  BY FactsParts, FlushInOrder DEF UserFlush
<1>5. FlushWaits'
  BY <1>2
<1>6. FactsKnown'
  <2>1. FactsFrame
    BY <1>2, FactsParts, HeldStays
       DEF UserFlush, FactsFrame, storeVars, writeVars, laneVars, retryVars,
           storageVars, remoteVars, ghostVars, boundVars
  <2>. QED  BY <1>1, <2>1, FactsParts, FactsFrameKeeps
<1>7. LaneOwned' /\ LaneInOrder'
  <2>1. PullCalm
    BY <1>2 DEF UserFlush, PullCalm
  <2>. QED
    BY <1>2, <2>1, FactsParts, LaneFrameKeeps
       DEF UserFlush, storeVars, writeVars, laneVars, retryVars, storageVars,
           remoteVars, ghostVars, boundVars
<1>. QED  BY <1>5, <1>6, <1>7 DEF FactsInvariant

LEMMA FinishRemovalOrders ==
  ASSUME FactsInvariant, OutboxInvariant', UNCHANGED setup, NEW who, FinishRemoval(who)
  PROVE  FactsInvariant'
<1>1. TypeOK' /\ Attended'
  BY DEF OutboxInvariant
<1>2. FlushWaits' /\ SameWrites /\ FlushCalm /\ flush'.fact <= server
  <2>1. CASE Flush(writeQueue, due)
    BY <2>1, FactsParts, FlushInOrder DEF FinishRemoval
  <2>2. CASE UNCHANGED <<flush, writeQueue, due>>
    <3>1. FlushCalm
      BY <2>2 DEF FlushCalm
    <3>. QED  BY <2>2, <3>1, FactsParts, FewerWaits, UnchangedWrites DEF FinishRemoval
  <2>. QED  BY <2>1, <2>2 DEF FinishRemoval
<1>5. FlushWaits'
  BY <1>2
<1>6. FactsKnown'
  <2>1. FactsFrame
    BY <1>2, FactsParts, HeldStays
       DEF FinishRemoval, FactsFrame, storeVars, writeVars, laneVars,
           retryVars, storageVars, remoteVars, ghostVars, boundVars
  <2>. QED  BY <1>1, <2>1, FactsParts, FactsFrameKeeps
<1>7. LaneOwned' /\ LaneInOrder'
  <2>1. PullCalm
    BY <1>2 DEF FinishRemoval, PullCalm
  <2>. QED
    BY <1>2, <2>1, FactsParts, LaneFrameKeeps
       DEF FinishRemoval, storeVars, writeVars, laneVars, retryVars,
           storageVars, remoteVars, ghostVars, boundVars
<1>. QED  BY <1>5, <1>6, <1>7 DEF FactsInvariant

LEMMA CommitWrittenOrders ==
  ASSUME FactsInvariant, OutboxInvariant', UNCHANGED setup, NEW r, CommitWritten(r)
  PROVE  FactsInvariant'
<1>1. TypeOK' /\ Attended'
  BY DEF OutboxInvariant
<1>2. FlushWaits' /\ SameWrites /\ FlushCalm /\ flush'.fact <= server
  <2>1. CASE Flush(writeQueue, due \ {r})
    BY <2>1, FactsParts, FlushInOrder DEF CommitWritten
  <2>2. CASE due' = due \ {r} /\ UNCHANGED <<flush, writeQueue>>
    <3>1. FlushCalm
      BY <2>2 DEF FlushCalm
    <3>. QED  BY <2>2, <3>1, FactsParts, FewerWaits, UnchangedWrites DEF CommitWritten
  <2>. QED  BY <2>1, <2>2 DEF CommitWritten
<1>5. FlushWaits'
  BY <1>2
<1>6. FactsKnown'
  <2>1. FactsFrame
    BY <1>2, FactsParts, HeldStays
       DEF CommitWritten, FactsFrame, storeVars, writeVars, laneVars,
           retryVars, storageVars, remoteVars, ghostVars, boundVars
  <2>. QED  BY <1>1, <2>1, FactsParts, FactsFrameKeeps
<1>7. LaneOwned' /\ LaneInOrder'
  <2>1. PullCalm
    BY <1>2 DEF CommitWritten, PullCalm
  <2>. QED
    BY <1>2, <2>1, FactsParts, LaneFrameKeeps
       DEF CommitWritten, storeVars, writeVars, laneVars, retryVars,
           storageVars, remoteVars, ghostVars, boundVars
<1>. QED  BY <1>5, <1>6, <1>7 DEF FactsInvariant

LEMMA FireTimerOrders ==
  ASSUME FactsInvariant, OutboxInvariant', UNCHANGED setup, FireTimer
  PROVE  FactsInvariant'
<1>1. TypeOK' /\ Attended'
  BY DEF OutboxInvariant
<1>2. FlushWaits' /\ SameWrites /\ FlushCalm /\ flush'.fact <= server
  <2>1. CASE Flush(writeQueue, due)
    BY <2>1, FactsParts, FlushInOrder DEF FireTimer
  <2>2. CASE UNCHANGED <<flush, writeQueue, due>>
    <3>1. FlushCalm
      BY <2>2 DEF FlushCalm
    <3>. QED  BY <2>2, <3>1, FactsParts, FewerWaits, UnchangedWrites DEF FireTimer
  <2>. QED  BY <2>1, <2>2 DEF FireTimer
<1>3. /\ pull'.fact <= server
      /\ pull.pc = "applying" => pull'.pc = "applying" /\ pull'.moved = pull.moved
      /\ pull'.pc = "answered" => /\ pull.pc = "answered" /\ pull'.moved = pull.moved
                                  /\ pull'.fact = pull.fact
  <2>1. \/ pull' = pull
        \/ pull.pc = "idle" /\ pull' = Asking(0, TRUE)
        \/ pull' = [pull EXCEPT !.resume = TRUE]
    BY DEF FireTimer
  <2>2. Asking(0, TRUE).fact = 0 /\ Asking(0, TRUE).pc = "asking"
    BY DEF Asking, NoPull
  <2>3. pull \in Pulls
    BY FactsParts DEF TypeOK
  <2>4. CASE pull' = pull \/ pull' = [pull EXCEPT !.resume = TRUE]
    <3>1. pull'.pc = pull.pc /\ pull'.moved = pull.moved /\ pull'.fact = pull.fact
      BY <2>3, <2>4 DEF Pulls
    <3>. QED  BY <3>1, FactsParts
  <2>5. CASE pull.pc = "idle" /\ pull' = Asking(0, TRUE)
    <3>1. pull'.fact = 0 /\ pull'.pc = "asking" /\ pull.pc = "idle"
      BY <2>2, <2>5
    <3>2. 0 <= server
      BY FactsParts
    <3>. QED  BY <3>1, <3>2
  <2>. QED  BY <2>1, <2>4, <2>5
<1>5. FlushWaits'
  BY <1>2
<1>6. FactsKnown'
  <2>1. FactsFrame
    BY <1>2, <1>3, FactsParts, HeldStays
       DEF FireTimer, FactsFrame, storeVars, writeVars, laneVars, retryVars,
           storageVars, remoteVars, ghostVars, boundVars
  <2>. QED  BY <1>1, <2>1, FactsParts, FactsFrameKeeps
<1>7. LaneOwned' /\ LaneInOrder'
  <2>1. PullCalm
    BY <1>3 DEF PullCalm
  <2>. QED
    BY <1>2, <2>1, FactsParts, LaneFrameKeeps
       DEF FireTimer, storeVars, writeVars, laneVars, retryVars, storageVars,
           remoteVars, ghostVars, boundVars
<1>. QED  BY <1>5, <1>6, <1>7 DEF FactsInvariant

LEMMA ReadStateOrders ==
  ASSUME FactsInvariant, OutboxInvariant', UNCHANGED setup, ReadState
  PROVE  FactsInvariant'
<1>1. TypeOK' /\ Attended'
  BY DEF OutboxInvariant
<1>2. SameWrites /\ Queued("flush")' \subseteq Queued("flush")
      /\ Settling("flush")' \subseteq Settling("flush")
  <2>1. CASE writeQueue = <<>>
    <3>1. writeQueue' = writeQueue /\ due' = {[who |-> "hydrate", ok |-> TRUE]}
      BY <2>1 DEF ReadState
    <3>. QED  BY <3>1, FactsParts, UnchangedWrites, SameQueued DEF Settling
  <2>2. CASE writeQueue # <<>>
    <3>1. writeQueue' = [writeQueue EXCEPT
            ![Len(writeQueue)].waiters = @ \cup {"hydrate"}] /\ due' = due
      BY <2>2 DEF ReadState
    <3>2. SameWrites
      BY <2>2, <3>1, FactsParts, AwaitedWrite
    <3>3. /\ Len(writeQueue) \in DOMAIN writeQueue
          /\ \A i \in DOMAIN writeQueue : writeQueue[i] \in Writes
      BY <2>2, FactsParts, QueueShape
    <3>4. \A i \in DOMAIN writeQueue :
            writeQueue'[i].waiters \subseteq writeQueue[i].waiters \cup {"hydrate"}
      BY <3>1, <3>3 DEF Writes
    <3>5. Queued("flush")' \subseteq Queued("flush")
      BY <3>2, <3>4 DEF Queued, SameWrites
    <3>. QED  BY <3>1, <3>2, <3>5 DEF Settling
  <2>. QED  BY <2>1, <2>2
<1>5. FlushWaits'
  BY <1>2, FactsParts, FlushWaitsStays DEF ReadState
<1>6. FactsKnown'
  <2>1. FactsFrame
    BY <1>2, FactsParts, HeldStays
       DEF ReadState, FactsFrame, storeVars, laneVars, storageVars, remoteVars
  <2>. QED  BY <1>1, <2>1, FactsParts, FactsFrameKeeps
<1>7. LaneOwned' /\ LaneInOrder'
  <2>1. FlushCalm /\ PullCalm
    BY
       DEF ReadState, FlushCalm, PullCalm, storeVars, writeVars, laneVars,
           retryVars, storageVars, remoteVars, ghostVars, boundVars
  <2>. QED
    BY <2>1, FactsParts, LaneFrameKeeps
       DEF ReadState, storeVars, writeVars, laneVars, retryVars, storageVars,
           remoteVars, ghostVars, boundVars
<1>. QED  BY <1>5, <1>6, <1>7 DEF FactsInvariant

LEMMA StartOrders ==
  ASSUME FactsInvariant, OutboxInvariant', UNCHANGED setup, Start
  PROVE  FactsInvariant'
<1>1. TypeOK' /\ Attended'
  BY DEF OutboxInvariant
<1>5. FlushWaits'
  BY FactsParts, SameQueued, FlushWaitsStays
     DEF Start, Settling, storeVars, writeVars, laneVars, retryVars,
         storageVars, remoteVars, ghostVars, boundVars
<1>6. FactsKnown'
  <2>1. Held' = Held
    BY DEF Held, Start, storeVars, writeVars, laneVars, storageVars
  <2>2. events' = server /\ server' = server /\ flush' = flush /\ pull' = pull
    BY DEF Start
  <2>3. \A fact \in Held : fact <= server
    BY FactsParts DEF FactsKnown, Known
  <2>. QED  BY <2>1, <2>2, <2>3, FactsParts DEF FactsKnown, Known
<1>7. LaneOwned' /\ LaneInOrder'
  <2>1. FlushCalm /\ PullCalm
    BY
       DEF Start, FlushCalm, PullCalm, storeVars, writeVars, laneVars,
           retryVars, storageVars, remoteVars, ghostVars, boundVars
  <2>. QED
    BY <2>1, FactsParts, LaneFrameKeeps
       DEF Start, storeVars, writeVars, laneVars, retryVars, storageVars,
           remoteVars, ghostVars, boundVars
<1>. QED  BY <1>5, <1>6, <1>7 DEF FactsInvariant

LEMMA FailWriteOrders ==
  ASSUME FactsInvariant, OutboxInvariant', UNCHANGED setup, FailWrite
  PROVE  FactsInvariant'
<1>1. TypeOK' /\ Attended'
  BY DEF OutboxInvariant
<1>2. FlushWaits'
  BY FactsParts, SettledFlush DEF FailWrite, FactsInvariant, laneVars
<1>3. Held' \subseteq Held
  <2>1. \A i \in DOMAIN writeQueue' :
          writeQueue'[i] = writeQueue[i + 1] /\ i + 1 \in DOMAIN writeQueue
    BY SettledEffect DEF FailWrite, FactsInvariant, laneVars
  <2>. QED  BY <2>1 DEF Held, FailWrite, storeVars, laneVars, storageVars
<1>5. FlushWaits'
  BY <1>2
<1>6. FactsKnown'
  <2>1. FactsFrame
    BY <1>3, FactsParts DEF FailWrite, FactsFrame, remoteVars
  <2>. QED  BY <1>1, <2>1, FactsParts, FactsFrameKeeps
<1>7. LaneOwned' /\ LaneInOrder'
  <2>1. FlushCalm /\ PullCalm
    BY
       DEF FailWrite, FlushCalm, PullCalm, storeVars, writeVars, laneVars,
           retryVars, storageVars, remoteVars, ghostVars, boundVars
  <2>. QED
    BY <2>1, FactsParts, LaneFrameKeeps
       DEF FailWrite, storeVars, writeVars, laneVars, retryVars, storageVars,
           remoteVars, ghostVars, boundVars
<1>. QED  BY <1>5, <1>6, <1>7 DEF FactsInvariant

LEMMA FinishWriteOrders ==
  ASSUME FactsInvariant, OutboxInvariant', UNCHANGED setup, FinishWrite
  PROVE  FactsInvariant'
<1>1. TypeOK' /\ Attended'
  BY DEF OutboxInvariant
<1>2. FlushWaits'
  BY FactsParts, SettledFlush DEF FinishWrite, FactsInvariant, laneVars
<1>3. Held' \subseteq Held
  <2>1. /\ \A i \in DOMAIN writeQueue' :
             writeQueue'[i] = writeQueue[i + 1] /\ i + 1 \in DOMAIN writeQueue
        /\ 1 \in DOMAIN writeQueue /\ Head(writeQueue) = writeQueue[1]
    <3>1. /\ \A i \in DOMAIN writeQueue' :
               writeQueue'[i] = writeQueue[i + 1] /\ i + 1 \in DOMAIN writeQueue
          /\ DOMAIN writeQueue = 1 .. Len(writeQueue) /\ Len(writeQueue) \in Nat \ {0}
          /\ Head(writeQueue) = writeQueue[1]
      BY SettledEffect DEF FinishWrite, FactsInvariant, laneVars
    <3>2. 1 \in DOMAIN writeQueue
      BY <3>1
    <3>. QED  BY <3>1, <3>2
  <2>2. main' = main \/ main' = writeQueue[1].content
    BY <2>1 DEF FinishWrite
  <2>. QED  BY <2>1, <2>2 DEF Held, FinishWrite, storeVars, laneVars
<1>5. FlushWaits'
  BY <1>2
<1>6. FactsKnown'
  <2>1. FactsFrame
    BY <1>3, FactsParts DEF FinishWrite, FactsFrame, remoteVars
  <2>. QED  BY <1>1, <2>1, FactsParts, FactsFrameKeeps
<1>7. LaneOwned' /\ LaneInOrder'
  <2>1. FlushCalm /\ PullCalm
    BY
       DEF FinishWrite, FlushCalm, PullCalm, storeVars, writeVars, laneVars,
           retryVars, storageVars, remoteVars, ghostVars, boundVars
  <2>. QED
    BY <2>1, FactsParts, LaneFrameKeeps
       DEF FinishWrite, storeVars, writeVars, laneVars, retryVars, storageVars,
           remoteVars, ghostVars, boundVars
<1>. QED  BY <1>5, <1>6, <1>7 DEF FactsInvariant

LEMMA FinishHydrationOrders ==
  ASSUME FactsInvariant, OutboxInvariant', UNCHANGED setup, FinishHydration
  PROVE  FactsInvariant'
<1>1. TypeOK' /\ Attended'
  BY DEF OutboxInvariant
<1>2. FlushWaits' /\ Held' \subseteq Held
  <2>1. State \in Checkpoints /\ State.base = base /\ "start" \in Waiters \ {"flush"}
    BY FactsParts, StateType DEF State, Waiters
  <2>. QED  BY <2>1, FactsParts, NewWriteOrder
            DEF FinishHydration, Persisted, storeVars, laneVars, storageVars
<1>5. FlushWaits'
  BY <1>2
<1>6. FactsKnown'
  <2>1. FactsFrame
    BY <1>2, FactsParts DEF FinishHydration, FactsFrame, remoteVars
  <2>. QED  BY <1>1, <2>1, FactsParts, FactsFrameKeeps
<1>7. LaneOwned' /\ LaneInOrder'
  <2>1. FlushCalm /\ PullCalm
    BY
       DEF FinishHydration, FlushCalm, PullCalm, storeVars, writeVars,
           laneVars, retryVars, storageVars, remoteVars, ghostVars, boundVars
  <2>. QED
    BY <2>1, FactsParts, LaneFrameKeeps
       DEF FinishHydration, storeVars, writeVars, laneVars, retryVars,
           storageVars, remoteVars, ghostVars, boundVars
<1>. QED  BY <1>5, <1>6, <1>7 DEF FactsInvariant

LEMMA ClearPendingOrders ==
  ASSUME FactsInvariant, OutboxInvariant', UNCHANGED setup, ClearPending
  PROVE  FactsInvariant'
<1>1. TypeOK' /\ Attended'
  BY DEF OutboxInvariant
<1>2. FlushWaits' /\ Held' \subseteq Held
  <2>1. State \in Checkpoints /\ State.base = base /\ "clear" \in Waiters \ {"flush"}
    BY FactsParts, StateType DEF State, Waiters
  <2>. QED  BY <2>1, FactsParts, NewWriteOrder
            DEF ClearPending, Persisted, storeVars, laneVars, storageVars
<1>5. FlushWaits'
  BY <1>2
<1>6. FactsKnown'
  <2>1. FactsFrame
    BY <1>2, FactsParts DEF ClearPending, FactsFrame, remoteVars
  <2>. QED  BY <1>1, <2>1, FactsParts, FactsFrameKeeps
<1>7. LaneOwned' /\ LaneInOrder'
  <2>1. FlushCalm /\ PullCalm
    BY
       DEF ClearPending, FlushCalm, PullCalm, storeVars, writeVars, laneVars,
           retryVars, storageVars, remoteVars, ghostVars, boundVars
  <2>. QED
    BY <2>1, FactsParts, LaneFrameKeeps
       DEF ClearPending, storeVars, writeVars, laneVars, retryVars,
           storageVars, remoteVars, ghostVars, boundVars
<1>. QED  BY <1>5, <1>6, <1>7 DEF FactsInvariant

LEMMA CommitOrders ==
  ASSUME FactsInvariant, OutboxInvariant', UNCHANGED setup, Commit
  PROVE  FactsInvariant'
<1>1. TypeOK' /\ Attended'
  BY DEF OutboxInvariant
<1>2. FlushWaits' /\ Held' \subseteq Held
  <2>. DEFINE saved == IF life = "ready" THEN State ELSE [State EXCEPT !.outbox = outbox']
              key == IF life = "ready" THEN "main" ELSE "journal"
  <2>1. writeQueue' = Append(writeQueue, Write(key, saved, "commit"))
    BY DEF Commit, Persisted
  <2>2. saved \in Checkpoints /\ saved.base = base
    <3>1. State \in Checkpoints /\ State.base = base
          /\ [State EXCEPT !.outbox = outbox'].base = base
      BY FactsParts, StateType DEF State
    <3>2. outbox' \in Seq(Mutations)
      BY <1>1 DEF TypeOK
    <3>3. [State EXCEPT !.outbox = outbox'] \in Checkpoints
      BY <3>1, <3>2 DEF Checkpoints
    <3>. QED  BY <3>1, <3>3
  <2>3. key \in {"main", "journal"} /\ "commit" \in Waiters \ {"flush"}
    BY DEF Waiters
  <2>. HIDE DEF saved, key
  <2>. QED  BY <2>1, <2>2, <2>3, FactsParts, NewWriteOrder
            DEF Commit, laneVars, storageVars
<1>5. FlushWaits'
  BY <1>2
<1>6. FactsKnown'
  <2>1. FactsFrame
    BY <1>2, FactsParts DEF Commit, FactsFrame, remoteVars
  <2>. QED  BY <1>1, <2>1, FactsParts, FactsFrameKeeps
<1>7. LaneOwned' /\ LaneInOrder'
  <2>1. FlushCalm /\ PullCalm
    BY
       DEF Commit, FlushCalm, PullCalm, storeVars, writeVars, laneVars,
           retryVars, storageVars, remoteVars, ghostVars, boundVars
  <2>. QED
    BY <2>1, FactsParts, LaneFrameKeeps
       DEF Commit, storeVars, writeVars, laneVars, retryVars, storageVars,
           remoteVars, ghostVars, boundVars
<1>. QED  BY <1>5, <1>6, <1>7 DEF FactsInvariant

LEMMA HydrateOrders ==
  ASSUME FactsInvariant, OutboxInvariant', UNCHANGED setup, Hydrate
  PROVE  FactsInvariant'
<1>1. TypeOK' /\ Attended'
  BY DEF OutboxInvariant
<1>5. FlushWaits'
  BY FactsParts, SameQueued, FlushWaitsStays
     DEF Hydrate, Settling, storeVars, writeVars, laneVars, retryVars,
         storageVars, remoteVars, ghostVars, boundVars
<1>6. FactsKnown'
  <2>1. Held' \subseteq Held
    BY DEF Held, Hydrate, writeVars, laneVars, storageVars
  <2>2. FactsFrame
    BY <2>1, FactsParts DEF FactsFrame, Hydrate, remoteVars
  <2>. QED  BY <1>1, <2>2, FactsParts, FactsFrameKeeps
<1>7. LaneOwned' /\ LaneInOrder'
  <2>1. lane' = <<>> /\ flush'.pc = "idle" /\ pull'.pc = "idle"
    BY <1>1, FactsParts DEF Hydrate, Attended
  <2>. QED  BY <2>1, LaneEmpty
<1>. QED  BY <1>5, <1>6, <1>7 DEF FactsInvariant

LEMMA DestroyOrders ==
  ASSUME FactsInvariant, OutboxInvariant', UNCHANGED setup, Destroy
  PROVE  FactsInvariant'
<1>1. TypeOK' /\ Attended'
  BY DEF OutboxInvariant
<1>2. /\ flush'.fact = 0 /\ pull'.fact = 0 /\ lane' = <<>> /\ DOMAIN lane' = {}
      /\ server' = server /\ events' = events
  BY DEF Destroy, Abandoned, NoFlush, NoPull
<1>5. FlushWaits'
  BY FactsParts, SameQueued, FlushWaitsStays
     DEF Destroy, Settling, storeVars, writeVars, laneVars, retryVars,
         storageVars, remoteVars, ghostVars, boundVars
<1>6. FactsKnown'
  <2>1. Held' \subseteq Held
    BY <1>2 DEF Held, Destroy, writeVars, storeVars, storageVars
  <2>2. FactsFrame
    BY <1>2, <2>1, FactsParts DEF FactsFrame, Destroy, Open
  <2>. QED  BY <1>1, <2>2, FactsParts, FactsFrameKeeps
<1>7. LaneOwned' /\ LaneInOrder'
  <2>1. lane' = <<>> /\ flush'.pc = "idle" /\ pull'.pc = "idle"
    BY <1>1, FactsParts DEF Destroy, Attended
  <2>. QED  BY <2>1, LaneEmpty
<1>. QED  BY <1>5, <1>6, <1>7 DEF FactsInvariant

LEMMA StopOrders ==
  ASSUME FactsInvariant, OutboxInvariant', UNCHANGED setup, Stop
  PROVE  FactsInvariant'
<1>1. TypeOK' /\ Attended'
  BY DEF OutboxInvariant
<1>2. /\ flush'.fact <= server' /\ pull'.fact <= server' /\ lane' = <<>>
      /\ server' = server /\ events' = events /\ base' = 0 /\ main' = main
      /\ DOMAIN writeQueue' = {} /\ DOMAIN lane' = {} /\ life' = "down"
  BY FactsParts DEF Stop, Gone, laneVars, remoteVars, storageVars, Attended
<1>5. FlushWaits'
  <2>1. writeQueue' = <<>> /\ due' = {} /\ DOMAIN writeQueue' = {}
    BY DEF Stop, Gone
  <2>. QED  BY <2>1 DEF FlushWaits, OneWaits, Queued, Settling
<1>6. FactsKnown'
  <2>1. Held' \subseteq Held \cup {0}
    BY <1>2 DEF Held
  <2>2. FactsFrame
    BY <1>2, <2>1, FactsParts DEF FactsFrame
  <2>. QED  BY <1>1, <2>2, FactsParts, FactsFrameKeeps
<1>7. LaneOwned' /\ LaneInOrder'
  <2>1. lane' = <<>> /\ flush'.pc = "idle" /\ pull'.pc = "idle"
    BY <1>1, <1>2 DEF Attended
  <2>. QED  BY <2>1, LaneEmpty
<1>. QED  BY <1>5, <1>6, <1>7 DEF FactsInvariant

LEMMA CrashOrders ==
  ASSUME FactsInvariant, OutboxInvariant', UNCHANGED setup, Crash
  PROVE  FactsInvariant'
<1>1. TypeOK' /\ Attended'
  BY DEF OutboxInvariant
<1>2. /\ flush'.fact <= server' /\ pull'.fact <= server' /\ lane' = <<>>
      /\ server' = server /\ events' = events /\ base' = 0 /\ main' = main
      /\ DOMAIN writeQueue' = {} /\ DOMAIN lane' = {} /\ life' = "down"
  <2>1. NoFlush.fact = 0 /\ NoPull.fact = 0 /\ 0 <= server
    BY FactsParts DEF NoFlush, NoPull
  <2>. QED  BY <2>1 DEF Crash, Gone, Abandoned, storageVars
<1>5. FlushWaits'
  <2>1. writeQueue' = <<>> /\ due' = {} /\ DOMAIN writeQueue' = {}
    BY DEF Crash, Gone
  <2>. QED  BY <2>1 DEF FlushWaits, OneWaits, Queued, Settling
<1>6. FactsKnown'
  <2>1. Held' \subseteq Held \cup {0}
    BY <1>2 DEF Held
  <2>2. FactsFrame
    BY <1>2, <2>1, FactsParts DEF FactsFrame
  <2>. QED  BY <1>1, <2>2, FactsParts, FactsFrameKeeps
<1>7. LaneOwned' /\ LaneInOrder'
  <2>1. lane' = <<>> /\ flush'.pc = "idle" /\ pull'.pc = "idle"
    BY <1>1, <1>2 DEF Attended
  <2>. QED  BY <2>1, LaneEmpty
<1>. QED  BY <1>5, <1>6, <1>7 DEF FactsInvariant

LEMMA SendOrders ==
  ASSUME FactsInvariant, OutboxInvariant', UNCHANGED setup, NEW r, Send(r)
  PROVE  FactsInvariant'
<1>1. TypeOK' /\ Attended'
  BY DEF OutboxInvariant
<1>2. /\ Settling("flush") = {r} /\ Queued("flush") = {} /\ flush.pc = "waiting"
      /\ life = "ready"
  BY FactsParts DEF Send, FlushWaits, OneWaits, Settling
<1>3. flush'.pc # "answered" /\ flush'.fact <= server
  <2>1. NoFlush.pc = "idle" /\ NoFlush.fact = 0 /\ 0 <= server
    BY FactsParts DEF NoFlush
  <2>2. \/ flush' = NoFlush
        \/ \E submitted : flush' = [flush EXCEPT !.pc = "pushing", !.sent = submitted,
                            !.attempted = @ \cup submitted, !.moved = FALSE]
    BY DEF Send
  <2>3. flush \in Flushes
    BY FactsParts DEF TypeOK
  <2>4. \A submitted :
          LET next == [flush EXCEPT !.pc = "pushing", !.sent = submitted,
                         !.attempted = @ \cup submitted, !.moved = FALSE]
          IN  next.pc = "pushing" /\ next.fact = flush.fact
    BY <2>3 DEF Flushes
  <2>. QED  BY <2>1, <2>2, <2>4, FactsParts
<1>5. FlushWaits'
  <2>1. Settling("flush")' = {}
    BY <1>2 DEF Send, Settling
  <2>2. Queued("flush")' = {}
    BY <1>2, SameQueued DEF Send
  <2>. QED  BY <2>1, <2>2 DEF FlushWaits, OneWaits
<1>6. FactsKnown'
  <2>1. FactsFrame
    BY <1>3, FactsParts, UnchangedWrites, HeldStays
       DEF Send, FactsFrame, storeVars, laneVars, storageVars, remoteVars
  <2>. QED  BY <1>1, <2>1, FactsParts, FactsFrameKeeps
<1>7. LaneOwned' /\ LaneInOrder'
  <2>1. FlushCalm /\ PullCalm
    BY <1>2, <1>3 DEF Send, FlushCalm, PullCalm
  <2>. QED
    BY <2>1, FactsParts, LaneFrameKeeps DEF Send, storeVars, laneVars
<1>. QED  BY <1>5, <1>6, <1>7 DEF FactsInvariant

LEMMA RemoteTakesOrders ==
  ASSUME FactsInvariant, OutboxInvariant', UNCHANGED setup, RemoteTakes
  PROVE  FactsInvariant'
<1>1. TypeOK' /\ Attended'
  BY DEF OutboxInvariant
<1>2. /\ flush.pc = "pushing" /\ flush'.pc = "answered" /\ flush'.moved = flush.moved
      /\ flush'.fact \in {0, server} /\ flush'.fact <= server
  <2>1. PICK left \in Declinable(flush.sent), fact \in {0, server} :
          flush' = [flush EXCEPT !.pc = "answered", !.ack = flush.sent \ left,
                                 !.fact = fact]
    BY DEF RemoteTakes
  <2>2. flush \in Flushes
    BY FactsParts DEF TypeOK
  <2>3. flush'.pc = "answered" /\ flush'.moved = flush.moved /\ flush'.fact = fact
    BY <2>1, <2>2 DEF Flushes
  <2>. QED  BY <2>1, <2>3, FactsParts DEF RemoteTakes
<1>5. FlushWaits'
  BY <1>2, FactsParts, SameQueued, FlushWaitsStays DEF RemoteTakes, Settling, writeVars
<1>6. FactsKnown'
  <2>1. FactsFrame
    BY <1>2, FactsParts, UnchangedWrites, HeldStays
       DEF RemoteTakes, FactsFrame, storeVars, writeVars, laneVars, storageVars
  <2>. QED  BY <1>1, <2>1, FactsParts, FactsFrameKeeps
<1>7. LaneOwned' /\ LaneInOrder'
  <2>1. FlushCalm /\ PullCalm
    BY <1>2 DEF RemoteTakes, FlushCalm, PullCalm
  <2>. QED
    BY <2>1, FactsParts, LaneFrameKeeps DEF RemoteTakes, storeVars, laneVars
<1>. QED  BY <1>5, <1>6, <1>7 DEF FactsInvariant

LEMMA ReceivePushOrders ==
  ASSUME FactsInvariant, OutboxInvariant', UNCHANGED setup, ReceivePush
  PROVE  FactsInvariant'
<1>1. TypeOK' /\ Attended'
  BY DEF OutboxInvariant
<1>2. /\ flush.pc = "answered" /\ flush'.pc = "applying" /\ flush'.fact = 0
      /\ pull'.pc = pull.pc /\ pull'.fact = pull.fact /\ pull'.moved = (pull.pc # "idle")
  <2>1. flush \in Flushes /\ pull \in Pulls
    BY FactsParts DEF TypeOK
  <2>2. /\ flush.pc = "answered"
        /\ pull' = [pull EXCEPT !.moved = (pull.pc # "idle")]
        /\ flush' = [flush EXCEPT !.pc = "applying", !.ack = {}, !.fact = 0,
                       !.moved = FALSE, !.declined = @ \/ flush.ack # flush.sent]
    BY DEF ReceivePush
  <2>. QED  BY <2>1, <2>2 DEF Flushes, Pulls
<1>3. PICK result \in Results :
        /\ lane' = Append(lane, result)
        /\ result.who = "push" /\ result.fact \in {0, flush.fact}
        /\ flush.moved => result.fact = 0
        /\ result.fact \in Nat /\ result.fact <= server
  <2>. DEFINE result == [who |-> "push", ack |-> flush.ack,
                         fact |-> IF flush.moved THEN 0 ELSE flush.fact]
  <2>1. result \in Results
    BY FactsParts, Bounds DEF Results, TypeOK, Flushes
  <2>2. lane' = Append(lane, result)
    BY DEF ReceivePush
  <2>3. result.who = "push" /\ result.fact \in {0, flush.fact}
        /\ (flush.moved => result.fact = 0)
    OBVIOUS
  <2>. HIDE DEF result
  <2>4. result.fact \in Nat /\ result.fact <= server
    BY <2>3, FactsParts
  <2>. QED  BY <2>1, <2>2, <2>3, <2>4
<1>4. base' = base /\ busy' = busy /\ server' = server /\ events' = events /\ life' = life
      /\ writeQueue' = writeQueue /\ due' = due /\ main' = main
  BY DEF ReceivePush, storeVars, remoteVars, writeVars, storageVars
<1>5. FlushWaits'
  BY <1>2, <1>4, FactsParts, SameQueued, FlushWaitsStays DEF Settling
<1>6. FactsKnown'
  <2>1. /\ Len(lane) \in Nat /\ DOMAIN lane = 1 .. Len(lane)
        /\ DOMAIN lane' = 1 .. Len(lane) + 1
        /\ \A i \in 1 .. Len(lane) : lane'[i] = lane[i]
        /\ lane'[Len(lane) + 1] = result
    BY <1>3, FactsParts, LaneAppended
  <2>2. ASSUME NEW i \in DOMAIN lane' PROVE lane'[i].fact \in Held \cup {result.fact}
    <3>1. CASE i = Len(lane) + 1
      <4>1. lane'[i] = result
        BY <2>1, <3>1
      <4>. QED  BY <4>1
    <3>2. CASE i \in DOMAIN lane
      <4>1. lane'[i] = lane[i]
        BY <2>1, <3>2
      <4>. QED  BY <3>2, <4>1 DEF Held
    <3>. QED  BY <2>1, <3>1, <3>2
  <2>3. ASSUME NEW fact \in Held' PROVE fact \in Held \cup {result.fact}
    <3>1. base' \in Held /\ main'.base \in Held
          /\ \A i \in DOMAIN writeQueue' : writeQueue'[i].content.base \in Held
      BY <1>4 DEF Held
    <3>. QED  BY <2>2, <3>1 DEF Held
  <2>4. ASSUME NEW fact \in Held PROVE Known(fact)'
    BY <1>4, FactsParts DEF FactsKnown, Known
  <2>5. Known(result.fact)'
    BY <1>3, <1>4 DEF Known
  <2>6. flush'.fact <= server' /\ pull'.fact <= server' /\ events' <= server'
    BY <1>2, <1>4, FactsParts
  <2>7. \A fact \in Held' : Known(fact)'
    BY <2>3, <2>4, <2>5
  <2>. QED  BY <2>6, <2>7 DEF FactsKnown
<1>7. LaneOwned' /\ LaneInOrder'
  <2>1. \A i \in Coming : ~(lane[i].who = "pull" /\ pull'.moved) => lane[i].who # "pull"
    <3>1. \A i \in DOMAIN lane : lane[i].who = "pull" => pull.pc = "applying"
      BY FactsParts DEF LaneOwned
    <3>. QED  BY <1>2, <3>1 DEF Coming
  <2>2. result.fact # 0 =>
          /\ base <= result.fact
          /\ \A i \in Coming : lane[i].who # "pull" => lane[i].fact <= result.fact
    BY <1>2, <1>3, FactsParts DEF LaneInOrder
  <2>3. ~(pull'.pc = "answered" /\ ~pull'.moved)
    BY <1>2
  <2>4. result.fact # 0 /\ ~(result.who = "pull" /\ pull'.moved) =>
           /\ base <= result.fact
           /\ \A i \in Coming : ~(lane[i].who = "pull" /\ pull'.moved) =>
                lane[i].fact <= result.fact
    BY <2>1, <2>2
  <2>5. pull.pc = "applying" => pull'.pc = "applying" /\ (pull.moved => pull'.moved)
    BY <1>2
  <2>. QED  BY <1>2, <1>3, <1>4, <2>3, <2>4, <2>5, FactsParts, LaneGrows
<1>. QED  BY <1>5, <1>6, <1>7 DEF FactsInvariant

LEMMA ReceivePullOrders ==
  ASSUME FactsInvariant, OutboxInvariant', UNCHANGED setup, ReceivePull
  PROVE  FactsInvariant'
<1>1. TypeOK' /\ Attended'
  BY DEF OutboxInvariant
<1>2. /\ pull.pc = "answered" /\ pull'.pc = "applying" /\ pull'.fact = 0
      /\ pull'.moved = pull.moved /\ flush' = flush
  <2>1. pull \in Pulls
    BY FactsParts DEF TypeOK
  <2>2. /\ pull.pc = "answered" /\ flush' = flush
        /\ pull' = [pull EXCEPT !.pc = "applying", !.fact = 0]
    BY DEF ReceivePull
  <2>. QED  BY <2>1, <2>2 DEF Pulls
<1>3. PICK result \in Results :
        /\ lane' = Append(lane, result)
        /\ result.who = "pull" /\ result.fact = pull.fact
        /\ result.fact \in Nat /\ result.fact <= server
  <2>. DEFINE result == [who |-> "pull", fact |-> pull.fact, ack |-> {}]
  <2>1. result \in Results
    BY FactsParts, Bounds DEF Results, TypeOK, Pulls
  <2>2. lane' = Append(lane, result)
    BY DEF ReceivePull
  <2>3. result.who = "pull" /\ result.fact = pull.fact
    OBVIOUS
  <2>. HIDE DEF result
  <2>4. result.fact \in Nat /\ result.fact <= server
    BY <2>3, FactsParts
  <2>. QED  BY <2>1, <2>2, <2>3, <2>4
<1>4. base' = base /\ busy' = busy /\ server' = server /\ events' = events /\ life' = life
      /\ writeQueue' = writeQueue /\ due' = due /\ main' = main
  BY DEF ReceivePull, storeVars, remoteVars, writeVars, storageVars
<1>5. FlushWaits'
  BY <1>2, <1>4, FactsParts, SameQueued, FlushWaitsStays DEF Settling
<1>6. FactsKnown'
  <2>1. /\ Len(lane) \in Nat /\ DOMAIN lane = 1 .. Len(lane)
        /\ DOMAIN lane' = 1 .. Len(lane) + 1
        /\ \A i \in 1 .. Len(lane) : lane'[i] = lane[i]
        /\ lane'[Len(lane) + 1] = result
    BY <1>3, FactsParts, LaneAppended
  <2>2. ASSUME NEW i \in DOMAIN lane' PROVE lane'[i].fact \in Held \cup {result.fact}
    <3>1. CASE i = Len(lane) + 1
      <4>1. lane'[i] = result
        BY <2>1, <3>1
      <4>. QED  BY <4>1
    <3>2. CASE i \in DOMAIN lane
      <4>1. lane'[i] = lane[i]
        BY <2>1, <3>2
      <4>. QED  BY <3>2, <4>1 DEF Held
    <3>. QED  BY <2>1, <3>1, <3>2
  <2>3. ASSUME NEW fact \in Held' PROVE fact \in Held \cup {result.fact}
    <3>1. base' \in Held /\ main'.base \in Held
          /\ \A i \in DOMAIN writeQueue' : writeQueue'[i].content.base \in Held
      BY <1>4 DEF Held
    <3>. QED  BY <2>2, <3>1 DEF Held
  <2>4. ASSUME NEW fact \in Held PROVE Known(fact)'
    BY <1>4, FactsParts DEF FactsKnown, Known
  <2>5. Known(result.fact)'
    BY <1>3, <1>4 DEF Known
  <2>6. flush'.fact <= server' /\ pull'.fact <= server' /\ events' <= server'
    BY <1>2, <1>4, FactsParts
  <2>7. \A fact \in Held' : Known(fact)'
    BY <2>3, <2>4, <2>5
  <2>. QED  BY <2>6, <2>7 DEF FactsKnown
<1>7. LaneOwned' /\ LaneInOrder'
  <2>1. result.fact # 0 /\ ~(result.who = "pull" /\ pull'.moved) =>
           /\ base <= result.fact
           /\ \A i \in Coming : lane[i].fact <= result.fact
    BY <1>2, <1>3, FactsParts DEF LaneInOrder
  <2>2. ~(pull'.pc = "answered" /\ ~pull'.moved)
    BY <1>2
  <2>3. flush'.pc = "answered" /\ ~flush'.moved /\ flush'.fact # 0 =>
          /\ flush.pc = "answered" /\ ~flush.moved /\ flush'.fact = flush.fact
          /\ result.who = "pull"
    BY <1>2, <1>3
  <2>. QED  BY <1>2, <1>3, <1>4, <2>1, <2>2, <2>3, FactsParts, LaneGrows
<1>. QED  BY <1>5, <1>6, <1>7 DEF FactsInvariant

LEMMA EventOrders ==
  ASSUME FactsInvariant, OutboxInvariant', UNCHANGED setup, Event
  PROVE  FactsInvariant'
<1>1. TypeOK' /\ Attended'
  BY DEF OutboxInvariant
<1>2. /\ flush'.pc = flush.pc /\ flush'.fact = flush.fact
      /\ flush'.pc = "answered" => flush'.moved
      /\ pull'.pc = pull.pc /\ pull'.fact = pull.fact /\ pull'.moved = (pull.pc # "idle")
  <2>1. flush \in Flushes /\ pull \in Pulls
    BY FactsParts DEF TypeOK
  <2>2. /\ pull' = [pull EXCEPT !.moved = (pull.pc # "idle")]
        /\ flush' = [flush EXCEPT !.moved = (flush.pc \in {"pushing", "answered"})]
    BY DEF Event, InFlight
  <2>. QED  BY <2>1, <2>2 DEF Flushes, Pulls
<1>4. base' = base /\ busy' = busy /\ server' = server /\ events' = events + 1
      /\ life' = life /\ life = "ready" /\ Realtime /\ events < server
      /\ writeQueue' = writeQueue /\ due' = due /\ main' = main
  BY DEF Event, storeVars, remoteVars, writeVars, storageVars
<1>3. PICK result \in Results :
        /\ lane' = Append(lane, result)
        /\ result.who = "event" /\ result.fact = events'
        /\ result.fact \in Nat /\ result.fact <= server
  <2>. DEFINE result == [who |-> "event", fact |-> events', ack |-> {}]
  <2>1. events' \in Facts
    BY <1>1, SameTypes DEF TypeOK
  <2>2. result \in Results
    BY <2>1 DEF Results
  <2>3. lane' = Append(lane, result)
    BY DEF Event
  <2>4. result.who = "event" /\ result.fact = events'
    OBVIOUS
  <2>. HIDE DEF result
  <2>5. result.fact \in Nat /\ result.fact <= server
    BY <1>4, <2>4, FactsParts
  <2>. QED  BY <2>2, <2>3, <2>4, <2>5
<1>5. FlushWaits'
  BY <1>2, <1>4, FactsParts, SameQueued, FlushWaitsStays DEF Settling
<1>6. FactsKnown'
  <2>1. /\ Len(lane) \in Nat /\ DOMAIN lane = 1 .. Len(lane)
        /\ DOMAIN lane' = 1 .. Len(lane) + 1
        /\ \A i \in 1 .. Len(lane) : lane'[i] = lane[i]
        /\ lane'[Len(lane) + 1] = result
    BY <1>3, FactsParts, LaneAppended
  <2>2. ASSUME NEW i \in DOMAIN lane' PROVE lane'[i].fact \in Held \cup {result.fact}
    <3>1. CASE i = Len(lane) + 1
      <4>1. lane'[i] = result
        BY <2>1, <3>1
      <4>. QED  BY <4>1
    <3>2. CASE i \in DOMAIN lane
      <4>1. lane'[i] = lane[i]
        BY <2>1, <3>2
      <4>. QED  BY <3>2, <4>1 DEF Held
    <3>. QED  BY <2>1, <3>1, <3>2
  <2>3. ASSUME NEW fact \in Held' PROVE fact \in Held \cup {result.fact}
    <3>1. base' \in Held /\ main'.base \in Held
          /\ \A i \in DOMAIN writeQueue' : writeQueue'[i].content.base \in Held
      BY <1>4 DEF Held
    <3>. QED  BY <2>2, <3>1 DEF Held
  <2>4. ASSUME NEW fact \in Held PROVE Known(fact)'
    BY <1>4, FactsParts DEF FactsKnown, Known
  <2>5. Known(result.fact)'
    BY <1>3, <1>4 DEF Known
  <2>6. flush'.fact <= server' /\ pull'.fact <= server' /\ events' <= server'
    BY <1>2, <1>4, FactsParts
  <2>7. \A fact \in Held' : Known(fact)'
    BY <2>3, <2>4, <2>5
  <2>. QED  BY <2>6, <2>7 DEF FactsKnown
<1>7. LaneOwned' /\ LaneInOrder'
  <2>1. ~(pull'.pc = "answered" /\ ~pull'.moved)
    BY <1>2
  <2>. QED  BY <1>2, <1>3, <1>4, <2>1, FactsParts, LaneGrows
<1>. QED  BY <1>5, <1>6, <1>7 DEF FactsInvariant

LEMMA DiscardOrders ==
  ASSUME FactsInvariant, OutboxInvariant', UNCHANGED setup, Discard
  PROVE  FactsInvariant'
<1>1. TypeOK' /\ Attended'
  BY DEF OutboxInvariant
<1>2. /\ base' = base /\ main' = main /\ lane # <<>> /\ lane' = Tail(lane)
      /\ busy' = "no" /\ life' = life /\ life = "ready" /\ Head(lane).who = "pull"
  BY FactsParts
     DEF Discard, LaneReady, Outdated, Attended, storeVars, storageVars
<1>3. pull'.fact = 0 /\ pull'.pc # "answered"
  <2>1. pull' = Asking(pull.attempt + 1, pull.resume) \/ pull' = NoPull
    BY DEF Discard
  <2>2. /\ \A attempt, resume : /\ Asking(attempt, resume).fact = 0
                                /\ Asking(attempt, resume).pc = "asking"
        /\ NoPull.fact = 0 /\ NoPull.pc = "idle"
    BY DEF Asking, NoPull
  <2>. QED  BY <2>1, <2>2
<1>4. /\ FlushWaits' /\ SameWrites /\ FlushCalm /\ flush'.fact <= server
      /\ flush'.pc = "answered" => flush' = flush
  <2>1. Flush(writeQueue, due) \/ UNCHANGED <<flush, writeQueue, due>>
    BY DEF Discard
  <2>2. CASE Flush(writeQueue, due)
    BY <1>2, <2>2, FactsParts, FlushInOrder
  <2>3. CASE UNCHANGED <<flush, writeQueue, due>>
    <3>1. FlushCalm
      BY <2>3 DEF FlushCalm
    <3>. QED  BY <1>2, <2>3, <3>1, FactsParts, FewerWaits, UnchangedWrites
  <2>. QED  BY <2>1, <2>2, <2>3
<1>5. FlushWaits'
  BY <1>4
<1>6. FactsKnown'
  <2>1. FactsFrame
    BY <1>2, <1>3, <1>4, FactsParts, HeadShifts DEF FactsFrame, Discard, remoteVars
  <2>. QED  BY <1>1, <2>1, FactsParts, FactsFrameKeeps
<1>7. LaneOwned' /\ LaneInOrder'
  BY <1>2, <1>3, <1>4, FactsParts, LaneShifts
<1>. QED  BY <1>5, <1>6, <1>7 DEF FactsInvariant

LEMMA RefuseOrders ==
  ASSUME FactsInvariant, OutboxInvariant', UNCHANGED setup, Refuse
  PROVE  FactsInvariant'
<1>1. TypeOK' /\ Attended'
  BY DEF OutboxInvariant
<1>2. /\ base' = base /\ main' = main /\ lane # <<>> /\ lane' = Tail(lane)
      /\ busy' = "no" /\ life' = life /\ life = "ready" /\ Head(lane) \in Results
      /\ Head(lane).who = "push" => flush.pc = "applying"
      /\ Head(lane).who = "pull" => pull.pc = "applying"
  <2>1. /\ base' = base /\ main' = main /\ lane # <<>> /\ lane' = Tail(lane)
        /\ busy' = "no" /\ life' = life /\ life = "ready"
    BY FactsParts DEF Refuse, LaneReady, Attended, storeVars, storageVars
  <2>. QED  BY <2>1, FactsParts, LaneShape DEF LaneOwned
<1>3. CASE Head(lane).who = "pull"
  <2>1. /\ pull' = NoPull /\ flush' = [flush EXCEPT !.moved = InFlight]
        /\ writeQueue' = writeQueue /\ due' = due
    BY <1>3 DEF Refuse, PullMoves
  <2>2. /\ pull'.fact = 0 /\ pull'.pc = "idle"
        /\ flush'.pc = flush.pc /\ flush'.fact = flush.fact
        /\ flush'.pc = "answered" => flush'.moved
    BY <2>1, FactsParts DEF NoPull, InFlight, TypeOK, Flushes
  <2>3. FlushCalm
    BY <2>2 DEF FlushCalm
  <2>4. FlushWaits' /\ SameWrites
    BY <1>2, <2>1, <2>2, FactsParts, FewerWaits, UnchangedWrites
  <2>5. FactsKnown'
    <3>1. FactsFrame
      BY <1>2, <2>2, <2>4, FactsParts, HeadShifts DEF FactsFrame, Refuse, remoteVars
    <3>. QED  BY <1>1, <3>1, FactsParts, FactsFrameKeeps
  <2>6. LaneOwned' /\ LaneInOrder'
    BY <1>2, <1>3, <2>2, <2>3, FactsParts, LaneShifts
  <2>. QED  BY <2>4, <2>5, <2>6 DEF FactsInvariant
<1>4. CASE Head(lane).who # "pull"
  <2>1. Resume(Head(lane), FALSE, writeQueue, due)
    BY <1>4 DEF Refuse
  <2>2. /\ FlushWaits' /\ SameWrites
        /\ flush'.fact <= server /\ pull'.fact <= server
        /\ Head(lane).who # "push" => FlushCalm
        /\ Head(lane).who = "push" => flush'.pc # "answered"
        /\ PullCalm
    BY <1>2, <1>4, <2>1, FactsParts, ResumeInOrder
  <2>3. FactsKnown'
    <3>1. FactsFrame
      BY <1>2, <2>2, FactsParts, HeadShifts DEF FactsFrame, Refuse, remoteVars
    <3>. QED  BY <1>1, <3>1, FactsParts, FactsFrameKeeps
  <2>4. LaneOwned' /\ LaneInOrder'
    BY <1>2, <1>4, <2>2, FactsParts, LaneShifts
  <2>. QED  BY <2>2, <2>3, <2>4 DEF FactsInvariant
<1>. QED  BY <1>3, <1>4

LEMMA AppliedOrders ==
  ASSUME FactsInvariant, OutboxInvariant', UNCHANGED setup, NEW r, Applied(r)
  PROVE  FactsInvariant'
<1>1. TypeOK' /\ Attended'
  BY DEF OutboxInvariant
<1>2. lane # <<>> /\ life = "ready"
  BY FactsParts DEF Applied, LaneWaits, Settling
<1>3. /\ base' = base /\ main' = main /\ lane' = Tail(lane)
      /\ busy' = "no" /\ life' = life /\ Head(lane) \in Results
      /\ Head(lane).who = "push" => flush.pc = "applying"
      /\ Head(lane).who = "pull" => pull.pc = "applying"
  <2>1. /\ base' = base /\ main' = main /\ lane' = Tail(lane)
        /\ busy' = "no" /\ life' = life
    BY DEF Applied, storeVars, storageVars
  <2>. QED  BY <1>2, <2>1, FactsParts, LaneShape DEF LaneOwned
<1>4. /\ FlushWaits' /\ SameWrites
      /\ flush'.fact <= server /\ pull'.fact <= server
      /\ Head(lane).who # "push" => FlushCalm
      /\ Head(lane).who = "push" => flush'.pc # "answered"
      /\ Head(lane).who # "pull" => PullCalm
      /\ Head(lane).who = "pull" =>
           /\ pull'.pc # "answered"
           /\ flush'.pc = "answered" => flush' = flush
  <2>1. Resume(Head(lane), r.ok /\ busy = "writing", writeQueue, due \ {r})
    BY DEF Applied
  <2>2. (r.ok /\ busy = "writing") \in BOOLEAN
    BY FactsParts DEF Applied, TypeOK
  <2>. HIDE DEF Resume
  <2>. QED  BY <1>2, <1>3, <2>1, <2>2, FactsParts, ResumeInOrder
<1>5. FlushWaits'
  BY <1>4
<1>6. FactsKnown'
  <2>1. FactsFrame
    BY <1>2, <1>3, <1>4, FactsParts, HeadShifts DEF FactsFrame, Applied, remoteVars
  <2>. QED  BY <1>1, <2>1, FactsParts, FactsFrameKeeps
<1>7. LaneOwned' /\ LaneInOrder'
  BY <1>2, <1>3, <1>4, FactsParts, LaneShifts
<1>. QED  BY <1>5, <1>6, <1>7 DEF FactsInvariant

\* The result that is applied is the first of those to come.
LEMMA ApplyAdvances ==
  ASSUME FactsInvariant, Apply
  PROVE  /\ 1 \in DOMAIN lane /\ busy = "no" /\ busy' # "no"
         /\ Head(lane) = lane[1]
         /\ \/ base' = base
            \/ base' = lane[1].fact /\ 1 \in Coming
         /\ lane[1].who # "event" => base <= base'
<1>1. lane # <<>> /\ busy = "no" /\ busy' # "no"
  BY DEF Apply, LaneReady
<1>2. 1 \in DOMAIN lane /\ Head(lane) = lane[1]
  BY <1>1, FactsParts, LaneShape
<1>3. base' = base \/ (base' = lane[1].fact /\ lane[1].fact # 0)
  BY <1>2 DEF Apply, Rebase
<1>4. ~Outdated(lane[1])
  BY <1>2 DEF Apply
<1>5. base' = base \/ (base' = lane[1].fact /\ 1 \in Coming)
  BY <1>1, <1>2, <1>3, <1>4 DEF Coming
<1>6. base \in Nat
  BY FactsParts, KnownFacts
<1>7. lane[1].who # "event" => base <= base'
  BY <1>5, <1>6, FactsParts DEF LaneInOrder
<1>. QED  BY <1>1, <1>2, <1>5, <1>7

LEMMA ApplyOrders ==
  ASSUME FactsInvariant, OutboxInvariant', UNCHANGED setup, Apply
  PROVE  FactsInvariant'
<1>1. TypeOK' /\ Attended'
  BY DEF OutboxInvariant
<1>2. /\ 1 \in DOMAIN lane /\ busy = "no" /\ busy' # "no"
      /\ Head(lane) = lane[1]
      /\ \/ base' = base
         \/ base' = lane[1].fact /\ 1 \in Coming
  BY ApplyAdvances
<1>3. /\ lane' = lane /\ pull' = pull /\ main' = main /\ life' = life /\ due' = due
      /\ server' = server /\ events' = events
      /\ writeQueue' = Append(writeQueue, Write("main", State, "lane"))
  BY DEF Apply, storageVars, remoteVars, Persisted
<1>4. /\ flush'.pc = flush.pc /\ flush'.fact = flush.fact
      /\ flush'.pc = "answered" /\ ~flush'.moved =>
           ~flush.moved /\ lane[1].who # "pull"
  <2>1. \/ flush' = flush /\ lane[1].who # "pull"
        \/ flush' = [flush EXCEPT !.moved = (flush.pc \in {"pushing", "answered"})]
    BY <1>2 DEF Apply, PullMoves, InFlight
  <2>. QED  BY <2>1, FactsParts DEF TypeOK, Flushes
<1>8. /\ Len(writeQueue) \in Nat /\ DOMAIN writeQueue = 1 .. Len(writeQueue)
      /\ DOMAIN writeQueue' = 1 .. Len(writeQueue) + 1
      /\ \A i \in DOMAIN writeQueue : writeQueue'[i] = writeQueue[i]
      /\ writeQueue'[Len(writeQueue) + 1].content = State
      /\ Queued("flush")' = Queued("flush")
  <2>1. State \in Checkpoints /\ "lane" \in Waiters /\ "lane" # "flush"
    BY FactsParts, StateType DEF Waiters
  <2>. QED  BY <1>3, <2>1, FactsParts, NewWrite
<1>9. Held' \subseteq Held
  <2>1. State.base \in Held /\ main'.base \in Held
        /\ \A i \in DOMAIN lane' : lane'[i].fact \in Held
    BY <1>3 DEF State, Held
  <2>2. base' \in Held
    BY <1>2 DEF Held
  <2>3. \A i \in DOMAIN writeQueue' : i \in DOMAIN writeQueue \/ i = Len(writeQueue) + 1
    BY <1>8
  <2>4. \A i \in DOMAIN writeQueue' : writeQueue'[i].content.base \in Held
    BY <1>8, <2>1, <2>3 DEF Held
  <2>5. \A fact \in Held' : fact \in Held
    BY <2>1, <2>2, <2>4 DEF Held
  <2>. QED  BY <2>5
<1>5. FlushWaits'
  <2>1. Settling("flush")' = Settling("flush")
    BY <1>3 DEF Settling
  <2>. QED  BY <1>3, <1>4, <1>8, <2>1, FactsParts, FlushWaitsStays
<1>6. FactsKnown'
  <2>1. FactsFrame
    BY <1>3, <1>4, <1>9, FactsParts DEF FactsFrame
  <2>. QED  BY <1>1, <2>1, FactsParts, FactsFrameKeeps
<1>7. LaneOwned' /\ LaneInOrder'
  <2>1. LaneOwned'
    BY <1>3, <1>4, FactsParts DEF LaneOwned
  <2>2. \A i \in Coming' : i \in Coming /\ 1 < i
    BY <1>2, <1>3 DEF Coming, Outdated
  <2>3. \A i \in Coming' : lane[i].who # "event" => base' <= lane[i].fact
    BY <1>2, <2>2, FactsParts DEF LaneInOrder
  <2>4. flush'.pc = "answered" /\ ~flush'.moved /\ flush'.fact # 0 =>
          /\ base' <= flush'.fact
          /\ \A i \in Coming' : lane'[i].who # "pull" => lane'[i].fact <= flush'.fact
    BY <1>2, <1>3, <1>4, <2>2, FactsParts DEF LaneInOrder
  <2>5. pull'.pc = "answered" /\ ~pull'.moved =>
          /\ base' <= pull'.fact
          /\ \A i \in Coming' : lane'[i].fact <= pull'.fact
    BY <1>2, <1>3, <2>2, FactsParts DEF LaneInOrder
  <2>6. LaneInOrder'
    BY <1>3, <2>2, <2>3, <2>4, <2>5, FactsParts DEF LaneInOrder
  <2>. QED  BY <2>1, <2>6
<1>. QED  BY <1>5, <1>6, <1>7 DEF FactsInvariant

-----------------------------------------------------------------------------
(* Every step.                                                             *)

LEMMA FactsInitially == Init => FactsInvariant
<1>. SUFFICES ASSUME Init PROVE FactsInvariant
  OBVIOUS
<1>1. OutboxInvariant
  BY InvariantInitially
<1>2. /\ writeQueue = <<>> /\ due = {} /\ lane = <<>> /\ server = 0 /\ events = 0
      /\ base = 0 /\ main.base = 0 /\ flush.fact = 0 /\ flush.pc = "idle"
      /\ pull.fact = 0 /\ pull.pc = "idle" /\ life = "down"
  BY DEF Init, NoFlush, NoPull
<1>3. DOMAIN writeQueue = {} /\ DOMAIN lane = {}
  BY <1>2
<1>4. FlushWaits
  BY <1>2, <1>3 DEF FlushWaits, OneWaits, Queued, Settling
<1>5. FactsKnown
  BY <1>2, <1>3 DEF FactsKnown, Known, Held
<1>6. LaneOwned /\ LaneInOrder
  BY <1>2, <1>3 DEF LaneOwned, LaneInOrder, Coming
<1>. QED  BY <1>1, <1>4, <1>5, <1>6 DEF FactsInvariant

LEMMA FactsStutter ==
  ASSUME FactsInvariant, UNCHANGED vars
  PROVE  FactsInvariant'
<1>1. OutboxInvariant'
  BY InvariantStutters DEF FactsInvariant
<1>2. UNCHANGED setup /\ TypeOK'
  BY <1>1 DEF vars, OutboxInvariant
<1>3. /\ base' = base /\ main' = main /\ lane' = lane /\ busy' = busy /\ flush' = flush
      /\ pull' = pull /\ server' = server /\ events' = events /\ life' = life
      /\ writeQueue' = writeQueue /\ due' = due
  BY DEF vars, storeVars, storageVars, laneVars, remoteVars, writeVars
<1>4. FlushCalm /\ PullCalm
  BY <1>3 DEF FlushCalm, PullCalm
<1>5. LaneOwned' /\ LaneInOrder'
  BY <1>3, <1>4, FactsParts, LaneFrameKeeps
<1>6. FlushWaits' /\ SameWrites
  BY <1>3, FactsParts, FewerWaits, UnchangedWrites
<1>7. FactsKnown'
  <2>1. FactsFrame
    BY <1>3, <1>6, FactsParts, HeldStays DEF FactsFrame
  <2>. QED  BY <1>2, <2>1, FactsParts, FactsFrameKeeps
<1>. QED  BY <1>1, <1>5, <1>6, <1>7 DEF FactsInvariant

LEMMA FactsSteps ==
  ASSUME FactsInvariant, [Next]_vars
  PROVE  FactsInvariant'
<1>1. CASE UNCHANGED vars
  BY <1>1, FactsStutter
<1>2. CASE Next
  <2>1. UNCHANGED setup /\ (Progress \/ Failures \/ UserNext)
    BY <1>2 DEF Next
  <2>2. OutboxInvariant'
    BY InvariantSteps DEF FactsInvariant
  <2>3. CASE Progress
    <3>1. CASE \E r \in due : Continuation(r)
      <4>1. PICK r \in due : Continuation(r)
        BY <3>1
      <4>. QED  BY <2>1, <2>2, <4>1, DrainedOrders, CommitWrittenOrders,
                    StartWrittenOrders, ClearWrittenOrders, SendOrders, AppliedOrders,
                    EndedOrders
                DEF Continuation
    <3>2. CASE \E who \in removing : FinishRemoval(who)
      BY <2>1, <2>2, <3>2, FinishRemovalOrders
    <3>. QED  BY <2>1, <2>2, <2>3, <3>1, <3>2, StartWriteOrders, FinishHydrationOrders,
                  DiscardOrders, ApplyOrders, FinishWriteOrders, ReadStateOrders,
                  HydrateOrders, RemoteTakesOrders, ReceivePushOrders,
                  RemoteAnswersPullOrders, ReceivePullOrders, EventOrders,
                  FireTimerOrders, StopOrders
              DEF Progress
  <2>4. CASE Failures
    <3>1. CASE \E who \in removing : FailRemoval(who)
      BY <2>1, <2>2, <3>1, FailRemovalOrders
    <3>2. CASE FailRead \/ RefuseStored
      BY <2>1, <2>2, <3>2, FailedHydrationOrders DEF FailRead, RefuseStored
    <3>3. CASE FailPush \/ RefuseAnswer
      <4>1. GiveUpFlush /\ flush.pc \in {"pushing", "answered"}
        BY <3>3 DEF FailPush, RefuseAnswer
      <4>. QED  BY <2>1, <2>2, <4>1, GiveUpFlushOrders
    <3>. QED  BY <2>1, <2>2, <2>4, <3>1, <3>2, <3>3, FailWriteOrders, FailPullOrders,
                  RefuseOrders, CrashOrders
              DEF Failures
  <2>5. CASE UserNext
    BY <2>1, <2>2, <2>5, StartOrders, CommitOrders, ClearPendingOrders, UserFlushOrders,
       UserPullOrders, DestroyOrders, RemoteWriteOrders
       DEF UserNext
  <2>. QED  BY <2>1, <2>3, <2>4, <2>5
<1>. QED  BY <1>1, <1>2

\* The step that moves the store to another fact.
LEMMA StepNeverRewinds ==
  ASSUME FactsInvariant, [Next]_vars, life = "ready", life' = "ready", base' < base
  PROVE  lane # <<>> /\ Head(lane).who = "event"
<1>1. base \in Nat
  BY FactsParts, KnownFacts
<1>2. base' # base
  BY <1>1
<1>3. ASSUME Apply PROVE lane # <<>> /\ Head(lane).who = "event"
  <2>1. /\ Head(lane) = lane[1] /\ lane # <<>>
        /\ base' = lane[1].fact
        /\ lane[1].who # "event" => base <= base'
    BY <1>2, <1>3, ApplyAdvances DEF Apply, LaneReady
  <2>2. base' \in Nat
    BY <1>3, <2>1, ApplyAdvances, FactsParts, KnownFacts
  <2>. QED  BY <1>1, <2>1, <2>2
<1>4. Apply \/ base' = base
  <2>1. CASE UNCHANGED vars
    BY <2>1 DEF vars, storeVars
  <2>2. CASE Progress
    <3>1. ASSUME NEW r \in due, Continuation(r) PROVE base' = base
      BY <3>1 DEF Continuation, Drained, CommitWritten, StartWritten, ClearWritten, Send,
                  Applied, Ended, storeVars
    <3>2. ASSUME NEW who \in removing, FinishRemoval(who) PROVE base' = base
      BY <3>2 DEF FinishRemoval, storeVars
    <3>3. ~Hydrate /\ ~Stop
      BY DEF Hydrate, Stop, Gone
    <3>. QED
      BY <2>2, <3>1, <3>2, <3>3
         DEF Progress, StartWrite, FinishHydration, Discard, FinishWrite, ReadState,
             RemoteTakes, ReceivePush, RemoteAnswersPull, ReceivePull, Event, FireTimer,
             storeVars
  <2>3. CASE Failures
    <3>1. ASSUME NEW who \in removing, FailRemoval(who) PROVE base' = base
      BY <3>1 DEF FailRemoval, storeVars
    <3>2. ~Crash
      BY DEF Crash, Gone
    <3>. QED
      BY <2>3, <3>1, <3>2
         DEF Failures, FailWrite, FailRead, RefuseStored, FailedHydration, FailPush,
             RefuseAnswer, GiveUpFlush, FailPull, Refuse, storeVars
  <2>4. CASE UserNext
    BY <2>4 DEF UserNext, Start, Commit, ClearPending, UserFlush, UserPull, Destroy,
                RemoteWrite, storeVars
  <2>. QED  BY <2>1, <2>2, <2>3, <2>4 DEF Next
<1>. QED  BY <1>2, <1>3, <1>4

LEMMA FactsInvariance == Spec => []FactsInvariant
<1>1. FactsInvariant /\ [Next]_vars => FactsInvariant'
  BY FactsSteps
<1>. QED  BY <1>1, FactsInitially, PTL DEF Spec

\* The answer of a push or a pull is never applied over a newer fact, whichever
\* of them and of the events overtake one another, and whichever of them fail
\* (applyRemoteResult, remoteLane, remoteEpoch).  Only an event can take a
\* hydrated store back to an older fact: it is applied as it comes (subscribe).
THEOREM FactsNeverRewind == Spec => AnswersNeverRewind
<1>1. FactsInvariant /\ [Next]_vars =>
        [life = "ready" /\ life' = "ready" /\ base' < base =>
           lane # <<>> /\ Head(lane).who = "event"]_vars
  BY StepNeverRewinds
<1>. QED  BY <1>1, FactsInvariance, PTL DEF Spec, AnswersNeverRewind

-----------------------------------------------------------------------------
(* Sequences in order.                                                     *)

\* What is in s and not in gone is in the order of the numbers.
InOrder(s, gone) ==
  \A i, j \in DOMAIN s : i < j /\ s[i] \notin gone /\ s[j] \notin gone => s[i] < s[j]

LEMMA InOrderFewer ==
  ASSUME NEW s, NEW gone, NEW more, gone \subseteq more, InOrder(s, gone)
  PROVE  InOrder(s, more)
BY DEF InOrder

LEMMA InOrderEmpty == \A gone : InOrder(<<>>, gone)
BY DEF InOrder

LEMMA InOrderAppend ==
  ASSUME NEW S, NEW s \in Seq(S), NEW x \in S, NEW gone, InOrder(s, gone),
         x \notin gone => \A a \in ToSet(s) \ gone : a < x
  PROVE  InOrder(Append(s, x), gone)
<1>1. /\ Append(s, x) \in Seq(S)
      /\ Len(Append(s, x)) = Len(s) + 1
      /\ \A i \in 1 .. Len(s) : Append(s, x)[i] = s[i]
      /\ Append(s, x)[Len(s) + 1] = x
      /\ Len(s) \in Nat /\ DOMAIN s = 1 .. Len(s)
  BY AppendProperties, LenProperties
<1>2. DOMAIN Append(s, x) = 1 .. Len(s) + 1
  BY <1>1, LenProperties
<1>. DEFINE t == Append(s, x)
<1>. HIDE DEF t
<1>3. ASSUME NEW i \in 1 .. Len(s) + 1, NEW j \in 1 .. Len(s) + 1,
             i < j, t[i] \notin gone, t[j] \notin gone
      PROVE  t[i] < t[j]
  <2>1. i \in 1 .. Len(s) /\ t[i] = s[i] /\ s[i] \in ToSet(s)
    BY <1>1, <1>3 DEF t, ToSet
  <2>2. CASE j \in 1 .. Len(s)
    <3>1. t[j] = s[j]
      BY <1>1, <2>2 DEF t
    <3>. QED  BY <1>1, <1>3, <2>1, <2>2, <3>1 DEF InOrder
  <2>3. CASE j = Len(s) + 1
    <3>1. t[j] = x
      BY <1>1, <2>3 DEF t
    <3>. QED  BY <1>3, <2>1, <3>1
  <2>. QED  BY <1>1, <2>2, <2>3
<1>. QED  BY <1>2, <1>3 DEF InOrder, t

LEMMA InOrderConcat ==
  ASSUME NEW S, NEW s \in Seq(S), NEW t \in Seq(S), NEW gone,
         InOrder(s, gone), InOrder(t, gone),
         \A a \in ToSet(s) \ gone, b \in ToSet(t) \ gone : a < b
  PROVE  InOrder(s \o t, gone)
<1>1. /\ s \o t \in Seq(S)
      /\ Len(s \o t) = Len(s) + Len(t)
      /\ \A i \in 1 .. Len(s) + Len(t) :
           (s \o t)[i] = IF i <= Len(s) THEN s[i] ELSE t[i - Len(s)]
  BY ConcatProperties
<1>2. /\ DOMAIN s = 1 .. Len(s) /\ Len(s) \in Nat
      /\ DOMAIN t = 1 .. Len(t) /\ Len(t) \in Nat
      /\ DOMAIN (s \o t) = 1 .. Len(s) + Len(t)
  BY <1>1, LenProperties
<1>. DEFINE u == s \o t
<1>. HIDE DEF u
<1>3. ASSUME NEW i \in DOMAIN u, NEW j \in DOMAIN u,
             i < j, u[i] \notin gone, u[j] \notin gone
      PROVE  u[i] < u[j]
  <2>1. i \in 1 .. Len(s) + Len(t) /\ j \in 1 .. Len(s) + Len(t)
    BY <1>2 DEF u
  <2>2. CASE j <= Len(s)
    <3>1. /\ i \in DOMAIN s /\ j \in DOMAIN s /\ i <= Len(s)
          /\ u[i] = s[i] /\ u[j] = s[j]
      BY <1>1, <1>2, <1>3, <2>1, <2>2 DEF u
    <3>. QED  BY <1>3, <3>1 DEF InOrder
  <2>3. CASE Len(s) < i
    <3>1. /\ i - Len(s) \in DOMAIN t /\ j - Len(s) \in DOMAIN t
          /\ i - Len(s) < j - Len(s)
          /\ u[i] = t[i - Len(s)] /\ u[j] = t[j - Len(s)]
      BY <1>1, <1>2, <1>3, <2>1, <2>3 DEF u
    <3>. QED  BY <1>3, <3>1 DEF InOrder
  <2>4. CASE i <= Len(s) /\ Len(s) < j
    <3>1. /\ i \in DOMAIN s /\ j - Len(s) \in DOMAIN t
          /\ u[i] = s[i] /\ u[j] = t[j - Len(s)]
      BY <1>1, <1>2, <2>1, <2>4 DEF u
    <3>2. s[i] \in ToSet(s) /\ t[j - Len(s)] \in ToSet(t)
      BY <3>1 DEF ToSet
    <3>. QED  BY <1>3, <3>1, <3>2
  <2>. QED  BY <1>2, <2>1, <2>2, <2>3, <2>4
<1>. QED  BY <1>3 DEF InOrder, u

\* What is taken out no longer matters to the order of the rest.
LEMMA InOrderWithout ==
  ASSUME NEW S, NEW s \in Seq(S), NEW out, NEW gone, InOrder(s, gone \cup out)
  PROVE  InOrder(Without(s, out), gone)
<1>. DEFINE kept == CHOOSE f : f = Keeping(f, s, out, Len(s))
            Prefix(n) == {s[i] : i \in 1 .. n}
            T == {n \in 0 .. Len(s) : /\ kept[n] \in Seq(S)
                                      /\ ToSet(kept[n]) \subseteq Prefix(n) \ out
                                      /\ InOrder(kept[n], gone)}
<1>1. Without(s, out) = kept[Len(s)]
  BY DEF Without, Keeping
<1>2. kept = Keeping(kept, s, out, Len(s))
  BY KeptExists
<1>3. Len(s) \in Nat /\ DOMAIN s = 1 .. Len(s) /\ \A i \in 1 .. Len(s) : s[i] \in S
  BY LenProperties, ElementOfSeq
<1>. HIDE DEF kept
<1>4. 0 \in T
  BY <1>2, <1>3, ToSetOfEmpty, InOrderEmpty, EmptySeq DEF Keeping
<1>5. ASSUME NEW n \in 0 .. Len(s) - 1, n \in T PROVE n + 1 \in T
  <2>1. n + 1 \in 0 .. Len(s) /\ n + 1 # 0 /\ n + 1 \in 1 .. Len(s) /\ (n + 1) - 1 = n
        /\ n \in Nat
    BY <1>3
  <2>2. kept[n + 1] = IF s[n + 1] \in out THEN kept[n] ELSE Append(kept[n], s[n + 1])
    BY <1>2, <2>1 DEF Keeping
  <2>3. Prefix(n + 1) = Prefix(n) \cup {s[n + 1]}
    BY <1>3
  <2>4. /\ kept[n] \in Seq(S) /\ ToSet(kept[n]) \subseteq Prefix(n) \ out
        /\ InOrder(kept[n], gone)
    BY <1>5
  <2>5. /\ kept[n + 1] \in Seq(S) /\ ToSet(kept[n + 1]) \subseteq Prefix(n + 1) \ out
        /\ InOrder(kept[n + 1], gone)
    <3>1. CASE s[n + 1] \in out
      BY <2>2, <2>3, <2>4, <3>1
    <3>2. CASE s[n + 1] \notin out
      <4>1. /\ Append(kept[n], s[n + 1]) \in Seq(S)
            /\ ToSet(Append(kept[n], s[n + 1])) = ToSet(kept[n]) \cup {s[n + 1]}
        BY <1>3, <2>1, <2>4, ToSetOfAppend
      <4>2. ASSUME s[n + 1] \notin gone, NEW a \in ToSet(kept[n]) \ gone
            PROVE  a < s[n + 1]
        <5>1. PICK k \in 1 .. n : a = s[k]
          BY <2>4, <4>2
        <5>2. k \in DOMAIN s /\ n + 1 \in DOMAIN s /\ k < n + 1
          BY <1>3, <2>1
        <5>3. s[k] \notin gone \cup out /\ s[n + 1] \notin gone \cup out
          BY <2>4, <3>2, <4>2, <5>1
        <5>. QED  BY <5>1, <5>2, <5>3 DEF InOrder
      <4>3. InOrder(Append(kept[n], s[n + 1]), gone)
        BY <1>3, <2>1, <2>4, <4>2, InOrderAppend
      <4>. QED  BY <2>2, <2>3, <2>4, <3>2, <4>1, <4>3
    <3>. QED  BY <3>1, <3>2
  <2>. QED  BY <2>1, <2>5
<1>a. \A n \in 0 .. Len(s) - 1 : n \in T => n + 1 \in T
  BY <1>5
<1>. HIDE DEF T
<1>6. Len(s) \in T
  <2>1. 0 .. Len(s) \subseteq T
    BY <1>3, <1>4, <1>a, Induction
  <2>. QED  BY <1>3, <2>1
<1>7. InOrder(kept[Len(s)], gone)
  BY <1>6 DEF T
<1>. QED  BY <1>1, <1>7

LEMMA InOrderMerge ==
  ASSUME NEW S, NEW left \in Seq(S), NEW right \in Seq(S), NEW gone,
         InOrder(left, gone), InOrder(right, gone),
         \A a \in ToSet(left) \ gone, b \in ToSet(right) \ (ToSet(left) \cup gone) : a < b
  PROVE  InOrder(Merge(left, right), gone)
<1>1. /\ Without(right, ToSet(left)) \in Seq(S)
      /\ ToSet(Without(right, ToSet(left))) = ToSet(right) \ ToSet(left)
  BY ToSetOfWithout
<1>2. InOrder(Without(right, ToSet(left)), gone)
  <2>1. InOrder(right, gone \cup ToSet(left))
    BY InOrderFewer
  <2>. QED  BY <2>1, InOrderWithout
<1>. QED  BY <1>1, <1>2, InOrderConcat DEF Merge

-----------------------------------------------------------------------------
(* The inductive invariant of the order.                                   *)

Stored == ToSet(main.outbox) \cup ToSet(journal)

\* The outboxes of the writes under way.
Contents == {writeQueue[i].content.outbox : i \in DOMAIN writeQueue}

\* Of those that are still owed, all of A were made before all of B.
Before(A, B) == \A a \in A \ Given, b \in B \ Given : a < b

\* What is stored is older than what is not, and what a write is about to store
\* than what it is not.
OrderInvariant ==
  /\ (Pending \cup Stored) \ Given \subseteq 1 .. made
  /\ Stored \subseteq durable
  /\ InOrder(outbox, Given)
  /\ InOrder(main.outbox, Given)
  /\ InOrder(journal, Given \cup ToSet(main.outbox))
  /\ Before(ToSet(main.outbox), ToSet(journal) \ ToSet(main.outbox))
  /\ Before(Stored, Pending \ Stored)
  /\ \A c \in Contents : InOrder(c, Given) /\ Before(ToSet(c), Pending \ (ToSet(c) \cup Stored))

\* Storage stays, and what is pending is kept in its order or given up.
OrderFrame ==
  /\ Pending' \subseteq Pending
  /\ InOrder(outbox', Given')
  /\ main' = main
  /\ \/ journal' = journal
     \/ journal' = <<>> /\ ToSet(journal) \ Given \subseteq ToSet(main.outbox)
  /\ Contents' \subseteq Contents \cup {outbox}
  /\ Given \subseteq Given'
  /\ UNCHANGED <<made, durable>>

LEMMA OrderFrameKeeps ==
  ASSUME OrderInvariant, OrderFrame
  PROVE  OrderInvariant'
<1>1. /\ Given \subseteq Given' /\ Pending' \subseteq Pending
      /\ main' = main /\ made' = made /\ durable' = durable
  BY DEF OrderFrame
<1>2. /\ Stored' \subseteq Stored
      /\ Stored \ Given \subseteq Stored'
      /\ ToSet(journal') \subseteq ToSet(journal)
  BY ToSetOfEmpty DEF OrderFrame, Stored
<1>3. InOrder(main.outbox, Given') /\ InOrder(journal', Given' \cup ToSet(main.outbox))
  <2>1. InOrder(journal, Given' \cup ToSet(main.outbox))
    <3>1. Given \cup ToSet(main.outbox) \subseteq Given' \cup ToSet(main.outbox)
      BY <1>1
    <3>. QED  BY <3>1, InOrderFewer DEF OrderInvariant
  <2>2. InOrder(main.outbox, Given')
    BY <1>1, InOrderFewer DEF OrderInvariant
  <2>. QED  BY <2>1, <2>2, InOrderEmpty DEF OrderFrame
<1>4. ASSUME NEW c \in Contents'
      PROVE  /\ InOrder(c, Given')
             /\ \A a \in ToSet(c) \ Given', b \in Pending' \ (ToSet(c) \cup Stored' \cup Given') :
                  a < b
  <2>1. CASE c \in Contents
    <3>1. InOrder(c, Given')
      BY <1>1, <2>1, InOrderFewer DEF OrderInvariant
    <3>2. Before(ToSet(c), Pending \ (ToSet(c) \cup Stored))
      BY <2>1 DEF OrderInvariant
    <3>. QED  BY <1>1, <1>2, <3>1, <3>2 DEF Before
  <2>2. CASE c = outbox
    <3>1. InOrder(c, Given')
      BY <1>1, <2>2, InOrderFewer DEF OrderInvariant
    <3>2. Pending' \ ToSet(c) = {}
      BY <1>1, <2>2 DEF Pending
    <3>. QED  BY <3>1, <3>2
  <2>. QED  BY <2>1, <2>2 DEF OrderFrame
<1>5. \A c \in Contents' : /\ InOrder(c, Given')
                           /\ Before(ToSet(c), Pending \ (ToSet(c) \cup Stored))'
  BY <1>4 DEF Before
<1>6. /\ Before(ToSet(main.outbox), ToSet(journal) \ ToSet(main.outbox))'
      /\ Before(Stored, Pending \ Stored)'
  BY <1>1, <1>2 DEF OrderInvariant, Before
<1>7. /\ ((Pending \cup Stored) \ Given \subseteq 1 .. made)'
      /\ (Stored \subseteq durable)'
  BY <1>1, <1>2 DEF OrderInvariant
<1>. QED  BY <1>1, <1>3, <1>5, <1>6, <1>7 DEF OrderInvariant, OrderFrame

LEMMA SameContents ==
  ASSUME SameWrites
  PROVE  Contents' = Contents
BY DEF SameWrites, Contents

\* A step that leaves the outbox and storage alone, but for a journal that goes.
LEMMA OrderStays ==
  ASSUME OutboxInvariant, OrderInvariant, outbox' = outbox, main' = main,
         journal' = journal \/ (removing # {} /\ journal' = <<>>),
         Contents' \subseteq Contents \cup {outbox}, taken \subseteq taken',
         dropped' = dropped, cleared' = cleared, made' = made, durable' = durable
  PROVE  OrderInvariant'
<1>1. Given \subseteq Given' /\ Pending' = Pending
  BY DEF Given, Pending
<1>2. InOrder(outbox', Given')
  BY <1>1, InOrderFewer DEF OrderInvariant
<1>3. removing # {} => ToSet(journal) \ Given \subseteq ToSet(main.outbox)
  <2>1. ToSet(journal) \subseteq durable
    BY DEF OrderInvariant, Stored
  <2>2. removing # {} => Owed \subseteq ToSet(main.outbox)
    BY DEF OutboxInvariant, JournalGoes
  <2>. QED  BY <2>1, <2>2 DEF Owed
<1>4. OrderFrame
  BY <1>1, <1>2, <1>3 DEF OrderFrame
<1>. QED  BY <1>4, OrderFrameKeeps

LEMMA AsideKeepsOrder ==
  ASSUME OutboxInvariant, OrderInvariant, SameWrites,
         UNCHANGED <<outbox, main, made, durable, dropped, cleared>>,
         journal' = journal \/ (removing # {} /\ journal' = <<>>), taken \subseteq taken'
  PROVE  OrderInvariant'
BY SameContents, OrderStays

\* Steps that leave the queue of writes alone.
LEMMA QueueAloneKeepsOrder ==
  ASSUME OutboxInvariant, OrderInvariant, writeQueue' = writeQueue,
         UNCHANGED storageVars, UNCHANGED ghostVars, outbox' = outbox,
         taken \subseteq taken'
  PROVE  OrderInvariant'
<1>1. SameWrites
  BY UnchangedWrites DEF OutboxInvariant
<1>. QED  BY <1>1, AsideKeepsOrder DEF storageVars, ghostVars

LEMMA ContinuationKeepsOrder ==
  ASSUME OutboxInvariant, OrderInvariant, NEW r,
         \/ Drained(r) \/ StartWritten(r) \/ ClearWritten(r) \/ Send(r) \/ Ended(r)
  PROVE  OrderInvariant'
BY QueueAloneKeepsOrder
   DEF Drained, StartWritten, ClearWritten, Send, Ended, storeVars, remoteVars

LEMMA RequestKeepsOrder ==
  ASSUME OutboxInvariant, OrderInvariant,
         \/ RemoteTakes \/ ReceivePush \/ RemoteAnswersPull \/ ReceivePull \/ Event
         \/ UserPull \/ RemoteWrite \/ Start \/ Destroy
  PROVE  OrderInvariant'
BY QueueAloneKeepsOrder
   DEF RemoteTakes, ReceivePush, RemoteAnswersPull, ReceivePull, Event, UserPull,
       RemoteWrite, Start, Destroy, Abandoned, storeVars, writeVars, remoteVars

LEMMA FailureKeepsOrder ==
  ASSUME OutboxInvariant, OrderInvariant,
         \/ FailRead \/ RefuseStored \/ FailPush \/ RefuseAnswer \/ FailPull
         \/ \E who \in removing : FailRemoval(who)
  PROVE  OrderInvariant'
BY QueueAloneKeepsOrder
   DEF FailRead, RefuseStored, FailedHydration, FailPush, RefuseAnswer, GiveUpFlush,
       FailPull, FailRemoval, storeVars, writeVars, remoteVars

\* Steps after which a flush may wait for the last write.
LEMMA FlushKeepsOrder ==
  ASSUME OutboxInvariant, OrderInvariant,
         \/ UserFlush \/ FireTimer \/ Discard
         \/ \E r \in due : CommitWritten(r)
         \/ \E who \in removing : FinishRemoval(who)
  PROVE  OrderInvariant'
<1>1. TypeOK
  BY DEF OutboxInvariant
<1>2. \/ writeQueue' = writeQueue
      \/ \E pending \in SUBSET due : Flush(writeQueue, pending)
  <2>1. due \in SUBSET due /\ \A r : due \ {r} \in SUBSET due
    OBVIOUS
  <2>. QED  BY <2>1 DEF UserFlush, FireTimer, Discard, CommitWritten, FinishRemoval
<1>3. SameWrites
  BY <1>1, <1>2, FlushEffect, UnchangedWrites
<1>4. /\ UNCHANGED <<outbox, main, made, durable, dropped, cleared>>
      /\ journal' = journal \/ (removing # {} /\ journal' = <<>>)
      /\ taken \subseteq taken'
  BY DEF UserFlush, FireTimer, Discard, CommitWritten, FinishRemoval, storeVars,
         storageVars, ghostVars, remoteVars
<1>. QED  BY <1>3, <1>4, AsideKeepsOrder

LEMMA ReadStateKeepsOrder ==
  ASSUME OutboxInvariant, OrderInvariant, ReadState
  PROVE  OrderInvariant'
<1>1. TypeOK
  BY DEF OutboxInvariant
<1>2. SameWrites
  BY <1>1, AwaitedWrite, UnchangedWrites DEF ReadState
<1>. QED  BY <1>2, AsideKeepsOrder DEF ReadState, storeVars, storageVars, ghostVars, remoteVars

LEMMA ResultKeepsOrder ==
  ASSUME OutboxInvariant, OrderInvariant, Refuse \/ \E r : Applied(r)
  PROVE  OrderInvariant'
<1>1. TypeOK /\ LaneWaits
  BY DEF OutboxInvariant
<1>2. /\ UNCHANGED <<outbox, main, made, durable, dropped, cleared>>
      /\ journal' = journal /\ taken \subseteq taken'
  BY DEF Refuse, Applied, storeVars, storageVars, ghostVars, remoteVars
<1>3. SameWrites
  <2>1. CASE Refuse
    <3>1. lane # <<>>
      BY <2>1 DEF Refuse, LaneReady
    <3>2. \/ writeQueue' = writeQueue
          \/ Resume(Head(lane), FALSE, writeQueue, due)
      BY <2>1 DEF Refuse
    <3>3. Head(lane) \in Results /\ FALSE \in BOOLEAN /\ due \in SUBSET due
      BY <1>1, <3>1, LaneShape
    <3>. HIDE DEF Resume
    <3>. QED  BY <1>1, <3>2, <3>3, ResumeEffect, UnchangedWrites
  <2>2. CASE \E r : Applied(r)
    <3>1. PICK r : Applied(r)
      BY <2>2
    <3>2. lane # <<>> /\ Resume(Head(lane), r.ok /\ busy = "writing", writeQueue, due \ {r})
      BY <1>1, <3>1 DEF Applied, LaneWaits, Settling
    <3>3. Head(lane) \in Results /\ (r.ok /\ busy = "writing") \in BOOLEAN
          /\ due \ {r} \in SUBSET due
      <4>1. r.ok \in BOOLEAN
        BY <1>1, <3>1 DEF Applied, TypeOK
      <4>. QED  BY <1>1, <3>2, <4>1, LaneShape
    <3>. HIDE DEF Resume
    <3>. QED  BY <1>1, <3>2, <3>3, ResumeEffect
  <2>. QED  BY <2>1, <2>2
<1>. QED  BY <1>2, <1>3, AsideKeepsOrder

\* A checkpoint joins the queue of writes.
LEMMA PersistedContents ==
  ASSUME TypeOK, NEW who \in Waiters, writeQueue' = Persisted(who)
  PROVE  Contents' \subseteq Contents \cup {outbox}
<1>1. State \in Checkpoints /\ State.outbox = outbox
  BY StateType DEF State
<1>2. /\ DOMAIN writeQueue' = 1 .. Len(writeQueue) + 1
      /\ Len(writeQueue) \in Nat /\ DOMAIN writeQueue = 1 .. Len(writeQueue)
      /\ \A i \in DOMAIN writeQueue : writeQueue'[i] = writeQueue[i]
      /\ writeQueue'[Len(writeQueue) + 1].content = State
  BY <1>1, NewWrite DEF Persisted
<1>3. \A i \in DOMAIN writeQueue' : i \in DOMAIN writeQueue \/ i = Len(writeQueue) + 1
  BY <1>2
<1>4. ASSUME NEW i \in DOMAIN writeQueue'
      PROVE  writeQueue'[i].content.outbox \in Contents \cup {outbox}
  BY <1>1, <1>2, <1>3 DEF Contents
<1>. QED  BY <1>4 DEF Contents

LEMMA FinishHydrationKeepsOrder ==
  ASSUME OutboxInvariant, OrderInvariant, FinishHydration
  PROVE  OrderInvariant'
<1>1. Contents' \subseteq Contents \cup {outbox}
  <2>1. "start" \in Waiters /\ TypeOK
    BY DEF Waiters, OutboxInvariant
  <2>. QED  BY <2>1, PersistedContents DEF FinishHydration
<1>. QED  BY <1>1, OrderStays
          DEF FinishHydration, storeVars, storageVars, ghostVars, remoteVars

LEMMA StartWriteKeepsOrder ==
  ASSUME OutboxInvariant, OrderInvariant, StartWrite
  PROVE  OrderInvariant'
<1>. DEFINE first == Head(writeQueue)
            content == IF first.key = "main" THEN State ELSE first.content
            w == [first EXCEPT !.started = TRUE, !.content = content]
<1>1. TypeOK
  BY DEF OutboxInvariant
<1>2. /\ Len(writeQueue) \in Nat /\ Len(writeQueue) > 0
      /\ DOMAIN writeQueue = 1 .. Len(writeQueue)
      /\ first = writeQueue[1] /\ first \in Writes
  BY <1>1, QueueShape DEF StartWrite
<1>3. w.content = content /\ writeQueue' = [writeQueue EXCEPT ![1] = w]
  BY <1>2 DEF StartWrite, Writes
<1>4. content.outbox = outbox \/ content.outbox \in Contents
  <2>1. State.outbox = outbox /\ 1 \in DOMAIN writeQueue
    BY <1>2 DEF State
  <2>. QED  BY <1>2, <2>1 DEF Contents
<1>. HIDE DEF w, first, content
<1>5. /\ DOMAIN writeQueue' = DOMAIN writeQueue
      /\ \A i \in DOMAIN writeQueue : writeQueue'[i] = IF i = 1 THEN w ELSE writeQueue[i]
  BY <1>2, <1>3
<1>6. ASSUME NEW i \in DOMAIN writeQueue
      PROVE  writeQueue'[i].content.outbox \in Contents \cup {outbox}
  BY <1>3, <1>4, <1>5 DEF Contents
<1>7. Contents' \subseteq Contents \cup {outbox}
  BY <1>5, <1>6 DEF Contents
<1>. QED  BY <1>7, OrderStays
          DEF StartWrite, storeVars, storageVars, ghostVars, remoteVars

LEMMA FewerContents ==
  ASSUME TypeOK, writeQueue # <<>>, writeQueue' = Tail(writeQueue)
  PROVE  Contents' \subseteq Contents
BY FirstRemoved DEF Contents

LEMMA FailWriteKeepsOrder ==
  ASSUME OutboxInvariant, OrderInvariant, FailWrite
  PROVE  OrderInvariant'
<1>1. Contents' \subseteq Contents \cup {outbox}
  BY FewerContents DEF FailWrite, Settled, OutboxInvariant
<1>. QED  BY <1>1, OrderStays DEF FailWrite, storeVars, storageVars, ghostVars, remoteVars

LEMMA ClearPendingKeepsOrder ==
  ASSUME OutboxInvariant, OrderInvariant, ClearPending
  PROVE  OrderInvariant'
<1>1. Contents' \subseteq Contents \cup {outbox}
  <2>1. "clear" \in Waiters /\ TypeOK
    BY DEF Waiters, OutboxInvariant
  <2>. QED  BY <2>1, PersistedContents DEF ClearPending
<1>2. OrderFrame
  BY <1>1, ToSetOfEmpty, InOrderEmpty
     DEF OrderFrame, ClearPending, Pending, Given, storageVars, remoteVars
<1>. QED  BY <1>2, OrderFrameKeeps

LEMMA GoneKeepsOrder ==
  ASSUME OrderInvariant, Gone, UNCHANGED storageVars, UNCHANGED ghostVars,
         taken \subseteq taken'
  PROVE  OrderInvariant'
<1>1. Pending' = {} /\ outbox' = <<>> /\ Contents' = {}
  BY ToSetOfEmpty DEF Gone, Pending, Contents
<1>2. OrderFrame
  BY <1>1, InOrderEmpty DEF OrderFrame, Given, storageVars, ghostVars
<1>. QED  BY <1>2, OrderFrameKeeps

LEMMA ApplyKeepsOrder ==
  ASSUME OutboxInvariant, OrderInvariant, Apply
  PROVE  OrderInvariant'
<1>. DEFINE ack == Head(lane).ack
            rest == Without(outbox, ack)
<1>1. TypeOK /\ AcksAreTaken
  BY DEF OutboxInvariant
<1>2. ack \subseteq taken
  BY <1>1, LaneShape DEF Apply, LaneReady, AcksAreTaken
<1>3. /\ outbox \in Seq(Mutations)
      /\ rest \in Seq(Mutations) /\ ToSet(rest) = Pending \ ack
  BY <1>1, ToSetOfWithout DEF TypeOK, Pending
<1>4. InOrder(rest, Given)
  <2>1. Given \cup ack = Given
    BY <1>2 DEF Given
  <2>. HIDE DEF ack
  <2>. QED  BY <1>3, <2>1, InOrderWithout DEF OrderInvariant
<1>5. \/ outbox' = rest /\ dropped' = dropped
      \/ \E gone : outbox' = Without(rest, gone) /\ dropped' = dropped \cup gone
  BY DEF Apply, Rebase
<1>6. /\ taken' = taken /\ cleared' = cleared /\ UNCHANGED storageVars
      /\ made' = made /\ durable' = durable
  BY DEF Apply, remoteVars
<1>. HIDE DEF rest
<1>7. InOrder(outbox', Given') /\ Pending' \subseteq Pending /\ Given \subseteq Given'
  <2>1. CASE outbox' = rest /\ dropped' = dropped
    BY <1>3, <1>4, <1>6, <2>1 DEF Given, Pending
  <2>2. CASE \E gone : outbox' = Without(rest, gone) /\ dropped' = dropped \cup gone
    <3>1. PICK gone : outbox' = Without(rest, gone) /\ dropped' = dropped \cup gone
      BY <2>2
    <3>2. Given' = Given \cup gone
      BY <1>6, <3>1 DEF Given
    <3>3. InOrder(rest, Given' \cup gone)
      BY <1>4, <3>2, InOrderFewer
    <3>. QED  BY <1>3, <3>1, <3>2, <3>3, InOrderWithout, ToSetOfWithout DEF Pending
  <2>. QED  BY <1>5, <2>1, <2>2
<1>8. Contents' \subseteq Contents \cup {outbox}
  <2>1. "lane" \in Waiters
    BY DEF Waiters
  <2>. QED  BY <1>1, <2>1, PersistedContents DEF Apply
<1>9. OrderFrame
  BY <1>6, <1>7, <1>8 DEF OrderFrame, storageVars
<1>. QED  BY <1>9, OrderFrameKeeps

LEMMA CommitKeepsOrder ==
  ASSUME OutboxInvariant, OrderInvariant, UNCHANGED setup, Commit
  PROVE  OrderInvariant'
<1>. DEFINE m == made + 1
<1>1. TypeOK /\ QueueHolds
  BY DEF OutboxInvariant
<1>2. /\ outbox' = Append(outbox, m) /\ made' = m
      /\ main' = main /\ journal' = journal /\ durable' = durable
      /\ Given' = Given /\ Stored' = Stored
  BY DEF Commit, Given, Stored, storageVars, remoteVars
<1>3. /\ outbox \in Seq(Mutations) /\ made \in Nat /\ m \in Mutations
      /\ Pending' = Pending \cup {m}
  <2>1. outbox \in Seq(Mutations) /\ made \in Nat
    BY <1>1 DEF TypeOK
  <2>2. m \in Mutations
    <3>1. setup.mutations \in 0 .. MaxMutations /\ MaxMutations \in Nat
      BY <1>1, Bounds, SyncAssumption DEF TypeOK
    <3>2. made < setup.mutations
      BY DEF Commit
    <3>. QED  BY <2>1, <3>1, <3>2 DEF m, Mutations
  <2>. QED  BY <1>2, <2>1, <2>2, ToSetOfAppend DEF Pending
<1>. HIDE DEF m
<1>4. \A a \in 1 .. made : a < m /\ a \in 1 .. m
  BY <1>3 DEF m
<1>5. m \in 1 .. m
  BY <1>3 DEF m
<1>6. InOrder(outbox', Given)
  <2>1. \A a \in Pending \ Given : a < m
    BY <1>4 DEF OrderInvariant
  <2>. QED  BY <1>2, <1>3, <2>1, InOrderAppend DEF OrderInvariant, Pending
<1>7. Contents' \subseteq Contents \cup {outbox, outbox'}
  <2>1. CASE life = "ready"
    <3>1. "commit" \in Waiters
      BY DEF Waiters
    <3>. QED  BY <1>1, <2>1, <3>1, PersistedContents DEF Commit
  <2>2. CASE life # "ready"
    <3>. DEFINE c == [State EXCEPT !.outbox = outbox']
    <3>1. State \in Checkpoints /\ outbox' \in Seq(Mutations)
      BY <1>1, <1>2, <1>3, StateType, ToSetOfAppend
    <3>2. c \in Checkpoints /\ c.outbox = outbox'
      BY <3>1 DEF Checkpoints
    <3>3. writeQueue' = Append(writeQueue, Write("journal", c, "commit"))
      BY <2>2 DEF Commit
    <3>. HIDE DEF c
    <3>4. /\ DOMAIN writeQueue' = 1 .. Len(writeQueue) + 1
          /\ Len(writeQueue) \in Nat /\ DOMAIN writeQueue = 1 .. Len(writeQueue)
          /\ \A i \in DOMAIN writeQueue : writeQueue'[i] = writeQueue[i]
          /\ writeQueue'[Len(writeQueue) + 1].content = c
      BY <1>1, <3>2, <3>3, NewWrite DEF Waiters
    <3>5. \A i \in DOMAIN writeQueue' : i \in DOMAIN writeQueue \/ i = Len(writeQueue) + 1
      BY <3>4
    <3>6. ASSUME NEW i \in DOMAIN writeQueue'
          PROVE  writeQueue'[i].content.outbox \in Contents \cup {outbox'}
      BY <3>2, <3>4, <3>5 DEF Contents
    <3>. QED  BY <3>6 DEF Contents
  <2>. QED  BY <2>1, <2>2
<1>8. \A c \in Contents : ToSet(c) \subseteq Pending \cup Given
  BY <1>1 DEF QueueHolds, Contents
<1>9. ASSUME NEW c \in Contents'
      PROVE  /\ InOrder(c, Given)
             /\ \A a \in ToSet(c) \ Given,
                   b \in (Pending \cup {m}) \ (ToSet(c) \cup Stored \cup Given) : a < b
  <2>1. CASE c \in Contents
    <3>1. InOrder(c, Given) /\ Before(ToSet(c), Pending \ (ToSet(c) \cup Stored))
      BY <2>1 DEF OrderInvariant
    <3>2. \A a \in ToSet(c) \ Given : a < m
      BY <1>4, <1>8, <2>1 DEF OrderInvariant
    <3>. QED  BY <3>1, <3>2 DEF Before
  <2>2. CASE c = outbox
    <3>1. InOrder(c, Given) /\ \A a \in ToSet(c) \ Given : a < m
      BY <1>4, <2>2 DEF OrderInvariant, Pending
    <3>. QED  BY <2>2, <3>1 DEF Pending
  <2>3. CASE c = outbox'
    <3>1. ToSet(c) = Pending \cup {m}
      BY <1>3, <2>3 DEF Pending
    <3>. QED  BY <1>6, <2>3, <3>1
  <2>. QED  BY <1>7, <2>1, <2>2, <2>3
<1>10. \A c \in Contents' : /\ InOrder(c, Given')
                            /\ Before(ToSet(c), Pending \ (ToSet(c) \cup Stored))'
  BY <1>2, <1>3, <1>9 DEF Before
<1>11. Before(Stored, Pending \ Stored)'
  <2>1. \A a \in Stored \ Given : a < m
    BY <1>4 DEF OrderInvariant
  <2>. QED  BY <1>2, <1>3, <2>1 DEF OrderInvariant, Before
<1>12. Before(ToSet(main.outbox), ToSet(journal) \ ToSet(main.outbox))'
  BY <1>2 DEF OrderInvariant, Before
<1>13. ((Pending \cup Stored) \ Given \subseteq 1 .. made)'
  BY <1>2, <1>3, <1>4, <1>5 DEF OrderInvariant
<1>14. InOrder(outbox', Given') /\ InOrder(main'.outbox, Given')
       /\ InOrder(journal', Given' \cup ToSet(main'.outbox)) /\ Stored' \subseteq durable'
  BY <1>2, <1>6 DEF OrderInvariant
<1>. QED  BY <1>10, <1>11, <1>12, <1>13, <1>14 DEF OrderInvariant

LEMMA HydrateKeepsOrder ==
  ASSUME OutboxInvariant, OrderInvariant, Hydrate
  PROVE  OrderInvariant'
<1>. DEFINE S == ToSet(main.outbox)
            fresh == Without(journal, S)
            all == Merge(fresh, outbox)
<1>1. TypeOK
  BY DEF OutboxInvariant
<1>2. PICK gone : /\ outbox' = main.outbox \o Without(PreHydration, gone)
                  /\ dropped' = dropped \cup gone
  BY DEF Hydrate
<1>. DEFINE replayed == Without(PreHydration, gone)
<1>3. /\ main' = main /\ journal' = journal /\ Contents' = Contents /\ Stored' = Stored
      /\ made' = made /\ durable' = durable
      /\ Given' = Given \cup gone
  BY <1>2 DEF Hydrate, storageVars, remoteVars, writeVars, Contents, Stored, Given
<1>4. /\ main.outbox \in Seq(Mutations) /\ journal \in Seq(Mutations)
      /\ outbox \in Seq(Mutations)
  BY <1>1 DEF TypeOK, Checkpoints
<1>5. PreHydration = Without(all, S)
  BY DEF PreHydration
<1>. HIDE DEF S, fresh, all, replayed
<1>6. /\ fresh \in Seq(Mutations) /\ ToSet(fresh) = ToSet(journal) \ S
      /\ InOrder(fresh, Given \cup S)
  <2>1. InOrder(journal, (Given \cup S) \cup S)
    <3>1. (Given \cup S) \cup S = Given \cup S
      OBVIOUS
    <3>. QED  BY <3>1 DEF OrderInvariant, S
  <2>. QED  BY <1>4, <2>1, ToSetOfWithout, InOrderWithout DEF fresh
<1>7. /\ all \in Seq(Mutations) /\ ToSet(all) = ToSet(fresh) \cup Pending
      /\ InOrder(all, Given \cup S)
  <2>1. InOrder(outbox, Given \cup S)
    <3>1. Given \subseteq Given \cup S
      OBVIOUS
    <3>. QED  BY <3>1, InOrderFewer DEF OrderInvariant
  <2>2. ASSUME NEW a \in ToSet(fresh) \ (Given \cup S),
               NEW b \in ToSet(outbox) \ (ToSet(fresh) \cup (Given \cup S))
        PROVE  a < b
    <3>1. a \in Stored \ Given /\ b \in (Pending \ Stored) \ Given
      BY <1>6 DEF Stored, Pending, S
    <3>. QED  BY <3>1 DEF OrderInvariant, Before
  <2>3. all \in Seq(Mutations) /\ ToSet(all) = ToSet(fresh) \cup Pending
    BY <1>4, <1>6, ToSetOfMerge DEF all, Pending
  <2>. QED  BY <1>4, <1>6, <2>1, <2>2, <2>3, InOrderMerge DEF all
<1>8. /\ PreHydration \in Seq(Mutations)
      /\ ToSet(PreHydration) = (ToSet(journal) \cup Pending) \ S
      /\ InOrder(PreHydration, Given)
  BY <1>5, <1>6, <1>7, ToSetOfWithout, InOrderWithout
<1>9. /\ replayed \in Seq(Mutations)
      /\ ToSet(replayed) \subseteq (ToSet(journal) \cup Pending) \ S
      /\ InOrder(replayed, Given')
  <2>1. InOrder(PreHydration, Given' \cup gone)
    BY <1>3, <1>8, InOrderFewer
  <2>. QED  BY <1>8, <2>1, ToSetOfWithout, InOrderWithout DEF replayed
<1>10. outbox' = main.outbox \o replayed /\ Pending' = S \cup ToSet(replayed)
  <2>1. outbox' = main.outbox \o replayed
    BY <1>2 DEF replayed
  <2>. QED  BY <1>4, <1>9, <2>1, ToSetOfConcat DEF Pending, S
<1>11. InOrder(outbox', Given')
  <2>1. InOrder(main.outbox, Given')
    BY <1>3, InOrderFewer DEF OrderInvariant
  <2>2. ASSUME NEW a \in S \ Given', NEW b \in ToSet(replayed) \ Given'
        PROVE  a < b
    <3>1. a \in S \ Given /\ a \in Stored \ Given
          /\ (b \in (ToSet(journal) \ S) \ Given \/ b \in (Pending \ Stored) \ Given)
      BY <1>3, <1>9 DEF Stored, S
    <3>. QED  BY <3>1 DEF OrderInvariant, Before, S
  <2>. QED  BY <1>4, <1>9, <1>10, <2>1, <2>2, InOrderConcat DEF S
<1>12. Pending' \subseteq Stored \cup Pending
  BY <1>9, <1>10 DEF Stored, S
<1>13. Given \subseteq Given'
  BY <1>3
<1>14. /\ InOrder(main'.outbox, Given')
       /\ InOrder(journal', Given' \cup ToSet(main'.outbox))
  <2>1. Given \cup ToSet(main.outbox) \subseteq Given' \cup ToSet(main.outbox)
    BY <1>13
  <2>. QED  BY <1>3, <1>13, <2>1, InOrderFewer DEF OrderInvariant
<1>15. \A c \in Contents' : /\ InOrder(c, Given')
                            /\ Before(ToSet(c), Pending \ (ToSet(c) \cup Stored))'
  <2>1. ASSUME NEW c \in Contents
        PROVE  /\ InOrder(c, Given')
               /\ \A a \in ToSet(c) \ Given', b \in (Pending' \ (ToSet(c) \cup Stored)) \ Given' :
                    a < b
    <3>1. InOrder(c, Given')
      BY <1>13, InOrderFewer DEF OrderInvariant
    <3>. QED  BY <1>12, <1>13, <3>1 DEF OrderInvariant, Before
  <2>. QED  BY <1>3, <2>1 DEF Before
<1>16. /\ Before(Stored, Pending \ Stored)'
       /\ Before(ToSet(main.outbox), ToSet(journal) \ ToSet(main.outbox))'
  BY <1>3, <1>12, <1>13 DEF OrderInvariant, Before
<1>17. /\ ((Pending \cup Stored) \ Given \subseteq 1 .. made)'
       /\ (Stored \subseteq durable)'
  BY <1>3, <1>12, <1>13 DEF OrderInvariant
<1>. QED  BY <1>11, <1>14, <1>15, <1>16, <1>17 DEF OrderInvariant

LEMMA FinishWriteKeepsOrder ==
  ASSUME OutboxInvariant, OrderInvariant, FinishWrite
  PROVE  OrderInvariant'
<1>. DEFINE w == writeQueue[1]
            c == w.content.outbox
            S == ToSet(main.outbox)
<1>1. TypeOK /\ QueueHolds
  BY DEF OutboxInvariant
<1>2. writeQueue # <<>> /\ writeQueue' = Tail(writeQueue) /\ w.started
      /\ w \in Writes /\ 1 \in DOMAIN writeQueue /\ Head(writeQueue) = w
  BY <1>1, QueueShape DEF FinishWrite, Settled
<1>3. /\ main' = IF w.key = "main" THEN w.content ELSE main
      /\ journal' = IF w.key = "journal" THEN Merge(journal, c) ELSE journal
      /\ durable' = durable \cup ToSet(c)
      /\ outbox' = outbox /\ Given' = Given /\ Pending' = Pending /\ made' = made
  BY <1>2 DEF FinishWrite, storeVars, remoteVars, Given, Pending
<1>4. /\ c \in Seq(Mutations) /\ w.key \in {"main", "journal"}
      /\ ToSet(c) \subseteq Pending \cup Given
      /\ w.key = "main" => Owed \subseteq ToSet(c)
      /\ c \in Contents
  BY <1>1, <1>2 DEF QueueHolds, Writes, Checkpoints, Contents
<1>5. Contents' \subseteq Contents
  BY <1>1, <1>2, FewerContents
<1>6. /\ journal \in Seq(Mutations) /\ Stored \subseteq durable
      /\ InOrder(c, Given) /\ Before(ToSet(c), Pending \ (ToSet(c) \cup Stored))
  BY <1>1, <1>4 DEF TypeOK, OrderInvariant
<1>. HIDE DEF w, c
<1>7. CASE w.key = "main"
  <2>1. /\ main'.outbox = c /\ journal' = journal /\ Stored \ Given \subseteq ToSet(c)
        /\ Stored' = ToSet(c) \cup ToSet(journal) /\ ToSet(journal) \subseteq Stored
    BY <1>3, <1>4, <1>6, <1>7 DEF c, Owed, Stored
  <2>2. Stored' \ Given = ToSet(c) \ Given
    BY <2>1
  <2>3. InOrder(journal', Given' \cup ToSet(main'.outbox))
    <3>1. \A i \in DOMAIN journal : journal[i] \in Given \cup ToSet(c)
      BY <2>1 DEF ToSet
    <3>. QED  BY <1>3, <2>1, <3>1 DEF InOrder
  <2>4. Before(ToSet(main.outbox), ToSet(journal) \ ToSet(main.outbox))'
    <3>1. (ToSet(journal) \ ToSet(c)) \ Given = {}
      BY <2>1
    <3>. QED  BY <1>3, <2>1, <3>1 DEF Before
  <2>5. Before(Stored, Pending \ Stored)'
    <3>1. ASSUME NEW a \in Stored' \ Given, NEW b \in (Pending \ Stored') \ Given
          PROVE  a < b
      BY <1>6, <2>1, <2>2 DEF Before
    <3>. QED  BY <1>3, <3>1 DEF Before
  <2>6. ASSUME NEW d \in Contents'
        PROVE  InOrder(d, Given') /\ Before(ToSet(d), Pending \ (ToSet(d) \cup Stored))'
    <3>1. InOrder(d, Given) /\ Before(ToSet(d), Pending \ (ToSet(d) \cup Stored))
      BY <1>5 DEF OrderInvariant
    <3>2. ASSUME NEW a \in ToSet(d) \ Given,
                 NEW b \in (Pending \ (ToSet(d) \cup Stored')) \ Given
          PROVE  a < b
      BY <2>1, <3>1 DEF Before
    <3>. QED  BY <1>3, <3>1, <3>2 DEF Before
  <2>7. /\ ((Pending \cup Stored) \ Given \subseteq 1 .. made)'
        /\ (Stored \subseteq durable)'
    BY <1>3, <1>4, <1>6, <2>1, <2>2 DEF OrderInvariant
  <2>. QED  BY <1>3, <1>6, <2>1, <2>3, <2>4, <2>5, <2>6, <2>7 DEF OrderInvariant
<1>8. CASE w.key = "journal"
  <2>1. /\ main' = main /\ journal' = Merge(journal, c)
        /\ journal' \in Seq(Mutations) /\ ToSet(journal') = ToSet(journal) \cup ToSet(c)
        /\ Stored' = Stored \cup ToSet(c)
    <3>1. main' = main /\ journal' = Merge(journal, c)
      BY <1>3, <1>8
    <3>2. journal' \in Seq(Mutations) /\ ToSet(journal') = ToSet(journal) \cup ToSet(c)
      BY <1>4, <1>6, <3>1, ToSetOfMerge
    <3>. QED  BY <3>1, <3>2 DEF Stored
  <2>2. InOrder(journal', Given \cup S)
    <3>1. InOrder(journal, Given \cup S) /\ Before(Stored, Pending \ Stored)
      BY DEF OrderInvariant, S
    <3>2. InOrder(c, Given \cup S)
      <4>1. Given \subseteq Given \cup S
        OBVIOUS
      <4>. QED  BY <1>6, <4>1, InOrderFewer
    <3>3. ASSUME NEW a \in ToSet(journal) \ (Given \cup S),
                 NEW b \in ToSet(c) \ (ToSet(journal) \cup (Given \cup S))
          PROVE  a < b
      <4>1. a \in Stored \ Given /\ b \in (Pending \ Stored) \ Given
        BY <1>4 DEF Stored, S
      <4>. QED  BY <3>1, <4>1 DEF Before
    <3>. HIDE DEF S
    <3>. QED  BY <1>4, <1>6, <2>1, <3>1, <3>2, <3>3, InOrderMerge
  <2>3. Before(ToSet(main.outbox), ToSet(journal) \ ToSet(main.outbox))'
    <3>1. ASSUME NEW a \in S \ Given, NEW b \in ((ToSet(journal) \cup ToSet(c)) \ S) \ Given
          PROVE  a < b
      <4>1. /\ a \in Stored \ Given
            /\ b \in (ToSet(journal) \ S) \ Given \/ b \in (Pending \ Stored) \ Given
        BY <1>4 DEF Stored
      <4>. QED  BY <4>1 DEF OrderInvariant, Before
    <3>. QED  BY <1>3, <2>1, <3>1 DEF Before
  <2>4. Before(Stored, Pending \ Stored)'
    <3>1. ASSUME NEW a \in (Stored \cup ToSet(c)) \ Given,
                 NEW b \in (Pending \ (Stored \cup ToSet(c))) \ Given
          PROVE  a < b
      BY <1>6 DEF OrderInvariant, Before
    <3>. QED  BY <1>3, <2>1, <3>1 DEF Before
  <2>5. ASSUME NEW d \in Contents'
        PROVE  InOrder(d, Given') /\ Before(ToSet(d), Pending \ (ToSet(d) \cup Stored))'
    <3>1. InOrder(d, Given) /\ Before(ToSet(d), Pending \ (ToSet(d) \cup Stored))
      BY <1>5 DEF OrderInvariant
    <3>. QED  BY <1>3, <2>1, <3>1 DEF Before
  <2>6. /\ ((Pending \cup Stored) \ Given \subseteq 1 .. made)'
        /\ (Stored \subseteq durable)'
    BY <1>3, <1>4, <1>6, <2>1 DEF OrderInvariant
  <2>7. InOrder(outbox', Given') /\ InOrder(main'.outbox, Given')
        /\ InOrder(journal', Given' \cup ToSet(main'.outbox))
    BY <1>3, <2>1, <2>2 DEF OrderInvariant, S
  <2>. QED  BY <2>3, <2>4, <2>5, <2>6, <2>7 DEF OrderInvariant
<1>. QED  BY <1>4, <1>7, <1>8

-----------------------------------------------------------------------------
(* Every step keeps the order.                                             *)

LEMMA OrderInitially == Init => OrderInvariant
<1>. SUFFICES ASSUME Init PROVE OrderInvariant
  OBVIOUS
<1>1. Pending = {} /\ Stored = {} /\ Contents = {} /\ outbox = <<>> /\ journal = <<>>
      /\ main.outbox = <<>>
  BY ToSetOfEmpty DEF Init, Pending, Stored, Contents
<1>. QED  BY <1>1, ToSetOfEmpty, InOrderEmpty DEF OrderInvariant, Before

LEMMA OrderSteps ==
  ASSUME OutboxInvariant, OrderInvariant, [Next]_vars
  PROVE  OrderInvariant'
<1>1. CASE UNCHANGED vars
  BY <1>1, QueueAloneKeepsOrder DEF vars, storeVars, writeVars, remoteVars
<1>2. CASE Next
  <2>1. UNCHANGED setup /\ (Progress \/ Failures \/ UserNext)
    BY <1>2 DEF Next
  <2>2. CASE Progress
    <3>1. CASE \E r \in due : Continuation(r)
      BY <3>1, ContinuationKeepsOrder, FlushKeepsOrder, ResultKeepsOrder DEF Continuation
    <3>2. CASE Stop
      BY <3>2, GoneKeepsOrder DEF Stop, remoteVars
    <3>. QED  BY <2>2, <3>1, <3>2, StartWriteKeepsOrder, FinishHydrationKeepsOrder, FlushKeepsOrder,
                  ApplyKeepsOrder, FinishWriteKeepsOrder, ReadStateKeepsOrder, HydrateKeepsOrder,
                  RequestKeepsOrder
              DEF Progress
  <2>3. CASE Failures
    <3>1. CASE Crash
      BY <3>1, GoneKeepsOrder DEF Crash, Abandoned
    <3>. QED  BY <2>3, <3>1, FailureKeepsOrder, FailWriteKeepsOrder, ResultKeepsOrder DEF Failures
  <2>4. CASE UserNext
    BY <2>1, <2>4, RequestKeepsOrder, CommitKeepsOrder, ClearPendingKeepsOrder, FlushKeepsOrder
       DEF UserNext
  <2>. QED  BY <2>1, <2>2, <2>3, <2>4
<1>. QED  BY <1>1, <1>2

\* The outbox keeps the mutations that are neither taken nor given up in the
\* order they were made, whatever storage refuses or a crash loses on the way
\* through the journal, the checkpoint, hydration and rebases (the commit
\* listener, mergeMutationsById, hydration, applyRemoteResult).
THEOREM MutationsStayInOrder == Spec => []OutboxInOrder
<1>1. OutboxInvariant /\ OrderInvariant => OutboxInOrder
  <2>. SUFFICES ASSUME OutboxInvariant, OrderInvariant PROVE OutboxInOrder
    OBVIOUS
  <2>1. outbox \in Seq(Mutations)
    BY DEF OutboxInvariant, TypeOK
  <2>2. InOrder(outbox, {} \cup Given)
    <3>1. {} \cup Given = Given
      OBVIOUS
    <3>. QED  BY <3>1 DEF OrderInvariant
  <2>3. InOrder(Without(outbox, Given), {})
    BY <2>1, <2>2, InOrderWithout
  <2>. QED  BY <2>3 DEF OutboxInOrder, InOrder, Given
<1>2. OrderInvariant /\ OutboxInvariant /\ [Next]_vars => OrderInvariant'
  BY OrderSteps
<1>. QED  BY <1>1, <1>2, OrderInitially, Invariance, PTL DEF Spec
=============================================================================
