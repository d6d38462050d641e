------------------------- MODULE StoreCommitsProofs -------------------------
(***************************************************************************)
(* Proofs about StoreCommits for every set of observers and every number   *)
(* of calls: type correctness, that a write leaves nothing behind and no   *)
(* subscriber out, and that a store implements CommitLog.                  *)
(***************************************************************************)
EXTENDS StoreCommits, SequenceTheorems, TLAPS

USE CallsAssumption

-----------------------------------------------------------------------------
(* The inductive invariant.                                                *)

\* The outermost frame is a run, and it is the only outermost one.
OneOuter ==
  \A i \in DOMAIN stack :
    /\ i = 1 => stack[i].kind = "run"
    /\ stack[i].kind = "run" => (stack[i].outer <=> i = 1)

IsReplay(i) == stack[i].kind = "run" /\ stack[i].op = "replay"

\* A source that is announced, or kept for later, has a replay that will put
\* back what it found.
SourceIsOwned ==
  /\ pendingCommitSource = "replay" => \E i \in DOMAIN stack : IsReplay(i)
  /\ \A j \in DOMAIN stack :
       stack[j].kind = "run" /\ stack[j].saved = "replay" =>
         \E i \in DOMAIN stack : i < j /\ IsReplay(i)

\* Only the last commit is still being delivered, to the transport first.
LastIsDelivered ==
  /\ \A i \in DOMAIN commits :
       /\ commits[i].commit = Len(log)
       /\ i > 1 => commits[i].who # Transport
       /\ commits[i].who # Transport => received[commits[i].who] = Len(log) - 1
  /\ sequence = IF commits # <<>> /\ Head(commits).who = Transport
                THEN Len(log) - 1 ELSE Len(log)

\* Who has not been told of the last commit is going to be.
ListenersAreTold ==
  \A l \in Elements(onCommit) :
    \/ received[l] = Len(log)
    \/ /\ received[l] = Len(log) - 1
       /\ \E i \in DOMAIN commits : commits[i].who = l

\* Nobody is registered, or queued, twice.
Distinct(s) == \A i, j \in DOMAIN s : s[i] = s[j] => i = j
CalledOnce ==
  /\ told = received
  /\ Distinct(onCommit)
  /\ \A i, j \in DOMAIN commits : commits[i].who = commits[j].who => i = j

\* A subscriber that has not been called since the last commit is queued.
SubscribersAreQueued ==
  \A s \in Elements(onChange) : seen[s] = Len(log) \/ s \in Elements(listeners)

RestIsClean == AtRest => commits = <<>> /\ listeners = <<>> /\ ~failure

CommitInvariant ==
  /\ TypeOK
  /\ OneOuter
  /\ SourceIsOwned
  /\ LastIsDelivered
  /\ ListenersAreTold
  /\ CalledOnce
  /\ SubscribersAreQueued
  /\ RestIsClean

-----------------------------------------------------------------------------
(* Sequences of observers.                                                 *)

LEMMA ElementsOfAppend ==
  ASSUME NEW S, NEW s \in Seq(S), NEW x \in S
  PROVE  /\ Append(s, x) \in Seq(S)
         /\ Elements(Append(s, x)) = Elements(s) \cup {x}
<1>1. /\ Append(s, x) \in Seq(S)
      /\ Len(Append(s, x)) = Len(s) + 1
      /\ \A i \in 1 .. Len(s) : Append(s, x)[i] = s[i]
      /\ Append(s, x)[Len(s) + 1] = x
  BY AppendProperties
<1>2. DOMAIN s = 1 .. Len(s) /\ Len(s) \in Nat
  BY LenProperties
<1>3. DOMAIN Append(s, x) = 1 .. Len(s) + 1
  BY <1>1, LenProperties
<1>. QED  BY <1>1, <1>2, <1>3 DEF Elements

LEMMA ElementsOfTail ==
  ASSUME NEW S, NEW s \in Seq(S), s # <<>>
  PROVE  /\ Head(s) \in S
         /\ Tail(s) \in Seq(S)
         /\ Elements(s) = {Head(s)} \cup Elements(Tail(s))
<1>1. /\ Head(s) \in S
      /\ Tail(s) \in Seq(S)
      /\ Len(Tail(s)) = Len(s) - 1
      /\ \A i \in 1 .. Len(Tail(s)) : Tail(s)[i] = s[i + 1]
  BY HeadTailProperties
<1>2. DOMAIN s = 1 .. Len(s) /\ Len(s) \in Nat \ {0}
  BY LenProperties, EmptySeq
<1>3. DOMAIN Tail(s) = 1 .. Len(s) - 1
  BY <1>1, LenProperties
<1>4. Head(s) = s[1]
  OBVIOUS
<1>5. ASSUME NEW i \in DOMAIN s PROVE s[i] \in {Head(s)} \cup Elements(Tail(s))
  <2>1. CASE i = 1
    BY <1>4, <2>1
  <2>2. CASE i # 1
    <3>1. i - 1 \in DOMAIN Tail(s) /\ Tail(s)[i - 1] = s[i]
      BY <1>1, <1>2, <1>3, <2>2
    <3>. QED  BY <3>1 DEF Elements
  <2>. QED  BY <2>1, <2>2
<1>6. ASSUME NEW i \in DOMAIN Tail(s) PROVE Tail(s)[i] \in Elements(s)
  <2>1. i + 1 \in DOMAIN s /\ Tail(s)[i] = s[i + 1]
    BY <1>1, <1>2, <1>3
  <2>. QED  BY <2>1 DEF Elements
<1>7. Head(s) \in Elements(s)
  BY <1>2, <1>4 DEF Elements
<1>. QED  BY <1>1, <1>5, <1>6, <1>7 DEF Elements

LEMMA ElementsOfConcat ==
  ASSUME NEW S, NEW s \in Seq(S), NEW t \in Seq(S)
  PROVE  /\ s \o t \in Seq(S)
         /\ Elements(s) \cup Elements(t) \subseteq Elements(s \o t)
<1>1. /\ s \o t \in Seq(S)
      /\ Len(s \o t) = Len(s) + Len(t)
      /\ \A i \in 1 .. Len(s) + Len(t) :
           (s \o t)[i] = IF i <= Len(s) THEN s[i] ELSE t[i - Len(s)]
  BY ConcatProperties
<1>2. /\ DOMAIN s = 1 .. Len(s) /\ Len(s) \in Nat
      /\ DOMAIN t = 1 .. Len(t) /\ Len(t) \in Nat
      /\ DOMAIN (s \o t) = 1 .. Len(s) + Len(t)
  BY <1>1, LenProperties
<1>3. ASSUME NEW i \in DOMAIN s PROVE s[i] \in Elements(s \o t)
  <2>1. i \in DOMAIN (s \o t) /\ (s \o t)[i] = s[i]
    BY <1>1, <1>2
  <2>. QED  BY <2>1 DEF Elements
<1>4. ASSUME NEW i \in DOMAIN t PROVE t[i] \in Elements(s \o t)
  <2>1. i + Len(s) \in DOMAIN (s \o t) /\ (s \o t)[i + Len(s)] = t[i]
    BY <1>1, <1>2
  <2>. QED  BY <2>1 DEF Elements
<1>. QED  BY <1>1, <1>3, <1>4 DEF Elements

LEMMA ElementsOfWithout ==
  ASSUME NEW S, NEW s \in Seq(S), NEW x \in Elements(s)
  PROVE  /\ Without(s, x) \in Seq(S)
         /\ Elements(Without(s, x)) \subseteq Elements(s)
<1>. DEFINE at == CHOOSE i \in DOMAIN s : s[i] = x
            rest == [i \in 1 .. Len(s) - 1 |-> IF i < at THEN s[i] ELSE s[i + 1]]
<1>1. DOMAIN s = 1 .. Len(s) /\ Len(s) \in Nat /\ \A i \in 1 .. Len(s) : s[i] \in S
  BY LenProperties, ElementOfSeq
<1>2. Len(s) - 1 \in Nat
  BY <1>1 DEF Elements
<1>3. at \in 1 .. Len(s)
  BY <1>1 DEF Elements
<1>. HIDE DEF at
<1>4. ASSUME NEW i \in 1 .. Len(s) - 1
      PROVE  rest[i] \in S /\ rest[i] \in Elements(s)
  <2>1. i \in DOMAIN s /\ i + 1 \in DOMAIN s
    BY <1>1, <1>2
  <2>. QED  BY <1>1, <2>1 DEF Elements
<1>5. rest \in Seq(S) /\ DOMAIN rest = 1 .. Len(s) - 1
  BY <1>2, <1>4
<1>6. Without(s, x) = rest
  BY DEF Without, at
<1>. QED  BY <1>4, <1>5, <1>6 DEF Elements

-----------------------------------------------------------------------------
(* The stack.                                                              *)

Frames == RunFrames \cup CallbackFrames

LEMMA Prefix ==
  ASSUME NEW S, NEW s \in Seq(S), s # <<>>
  PROVE  /\ SubSeq(s, 1, Len(s) - 1) \in Seq(S)
         /\ DOMAIN SubSeq(s, 1, Len(s) - 1) = 1 .. Len(s) - 1
         /\ \A i \in 1 .. Len(s) - 1 : SubSeq(s, 1, Len(s) - 1)[i] = s[i]
<1>. DEFINE n == Len(s) - 1
            t == SubSeq(s, 1, n)
<1>1. n \in Nat
  BY EmptySeq
<1>2. \A i \in 1 .. n : s[i] \in S
  BY <1>1, ElementOfSeq
<1>. HIDE DEF n
<1>3. /\ t \in Seq(S)
      /\ Len(t) = IF 1 <= n THEN n - 1 + 1 ELSE 0
      /\ \A i \in 1 .. n - 1 + 1 : t[i] = s[1 + i - 1]
  BY <1>1, <1>2, SubSeqProperties
<1>4. ASSUME NEW i \in 1 .. n PROVE t[i] = s[i]
  <2>1. i \in 1 .. n - 1 + 1 /\ 1 + i - 1 = i
    BY <1>1
  <2>2. t[i] = s[1 + i - 1]
    BY <1>3, <2>1
  <2>. QED  BY <2>1, <2>2
<1>5. (IF 1 <= n THEN n - 1 + 1 ELSE 0) = n
  BY <1>1
<1>. HIDE DEF t
<1>6. Len(t) = n
  BY <1>3, <1>5
<1>7. DOMAIN t = 1 .. n
  BY <1>3, <1>6, LenProperties
<1>. QED  BY <1>3, <1>4, <1>7 DEF t, n

\* What is popped, and what remains.
LEMMA StackShape ==
  ASSUME stack \in Seq(Frames)
  PROVE  /\ Len(stack) \in Nat
         /\ DOMAIN stack = 1 .. Len(stack)
         /\ stack # <<>> => Len(stack) > 0 /\ Top \in Frames
         /\ stack # <<>> =>
              /\ Below \in Seq(Frames)
              /\ DOMAIN Below = 1 .. Len(stack) - 1
              /\ \A i \in DOMAIN Below : Below[i] = stack[i]
              /\ Below = <<>> => Len(stack) = 1
<1>1. Len(stack) \in Nat /\ DOMAIN stack = 1 .. Len(stack)
  BY LenProperties
<1>2. ASSUME stack # <<>>
      PROVE  /\ Len(stack) > 0
             /\ Top \in Frames
  <2>1. Len(stack) \in Nat \ {0}
    BY <1>2, EmptySeq
  <2>. QED  BY <1>1, <2>1, ElementOfSeq DEF Top
<1>3. ASSUME stack # <<>>
      PROVE  /\ Below \in Seq(Frames)
             /\ DOMAIN Below = 1 .. Len(stack) - 1
             /\ \A i \in DOMAIN Below : Below[i] = stack[i]
             /\ Below = <<>> => Len(stack) = 1
  <2>1. /\ Below \in Seq(Frames)
        /\ DOMAIN Below = 1 .. Len(stack) - 1
        /\ \A i \in 1 .. Len(stack) - 1 : Below[i] = stack[i]
    BY <1>3, Prefix DEF Below
  <2>2. ASSUME Below = <<>> PROVE Len(stack) = 1
    <3>1. DOMAIN Below = {}
      BY <2>2
    <3>2. 1 \notin 1 .. Len(stack) - 1
      BY <2>1, <3>1
    <3>3. Len(stack) > 0
      BY <1>2, <1>3
    <3>. QED  BY <1>1, <3>2, <3>3
  <2>. QED  BY <2>1, <2>2
<1>. QED  BY <1>1, <1>2, <1>3

LEMMA PushedFrame ==
  ASSUME stack \in Seq(Frames), NEW f \in Frames
  PROVE  /\ Append(stack, f) \in Seq(Frames)
         /\ DOMAIN Append(stack, f) = 1 .. Len(stack) + 1
         /\ \A i \in 1 .. Len(stack) : Append(stack, f)[i] = stack[i]
         /\ Append(stack, f)[Len(stack) + 1] = f
         /\ Append(stack, f) # <<>>
<1>1. /\ Append(stack, f) \in Seq(Frames)
      /\ Len(Append(stack, f)) = Len(stack) + 1
      /\ \A i \in 1 .. Len(stack) : Append(stack, f)[i] = stack[i]
      /\ Append(stack, f)[Len(stack) + 1] = f
  BY AppendProperties
<1>2. Len(stack) \in Nat
  BY LenProperties
<1>. QED  BY <1>1, <1>2, LenProperties

\* The body of a run is over: nothing but its pc has changed.
LEMMA NextFrame ==
  ASSUME stack \in Seq(Frames), stack # <<>>, Top.kind = "run"
  PROVE  /\ Goto("after") \in Seq(Frames)
         /\ DOMAIN Goto("after") = 1 .. Len(stack)
         /\ \A i \in 1 .. Len(stack) - 1 : Goto("after")[i] = stack[i]
         /\ Goto("after")[Len(stack)] = [Top EXCEPT !.pc = "after"]
         /\ Top \in RunFrames
         /\ Goto("after") # <<>>
<1>1. Top \in RunFrames
  BY StackShape DEF Frames, CallbackFrames
<1>2. [Top EXCEPT !.pc = "after"] \in Frames
  BY <1>1 DEF Frames, RunFrames
<1>3. /\ Below \in Seq(Frames)
      /\ DOMAIN Below = 1 .. Len(stack) - 1
      /\ \A i \in DOMAIN Below : Below[i] = stack[i]
      /\ Len(stack) \in Nat \ {0}
  BY StackShape
<1>4. Len(Below) = Len(stack) - 1
  BY <1>3
<1>5. /\ Goto("after") \in Seq(Frames)
      /\ Len(Goto("after")) = Len(Below) + 1
      /\ \A i \in 1 .. Len(Below) : Goto("after")[i] = Below[i]
      /\ Goto("after")[Len(Below) + 1] = [Top EXCEPT !.pc = "after"]
  BY <1>2, <1>3, AppendProperties DEF Goto
<1>6. DOMAIN Goto("after") = 1 .. Len(stack)
  BY <1>3, <1>4, <1>5, LenProperties
<1>. QED  BY <1>1, <1>3, <1>4, <1>5, <1>6

-----------------------------------------------------------------------------
(* Type correctness.                                                       *)

LEMMA InitialTypes ==
  ASSUME Init
  PROVE  TypeOK
<1>1. /\ log \in Seq(Commits) /\ onCommit \in Seq(CommitListeners)
      /\ onChange \in Seq(Subscribers) /\ commits \in Seq(Deliveries)
      /\ listeners \in Seq(Subscribers)
      /\ stack \in Seq(RunFrames \cup CallbackFrames)
  BY EmptySeq DEF Init
<1>2. failure \in BOOLEAN /\ destroyed \in BOOLEAN
  BY Zenon DEF Init
<1>3. /\ pendingCommitSource \in {"none", "replay"} /\ sequence \in Nat
      /\ received \in [CommitListeners -> Nat] /\ told \in [CommitListeners -> Nat]
      /\ seen \in [Subscribers -> Nat]
      /\ calls \in 0 .. MaxCalls
  BY DEF Init
<1>. QED  BY <1>1, <1>2, <1>3 DEF TypeOK

LEMMA PoppedTypes ==
  ASSUME TypeOK, stack # <<>>, stack' = Below
  PROVE  stack' \in Seq(RunFrames \cup CallbackFrames)
BY StackShape DEF TypeOK, Frames

LEMMA CallbackTypes ==
  ASSUME TypeOK, NEW who \in CommitListeners \cup Subscribers,
         stack' = Append(stack, [kind |-> "callback", who |-> who])
  PROVE  stack' \in Seq(RunFrames \cup CallbackFrames)
<1>1. [kind |-> "callback", who |-> who] \in Frames
  BY DEF Frames, CallbackFrames
<1>2. stack \in Seq(Frames)
  BY DEF TypeOK, Frames
<1>3. Append(stack, [kind |-> "callback", who |-> who]) \in Seq(Frames)
  BY <1>1, <1>2, PushedFrame
<1>. QED  BY <1>3 DEF Frames

LEMMA AfterTypes ==
  ASSUME TypeOK, stack # <<>>, Top.kind = "run", stack' = Goto("after")
  PROVE  stack' \in Seq(RunFrames \cup CallbackFrames)
BY NextFrame DEF TypeOK, Frames

LEMMA PublishedTypes ==
  ASSUME TypeOK, NEW n \in Nat
  PROVE  /\ Published(n) \in Seq(Deliveries)
         /\ DOMAIN Published(n) = 1 .. Len(onCommit) + 1
         /\ Published(n)[1].who = Transport
         /\ Published(n) # <<>>
         /\ \A i \in 1 .. Len(onCommit) + 1 :
              /\ Published(n)[i].commit = n
              /\ i # 1 => /\ i - 1 \in DOMAIN onCommit
                          /\ Published(n)[i].who = onCommit[i - 1]
<1>. DEFINE entry(i) == [who |-> IF i = 1 THEN Transport ELSE onCommit[i - 1],
                         commit |-> n]
<1>1. /\ onCommit \in Seq(CommitListeners)
      /\ Len(onCommit) \in Nat
      /\ DOMAIN onCommit = 1 .. Len(onCommit)
  BY LenProperties DEF TypeOK
<1>2. ASSUME NEW i \in 1 .. Len(onCommit) + 1
      PROVE  entry(i) \in Deliveries /\ (i # 1 => i - 1 \in DOMAIN onCommit)
  <2>1. CASE i = 1
    BY <2>1 DEF Deliveries
  <2>2. CASE i # 1
    <3>1. i - 1 \in 1 .. Len(onCommit)
      BY <1>1, <2>2
    <3>2. onCommit[i - 1] \in CommitListeners
      BY <1>1, <3>1, ElementOfSeq
    <3>. QED  BY <1>1, <2>2, <3>1, <3>2 DEF Deliveries
  <2>. QED  BY <2>1, <2>2
<1>3. Published(n) = [i \in 1 .. Len(onCommit) + 1 |-> entry(i)]
  BY DEF Published
<1>. HIDE DEF entry
<1>4. [i \in 1 .. Len(onCommit) + 1 |-> entry(i)] \in Seq(Deliveries)
  BY <1>1, <1>2
<1>5. 1 \in 1 .. Len(onCommit) + 1
  BY <1>1
<1>. QED  BY <1>1, <1>2, <1>3, <1>4, <1>5 DEF entry

LEMMA CommitTypes ==
  ASSUME TypeOK, NEW op \in Operations, Commit(op)
  PROVE  TypeOK'
<1>1. stack # <<>> /\ Top.kind = "run" /\ commits = <<>> /\ op # "destroy"
  BY DEF Commit, AtBody, InRun
<1>2. Len(log) \in Nat /\ log \in Seq(Commits)
  BY LenProperties DEF TypeOK
<1>3. CommitSource(op) \in Sources \ {"none"}
  BY DEF CommitSource, Sources
<1>4. log' \in Seq(Commits)
  <2>1. [op |-> op, source |-> CommitSource(op)] \in Commits
    BY <1>1, <1>3 DEF Commits
  <2>. QED  BY <1>2, <2>1, ElementsOfAppend DEF Commit
<1>5. commits' \in Seq(Deliveries)
  <2>1. Published(Len(log) + 1) \in Seq(Deliveries)
    BY <1>2, PublishedTypes
  <2>. QED  BY <2>1, ElementsOfConcat DEF Commit, TypeOK
<1>6. listeners' \in Seq(Subscribers)
  BY ElementsOfConcat DEF Commit, TypeOK
<1>7. stack' \in Seq(RunFrames \cup CallbackFrames)
  BY <1>1, AfterTypes DEF Commit
<1>8. pendingCommitSource' \in {"none", "replay"}
  BY DEF Commit, SourceTaken, TypeOK
<1>9. UNCHANGED <<registered, failure, destroyed, observed, calls>>
  BY DEF Commit
<1>. QED  BY <1>4, <1>5, <1>6, <1>7, <1>8, <1>9
          DEF TypeOK, registered, observed

LEMMA DrainTypes ==
  ASSUME TypeOK, Drain
  PROVE  TypeOK'
<1>1. commits # <<>>
  BY DEF Drain
<1>2. Head(commits) \in Deliveries /\ commits' \in Seq(Deliveries)
  BY <1>1, ElementsOfTail DEF Drain, TypeOK
<1>3. CASE Head(commits).who = Transport
  <2>1. sequence' \in Nat /\ UNCHANGED <<received, told, stack>>
    BY <1>3 DEF Drain, TypeOK
  <2>. QED  BY <1>2, <2>1 DEF Drain, TypeOK, registered
<1>4. CASE Head(commits).who # Transport
  <2>1. Head(commits).who \in CommitListeners /\ Head(commits).commit \in Nat
    BY <1>2, <1>4 DEF Deliveries
  <2>2. /\ received' = [received EXCEPT ![Head(commits).who] = Head(commits).commit]
        /\ told' = [told EXCEPT ![Head(commits).who] = @ + 1]
        /\ sequence' = sequence
    BY <1>4 DEF Drain
  <2>4. received' \in [CommitListeners -> Nat]
    BY <2>1, <2>2 DEF TypeOK
  <2>5. told' \in [CommitListeners -> Nat]
    BY <2>1, <2>2 DEF TypeOK
  <2>3. stack' \in Seq(RunFrames \cup CallbackFrames)
    BY <1>4, <2>1, CallbackTypes DEF Drain
  <2>. QED  BY <1>2, <2>2, <2>3, <2>4, <2>5 DEF Drain, TypeOK, registered
<1>. QED  BY <1>3, <1>4

LEMMA RunTypes ==
  ASSUME TypeOK, RunNext
  PROVE  TypeOK'
<1>1. ASSUME NEW op, AtBody(op) PROVE stack # <<>> /\ Top.kind = "run"
  BY <1>1 DEF AtBody, InRun
<1>2. ASSUME NEW op \in Operations, Unchanged(op) PROVE TypeOK'
  <2>1. stack' \in Seq(RunFrames \cup CallbackFrames)
    BY <1>1, <1>2, AfterTypes DEF Unchanged
  <2>2. listeners' \in Seq(Subscribers)
    BY <1>2, ElementsOfConcat DEF Unchanged, TypeOK
  <2>3. pendingCommitSource' \in {"none", "replay"}
    BY <1>2 DEF Unchanged, SourceTaken, TypeOK
  <2>4. UNCHANGED <<log, registered, commits, failure, destroyed, observed, calls>>
    BY <1>2 DEF Unchanged
  <2>. QED  BY <2>1, <2>2, <2>3, <2>4 DEF TypeOK, registered, observed
<1>3. ASSUME NEW op \in Operations, Refuse(op) PROVE TypeOK'
  <2>1. stack' \in Seq(RunFrames \cup CallbackFrames)
    BY <1>1, <1>3, AfterTypes DEF Refuse
  <2>2. pendingCommitSource' \in {"none", "replay"}
    BY <1>3 DEF Refuse, SourceTaken, TypeOK
  <2>3. UNCHANGED <<log, registered, queues, failure, destroyed, observed, calls>>
    BY <1>3 DEF Refuse
  <2>. QED  BY <2>1, <2>2, <2>3 DEF TypeOK, registered, queues, observed
<1>4. ASSUME Destroy PROVE TypeOK'
  <2>1. stack' \in Seq(RunFrames \cup CallbackFrames)
    BY <1>1, <1>4, AfterTypes DEF Destroy
  <2>2. onCommit' \in Seq(CommitListeners) /\ onChange' \in Seq(Subscribers)
    BY <1>4, EmptySeq DEF Destroy, ForgetListeners
  <2>3. destroyed' \in BOOLEAN
    BY <1>4, Zenon DEF Destroy
  <2>4. UNCHANGED <<log, queues, failure, pendingCommitSource, observed, calls>>
    BY <1>4 DEF Destroy
  <2>. QED  BY <2>1, <2>2, <2>3, <2>4 DEF TypeOK, queues, observed
<1>5. ASSUME Flush PROVE TypeOK'
  <2>1. Head(listeners) \in Subscribers /\ listeners' \in Seq(Subscribers)
    BY <1>5, ElementsOfTail DEF Flush, TypeOK
  <2>2. stack' \in Seq(RunFrames \cup CallbackFrames)
    BY <1>5, <2>1, CallbackTypes DEF Flush
  <2>3. seen' \in [Subscribers -> Nat]
    BY <1>5, <2>1, LenProperties DEF Flush, TypeOK
  <2>4. UNCHANGED <<log, registered, commits, failure, pendingCommitSource,
                    destroyed, sequence, received, told, calls>>
    BY <1>5 DEF Flush
  <2>. QED  BY <2>1, <2>2, <2>3, <2>4 DEF TypeOK, registered
<1>6. ASSUME Finish PROVE TypeOK'
  <2>1. stack # <<>> /\ Top.kind = "run"
    BY <1>6 DEF Finish, InRun
  <2>2. stack' \in Seq(RunFrames \cup CallbackFrames)
    BY <1>6, <2>1, PoppedTypes DEF Finish
  <2>3. failure' \in BOOLEAN
    BY <1>6, Zenon DEF Finish, TypeOK
  <2>4. Top \in RunFrames
    BY <2>1, StackShape DEF TypeOK, Frames, CallbackFrames
  <2>5. pendingCommitSource' \in {"none", "replay"}
    BY <1>6, <2>4 DEF Finish, TypeOK, RunFrames
  <2>6. UNCHANGED <<log, registered, queues, destroyed, observed, calls>>
    BY <1>6 DEF Finish
  <2>. QED  BY <2>2, <2>3, <2>5, <2>6 DEF TypeOK, registered, queues, observed
<1>. QED  BY <1>2, <1>3, <1>4, <1>5, <1>6, CommitTypes, DrainTypes DEF RunNext

LEMMA UserTypes ==
  ASSUME TypeOK, UserNext
  PROVE  TypeOK'
<1>1. ASSUME NEW op \in Operations, Call(op) PROVE TypeOK'
  <2>. DEFINE frame == [kind |-> "run", op |-> op, pc |-> "before",
                        outer |-> AtRest, saved |-> pendingCommitSource]
  <2>1. AtRest \in BOOLEAN
    BY DEF AtRest
  <2>2. frame \in Frames
    BY <2>1 DEF Frames, RunFrames, TypeOK
  <2>3. stack' \in Seq(Frames)
    BY <1>1, <2>2, PushedFrame DEF Call, TypeOK, Frames
  <2>4. calls' \in 0 .. MaxCalls /\ pendingCommitSource' \in {"none", "replay"}
    BY <1>1 DEF Call, TypeOK
  <2>5. UNCHANGED <<log, registered, queues, failure, destroyed, observed>>
    BY <1>1 DEF Call
  <2>. QED  BY <2>3, <2>4, <2>5 DEF TypeOK, Frames, registered, queues, observed
<1>2. ASSUME NEW l \in CommitListeners, ListenToCommits(l) PROVE TypeOK'
  <2>1. onCommit' \in Seq(CommitListeners)
    BY <1>2, ElementsOfAppend DEF ListenToCommits, TypeOK
  <2>2. received' \in [CommitListeners -> Nat] /\ told' \in [CommitListeners -> Nat]
    <3>1. /\ Len(log) \in Nat
          /\ received \in [CommitListeners -> Nat] /\ told \in [CommitListeners -> Nat]
      BY LenProperties DEF TypeOK
    <3>2. CASE Queued(l)
      BY <1>2, <3>1, <3>2 DEF ListenToCommits
    <3>3. CASE ~Queued(l)
      <4>1. /\ received' = [received EXCEPT ![l] = Len(log)]
            /\ told' = [told EXCEPT ![l] = Len(log)]
        BY <1>2, <3>3 DEF ListenToCommits
      <4>. QED  BY <3>1, <4>1
    <3>. QED  BY <3>2, <3>3
  <2>3. UNCHANGED <<log, onChange, queues, failure, pendingCommitSource,
                    destroyed, sequence, seen, stack, calls>>
    BY <1>2 DEF ListenToCommits
  <2>. QED  BY <2>1, <2>2, <2>3 DEF TypeOK, queues
<1>3. ASSUME NEW l \in CommitListeners, StopListening(l) PROVE TypeOK'
  <2>1. onCommit' \in Seq(CommitListeners)
    BY <1>3, ElementsOfWithout DEF StopListening, TypeOK
  <2>2. UNCHANGED <<log, onChange, queues, failure, pendingCommitSource,
                    destroyed, observed, stack, calls>>
    BY <1>3 DEF StopListening
  <2>. QED  BY <2>1, <2>2 DEF TypeOK, queues, observed
<1>4. ASSUME NEW s \in Subscribers, Subscribe(s) PROVE TypeOK'
  <2>1. onChange' \in Seq(Subscribers)
    BY <1>4, ElementsOfAppend DEF Subscribe, TypeOK
  <2>2. seen' \in [Subscribers -> Nat]
    BY <1>4, LenProperties DEF Subscribe, TypeOK
  <2>3. UNCHANGED <<log, onCommit, queues, failure, pendingCommitSource,
                    destroyed, sequence, received, told, stack, calls>>
    BY <1>4 DEF Subscribe
  <2>. QED  BY <2>1, <2>2, <2>3 DEF TypeOK, queues
<1>5. ASSUME NEW s \in Subscribers, Unsubscribe(s) PROVE TypeOK'
  <2>1. onChange' \in Seq(Subscribers)
    BY <1>5, ElementsOfWithout DEF Unsubscribe, TypeOK
  <2>2. UNCHANGED <<log, onCommit, queues, failure, pendingCommitSource,
                    destroyed, observed, stack, calls>>
    BY <1>5 DEF Unsubscribe
  <2>. QED  BY <2>1, <2>2 DEF TypeOK, queues, observed
<1>6. ASSUME InCallback, stack' = Below
      PROVE  stack' \in Seq(RunFrames \cup CallbackFrames)
  BY <1>6, PoppedTypes DEF InCallback
<1>7. ASSUME Return PROVE TypeOK'
  <2>1. UNCHANGED <<log, registered, queues, failure, pendingCommitSource,
                    destroyed, observed, calls>>
    BY <1>7 DEF Return
  <2>. QED  BY <1>6, <1>7, <2>1 DEF Return, TypeOK, registered, queues, observed
<1>8. ASSUME Throw PROVE TypeOK'
  <2>1. failure' \in BOOLEAN
    BY <1>8, Zenon DEF Throw
  <2>2. UNCHANGED <<log, registered, queues, pendingCommitSource, destroyed,
                    observed, calls>>
    BY <1>8 DEF Throw
  <2>. QED  BY <1>6, <1>8, <2>1, <2>2
            DEF Throw, TypeOK, registered, queues, observed
<1>. QED  BY <1>1, <1>2, <1>3, <1>4, <1>5, <1>7, <1>8 DEF UserNext

\* Every variable of a store keeps its type, whatever its observers do while
\* notifications.run is calling them.
THEOREM TypeCorrect == Spec => []TypeOK
<1>1. Init => TypeOK
  BY InitialTypes
<1>2. TypeOK /\ [Next]_vars => TypeOK'
  <2>1. ASSUME TypeOK, UNCHANGED vars PROVE TypeOK'
    BY <2>1 DEF TypeOK, vars, registered, queues, observed
  <2>. QED  BY <2>1, RunTypes, UserTypes DEF Next
<1>. QED  BY <1>1, <1>2, PTL DEF Spec

-----------------------------------------------------------------------------
(* The frames of the stack, and the source a replay announces.             *)

LEMMA Called ==
  ASSUME TypeOK, OneOuter, SourceIsOwned, NEW op \in Operations, Call(op)
  PROVE  OneOuter' /\ SourceIsOwned'
<1>. DEFINE frame == [kind |-> "run", op |-> op, pc |-> "before",
                      outer |-> AtRest, saved |-> pendingCommitSource]
<1>1. stack \in Seq(Frames)
  BY DEF TypeOK, Frames
<1>2. frame \in Frames
  <2>1. AtRest \in BOOLEAN
    BY DEF AtRest
  <2>. QED  BY <2>1 DEF Frames, RunFrames, TypeOK
<1>3. stack' = Append(stack, frame)
  BY DEF Call
<1>4. frame.kind = "run" /\ frame.op = op /\ frame.outer = AtRest
      /\ frame.saved = pendingCommitSource
  OBVIOUS
<1>. HIDE DEF frame
<1>5. /\ Len(stack) \in Nat /\ DOMAIN stack = 1 .. Len(stack)
      /\ DOMAIN stack' = 1 .. Len(stack) + 1
      /\ \A i \in 1 .. Len(stack) : stack'[i] = stack[i]
      /\ stack'[Len(stack) + 1] = frame
  BY <1>1, <1>2, <1>3, PushedFrame, StackShape
<1>6. AtRest <=> Len(stack) + 1 = 1
  BY <1>1, <1>5, EmptySeq DEF AtRest
<1>7. OneOuter'
  <2>1. ASSUME NEW i \in 1 .. Len(stack)
        PROVE  /\ i = 1 => stack'[i].kind = "run"
               /\ stack'[i].kind = "run" => (stack'[i].outer <=> i = 1)
    BY <1>5, <2>1 DEF OneOuter
  <2>2. LET i == Len(stack) + 1
        IN  /\ i = 1 => stack'[i].kind = "run"
            /\ stack'[i].kind = "run" => (stack'[i].outer <=> i = 1)
    BY <1>4, <1>5, <1>6
  <2>. QED  BY <1>5, <2>1, <2>2 DEF OneOuter
<1>8. pendingCommitSource' = "replay" => op = "replay" \/ pendingCommitSource = "replay"
  BY DEF Call
<1>9. SourceIsOwned'
  <2>1. ASSUME pendingCommitSource' = "replay"
        PROVE  \E i \in DOMAIN stack' : IsReplay(i)'
    <3>1. CASE op = "replay"
      <4>1. PICK i \in DOMAIN stack' : i = Len(stack) + 1
        BY <1>5
      <4>2. IsReplay(i)'
        BY <1>4, <1>5, <3>1, <4>1 DEF IsReplay
      <4>. QED  BY <4>2
    <3>2. CASE pendingCommitSource = "replay"
      <4>1. PICK i \in DOMAIN stack : IsReplay(i)
        BY <3>2 DEF SourceIsOwned
      <4>2. i \in DOMAIN stack' /\ IsReplay(i)'
        BY <1>5, <4>1 DEF IsReplay
      <4>. QED  BY <4>2
    <3>. QED  BY <1>8, <2>1, <3>1, <3>2
  <2>2. ASSUME NEW j \in DOMAIN stack', stack'[j].kind = "run",
               stack'[j].saved = "replay"
        PROVE  \E i \in DOMAIN stack' : i < j /\ IsReplay(i)'
    <3>1. CASE j \in 1 .. Len(stack)
      <4>1. PICK i \in DOMAIN stack : i < j /\ IsReplay(i)
        BY <1>5, <2>2, <3>1 DEF SourceIsOwned
      <4>2. i \in DOMAIN stack' /\ IsReplay(i)'
        BY <1>5, <4>1 DEF IsReplay
      <4>. QED  BY <4>1, <4>2
    <3>2. CASE j = Len(stack) + 1
      <4>1. PICK i \in DOMAIN stack : IsReplay(i)
        BY <1>4, <1>5, <2>2, <3>2 DEF SourceIsOwned
      <4>2. i \in DOMAIN stack' /\ IsReplay(i)' /\ i < j
        BY <1>5, <3>2, <4>1 DEF IsReplay
      <4>. QED  BY <4>2
    <3>. QED  BY <1>5, <2>2, <3>1, <3>2
  <2>. QED  BY <2>1, <2>2 DEF SourceIsOwned
<1>. QED  BY <1>7, <1>9

LEMMA CallbackPushed ==
  ASSUME TypeOK, OneOuter, SourceIsOwned, stack # <<>>,
         NEW who \in CommitListeners \cup Subscribers,
         stack' = Append(stack, [kind |-> "callback", who |-> who]),
         UNCHANGED pendingCommitSource
  PROVE  OneOuter' /\ SourceIsOwned' /\ stack' # <<>>
<1>. DEFINE frame == [kind |-> "callback", who |-> who]
<1>1. stack \in Seq(Frames)
  BY DEF TypeOK, Frames
<1>2. frame \in Frames /\ frame.kind # "run"
  BY DEF Frames, CallbackFrames
<1>3. stack' = Append(stack, frame)
  OBVIOUS
<1>. HIDE DEF frame
<1>4. /\ Len(stack) \in Nat \ {0} /\ DOMAIN stack = 1 .. Len(stack)
      /\ DOMAIN stack' = 1 .. Len(stack) + 1
      /\ \A i \in 1 .. Len(stack) : stack'[i] = stack[i]
      /\ stack'[Len(stack) + 1].kind # "run"
      /\ stack' # <<>>
  BY <1>1, <1>2, <1>3, PushedFrame, StackShape
<1>5. OneOuter'
  BY <1>4 DEF OneOuter
<1>6. ASSUME NEW i \in DOMAIN stack, IsReplay(i)
      PROVE  i \in DOMAIN stack' /\ IsReplay(i)'
  BY <1>4, <1>6 DEF IsReplay
<1>7. ASSUME NEW j \in DOMAIN stack', stack'[j].kind = "run",
             stack'[j].saved = "replay"
      PROVE  j \in DOMAIN stack /\ stack[j].kind = "run" /\ stack[j].saved = "replay"
  BY <1>4, <1>7
<1>8. SourceIsOwned'
  BY <1>6, <1>7 DEF SourceIsOwned
<1>. QED  BY <1>4, <1>5, <1>8

\* The body of a run is over: the source is the one it was, or none.
LEMMA BodyOver ==
  ASSUME TypeOK, OneOuter, SourceIsOwned, stack # <<>>, Top.kind = "run",
         stack' = Goto("after"),
         pendingCommitSource' \in {pendingCommitSource, "none"}
  PROVE  OneOuter' /\ SourceIsOwned' /\ stack' # <<>>
<1>1. stack \in Seq(Frames)
  BY DEF TypeOK, Frames
<1>2. /\ DOMAIN stack' = 1 .. Len(stack)
      /\ \A i \in 1 .. Len(stack) - 1 : stack'[i] = stack[i]
      /\ stack'[Len(stack)] = [Top EXCEPT !.pc = "after"]
      /\ Top \in RunFrames
      /\ stack' # <<>>
  BY <1>1, NextFrame
<1>3. Len(stack) \in Nat \ {0} /\ DOMAIN stack = 1 .. Len(stack)
  BY <1>1, StackShape
<1>4. LET t == stack'[Len(stack)]
      IN  t.kind = Top.kind /\ t.op = Top.op /\ t.outer = Top.outer
          /\ t.saved = Top.saved
  BY <1>2 DEF RunFrames
<1>5. ASSUME NEW i \in 1 .. Len(stack)
      PROVE  /\ stack'[i].kind = stack[i].kind
             /\ stack'[i].op = stack[i].op
             /\ stack'[i].outer = stack[i].outer
             /\ stack'[i].saved = stack[i].saved
  <2>1. CASE i = Len(stack)
    BY <1>4, <2>1 DEF Top
  <2>2. CASE i # Len(stack)
    BY <1>2, <1>3, <2>2
  <2>. QED  BY <2>1, <2>2
<1>6. OneOuter'
  BY <1>2, <1>3, <1>5 DEF OneOuter
<1>7. ASSUME NEW i \in DOMAIN stack PROVE IsReplay(i)' <=> IsReplay(i)
  BY <1>3, <1>5 DEF IsReplay
<1>8. SourceIsOwned'
  BY <1>2, <1>3, <1>5, <1>7 DEF SourceIsOwned
<1>. QED  BY <1>2, <1>6, <1>8

LEMMA CallbackPopped ==
  ASSUME TypeOK, OneOuter, SourceIsOwned, InCallback, stack' = Below,
         UNCHANGED pendingCommitSource
  PROVE  OneOuter' /\ SourceIsOwned' /\ stack' # <<>>
<1>1. stack \in Seq(Frames) /\ stack # <<>> /\ Top.kind # "run"
  BY DEF TypeOK, Frames, InCallback
<1>2. /\ Len(stack) \in Nat \ {0} /\ DOMAIN stack = 1 .. Len(stack)
      /\ DOMAIN stack' = 1 .. Len(stack) - 1
      /\ \A i \in DOMAIN stack' : stack'[i] = stack[i]
      /\ stack' = <<>> => Len(stack) = 1
  BY <1>1, StackShape
<1>3. stack[Len(stack)].kind # "run"
  BY <1>1 DEF Top
<1>4. stack' # <<>>
  BY <1>2, <1>3 DEF OneOuter
<1>5. OneOuter'
  BY <1>2 DEF OneOuter
<1>6. ASSUME NEW i \in DOMAIN stack, IsReplay(i)
      PROVE  i \in DOMAIN stack' /\ IsReplay(i)'
  BY <1>2, <1>3, <1>6 DEF IsReplay
<1>7. SourceIsOwned'
  BY <1>2, <1>6 DEF SourceIsOwned
<1>. QED  BY <1>4, <1>5, <1>7

LEMMA RunPopped ==
  ASSUME TypeOK, OneOuter, SourceIsOwned, Finish
  PROVE  /\ OneOuter' /\ SourceIsOwned'
         /\ stack' = <<>> => Top.outer
<1>1. stack \in Seq(Frames) /\ stack # <<>> /\ Top.kind = "run"
  BY DEF TypeOK, Frames, Finish, InRun
<1>2. /\ Len(stack) \in Nat \ {0} /\ DOMAIN stack = 1 .. Len(stack)
      /\ DOMAIN stack' = 1 .. Len(stack) - 1
      /\ \A i \in DOMAIN stack' : stack'[i] = stack[i]
      /\ stack' = <<>> => Len(stack) = 1
  BY <1>1, StackShape DEF Finish
<1>3. stack' = <<>> => Top.outer
  BY <1>1, <1>2 DEF OneOuter, Top
<1>4. OneOuter'
  BY <1>2 DEF OneOuter
<1>5. ASSUME NEW i \in DOMAIN stack, IsReplay(i), i # Len(stack)
      PROVE  i \in DOMAIN stack' /\ IsReplay(i)'
  BY <1>2, <1>5 DEF IsReplay
<1>6. ASSUME NEW j \in DOMAIN stack', stack'[j].kind = "run",
             stack'[j].saved = "replay"
      PROVE  \E i \in DOMAIN stack' : i < j /\ IsReplay(i)'
  <2>1. PICK i \in DOMAIN stack : i < j /\ IsReplay(i)
    BY <1>2, <1>6 DEF SourceIsOwned
  <2>. QED  BY <1>2, <1>5, <2>1
<1>7. ASSUME pendingCommitSource' = "replay"
      PROVE  \E i \in DOMAIN stack' : IsReplay(i)'
  <2>1. CASE Top.op = "replay"
    <3>1. Top.saved = "replay"
      BY <1>7, <2>1 DEF Finish
    <3>2. PICK i \in DOMAIN stack : i < Len(stack) /\ IsReplay(i)
      BY <1>1, <1>2, <3>1 DEF SourceIsOwned, Top
    <3>. QED  BY <1>2, <1>5, <3>2
  <2>2. CASE Top.op # "replay"
    <3>1. pendingCommitSource = "replay"
      BY <1>7, <2>2 DEF Finish
    <3>2. PICK i \in DOMAIN stack : IsReplay(i)
      BY <3>1 DEF SourceIsOwned
    <3>3. i # Len(stack)
      BY <2>2, <3>2 DEF IsReplay, Top
    <3>. QED  BY <1>5, <3>2, <3>3
  <2>. QED  BY <2>1, <2>2
<1>8. SourceIsOwned'
  BY <1>6, <1>7 DEF SourceIsOwned
<1>. QED  BY <1>3, <1>4, <1>8

-----------------------------------------------------------------------------
(* The commits that are being delivered.                                   *)

\* What a commit leaves to be delivered is this commit, to the transport and
\* then to everyone who listens.
LEMMA CommitDelivers ==
  ASSUME TypeOK, LastIsDelivered, ListenersAreTold,
         NEW op \in Operations, Commit(op)
  PROVE  LastIsDelivered' /\ ListenersAreTold'
<1>1. commits = <<>> /\ UNCHANGED <<onCommit, received, sequence>>
  BY DEF Commit, AtBody, registered, observed
<1>2. /\ log \in Seq(Commits) /\ commits \in Seq(Deliveries)
      /\ onCommit \in Seq(CommitListeners)
      /\ Len(log) \in Nat /\ Len(onCommit) \in Nat
      /\ DOMAIN onCommit = 1 .. Len(onCommit)
  BY LenProperties DEF TypeOK
<1>3. log' \in Seq(Commits) /\ Len(log') = Len(log) + 1
  <2>1. CommitSource(op) \in Sources \ {"none"}
    BY DEF CommitSource, Sources
  <2>2. [op |-> op, source |-> CommitSource(op)] \in Commits
    BY <2>1 DEF Commit, Commits
  <2>. QED  BY <1>2, <2>2, AppendProperties DEF Commit
<1>4. commits' = Published(Len(log) + 1)
  <2>1. Published(Len(log) + 1) \in Seq(Deliveries)
    BY <1>2, PublishedTypes
  <2>. QED  BY <1>1, <2>1, ConcatEmptySeq DEF Commit
<1>5. /\ DOMAIN commits' = 1 .. Len(onCommit) + 1
      /\ commits' # <<>> /\ Head(commits') = commits'[1]
      /\ commits'[1].who = Transport
      /\ \A i \in 1 .. Len(onCommit) + 1 :
           /\ commits'[i].commit = Len(log')
           /\ i # 1 => /\ i - 1 \in DOMAIN onCommit
                       /\ commits'[i].who = onCommit[i - 1]
  BY <1>2, <1>3, <1>4, PublishedTypes
<1>6. ASSUME NEW l \in Elements(onCommit) PROVE received[l] = Len(log)
  BY <1>1, <1>6 DEF ListenersAreTold
<1>7. \A i \in DOMAIN onCommit : onCommit[i] \in CommitListeners
  BY <1>2, ElementOfSeq
<1>8. sequence = Len(log)
  BY <1>1 DEF LastIsDelivered
<1>9. LastIsDelivered'
  <2>1. ASSUME NEW i \in DOMAIN commits', i > 1
        PROVE  /\ commits'[i].who # Transport
               /\ received'[commits'[i].who] = Len(log') - 1
    <3>1. i - 1 \in DOMAIN onCommit /\ commits'[i].who = onCommit[i - 1]
      BY <1>2, <1>5, <2>1
    <3>2. received[onCommit[i - 1]] = Len(log)
      BY <1>6, <3>1 DEF Elements
    <3>. QED  BY <1>1, <1>2, <1>3, <1>7, <3>1, <3>2
  <2>2. ASSUME NEW i \in DOMAIN commits', commits'[i].who # Transport
        PROVE  i > 1
    BY <1>2, <1>5, <2>2
  <2>3. \A i \in DOMAIN commits' :
          commits'[i].who # Transport =>
            received'[commits'[i].who] = Len(log') - 1
    BY <2>1, <2>2
  <2>4. sequence' = IF commits' # <<>> /\ Head(commits').who = Transport
                    THEN Len(log') - 1 ELSE Len(log')
    BY <1>1, <1>2, <1>3, <1>5, <1>8
  <2>5. \A i \in DOMAIN commits' : commits'[i].commit = Len(log')
    BY <1>5
  <2>. QED  BY <2>1, <2>3, <2>4, <2>5 DEF LastIsDelivered
<1>10. ListenersAreTold'
  <2>1. ASSUME NEW l \in Elements(onCommit)
        PROVE  /\ received'[l] = Len(log') - 1
               /\ \E i \in DOMAIN commits' : commits'[i].who = l
    <3>1. PICK k \in DOMAIN onCommit : onCommit[k] = l
      BY DEF Elements
    <3>2. k + 1 \in DOMAIN commits' /\ k + 1 # 1 /\ (k + 1) - 1 = k
      BY <1>2, <1>5, <3>1
    <3>3. commits'[k + 1].who = l
      BY <1>5, <3>1, <3>2
    <3>. QED  BY <1>1, <1>2, <1>3, <1>6, <3>2, <3>3
  <2>2. Elements(onCommit') = Elements(onCommit)
    BY <1>1
  <2>. QED  BY <2>1, <2>2 DEF ListenersAreTold, Elements
<1>. QED  BY <1>9, <1>10

LEMMA DrainDelivers ==
  ASSUME TypeOK, LastIsDelivered, ListenersAreTold, CalledOnce, Drain
  PROVE  LastIsDelivered' /\ ListenersAreTold'
<1>1. /\ commits # <<>> /\ commits' = Tail(commits)
      /\ UNCHANGED <<log, onCommit>>
  BY DEF Drain, registered
<1>2. /\ commits \in Seq(Deliveries) /\ Len(log) \in Nat
      /\ received \in [CommitListeners -> Nat]
  BY LenProperties DEF TypeOK
<1>3. Len(commits) \in Nat \ {0} /\ DOMAIN commits = 1 .. Len(commits)
  BY <1>1, <1>2, LenProperties, EmptySeq
<1>4. /\ commits' \in Seq(Deliveries)
      /\ DOMAIN commits' = 1 .. Len(commits) - 1
      /\ \A i \in DOMAIN commits' :
           commits'[i] = commits[i + 1] /\ i + 1 \in DOMAIN commits
      /\ commits' # <<>> => Head(commits') = commits'[1] /\ 1 \in DOMAIN commits'
      /\ Head(commits) = commits[1] /\ commits[1] \in Deliveries
  <2>1. /\ Tail(commits) \in Seq(Deliveries)
        /\ Len(Tail(commits)) = Len(commits) - 1
        /\ \A i \in 1 .. Len(Tail(commits)) : Tail(commits)[i] = commits[i + 1]
    BY <1>1, <1>2, HeadTailProperties
  <2>2. DOMAIN commits' = 1 .. Len(commits) - 1
    BY <1>1, <2>1, LenProperties
  <2>3. commits' # <<>> => 1 \in DOMAIN commits'
    BY <1>1, <1>3, <2>1, <2>2, EmptySeq
  <2>4. commits[1] \in Deliveries
    BY <1>2, <1>3, ElementOfSeq
  <2>. QED  BY <1>1, <1>3, <2>1, <2>2, <2>3, <2>4
<1>5. ASSUME NEW i \in DOMAIN commits'
      PROVE  commits'[i].commit = Len(log) /\ commits'[i].who # Transport
  <2>1. i + 1 \in DOMAIN commits /\ i + 1 > 1 /\ commits'[i] = commits[i + 1]
    BY <1>3, <1>4
  <2>. QED  BY <2>1 DEF LastIsDelivered
<1>6. commits' # <<>> => Head(commits').who # Transport
  BY <1>4, <1>5
<1>7. commits[1].commit = Len(log)
  BY <1>3 DEF LastIsDelivered
<1>8. sequence' = Len(log)
  BY <1>1, <1>2, <1>4 DEF Drain, LastIsDelivered
<1>9. ASSUME NEW l \in CommitListeners
      PROVE  received'[l] = IF commits[1].who = l THEN Len(log) ELSE received[l]
  BY <1>2, <1>4, <1>7 DEF Drain
<1>10. ASSUME NEW i \in DOMAIN commits'
       PROVE  received'[commits'[i].who] = Len(log) - 1
  <2>1. i + 1 \in DOMAIN commits /\ commits'[i] = commits[i + 1]
    BY <1>4
  <2>2. /\ commits[i + 1].who \in CommitListeners
        /\ received[commits[i + 1].who] = Len(log) - 1
    <3>1. commits[i + 1] \in Deliveries /\ commits[i + 1].who # Transport
      BY <1>2, <1>3, <1>5, <2>1, ElementOfSeq
    <3>. QED  BY <2>1, <3>1 DEF LastIsDelivered, Deliveries
  <2>3. commits[i + 1].who # commits[1].who
    BY <1>3, <2>1 DEF CalledOnce
  <2>. QED  BY <1>9, <2>1, <2>2, <2>3
<1>11. LastIsDelivered'
  BY <1>1, <1>5, <1>6, <1>8, <1>10 DEF LastIsDelivered
<1>12. ListenersAreTold'
  <2>1. ASSUME NEW l \in Elements(onCommit)
        PROVE  \/ received'[l] = Len(log)
               \/ /\ received'[l] = Len(log) - 1
                  /\ \E i \in DOMAIN commits' : commits'[i].who = l
    <3>1. l \in CommitListeners
      BY ElementOfSeq, LenProperties DEF Elements, TypeOK
    <3>2. CASE commits[1].who = l \/ received[l] = Len(log)
      BY <1>9, <3>1, <3>2
    <3>3. CASE commits[1].who # l /\ received[l] # Len(log)
      <4>1. PICK i \in DOMAIN commits : commits[i].who = l
        BY <3>3 DEF ListenersAreTold
      <4>2. received[l] = Len(log) - 1
        BY <3>3 DEF ListenersAreTold
      <4>3. i - 1 \in DOMAIN commits' /\ (i - 1) + 1 = i
        BY <1>3, <1>4, <3>3, <4>1
      <4>4. commits'[i - 1].who = l
        BY <1>4, <4>1, <4>3
      <4>. QED  BY <1>9, <3>1, <3>3, <4>2, <4>3, <4>4
    <3>. QED  BY <3>2, <3>3
  <2>. QED  BY <1>1, <2>1 DEF ListenersAreTold, Elements
<1>. QED  BY <1>11, <1>12

LEMMA JoinDelivers ==
  ASSUME TypeOK, LastIsDelivered, ListenersAreTold,
         NEW l \in CommitListeners, ListenToCommits(l)
  PROVE  LastIsDelivered' /\ ListenersAreTold'
<1>1. UNCHANGED <<log, commits, sequence>>
  BY DEF ListenToCommits, queues
<1>2. /\ commits \in Seq(Deliveries) /\ Len(log) \in Nat
      /\ received \in [CommitListeners -> Nat]
      /\ onCommit \in Seq(CommitListeners)
  BY LenProperties DEF TypeOK
<1>3. ASSUME NEW m \in CommitListeners
      PROVE  received'[m] = IF m = l /\ ~Queued(l) THEN Len(log) ELSE received[m]
  BY <1>2 DEF ListenToCommits
<1>4. ASSUME NEW i \in DOMAIN commits, commits[i].who # Transport
      PROVE  received'[commits[i].who] = Len(log) - 1
  <2>1. commits[i].who \in CommitListeners
    <3>1. i \in 1 .. Len(commits)
      BY <1>2, <1>4, LenProperties
    <3>2. commits[i] \in Deliveries
      BY <1>2, <3>1, ElementOfSeq
    <3>. QED  BY <1>4, <3>2 DEF Deliveries
  <2>2. received[commits[i].who] = Len(log) - 1
    BY <1>4 DEF LastIsDelivered
  <2>. QED  BY <1>3, <2>1, <2>2 DEF Queued
<1>5. LastIsDelivered'
  BY <1>1, <1>4 DEF LastIsDelivered
<1>6. Elements(onCommit') = Elements(onCommit) \cup {l}
  BY <1>2, ElementsOfAppend DEF ListenToCommits
<1>7. ASSUME NEW m \in Elements(onCommit) PROVE m \in CommitListeners
  BY <1>2, ElementOfSeq, LenProperties DEF Elements
<1>8. ASSUME NEW m \in Elements(onCommit) \cup {l}
      PROVE  \/ received'[m] = Len(log)
             \/ /\ received'[m] = Len(log) - 1
                /\ \E i \in DOMAIN commits : commits[i].who = m
  <2>1. CASE m = l /\ ~Queued(l)
    BY <1>3, <2>1
  <2>2. CASE m = l /\ Queued(l)
    <3>1. PICK i \in DOMAIN commits : commits[i].who = l
      BY <2>2 DEF Queued
    <3>2. received'[l] = Len(log) - 1
      BY <1>4, <3>1, CallsAssumption
    <3>. QED  BY <2>2, <3>1, <3>2
  <2>3. CASE m # l
    BY <1>3, <1>7, <2>3 DEF ListenersAreTold
  <2>. QED  BY <2>1, <2>2, <2>3
<1>9. ListenersAreTold'
  BY <1>1, <1>6, <1>8 DEF ListenersAreTold
<1>. QED  BY <1>5, <1>9

\* Who leaves, and whatever else happens, leaves the deliveries as they are.
LEMMA OthersDeliver ==
  ASSUME LastIsDelivered, ListenersAreTold,
         UNCHANGED <<log, commits, received, sequence>>,
         Elements(onCommit') \subseteq Elements(onCommit)
  PROVE  LastIsDelivered' /\ ListenersAreTold'
<1>1. LastIsDelivered'
  BY DEF LastIsDelivered
<1>2. ListenersAreTold'
  BY DEF ListenersAreTold
<1>. QED  BY <1>1, <1>2

\* A commit queues the transport and each listener once.
LEMMA CommitCallsOnce ==
  ASSUME TypeOK, CalledOnce, NEW op \in Operations, Commit(op)
  PROVE  CalledOnce'
<1>1. commits = <<>> /\ UNCHANGED <<onCommit, received, told>>
  BY DEF Commit, AtBody, registered, observed
<1>2. /\ log \in Seq(Commits) /\ onCommit \in Seq(CommitListeners)
      /\ Len(log) \in Nat /\ Len(onCommit) \in Nat
      /\ DOMAIN onCommit = 1 .. Len(onCommit)
  BY LenProperties DEF TypeOK
<1>3. commits' = Published(Len(log) + 1)
  <2>1. Published(Len(log) + 1) \in Seq(Deliveries)
    BY <1>2, PublishedTypes
  <2>. QED  BY <1>1, <2>1, ConcatEmptySeq DEF Commit
<1>4. /\ DOMAIN commits' = 1 .. Len(onCommit) + 1
      /\ commits'[1].who = Transport
      /\ \A i \in 1 .. Len(onCommit) + 1 :
           i # 1 => i - 1 \in DOMAIN onCommit /\ commits'[i].who = onCommit[i - 1]
  BY <1>2, <1>3, PublishedTypes
<1>5. \A i \in DOMAIN onCommit : onCommit[i] # Transport
  BY <1>2, ElementOfSeq, CallsAssumption
<1>6. ASSUME NEW i \in DOMAIN commits', NEW j \in DOMAIN commits',
             commits'[i].who = commits'[j].who
      PROVE  i = j
  <2>1. CASE i = 1 \/ j = 1
    BY <1>4, <1>5, <1>6, <2>1
  <2>2. CASE i # 1 /\ j # 1
    <3>1. /\ i - 1 \in DOMAIN onCommit /\ j - 1 \in DOMAIN onCommit
          /\ onCommit[i - 1] = onCommit[j - 1]
      BY <1>4, <1>6, <2>2
    <3>2. i - 1 = j - 1
      BY <3>1 DEF CalledOnce, Distinct
    <3>. QED  BY <1>2, <1>4, <3>2
  <2>. QED  BY <2>1, <2>2
<1>. QED  BY <1>1, <1>6 DEF CalledOnce, Distinct

\* Who is at the head of the queue is told, and is not in it any more.
LEMMA DrainCallsOnce ==
  ASSUME TypeOK, LastIsDelivered, CalledOnce, Drain
  PROVE  CalledOnce'
<1>1. commits # <<>> /\ commits' = Tail(commits) /\ UNCHANGED onCommit
  BY DEF Drain, registered
<1>2. /\ commits \in Seq(Deliveries) /\ Len(log) \in Nat
      /\ received \in [CommitListeners -> Nat]
  BY LenProperties DEF TypeOK
<1>3. Len(commits) \in Nat \ {0} /\ DOMAIN commits = 1 .. Len(commits)
  BY <1>1, <1>2, LenProperties, EmptySeq
<1>4. /\ DOMAIN commits' = 1 .. Len(commits) - 1
      /\ \A i \in 1 .. Len(commits) - 1 : commits'[i] = commits[i + 1]
  BY <1>1, <1>2, HeadTailProperties, LenProperties
<1>5. ASSUME NEW i \in DOMAIN commits', NEW j \in DOMAIN commits',
             commits'[i].who = commits'[j].who
      PROVE  i = j
  <2>1. /\ i + 1 \in DOMAIN commits /\ j + 1 \in DOMAIN commits
        /\ commits[i + 1].who = commits[j + 1].who
    BY <1>3, <1>4, <1>5
  <2>2. i + 1 = j + 1
    BY <2>1 DEF CalledOnce
  <2>. QED  BY <1>4, <2>2
<1>6. told' = received'
  <2>1. Head(commits) = commits[1] /\ 1 \in DOMAIN commits
    BY <1>3
  <2>2. CASE Head(commits).who = Transport
    BY <2>2 DEF Drain, CalledOnce
  <2>3. CASE Head(commits).who # Transport
    <3>1. Head(commits).commit = received[Head(commits).who] + 1
      BY <1>2, <2>1, <2>3 DEF LastIsDelivered
    <3>. QED  BY <2>3, <3>1 DEF Drain, CalledOnce
  <2>. QED  BY <2>2, <2>3
<1>. QED  BY <1>1, <1>5, <1>6 DEF CalledOnce, Distinct

LEMMA JoinCallsOnce ==
  ASSUME TypeOK, CalledOnce, NEW l \in CommitListeners, ListenToCommits(l)
  PROVE  CalledOnce'
<1>1. /\ UNCHANGED commits /\ onCommit' = Append(onCommit, l)
      /\ l \notin Elements(onCommit) /\ told' = received'
  BY DEF ListenToCommits, queues, CalledOnce
<1>2. /\ Len(onCommit) \in Nat /\ DOMAIN onCommit = 1 .. Len(onCommit)
      /\ DOMAIN onCommit' = 1 .. Len(onCommit) + 1
      /\ \A i \in 1 .. Len(onCommit) : onCommit'[i] = onCommit[i]
      /\ onCommit'[Len(onCommit) + 1] = l
  BY <1>1, AppendProperties, LenProperties DEF TypeOK
<1>3. \A i \in DOMAIN onCommit : onCommit[i] # l
  BY <1>1 DEF Elements
<1>4. Distinct(onCommit')
  BY <1>2, <1>3 DEF CalledOnce, Distinct
<1>. QED  BY <1>1, <1>4 DEF CalledOnce

\* Who leaves leaves the others as they are.
LEMMA WithoutIsDistinct ==
  ASSUME NEW S, NEW s \in Seq(S), NEW x \in Elements(s), Distinct(s)
  PROVE  Distinct(Without(s, x))
<1>. DEFINE at == CHOOSE i \in DOMAIN s : s[i] = x
            rest == [i \in 1 .. Len(s) - 1 |-> IF i < at THEN s[i] ELSE s[i + 1]]
<1>1. DOMAIN s = 1 .. Len(s) /\ Len(s) \in Nat
  BY LenProperties
<1>2. at \in 1 .. Len(s)
  BY <1>1 DEF Elements
<1>. HIDE DEF at
<1>3. ASSUME NEW i \in 1 .. Len(s) - 1, NEW j \in 1 .. Len(s) - 1, rest[i] = rest[j]
      PROVE  i = j
  BY <1>1, <1>2, <1>3 DEF Distinct
<1>4. Without(s, x) = rest
  BY DEF Without, at
<1>. QED  BY <1>3, <1>4 DEF Distinct

LEMMA OthersCallOnce ==
  ASSUME CalledOnce, UNCHANGED <<commits, received, told>>, Distinct(onCommit')
  PROVE  CalledOnce'
BY DEF CalledOnce

-----------------------------------------------------------------------------
(* The subscribers that are queued.                                        *)

\* A commit, or a replacement, queues everyone who subscribes.
LEMMA NotifyQueues ==
  ASSUME TypeOK, listeners' = listeners \o onChange, UNCHANGED onChange
  PROVE  SubscribersAreQueued'
<1>1. Elements(onChange) \subseteq Elements(listeners')
  BY ElementsOfConcat DEF TypeOK
<1>. QED  BY <1>1 DEF SubscribersAreQueued, Elements

LEMMA FlushQueues ==
  ASSUME TypeOK, SubscribersAreQueued, Flush
  PROVE  SubscribersAreQueued'
<1>1. /\ listeners # <<>> /\ listeners' = Tail(listeners)
      /\ UNCHANGED <<log, onChange>>
      /\ seen' = [seen EXCEPT ![Head(listeners)] = Len(log)]
  BY DEF Flush, registered
<1>2. Elements(listeners) = {Head(listeners)} \cup Elements(listeners')
  BY <1>1, ElementsOfTail DEF TypeOK
<1>3. ASSUME NEW s \in Elements(onChange)
      PROVE  seen'[s] = Len(log) \/ s \in Elements(listeners')
  <2>1. s \in Subscribers
    BY ElementOfSeq, LenProperties DEF Elements, TypeOK
  <2>. QED  BY <1>1, <1>2, <2>1 DEF SubscribersAreQueued, TypeOK
<1>. QED  BY <1>1, <1>3 DEF SubscribersAreQueued, Elements

LEMMA SubscribeQueues ==
  ASSUME TypeOK, SubscribersAreQueued, NEW s \in Subscribers, Subscribe(s)
  PROVE  SubscribersAreQueued'
<1>1. /\ UNCHANGED <<log, listeners>>
      /\ seen' = [seen EXCEPT ![s] = Len(log)]
  BY DEF Subscribe, queues
<1>2. Elements(onChange') = Elements(onChange) \cup {s}
  BY ElementsOfAppend DEF Subscribe, TypeOK
<1>3. ASSUME NEW t \in Elements(onChange)
      PROVE  t \in Subscribers
  BY ElementOfSeq, LenProperties DEF Elements, TypeOK
<1>4. ASSUME NEW t \in Elements(onChange')
      PROVE  seen'[t] = Len(log) \/ t \in Elements(listeners)
  BY <1>1, <1>2, <1>3 DEF SubscribersAreQueued, TypeOK
<1>. QED  BY <1>1, <1>4 DEF SubscribersAreQueued

LEMMA OthersQueue ==
  ASSUME SubscribersAreQueued, UNCHANGED <<log, listeners, seen>>,
         Elements(onChange') \subseteq Elements(onChange)
  PROVE  SubscribersAreQueued'
BY DEF SubscribersAreQueued

-----------------------------------------------------------------------------
(* The invariant, and what it implies.                                     *)

LEMMA InvariantInitially ==
  ASSUME Init
  PROVE  CommitInvariant
<1>1. TypeOK
  BY InitialTypes
<1>2. stack = <<>> /\ commits = <<>> /\ onCommit = <<>> /\ onChange = <<>>
      /\ Len(log) = 0 /\ sequence = 0 /\ listeners = <<>>
      /\ pendingCommitSource = "none" /\ told = received
  BY DEF Init
<1>3. ~failure
  BY Zenon DEF Init
<1>4. OneOuter /\ SourceIsOwned
  BY <1>2 DEF OneOuter, SourceIsOwned
<1>5. LastIsDelivered /\ ListenersAreTold /\ SubscribersAreQueued
  BY <1>2 DEF LastIsDelivered, ListenersAreTold, SubscribersAreQueued, Elements
<1>6. CalledOnce
  BY <1>2 DEF CalledOnce, Distinct
<1>. QED  BY <1>1, <1>2, <1>3, <1>4, <1>5, <1>6 DEF CommitInvariant, RestIsClean

LEMMA RunKeepsInvariant ==
  ASSUME CommitInvariant, RunNext
  PROVE  CommitInvariant'
<1>. USE DEF CommitInvariant
<1>1. TypeOK'
  BY RunTypes
<1>2. ASSUME NEW op, AtBody(op)
      PROVE  stack # <<>> /\ Top.kind = "run"
  BY <1>2 DEF AtBody, InRun
<1>3. ASSUME NEW op \in Operations, Commit(op) PROVE CommitInvariant'
  <2>1. OneOuter' /\ SourceIsOwned' /\ stack' # <<>>
    BY <1>2, <1>3, BodyOver DEF Commit, SourceTaken
  <2>2. LastIsDelivered' /\ ListenersAreTold' /\ CalledOnce'
    BY <1>3, CommitDelivers, CommitCallsOnce
  <2>3. SubscribersAreQueued'
    BY <1>3, NotifyQueues DEF Commit, registered
  <2>. QED  BY <1>1, <2>1, <2>2, <2>3 DEF RestIsClean, AtRest
<1>4. ASSUME NEW op \in Operations, Unchanged(op) PROVE CommitInvariant'
  <2>1. OneOuter' /\ SourceIsOwned' /\ stack' # <<>>
    BY <1>2, <1>4, BodyOver DEF Unchanged, SourceTaken
  <2>2. UNCHANGED <<log, onCommit, onChange, commits, received, told, sequence,
                    seen>>
    BY <1>4 DEF Unchanged, registered, observed
  <2>3. LastIsDelivered' /\ ListenersAreTold' /\ CalledOnce'
    BY <2>2, OthersDeliver, OthersCallOnce DEF CalledOnce
  <2>4. SubscribersAreQueued'
    BY <1>4, <2>2, NotifyQueues, OthersQueue DEF Unchanged
  <2>. QED  BY <1>1, <2>1, <2>3, <2>4 DEF RestIsClean, AtRest
<1>5. ASSUME NEW op \in Operations, Refuse(op) PROVE CommitInvariant'
  <2>1. OneOuter' /\ SourceIsOwned' /\ stack' # <<>>
    BY <1>2, <1>5, BodyOver DEF Refuse, SourceTaken
  <2>2. UNCHANGED <<log, onCommit, onChange, commits, listeners, received, told,
                    sequence, seen>>
    BY <1>5 DEF Refuse, registered, queues, observed
  <2>3. LastIsDelivered' /\ ListenersAreTold' /\ SubscribersAreQueued'
    BY <2>2, OthersDeliver, OthersQueue
  <2>4. CalledOnce'
    BY <2>2, OthersCallOnce DEF CalledOnce
  <2>. QED  BY <1>1, <2>1, <2>3, <2>4 DEF RestIsClean, AtRest
<1>6. ASSUME Destroy PROVE CommitInvariant'
  <2>1. OneOuter' /\ SourceIsOwned' /\ stack' # <<>>
    BY <1>2, <1>6, BodyOver DEF Destroy
  <2>2. UNCHANGED <<log, commits, listeners, received, told, sequence, seen>>
    BY <1>6 DEF Destroy, queues, observed
  <2>3. onCommit' = <<>> /\ Elements(onCommit') = {} /\ Elements(onChange') = {}
    BY <1>6 DEF Destroy, ForgetListeners, Elements
  <2>5. CalledOnce'
    BY <2>2, <2>3, OthersCallOnce DEF Distinct
  <2>4. LastIsDelivered' /\ ListenersAreTold' /\ SubscribersAreQueued'
    BY <2>2, <2>3, OthersDeliver, OthersQueue
  <2>. QED  BY <1>1, <2>1, <2>4, <2>5 DEF RestIsClean, AtRest
<1>7. ASSUME Flush PROVE CommitInvariant'
  <2>1. Head(listeners) \in Subscribers
    BY <1>7, ElementsOfTail DEF Flush, TypeOK
  <2>2. OneOuter' /\ SourceIsOwned' /\ stack' # <<>>
    BY <1>7, <2>1, CallbackPushed DEF Flush, InRun
  <2>3. LastIsDelivered' /\ ListenersAreTold'
    BY <1>7, OthersDeliver DEF Flush, registered
  <2>5. CalledOnce'
    BY <1>7, OthersCallOnce DEF Flush, registered, CalledOnce
  <2>4. SubscribersAreQueued'
    BY <1>7, FlushQueues
  <2>. QED  BY <1>1, <2>2, <2>3, <2>4, <2>5 DEF RestIsClean, AtRest
<1>8. ASSUME Finish PROVE CommitInvariant'
  <2>1. OneOuter' /\ SourceIsOwned' /\ (stack' = <<>> => Top.outer)
    BY <1>8, RunPopped
  <2>2. UNCHANGED <<log, onCommit, onChange, commits, listeners, received, told,
                    sequence, seen>>
    BY <1>8 DEF Finish, registered, queues, observed
  <2>3. LastIsDelivered' /\ ListenersAreTold' /\ SubscribersAreQueued'
    BY <2>2, OthersDeliver, OthersQueue
  <2>4. Top.outer => commits = <<>> /\ listeners = <<>>
    BY <1>8 DEF Finish
  <2>5. Top.outer => ~failure'
    BY <1>8, Zenon DEF Finish
  <2>6. RestIsClean'
    BY <2>1, <2>2, <2>4, <2>5 DEF RestIsClean, AtRest
  <2>7. CalledOnce'
    BY <2>2, OthersCallOnce DEF CalledOnce
  <2>. QED  BY <1>1, <2>1, <2>3, <2>6, <2>7
<1>9. ASSUME Drain PROVE CommitInvariant'
  <2>1. LastIsDelivered' /\ ListenersAreTold' /\ CalledOnce'
    BY <1>9, DrainDelivers, DrainCallsOnce
  <2>2. SubscribersAreQueued'
    BY <1>9, OthersQueue DEF Drain, registered
  <2>3. OneOuter' /\ SourceIsOwned' /\ stack' # <<>>
    <3>1. CASE Head(commits).who = Transport
      BY <1>9, <3>1 DEF Drain, OneOuter, SourceIsOwned, IsReplay
    <3>2. CASE Head(commits).who # Transport
      <4>1. Head(commits) \in Deliveries
        BY <1>9, ElementsOfTail DEF Drain, TypeOK
      <4>2. Head(commits).who \in CommitListeners
        BY <3>2, <4>1 DEF Deliveries
      <4>. QED  BY <1>9, <3>2, <4>2, CallbackPushed DEF Drain
    <3>. QED  BY <3>1, <3>2
  <2>. QED  BY <1>1, <2>1, <2>2, <2>3 DEF RestIsClean, AtRest
<1>. QED  BY <1>3, <1>4, <1>5, <1>6, <1>7, <1>8, <1>9 DEF RunNext

LEMMA UserKeepsInvariant ==
  ASSUME CommitInvariant, UserNext
  PROVE  CommitInvariant'
<1>. USE DEF CommitInvariant
<1>1. TypeOK'
  BY UserTypes
<1>2. ASSUME NEW op \in Operations, Call(op) PROVE CommitInvariant'
  <2>1. OneOuter' /\ SourceIsOwned'
    BY <1>2, Called
  <2>2. stack' # <<>>
    <3>1. Len(stack') = Len(stack) + 1 /\ Len(stack) \in Nat
      BY <1>2, LenProperties DEF Call, TypeOK
    <3>. QED  BY <3>1
  <2>3. LastIsDelivered' /\ ListenersAreTold' /\ SubscribersAreQueued'
    BY <1>2, OthersDeliver, OthersQueue DEF Call, registered, queues, observed
  <2>4. CalledOnce'
    BY <1>2, OthersCallOnce DEF Call, registered, queues, observed, CalledOnce
  <2>. QED  BY <1>1, <2>1, <2>2, <2>3, <2>4 DEF RestIsClean, AtRest
<1>3. ASSUME UNCHANGED <<stack, pendingCommitSource, commits, listeners, failure>>
      PROVE  OneOuter' /\ SourceIsOwned' /\ RestIsClean'
  BY <1>3 DEF OneOuter, SourceIsOwned, IsReplay, RestIsClean, AtRest
<1>4. ASSUME NEW l \in CommitListeners, ListenToCommits(l) PROVE CommitInvariant'
  <2>1. LastIsDelivered' /\ ListenersAreTold' /\ CalledOnce'
    BY <1>4, JoinDelivers, JoinCallsOnce
  <2>2. SubscribersAreQueued'
    BY <1>4, OthersQueue DEF ListenToCommits, queues
  <2>. QED  BY <1>1, <1>3, <1>4, <2>1, <2>2 DEF ListenToCommits, queues
<1>5. ASSUME NEW l \in CommitListeners, StopListening(l) PROVE CommitInvariant'
  <2>1. Elements(onCommit') \subseteq Elements(onCommit)
    BY <1>5, ElementsOfWithout DEF StopListening, TypeOK
  <2>2. LastIsDelivered' /\ ListenersAreTold' /\ SubscribersAreQueued'
    BY <1>5, <2>1, OthersDeliver, OthersQueue DEF StopListening, queues, observed
  <2>3. Distinct(onCommit')
    BY <1>5, WithoutIsDistinct DEF StopListening, TypeOK, CalledOnce
  <2>4. CalledOnce'
    BY <1>5, <2>3, OthersCallOnce DEF StopListening, queues, observed
  <2>. QED  BY <1>1, <1>3, <1>5, <2>2, <2>4 DEF StopListening, queues
<1>6. ASSUME NEW s \in Subscribers, Subscribe(s) PROVE CommitInvariant'
  <2>1. SubscribersAreQueued'
    BY <1>6, SubscribeQueues
  <2>2. LastIsDelivered' /\ ListenersAreTold'
    BY <1>6, OthersDeliver DEF Subscribe, queues
  <2>3. CalledOnce'
    BY <1>6, OthersCallOnce DEF Subscribe, queues, CalledOnce
  <2>. QED  BY <1>1, <1>3, <1>6, <2>1, <2>2, <2>3 DEF Subscribe, queues
<1>7. ASSUME NEW s \in Subscribers, Unsubscribe(s) PROVE CommitInvariant'
  <2>1. Elements(onChange') \subseteq Elements(onChange)
    BY <1>7, ElementsOfWithout DEF Unsubscribe, TypeOK
  <2>2. LastIsDelivered' /\ ListenersAreTold' /\ SubscribersAreQueued'
    BY <1>7, <2>1, OthersDeliver, OthersQueue DEF Unsubscribe, queues, observed
  <2>3. CalledOnce'
    BY <1>7, OthersCallOnce DEF Unsubscribe, queues, observed, CalledOnce
  <2>. QED  BY <1>1, <1>3, <1>7, <2>2, <2>3 DEF Unsubscribe, queues
<1>8. ASSUME Return \/ Throw PROVE CommitInvariant'
  <2>1. /\ InCallback /\ stack' = Below
        /\ UNCHANGED <<log, onCommit, onChange, commits, listeners,
                       pendingCommitSource, received, told, sequence, seen>>
    BY <1>8 DEF Return, Throw, registered, queues, observed
  <2>2. OneOuter' /\ SourceIsOwned' /\ stack' # <<>>
    BY <2>1, CallbackPopped
  <2>3. LastIsDelivered' /\ ListenersAreTold' /\ SubscribersAreQueued'
    BY <2>1, OthersDeliver, OthersQueue
  <2>4. CalledOnce'
    BY <2>1, OthersCallOnce DEF CalledOnce
  <2>. QED  BY <1>1, <2>2, <2>3, <2>4 DEF RestIsClean, AtRest
<1>. QED  BY <1>2, <1>4, <1>5, <1>6, <1>7, <1>8 DEF UserNext

\* The invariant holds in every reachable state: it is what the commits,
\* notifications.run and the replays keep between two steps, in the middle of a
\* write included.
THEOREM InvariantHolds == Spec => []CommitInvariant
<1>1. Init => CommitInvariant
  BY InvariantInitially
<1>2. CommitInvariant /\ [Next]_vars => CommitInvariant'
  <2>1. ASSUME CommitInvariant, UNCHANGED vars PROVE CommitInvariant'
    <3>1. TypeOK'
      BY <2>1 DEF CommitInvariant, TypeOK, vars, registered, queues, observed
    <3>2. OneOuter' /\ SourceIsOwned' /\ RestIsClean'
      BY <2>1 DEF CommitInvariant, OneOuter, SourceIsOwned, IsReplay,
                  RestIsClean, AtRest, vars, queues
    <3>3. LastIsDelivered' /\ ListenersAreTold' /\ SubscribersAreQueued'
      BY <2>1, OthersDeliver, OthersQueue
         DEF CommitInvariant, vars, registered, queues, observed
    <3>4. CalledOnce'
      BY <2>1, OthersCallOnce
         DEF CommitInvariant, CalledOnce, vars, registered, queues, observed
    <3>. QED  BY <3>1, <3>2, <3>3, <3>4 DEF CommitInvariant
  <2>. QED  BY <2>1, RunKeepsInvariant, UserKeepsInvariant DEF Next
<1>. QED  BY <1>1, <1>2, PTL DEF Spec

\* When no write is in progress there is nothing to deliver, no error to report
\* and no source of a replay, and the transport has numbered every commit,
\* whatever the observers did (notifications.run, publishCommit).
THEOREM WritesLeaveNothing == Spec => []NothingLeftBehind
<1>1. CommitInvariant => NothingLeftBehind
  <2>1. ASSUME CommitInvariant, AtRest
        PROVE  commits = <<>> /\ listeners = <<>> /\ ~failure
    BY <2>1 DEF CommitInvariant, RestIsClean
  <2>2. ASSUME CommitInvariant, AtRest PROVE pendingCommitSource = "none"
    BY <2>2 DEF CommitInvariant, SourceIsOwned, TypeOK, AtRest
  <2>3. ASSUME CommitInvariant, AtRest PROVE sequence = Len(log)
    BY <2>1, <2>3 DEF CommitInvariant, LastIsDelivered
  <2>. QED  BY <2>1, <2>2, <2>3 DEF NothingLeftBehind
<1>. QED  BY <1>1, InvariantHolds, PTL

\* When no write is in progress every subscriber has been called since the last
\* commit, whichever observers threw, wrote or left (notifyStateChange, run).
THEOREM SubscribersFollow == Spec => []SubscribersAreCurrent
<1>1. CommitInvariant => SubscribersAreCurrent
  BY DEF CommitInvariant, RestIsClean, SubscribersAreQueued,
         SubscribersAreCurrent, Elements
<1>. QED  BY <1>1, InvariantHolds, PTL

-----------------------------------------------------------------------------
(* A store implements CommitLog.                                           *)

LEMMA CommitImplements ==
  ASSUME CommitInvariant, NEW op \in Operations, Commit(op)
  PROVE  Log!Commit
<1>1. commits = <<>> /\ UNCHANGED <<onCommit, received, told>>
  BY DEF Commit, AtBody, registered, observed
<1>2. \A l \in Elements(onCommit) : received[l] = Len(log)
  BY <1>1 DEF CommitInvariant, ListenersAreTold
<1>3. Len(log') = Len(log) + 1
  <2>1. CommitSource(op) \in Sources \ {"none"}
    BY DEF CommitSource, Sources
  <2>2. [op |-> op, source |-> CommitSource(op)] \in Commits
    BY <2>1 DEF Commit, Commits
  <2>. QED  BY <2>2, AppendProperties DEF Commit, CommitInvariant, TypeOK
<1>4. Elements(onCommit') = Elements(onCommit)
  BY <1>1
<1>. QED  BY <1>1, <1>2, <1>3, <1>4 DEF Log!Commit

\* Who is in the queue has not been told of the last commit, and is told of it.
LEMMA DrainImplements ==
  ASSUME CommitInvariant, Drain
  PROVE  [Log!Next]_(Log!vars)
<1>1. TypeOK /\ LastIsDelivered /\ commits # <<>>
  BY DEF CommitInvariant, Drain
<1>2. /\ Head(commits) \in Deliveries /\ 1 \in DOMAIN commits
      /\ Head(commits) = commits[1]
  <2>1. Len(commits) \in Nat \ {0} /\ DOMAIN commits = 1 .. Len(commits)
    BY <1>1, EmptySeq, LenProperties DEF TypeOK
  <2>. QED  BY <1>1, <2>1, ElementsOfTail DEF TypeOK
<1>3. UNCHANGED <<Len(log), Elements(onCommit)>>
  BY DEF Drain, registered, Elements
<1>4. CASE Head(commits).who = Transport
  BY <1>3, <1>4 DEF Drain, Log!vars
<1>5. CASE Head(commits).who # Transport
  <2>. DEFINE l == Head(commits).who
  <2>1. /\ l \in CommitListeners
        /\ Head(commits).commit = Len(log)
        /\ received[l] = Len(log) - 1
    BY <1>1, <1>2, <1>5 DEF LastIsDelivered, Deliveries
  <2>2. /\ received' = [received EXCEPT ![l] = Len(log)]
        /\ told' = [told EXCEPT ![l] = @ + 1]
    BY <1>5, <2>1 DEF Drain
  <2>. HIDE DEF l
  <2>3. Log!Tell(l)
    BY <1>3, <2>1, <2>2 DEF Log!Tell
  <2>. QED  BY <2>1, <2>3 DEF Log!Next
<1>. QED  BY <1>4, <1>5

LEMMA RunImplements ==
  ASSUME CommitInvariant, RunNext
  PROVE  [Log!Next]_(Log!vars)
<1>1. ASSUME UNCHANGED <<log, onCommit, received, told>> PROVE UNCHANGED Log!vars
  BY <1>1 DEF Log!vars, Elements
<1>2. ASSUME NEW op \in Operations, Commit(op) PROVE Log!Next
  BY <1>2, CommitImplements DEF Log!Next
<1>3. ASSUME NEW op \in Operations, Unchanged(op) \/ Refuse(op)
      PROVE  UNCHANGED Log!vars
  BY <1>1, <1>3 DEF Unchanged, Refuse, registered, observed
<1>4. ASSUME Destroy PROVE Log!Next
  <2>1. UNCHANGED <<log, received, told>> /\ Elements(onCommit') = {}
    BY <1>4 DEF Destroy, ForgetListeners, Elements, observed
  <2>2. Log!Leave
    BY <2>1 DEF Log!Leave
  <2>. QED  BY <2>2 DEF Log!Next
<1>5. ASSUME Flush \/ Finish PROVE UNCHANGED Log!vars
  BY <1>1, <1>5 DEF Flush, Finish, registered, observed
<1>. QED  BY <1>2, <1>3, <1>4, <1>5, DrainImplements DEF RunNext

LEMMA UserImplements ==
  ASSUME CommitInvariant, UserNext
  PROVE  [Log!Next]_(Log!vars)
<1>1. ASSUME UNCHANGED <<log, onCommit, received, told>> PROVE UNCHANGED Log!vars
  BY <1>1 DEF Log!vars, Elements
<1>2. ASSUME NEW op \in Operations, Call(op) PROVE UNCHANGED Log!vars
  BY <1>1, <1>2 DEF Call, registered, observed
<1>3. ASSUME NEW l \in CommitListeners, ListenToCommits(l) PROVE Log!Next
  <2>1. Elements(onCommit') = Elements(onCommit) \cup {l}
    BY <1>3, ElementsOfAppend DEF ListenToCommits, CommitInvariant, TypeOK
  <2>2. l \notin Elements(onCommit) /\ UNCHANGED Len(log)
    BY <1>3 DEF ListenToCommits
  <2>3. CASE Queued(l)
    <3>1. UNCHANGED <<received, told>>
      BY <1>3, <2>3 DEF ListenToCommits
    <3>2. received[l] = Len(log) - 1
      BY <2>3, CallsAssumption DEF CommitInvariant, LastIsDelivered, Queued
    <3>. QED  BY <2>1, <2>2, <3>1, <3>2 DEF Log!Next, Log!Join
  <2>4. CASE ~Queued(l)
    <3>1. /\ received' = [received EXCEPT ![l] = Len(log)]
          /\ told' = [told EXCEPT ![l] = Len(log)]
      BY <1>3, <2>4 DEF ListenToCommits
    <3>. QED  BY <2>1, <2>2, <3>1 DEF Log!Next, Log!Join
  <2>. QED  BY <2>3, <2>4
<1>4. ASSUME NEW l \in CommitListeners, StopListening(l) PROVE Log!Next
  <2>1. Elements(onCommit') \subseteq Elements(onCommit)
    BY <1>4, ElementsOfWithout DEF StopListening, CommitInvariant, TypeOK
  <2>2. Log!Leave
    BY <1>4, <2>1 DEF StopListening, Log!Leave, observed
  <2>. QED  BY <2>2 DEF Log!Next
<1>5. ASSUME NEW s \in Subscribers, Subscribe(s) \/ Unsubscribe(s)
      PROVE  UNCHANGED Log!vars
  BY <1>1, <1>5 DEF Subscribe, Unsubscribe, observed
<1>6. ASSUME Return \/ Throw PROVE UNCHANGED Log!vars
  BY <1>1, <1>6 DEF Return, Throw, registered, observed
<1>. QED  BY <1>2, <1>3, <1>4, <1>5, <1>6 DEF UserNext

\* However writes, listeners and errors nest, every listener is told of each
\* commit made since it registered, once and before the next one is made
\* (notifications.run, publishCommit, onStoreCommit).
THEOREM StoresImplementLog == Spec => ImplementsLog
<1>1. Init => Log!Init
  BY DEF Init, Log!Init, Elements
<1>2. CommitInvariant /\ [Next]_vars => [Log!Next]_(Log!vars)
  <2>1. ASSUME UNCHANGED vars PROVE UNCHANGED Log!vars
    BY <2>1 DEF vars, registered, observed, Log!vars, Elements
  <2>. QED  BY <2>1, RunImplements, UserImplements DEF Next
<1>. QED  BY <1>1, <1>2, InvariantHolds, PTL DEF Spec, ImplementsLog, Log!Spec
=============================================================================
