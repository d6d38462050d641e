--------------------------- MODULE HistoryProofs ---------------------------
(***************************************************************************)
(* Proofs about History for every set of keys and values and every bound.  *)
(***************************************************************************)
EXTENDS History, SequenceTheorems, WellFoundedInduction, TLAPS

\* No observer throws where its error makes history lose a change.
NoLoss == "lose" \notin Faults

\* No observer calls a legacy history in the middle of a call.
NoNesting == "nested" \notin Faults

-----------------------------------------------------------------------------
(* The invariant.                                                          *)

Moving(call) == call.kind \in {"undo", "redo"}

\* A move has written the store.
Moved == \E i \in DOMAIN stack : Moving(stack[i]) /\ stack[i].at # "refused"

Awaited == \E i \in DOMAIN waiting : waiting[i] = "history"

\* One move at most is under way, and none in a hydration; a write that was
\* refused is the innermost call.
CallsNest ==
  /\ traveling <=> UnderWay({"undo", "redo"})
  /\ \A i, j \in DOMAIN stack : Moving(stack[i]) /\ Moving(stack[j]) => i = j
  /\ \A i \in DOMAIN stack :
       /\ stack[i].kind = "hydrate" => i = 1
       /\ stack[i].at = "refused" =>
            i = Len(stack) /\ Moving(stack[i]) /\ stack[i].before = Projected(state)
  /\ Suppressed => ~traveling
  /\ recording => UnderWay({"setState", "hydrate"})

\* A move that is under way can be taken back.
MovesHaveRoom ==
  \A i \in DOMAIN stack : Moving(stack[i]) =>
    IF engine = "journal"
    THEN IF stack[i].kind = "undo" THEN position > 0 ELSE position < Len(entries)
    ELSE (IF stack[i].kind = "undo" THEN future ELSE past) # <<>>

\* There are never more states than the limit allows.
Limited ==
  IF engine = "journal" THEN Len(entries) <= Limit /\ past = <<>> /\ future = <<>>
  ELSE Len(past) + Len(future) <= Limit

TypeInvariant == TypeOK /\ Limited /\ CallsNest /\ MovesHaveRoom

\* When nothing is under way nobody waits to be called, and nothing has failed
\* that loses a change.
CallsRest ==
  /\ stack = <<>> => waiting = <<>> /\ ~failed
  /\ stack # <<>> => /\ Len(stack) = 1 /\ stack[1].at = "refused" => waiting = <<>>
                     /\ failed => stack[1].kind \in {"write", "hydrate"}

\* What history calls current is the store, or it is still to look at it.
Followed ==
  /\ engine = "legacy" => present = Projected(state) \/ Awaited
  /\ engine # "legacy" /\ ~Moved /\ ~Suppressed =>
       \/ present = Projected(state)
       \/ ~(Whole /\ engine = "journal") /\ (Awaited \/ UnderWay({"setState"}))
  /\ Whole /\ engine = "journal" => ~Awaited

ShownInvariant == TypeInvariant /\ CallsRest /\ Followed

\* A legacy history is called in the middle of a call by writes only.
LegacyCalls ==
  engine = "legacy" =>
    /\ \A i \in DOMAIN stack : i # 1 => stack[i].kind = "write"
    /\ stack # <<>> /\ stack[1].kind = "setState" => recording

OddKeys(s) == {k \in DOMAIN s : s[k] \in Odd}

\* Where a move goes, and that it gets there, whatever observers write meanwhile.
MovesArrive ==
  \A i \in DOMAIN stack : Moving(stack[i]) =>
    LET call == stack[i] IN
      /\ call.at # "refused" =>
           /\ ~meddled => Projected(state) = call.target
           /\ OddKeys(Projected(state)) \subseteq OddKeys(call.target)
      /\ engine = "journal" =>
           call.target = Patched(present, IF call.kind = "undo" THEN entries[position].inverse
                                          ELSE entries[position + 1].patches)
      /\ engine # "journal" =>
           Last(IF call.kind = "undo" THEN future ELSE past) =
             IF engine = "legacy" THEN call.before ELSE present

\* The patches of a journal lead back and forth between the same states.
Exact ==
  engine = "journal" /\ ~meddled =>
    \E line \in [0..Len(entries) -> Snapshot] :
      /\ line[position] = present
      /\ \A i \in 1..Len(entries) :
           /\ line[i - 1] = Patched(line[i], entries[i].inverse)
           /\ line[i] = Patched(line[i - 1], entries[i].patches)

\* Only the first state of a projection's journal may be one that patches cannot
\* represent, after a hydration.
OddIsFirst ==
  ~Whole /\ engine = "journal" =>
    /\ \A i \in 1..Len(entries) :
         /\ Compatible(entries[i].patches)
         /\ DOMAIN entries[i].inverse = DOMAIN entries[i].patches
         /\ i > 1 => Compatible(entries[i].inverse)
    /\ position > 0 => Compatible(present)
    /\ position = 0 /\ entries # <<>> => OddKeys(present) \subseteq DOMAIN entries[1].patches

TimelineInvariant ==
  ShownInvariant /\ LegacyCalls /\ MovesArrive /\ Exact /\ OddIsFirst

-----------------------------------------------------------------------------
(* Snapshots and patches.                                                  *)

SnapshotsOf(ks) == [ks -> Values]
PatchesOf(ks) == UNION {[js -> Values] : js \in SUBSET ks}
EntriesOf(ks) == [patches : PatchesOf(ks), inverse : PatchesOf(ks)]

LEMMA PatchFacts ==
  ASSUME NEW ks, NEW s \in SnapshotsOf(ks), NEW p \in PatchesOf(ks)
  PROVE  /\ Patched(s, p) \in SnapshotsOf(ks)
         /\ \A k \in ks : Patched(s, p)[k] = IF k \in DOMAIN p THEN p[k] ELSE s[k]
BY DEF SnapshotsOf, PatchesOf, Patched

LEMMA SameSnapshot ==
  ASSUME NEW ks, NEW s \in SnapshotsOf(ks), NEW t \in SnapshotsOf(ks),
         \A k \in ks : s[k] = t[k]
  PROVE  s = t
BY DEF SnapshotsOf

LEMMA DifferenceFacts ==
  ASSUME NEW ks, NEW s \in SnapshotsOf(ks), NEW t \in SnapshotsOf(ks)
  PROVE  /\ Patches(s, t) \in PatchesOf(ks)
         /\ DOMAIN Patches(s, t) \subseteq ks
         /\ \A k \in ks : k \in DOMAIN Patches(s, t) <=> s[k] # t[k]
         /\ \A k \in ks : s[k] # t[k] => Patches(s, t)[k] = t[k]
         /\ Patched(s, Patches(s, t)) = t
<1>1. PICK p : p = Patches(s, t)
  OBVIOUS
<1>2. /\ DOMAIN p = {k \in ks : s[k] # t[k]}
      /\ \A k \in ks : s[k] # t[k] => p[k] = t[k]
      /\ p = [k \in {k \in ks : s[k] # t[k]} |-> t[k]]
  BY <1>1 DEF Patches, SnapshotsOf
<1>3. p \in [{k \in ks : s[k] # t[k]} -> Values]
  BY <1>2 DEF SnapshotsOf
<1>4. p \in PatchesOf(ks)
  BY <1>3 DEF PatchesOf
<1>5. /\ Patched(s, p) \in SnapshotsOf(ks)
      /\ \A k \in ks : Patched(s, p)[k] = t[k]
  BY <1>2, <1>4, PatchFacts
<1>6. Patched(s, p) = t
  BY <1>5, SameSnapshot
<1>. QED  BY <1>1, <1>2, <1>4, <1>6

LEMMA EntryFacts ==
  ASSUME NEW ks, NEW s \in SnapshotsOf(ks), NEW t \in SnapshotsOf(ks)
  PROVE  /\ Entry(s, t) \in EntriesOf(ks)
         /\ Entry(s, t).patches = Patches(s, t)
         /\ Entry(s, t).inverse = Patches(t, s)
         /\ DOMAIN Entry(s, t).inverse = DOMAIN Entry(s, t).patches
         /\ Patched(s, Entry(s, t).patches) = t
         /\ Patched(t, Entry(s, t).inverse) = s
<1>1. /\ Patches(s, t) \in PatchesOf(ks)
      /\ DOMAIN Patches(s, t) \subseteq ks
      /\ \A k \in ks : k \in DOMAIN Patches(s, t) <=> s[k] # t[k]
      /\ Patched(s, Patches(s, t)) = t
  BY DifferenceFacts
<1>2. /\ Patches(t, s) \in PatchesOf(ks)
      /\ DOMAIN Patches(t, s) \subseteq ks
      /\ \A k \in ks : k \in DOMAIN Patches(t, s) <=> t[k] # s[k]
      /\ Patched(t, Patches(t, s)) = s
  BY DifferenceFacts
<1>3. DOMAIN Patches(s, t) = DOMAIN Patches(t, s)
  BY <1>1, <1>2
<1>. QED  BY <1>1, <1>2, <1>3 DEF Entry, EntriesOf

-----------------------------------------------------------------------------
(* Lists.                                                                  *)

LEMMA AppendFacts ==
  ASSUME NEW S, NEW list \in Seq(S), NEW x \in S
  PROVE  /\ Append(list, x) \in Seq(S)
         /\ Append(list, x) # <<>>
         /\ Len(Append(list, x)) = Len(list) + 1
         /\ Len(list) \in Nat
         /\ \A i \in 1 .. Len(list) : Append(list, x)[i] = list[i]
         /\ Append(list, x)[Len(list) + 1] = x
         /\ Last(Append(list, x)) = x
         /\ Front(Append(list, x)) = list
<1>1. PICK a : a = Append(list, x)
  OBVIOUS
<1>2. /\ a \in Seq(S) /\ a # <<>>
      /\ Len(a) = Len(list) + 1
      /\ Len(list) \in Nat
      /\ \A i \in 1 .. Len(list) : a[i] = list[i]
      /\ a[Len(list) + 1] = x
  BY <1>1, AppendProperties, LenProperties
<1>3. Last(a) = x
  BY <1>2 DEF Last
<1>4. /\ SubSeq(a, 1, Len(list)) \in Seq(S)
      /\ Len(SubSeq(a, 1, Len(list))) = Len(list)
      /\ \A i \in 1 .. Len(list) : SubSeq(a, 1, Len(list))[i] = a[i]
  <2>1. \A i \in 1 .. Len(list) : a[i] \in S
    BY <1>2, ElementOfSeq
  <2>2. /\ SubSeq(a, 1, Len(list)) \in Seq(S)
        /\ Len(SubSeq(a, 1, Len(list))) = IF 1 <= Len(list) THEN Len(list) - 1 + 1 ELSE 0
        /\ \A i \in 1 .. Len(list) - 1 + 1 : SubSeq(a, 1, Len(list))[i] = a[1 + i - 1]
    BY <1>2, <2>1, SubSeqProperties
  <2>. QED  BY <1>2, <2>2
<1>5. Front(a) = SubSeq(a, 1, Len(list))
  BY <1>2 DEF Front
<1>6. Front(a) = list
  BY <1>2, <1>4, <1>5, SeqEqual
<1>. QED  BY <1>1, <1>2, <1>3, <1>6

LEMMA FrontFacts ==
  ASSUME NEW S, NEW list \in Seq(S), list # <<>>
  PROVE  /\ Front(list) \in Seq(S)
         /\ Last(list) \in S
         /\ Len(list) \in Nat \ {0}
         /\ Len(Front(list)) = Len(list) - 1
         /\ \A i \in 1 .. Len(list) - 1 : Front(list)[i] = list[i]
         /\ Last(list) = list[Len(list)]
         /\ Append(Front(list), Last(list)) = list
<1>1. PICK s \in Seq(S), x \in S : list = Append(s, x)
  BY SequenceEmptyOrAppend
<1>2. /\ Last(list) = x /\ Front(list) = s
      /\ Len(list) = Len(s) + 1 /\ Len(s) \in Nat
      /\ \A i \in 1 .. Len(s) : list[i] = s[i]
      /\ list[Len(s) + 1] = x
  BY <1>1, AppendFacts
<1>. QED  BY <1>1, <1>2

LEMMA ReverseFacts ==
  ASSUME NEW S, NEW list \in Seq(S)
  PROVE  /\ Reverse(list) \in Seq(S)
         /\ Len(Reverse(list)) = Len(list)
         /\ Len(list) \in Nat
         /\ \A i \in 1 .. Len(list) : Reverse(list)[i] = list[Len(list) + 1 - i]
<1>1. Len(list) \in Nat /\ \A i \in 1 .. Len(list) : list[i] \in S
  BY LenProperties, ElementOfSeq
<1>2. Reverse(list) = [i \in 1 .. Len(list) |-> list[(Len(list) - i) + 1]]
  BY DEF Reverse
<1>3. \A i \in 1 .. Len(list) : (Len(list) - i) + 1 \in 1 .. Len(list)
  BY <1>1
<1>. QED  BY <1>1, <1>2, <1>3

\* A list that has grown by one, cut to the limit.
LEMMA NewestFacts ==
  ASSUME NEW S, NEW list \in Seq(S), Len(list) <= Limit + 1
  PROVE  /\ Newest(list) \in Seq(S)
         /\ Len(list) \in Nat
         /\ Len(list) <= Limit => Newest(list) = list
         /\ Len(list) > Limit =>
              /\ Len(Newest(list)) = Limit
              /\ \A i \in 1 .. Limit : Newest(list)[i] = list[i + 1]
         /\ Len(Newest(list)) <= Limit
         /\ Newest(list) = Timeline!Newest(list)
<1>1. Len(list) \in Nat /\ Limit \in Nat /\ \A i \in 1 .. Len(list) : list[i] \in S
  BY LenProperties, ElementOfSeq, HistoryAssumption
<1>2. CASE Len(list) <= Limit
  <2>1. Newest(list) = SubSeq(list, 1, Len(list)) /\ Timeline!Newest(list) = Newest(list)
    <3>1. ~(Len(list) > Limit)
      BY <1>1, <1>2
    <3>. QED  BY <3>1, Zenon DEF Newest, Timeline!Newest
  <2>2. SubSeq(list, 1, Len(list)) = list
    BY SubSeqFull
  <2>3. Newest(list) = list /\ Timeline!Newest(list) = list
    BY <2>1, <2>2, Zenon
  <2>4. ~(Len(list) > Limit) /\ Len(Newest(list)) <= Limit
    BY <1>1, <1>2, <2>3
  <2>. QED  BY <1>1, <2>3, <2>4
<1>3. CASE Len(list) = Limit + 1
  <2>1. Len(list) > Limit /\ Len(list) - Limit + 1 = 2
    BY <1>1, <1>3
  <2>2. Newest(list) = SubSeq(list, 2, Len(list)) /\ Timeline!Newest(list) = Newest(list)
    BY <2>1, Zenon DEF Newest, Timeline!Newest
  <2>3. /\ SubSeq(list, 2, Len(list)) \in Seq(S)
        /\ Len(SubSeq(list, 2, Len(list))) = IF 2 <= Len(list) THEN Len(list) - 2 + 1 ELSE 0
        /\ \A i \in 1 .. Len(list) - 2 + 1 : SubSeq(list, 2, Len(list))[i] = list[2 + i - 1]
    <3>1. \A i \in 2 .. Len(list) : list[i] \in S
      BY <1>1
    <3>. QED  BY <1>1, <3>1, SubSeqProperties
  <2>4. \A i \in 1 .. Limit : Newest(list)[i] = list[i + 1]
    BY <1>1, <1>3, <2>2, <2>3
  <2>5. Len(Newest(list)) = Limit /\ Newest(list) \in Seq(S)
    BY <1>1, <1>3, <2>2, <2>3
  <2>6. ~(Len(list) <= Limit) /\ Limit <= Limit
    BY <1>1, <1>3
  <2>7. Len(Newest(list)) <= Limit
    BY <2>5, <2>6
  <2>. QED  BY <1>1, <2>2, <2>4, <2>5, <2>6, <2>7
<1>4. Len(list) <= Limit \/ Len(list) = Limit + 1
  BY <1>1
<1>. QED  BY <1>2, <1>3, <1>4

-----------------------------------------------------------------------------
(* What patches lead to, one after the other.                              *)

\* Induction over the numbers up to n, with a set for the predicate.
LEMMA Induction ==
  ASSUME NEW T, NEW n \in Nat, 0 \in T, \A i \in 0 .. n - 1 : i \in T => i + 1 \in T
  PROVE  0 .. n \subseteq T
<1>. DEFINE Less == {p \in Nat \X Nat : p[1] < p[2]}
            Left == {i \in Nat : i <= n /\ i \notin T}
<1>1. IsWellFoundedOn(Less, Nat)
  <2>1. Less = OpToRel(<, Nat)
    BY Zenon DEF OpToRel
  <2>. QED  BY <2>1, NatLessThanWellFounded, Zenon
<1>2. SUFFICES ASSUME Left # {} PROVE FALSE
  OBVIOUS
<1>3. PICK i \in Left : \A j \in Left : ~(<<j, i>> \in Less)
  BY <1>1, <1>2, WFMin
<1>4. i # 0 /\ i - 1 \in 0 .. n - 1 /\ <<i - 1, i>> \in Less
  BY <1>3
<1>5. i - 1 \in T
  BY <1>3, <1>4
<1>. QED  BY <1>3, <1>4, <1>5

\* The right-hand side of the recursion in Steps.
Stepping(f, s, patches, n) ==
  [i \in 0 .. n |-> IF i = 0 THEN s ELSE Patched(f[i - 1], patches[i])]

LEMMA SteppingExists ==
  ASSUME NEW s, NEW patches, NEW n \in Nat
  PROVE  LET t == CHOOSE f : f = Stepping(f, s, patches, n)
         IN  t = Stepping(t, s, patches, n)
<1>. DEFINE Body(f, m) == Stepping(f, s, patches, m)
            T == {m \in 0 .. n : \E f : f = Body(f, m)}
<1>1. 0 \in T
  <2>. DEFINE f == [i \in 0 .. 0 |-> s]
  <2>1. f = Body(f, 0)
    BY DEF Stepping
  <2>. HIDE DEF f
  <2>2. \E g : g = Body(g, 0)
    BY <2>1
  <2>. QED  BY <2>2
<1>2. ASSUME NEW m \in 0 .. n - 1, m \in T PROVE m + 1 \in T
  <2>1. PICK f : f = Body(f, m)
    BY <1>2
  <2>. DEFINE next == Patched(f[m], patches[m + 1])
              g == [i \in 0 .. m + 1 |-> IF i = m + 1 THEN next ELSE f[i]]
  <2>. HIDE DEF next
  <2>2. m \in Nat /\ 0 \in 0 .. m /\ m + 1 \in 0 .. n
    BY <1>2
  <2>3. \A i \in 0 .. m + 1 : g[i] = IF i = m + 1 THEN next ELSE f[i]
    OBVIOUS
  <2>4. ASSUME NEW i \in 0 .. m + 1 PROVE g[i] = Body(g, m + 1)[i]
    <3>1. CASE i = 0
      <4>1. f[0] = s
        BY <2>1, <2>2 DEF Stepping
      <4>. QED  BY <2>2, <2>3, <3>1, <4>1 DEF Stepping
    <3>2. CASE i \in 1 .. m
      <4>1. i - 1 \in 0 .. m + 1 /\ i - 1 # m + 1 /\ i \in 0 .. m /\ i # 0 /\ i # m + 1
        BY <2>2, <3>2
      <4>2. f[i] = Body(f, m)[i]
        BY <2>1, Zenon
      <4>3. f[i] = Patched(f[i - 1], patches[i])
        BY <4>1, <4>2 DEF Stepping
      <4>. QED  BY <2>3, <4>1, <4>3 DEF Stepping
    <3>3. CASE i = m + 1
      <4>1. i # 0 /\ i - 1 = m /\ m \in 0 .. m + 1 /\ m # m + 1
        BY <2>2, <3>3
      <4>2. g[m] = f[m] /\ g[i] = next
        BY <2>3, <3>3, <4>1
      <4>. QED  BY <3>3, <4>1, <4>2 DEF next, Stepping
    <3>. QED  BY <2>2, <3>1, <3>2, <3>3
  <2>5. g = Body(g, m + 1)
    BY <2>4 DEF Stepping
  <2>. HIDE DEF g
  <2>6. \E h : h = Body(h, m + 1)
    BY <2>5
  <2>. QED  BY <2>2, <2>6
<1>3. \A m \in 0 .. n - 1 : m \in T => m + 1 \in T
  BY <1>2
<1>4. n \in T
  <2>. HIDE DEF T
  <2>1. 0 .. n \subseteq T
    BY <1>1, <1>3, Induction
  <2>. QED  BY <2>1
<1>. QED  BY <1>4

LEMMA StepsFacts ==
  ASSUME NEW ks, NEW s \in SnapshotsOf(ks), NEW patches \in Seq(PatchesOf(ks))
  PROVE  /\ Steps(s, patches) \in Seq(SnapshotsOf(ks))
         /\ Len(Steps(s, patches)) = Len(patches)
         /\ Len(patches) \in Nat
         /\ \A i \in 1 .. Len(patches) :
              Steps(s, patches)[i] =
                Patched(IF i = 1 THEN s ELSE Steps(s, patches)[i - 1], patches[i])
<1>. DEFINE n == Len(patches)
            t == CHOOSE f : f = Stepping(f, s, patches, n)
            T == {m \in 0 .. n : t[m] \in SnapshotsOf(ks)}
<1>1. n \in Nat /\ \A i \in 1 .. n : patches[i] \in PatchesOf(ks)
  BY LenProperties, ElementOfSeq
<1>2. Steps(s, patches) = [i \in 1 .. n |-> t[i]]
  BY DEF Steps, Stepping
<1>. HIDE DEF n
<1>3. t = Stepping(t, s, patches, n)
  BY <1>1, SteppingExists
<1>. HIDE DEF t
<1>4. t[0] = s /\ \A i \in 1 .. n : t[i] = Patched(t[i - 1], patches[i])
  <2>1. \A i \in 0 .. n : t[i] = IF i = 0 THEN s ELSE Patched(t[i - 1], patches[i])
    BY <1>3 DEF Stepping
  <2>2. 0 \in 0 .. n /\ \A i \in 1 .. n : i \in 0 .. n /\ i # 0
    BY <1>1
  <2>. QED  BY <2>1, <2>2
<1>5. 0 \in T
  BY <1>1, <1>4
<1>6. ASSUME NEW m \in 0 .. n - 1, m \in T PROVE m + 1 \in T
  <2>1. m + 1 \in 1 .. n /\ (m + 1) - 1 = m /\ m + 1 \in 0 .. n
    BY <1>1
  <2>2. t[m + 1] = Patched(t[m], patches[m + 1])
    BY <1>4, <2>1
  <2>3. t[m + 1] \in SnapshotsOf(ks)
    BY <1>1, <1>6, <2>1, <2>2, PatchFacts
  <2>. QED  BY <2>1, <2>3
<1>7. \A m \in 0 .. n : t[m] \in SnapshotsOf(ks)
  <2>1. \A m \in 0 .. n - 1 : m \in T => m + 1 \in T
    BY <1>6
  <2>2. \A m \in T : t[m] \in SnapshotsOf(ks)
    OBVIOUS
  <2>. HIDE DEF T
  <2>3. 0 .. n \subseteq T
    BY <1>1, <1>5, <2>1, Induction
  <2>. QED  BY <2>2, <2>3
<1>8. /\ Steps(s, patches) \in Seq(SnapshotsOf(ks))
      /\ Len(Steps(s, patches)) = n
  BY <1>1, <1>2, <1>7
<1>9. ASSUME NEW i \in 1 .. n
      PROVE  Steps(s, patches)[i] =
               Patched(IF i = 1 THEN s ELSE Steps(s, patches)[i - 1], patches[i])
  <2>1. Steps(s, patches)[i] = Patched(t[i - 1], patches[i])
    BY <1>2, <1>4
  <2>2. CASE i = 1
    BY <1>4, <2>1, <2>2
  <2>3. CASE i # 1
    <3>1. i - 1 \in 1 .. n
      BY <1>1, <2>3
    <3>2. Steps(s, patches)[i - 1] = t[i - 1]
      BY <1>2, <3>1
    <3>. QED  BY <2>1, <2>3, <3>2
  <2>. QED  BY <2>2, <2>3
<1>. QED  BY <1>1, <1>8, <1>9 DEF n

\* Only one sequence of states is led to.
LEMMA StepsAreUnique ==
  ASSUME NEW ks, NEW s \in SnapshotsOf(ks), NEW patches \in Seq(PatchesOf(ks)),
         NEW t \in Seq(SnapshotsOf(ks)), Len(t) = Len(patches),
         \A i \in 1 .. Len(patches) :
           t[i] = Patched(IF i = 1 THEN s ELSE t[i - 1], patches[i])
  PROVE  t = Steps(s, patches)
<1>. DEFINE n == Len(patches)
            T == {m \in 0 .. n : m = 0 \/ t[m] = Steps(s, patches)[m]}
<1>1. n \in Nat
  BY LenProperties
<1>2. /\ Steps(s, patches) \in Seq(SnapshotsOf(ks)) /\ Len(Steps(s, patches)) = n
      /\ \A i \in 1 .. n : Steps(s, patches)[i] =
           Patched(IF i = 1 THEN s ELSE Steps(s, patches)[i - 1], patches[i])
  BY StepsFacts
<1>3. \A i \in 1 .. n : t[i] = Patched(IF i = 1 THEN s ELSE t[i - 1], patches[i])
  OBVIOUS
<1>. HIDE DEF n
<1>4. 0 \in T
  BY <1>1
<1>5. ASSUME NEW m \in 0 .. n - 1, m \in T PROVE m + 1 \in T
  <2>1. m + 1 \in 1 .. n /\ (m + 1) - 1 = m /\ m + 1 \in 0 .. n /\ (m + 1 = 1 <=> m = 0)
    BY <1>1
  <2>2. (IF m + 1 = 1 THEN s ELSE t[m]) = (IF m + 1 = 1 THEN s ELSE Steps(s, patches)[m])
    BY <1>5, <2>1
  <2>3. t[m + 1] = Steps(s, patches)[m + 1]
    BY <1>2, <1>3, <2>1, <2>2
  <2>. QED  BY <2>1, <2>3
<1>6. \A m \in 1 .. n : t[m] = Steps(s, patches)[m]
  <2>1. \A m \in 0 .. n - 1 : m \in T => m + 1 \in T
    BY <1>5
  <2>2. \A m \in T : m # 0 => t[m] = Steps(s, patches)[m]
    OBVIOUS
  <2>. HIDE DEF T
  <2>3. 0 .. n \subseteq T
    BY <1>1, <1>4, <2>1, Induction
  <2>4. \A m \in 1 .. n : m \in 0 .. n /\ m # 0
    BY <1>1
  <2>. QED  BY <2>2, <2>3, <2>4
<1>. QED  BY <1>2, <1>6, SeqEqual DEF n

-----------------------------------------------------------------------------
(* What materialize finds before and after the cursor.                     *)

LEMMA ReversedFacts ==
  ASSUME NEW ks, NEW s \in SnapshotsOf(ks), NEW patches \in Seq(PatchesOf(ks))
  PROVE  LET list == Reverse(Steps(s, patches))
             n == Len(patches)
         IN  /\ list \in Seq(SnapshotsOf(ks))
             /\ Len(list) = n /\ n \in Nat
             /\ \A i \in 1 .. n :
                  list[i] = Patched(IF i = n THEN s ELSE list[i + 1], patches[n + 1 - i])
<1>. DEFINE list == Reverse(Steps(s, patches))
            n == Len(patches)
<1>1. PICK steps : steps = Steps(s, patches)
  OBVIOUS
<1>2. /\ steps \in Seq(SnapshotsOf(ks)) /\ Len(steps) = n /\ n \in Nat
      /\ \A i \in 1 .. n :
           steps[i] = Patched(IF i = 1 THEN s ELSE steps[i - 1], patches[i])
  BY <1>1, StepsFacts
<1>3. /\ list \in Seq(SnapshotsOf(ks)) /\ Len(list) = n
      /\ \A i \in 1 .. n : list[i] = steps[n + 1 - i]
  BY <1>1, <1>2, ReverseFacts
<1>. HIDE DEF list, n
<1>4. ASSUME NEW i \in 1 .. n
      PROVE  list[i] = Patched(IF i = n THEN s ELSE list[i + 1], patches[n + 1 - i])
  <2>1. n + 1 - i \in 1 .. n /\ (n + 1 - i = 1 <=> i = n)
    BY <1>2
  <2>2. steps[n + 1 - i] =
          Patched(IF n + 1 - i = 1 THEN s ELSE steps[(n + 1 - i) - 1], patches[n + 1 - i])
    BY <1>2, <2>1
  <2>3. i # n => list[i + 1] = steps[(n + 1 - i) - 1]
    <3>1. i # n => i + 1 \in 1 .. n /\ n + 1 - (i + 1) = (n + 1 - i) - 1
      BY <1>2
    <3>. QED  BY <1>3, <3>1
  <2>4. list[i] = steps[n + 1 - i]
    BY <1>3
  <2>. QED  BY <2>1, <2>2, <2>3, <2>4
<1>. QED  BY <1>2, <1>3, <1>4 DEF list, n

LEMMA ReversedIsUnique ==
  ASSUME NEW ks, NEW s \in SnapshotsOf(ks), NEW patches \in Seq(PatchesOf(ks)),
         NEW list \in Seq(SnapshotsOf(ks)), Len(list) = Len(patches),
         \A i \in 1 .. Len(patches) :
           list[i] = Patched(IF i = Len(patches) THEN s ELSE list[i + 1],
                             patches[Len(patches) + 1 - i])
  PROVE  list = Reverse(Steps(s, patches))
<1>. DEFINE n == Len(patches)
<1>1. n \in Nat
  BY LenProperties
<1>2. PICK steps : steps = Reverse(list)
  OBVIOUS
<1>3. /\ steps \in Seq(SnapshotsOf(ks)) /\ Len(steps) = n
      /\ \A i \in 1 .. n : steps[i] = list[n + 1 - i]
  BY <1>2, ReverseFacts
<1>4. \A i \in 1 .. n :
        list[i] = Patched(IF i = n THEN s ELSE list[i + 1], patches[n + 1 - i])
  OBVIOUS
<1>. HIDE DEF n
<1>5. ASSUME NEW i \in 1 .. n
      PROVE  steps[i] = Patched(IF i = 1 THEN s ELSE steps[i - 1], patches[i])
  <2>1. n + 1 - i \in 1 .. n /\ (n + 1 - i = n <=> i = 1) /\ n + 1 - (n + 1 - i) = i
    BY <1>1
  <2>2. list[n + 1 - i] =
          Patched(IF n + 1 - i = n THEN s ELSE list[(n + 1 - i) + 1], patches[n + 1 - (n + 1 - i)])
    BY <1>4, <2>1
  <2>3. i # 1 => steps[i - 1] = list[(n + 1 - i) + 1]
    <3>1. i # 1 => i - 1 \in 1 .. n /\ n + 1 - (i - 1) = (n + 1 - i) + 1
      BY <1>1
    <3>. QED  BY <1>3, <3>1
  <2>4. steps[i] = list[n + 1 - i]
    BY <1>3
  <2>. QED  BY <2>1, <2>2, <2>3, <2>4
<1>6. steps = Steps(s, patches)
  BY <1>3, <1>5, StepsAreUnique DEF n
<1>7. /\ Reverse(steps) \in Seq(SnapshotsOf(ks)) /\ Len(Reverse(steps)) = n
      /\ \A i \in 1 .. n : Reverse(steps)[i] = list[i]
  <2>1. /\ Reverse(steps) \in Seq(SnapshotsOf(ks)) /\ Len(Reverse(steps)) = n
        /\ \A i \in 1 .. n : Reverse(steps)[i] = steps[n + 1 - i]
    BY <1>3, ReverseFacts
  <2>2. ASSUME NEW i \in 1 .. n PROVE steps[n + 1 - i] = list[i]
    <3>1. n + 1 - i \in 1 .. n /\ n + 1 - (n + 1 - i) = i
      BY <1>1
    <3>. QED  BY <1>3, <3>1
  <2>. QED  BY <2>1, <2>2
<1>8. Reverse(steps) = list
  BY <1>7, SeqEqual DEF n
<1>. QED  BY <1>6, <1>8

PastOf(s, list, p) == Reverse(Steps(s, [i \in 1 .. p |-> list[p + 1 - i].inverse]))

FutureOf(s, list, p) ==
  Reverse(Steps(s, [i \in 1 .. (Len(list) - p) |-> list[p + i].patches]))

\* The past: each state comes from the one after it.
IsPast(states, s, list, p) ==
  /\ Len(states) = p
  /\ \A i \in 1 .. p :
       states[i] = Patched(IF i = p THEN s ELSE states[i + 1], list[i].inverse)

\* The future, nearest last: each state comes from the one before it.
IsFuture(states, s, list, p) ==
  /\ Len(states) = Len(list) - p
  /\ \A i \in 1 .. Len(list) - p :
       states[i] = Patched(IF i = Len(list) - p THEN s ELSE states[i + 1],
                           list[Len(list) + 1 - i].patches)

LEMMA PastFacts ==
  ASSUME NEW ks, NEW s \in SnapshotsOf(ks), NEW list \in Seq(EntriesOf(ks)),
         NEW p \in 0 .. Len(list)
  PROVE  /\ PastOf(s, list, p) \in Seq(SnapshotsOf(ks))
         /\ IsPast(PastOf(s, list, p), s, list, p)
         /\ \A states \in Seq(SnapshotsOf(ks)) :
              IsPast(states, s, list, p) => states = PastOf(s, list, p)
<1>. DEFINE back == [i \in 1 .. p |-> list[p + 1 - i].inverse]
<1>1. Len(list) \in Nat /\ p \in Nat /\ \A i \in 1 .. Len(list) : list[i] \in EntriesOf(ks)
  BY LenProperties, ElementOfSeq
<1>2. ASSUME NEW i \in 1 .. p PROVE list[p + 1 - i].inverse \in PatchesOf(ks)
  <2>1. p + 1 - i \in 1 .. Len(list)
    BY <1>1
  <2>. QED  BY <1>1, <2>1 DEF EntriesOf
<1>3. back \in Seq(PatchesOf(ks)) /\ Len(back) = p
  BY <1>1, <1>2
<1>4. ASSUME NEW i \in 1 .. p PROVE back[p + 1 - i] = list[i].inverse
  <2>1. p + 1 - i \in 1 .. p /\ p + 1 - (p + 1 - i) = i
    BY <1>1
  <2>. QED  BY <2>1
<1>. HIDE DEF back
<1>5. PastOf(s, list, p) = Reverse(Steps(s, back))
  BY DEF PastOf, back
<1>6. /\ Reverse(Steps(s, back)) \in Seq(SnapshotsOf(ks))
      /\ Len(Reverse(Steps(s, back))) = p
      /\ \A i \in 1 .. p : Reverse(Steps(s, back))[i] =
           Patched(IF i = p THEN s ELSE Reverse(Steps(s, back))[i + 1], back[p + 1 - i])
  BY <1>3, ReversedFacts
<1>7. ASSUME NEW states \in Seq(SnapshotsOf(ks)), IsPast(states, s, list, p)
      PROVE  states = PastOf(s, list, p)
  <2>1. \A i \in 1 .. p :
          states[i] = Patched(IF i = p THEN s ELSE states[i + 1], back[p + 1 - i])
    BY <1>4, <1>7 DEF IsPast
  <2>2. Len(states) = Len(back)
    BY <1>3, <1>7 DEF IsPast
  <2>. QED  BY <1>3, <1>5, <2>1, <2>2, ReversedIsUnique
<1>8. IsPast(PastOf(s, list, p), s, list, p)
  BY <1>4, <1>5, <1>6 DEF IsPast
<1>. QED  BY <1>5, <1>6, <1>7, <1>8

LEMMA FutureFacts ==
  ASSUME NEW ks, NEW s \in SnapshotsOf(ks), NEW list \in Seq(EntriesOf(ks)),
         NEW p \in 0 .. Len(list)
  PROVE  /\ FutureOf(s, list, p) \in Seq(SnapshotsOf(ks))
         /\ IsFuture(FutureOf(s, list, p), s, list, p)
         /\ \A states \in Seq(SnapshotsOf(ks)) :
              IsFuture(states, s, list, p) => states = FutureOf(s, list, p)
<1>. DEFINE n == Len(list) - p
            ahead == [i \in 1 .. n |-> list[p + i].patches]
<1>1. /\ Len(list) \in Nat /\ p \in Nat /\ n \in Nat
      /\ \A i \in 1 .. Len(list) : list[i] \in EntriesOf(ks)
  BY LenProperties, ElementOfSeq
<1>2. ASSUME NEW i \in 1 .. n PROVE list[p + i].patches \in PatchesOf(ks)
  <2>1. p + i \in 1 .. Len(list)
    BY <1>1
  <2>. QED  BY <1>1, <2>1 DEF EntriesOf
<1>3. ahead \in Seq(PatchesOf(ks)) /\ Len(ahead) = n
  <2>. HIDE DEF n
  <2>. QED  BY <1>1, <1>2
<1>4. ASSUME NEW i \in 1 .. n PROVE ahead[n + 1 - i] = list[Len(list) + 1 - i].patches
  <2>1. n + 1 - i \in 1 .. n /\ p + (n + 1 - i) = Len(list) + 1 - i
    BY <1>1
  <2>. QED  BY <2>1
<1>5. FutureOf(s, list, p) = Reverse(Steps(s, ahead))
  BY DEF FutureOf
<1>. HIDE DEF ahead
<1>6. /\ Reverse(Steps(s, ahead)) \in Seq(SnapshotsOf(ks))
      /\ Len(Reverse(Steps(s, ahead))) = n
      /\ \A i \in 1 .. n : Reverse(Steps(s, ahead))[i] =
           Patched(IF i = n THEN s ELSE Reverse(Steps(s, ahead))[i + 1], ahead[n + 1 - i])
  <2>. HIDE DEF n
  <2>. QED  BY <1>3, ReversedFacts, SMTT(30)
<1>7. ASSUME NEW states \in Seq(SnapshotsOf(ks)), IsFuture(states, s, list, p)
      PROVE  states = FutureOf(s, list, p)
  <2>1. \A i \in 1 .. n :
          states[i] = Patched(IF i = n THEN s ELSE states[i + 1], ahead[n + 1 - i])
    BY <1>4, <1>7 DEF IsFuture
  <2>2. Len(states) = Len(ahead)
    BY <1>3, <1>7 DEF IsFuture
  <2>3. \A i \in 1 .. Len(ahead) :
          states[i] = Patched(IF i = Len(ahead) THEN s ELSE states[i + 1],
                              ahead[Len(ahead) + 1 - i])
    <3>. HIDE DEF n
    <3>. QED  BY <1>3, <2>1
  <2>. QED  BY <1>3, <1>5, <2>2, <2>3, ReversedIsUnique
<1>8. IsFuture(FutureOf(s, list, p), s, list, p)
  BY <1>4, <1>5, <1>6 DEF IsFuture
<1>. QED  BY <1>5, <1>6, <1>7, <1>8

\* What a journal is when an entry has been put behind its first p ones, and cut
\* to the limit.
Recorded(next, grown, list, p, entry, ks) ==
  /\ grown \in Seq(EntriesOf(ks)) /\ Len(grown) = p + 1
  /\ \A i \in 1 .. p : grown[i] = list[i]
  /\ grown[p + 1] = entry
  /\ next \in Seq(EntriesOf(ks)) /\ Len(next) <= Limit /\ Len(next) \in Nat
  /\ p + 1 <= Limit => next = grown
  /\ p = Limit => Len(next) = p /\ \A i \in 1 .. p : next[i] = grown[i + 1]

LEMMA RecordFacts ==
  ASSUME NEW ks, NEW s \in SnapshotsOf(ks), NEW t \in SnapshotsOf(ks),
         NEW list \in Seq(EntriesOf(ks)), NEW p \in 0 .. Len(list), NEW grown,
         p <= Limit, grown = Append(SubSeq(list, 1, p), Entry(s, t))
  PROVE  Recorded(Newest(grown), grown, list, p, Entry(s, t), ks)
<1>1. /\ Len(list) \in Nat /\ p \in Nat /\ Limit \in Nat
      /\ \A i \in 1 .. p : list[i] \in EntriesOf(ks)
  BY LenProperties, ElementOfSeq, HistoryAssumption
<1>2. PICK kept : kept = SubSeq(list, 1, p)
  OBVIOUS
<1>3. /\ kept \in Seq(EntriesOf(ks)) /\ Len(kept) = p
      /\ \A i \in 1 .. p : kept[i] = list[i]
  <2>1. /\ kept \in Seq(EntriesOf(ks))
        /\ Len(kept) = IF 1 <= p THEN p - 1 + 1 ELSE 0
        /\ \A i \in 1 .. p - 1 + 1 : kept[i] = list[1 + i - 1]
    BY <1>1, <1>2, SubSeqProperties
  <2>. QED  BY <1>1, <2>1
<1>4. Entry(s, t) \in EntriesOf(ks)
  BY EntryFacts
<1>5. /\ grown \in Seq(EntriesOf(ks)) /\ Len(grown) = p + 1
      /\ \A i \in 1 .. p : grown[i] = list[i]
      /\ grown[p + 1] = Entry(s, t)
  BY <1>2, <1>3, <1>4, AppendFacts
<1>6. Len(grown) <= Limit + 1
  BY <1>1, <1>5
<1>7. /\ Newest(grown) \in Seq(EntriesOf(ks)) /\ Len(Newest(grown)) <= Limit
      /\ Len(grown) <= Limit => Newest(grown) = grown
      /\ Len(grown) > Limit =>
           /\ Len(Newest(grown)) = Limit
           /\ \A i \in 1 .. Limit : Newest(grown)[i] = grown[i + 1]
  BY <1>5, <1>6, NewestFacts
<1>8. Len(Newest(grown)) \in Nat
  BY <1>7, LenProperties
<1>. QED  BY <1>1, <1>5, <1>7, <1>8, SMTT(30) DEF Recorded

\* A change that is recorded goes behind the cursor and cuts the future.
LEMMA RecordMaterializes ==
  ASSUME NEW ks, NEW s \in SnapshotsOf(ks), NEW t \in SnapshotsOf(ks),
         NEW list \in Seq(EntriesOf(ks)), NEW p \in 0 .. Len(list), NEW next, NEW grown,
         p <= Limit, Recorded(next, grown, list, p, Entry(s, t), ks)
  PROVE  /\ PastOf(t, next, Len(next)) = Newest(Append(PastOf(s, list, p), s))
         /\ FutureOf(t, next, Len(next)) = <<>>
<1>2. /\ grown \in Seq(EntriesOf(ks)) /\ Len(grown) = p + 1
      /\ \A i \in 1 .. p : grown[i] = list[i]
      /\ grown[p + 1] = Entry(s, t)
      /\ next \in Seq(EntriesOf(ks)) /\ Len(next) <= Limit /\ Len(next) \in Nat
      /\ p + 1 <= Limit => next = grown
      /\ p = Limit => Len(next) = p /\ \A i \in 1 .. p : next[i] = grown[i + 1]
  BY DEF Recorded
<1>3. p \in Nat /\ Limit \in Nat
  BY LenProperties, HistoryAssumption
<1>4. PICK older : older = PastOf(s, list, p)
  OBVIOUS
<1>5. older \in Seq(SnapshotsOf(ks)) /\ IsPast(older, s, list, p)
  BY <1>4, PastFacts
<1>6. PICK states : states = Append(older, s)
  OBVIOUS
<1>7. /\ states \in Seq(SnapshotsOf(ks)) /\ Len(states) = p + 1
      /\ \A i \in 1 .. p : states[i] = older[i]
      /\ states[p + 1] = s
  BY <1>5, <1>6, AppendFacts DEF IsPast
<1>8. ASSUME NEW i \in 1 .. p + 1
      PROVE  states[i] = Patched(IF i = p + 1 THEN t ELSE states[i + 1], grown[i].inverse)
  <2>1. CASE i = p + 1
    <3>1. Patched(t, Entry(s, t).inverse) = s
      BY EntryFacts
    <3>. QED  BY <1>2, <1>7, <2>1, <3>1
  <2>2. CASE i = p /\ i # p + 1
    <3>1. i \in 1 .. p
      BY <1>3, <2>2
    <3>2. older[i] = Patched(s, list[i].inverse)
      BY <1>5, <2>2, <3>1 DEF IsPast
    <3>. QED  BY <1>2, <1>7, <2>2, <3>1, <3>2
  <2>3. CASE i \in 1 .. p - 1
    <3>1. i \in 1 .. p /\ i + 1 \in 1 .. p /\ i # p /\ i # p + 1
      BY <1>3, <2>3
    <3>2. older[i] = Patched(older[i + 1], list[i].inverse)
      BY <1>5, <3>1 DEF IsPast
    <3>. QED  BY <1>2, <1>7, <3>1, <3>2
  <2>. QED  BY <1>3, <2>1, <2>2, <2>3
<1>9. PICK cut : cut = Newest(states)
  OBVIOUS
<1>10. /\ cut \in Seq(SnapshotsOf(ks))
       /\ Len(states) <= Limit => cut = states
       /\ Len(states) > Limit =>
            Len(cut) = Limit /\ \A i \in 1 .. Limit : cut[i] = states[i + 1]
  <2>1. Len(states) <= Limit + 1
    BY <1>3, <1>7
  <2>. QED  BY <1>7, <1>9, <2>1, NewestFacts
<1>11. IsPast(cut, t, next, Len(next))
  <2>1. CASE p + 1 <= Limit
    BY <1>2, <1>3, <1>7, <1>8, <1>10, <2>1 DEF IsPast
  <2>2. CASE p = Limit
    <3>1. Len(cut) = p /\ Len(next) = p
      BY <1>2, <1>3, <1>7, <1>10, <2>2
    <3>2. ASSUME NEW i \in 1 .. p
          PROVE  cut[i] = Patched(IF i = p THEN t ELSE cut[i + 1], next[i].inverse)
      <4>1. i + 1 \in 1 .. p + 1 /\ (i + 1 = p + 1 <=> i = p)
        BY <1>3
      <4>2. states[i + 1] = Patched(IF i + 1 = p + 1 THEN t ELSE states[(i + 1) + 1],
                                    grown[i + 1].inverse)
        BY <1>8, <4>1
      <4>3. i # p => cut[i + 1] = states[(i + 1) + 1]
        BY <1>3, <1>7, <1>10, <2>2
      <4>4. cut[i] = states[i + 1] /\ next[i] = grown[i + 1]
        BY <1>2, <1>3, <1>7, <1>10, <2>2
      <4>. QED  BY <4>1, <4>2, <4>3, <4>4
    <3>. QED  BY <3>1, <3>2 DEF IsPast
  <2>. QED  BY <1>3, <2>1, <2>2
<1>12. PastOf(t, next, Len(next)) = cut
  <2>1. Len(next) \in 0 .. Len(next)
    BY <1>2
  <2>. QED  BY <1>2, <1>10, <1>11, <2>1, PastFacts
<1>13. FutureOf(t, next, Len(next)) = <<>>
  <2>1. /\ FutureOf(t, next, Len(next)) \in Seq(SnapshotsOf(ks))
        /\ Len(FutureOf(t, next, Len(next))) = Len(next) - Len(next)
    BY <1>2, FutureFacts DEF IsFuture
  <2>. QED  BY <1>2, <2>1, EmptySeq
<1>. QED  BY <1>4, <1>6, <1>9, <1>12, <1>13

\* The states a journal leads back and forth between.
IsLine(line, list, ks) ==
  /\ line \in [0 .. Len(list) -> SnapshotsOf(ks)]
  /\ \A i \in 1 .. Len(list) :
       /\ line[i - 1] = Patched(line[i], list[i].inverse)
       /\ line[i] = Patched(line[i - 1], list[i].patches)

\* What lies before and after the p-th state of a line of n + 1.
LineBefore(line, p) == [i \in 1 .. p |-> line[i - 1]]

LineAfter(line, n, p) == [i \in 1 .. n - p |-> line[n + 1 - i]]

LEMMA LineMaterializes ==
  ASSUME NEW ks, NEW list \in Seq(EntriesOf(ks)), NEW p \in 0 .. Len(list),
         NEW line, IsLine(line, list, ks)
  PROVE  /\ PastOf(line[p], list, p) = LineBefore(line, p)
         /\ FutureOf(line[p], list, p) = LineAfter(line, Len(list), p)
<1>. DEFINE n == Len(list)
            before == [i \in 1 .. p |-> line[i - 1]]
            after == [i \in 1 .. n - p |-> line[n + 1 - i]]
<1>1. n \in Nat /\ p \in Nat /\ n - p \in Nat
  BY LenProperties
<1>2. /\ \A i \in 0 .. n : line[i] \in SnapshotsOf(ks)
      /\ \A i \in 1 .. n : line[i - 1] = Patched(line[i], list[i].inverse)
      /\ \A i \in 1 .. n : line[i] = Patched(line[i - 1], list[i].patches)
  BY DEF IsLine
<1>3. before \in Seq(SnapshotsOf(ks)) /\ IsPast(before, line[p], list, p)
  <2>1. \A i \in 1 .. p : i - 1 \in 0 .. n /\ i \in 1 .. n
    BY <1>1
  <2>2. before \in Seq(SnapshotsOf(ks)) /\ Len(before) = p
    <3>1. \A i \in 1 .. p : line[i - 1] \in SnapshotsOf(ks)
      BY <1>2, <2>1
    <3>. QED  BY <1>1, <3>1
  <2>3. ASSUME NEW i \in 1 .. p
        PROVE  before[i] = Patched(IF i = p THEN line[p] ELSE before[i + 1], list[i].inverse)
    <3>1. i # p => i + 1 \in 1 .. p /\ (i + 1) - 1 = i
      BY <1>1
    <3>2. (IF i = p THEN line[p] ELSE before[i + 1]) = line[i]
      BY <3>1
    <3>. QED  BY <1>2, <2>1, <3>2
  <2>. QED  BY <2>2, <2>3 DEF IsPast
<1>4. after \in Seq(SnapshotsOf(ks)) /\ IsFuture(after, line[p], list, p)
  <2>1. \A i \in 1 .. n - p : n + 1 - i \in 1 .. n /\ n + 1 - i \in 0 .. n
    BY <1>1
  <2>2. after \in Seq(SnapshotsOf(ks)) /\ Len(after) = n - p
    <3>1. \A i \in 1 .. n - p : line[n + 1 - i] \in SnapshotsOf(ks)
      BY <1>2, <2>1
    <3>. HIDE DEF n
    <3>. QED  BY <1>1, <3>1
  <2>3. ASSUME NEW i \in 1 .. n - p
        PROVE  after[i] = Patched(IF i = n - p THEN line[p] ELSE after[i + 1],
                                  list[n + 1 - i].patches)
    <3>1. i # n - p => i + 1 \in 1 .. n - p /\ n + 1 - (i + 1) = (n + 1 - i) - 1
      BY <1>1
    <3>2. i = n - p => (n + 1 - i) - 1 = p
      BY <1>1
    <3>3. (IF i = n - p THEN line[p] ELSE after[i + 1]) = line[(n + 1 - i) - 1]
      BY <3>1, <3>2
    <3>4. line[n + 1 - i] = Patched(line[(n + 1 - i) - 1], list[n + 1 - i].patches)
      BY <1>2, <2>1
    <3>5. after[i] = line[n + 1 - i]
      OBVIOUS
    <3>. QED  BY <3>3, <3>4, <3>5
  <2>. QED  BY <2>2, <2>3 DEF IsFuture
<1>5. line[p] \in SnapshotsOf(ks)
  BY <1>1, <1>2
<1>. HIDE DEF before, after
<1>6. PastOf(line[p], list, p) = before
  BY <1>3, <1>5, PastFacts
<1>7. FutureOf(line[p], list, p) = after
  BY <1>4, <1>5, FutureFacts
<1>. QED  BY <1>6, <1>7 DEF before, after, LineBefore, LineAfter


-----------------------------------------------------------------------------
(* What the operations on the timeline leave.                              *)

TimelineOK ==
  /\ engine \in {"journal", "snapshots", "legacy"}
  /\ entries \in Seq(EntriesOf(tracked))
  /\ position \in 0..Len(entries)
  /\ present \in SnapshotsOf(tracked)
  /\ past \in Seq(SnapshotsOf(tracked)) /\ future \in Seq(SnapshotsOf(tracked))
  /\ Limited

LEMMA BeforeFacts ==
  ASSUME TimelineOK
  PROVE  /\ Before = PastOf(present, entries, position)
         /\ Before \in Seq(SnapshotsOf(tracked))
         /\ IsPast(Before, present, entries, position)
         /\ Len(Before) = position
         /\ position \in Nat /\ Len(entries) \in Nat
<1>1. Before = PastOf(present, entries, position)
  BY DEF Before, PastOf
<1>2. /\ PastOf(present, entries, position) \in Seq(SnapshotsOf(tracked))
      /\ IsPast(PastOf(present, entries, position), present, entries, position)
  BY PastFacts DEF TimelineOK
<1>3. Len(entries) \in Nat
  BY LenProperties DEF TimelineOK
<1>. QED  BY <1>1, <1>2, <1>3 DEF IsPast, TimelineOK

LEMMA AfterFacts ==
  ASSUME TimelineOK
  PROVE  /\ After = FutureOf(present, entries, position)
         /\ After \in Seq(SnapshotsOf(tracked))
         /\ IsFuture(After, present, entries, position)
         /\ Len(After) = Len(entries) - position
<1>1. After = FutureOf(present, entries, position)
  BY DEF After, FutureOf
<1>2. /\ FutureOf(present, entries, position) \in Seq(SnapshotsOf(tracked))
      /\ IsFuture(FutureOf(present, entries, position), present, entries, position)
  BY FutureFacts DEF TimelineOK
<1>. QED  BY <1>1, <1>2 DEF IsFuture

\* An entry is put behind the cursor.
LEMMA RecordPatchesFacts ==
  ASSUME TimelineOK, engine = "journal", NEW s \in SnapshotsOf(tracked),
         tracked' = tracked, RecordPatches(s)
  PROVE  /\ TimelineOK'
         /\ engine' = "journal" /\ present' = s /\ position' = Len(entries')
         /\ position \in 0 .. Len(entries) /\ position <= Limit
         /\ \E grown :
              Recorded(entries', grown, entries, position, Entry(present, s), tracked)
<1>1. PICK grown : grown = Append(SubSeq(entries, 1, position), Entry(present, s))
  OBVIOUS
<1>2. /\ position \in 0 .. Len(entries) /\ position <= Limit
      /\ entries \in Seq(EntriesOf(tracked)) /\ present \in SnapshotsOf(tracked)
      /\ past = <<>> /\ future = <<>>
  <2>1. Len(entries) \in Nat /\ Limit \in Nat
    BY LenProperties, HistoryAssumption DEF TimelineOK
  <2>. QED  BY <2>1 DEF TimelineOK, Limited
<1>3. Recorded(Newest(grown), grown, entries, position, Entry(present, s), tracked)
  BY <1>1, <1>2, RecordFacts
<1>4. /\ entries' = Newest(grown) /\ position' = Len(entries') /\ present' = s
      /\ engine' = engine /\ past' = past /\ future' = future
  BY <1>1 DEF RecordPatches, snapshots
<1>5. /\ entries' \in Seq(EntriesOf(tracked)) /\ Len(entries') <= Limit
      /\ Len(entries') \in Nat
  BY <1>3, <1>4 DEF Recorded
<1>6. TimelineOK'
  BY <1>2, <1>4, <1>5 DEF TimelineOK, Limited
<1>. QED  BY <1>2, <1>3, <1>4, <1>6

\* A state is put on top of a list.
LEMMA GrownFacts ==
  ASSUME NEW ks, NEW list \in Seq(SnapshotsOf(ks)), NEW s \in SnapshotsOf(ks),
         Len(list) <= Limit
  PROVE  /\ Newest(Append(list, s)) \in Seq(SnapshotsOf(ks))
         /\ Len(Newest(Append(list, s))) <= Limit
         /\ Newest(Append(list, s)) = Timeline!Newest(Append(list, s))
         /\ Len(list) < Limit => Newest(Append(list, s)) = Append(list, s)
<1>1. PICK a : a = Append(list, s)
  OBVIOUS
<1>2. /\ a \in Seq(SnapshotsOf(ks)) /\ Len(a) = Len(list) + 1 /\ Len(list) \in Nat
      /\ Limit \in Nat
  BY <1>1, AppendFacts, HistoryAssumption
<1>3. Len(a) <= Limit + 1
  BY <1>2
<1>4. /\ Newest(a) \in Seq(SnapshotsOf(ks)) /\ Len(Newest(a)) <= Limit
      /\ Newest(a) = Timeline!Newest(a)
      /\ Len(a) <= Limit => Newest(a) = a
  BY <1>2, <1>3, NewestFacts
<1>. QED  BY <1>1, <1>2, <1>4

\* What a list of snapshots becomes.
Grows(older, s, t) ==
  IF t # s THEN past' = Newest(Append(older, s)) /\ future' = <<>>
  ELSE past' = older /\ future' = future

LEMMA GrowsFacts ==
  ASSUME TimelineOK, NEW older \in Seq(SnapshotsOf(tracked)),
         Len(older) + Len(future) <= Limit, tracked' = tracked,
         NEW s \in SnapshotsOf(tracked), NEW t, Grows(older, s, t)
  PROVE  /\ past' \in Seq(SnapshotsOf(tracked)) /\ future' \in Seq(SnapshotsOf(tracked))
         /\ Len(past') + Len(future') <= Limit
         /\ t # s => past' = Timeline!Newest(Append(older, s)) /\ future' = <<>>
<1>1. Len(older) \in Nat /\ Len(future) \in Nat /\ Limit \in Nat
  BY LenProperties, HistoryAssumption DEF TimelineOK
<1>2. CASE t # s
  <2>1. /\ Newest(Append(older, s)) \in Seq(SnapshotsOf(tracked))
        /\ Len(Newest(Append(older, s))) <= Limit
        /\ Newest(Append(older, s)) = Timeline!Newest(Append(older, s))
    <3>1. Len(older) <= Limit
      BY <1>1
    <3>. QED  BY <3>1, GrownFacts
  <2>2. past' = Newest(Append(older, s)) /\ future' = <<>>
    BY <1>2 DEF Grows
  <2>3. /\ past' \in Seq(SnapshotsOf(tracked)) /\ Len(past') <= Limit
        /\ past' = Timeline!Newest(Append(older, s))
    BY <2>1, <2>2
  <2>4. future' \in Seq(SnapshotsOf(tracked)) /\ Len(future') = 0
    BY <2>2
  <2>5. Len(past') \in Nat
    BY <2>3, LenProperties
  <2>. QED  BY <1>1, <1>2, <2>2, <2>3, <2>4, <2>5
<1>3. CASE t = s
  BY <1>3 DEF Grows, TimelineOK
<1>. QED  BY <1>2, <1>3

\* recordSnapshotState, of the snapshots, and switchToSnapshotCompatibility.
LEMMA RecordSnapshotFacts ==
  ASSUME TimelineOK, engine = "snapshots", NEW s \in SnapshotsOf(tracked),
         tracked' = tracked, RecordSnapshot(past, s), engine' = engine
  PROVE  /\ TimelineOK' /\ engine' = "snapshots" /\ present' = s
         /\ Grows(past, present, s)
<1>1. /\ Grows(past, present, s) /\ present' = s
      /\ entries' = entries /\ position' = position
  BY DEF RecordSnapshot, Grows, journal
<1>2. /\ past' \in Seq(SnapshotsOf(tracked)) /\ future' \in Seq(SnapshotsOf(tracked))
      /\ Len(past') + Len(future') <= Limit
  BY <1>1, GrowsFacts DEF TimelineOK, Limited
<1>. QED  BY <1>1, <1>2 DEF TimelineOK, Limited

LEMMA SwitchFacts ==
  ASSUME TimelineOK, engine = "journal", NEW s \in SnapshotsOf(tracked),
         tracked' = tracked, Switch(s)
  PROVE  /\ TimelineOK' /\ engine' = "snapshots" /\ present' = s
         /\ Grows(Before, present, s)
<1>1. /\ Grows(Before, present, s) /\ present' = s /\ engine' = "snapshots"
      /\ entries' = entries /\ position' = position
  BY DEF Switch, RecordSnapshot, Grows, journal
<1>2. /\ Before \in Seq(SnapshotsOf(tracked)) /\ Len(Before) = position
      /\ position \in Nat /\ Len(entries) \in Nat
  BY BeforeFacts
<1>3. Len(Before) + Len(future) <= Limit
  <2>1. future = <<>> /\ Len(entries) <= Limit /\ position <= Len(entries) /\ Limit \in Nat
    BY <1>2, HistoryAssumption DEF TimelineOK, Limited
  <2>. QED  BY <1>2, <2>1
<1>4. /\ past' \in Seq(SnapshotsOf(tracked)) /\ future' \in Seq(SnapshotsOf(tracked))
      /\ Len(past') + Len(future') <= Limit
  BY <1>1, <1>2, <1>3, GrowsFacts DEF TimelineOK
<1>. QED  BY <1>1, <1>4 DEF TimelineOK, Limited

\* beginSnapshotCompatibility.
LEMMA BeginFacts ==
  ASSUME TimelineOK, engine = "journal", tracked' = tracked, Begin
  PROVE  /\ TimelineOK' /\ engine' = "snapshots" /\ present' = present
         /\ past' = Before /\ future' = <<>>
<1>1. /\ engine' = "snapshots" /\ past' = Before /\ future' = <<>> /\ present' = present
      /\ entries' = entries /\ position' = position
  BY DEF Begin, journal
<1>2. /\ Before \in Seq(SnapshotsOf(tracked)) /\ Len(Before) = position
      /\ position \in Nat /\ Len(entries) \in Nat
  BY BeforeFacts
<1>3. Len(Before) + 0 <= Limit
  <2>1. Len(entries) <= Limit /\ position <= Len(entries) /\ Limit \in Nat
    BY <1>2, HistoryAssumption DEF TimelineOK, Limited
  <2>. QED  BY <1>2, <2>1
<1>. QED  BY <1>1, <1>2, <1>3 DEF TimelineOK, Limited

\* recordChange of the legacy history.
LEMMA RecordChangeFacts ==
  ASSUME TimelineOK, engine = "legacy", NEW before \in SnapshotsOf(tracked),
         NEW s \in SnapshotsOf(tracked), tracked' = tracked, RecordChange(before, s)
  PROVE  /\ TimelineOK' /\ engine' = engine /\ present' = s
         /\ Grows(past, before, s)
<1>1. /\ Grows(past, before, s) /\ present' = s /\ engine' = engine
      /\ entries' = entries /\ position' = position
  BY DEF RecordChange, Grows, journal, snapshots
<1>2. /\ past' \in Seq(SnapshotsOf(tracked)) /\ future' \in Seq(SnapshotsOf(tracked))
      /\ Len(past') + Len(future') <= Limit
  BY <1>1, GrowsFacts DEF TimelineOK, Limited
<1>. QED  BY <1>1, <1>2 DEF TimelineOK, Limited

LEMMA LookFacts ==
  ASSUME TimelineOK, engine = "legacy", Projected(state) \in SnapshotsOf(tracked),
         tracked' = tracked, Look
  PROVE  /\ TimelineOK' /\ present' = Projected(state) /\ engine' = engine
         /\ past' = past /\ future' = future
         /\ entries' = entries /\ position' = position
BY DEF Look, TimelineOK, Limited, journal, snapshots

LEMMA RestartFacts ==
  ASSUME TimelineOK, Projected(state) \in SnapshotsOf(tracked), tracked' = tracked,
         Restart
  PROVE  /\ TimelineOK' /\ present' = Projected(state) /\ engine' = engine
         /\ engine # "legacy" =>
              entries' = <<>> /\ position' = 0 /\ past' = <<>> /\ future' = <<>>
         /\ engine = "legacy" => past' = past /\ future' = future
<1>1. CASE engine = "legacy"
  BY <1>1, LookFacts DEF Restart
<1>2. CASE engine # "legacy"
  <2>1. /\ present' = Projected(state) /\ engine' = engine
        /\ entries' = <<>> /\ position' = 0 /\ past' = <<>> /\ future' = <<>>
    BY <1>2 DEF Restart
  <2>2. Limit \in Nat
    BY HistoryAssumption
  <2>. QED  BY <1>2, <2>1, <2>2 DEF TimelineOK, Limited
<1>. QED  BY <1>1, <1>2

\* What recording the store does.
LEMMA RecordStateFacts ==
  ASSUME TimelineOK, engine # "legacy", Projected(state) \in SnapshotsOf(tracked),
         tracked' = tracked, RecordState
  PROVE  /\ TimelineOK' /\ present' = Projected(state) /\ engine' # "legacy"
         /\ \/ /\ engine = "snapshots" /\ RecordSnapshot(past, Projected(state))
               /\ engine' = engine
            \/ engine = "journal" /\ ~Compatible(Projected(state)) /\ Switch(Projected(state))
            \/ /\ engine = "journal" /\ Compatible(Projected(state))
               /\ Projected(state) # present /\ RecordPatches(Projected(state))
            \/ Projected(state) = present /\ UNCHANGED timeline
<1>1. PICK s \in SnapshotsOf(tracked) : s = Projected(state)
  OBVIOUS
<1>2. CASE engine = "snapshots"
  <2>1. RecordSnapshot(past, s) /\ engine' = engine
    BY <1>1, <1>2 DEF RecordState
  <2>. QED  BY <1>1, <1>2, <2>1, RecordSnapshotFacts
<1>3. CASE engine = "journal" /\ ~Compatible(s)
  <2>1. Switch(s)
    BY <1>1, <1>3 DEF RecordState
  <2>. QED  BY <1>1, <1>3, <2>1, SwitchFacts
<1>4. CASE engine = "journal" /\ Compatible(s) /\ s # present
  <2>1. RecordPatches(s)
    BY <1>1, <1>4 DEF RecordState
  <2>2. TimelineOK' /\ engine' = "journal" /\ present' = s
    BY <1>4, <2>1, RecordPatchesFacts
  <2>. QED  BY <1>1, <1>4, <2>1, <2>2
<1>5. CASE engine = "journal" /\ Compatible(s) /\ s = present
  <2>1. UNCHANGED timeline
    BY <1>1, <1>5 DEF RecordState
  <2>2. TimelineOK' /\ present' = present /\ engine' = engine
    BY <2>1 DEF timeline, journal, snapshots, TimelineOK, Limited
  <2>. QED  BY <1>1, <1>5, <2>1, <2>2
<1>. QED  BY <1>2, <1>3, <1>4, <1>5 DEF TimelineOK

-----------------------------------------------------------------------------
(* Calls.                                                                  *)

CallsOf(ks) ==
  [kind : {"write", "setState", "hydrate", "undo", "redo"},
   before : SnapshotsOf(ks), target : SnapshotsOf(ks),
   at : {"commits", "subscribers", "refused"}]

CallsOK ==
  /\ tracked \subseteq Keys
  /\ state \in SnapshotsOf(Keys)
  /\ {recording, traveling, failed, meddled} \subseteq BOOLEAN
  /\ stack \in Seq(CallsOf(tracked))
  /\ waiting \in Seq({"history", "user"})
  /\ writes \in 0..MaxWrites
  /\ moves \in 0..MaxMoves

LEMMA TypeParts == TypeOK /\ Limited <=> TimelineOK /\ CallsOK
BY DEF TypeOK, TimelineOK, CallsOK, Snapshot, Snapshots, PatchSets, SnapshotsOf,
       PatchesOf, EntriesOf, CallsOf

LEMMA TypePartsNext == TypeOK' /\ Limited' <=> TimelineOK' /\ CallsOK'
BY DEF TypeOK, TimelineOK, CallsOK, Snapshot, Snapshots, PatchSets, SnapshotsOf,
       PatchesOf, EntriesOf, CallsOf

LEMMA StackFacts ==
  ASSUME CallsOK
  PROVE  /\ Len(stack) \in Nat /\ DOMAIN stack = 1 .. Len(stack)
         /\ \A i \in DOMAIN stack : stack[i] \in CallsOf(tracked)
         /\ stack = <<>> <=> Len(stack) = 0
BY LenProperties, ElementOfSeq, EmptySeq DEF CallsOK

LEMMA ProjectedFacts ==
  ASSUME NEW ks, ks \subseteq Keys, NEW s \in SnapshotsOf(Keys), tracked = ks
  PROVE  /\ Projected(s) \in SnapshotsOf(ks)
         /\ \A k \in ks : Projected(s)[k] = s[k]
         /\ ks = Keys => Projected(s) = s
<1>1. /\ Projected(s) \in SnapshotsOf(ks)
      /\ \A k \in ks : Projected(s)[k] = s[k]
  BY DEF Projected, SnapshotsOf
<1>. QED  BY <1>1, SameSnapshot

\* How the calls under way change.
Pushes(call) ==
  /\ Len(stack) \in Nat /\ Len(stack') = Len(stack) + 1 /\ stack' # <<>>
  /\ DOMAIN stack = 1 .. Len(stack) /\ DOMAIN stack' = 1 .. Len(stack) + 1
  /\ \A i \in 1 .. Len(stack) : stack'[i] = stack[i]
  /\ stack'[Len(stack) + 1] = call
  /\ stack = <<>> <=> Len(stack) = 0

Pops ==
  /\ Len(stack) \in Nat \ {0} /\ Len(stack') = Len(stack) - 1
  /\ DOMAIN stack = 1 .. Len(stack) /\ DOMAIN stack' = 1 .. Len(stack) - 1
  /\ \A i \in 1 .. Len(stack) - 1 : stack'[i] = stack[i]
  /\ Top = stack[Len(stack)]
  /\ stack # <<>>
  /\ stack' = <<>> <=> Len(stack) = 1

Drains ==
  /\ Len(stack) = 1 /\ Len(stack') = 1 /\ stack # <<>> /\ stack' # <<>>
  /\ DOMAIN stack = {1} /\ DOMAIN stack' = {1}
  /\ Top = stack[1]
  /\ stack'[1].kind = stack[1].kind
  /\ stack'[1].before = stack[1].before
  /\ stack'[1].target = stack[1].target
  /\ stack[1].at = "commits" /\ stack'[1].at = "subscribers"

LEMMA PushFacts ==
  ASSUME CallsOK, NEW call \in CallsOf(tracked), stack' = Append(stack, call)
  PROVE  stack' \in Seq(CallsOf(tracked)) /\ Pushes(call)
<1>1. PICK next : next = Append(stack, call)
  OBVIOUS
<1>2. /\ next \in Seq(CallsOf(tracked)) /\ next # <<>>
      /\ Len(next) = Len(stack) + 1 /\ Len(stack) \in Nat
      /\ \A i \in 1 .. Len(stack) : next[i] = stack[i]
      /\ next[Len(stack) + 1] = call
  BY <1>1, AppendFacts DEF CallsOK
<1>3. DOMAIN next = 1 .. Len(next) /\ DOMAIN stack = 1 .. Len(stack)
  BY <1>2, LenProperties DEF CallsOK
<1>. QED  BY <1>1, <1>2, <1>3, StackFacts DEF Pushes

LEMMA PopFacts ==
  ASSUME CallsOK, stack # <<>>, stack' = Front(stack)
  PROVE  stack' \in Seq(CallsOf(tracked)) /\ Pops
<1>1. PICK next : next = Front(stack)
  OBVIOUS
<1>2. /\ next \in Seq(CallsOf(tracked))
      /\ Len(stack) \in Nat \ {0} /\ Len(next) = Len(stack) - 1
      /\ \A i \in 1 .. Len(stack) - 1 : next[i] = stack[i]
      /\ Top = stack[Len(stack)]
  BY <1>1, FrontFacts DEF CallsOK, Top
<1>3. DOMAIN next = 1 .. Len(next) /\ DOMAIN stack = 1 .. Len(stack)
  BY <1>2, LenProperties DEF CallsOK
<1>4. next = <<>> <=> Len(next) = 0
  BY <1>2, EmptySeq
<1>. QED  BY <1>1, <1>2, <1>3, <1>4 DEF Pops

LEMMA DrainFacts ==
  ASSUME CallsOK, Drain
  PROVE  stack' \in Seq(CallsOf(tracked)) /\ Drains
<1>1. Len(stack) = 1 /\ DOMAIN stack = {1} /\ stack[1] \in CallsOf(tracked) /\ stack # <<>>
  BY StackFacts DEF Drain
<1>2. Top = stack[1] /\ Top.at = "commits"
  BY <1>1 DEF Drain, Top, Last
<1>3. PICK call : call = [Top EXCEPT !.at = "subscribers"]
  OBVIOUS
<1>4. /\ call \in CallsOf(tracked)
      /\ call.kind = Top.kind /\ call.before = Top.before /\ call.target = Top.target
      /\ call.at = "subscribers"
  BY <1>1, <1>2, <1>3 DEF CallsOf
<1>5. stack' = <<call>>
  BY <1>3 DEF Drain
<1>6. stack' \in Seq(CallsOf(tracked)) /\ Len(stack') = 1 /\ DOMAIN stack' = {1}
      /\ stack'[1] = call /\ stack' # <<>>
  BY <1>4, <1>5
<1>. QED  BY <1>1, <1>2, <1>4, <1>6 DEF Drains

LEMMA PushUnderWay ==
  ASSUME NEW call, Pushes(call), NEW kinds
  PROVE  UnderWay(kinds)' <=> UnderWay(kinds) \/ call.kind \in kinds
BY DEF UnderWay, Pushes

LEMMA PopUnderWay ==
  ASSUME Pops, NEW kinds
  PROVE  UnderWay(kinds) <=> UnderWay(kinds)' \/ Top.kind \in kinds
BY DEF UnderWay, Pops

LEMMA DrainUnderWay ==
  ASSUME Drains, NEW kinds
  PROVE  UnderWay(kinds)' <=> UnderWay(kinds)
BY DEF UnderWay, Drains

\* Only the innermost call can have been refused.
LEMMA NoneRefused ==
  ASSUME CallsOK, CallsNest, stack # <<>> => Top.at # "refused"
  PROVE  \A i \in DOMAIN stack : stack[i].at # "refused"
<1>1. stack # <<>> => Top = stack[Len(stack)]
  BY DEF Top, Last
<1>2. \A i \in DOMAIN stack : stack # <<>> /\ (stack[i].at = "refused" => i = Len(stack))
  BY StackFacts DEF CallsNest
<1>. QED  BY <1>1, <1>2

LEMMA CallTyped ==
  ASSUME CallsOK, NEW kind \in {"write", "setState", "hydrate", "undo", "redo"}
  PROVE  /\ Call(kind) \in CallsOf(tracked)
         /\ Call(kind).kind = kind /\ Call(kind).at = "commits"
         /\ Call(kind).before = Projected(state)
<1>1. Projected(state) \in SnapshotsOf(tracked)
  BY ProjectedFacts DEF CallsOK
<1>. QED  BY <1>1 DEF Call, CallsOf

\* A move that is under way stays, and stays what it is.
Carried ==
  \A i \in DOMAIN stack' : Moving(stack'[i]) =>
    /\ i \in DOMAIN stack /\ stack'[i].kind = stack[i].kind
    /\ stack'[i].target = stack[i].target /\ stack'[i].before = stack[i].before
    /\ stack'[i].at = "refused" <=> stack[i].at = "refused"

\* A timeline stands still while a move is under way.
Still ==
  traveling => /\ engine' = engine /\ entries' = entries /\ position' = position
               /\ past' = past /\ future' = future
               /\ engine # "legacy" => present' = present

LEMMA RoomIsKept ==
  ASSUME CallsNest, MovesHaveRoom, Carried, Still
  PROVE  MovesHaveRoom'
<1>. SUFFICES ASSUME NEW i \in DOMAIN stack', Moving(stack'[i])
     PROVE  IF engine' = "journal"
            THEN IF stack'[i].kind = "undo" THEN position' > 0 ELSE position' < Len(entries')
            ELSE (IF stack'[i].kind = "undo" THEN future' ELSE past') # <<>>
  BY DEF MovesHaveRoom, Moving
<1>1. i \in DOMAIN stack /\ Moving(stack[i]) /\ stack'[i].kind = stack[i].kind
  BY DEF Carried, Moving
<1>2. UnderWay({"undo", "redo"})
  BY <1>1 DEF UnderWay, Moving
<1>3. traveling
  BY <1>2 DEF CallsNest
<1>4. /\ engine' = engine /\ entries' = entries /\ position' = position
      /\ past' = past /\ future' = future
  BY <1>3 DEF Still
<1>5. IF engine = "journal"
      THEN IF stack[i].kind = "undo" THEN position > 0 ELSE position < Len(entries)
      ELSE (IF stack[i].kind = "undo" THEN future ELSE past) # <<>>
  BY <1>1 DEF MovesHaveRoom
<1>. QED  BY <1>1, <1>4, <1>5

\* A call that is no move is made.
LEMMA PushNests ==
  ASSUME CallsOK, CallsNest, NEW call, Pushes(call), stack # <<>> => Top.at # "refused",
         call.at = "commits", call.kind \in {"write", "setState", "hydrate"},
         call.kind = "hydrate" => stack = <<>>,
         traveling' = traveling,
         recording' => recording \/ call.kind \in {"setState", "hydrate"}
  PROVE  CallsNest' /\ Carried
<1>1. \A i \in DOMAIN stack : stack[i].at # "refused"
  BY NoneRefused
<1>2. \A i \in DOMAIN stack' :
        \/ i \in DOMAIN stack /\ stack'[i] = stack[i]
        \/ i = Len(stack) + 1 /\ stack'[i] = call
  BY DEF Pushes
<1>3. ~Moving(call)
  BY DEF Moving
<1>4. traveling' <=> UnderWay({"undo", "redo"})'
  <2>1. UnderWay({"undo", "redo"})' <=> UnderWay({"undo", "redo"})
    BY PushUnderWay
  <2>. QED  BY <2>1, Zenon DEF CallsNest
<1>5. \A i, j \in DOMAIN stack' : Moving(stack'[i]) /\ Moving(stack'[j]) => i = j
  BY <1>2, <1>3 DEF CallsNest
<1>6. \A i \in DOMAIN stack' : stack'[i].at # "refused"
  BY <1>1, <1>2
<1>7. \A i \in DOMAIN stack' : stack'[i].kind = "hydrate" => i = 1
  BY <1>2 DEF CallsNest, Pushes
<1>8. Suppressed' => ~traveling'
  <2>1. Suppressed' <=> Suppressed \/ call.kind = "hydrate"
    BY PushUnderWay DEF Suppressed
  <2>2. stack = <<>> => ~traveling
    BY StackFacts DEF CallsNest, UnderWay
  <2>. QED  BY <2>1, <2>2, Zenon DEF CallsNest
<1>9. recording' => UnderWay({"setState", "hydrate"})'
  <2>1. UnderWay({"setState", "hydrate"})' <=>
          UnderWay({"setState", "hydrate"}) \/ call.kind \in {"setState", "hydrate"}
    BY PushUnderWay
  <2>. QED  BY <2>1, Zenon DEF CallsNest
<1>10. CallsNest'
  BY <1>4, <1>5, <1>6, <1>7, <1>8, <1>9, Zenon DEF CallsNest, Moving
<1>. QED  BY <1>2, <1>3, <1>10 DEF Carried

\* A move is made.
LEMMA MoveNests ==
  ASSUME CallsOK, CallsNest, NEW call, Pushes(call), stack # <<>> => Top.at # "refused",
         call.kind \in {"undo", "redo"}, ~traveling, ~Suppressed,
         call.at = "refused" => call.before = Projected(state)',
         traveling', recording' = recording
  PROVE  CallsNest'
<1>1. \A i \in DOMAIN stack : stack[i].at # "refused" /\ ~Moving(stack[i])
  BY NoneRefused DEF CallsNest, UnderWay, Moving
<1>2. \A i \in DOMAIN stack' :
        \/ i \in DOMAIN stack /\ stack'[i] = stack[i] /\ i # Len(stack) + 1
        \/ i = Len(stack) + 1 /\ i = Len(stack') /\ stack'[i] = call
  BY DEF Pushes
<1>3. Moving(call)
  BY DEF Moving
<1>4. UnderWay({"undo", "redo"})'
  BY PushUnderWay
<1>5. \A i, j \in DOMAIN stack' : Moving(stack'[i]) /\ Moving(stack'[j]) => i = j
  BY <1>1, <1>2
<1>6. \A i \in DOMAIN stack' : stack'[i].at = "refused" =>
        i = Len(stack') /\ Moving(stack'[i]) /\ stack'[i].before = Projected(state)'
  BY <1>1, <1>2, <1>3
<1>7. \A i \in DOMAIN stack' : stack'[i].kind = "hydrate" => i = 1
  BY <1>2 DEF CallsNest
<1>8. ~Suppressed'
  BY PushUnderWay DEF Suppressed
<1>9. recording' => UnderWay({"setState", "hydrate"})'
  <2>1. UnderWay({"setState", "hydrate"})' <=>
          UnderWay({"setState", "hydrate"}) \/ call.kind \in {"setState", "hydrate"}
    BY PushUnderWay
  <2>. QED  BY <2>1, Zenon DEF CallsNest
<1>. QED  BY <1>4, <1>5, <1>6, <1>7, <1>8, <1>9, Zenon DEF CallsNest, Moving

\* The innermost call ends.
LEMMA PopNests ==
  ASSUME CallsOK, CallsNest, Pops,
         traveling' = IF Moving(Top) THEN FALSE ELSE traveling,
         recording' => recording /\ Top.kind \notin {"setState", "hydrate"}
  PROVE  CallsNest' /\ Carried
<1>1. \A i \in DOMAIN stack' : i \in DOMAIN stack /\ i # Len(stack) /\ stack'[i] = stack[i]
  BY DEF Pops
<1>2. \A i \in DOMAIN stack' : stack'[i].at # "refused"
  BY <1>1 DEF CallsNest
<1>3. Len(stack) \in DOMAIN stack /\ Top = stack[Len(stack)]
  BY DEF Pops
<1>4. traveling' <=> UnderWay({"undo", "redo"})'
  <2>1. UnderWay({"undo", "redo"}) <=> UnderWay({"undo", "redo"})' \/ Moving(Top)
    BY PopUnderWay DEF Moving
  <2>2. Moving(Top) => ~UnderWay({"undo", "redo"})'
    BY <1>1, <1>3 DEF CallsNest, UnderWay, Moving
  <2>3. CASE Moving(Top)
    BY <2>2, <2>3, Zenon
  <2>4. CASE ~Moving(Top)
    BY <2>1, <2>4, Zenon DEF CallsNest
  <2>. QED  BY <2>3, <2>4
<1>5. \A i, j \in DOMAIN stack' : Moving(stack'[i]) /\ Moving(stack'[j]) => i = j
  BY <1>1 DEF CallsNest
<1>6. \A i \in DOMAIN stack' : stack'[i].kind = "hydrate" => i = 1
  BY <1>1 DEF CallsNest
<1>7. Suppressed' => ~traveling'
  <2>1. Suppressed' => Suppressed
    BY PopUnderWay DEF Suppressed
  <2>. QED  BY <2>1, Zenon DEF CallsNest
<1>8. recording' => UnderWay({"setState", "hydrate"})'
  <2>1. UnderWay({"setState", "hydrate"}) <=>
          UnderWay({"setState", "hydrate"})' \/ Top.kind \in {"setState", "hydrate"}
    BY PopUnderWay
  <2>. QED  BY <2>1, Zenon DEF CallsNest
<1>9. CallsNest'
  BY <1>2, <1>4, <1>5, <1>6, <1>7, <1>8, Zenon DEF CallsNest, Moving
<1>. QED  BY <1>1, <1>9 DEF Carried

\* The listeners of the outermost call have been called.
LEMMA DrainNests ==
  ASSUME CallsOK, CallsNest, Drains, traveling' = traveling, recording' = recording
  PROVE  CallsNest' /\ Carried
<1>1. \A i \in DOMAIN stack' :
        /\ i = 1 /\ i \in DOMAIN stack /\ stack'[i].kind = stack[i].kind
        /\ stack'[i].target = stack[i].target /\ stack'[i].before = stack[i].before
        /\ stack'[i].at # "refused" /\ stack[i].at # "refused"
  BY DEF Drains
<1>2. \A kinds : UnderWay(kinds)' <=> UnderWay(kinds)
  BY DrainUnderWay
<1>3. traveling' <=> UnderWay({"undo", "redo"})'
  BY <1>2, Zenon DEF CallsNest
<1>4. Suppressed' => ~traveling'
  BY <1>2, Zenon DEF CallsNest, Suppressed
<1>5. recording' => UnderWay({"setState", "hydrate"})'
  BY <1>2, Zenon DEF CallsNest
<1>6. \A i, j \in DOMAIN stack' : Moving(stack'[i]) /\ Moving(stack'[j]) => i = j
  BY <1>1
<1>7. CallsNest'
  BY <1>1, <1>3, <1>4, <1>5, <1>6, Zenon DEF CallsNest
<1>. QED  BY <1>1, <1>7 DEF Carried

\* No call is made and none ends.
LEMMA SameNests ==
  ASSUME CallsNest, stack' = stack, traveling' = traveling, recording' = recording,
         Projected(state)' = Projected(state)
  PROVE  CallsNest' /\ Carried
BY Zenon DEF CallsNest, Carried, UnderWay, Suppressed, Moving

-----------------------------------------------------------------------------
(* Every step keeps the types.                                             *)

LEMMA NotifiedFacts ==
  ASSUME CallsOK, NEW mode \in {"journal", "snapshots", "legacy"}, Notified(mode)
  PROVE  /\ waiting' \in Seq({"history", "user"})
         /\ Awaited' <=> Awaited \/ ~Whole \/ mode # "journal"
<1>1. PICK more : more = Subscribers(mode)
  OBVIOUS
<1>2. /\ more \in Seq({"history", "user"})
      /\ (\E i \in 1 .. Len(more) : more[i] = "history") <=> ~Whole \/ mode # "journal"
  <2>1. CASE ~Whole \/ mode = "legacy"
    <3>1. more = <<"history", "user">>
      BY <1>1, <2>1 DEF Subscribers
    <3>2. 1 \in 1 .. Len(more) /\ more[1] = "history"
      BY <3>1
    <3>. QED  BY <2>1, <3>1, <3>2
  <2>2. CASE Whole /\ mode = "snapshots"
    <3>1. more = <<"user", "history">>
      BY <1>1, <2>2 DEF Subscribers
    <3>2. 2 \in 1 .. Len(more) /\ more[2] = "history"
      BY <3>1
    <3>. QED  BY <2>2, <3>1, <3>2
  <2>3. CASE Whole /\ mode = "journal"
    <3>1. more = <<"user">>
      BY <1>1, <2>3 DEF Subscribers
    <3>2. \A i \in 1 .. Len(more) : more[i] # "history"
      BY <3>1
    <3>. QED  BY <2>3, <3>1, <3>2
  <2>. QED  BY <2>1, <2>2, <2>3
<1>3. waiting' = waiting \o more
  BY <1>1 DEF Notified
<1>4. /\ waiting' \in Seq({"history", "user"}) /\ Len(waiting') = Len(waiting) + Len(more)
      /\ \A i \in 1 .. Len(waiting) + Len(more) :
           waiting'[i] = IF i <= Len(waiting) THEN waiting[i] ELSE more[i - Len(waiting)]
  BY <1>2, <1>3, ConcatProperties DEF CallsOK
<1>5. /\ Len(waiting) \in Nat /\ Len(more) \in Nat
      /\ DOMAIN waiting = 1 .. Len(waiting) /\ DOMAIN waiting' = 1 .. Len(waiting')
  BY <1>2, <1>4, LenProperties DEF CallsOK
<1>6. Awaited => Awaited'
  <2>1. \A i \in 1 .. Len(waiting) : i \in 1 .. Len(waiting) + Len(more) /\ waiting'[i] = waiting[i]
    BY <1>4, <1>5
  <2>. QED  BY <1>4, <1>5, <2>1 DEF Awaited
<1>7. (\E i \in 1 .. Len(more) : more[i] = "history") => Awaited'
  <2>1. ASSUME NEW i \in 1 .. Len(more)
        PROVE  /\ i + Len(waiting) \in 1 .. Len(waiting) + Len(more)
               /\ waiting'[i + Len(waiting)] = more[i]
    <3>1. /\ i + Len(waiting) \in 1 .. Len(waiting) + Len(more)
          /\ ~(i + Len(waiting) <= Len(waiting)) /\ (i + Len(waiting)) - Len(waiting) = i
      BY <1>5
    <3>. QED  BY <1>4, <3>1
  <2>. QED  BY <1>4, <1>5, <2>1 DEF Awaited
<1>8. Awaited' => Awaited \/ \E i \in 1 .. Len(more) : more[i] = "history"
  <2>. SUFFICES ASSUME NEW i \in 1 .. Len(waiting) + Len(more), waiting'[i] = "history"
       PROVE  Awaited \/ \E j \in 1 .. Len(more) : more[j] = "history"
    BY <1>4, <1>5 DEF Awaited
  <2>1. CASE i <= Len(waiting)
    BY <1>4, <1>5, <2>1 DEF Awaited
  <2>2. CASE ~(i <= Len(waiting))
    <3>1. i - Len(waiting) \in 1 .. Len(more) /\ more[i - Len(waiting)] = "history"
      BY <1>4, <1>5, <2>2
    <3>. QED  BY <3>1
  <2>. QED  BY <2>1, <2>2
<1>. QED  BY <1>2, <1>4, <1>6, <1>7, <1>8

LEMMA TimelineKept ==
  ASSUME TimelineOK, tracked' = tracked, UNCHANGED timeline
  PROVE  /\ TimelineOK' /\ engine' = engine /\ entries' = entries /\ position' = position
         /\ present' = present /\ past' = past /\ future' = future
BY DEF timeline, journal, snapshots, TimelineOK, Limited

\* A journal of the whole store hears of commits.
Hearing == Whole /\ engine = "journal" /\ ~traveling /\ ~Suppressed

\* What the commit of a write that leads to next leaves.
Commits(next) ==
  \/ /\ Hearing
     /\ RecordPatches(next) \/ Switch(next)
     /\ Awaited' <=> Awaited
  \/ Hearing /\ Begin /\ Awaited'
  \/ /\ ~Hearing
     /\ UNCHANGED timeline
     /\ Awaited' <=> Awaited \/ ~Whole \/ engine # "journal"

\* A write of one key.
Wrote(next, k, v) ==
  /\ next \in SnapshotsOf(Keys)
  /\ next[k] = v
  /\ \A j \in Keys : j # k => next[j] = state[j]

LEMMA WroteFacts ==
  ASSUME CallsOK, NEW k \in Keys, NEW v \in Values
  PROVE  Wrote([state EXCEPT ![k] = v], k, v)
BY DEF Wrote, CallsOK, SnapshotsOf

LEMMA WritesFacts ==
  ASSUME CallsOK, NEW next, NEW mode \in {"journal", "snapshots", "legacy"},
         Writes(next, mode)
  PROVE  /\ state' = next /\ tracked' = tracked /\ failed' = failed /\ moves' = moves
         /\ waiting' \in Seq({"history", "user"})
         /\ Awaited' <=> Awaited \/ ~Whole \/ mode # "journal"
BY NotifiedFacts DEF Writes

LEMMA CommittedFacts ==
  ASSUME TimelineOK, CallsOK, NEW k \in Keys, NEW v \in Values, Committed(k, v)
  PROVE  /\ TimelineOK' /\ Wrote(state', k, v) /\ Commits(state')
         /\ tracked' = tracked /\ failed' = failed /\ moves' = moves
         /\ waiting' \in Seq({"history", "user"})
         /\ Hearing => state \in SnapshotsOf(tracked) /\ state' \in SnapshotsOf(tracked)
<1>1. PICK next : next = [state EXCEPT ![k] = v]
  OBVIOUS
<1>2. Wrote(next, k, v) /\ next \in SnapshotsOf(Keys) /\ state \in SnapshotsOf(Keys)
  <2>1. Wrote(next, k, v)
    BY <1>1, WroteFacts, Zenon
  <2>. QED  BY <2>1 DEF Wrote, CallsOK
<1>3. Hearing => tracked = Keys /\ engine = "journal"
  BY DEF Hearing, Whole
<1>4. \/ Hearing /\ (Switch(next) \/ RecordPatches(next)) /\ Writes(next, "journal")
      \/ Hearing /\ Begin /\ Writes(next, "snapshots")
      \/ ~Hearing /\ Writes(next, engine) /\ UNCHANGED timeline
  BY <1>1 DEF Committed, RecordCommit, Hearing
<1>5. CASE Hearing /\ (Switch(next) \/ RecordPatches(next)) /\ Writes(next, "journal")
  <2>1. /\ state' = next /\ tracked' = tracked /\ failed' = failed /\ moves' = moves
        /\ waiting' \in Seq({"history", "user"})
        /\ Awaited' <=> Awaited \/ ~Whole
    BY <1>5, WritesFacts
  <2>2. TimelineOK'
    BY <1>2, <1>3, <1>5, <2>1, SwitchFacts, RecordPatchesFacts
  <2>3. Awaited' <=> Awaited
    BY <1>5, <2>1 DEF Hearing
  <2>. QED  BY <1>2, <1>3, <1>5, <2>1, <2>2, <2>3 DEF Commits
<1>6. CASE Hearing /\ Begin /\ Writes(next, "snapshots")
  <2>1. /\ state' = next /\ tracked' = tracked /\ failed' = failed /\ moves' = moves
        /\ waiting' \in Seq({"history", "user"})
        /\ Awaited'
    BY <1>6, WritesFacts
  <2>2. TimelineOK'
    BY <1>3, <1>6, <2>1, BeginFacts
  <2>. QED  BY <1>2, <1>3, <1>6, <2>1, <2>2 DEF Commits
<1>7. CASE ~Hearing /\ Writes(next, engine) /\ UNCHANGED timeline
  <2>1. engine \in {"journal", "snapshots", "legacy"}
    BY DEF TimelineOK
  <2>2. /\ state' = next /\ tracked' = tracked /\ failed' = failed /\ moves' = moves
        /\ waiting' \in Seq({"history", "user"})
        /\ Awaited' <=> Awaited \/ ~Whole \/ engine # "journal"
    BY <1>7, <2>1, WritesFacts
  <2>3. TimelineOK'
    BY <1>7, <2>2, TimelineKept
  <2>. QED  BY <1>2, <1>7, <2>2, <2>3 DEF Commits
<1>. QED  BY <1>4, <1>5, <1>6, <1>7

\* The timeline stands still in a write while a move is under way.
LEMMA CommitsStill ==
  ASSUME TimelineOK, tracked' = tracked, NEW next, Commits(next)
  PROVE  Still
<1>1. traveling => UNCHANGED timeline
  BY DEF Commits, Hearing
<1>. QED  BY <1>1 DEF Still, timeline, journal, snapshots

LEMMA Parts ==
  ASSUME TypeInvariant
  PROVE  /\ TimelineOK /\ CallsOK /\ CallsNest /\ MovesHaveRoom
         /\ Projected(state) \in SnapshotsOf(tracked)
         /\ Len(stack) \in Nat /\ DOMAIN stack = 1 .. Len(stack)
         /\ stack = <<>> <=> Len(stack) = 0
         /\ stack # <<>> => Len(stack) \in DOMAIN stack /\ Top = stack[Len(stack)]
<1>1. TimelineOK /\ CallsOK /\ CallsNest /\ MovesHaveRoom
  BY TypeParts DEF TypeInvariant
<1>2. Projected(state) \in SnapshotsOf(tracked)
  BY <1>1, ProjectedFacts DEF CallsOK
<1>3. Top = stack[Len(stack)]
  BY DEF Top, Last
<1>. QED  BY <1>1, <1>2, <1>3, StackFacts

LEMMA PartsNext ==
  ASSUME TimelineOK', CallsOK', CallsNest', MovesHaveRoom'
  PROVE  TypeInvariant'
BY TypePartsNext DEF TypeInvariant

LEMMA UserCodeFacts ==
  ASSUME UserCode, stack # <<>>
  PROVE  Top.at # "refused"
BY DEF UserCode

\* A write of an observer or of the program.
LEMMA WriteStep ==
  ASSUME TypeInvariant, NEW k \in Keys, NEW v \in Values, NEW kind \in {"write", "setState"},
         UserWrite(k, v), Committed(k, v), stack' = Append(stack, Call(kind)),
         traveling' = traveling,
         recording' = IF kind = "setState" THEN TRUE ELSE recording
  PROVE  /\ TypeInvariant' /\ Pushes(Call(kind)) /\ Carried /\ Still
         /\ Wrote(state', k, v) /\ Commits(state')
         /\ Hearing => state \in SnapshotsOf(tracked) /\ state' \in SnapshotsOf(tracked)
         /\ tracked' = tracked /\ failed' = failed
         /\ stack # <<>> => Top.at # "refused"
<1>1. TimelineOK /\ CallsOK /\ CallsNest /\ MovesHaveRoom
  BY Parts
<1>2. /\ TimelineOK' /\ Wrote(state', k, v) /\ Commits(state')
      /\ tracked' = tracked /\ failed' = failed /\ moves' = moves
      /\ waiting' \in Seq({"history", "user"})
      /\ Hearing => state \in SnapshotsOf(tracked) /\ state' \in SnapshotsOf(tracked)
  BY <1>1, CommittedFacts
<1>3. PICK call : call = Call(kind)
  OBVIOUS
<1>4. /\ call \in CallsOf(tracked) /\ call.kind = kind /\ call.at = "commits"
  BY <1>1, <1>3, CallTyped
<1>5. stack' \in Seq(CallsOf(tracked)) /\ Pushes(call)
  BY <1>1, <1>3, <1>4, PushFacts
<1>6. stack # <<>> => Top.at # "refused"
  BY UserCodeFacts DEF UserWrite, CanCall
<1>7. CallsNest' /\ Carried
  <2>1. recording' => recording \/ call.kind \in {"setState", "hydrate"}
    BY <1>4
  <2>2. /\ call.kind \in {"write", "setState", "hydrate"}
        /\ call.kind = "hydrate" => stack = <<>>
    BY <1>4
  <2>. QED  BY <1>1, <1>4, <1>5, <1>6, <2>1, <2>2, PushNests
<1>8. Still
  BY <1>1, <1>2, CommitsStill
<1>9. MovesHaveRoom'
  BY <1>1, <1>7, <1>8, RoomIsKept
<1>10. CallsOK'
  <2>1. /\ state' \in SnapshotsOf(Keys) /\ tracked' \subseteq Keys
        /\ stack' \in Seq(CallsOf(tracked'))
    BY <1>1, <1>2, <1>5 DEF Wrote, CallsOK
  <2>2. writes' \in 0 .. MaxWrites /\ moves' \in 0 .. MaxMoves
    <3>1. MaxWrites \in Nat
      BY HistoryAssumption
    <3>. QED  BY <1>1, <1>2, <3>1 DEF UserWrite, CallsOK
  <2>3. {recording', traveling', failed', meddled'} \subseteq BOOLEAN
    BY <1>1, <1>2 DEF UserWrite, CallsOK
  <2>. QED  BY <1>2, <2>1, <2>2, <2>3 DEF CallsOK
<1>11. TypeInvariant'
  BY <1>2, <1>7, <1>9, <1>10, PartsNext
<1>. QED  BY <1>2, <1>3, <1>5, <1>6, <1>7, <1>8, <1>11

\* A hydration.
LEMMA HydrateStep ==
  ASSUME TypeInvariant, NEW k \in Keys, NEW v \in Values, Hydrate(k, v)
  PROVE  /\ TypeInvariant' /\ Pushes(Call("hydrate")) /\ Carried /\ Still
         /\ stack = <<>> /\ ~traveling
         /\ Wrote(state', k, v) /\ v # state[k]
         /\ tracked' = tracked /\ failed' = failed /\ meddled' = meddled
         /\ \/ UNCHANGED timeline /\ (Awaited' <=> Awaited \/ ~Whole \/ engine # "journal")
            \/ Whole /\ engine = "journal" /\ Begin
<1>1. TimelineOK /\ CallsOK /\ CallsNest /\ MovesHaveRoom
  BY Parts
<1>2. stack = <<>> /\ ~traveling /\ UserWrite(k, v)
  <2>1. stack = <<>> /\ UserWrite(k, v)
    BY DEF Hydrate
  <2>. QED  BY <1>1, <2>1, StackFacts DEF CallsNest, UnderWay
<1>3. PICK next : next = [state EXCEPT ![k] = v]
  OBVIOUS
<1>4. Wrote(next, k, v)
  BY <1>1, <1>3, WroteFacts, Zenon
<1>5. \/ Writes(next, engine) /\ UNCHANGED timeline
      \/ Whole /\ engine = "journal" /\ Begin /\ Writes(next, "snapshots")
  BY <1>3 DEF Hydrate
<1>6. /\ state' = next /\ tracked' = tracked /\ failed' = failed /\ moves' = moves
      /\ waiting' \in Seq({"history", "user"})
      /\ TimelineOK'
      /\ \/ UNCHANGED timeline /\ (Awaited' <=> Awaited \/ ~Whole \/ engine # "journal")
         \/ Whole /\ engine = "journal" /\ Begin
  <2>1. CASE Writes(next, engine) /\ UNCHANGED timeline
    <3>1. engine \in {"journal", "snapshots", "legacy"}
      BY <1>1 DEF TimelineOK
    <3>2. /\ state' = next /\ tracked' = tracked /\ failed' = failed /\ moves' = moves
          /\ waiting' \in Seq({"history", "user"})
          /\ Awaited' <=> Awaited \/ ~Whole \/ engine # "journal"
      BY <1>1, <2>1, <3>1, WritesFacts
    <3>. QED  BY <1>1, <2>1, <3>2, TimelineKept
  <2>2. CASE Whole /\ engine = "journal" /\ Begin /\ Writes(next, "snapshots")
    <3>1. /\ state' = next /\ tracked' = tracked /\ failed' = failed /\ moves' = moves
          /\ waiting' \in Seq({"history", "user"})
      BY <1>1, <2>2, WritesFacts
    <3>. QED  BY <1>1, <2>2, <3>1, BeginFacts
  <2>. QED  BY <1>5, <2>1, <2>2
<1>7. PICK call : call = Call("hydrate")
  OBVIOUS
<1>8. /\ call \in CallsOf(tracked) /\ call.kind = "hydrate" /\ call.at = "commits"
  BY <1>1, <1>7, CallTyped
<1>9. stack' = Append(stack, call)
  BY <1>2, <1>7 DEF Hydrate
<1>10. stack' \in Seq(CallsOf(tracked)) /\ Pushes(call)
  BY <1>1, <1>8, <1>9, PushFacts
<1>11. CallsNest' /\ Carried
  <2>1. traveling' = traveling
    BY DEF Hydrate
  <2>2. recording' => recording \/ call.kind \in {"setState", "hydrate"}
    BY <1>8
  <2>. QED  BY <1>1, <1>2, <1>8, <1>10, <2>1, <2>2, PushNests
<1>12. Still
  BY <1>2 DEF Still
<1>13. MovesHaveRoom'
  BY <1>1, <1>11, <1>12, RoomIsKept
<1>14. meddled' = meddled /\ v # state[k]
  BY <1>1, <1>2 DEF UserWrite, CallsOK
<1>15. CallsOK'
  <2>1. /\ state' \in SnapshotsOf(Keys) /\ tracked' \subseteq Keys
        /\ stack' \in Seq(CallsOf(tracked'))
    BY <1>1, <1>4, <1>6, <1>10 DEF Wrote, CallsOK
  <2>2. writes' \in 0 .. MaxWrites /\ moves' \in 0 .. MaxMoves
    <3>1. MaxWrites \in Nat
      BY HistoryAssumption
    <3>. QED  BY <1>1, <1>2, <1>6, <3>1 DEF UserWrite, CallsOK
  <2>3. recording' \in BOOLEAN /\ traveling' = traveling
    BY DEF Hydrate
  <2>4. {recording', traveling', failed', meddled'} \subseteq BOOLEAN
    BY <1>1, <1>6, <1>14, <2>3 DEF CallsOK
  <2>. QED  BY <1>6, <2>1, <2>2, <2>4 DEF CallsOK
<1>16. TypeInvariant'
  BY <1>6, <1>11, <1>13, <1>15, PartsNext
<1>. QED  BY <1>2, <1>4, <1>6, <1>7, <1>10, <1>11, <1>12, <1>14, <1>16

\* A move has been started: its write is made, or refused.
Started(call, kind, target) ==
  /\ Pushes(call) /\ call \in CallsOf(tracked)
  /\ call.kind = kind /\ call.target = target /\ call.before = Projected(state)
  /\ tracked' = tracked /\ engine' = engine /\ entries' = entries
  /\ position' = position /\ present' = present
  /\ recording' = recording /\ failed' = failed /\ meddled' = meddled
  /\ ~traveling /\ ~Suppressed /\ traveling'
  /\ LegacyNests
  /\ stack # <<>> => Top.at # "refused"
  /\ \/ /\ call.at = "commits" /\ Projected(state)' = target
        /\ Awaited' <=> Awaited \/ ~Whole \/ engine # "journal"
     \/ call.at = "refused" /\ state' = state /\ waiting' = waiting

LEMMA MovesFacts ==
  ASSUME TimelineOK, CallsOK, CallsNest, NEW kind \in {"undo", "redo"},
         NEW target \in SnapshotsOf(tracked), Moves(kind, target)
  PROVE  CallsOK' /\ CallsNest' /\ \E call : Started(call, kind, target)
<1>1. PICK made : made = Call(kind)
  OBVIOUS
<1>2. /\ made \in CallsOf(tracked) /\ made.kind = kind /\ made.at = "commits"
      /\ made.before = Projected(state)
  BY <1>1, CallTyped
<1>3. PICK call : /\ stack' = Append(stack, call)
                  /\ \/ call = [made EXCEPT !.target = target] /\ TimeTravel(target)
                     \/ /\ call = [made EXCEPT !.target = target, !.at = "refused"]
                        /\ UNCHANGED <<state, waiting>>
  BY <1>1 DEF Moves
<1>4. /\ call \in CallsOf(tracked) /\ call.kind = kind /\ call.target = target
      /\ call.before = Projected(state)
      /\ call.at = "commits" \/ call.at = "refused"
      /\ call.at = "commits" => TimeTravel(target)
      /\ call.at = "refused" => UNCHANGED <<state, waiting>>
  BY <1>2, <1>3 DEF CallsOf
<1>5. stack' \in Seq(CallsOf(tracked)) /\ Pushes(call)
  BY <1>3, <1>4, PushFacts
<1>6. /\ tracked' = tracked /\ engine' = engine /\ entries' = entries
      /\ position' = position /\ present' = present
      /\ recording' = recording /\ failed' = failed /\ meddled' = meddled
      /\ writes' = writes /\ moves' = moves + 1 /\ moves < MaxMoves
      /\ ~traveling /\ ~Suppressed /\ traveling' = TRUE
      /\ LegacyNests /\ UserCode
  BY DEF Moves, journal, CanCall
<1>7. stack # <<>> => Top.at # "refused"
  BY <1>6, UserCodeFacts
<1>8. tracked \subseteq Keys /\ state \in SnapshotsOf(Keys)
  BY DEF CallsOK
<1>9. call.at = "commits" => /\ state' \in SnapshotsOf(Keys) /\ Projected(state)' = target
                             /\ waiting' \in Seq({"history", "user"})
                             /\ Awaited' <=> Awaited \/ ~Whole \/ engine # "journal"
  <2>. SUFFICES ASSUME TimeTravel(target)
       PROVE  /\ state' \in SnapshotsOf(Keys) /\ Projected(state)' = target
              /\ waiting' \in Seq({"history", "user"})
              /\ Awaited' <=> Awaited \/ ~Whole \/ engine # "journal"
    BY <1>4
  <2>1. state' = Patched(state, target) /\ Notified(engine)
    BY DEF TimeTravel
  <2>2. /\ Patched(state, target) \in SnapshotsOf(Keys)
        /\ \A k \in Keys : Patched(state, target)[k] = IF k \in tracked THEN target[k] ELSE state[k]
    BY <1>8 DEF Patched, SnapshotsOf
  <2>3. Projected(state)' = [k \in tracked |-> state'[k]]
    BY <1>6 DEF Projected
  <2>4. Projected(state)' = target
    <3>1. \A k \in tracked : state'[k] = target[k]
      BY <1>8, <2>1, <2>2
    <3>2. [k \in tracked |-> state'[k]] = target
      BY <3>1 DEF SnapshotsOf
    <3>. QED  BY <2>3, <3>2
  <2>5. engine \in {"journal", "snapshots", "legacy"}
    BY DEF TimelineOK
  <2>. QED  BY <2>1, <2>2, <2>4, <2>5, NotifiedFacts
<1>10. call.at = "refused" =>
         state' = state /\ waiting' = waiting /\ Projected(state)' = Projected(state)
  BY <1>4, <1>6 DEF Projected
<1>11. CallsNest'
  <2>1. call.at = "refused" => call.before = Projected(state)'
    BY <1>4, <1>10
  <2>. QED  BY <1>4, <1>5, <1>6, <1>7, <2>1, MoveNests
<1>12. CallsOK'
  <2>1. moves' \in 0 .. MaxMoves
    BY <1>6, HistoryAssumption DEF CallsOK
  <2>2. {recording', traveling', failed', meddled'} \subseteq BOOLEAN
    BY <1>6 DEF CallsOK
  <2>3. state' \in SnapshotsOf(Keys) /\ waiting' \in Seq({"history", "user"})
    BY <1>4, <1>9, <1>10 DEF CallsOK
  <2>. QED  BY <1>5, <1>6, <2>1, <2>2, <2>3 DEF CallsOK
<1>13. Started(call, kind, target)
  BY <1>4, <1>5, <1>6, <1>7, <1>9, <1>10 DEF Started
<1>. QED  BY <1>11, <1>12, <1>13

\* What history calls current when a move starts.
Current == IF engine = "legacy" THEN Projected(state) ELSE present

\* Where a move goes, and what it takes from the lists before it is made.
Taken(kind, target) ==
  /\ engine = "journal" =>
       /\ past' = past /\ future' = future
       /\ IF kind = "undo" THEN position > 0 ELSE position < Len(entries)
       /\ target = Patched(IF Whole THEN state ELSE present,
                           IF kind = "undo" THEN entries[position].inverse
                           ELSE entries[position + 1].patches)
  /\ engine # "journal" /\ kind = "undo" =>
       /\ past # <<>> /\ target = Last(past)
       /\ past' = Front(past) /\ future' = Append(future, Current)
  /\ engine # "journal" /\ kind = "redo" =>
       /\ future # <<>> /\ target = Last(future)
       /\ future' = Front(future) /\ past' = Append(past, Current)

LEMMA TakenFacts ==
  ASSUME TypeInvariant, NEW kind \in {"undo", "redo"}, NEW target, Taken(kind, target)
  PROVE  /\ target \in SnapshotsOf(tracked)
         /\ past' \in Seq(SnapshotsOf(tracked)) /\ future' \in Seq(SnapshotsOf(tracked))
         /\ engine # "journal" => /\ Len(past') + Len(future') = Len(past) + Len(future)
                                  /\ (IF kind = "undo" THEN future' ELSE past') # <<>>
<1>1. /\ TimelineOK /\ CallsOK /\ Projected(state) \in SnapshotsOf(tracked)
  BY Parts
<1>2. Current \in SnapshotsOf(tracked)
  BY <1>1 DEF Current, TimelineOK
<1>3. CASE engine = "journal"
  <2>1. Len(entries) \in Nat /\ \A i \in 1 .. Len(entries) : entries[i] \in EntriesOf(tracked)
    BY <1>1, LenProperties, ElementOfSeq DEF TimelineOK
  <2>2. PICK p : p = IF kind = "undo" THEN entries[position].inverse
                     ELSE entries[position + 1].patches
    OBVIOUS
  <2>3. p \in PatchesOf(tracked)
    BY <1>1, <1>3, <2>1, <2>2 DEF Taken, TimelineOK, EntriesOf
  <2>4. (IF Whole THEN state ELSE present) \in SnapshotsOf(tracked)
    BY <1>1 DEF Whole, CallsOK, TimelineOK
  <2>5. target = Patched(IF Whole THEN state ELSE present, p)
    BY <1>3, <2>2 DEF Taken
  <2>6. target \in SnapshotsOf(tracked)
    BY <2>3, <2>4, <2>5, PatchFacts
  <2>. QED  BY <1>1, <1>3, <2>6 DEF Taken, TimelineOK
<1>4. CASE engine # "journal" /\ kind = "undo"
  <2>1. /\ past # <<>> /\ target = Last(past)
        /\ past' = Front(past) /\ future' = Append(future, Current)
    BY <1>4 DEF Taken
  <2>2. /\ past' \in Seq(SnapshotsOf(tracked)) /\ target \in SnapshotsOf(tracked)
        /\ Len(past) \in Nat \ {0} /\ Len(past') = Len(past) - 1
    BY <1>1, <2>1, FrontFacts DEF TimelineOK
  <2>3. /\ future' \in Seq(SnapshotsOf(tracked)) /\ future' # <<>>
        /\ Len(future') = Len(future) + 1 /\ Len(future) \in Nat
    BY <1>1, <1>2, <2>1, AppendFacts DEF TimelineOK
  <2>. QED  BY <1>4, <2>2, <2>3
<1>5. CASE engine # "journal" /\ kind = "redo"
  <2>1. /\ future # <<>> /\ target = Last(future)
        /\ future' = Front(future) /\ past' = Append(past, Current)
    BY <1>5 DEF Taken
  <2>2. /\ future' \in Seq(SnapshotsOf(tracked)) /\ target \in SnapshotsOf(tracked)
        /\ Len(future) \in Nat \ {0} /\ Len(future') = Len(future) - 1
    BY <1>1, <2>1, FrontFacts DEF TimelineOK
  <2>3. /\ past' \in Seq(SnapshotsOf(tracked)) /\ past' # <<>>
        /\ Len(past') = Len(past) + 1 /\ Len(past) \in Nat
    BY <1>1, <1>2, <2>1, AppendFacts DEF TimelineOK
  <2>. QED  BY <1>5, <2>2, <2>3
<1>. QED  BY <1>3, <1>4, <1>5

\* undo and redo.
LEMMA MoveTaken ==
  ASSUME TypeInvariant, Undo \/ Redo \/ LegacyUndo \/ LegacyRedo
  PROVE  \E kind \in {"undo", "redo"} : \E target :
           Moves(kind, target) /\ Taken(kind, target)
<1>1. TimelineOK
  BY Parts
<1>2. CASE Undo
  BY <1>2 DEF Undo, Taken, snapshots, Current
<1>3. CASE Redo
  <2>1. CASE engine = "journal"
    BY <1>3, <2>1 DEF Redo, Taken, snapshots
  <2>2. CASE engine = "snapshots"
    <3>1. /\ future # <<>> /\ future' = Front(future)
          /\ past' = Newest(Append(past, present)) /\ Moves("redo", Last(future))
      BY <1>3, <2>2 DEF Redo
    <3>2. Len(past) < Limit
      <4>1. Len(future) \in Nat \ {0} /\ Len(past) \in Nat /\ Limit \in Nat
        BY <1>1, <3>1, FrontFacts, LenProperties, HistoryAssumption DEF TimelineOK
      <4>. QED  BY <1>1, <2>2, <4>1 DEF TimelineOK, Limited
    <3>3. past' = Append(past, present)
      <4>1. Len(past) <= Limit
        BY <1>1, <3>2, LenProperties, HistoryAssumption DEF TimelineOK
      <4>. QED  BY <1>1, <3>1, <3>2, <4>1, GrownFacts DEF TimelineOK
    <3>. QED  BY <2>2, <3>1, <3>3 DEF Taken, Current
  <2>. QED  BY <1>3, <2>1, <2>2 DEF Redo
<1>4. CASE LegacyUndo
  BY <1>4 DEF LegacyUndo, Taken, Current
<1>5. CASE LegacyRedo
  BY <1>5 DEF LegacyRedo, Taken, Current
<1>. QED  BY <1>2, <1>3, <1>4, <1>5

LEMMA MoveStep ==
  ASSUME TypeInvariant, Undo \/ Redo \/ LegacyUndo \/ LegacyRedo
  PROVE  /\ TypeInvariant'
         /\ \E kind \in {"undo", "redo"} : \E target \in SnapshotsOf(tracked) : \E call :
              Started(call, kind, target) /\ Taken(kind, target)
<1>1. TimelineOK /\ CallsOK /\ CallsNest /\ MovesHaveRoom
  BY Parts
<1>2. PICK kind, target :
        kind \in {"undo", "redo"} /\ Moves(kind, target) /\ Taken(kind, target)
  BY MoveTaken
<1>3. /\ target \in SnapshotsOf(tracked)
      /\ past' \in Seq(SnapshotsOf(tracked)) /\ future' \in Seq(SnapshotsOf(tracked))
      /\ engine # "journal" => /\ Len(past') + Len(future') = Len(past) + Len(future)
                               /\ (IF kind = "undo" THEN future' ELSE past') # <<>>
  BY <1>2, TakenFacts
<1>4. CallsOK' /\ CallsNest'
  BY <1>1, <1>2, <1>3, MovesFacts
<1>5. PICK call : Started(call, kind, target)
  BY <1>1, <1>2, <1>3, MovesFacts
<1>6. /\ tracked' = tracked /\ engine' = engine /\ entries' = entries
      /\ position' = position /\ present' = present
      /\ ~traveling /\ Pushes(call) /\ call.kind = kind
  BY <1>5 DEF Started
<1>7. TimelineOK'
  <2>1. engine = "journal" => past' = past /\ future' = future
    BY <1>2 DEF Taken
  <2>. QED  BY <1>1, <1>3, <1>6, <2>1 DEF TimelineOK, Limited
<1>8. MovesHaveRoom'
  <2>. SUFFICES ASSUME NEW i \in DOMAIN stack', Moving(stack'[i])
       PROVE  IF engine' = "journal"
              THEN IF stack'[i].kind = "undo" THEN position' > 0 ELSE position' < Len(entries')
              ELSE (IF stack'[i].kind = "undo" THEN future' ELSE past') # <<>>
    BY DEF MovesHaveRoom, Moving
  <2>1. \A j \in DOMAIN stack : ~Moving(stack[j])
    BY <1>1, <1>6 DEF CallsNest, UnderWay, Moving
  <2>2. stack'[i] = call
    BY <1>6, <2>1 DEF Pushes
  <2>3. engine = "journal" => IF kind = "undo" THEN position > 0 ELSE position < Len(entries)
    BY <1>2 DEF Taken
  <2>. QED  BY <1>3, <1>6, <2>2, <2>3
<1>9. TypeInvariant'
  BY <1>4, <1>7, <1>8, PartsNext
<1>. QED  BY <1>2, <1>3, <1>5, <1>9

LEMMA ClearStep ==
  ASSUME TypeInvariant, Clear
  PROVE  /\ TypeInvariant' /\ Carried /\ Still
         /\ ~traveling /\ ~Suppressed
         /\ stack' = stack /\ state' = state /\ tracked' = tracked /\ waiting' = waiting
         /\ engine' = engine /\ recording' = recording /\ traveling' = traveling
         /\ failed' = failed /\ meddled' = FALSE
         /\ entries' = <<>> /\ position' = 0 /\ past' = <<>> /\ future' = <<>>
         /\ present' = IF engine = "snapshots" THEN Projected(state) ELSE present
<1>1. /\ TimelineOK /\ CallsOK /\ CallsNest /\ MovesHaveRoom
      /\ Projected(state) \in SnapshotsOf(tracked)
  BY Parts
<1>2. /\ ~traveling /\ ~Suppressed
      /\ stack' = stack /\ state' = state /\ tracked' = tracked /\ waiting' = waiting
      /\ engine' = engine /\ recording' = recording /\ traveling' = traveling
      /\ failed' = failed /\ meddled' = FALSE /\ writes' = writes
      /\ entries' = <<>> /\ position' = 0 /\ past' = <<>> /\ future' = <<>>
      /\ present' = IF engine = "snapshots" THEN Projected(state) ELSE present
      /\ moves' = moves + 1 /\ moves < MaxMoves
  BY DEF Clear, flags, calls
<1>3. TimelineOK'
  <2>1. Limit \in Nat
    BY HistoryAssumption
  <2>. QED  BY <1>1, <1>2, <2>1 DEF TimelineOK, Limited
<1>4. CallsOK'
  <2>1. moves' \in 0 .. MaxMoves
    BY <1>1, <1>2, HistoryAssumption DEF CallsOK
  <2>. QED  BY <1>1, <1>2, <2>1 DEF CallsOK
<1>5. Projected(state)' = Projected(state)
  BY <1>2 DEF Projected
<1>6. CallsNest' /\ Carried
  BY <1>1, <1>2, <1>5, SameNests
<1>7. Still
  BY <1>2 DEF Still
<1>8. MovesHaveRoom'
  BY <1>1, <1>6, <1>7, RoomIsKept
<1>. QED  BY <1>2, <1>3, <1>4, <1>6, <1>7, <1>8, PartsNext

LEMMA DrainStep ==
  ASSUME TypeInvariant, Drain
  PROVE  /\ TypeInvariant' /\ Carried /\ Still /\ Drains
         /\ tracked' = tracked /\ state' = state /\ UNCHANGED timeline
         /\ recording' = recording /\ traveling' = traveling /\ waiting' = waiting
         /\ failed' = failed /\ meddled' = meddled
<1>1. TimelineOK /\ CallsOK /\ CallsNest /\ MovesHaveRoom
  BY Parts
<1>2. /\ tracked' = tracked /\ state' = state /\ UNCHANGED timeline
      /\ recording' = recording /\ traveling' = traveling /\ waiting' = waiting
      /\ failed' = failed /\ meddled' = meddled /\ writes' = writes /\ moves' = moves
  BY DEF Drain, flags
<1>3. stack' \in Seq(CallsOf(tracked)) /\ Drains
  BY <1>1, DrainFacts
<1>4. CallsNest' /\ Carried
  BY <1>1, <1>2, <1>3, DrainNests
<1>5. TimelineOK' /\ Still
  BY <1>1, <1>2, TimelineKept DEF Still
<1>6. MovesHaveRoom'
  BY <1>1, <1>4, <1>5, RoomIsKept
<1>7. CallsOK'
  BY <1>1, <1>2, <1>3 DEF CallsOK
<1>. QED  BY <1>2, <1>3, <1>4, <1>5, <1>6, <1>7, PartsNext

\* The next subscriber is called.
LEMMA TailFacts ==
  ASSUME CallsOK, waiting # <<>>, waiting' = Tail(waiting)
  PROVE  /\ waiting' \in Seq({"history", "user"})
         /\ Head(waiting) = "history" => Awaited
         /\ Head(waiting) = "user" => (Awaited' <=> Awaited)
         /\ Awaited' => Awaited
<1>1. /\ waiting \in Seq({"history", "user"}) /\ Len(waiting) \in Nat \ {0}
      /\ DOMAIN waiting = 1 .. Len(waiting) /\ Head(waiting) = waiting[1]
  <2>1. waiting \in Seq({"history", "user"})
    BY DEF CallsOK
  <2>. QED  BY <2>1, LenProperties, EmptySeq
<1>2. /\ waiting' \in Seq({"history", "user"}) /\ Len(waiting') = Len(waiting) - 1
      /\ \A i \in 1 .. Len(waiting) - 1 : waiting'[i] = waiting[i + 1]
  BY <1>1, HeadTailProperties
<1>3. DOMAIN waiting' = 1 .. Len(waiting) - 1
  BY <1>2, LenProperties
<1>4. Awaited' => Awaited
  <2>. SUFFICES ASSUME NEW i \in 1 .. Len(waiting) - 1, waiting'[i] = "history" PROVE Awaited
    BY <1>3 DEF Awaited
  <2>1. i + 1 \in DOMAIN waiting /\ waiting[i + 1] = "history"
    BY <1>1, <1>2
  <2>. QED  BY <2>1 DEF Awaited
<1>5. ASSUME Head(waiting) = "user", Awaited PROVE Awaited'
  <2>1. PICK i \in 1 .. Len(waiting) : waiting[i] = "history"
    BY <1>1, <1>5 DEF Awaited
  <2>2. i # 1
    BY <1>1, <1>5, <2>1
  <2>3. i - 1 \in 1 .. Len(waiting) - 1 /\ (i - 1) + 1 = i
    BY <1>1, <2>2
  <2>4. waiting'[i - 1] = "history"
    BY <1>2, <2>1, <2>3
  <2>. QED  BY <1>3, <2>3, <2>4 DEF Awaited
<1>6. Head(waiting) = "history" => Awaited
  BY <1>1 DEF Awaited
<1>. QED  BY <1>2, <1>4, <1>5, <1>6

LEMMA ReturnStep ==
  ASSUME TypeInvariant, Return
  PROVE  /\ TypeInvariant' /\ Carried /\ Still
         /\ Len(stack) = 1 /\ stack' = stack /\ stack # <<>> /\ Top = stack[1]
         /\ Top.at = "subscribers"
         /\ tracked' = tracked /\ state' = state /\ UNCHANGED timeline
         /\ recording' = recording /\ traveling' = traveling /\ meddled' = meddled
         /\ Awaited' <=> Awaited
         /\ failed' = failed \/ (MayLose => "lose" \in Faults)
<1>1. /\ TimelineOK /\ CallsOK /\ CallsNest /\ MovesHaveRoom
      /\ Len(stack) = 1 => stack # <<>> /\ Top = stack[1]
  BY Parts
<1>2. /\ tracked' = tracked /\ state' = state /\ UNCHANGED timeline
      /\ recording' = recording /\ traveling' = traveling
      /\ stack' = stack /\ Len(stack) = 1 /\ Top.at = "subscribers"
      /\ meddled' = meddled /\ writes' = writes /\ moves' = moves
      /\ waiting # <<>> /\ waiting' = Tail(waiting) /\ Head(waiting) = "user"
      /\ \/ failed' = failed
         \/ failed' = TRUE /\ (MayLose => "lose" \in Faults)
  BY DEF Return, flags
<1>3. waiting' \in Seq({"history", "user"}) /\ (Awaited' <=> Awaited)
  BY <1>1, <1>2, TailFacts
<1>4. Projected(state)' = Projected(state)
  BY <1>2 DEF Projected
<1>5. CallsNest' /\ Carried
  BY <1>1, <1>2, <1>4, SameNests
<1>6. TimelineOK' /\ Still
  BY <1>1, <1>2, TimelineKept DEF Still
<1>7. MovesHaveRoom'
  BY <1>1, <1>5, <1>6, RoomIsKept
<1>8. CallsOK'
  BY <1>1, <1>2, <1>3 DEF CallsOK
<1>. QED  BY <1>1, <1>2, <1>3, <1>5, <1>6, <1>7, <1>8, PartsNext

\* The subscription of history.
LEMMA SubscriptionStep ==
  ASSUME TypeInvariant, Subscription
  PROVE  /\ TypeInvariant' /\ Carried /\ Still
         /\ Len(stack) = 1 /\ stack' = stack /\ stack # <<>> /\ Top = stack[1]
         /\ Top.at = "subscribers"
         /\ tracked' = tracked /\ state' = state
         /\ recording' = recording /\ traveling' = traveling /\ meddled' = meddled
         /\ failed' = failed
         /\ Awaited /\ (Awaited' => Awaited)
         /\ engine = "legacy" => LegacySubscription
         /\ engine # "legacy" => IF Muted THEN UNCHANGED timeline ELSE RecordState
<1>1. /\ TimelineOK /\ CallsOK /\ CallsNest /\ MovesHaveRoom
      /\ Projected(state) \in SnapshotsOf(tracked)
      /\ Len(stack) = 1 => stack # <<>> /\ Top = stack[1]
  BY Parts
<1>2. /\ tracked' = tracked /\ state' = state
      /\ recording' = recording /\ traveling' = traveling
      /\ stack' = stack /\ Len(stack) = 1 /\ Top.at = "subscribers"
      /\ failed' = failed /\ meddled' = meddled /\ writes' = writes /\ moves' = moves
      /\ waiting # <<>> /\ waiting' = Tail(waiting) /\ Head(waiting) = "history"
      /\ engine = "legacy" => LegacySubscription
      /\ engine # "legacy" => IF Muted THEN UNCHANGED timeline ELSE RecordState
  BY DEF Subscription, flags
<1>3. waiting' \in Seq({"history", "user"}) /\ Awaited /\ (Awaited' => Awaited)
  BY <1>1, <1>2, TailFacts
<1>4. Projected(state)' = Projected(state)
  BY <1>2 DEF Projected
<1>5. CallsNest' /\ Carried
  BY <1>1, <1>2, <1>4, SameNests
<1>6. TimelineOK' /\ Still
  <2>1. CASE engine = "legacy" /\ Muted
    <3>1. Look
      BY <1>2, <2>1 DEF LegacySubscription
    <3>. QED  BY <1>1, <1>2, <2>1, <3>1, LookFacts DEF Still
  <2>2. CASE engine = "legacy" /\ ~Muted
    <3>1. RecordChange(present, Projected(state))
      BY <1>2, <2>2 DEF LegacySubscription
    <3>2. present \in SnapshotsOf(tracked)
      BY <1>1 DEF TimelineOK
    <3>3. TimelineOK'
      BY <1>1, <1>2, <2>2, <3>1, <3>2, RecordChangeFacts
    <3>. QED  BY <2>2, <3>3 DEF Still, Muted
  <2>3. CASE engine # "legacy" /\ Muted
    BY <1>1, <1>2, <2>3, TimelineKept DEF Still
  <2>4. CASE engine # "legacy" /\ ~Muted
    <3>1. TimelineOK'
      BY <1>1, <1>2, <2>4, RecordStateFacts
    <3>. QED  BY <2>4, <3>1 DEF Still, Muted
  <2>. QED  BY <2>1, <2>2, <2>3, <2>4
<1>7. MovesHaveRoom'
  BY <1>1, <1>5, <1>6, RoomIsKept
<1>8. CallsOK'
  BY <1>1, <1>2, <1>3 DEF CallsOK
<1>. QED  BY <1>1, <1>2, <1>3, <1>5, <1>6, <1>7, <1>8, PartsNext

\* The innermost call returns.
LEMMA ThroughFacts ==
  ASSUME TypeInvariant, Through
  PROVE  /\ stack' \in Seq(CallsOf(tracked)) /\ Pops
         /\ Top \in CallsOf(tracked) /\ Top.at # "refused"
         /\ Len(stack) = 1 => waiting = <<>>
         /\ tracked' = tracked /\ state' = state /\ waiting' = waiting
         /\ failed' = (failed /\ Len(stack) > 1)
         /\ writes' = writes /\ moves' = moves
<1>1. CallsOK /\ (stack # <<>> => Len(stack) \in DOMAIN stack /\ Top = stack[Len(stack)])
  BY Parts
<1>2. /\ stack # <<>> /\ stack' = Front(stack)
      /\ Top.at = "commits" \/ Top.at = "subscribers"
      /\ Len(stack) = 1 => waiting = <<>>
      /\ tracked' = tracked /\ state' = state /\ waiting' = waiting
      /\ failed' = (failed /\ Len(stack) > 1)
      /\ writes' = writes /\ moves' = moves
  <2>1. Len(stack) = 1 => ~(Len(stack) > 1)
    OBVIOUS
  <2>. QED  BY <2>1 DEF Through
<1>3. Top \in CallsOf(tracked)
  BY <1>1, <1>2, StackFacts
<1>. QED  BY <1>1, <1>2, <1>3, PopFacts

\* What an end of a call that keeps the timeline typed leaves.
LEMMA EndKeeps ==
  ASSUME TypeInvariant, Through, TimelineOK', Still,
         traveling' = IF Moving(Top) THEN FALSE ELSE traveling,
         recording' \in BOOLEAN, meddled' \in BOOLEAN,
         recording' => recording /\ Top.kind \notin {"setState", "hydrate"}
  PROVE  TypeInvariant' /\ Carried
<1>1. TimelineOK /\ CallsOK /\ CallsNest /\ MovesHaveRoom
  BY Parts
<1>2. /\ stack' \in Seq(CallsOf(tracked)) /\ Pops
      /\ tracked' = tracked /\ state' = state /\ waiting' = waiting
      /\ failed' = (failed /\ Len(stack) > 1)
      /\ writes' = writes /\ moves' = moves
  BY ThroughFacts
<1>3. CallsNest' /\ Carried
  BY <1>1, <1>2, PopNests
<1>4. MovesHaveRoom'
  BY <1>1, <1>3, RoomIsKept
<1>5. CallsOK'
  <2>1. traveling' \in BOOLEAN /\ failed' \in BOOLEAN
    BY <1>1, <1>2 DEF CallsOK
  <2>2. {recording', traveling', failed', meddled'} \subseteq BOOLEAN
    BY <2>1
  <2>. QED  BY <1>1, <1>2, <2>2 DEF CallsOK
<1>. QED  BY <1>3, <1>4, <1>5, PartsNext

LEMMA EndWriteStep ==
  ASSUME TypeInvariant, EndWrite
  PROVE  /\ TypeInvariant' /\ Carried /\ Still
         /\ UNCHANGED timeline
         /\ recording' = recording /\ traveling' = traveling /\ meddled' = meddled
<1>1. TimelineOK /\ CallsOK
  BY Parts
<1>2. /\ Through /\ Top.kind = "write" /\ UNCHANGED timeline
      /\ recording' = recording /\ traveling' = traveling /\ meddled' = meddled
  BY DEF EndWrite, flags
<1>3. tracked' = tracked
  BY <1>2 DEF Through
<1>4. TimelineOK' /\ Still
  BY <1>1, <1>2, <1>3, TimelineKept DEF Still
<1>5. /\ traveling' = IF Moving(Top) THEN FALSE ELSE traveling
      /\ recording' \in BOOLEAN /\ meddled' \in BOOLEAN
      /\ recording' => recording /\ Top.kind \notin {"setState", "hydrate"}
  BY <1>1, <1>2 DEF Moving, CallsOK
<1>. QED  BY <1>2, <1>4, <1>5, EndKeeps

\* What the end of a setState records.
SetStateRecords ==
  /\ Thrown => UNCHANGED timeline
  /\ ~Thrown /\ engine = "legacy" => LegacyRecords
  /\ ~Thrown /\ engine # "legacy" =>
       IF traveling \/ Suppressed \/ (engine = "journal" /\ Whole)
       THEN UNCHANGED timeline ELSE RecordState

LEMMA EndSetStateStep ==
  ASSUME TypeInvariant, EndSetState
  PROVE  /\ TypeInvariant' /\ Carried /\ Still
         /\ SetStateRecords
         /\ recording' = FALSE /\ traveling' = traveling /\ meddled' = meddled
<1>1. TimelineOK /\ CallsOK /\ Projected(state) \in SnapshotsOf(tracked)
  BY Parts
<1>2. /\ Through /\ Top.kind = "setState" /\ SetStateRecords
      /\ recording' = FALSE /\ traveling' = traveling /\ meddled' = meddled
  BY DEF EndSetState, SetStateRecords
<1>3. tracked' = tracked /\ Top \in CallsOf(tracked)
  BY <1>2, ThroughFacts
<1>4. TimelineOK' /\ Still
  <2>1. CASE UNCHANGED timeline
    BY <1>1, <1>3, <2>1, TimelineKept DEF Still
  <2>2. CASE engine = "legacy" /\ Look
    BY <1>1, <1>3, <2>2, LookFacts DEF Still
  <2>3. CASE engine = "legacy" /\ ~traveling /\ RecordChange(Top.before, Projected(state))
    <3>1. Top.before \in SnapshotsOf(tracked)
      BY <1>3 DEF CallsOf
    <3>2. TimelineOK'
      BY <1>1, <1>3, <2>3, <3>1, RecordChangeFacts
    <3>. QED  BY <2>3, <3>2 DEF Still
  <2>4. CASE engine # "legacy" /\ ~traveling /\ RecordState
    <3>1. TimelineOK'
      BY <1>1, <1>3, <2>4, RecordStateFacts
    <3>. QED  BY <2>4, <3>1 DEF Still
  <2>. QED  BY <1>2, <2>1, <2>2, <2>3, <2>4 DEF SetStateRecords, LegacyRecords
<1>5. /\ traveling' = IF Moving(Top) THEN FALSE ELSE traveling
      /\ recording' \in BOOLEAN /\ meddled' \in BOOLEAN
      /\ recording' => recording /\ Top.kind \notin {"setState", "hydrate"}
  BY <1>1, <1>2 DEF Moving, CallsOK
<1>. QED  BY <1>2, <1>4, <1>5, EndKeeps

LEMMA EndHydrateStep ==
  ASSUME TypeInvariant, EndHydrate
  PROVE  /\ TypeInvariant' /\ Carried /\ Still
         /\ Suppressed /\ ~traveling /\ Len(stack) = 1
         /\ Restart
         /\ recording' = FALSE /\ traveling' = traveling /\ meddled' = FALSE
<1>1. /\ TimelineOK /\ CallsOK /\ CallsNest /\ Projected(state) \in SnapshotsOf(tracked)
      /\ stack # <<>> => Len(stack) \in DOMAIN stack /\ Top = stack[Len(stack)]
  BY Parts
<1>2. /\ Through /\ Top.kind = "hydrate" /\ Restart
      /\ recording' = FALSE /\ traveling' = traveling /\ meddled' = FALSE
  BY DEF EndHydrate
<1>3. tracked' = tracked /\ stack # <<>>
  BY <1>2 DEF Through
<1>4. Suppressed /\ Len(stack) = 1
  BY <1>1, <1>2, <1>3 DEF Suppressed, UnderWay, CallsNest
<1>5. ~traveling
  BY <1>1, <1>4 DEF CallsNest
<1>6. TimelineOK' /\ Still
  BY <1>1, <1>2, <1>3, <1>5, RestartFacts DEF Still
<1>7. /\ traveling' = IF Moving(Top) THEN FALSE ELSE traveling
      /\ recording' \in BOOLEAN /\ meddled' \in BOOLEAN
      /\ recording' => recording /\ Top.kind \notin {"setState", "hydrate"}
  BY <1>1, <1>2 DEF Moving, CallsOK
<1>. QED  BY <1>2, <1>4, <1>5, <1>6, <1>7, EndKeeps

\* When the move that is under way ends there is none left.
LEMMA MoveEnds ==
  ASSUME TypeInvariant, stack # <<>>, stack' = Front(stack), Moving(Top),
         traveling' = FALSE, recording' = recording
  PROVE  /\ stack' \in Seq(CallsOf(tracked)) /\ Pops /\ CallsNest' /\ MovesHaveRoom' /\ Carried
         /\ Top \in CallsOf(tracked)
         /\ \A i \in DOMAIN stack' : ~Moving(stack'[i])
         /\ traveling /\ ~Suppressed
<1>1. /\ CallsOK /\ CallsNest /\ Len(stack) \in DOMAIN stack /\ Top = stack[Len(stack)]
  BY Parts
<1>2. stack' \in Seq(CallsOf(tracked)) /\ Pops
  BY <1>1, PopFacts
<1>3. CallsNest' /\ Carried
  BY <1>1, <1>2, PopNests DEF Moving
<1>4. \A i \in DOMAIN stack' : ~Moving(stack'[i])
  BY <1>1, <1>2 DEF Pops, CallsNest
<1>5. MovesHaveRoom'
  BY <1>4 DEF MovesHaveRoom, Moving
<1>6. Top \in CallsOf(tracked)
  BY <1>1, StackFacts
<1>7. traveling /\ ~Suppressed
  <2>1. UnderWay({"undo", "redo"})
    BY <1>1 DEF UnderWay, Moving
  <2>. QED  BY <1>1, <2>1, Zenon DEF CallsNest
<1>. QED  BY <1>2, <1>3, <1>4, <1>5, <1>6, <1>7

LEMMA EndMoveStep ==
  ASSUME TypeInvariant, EndMove
  PROVE  /\ TypeInvariant' /\ Pops /\ Moving(Top) /\ traveling /\ ~Suppressed
         /\ Top.at # "refused" /\ (Len(stack) = 1 => waiting = <<>>)
         /\ Top \in CallsOf(tracked)
         /\ \A i \in DOMAIN stack' : ~Moving(stack'[i])
         /\ tracked' = tracked /\ state' = state /\ waiting' = waiting
         /\ engine' = engine /\ entries' = entries /\ past' = past /\ future' = future
         /\ Arrive
         /\ recording' = recording /\ traveling' = FALSE
         /\ meddled' = (meddled /\ engine = "journal")
         /\ failed' = (failed /\ Len(stack) > 1)
<1>1. /\ TimelineOK /\ CallsOK /\ CallsNest /\ MovesHaveRoom
      /\ Projected(state) \in SnapshotsOf(tracked)
      /\ stack # <<>> => Len(stack) \in DOMAIN stack /\ Top = stack[Len(stack)]
  BY Parts
<1>2. /\ Through /\ Moving(Top) /\ Arrive
      /\ traveling' = FALSE /\ meddled' = (meddled /\ engine = "journal")
      /\ engine' = engine /\ entries' = entries /\ past' = past /\ future' = future
      /\ recording' = recording
  BY DEF EndMove, Moving, snapshots
<1>3. /\ Top.at # "refused" /\ (Len(stack) = 1 => waiting = <<>>)
      /\ tracked' = tracked /\ state' = state /\ waiting' = waiting
      /\ failed' = (failed /\ Len(stack) > 1)
      /\ writes' = writes /\ moves' = moves
  BY <1>2, ThroughFacts
<1>4. stack # <<>> /\ stack' = Front(stack)
  BY <1>2 DEF Through
<1>5. /\ stack' \in Seq(CallsOf(tracked)) /\ Pops /\ CallsNest' /\ MovesHaveRoom'
      /\ Top \in CallsOf(tracked)
      /\ \A i \in DOMAIN stack' : ~Moving(stack'[i])
      /\ traveling /\ ~Suppressed
  BY <1>2, <1>4, MoveEnds
<1>6. TimelineOK'
  <2>1. present' \in SnapshotsOf(tracked)
    BY <1>1, <1>2 DEF Arrive, TimelineOK
  <2>2. position' \in 0 .. Len(entries)
    <3>1. Len(entries) \in Nat
      BY <1>1, LenProperties DEF TimelineOK
    <3>2. engine = "journal" => IF Top.kind = "undo" THEN position > 0 ELSE position < Len(entries)
      BY <1>1, <1>2, <1>4 DEF MovesHaveRoom
    <3>. QED  BY <1>1, <1>2, <3>1, <3>2 DEF Arrive, TimelineOK
  <2>. QED  BY <1>1, <1>2, <1>3, <2>1, <2>2 DEF TimelineOK, Limited
<1>7. CallsOK'
  <2>1. meddled' \in BOOLEAN /\ failed' \in BOOLEAN
    BY <1>1, <1>2, <1>3 DEF CallsOK
  <2>2. {recording', traveling', failed', meddled'} \subseteq BOOLEAN
    BY <1>1, <1>2, <2>1 DEF CallsOK
  <2>. QED  BY <1>1, <1>3, <1>5, <2>2 DEF CallsOK
<1>. QED  BY <1>2, <1>3, <1>5, <1>6, <1>7, PartsNext

LEMMA FailMoveStep ==
  ASSUME TypeInvariant, FailMove
  PROVE  /\ TypeInvariant' /\ Pops /\ Moving(Top) /\ traveling /\ ~Suppressed
         /\ Top \in CallsOf(tracked)
         /\ Top.at = "refused" \/ Thrown
         /\ \A i \in DOMAIN stack' : ~Moving(stack'[i])
         /\ tracked' = tracked /\ state' = state /\ waiting' = waiting
         /\ engine' = engine /\ entries' = entries /\ position' = position
         /\ present' = present
         /\ IF engine = "journal" THEN past' = past /\ future' = future ELSE PutBack
         /\ recording' = recording /\ traveling' = FALSE
         /\ meddled' = (meddled /\ engine = "journal")
         /\ failed' = (failed /\ Len(stack) > 1)
<1>1. /\ TimelineOK /\ CallsOK /\ CallsNest /\ MovesHaveRoom
      /\ stack # <<>> => Len(stack) \in DOMAIN stack /\ Top = stack[Len(stack)]
  BY Parts
<1>2. /\ stack # <<>> /\ stack' = Front(stack) /\ Moving(Top)
      /\ Top.at = "refused" \/ Thrown
      /\ tracked' = tracked /\ state' = state /\ waiting' = waiting
      /\ engine' = engine /\ entries' = entries /\ position' = position
      /\ present' = present
      /\ IF engine = "journal" THEN past' = past /\ future' = future ELSE PutBack
      /\ recording' = recording /\ traveling' = FALSE
      /\ meddled' = (meddled /\ engine = "journal")
      /\ failed' = (failed /\ Len(stack) > 1)
      /\ writes' = writes /\ moves' = moves
  BY DEF FailMove, Moving, journal, snapshots
<1>3. /\ stack' \in Seq(CallsOf(tracked)) /\ Pops /\ CallsNest' /\ MovesHaveRoom'
      /\ Top \in CallsOf(tracked)
      /\ \A i \in DOMAIN stack' : ~Moving(stack'[i])
      /\ traveling /\ ~Suppressed
  BY <1>2, MoveEnds
<1>4. TimelineOK'
  <2>1. CASE engine = "journal"
    BY <1>1, <1>2, <2>1 DEF TimelineOK, Limited
  <2>2. CASE engine # "journal"
    <3>1. Top.target \in SnapshotsOf(tracked)
      BY <1>3 DEF CallsOf
    <3>2. (IF Top.kind = "undo" THEN future ELSE past) # <<>>
      BY <1>1, <1>2, <2>2 DEF MovesHaveRoom
    <3>3. /\ past' \in Seq(SnapshotsOf(tracked)) /\ future' \in Seq(SnapshotsOf(tracked))
          /\ Len(past') + Len(future') = Len(past) + Len(future)
      <4>1. CASE Top.kind = "undo"
        <5>1. past' = Append(past, Top.target) /\ future' = Front(future) /\ future # <<>>
          BY <1>2, <2>2, <3>2, <4>1 DEF PutBack
        <5>2. /\ past' \in Seq(SnapshotsOf(tracked)) /\ Len(past') = Len(past) + 1
              /\ Len(past) \in Nat
          BY <1>1, <3>1, <5>1, AppendFacts DEF TimelineOK
        <5>3. /\ future' \in Seq(SnapshotsOf(tracked)) /\ Len(future') = Len(future) - 1
              /\ Len(future) \in Nat
          BY <1>1, <5>1, FrontFacts DEF TimelineOK
        <5>. QED  BY <5>2, <5>3
      <4>2. CASE Top.kind # "undo"
        <5>1. past' = Front(past) /\ future' = Append(future, Top.target) /\ past # <<>>
          BY <1>2, <2>2, <3>2, <4>2 DEF PutBack
        <5>2. /\ future' \in Seq(SnapshotsOf(tracked)) /\ Len(future') = Len(future) + 1
              /\ Len(future) \in Nat
          BY <1>1, <3>1, <5>1, AppendFacts DEF TimelineOK
        <5>3. /\ past' \in Seq(SnapshotsOf(tracked)) /\ Len(past') = Len(past) - 1
              /\ Len(past) \in Nat
          BY <1>1, <5>1, FrontFacts DEF TimelineOK
        <5>. QED  BY <5>2, <5>3
      <4>. QED  BY <4>1, <4>2
    <3>. QED  BY <1>1, <1>2, <2>2, <3>3 DEF TimelineOK, Limited
  <2>. QED  BY <2>1, <2>2
<1>5. CallsOK'
  <2>1. meddled' \in BOOLEAN /\ failed' \in BOOLEAN
    BY <1>1, <1>2 DEF CallsOK
  <2>2. {recording', traveling', failed', meddled'} \subseteq BOOLEAN
    BY <1>1, <1>2, <2>1 DEF CallsOK
  <2>. QED  BY <1>1, <1>2, <1>3, <2>2 DEF CallsOK
<1>. QED  BY <1>2, <1>3, <1>4, <1>5, PartsNext

LEMMA StutterStep ==
  ASSUME TypeInvariant, UNCHANGED vars
  PROVE  /\ TypeInvariant' /\ Carried /\ Still
         /\ tracked' = tracked /\ state' = state /\ UNCHANGED timeline
         /\ recording' = recording /\ traveling' = traveling
         /\ stack' = stack /\ waiting' = waiting /\ failed' = failed /\ meddled' = meddled
<1>1. TimelineOK /\ CallsOK /\ CallsNest /\ MovesHaveRoom
  BY Parts
<1>2. /\ tracked' = tracked /\ state' = state /\ UNCHANGED timeline
      /\ recording' = recording /\ traveling' = traveling
      /\ stack' = stack /\ waiting' = waiting /\ failed' = failed /\ meddled' = meddled
      /\ writes' = writes /\ moves' = moves
  BY DEF vars, flags, calls
<1>3. Projected(state)' = Projected(state)
  BY <1>2 DEF Projected
<1>4. CallsNest' /\ Carried
  BY <1>1, <1>2, <1>3, SameNests
<1>5. TimelineOK' /\ Still
  BY <1>1, <1>2, TimelineKept DEF Still
<1>6. MovesHaveRoom'
  BY <1>1, <1>4, <1>5, RoomIsKept
<1>7. CallsOK'
  BY <1>1, <1>2 DEF CallsOK
<1>. QED  BY <1>2, <1>4, <1>5, <1>6, <1>7, PartsNext

\* The writes of an observer or of the program.
LEMMA WriteDirectlyStep ==
  ASSUME TypeInvariant, NEW k \in Keys, NEW v \in Values, WriteDirectly(k, v)
  PROVE  /\ TypeInvariant' /\ Pushes(Call("write")) /\ Carried /\ Still
         /\ Wrote(state', k, v) /\ Commits(state')
         /\ Hearing => state \in SnapshotsOf(tracked) /\ state' \in SnapshotsOf(tracked)
         /\ tracked' = tracked /\ failed' = failed
         /\ recording' = recording /\ traveling' = traveling
         /\ UserWrite(k, v)
         /\ stack # <<>> => Top.at # "refused"
<1>1. /\ UserWrite(k, v) /\ Committed(k, v) /\ stack' = Append(stack, Call("write"))
      /\ recording' = recording /\ traveling' = traveling
  BY DEF WriteDirectly, flags
<1>2. recording' = IF "write" = "setState" THEN TRUE ELSE recording
  BY <1>1
<1>. QED  BY <1>1, <1>2, WriteStep

LEMMA SetStateStep ==
  ASSUME TypeInvariant, NEW k \in Keys, NEW v \in Values, SetState(k, v)
  PROVE  /\ TypeInvariant' /\ Pushes(Call("setState")) /\ Carried /\ Still
         /\ Wrote(state', k, v) /\ Commits(state')
         /\ Hearing => state \in SnapshotsOf(tracked) /\ state' \in SnapshotsOf(tracked)
         /\ tracked' = tracked /\ failed' = failed
         /\ recording' /\ traveling' = traveling
         /\ UserWrite(k, v) /\ LegacyNests
         /\ stack # <<>> => Top.at # "refused"
<1>1. /\ UserWrite(k, v) /\ Committed(k, v) /\ stack' = Append(stack, Call("setState"))
      /\ recording' = TRUE /\ traveling' = traveling /\ LegacyNests
  BY DEF SetState
<1>2. recording' = IF "setState" = "setState" THEN TRUE ELSE recording
  BY <1>1
<1>. QED  BY <1>1, <1>2, WriteStep

LEMMA TypeInit ==
  ASSUME Init
  PROVE  TypeInvariant
<1>1. tracked \subseteq Keys
  BY HistoryAssumption DEF Init
<1>2. state \in SnapshotsOf(Keys)
  BY HistoryAssumption DEF Init, SnapshotsOf
<1>3. Projected(state) \in SnapshotsOf(tracked)
  BY <1>1, <1>2, ProjectedFacts
<1>4. /\ entries = <<>> /\ position = 0 /\ past = <<>> /\ future = <<>>
      /\ present = Projected(state) /\ engine \in {"journal", "legacy"}
      /\ recording = FALSE /\ traveling = FALSE /\ failed = FALSE /\ meddled = FALSE
      /\ stack = <<>> /\ waiting = <<>> /\ writes = 0 /\ moves = 0
  BY DEF Init
<1>5. MaxWrites \in Nat /\ MaxMoves \in Nat /\ Limit \in Nat
  BY HistoryAssumption
<1>6. TimelineOK
  BY <1>3, <1>4, <1>5 DEF TimelineOK, Limited
<1>7. CallsOK
  <2>1. {recording, traveling, failed, meddled} \subseteq BOOLEAN
    BY <1>4
  <2>2. stack \in Seq(CallsOf(tracked)) /\ waiting \in Seq({"history", "user"})
    BY <1>4
  <2>3. writes \in 0 .. MaxWrites /\ moves \in 0 .. MaxMoves
    BY <1>4, <1>5
  <2>. QED  BY <1>1, <1>2, <2>1, <2>2, <2>3 DEF CallsOK
<1>8. DOMAIN stack = {}
  BY <1>4
<1>9. CallsNest
  BY <1>4, <1>8 DEF CallsNest, UnderWay, Suppressed
<1>10. MovesHaveRoom
  BY <1>8 DEF MovesHaveRoom
<1>. QED  BY <1>6, <1>7, <1>9, <1>10, TypeParts DEF TypeInvariant

LEMMA TypeNext ==
  ASSUME TypeInvariant, [Next]_vars
  PROVE  TypeInvariant'
<1>1. ASSUME NEW k \in Keys, NEW v \in Values, WriteDirectly(k, v) PROVE TypeInvariant'
  BY <1>1, WriteDirectlyStep
<1>2. ASSUME NEW k \in Keys, NEW v \in Values, SetState(k, v) PROVE TypeInvariant'
  BY <1>2, SetStateStep
<1>3. ASSUME NEW k \in Keys, NEW v \in Values, Hydrate(k, v) PROVE TypeInvariant'
  BY <1>3, HydrateStep
<1>4. CASE Undo \/ Redo \/ LegacyUndo \/ LegacyRedo
  BY <1>4, MoveStep
<1>5. CASE Clear
  BY <1>5, ClearStep
<1>6. CASE Drain
  BY <1>6, DrainStep
<1>7. CASE Subscription
  BY <1>7, SubscriptionStep
<1>8. CASE Return
  BY <1>8, ReturnStep
<1>9. CASE EndWrite
  BY <1>9, EndWriteStep
<1>10. CASE EndSetState
  BY <1>10, EndSetStateStep
<1>11. CASE EndHydrate
  BY <1>11, EndHydrateStep
<1>12. CASE EndMove
  BY <1>12, EndMoveStep
<1>13. CASE FailMove
  BY <1>13, FailMoveStep
<1>14. CASE UNCHANGED vars
  BY <1>14, StutterStep
<1>. QED  BY <1>1, <1>2, <1>3, <1>4, <1>5, <1>6, <1>7, <1>8, <1>9, <1>10, <1>11, <1>12,
             <1>13, <1>14 DEF Next

\* Every variable of an undo history always has its type: the cursor stays within
\* the journal, and what is taken from a list is there, whatever observers do,
\* throw or refuse in the middle of a call.
THEOREM TypeCorrect == Spec => []TypeOK
<1>1. Init => TypeInvariant
  BY TypeInit
<1>2. TypeInvariant /\ [Next]_vars => TypeInvariant'
  BY TypeNext
<1>3. TypeInvariant => TypeOK
  BY DEF TypeInvariant
<1>. QED  BY <1>1, <1>2, <1>3, PTL DEF Spec

\* A move that is under way can always be taken back, and one timeline never
\* holds more states than the limit allows, however calls are nested.
THEOREM MovesCanBeTakenBack == Spec => [](Limited /\ MovesHaveRoom)
<1>1. Init => TypeInvariant
  BY TypeInit
<1>2. TypeInvariant /\ [Next]_vars => TypeInvariant'
  BY TypeNext
<1>3. TypeInvariant => Limited /\ MovesHaveRoom
  BY DEF TypeInvariant
<1>. QED  BY <1>1, <1>2, <1>3, PTL DEF Spec

-----------------------------------------------------------------------------
(* What history calls current is the store.                                *)

LEMMA ProjectedSame ==
  ASSUME tracked' = tracked, state' = state
  PROVE  Projected(state)' = Projected(state)
BY DEF Projected

LEMMA PushRests ==
  ASSUME CallsRest, NEW call, Pushes(call), call.at = "commits", failed' = failed
  PROVE  CallsRest'
<1>1. stack = <<>> => Len(stack') = 1 /\ stack'[1] = call
  BY DEF Pushes
<1>2. stack # <<>> => Len(stack') # 1 /\ stack'[1] = stack[1]
  BY DEF Pushes
<1>3. stack' # <<>>
  BY DEF Pushes
<1>. QED  BY <1>1, <1>2, <1>3, Zenon DEF CallsRest

LEMMA PopRests ==
  ASSUME CallsNest, CallsRest, Pops, waiting' = waiting,
         failed' = (failed /\ Len(stack) > 1), Len(stack) = 1 => waiting = <<>>
  PROVE  CallsRest'
<1>1. CASE Len(stack) = 1
  <2>1. stack' = <<>> /\ ~failed' /\ waiting' = <<>>
    <3>1. stack' = <<>> /\ waiting' = <<>>
      BY <1>1 DEF Pops
    <3>2. ~(Len(stack) > 1)
      BY <1>1
    <3>3. ~failed'
      BY <3>2, Zenon
    <3>. QED  BY <3>1, <3>3
  <2>. QED  BY <2>1 DEF CallsRest
<1>2. CASE Len(stack) # 1
  <2>1. /\ stack' # <<>> /\ stack # <<>>
        /\ 1 \in DOMAIN stack /\ 1 # Len(stack) /\ stack'[1] = stack[1]
    BY <1>2 DEF Pops
  <2>2. stack'[1].at # "refused"
    BY <2>1 DEF CallsNest
  <2>3. failed' => failed
    OBVIOUS
  <2>. QED  BY <2>1, <2>2, <2>3, Zenon DEF CallsRest
<1>. QED  BY <1>1, <1>2

LEMMA MovedFacts ==
  ASSUME CallsOK, CallsNest
  PROVE  /\ \A call : Pushes(call) /\ (~Moving(call) \/ call.at = "refused") => (Moved' <=> Moved)
         /\ \A call : Pushes(call) /\ Moving(call) /\ call.at # "refused" => Moved'
         /\ Pops /\ (~Moving(Top) \/ Top.at = "refused") => (Moved' <=> Moved)
         /\ Drains => (Moved' <=> Moved)
         /\ stack' = stack => (Moved' <=> Moved)
         /\ traveling /\ (stack # <<>> => Top.at # "refused") => Moved
<1>1. ASSUME NEW call, Pushes(call), ~Moving(call) \/ call.at = "refused"
      PROVE  Moved' <=> Moved
  BY <1>1 DEF Moved, Moving, Pushes
<1>2. ASSUME NEW call, Pushes(call), Moving(call), call.at # "refused"
      PROVE  Moved'
  BY <1>2 DEF Moved, Moving, Pushes
<1>3. ASSUME Pops, ~Moving(Top) \/ Top.at = "refused"
      PROVE  Moved' <=> Moved
  BY <1>3 DEF Moved, Moving, Pops
<1>4. ASSUME Drains PROVE Moved' <=> Moved
  BY <1>4 DEF Moved, Moving, Drains
<1>5. ASSUME stack' = stack PROVE Moved' <=> Moved
  BY <1>5 DEF Moved, Moving
<1>6. ASSUME traveling, stack # <<>> => Top.at # "refused" PROVE Moved
  <2>1. \A i \in DOMAIN stack : stack[i].at # "refused"
    BY <1>6, NoneRefused
  <2>2. UnderWay({"undo", "redo"})
    BY <1>6, Zenon DEF CallsNest
  <2>. QED  BY <2>1, <2>2 DEF Moved, Moving, UnderWay
<1>. QED  BY <1>1, <1>2, <1>3, <1>4, <1>5, <1>6

\* A write is followed, or awaited.
LEMMA WriteFollowed ==
  ASSUME TypeInvariant, CallsRest, Followed, TypeInvariant',
         NEW k \in Keys, NEW v \in Values, NEW kind \in {"write", "setState"},
         Pushes(Call(kind)), Wrote(state', k, v), Commits(state'),
         Hearing => state \in SnapshotsOf(tracked) /\ state' \in SnapshotsOf(tracked),
         tracked' = tracked, failed' = failed, stack # <<>> => Top.at # "refused"
  PROVE  CallsRest' /\ Followed'
<1>1. TimelineOK /\ CallsOK /\ CallsNest
  BY Parts
<1>2. PICK call : call = Call(kind) /\ Pushes(call)
  OBVIOUS
<1>3. call.at = "commits" /\ call.kind = kind
  BY <1>1, <1>2, CallTyped
<1>4. CallsRest'
  BY <1>2, <1>3, PushRests
<1>5. /\ Moved' <=> Moved
      /\ traveling => Moved
  BY <1>1, <1>2, <1>3, MovedFacts DEF Moving
<1>6. Suppressed => Suppressed'
  BY <1>2, PushUnderWay DEF Suppressed
<1>7. Whole' <=> Whole
  BY DEF Whole
<1>8. CASE Hearing /\ (RecordPatches(state') \/ Switch(state')) /\ (Awaited' <=> Awaited)
  <2>1. tracked = Keys /\ engine = "journal" /\ state' \in SnapshotsOf(tracked) /\ ~Awaited
    BY <1>8 DEF Hearing, Whole, Followed
  <2>2. present' = state' /\ engine' \in {"journal", "snapshots"}
    <3>1. CASE RecordPatches(state')
      BY <1>1, <2>1, <3>1, RecordPatchesFacts
    <3>2. CASE Switch(state')
      BY <1>1, <2>1, <3>2, SwitchFacts
    <3>. QED  BY <1>8, <3>1, <3>2
  <2>3. Projected(state)' = state'
    <3>1. Projected(state)' = [j \in Keys |-> state'[j]]
      BY <2>1 DEF Projected
    <3>2. [j \in Keys |-> state'[j]] = state'
      BY DEF Wrote, SnapshotsOf
    <3>. QED  BY <3>1, <3>2
  <2>4. Followed'
    BY <1>8, <2>1, <2>2, <2>3 DEF Followed
  <2>. QED  BY <1>4, <2>4
<1>9. CASE Hearing /\ Begin /\ Awaited'
  <2>1. engine' = "snapshots"
    BY <1>9 DEF Begin
  <2>2. Followed'
    BY <1>9, <2>1 DEF Followed
  <2>. QED  BY <1>4, <2>2
<1>10. CASE ~Hearing /\ UNCHANGED timeline /\ (Awaited' <=> Awaited \/ ~Whole \/ engine # "journal")
  <2>1. engine' = engine
    BY <1>10 DEF timeline
  <2>2. CASE ~Whole \/ engine # "journal"
    <3>1. Awaited'
      BY <1>10, <2>2
    <3>. QED  BY <1>4, <1>7, <2>1, <2>2, <3>1 DEF Followed
  <2>3. CASE Whole /\ engine = "journal"
    <3>1. Moved' \/ Suppressed'
      BY <1>5, <1>6, <1>10, <2>3 DEF Hearing
    <3>2. ~Awaited'
      BY <1>10, <2>3 DEF Followed
    <3>. QED  BY <1>4, <2>1, <2>3, <3>1, <3>2 DEF Followed
  <2>. QED  BY <2>2, <2>3
<1>. QED  BY <1>8, <1>9, <1>10 DEF Commits

LEMMA HydrateFollowed ==
  ASSUME ShownInvariant, NEW k \in Keys, NEW v \in Values, Hydrate(k, v)
  PROVE  CallsRest' /\ Followed'
<1>1. TypeInvariant /\ CallsRest /\ Followed
  BY DEF ShownInvariant
<1>2. TimelineOK /\ CallsOK /\ CallsNest
  BY <1>1, Parts
<1>3. PICK call : call = Call("hydrate")
  OBVIOUS
<1>4. /\ Pushes(call) /\ tracked' = tracked /\ failed' = failed
      /\ \/ UNCHANGED timeline /\ (Awaited' <=> Awaited \/ ~Whole \/ engine # "journal")
         \/ Whole /\ engine = "journal" /\ Begin
  BY <1>1, <1>3, HydrateStep
<1>5. call.at = "commits" /\ call.kind = "hydrate"
  BY <1>2, <1>3, CallTyped
<1>6. CallsRest'
  BY <1>1, <1>4, <1>5, PushRests
<1>7. Suppressed'
  BY <1>4, <1>5, PushUnderWay DEF Suppressed
<1>8. Followed'
  <2>1. CASE UNCHANGED timeline /\ (Awaited' <=> Awaited \/ ~Whole \/ engine # "journal")
    <3>1. engine' = engine /\ (Whole' <=> Whole)
      BY <1>4, <2>1 DEF timeline, Whole
    <3>. QED  BY <1>1, <1>7, <2>1, <3>1 DEF Followed
  <2>2. CASE Begin
    BY <1>7, <2>2 DEF Begin, Followed
  <2>. QED  BY <1>4, <2>1, <2>2
<1>. QED  BY <1>6, <1>8

LEMMA MoveFollowed ==
  ASSUME ShownInvariant, Undo \/ Redo \/ LegacyUndo \/ LegacyRedo
  PROVE  CallsRest' /\ Followed'
<1>1. TypeInvariant /\ CallsRest /\ Followed
  BY DEF ShownInvariant
<1>2. TimelineOK /\ CallsOK /\ CallsNest
  BY <1>1, Parts
<1>3. PICK kind, target, call :
        /\ kind \in {"undo", "redo"} /\ target \in SnapshotsOf(tracked)
        /\ Started(call, kind, target)
  BY <1>1, MoveStep
<1>4. /\ Pushes(call) /\ Moving(call)
      /\ tracked' = tracked /\ engine' = engine /\ present' = present /\ failed' = failed
      /\ ~traveling /\ ~Suppressed
      /\ stack # <<>> => Top.at # "refused"
      /\ Whole' <=> Whole
  BY <1>3 DEF Started, Moving, Whole
<1>5. CASE call.at = "commits" /\ (Awaited' <=> Awaited \/ ~Whole \/ engine # "journal")
  <2>1. CallsRest'
    BY <1>1, <1>4, <1>5, PushRests
  <2>2. Moved'
    BY <1>2, <1>4, <1>5, MovedFacts
  <2>3. engine' = "legacy" => Awaited'
    BY <1>4, <1>5
  <2>4. Whole' /\ engine' = "journal" => ~Awaited'
    BY <1>1, <1>4, <1>5 DEF Followed
  <2>. QED  BY <2>1, <2>2, <2>3, <2>4 DEF Followed
<1>6. CASE call.at = "refused" /\ state' = state /\ waiting' = waiting
  <2>1. Moved' <=> Moved
    BY <1>2, <1>4, <1>6, MovedFacts
  <2>2. Projected(state)' = Projected(state) /\ (Awaited' <=> Awaited)
    BY <1>4, <1>6, ProjectedSame DEF Awaited
  <2>3. Suppressed' <=> Suppressed
    <3>1. Suppressed' <=> Suppressed \/ call.kind \in {"hydrate"}
      BY <1>4, PushUnderWay DEF Suppressed
    <3>. QED  BY <1>4, <3>1 DEF Moving
  <2>4. UnderWay({"setState"})' <=> UnderWay({"setState"})
    <3>1. UnderWay({"setState"})' <=> UnderWay({"setState"}) \/ call.kind \in {"setState"}
      BY <1>4, PushUnderWay
    <3>. QED  BY <1>4, <3>1 DEF Moving
  <2>5. Followed'
    BY <1>1, <1>4, <2>1, <2>2, <2>3, <2>4 DEF Followed
  <2>6. CallsRest'
    <3>1. stack = <<>> => Len(stack') = 1 /\ stack'[1] = call
      BY <1>4 DEF Pushes
    <3>2. stack # <<>> => Len(stack') # 1 /\ stack'[1] = stack[1]
      BY <1>4 DEF Pushes
    <3>3. stack' # <<>> /\ failed' = failed
      BY <1>4 DEF Pushes
    <3>. QED  BY <1>1, <1>6, <3>1, <3>2, <3>3, Zenon DEF CallsRest
  <2>. QED  BY <2>5, <2>6
<1>. QED  BY <1>3, <1>5, <1>6 DEF Started

\* The stack, the store and the timeline are as they were, or history calls the
\* store current.
LEMMA SameFollowed ==
  ASSUME TypeInvariant, Followed, tracked' = tracked, state' = state,
         engine' = engine \/ (engine' # "legacy" /\ engine # "legacy"),
         Whole /\ engine' = "journal" => engine = "journal",
         Moved' <=> Moved, Suppressed' <=> Suppressed,
         UnderWay({"setState"})' <=> UnderWay({"setState"}),
         Awaited' => Awaited,
         \/ engine' = engine /\ present' = present /\ (Awaited' <=> Awaited)
         \/ present' = Projected(state)
  PROVE  Followed'
<1>1. Projected(state)' = Projected(state) /\ (Whole' <=> Whole)
  BY ProjectedSame DEF Whole
<1>2. CASE present' = Projected(state)
  BY <1>1, <1>2 DEF Followed
<1>3. CASE engine' = engine /\ present' = present /\ (Awaited' <=> Awaited)
  BY <1>1, <1>3 DEF Followed
<1>. QED  BY <1>2, <1>3

LEMMA SameCalls ==
  ASSUME stack' = stack
  PROVE  /\ Moved' <=> Moved
         /\ \A kinds : UnderWay(kinds)' <=> UnderWay(kinds)
         /\ Suppressed' <=> Suppressed
<1>1. Moved' <=> Moved
  BY DEF Moved, Moving
<1>2. \A kinds : UnderWay(kinds)' <=> UnderWay(kinds)
  BY DEF UnderWay
<1>. QED  BY <1>1, <1>2, Zenon DEF Suppressed

LEMMA ClearFollowed ==
  ASSUME ShownInvariant, Clear
  PROVE  CallsRest' /\ Followed'
<1>1. TypeInvariant /\ CallsRest /\ Followed
  BY DEF ShownInvariant
<1>2. /\ ~traveling /\ ~Suppressed
      /\ stack' = stack /\ state' = state /\ tracked' = tracked /\ waiting' = waiting
      /\ engine' = engine /\ failed' = failed
      /\ present' = IF engine = "snapshots" THEN Projected(state) ELSE present
  BY <1>1, ClearStep
<1>3. CallsRest'
  BY <1>1, <1>2, Zenon DEF CallsRest
<1>4. Awaited' <=> Awaited
  BY <1>2 DEF Awaited
<1>5. /\ Moved' <=> Moved
      /\ UnderWay({"setState"})' <=> UnderWay({"setState"})
      /\ Suppressed' <=> Suppressed
  BY <1>2, SameCalls
<1>6. Followed'
  BY <1>1, <1>2, <1>4, <1>5, SameFollowed
<1>. QED  BY <1>3, <1>6

LEMMA DrainFollowed ==
  ASSUME ShownInvariant, Drain
  PROVE  CallsRest' /\ Followed'
<1>1. TypeInvariant /\ CallsRest /\ Followed
  BY DEF ShownInvariant
<1>2. /\ Drains
      /\ tracked' = tracked /\ state' = state /\ UNCHANGED timeline /\ waiting' = waiting
      /\ failed' = failed
  BY <1>1, DrainStep
<1>3. CallsRest'
  BY <1>1, <1>2 DEF CallsRest, Drains
<1>4. /\ Awaited' <=> Awaited
      /\ engine' = engine /\ present' = present
  BY <1>2 DEF Awaited, timeline
<1>5. Moved' <=> Moved
  <2>1. CallsOK /\ CallsNest
    BY <1>1, Parts
  <2>. QED  BY <1>2, <2>1, MovedFacts
<1>6. /\ UnderWay({"setState"})' <=> UnderWay({"setState"})
      /\ Suppressed' <=> Suppressed
  BY <1>2, DrainUnderWay DEF Suppressed
<1>7. Followed'
  BY <1>1, <1>2, <1>4, <1>5, <1>6, SameFollowed
<1>. QED  BY <1>3, <1>7

LEMMA ReturnFollowed ==
  ASSUME NoLoss, ShownInvariant, Return
  PROVE  CallsRest' /\ Followed'
<1>1. TypeInvariant /\ CallsRest /\ Followed
  BY DEF ShownInvariant
<1>2. /\ Len(stack) = 1 /\ stack' = stack /\ stack # <<>> /\ Top = stack[1]
      /\ Top.at = "subscribers"
      /\ tracked' = tracked /\ state' = state /\ UNCHANGED timeline
      /\ Awaited' <=> Awaited
      /\ failed' = failed \/ (MayLose => "lose" \in Faults)
  BY <1>1, ReturnStep
<1>3. CallsRest'
  <2>1. stack[1].at # "refused"
    BY <1>2
  <2>2. failed' => stack[1].kind \in {"write", "hydrate"}
    <3>1. CASE failed' = failed
      BY <1>1, <1>2, <3>1, Zenon DEF CallsRest
    <3>2. CASE MayLose => "lose" \in Faults
      BY <1>2, <3>2 DEF MayLose, NoLoss
    <3>. QED  BY <1>2, <3>1, <3>2
  <2>. QED  BY <1>2, <2>1, <2>2, Zenon DEF CallsRest
<1>4. engine' = engine /\ present' = present
  BY <1>2 DEF timeline
<1>5. /\ Moved' <=> Moved
      /\ UnderWay({"setState"})' <=> UnderWay({"setState"})
      /\ Suppressed' <=> Suppressed
  BY <1>2, SameCalls
<1>6. Followed'
  BY <1>1, <1>2, <1>4, <1>5, SameFollowed
<1>. QED  BY <1>3, <1>6

\* What recording the store leaves.
LEMMA RecordStateFollowed ==
  ASSUME TypeInvariant, engine # "legacy", tracked' = tracked, RecordState
  PROVE  /\ present' = Projected(state) /\ engine' # "legacy"
         /\ engine' = "journal" => engine = "journal"
<1>1. TimelineOK /\ Projected(state) \in SnapshotsOf(tracked)
  BY Parts
<1>2. PICK s \in SnapshotsOf(tracked) : s = Projected(state)
  BY <1>1
<1>3. /\ present' = Projected(state) /\ engine' # "legacy"
      /\ \/ engine' = engine
         \/ engine = "journal"
  BY <1>1, RecordStateFacts DEF timeline
<1>. QED  BY <1>3

LEMMA SubscriptionFollowed ==
  ASSUME ShownInvariant, Subscription
  PROVE  CallsRest' /\ Followed'
<1>1. TypeInvariant /\ CallsRest /\ Followed
  BY DEF ShownInvariant
<1>2. /\ Len(stack) = 1 /\ stack' = stack /\ stack # <<>> /\ Top = stack[1]
      /\ Top.at = "subscribers"
      /\ tracked' = tracked /\ state' = state /\ failed' = failed
      /\ Awaited /\ (Awaited' => Awaited)
      /\ engine = "legacy" => LegacySubscription
      /\ engine # "legacy" => IF Muted THEN UNCHANGED timeline ELSE RecordState
  BY <1>1, SubscriptionStep
<1>3. /\ TimelineOK /\ CallsOK /\ CallsNest
  BY <1>1, Parts
<1>4. CallsRest'
  <2>1. stack[1].at # "refused"
    BY <1>2
  <2>. QED  BY <1>1, <1>2, <2>1, Zenon DEF CallsRest
<1>5. /\ Moved' <=> Moved
      /\ UnderWay({"setState"})' <=> UnderWay({"setState"})
      /\ Suppressed' <=> Suppressed
  BY <1>2, SameCalls
<1>6. CASE engine = "legacy"
  <2>1. present' = Projected(state) /\ engine' = engine
    BY <1>2, <1>6 DEF LegacySubscription, Look, RecordChange
  <2>. QED  BY <1>1, <1>2, <1>4, <1>5, <2>1, SameFollowed
<1>7. CASE engine # "legacy" /\ ~Muted
  <2>1. /\ present' = Projected(state) /\ engine' # "legacy"
        /\ engine' = "journal" => engine = "journal"
    BY <1>1, <1>2, <1>7, RecordStateFollowed
  <2>. QED  BY <1>1, <1>2, <1>4, <1>5, <1>7, <2>1, SameFollowed
<1>8. CASE engine # "legacy" /\ Muted
  <2>1. engine' = engine /\ present' = present
    BY <1>2, <1>8 DEF timeline
  <2>2. Projected(state)' = Projected(state) /\ (Whole' <=> Whole)
    BY <1>2, ProjectedSame DEF Whole
  <2>3. ~(Whole /\ engine = "journal")
    BY <1>1, <1>2 DEF Followed
  <2>4. Moved \/ Suppressed \/ UnderWay({"setState"})
    <3>1. CASE recording
      <4>1. UnderWay({"setState", "hydrate"})
        BY <1>3, <3>1, Zenon DEF CallsNest
      <4>. QED  BY <4>1 DEF UnderWay, Suppressed
    <3>2. CASE traveling
      <4>1. stack # <<>> => Top.at # "refused"
        BY <1>2
      <4>. QED  BY <1>3, <3>2, <4>1, MovedFacts
    <3>. QED  BY <1>8, <3>1, <3>2 DEF Muted
  <2>5. Followed'
    BY <1>5, <1>8, <2>1, <2>2, <2>3, <2>4 DEF Followed
  <2>. QED  BY <1>4, <2>5
<1>. QED  BY <1>6, <1>7, <1>8

LEMMA EndWriteFollowed ==
  ASSUME ShownInvariant, EndWrite
  PROVE  CallsRest' /\ Followed'
<1>1. TypeInvariant /\ CallsRest /\ Followed
  BY DEF ShownInvariant
<1>2. TimelineOK /\ CallsOK /\ CallsNest
  BY <1>1, Parts
<1>3. Through /\ Top.kind = "write" /\ UNCHANGED timeline
  BY DEF EndWrite
<1>4. /\ Pops /\ (Len(stack) = 1 => waiting = <<>>)
      /\ tracked' = tracked /\ state' = state /\ waiting' = waiting
      /\ failed' = (failed /\ Len(stack) > 1)
  BY <1>1, <1>3, ThroughFacts
<1>5. CallsRest'
  BY <1>1, <1>2, <1>4, PopRests
<1>6. /\ Awaited' <=> Awaited
      /\ engine' = engine /\ present' = present
  BY <1>3, <1>4 DEF Awaited, timeline
<1>7. /\ Moved' <=> Moved
      /\ UnderWay({"setState"})' <=> UnderWay({"setState"})
      /\ Suppressed' <=> Suppressed
  BY <1>2, <1>3, <1>4, MovedFacts, PopUnderWay DEF Moving, Suppressed
<1>8. Followed'
  BY <1>1, <1>4, <1>6, <1>7, SameFollowed
<1>. QED  BY <1>5, <1>8

\* Nothing that has failed keeps a setState from recording its change.
LEMMA NotThrown ==
  ASSUME CallsRest, Pops, Top.kind \notin {"write", "hydrate"}
  PROVE  ~Thrown
BY DEF Thrown, CallsRest, Pops

LEMMA EndSetStateFollowed ==
  ASSUME ShownInvariant, EndSetState
  PROVE  CallsRest' /\ Followed'
<1>1. TypeInvariant /\ CallsRest /\ Followed
  BY DEF ShownInvariant
<1>2. TimelineOK /\ CallsOK /\ CallsNest
  BY <1>1, Parts
<1>3. Through /\ Top.kind = "setState" /\ SetStateRecords
  BY <1>1, EndSetStateStep DEF EndSetState
<1>4. /\ Pops /\ (Len(stack) = 1 => waiting = <<>>) /\ Top.at # "refused"
      /\ tracked' = tracked /\ state' = state /\ waiting' = waiting
      /\ failed' = (failed /\ Len(stack) > 1)
  BY <1>1, <1>3, ThroughFacts
<1>5. CallsRest'
  BY <1>1, <1>2, <1>4, PopRests
<1>6. /\ Awaited' <=> Awaited
      /\ Projected(state)' = Projected(state) /\ (Whole' <=> Whole)
  BY <1>4, ProjectedSame DEF Awaited, Whole
<1>7. /\ Moved' <=> Moved
      /\ Suppressed' <=> Suppressed
      /\ traveling => Moved
  BY <1>2, <1>3, <1>4, MovedFacts, PopUnderWay DEF Moving, Suppressed
<1>8. ~Thrown
  BY <1>1, <1>3, <1>4, NotThrown
<1>9. CASE engine = "legacy"
  <2>1. LegacyRecords
    BY <1>3, <1>8, <1>9 DEF SetStateRecords
  <2>2. present' = Projected(state) /\ engine' = engine
    BY <2>1 DEF LegacyRecords, Look, RecordChange
  <2>. QED  BY <1>5, <1>6, <1>9, <2>2 DEF Followed
<1>10. CASE engine # "legacy" /\ (traveling \/ Suppressed)
  <2>1. UNCHANGED timeline
    BY <1>3, <1>8, <1>10 DEF SetStateRecords
  <2>2. engine' = engine /\ (Moved' \/ Suppressed')
    BY <1>7, <1>10, <2>1 DEF timeline
  <2>. QED  BY <1>1, <1>5, <1>6, <1>10, <2>2 DEF Followed
<1>11. CASE engine = "journal" /\ Whole /\ ~(traveling \/ Suppressed)
  <2>1. UNCHANGED timeline
    BY <1>3, <1>8, <1>11 DEF SetStateRecords
  <2>2. engine' = engine /\ present' = present
    BY <2>1 DEF timeline
  <2>. QED  BY <1>1, <1>5, <1>6, <1>7, <1>11, <2>2 DEF Followed
<1>12. CASE engine # "legacy" /\ ~(traveling \/ Suppressed) /\ ~(engine = "journal" /\ Whole)
  <2>1. RecordState
    BY <1>3, <1>8, <1>12 DEF SetStateRecords
  <2>2. /\ present' = Projected(state) /\ engine' # "legacy"
        /\ engine' = "journal" => engine = "journal"
    BY <1>1, <1>4, <1>12, <2>1, RecordStateFollowed
  <2>. QED  BY <1>5, <1>6, <1>12, <2>2 DEF Followed
<1>. QED  BY <1>9, <1>10, <1>11, <1>12

LEMMA EndHydrateFollowed ==
  ASSUME ShownInvariant, EndHydrate
  PROVE  CallsRest' /\ Followed'
<1>1. TypeInvariant /\ CallsRest /\ Followed
  BY DEF ShownInvariant
<1>2. /\ TimelineOK /\ CallsOK /\ CallsNest /\ Projected(state) \in SnapshotsOf(tracked)
  BY <1>1, Parts
<1>3. Through /\ Restart
  BY DEF EndHydrate
<1>4. /\ Pops /\ (Len(stack) = 1 => waiting = <<>>)
      /\ tracked' = tracked /\ state' = state /\ waiting' = waiting
      /\ failed' = (failed /\ Len(stack) > 1)
  BY <1>1, <1>3, ThroughFacts
<1>5. CallsRest'
  BY <1>1, <1>2, <1>4, PopRests
<1>6. /\ Awaited' <=> Awaited
      /\ Projected(state)' = Projected(state) /\ (Whole' <=> Whole)
  BY <1>4, ProjectedSame DEF Awaited, Whole
<1>7. present' = Projected(state) /\ engine' = engine
  BY <1>2, <1>3, <1>4, RestartFacts
<1>. QED  BY <1>1, <1>5, <1>6, <1>7 DEF Followed

LEMMA EndMoveFollowed ==
  ASSUME ShownInvariant, EndMove
  PROVE  CallsRest' /\ Followed'
<1>1. TypeInvariant /\ CallsRest /\ Followed
  BY DEF ShownInvariant
<1>2. CallsOK /\ CallsNest
  BY <1>1, Parts
<1>3. /\ Pops /\ (Len(stack) = 1 => waiting = <<>>)
      /\ tracked' = tracked /\ state' = state /\ waiting' = waiting
      /\ engine' = engine /\ Arrive
      /\ failed' = (failed /\ Len(stack) > 1)
  BY <1>1, EndMoveStep
<1>4. CallsRest'
  BY <1>1, <1>2, <1>3, PopRests
<1>5. /\ Awaited' <=> Awaited
      /\ Projected(state)' = Projected(state) /\ (Whole' <=> Whole)
  BY <1>3, ProjectedSame DEF Awaited, Whole
<1>6. present' = IF engine = "legacy" THEN present ELSE Projected(state)
  BY <1>3 DEF Arrive
<1>. QED  BY <1>1, <1>3, <1>4, <1>5, <1>6 DEF Followed

LEMMA FailMoveFollowed ==
  ASSUME ShownInvariant, FailMove
  PROVE  CallsRest' /\ Followed' /\ Top.at = "refused" /\ (Len(stack) = 1 => waiting = <<>>)
<1>1. TypeInvariant /\ CallsRest /\ Followed
  BY DEF ShownInvariant
<1>2. CallsOK /\ CallsNest
  BY <1>1, Parts
<1>3. /\ Pops /\ Moving(Top) /\ (Top.at = "refused" \/ Thrown)
      /\ tracked' = tracked /\ state' = state /\ waiting' = waiting
      /\ engine' = engine /\ present' = present
      /\ failed' = (failed /\ Len(stack) > 1)
  BY <1>1, FailMoveStep
<1>4. Top.at = "refused"
  <2>1. Top.kind \notin {"write", "hydrate"}
    BY <1>3 DEF Moving
  <2>. QED  BY <1>1, <1>3, <2>1, NotThrown
<1>5. Len(stack) = 1 => waiting = <<>>
  BY <1>1, <1>3, <1>4 DEF CallsRest, Pops
<1>6. CallsRest'
  BY <1>1, <1>2, <1>3, <1>5, PopRests
<1>7. Awaited' <=> Awaited
  BY <1>3 DEF Awaited
<1>8. /\ Moved' <=> Moved
      /\ UnderWay({"setState"})' <=> UnderWay({"setState"})
      /\ Suppressed' <=> Suppressed
  BY <1>2, <1>3, <1>4, MovedFacts, PopUnderWay DEF Moving, Suppressed
<1>9. Followed'
  BY <1>1, <1>3, <1>7, <1>8, SameFollowed
<1>. QED  BY <1>4, <1>5, <1>6, <1>9

LEMMA StutterFollowed ==
  ASSUME ShownInvariant, UNCHANGED vars
  PROVE  CallsRest' /\ Followed'
<1>1. TypeInvariant /\ CallsRest /\ Followed
  BY DEF ShownInvariant
<1>2. /\ tracked' = tracked /\ state' = state /\ UNCHANGED timeline
      /\ stack' = stack /\ waiting' = waiting /\ failed' = failed
  BY <1>1, StutterStep
<1>3. CallsRest'
  BY <1>1, <1>2, Zenon DEF CallsRest
<1>4. /\ Awaited' <=> Awaited
      /\ engine' = engine /\ present' = present
  BY <1>2 DEF Awaited, timeline
<1>5. /\ Moved' <=> Moved
      /\ UnderWay({"setState"})' <=> UnderWay({"setState"})
      /\ Suppressed' <=> Suppressed
  BY <1>2, SameCalls
<1>6. Followed'
  BY <1>1, <1>2, <1>4, <1>5, SameFollowed
<1>. QED  BY <1>3, <1>6

LEMMA ShownNext ==
  ASSUME NoLoss, ShownInvariant, [Next]_vars
  PROVE  ShownInvariant'
<1>1. TypeInvariant /\ CallsRest /\ Followed
  BY DEF ShownInvariant
<1>2. TypeInvariant'
  BY <1>1, TypeNext
<1>3. ASSUME NEW k \in Keys, NEW v \in Values, WriteDirectly(k, v)
      PROVE  CallsRest' /\ Followed'
  <2>1. /\ Pushes(Call("write"))
        /\ Wrote(state', k, v) /\ Commits(state')
        /\ Hearing => state \in SnapshotsOf(tracked) /\ state' \in SnapshotsOf(tracked)
        /\ tracked' = tracked /\ failed' = failed
        /\ stack # <<>> => Top.at # "refused"
    BY <1>1, <1>3, WriteDirectlyStep
  <2>. QED  BY <1>1, <1>2, <2>1, WriteFollowed
<1>4. ASSUME NEW k \in Keys, NEW v \in Values, SetState(k, v)
      PROVE  CallsRest' /\ Followed'
  <2>1. /\ Pushes(Call("setState"))
        /\ Wrote(state', k, v) /\ Commits(state')
        /\ Hearing => state \in SnapshotsOf(tracked) /\ state' \in SnapshotsOf(tracked)
        /\ tracked' = tracked /\ failed' = failed
        /\ stack # <<>> => Top.at # "refused"
    BY <1>1, <1>4, SetStateStep
  <2>. QED  BY <1>1, <1>2, <2>1, WriteFollowed
<1>5. ASSUME NEW k \in Keys, NEW v \in Values, Hydrate(k, v)
      PROVE  CallsRest' /\ Followed'
  BY <1>5, HydrateFollowed
<1>6. ASSUME Undo \/ Redo \/ LegacyUndo \/ LegacyRedo PROVE CallsRest' /\ Followed'
  BY <1>6, MoveFollowed
<1>7. ASSUME Clear PROVE CallsRest' /\ Followed'
  BY <1>7, ClearFollowed
<1>8. ASSUME Drain PROVE CallsRest' /\ Followed'
  BY <1>8, DrainFollowed
<1>9. ASSUME Subscription PROVE CallsRest' /\ Followed'
  BY <1>9, SubscriptionFollowed
<1>10. ASSUME Return PROVE CallsRest' /\ Followed'
  BY <1>10, ReturnFollowed
<1>11. ASSUME EndWrite PROVE CallsRest' /\ Followed'
  BY <1>11, EndWriteFollowed
<1>12. ASSUME EndSetState PROVE CallsRest' /\ Followed'
  BY <1>12, EndSetStateFollowed
<1>13. ASSUME EndHydrate PROVE CallsRest' /\ Followed'
  BY <1>13, EndHydrateFollowed
<1>14. ASSUME EndMove PROVE CallsRest' /\ Followed'
  BY <1>14, EndMoveFollowed
<1>15. ASSUME FailMove PROVE CallsRest' /\ Followed'
  BY <1>15, FailMoveFollowed
<1>16. ASSUME UNCHANGED vars PROVE CallsRest' /\ Followed'
  BY <1>16, StutterFollowed
<1>17. CallsRest' /\ Followed'
  BY <1>3, <1>4, <1>5, <1>6, <1>7, <1>8, <1>9, <1>10, <1>11, <1>12, <1>13, <1>14,
     <1>15, <1>16 DEF Next
<1>. QED  BY <1>2, <1>17 DEF ShownInvariant

LEMMA ShownInit ==
  ASSUME Init
  PROVE  ShownInvariant
<1>1. TypeInvariant
  BY TypeInit
<1>2. /\ stack = <<>> /\ waiting = <<>> /\ failed = FALSE /\ present = Projected(state)
  BY DEF Init
<1>3. ~Awaited
  BY <1>2 DEF Awaited
<1>. QED  BY <1>1, <1>2, <1>3 DEF ShownInvariant, CallsRest, Followed

\* Unless an observer throws where that loses a change, the state that history calls
\* current is the state of the store whenever no call is under way.
THEOREM CurrentIsShown == NoLoss => (Spec => []TimelineIsShown)
<1>. SUFFICES ASSUME NoLoss PROVE Spec => []TimelineIsShown
  OBVIOUS
<1>1. Init => ShownInvariant
  BY ShownInit
<1>2. ShownInvariant /\ [Next]_vars => ShownInvariant'
  BY ShownNext
<1>3. ShownInvariant => TimelineIsShown
  <2>. SUFFICES ASSUME ShownInvariant, stack = <<>> PROVE present = Projected(state)
    BY DEF TimelineIsShown
  <2>1. CallsRest /\ Followed /\ TypeInvariant
    BY DEF ShownInvariant
  <2>2. waiting = <<>>
    BY <2>1 DEF CallsRest
  <2>3. ~Awaited
    BY <2>2 DEF Awaited
  <2>4. ~Moved /\ ~Suppressed /\ ~UnderWay({"setState"})
    BY DEF Moved, Suppressed, UnderWay
  <2>. QED  BY <2>1, <2>3, <2>4 DEF Followed
<1>. QED  BY <1>1, <1>2, <1>3, PTL DEF Spec

-----------------------------------------------------------------------------
(* The journal.                                                            *)

\* A change that is recorded is the next state of the line, and what is shifted
\* out of the journal is its first.
LEMMA RecordedLine ==
  ASSUME NEW ks, NEW list \in Seq(EntriesOf(ks)), NEW p \in 0 .. Len(list), NEW line,
         NEW t \in SnapshotsOf(ks), NEW next, NEW grown,
         IsLine(line, list, ks), p <= Limit,
         Recorded(next, grown, list, p, Entry(line[p], t), ks)
  PROVE  \E longer : IsLine(longer, next, ks) /\ longer[Len(next)] = t
<1>1. /\ Len(list) \in Nat /\ p \in Nat /\ Limit \in Nat
      /\ \A i \in 0 .. p : line[i] \in SnapshotsOf(ks)
      /\ \A i \in 1 .. p : line[i - 1] = Patched(line[i], list[i].inverse)
      /\ \A i \in 1 .. p : line[i] = Patched(line[i - 1], list[i].patches)
  <2>1. Len(list) \in Nat /\ p \in Nat /\ Limit \in Nat
    BY LenProperties, HistoryAssumption
  <2>2. /\ \A i \in 0 .. p : i \in 0 .. Len(list)
        /\ \A i \in 1 .. p : i \in 1 .. Len(list)
    BY <2>1
  <2>. QED  BY <2>1, <2>2 DEF IsLine
<1>2. /\ Len(grown) = p + 1
      /\ \A i \in 1 .. p : grown[i] = list[i]
      /\ grown[p + 1] = Entry(line[p], t)
      /\ Len(next) \in Nat
      /\ p + 1 <= Limit => next = grown
      /\ p = Limit => Len(next) = p /\ \A i \in 1 .. p : next[i] = grown[i + 1]
  BY DEF Recorded
<1>3. PICK whole : whole = [i \in 0 .. p + 1 |-> IF i = p + 1 THEN t ELSE line[i]]
  OBVIOUS
<1>4. /\ \A i \in 0 .. p : whole[i] = line[i]
      /\ whole[p + 1] = t
      /\ whole \in [0 .. p + 1 -> SnapshotsOf(ks)]
  <2>1. \A i \in 0 .. p + 1 : i # p + 1 => i \in 0 .. p
    BY <1>1
  <2>2. \A i \in 0 .. p : i \in 0 .. p + 1 /\ i # p + 1
    BY <1>1
  <2>3. p + 1 \in 0 .. p + 1
    BY <1>1
  <2>. QED  BY <1>1, <1>3, <2>1, <2>2, <2>3
<1>5. ASSUME NEW i \in 1 .. p + 1
      PROVE  /\ whole[i - 1] = Patched(whole[i], grown[i].inverse)
             /\ whole[i] = Patched(whole[i - 1], grown[i].patches)
  <2>1. CASE i = p + 1
    <3>1. line[p] \in SnapshotsOf(ks) /\ i - 1 = p /\ p \in 0 .. p
      BY <1>1, <2>1
    <3>2. /\ Patched(line[p], Entry(line[p], t).patches) = t
          /\ Patched(t, Entry(line[p], t).inverse) = line[p]
      BY <3>1, EntryFacts
    <3>. QED  BY <1>2, <1>4, <2>1, <3>1, <3>2
  <2>2. CASE i # p + 1
    <3>1. i \in 1 .. p /\ i \in 0 .. p /\ i - 1 \in 0 .. p
      BY <1>1, <2>2
    <3>. QED  BY <1>1, <1>2, <1>4, <3>1
  <2>. QED  BY <2>1, <2>2
<1>6. CASE p + 1 <= Limit
  BY <1>2, <1>4, <1>5, <1>6 DEF IsLine
<1>7. CASE p = Limit
  <2>1. PICK rest : rest = [i \in 0 .. p |-> whole[i + 1]]
    OBVIOUS
  <2>2. rest \in [0 .. p -> SnapshotsOf(ks)] /\ rest[p] = t
    <3>1. \A i \in 0 .. p : i + 1 \in 0 .. p + 1
      BY <1>1
    <3>2. p \in 0 .. p
      BY <1>1
    <3>. QED  BY <1>4, <2>1, <3>1, <3>2
  <2>3. ASSUME NEW i \in 1 .. p
        PROVE  /\ rest[i - 1] = Patched(rest[i], next[i].inverse)
               /\ rest[i] = Patched(rest[i - 1], next[i].patches)
    <3>1. /\ i \in 0 .. p /\ i - 1 \in 0 .. p /\ i + 1 \in 1 .. p + 1
          /\ (i + 1) - 1 = i /\ (i - 1) + 1 = i
      BY <1>1
    <3>2. rest[i] = whole[i + 1] /\ rest[i - 1] = whole[i]
      BY <2>1, <3>1
    <3>3. /\ whole[i] = Patched(whole[i + 1], grown[i + 1].inverse)
          /\ whole[i + 1] = Patched(whole[i], grown[i + 1].patches)
      BY <1>5, <3>1
    <3>. QED  BY <1>2, <1>7, <3>2, <3>3
  <2>4. IsLine(rest, next, ks) /\ rest[Len(next)] = t
    BY <1>2, <1>7, <2>2, <2>3 DEF IsLine
  <2>. QED  BY <2>4
<1>. QED  BY <1>1, <1>6, <1>7

\* Of the patches of a journal only the first may lead back to a state that
\* patches cannot represent.
OddEntries(list) ==
  \A i \in 1 .. Len(list) :
    /\ Compatible(list[i].patches)
    /\ DOMAIN list[i].inverse = DOMAIN list[i].patches
    /\ i > 1 => Compatible(list[i].inverse)

LEMMA CompatibleDifference ==
  ASSUME NEW ks, NEW s \in SnapshotsOf(ks), NEW t \in SnapshotsOf(ks), Compatible(t)
  PROVE  Compatible(Patches(s, t))
<1>1. PICK p : p = Patches(s, t)
  OBVIOUS
<1>2. /\ DOMAIN p \subseteq ks
      /\ \A k \in ks : k \in DOMAIN p <=> s[k] # t[k]
      /\ \A k \in ks : s[k] # t[k] => p[k] = t[k]
  BY <1>1, DifferenceFacts
<1>3. \A k \in ks : t[k] \notin Odd
  BY DEF Compatible, SnapshotsOf
<1>4. Compatible(p)
  BY <1>2, <1>3 DEF Compatible
<1>. QED  BY <1>1, <1>4

LEMMA RecordedOdd ==
  ASSUME NEW ks, NEW s \in SnapshotsOf(ks), NEW t \in SnapshotsOf(ks),
         NEW list \in Seq(EntriesOf(ks)), NEW p \in 0 .. Len(list), NEW next, NEW grown,
         p <= Limit, Recorded(next, grown, list, p, Entry(s, t), ks),
         OddEntries(list), Compatible(t), p > 0 => Compatible(s)
  PROVE  OddEntries(next)
<1>1. Len(list) \in Nat /\ p \in Nat /\ Limit \in Nat
  BY LenProperties, HistoryAssumption
<1>2. /\ Len(grown) = p + 1
      /\ \A i \in 1 .. p : grown[i] = list[i]
      /\ grown[p + 1] = Entry(s, t)
      /\ p + 1 <= Limit => next = grown
      /\ p = Limit => Len(next) = p /\ \A i \in 1 .. p : next[i] = grown[i + 1]
  BY DEF Recorded
<1>3. /\ Entry(s, t).patches = Patches(s, t) /\ Entry(s, t).inverse = Patches(t, s)
      /\ DOMAIN Entry(s, t).inverse = DOMAIN Entry(s, t).patches
  BY EntryFacts
<1>4. Compatible(Patches(s, t)) /\ (p > 0 => Compatible(Patches(t, s)))
  BY CompatibleDifference
<1>5. ASSUME NEW i \in 1 .. p + 1
      PROVE  /\ Compatible(grown[i].patches)
             /\ DOMAIN grown[i].inverse = DOMAIN grown[i].patches
             /\ i > 1 => Compatible(grown[i].inverse)
  <2>1. CASE i = p + 1
    BY <1>1, <1>2, <1>3, <1>4, <2>1
  <2>2. CASE i # p + 1
    <3>1. i \in 1 .. p /\ i \in 1 .. Len(list)
      BY <1>1, <2>2
    <3>. QED  BY <1>2, <3>1 DEF OddEntries
  <2>. QED  BY <2>1, <2>2
<1>6. CASE p + 1 <= Limit
  BY <1>2, <1>5, <1>6 DEF OddEntries
<1>7. CASE p = Limit
  <2>. SUFFICES ASSUME NEW i \in 1 .. p
       PROVE  /\ Compatible(next[i].patches)
              /\ DOMAIN next[i].inverse = DOMAIN next[i].patches
              /\ i > 1 => Compatible(next[i].inverse)
    BY <1>2, <1>7 DEF OddEntries
  <2>1. i + 1 \in 1 .. p + 1 /\ i + 1 > 1 /\ next[i] = grown[i + 1]
    BY <1>1, <1>2, <1>7
  <2>. QED  BY <1>5, <2>1
<1>. QED  BY <1>1, <1>6, <1>7

LEMMA ExactParts ==
  /\ Exact <=> (engine = "journal" /\ ~meddled =>
                  \E line : IsLine(line, entries, tracked) /\ line[position] = present)
  /\ Exact' <=> (engine' = "journal" /\ ~meddled' =>
                  \E line : IsLine(line, entries', tracked') /\ line[position'] = present')
BY DEF Exact, IsLine, Snapshot, SnapshotsOf

LEMMA OddParts ==
  /\ OddIsFirst <=> (~Whole /\ engine = "journal" =>
                       /\ OddEntries(entries)
                       /\ position > 0 => Compatible(present)
                       /\ position = 0 /\ entries # <<>> =>
                            OddKeys(present) \subseteq DOMAIN entries[1].patches)
  /\ OddIsFirst' <=> (~Whole' /\ engine' = "journal" =>
                        /\ OddEntries(entries')
                        /\ position' > 0 => Compatible(present')
                        /\ position' = 0 /\ entries' # <<>> =>
                             OddKeys(present') \subseteq DOMAIN entries'[1].patches)
BY DEF OddIsFirst, OddEntries, Compatible, OddKeys

\* The journal is as it was, or is no more.
LEMMA JournalKept ==
  ASSUME Exact, OddIsFirst, tracked' = tracked,
         \/ engine' # "journal"
         \/ /\ engine' = engine /\ entries' = entries /\ position' = position
            /\ present' = present /\ (meddled => meddled')
  PROVE  Exact' /\ OddIsFirst'
<1>1. CASE engine' # "journal"
  BY <1>1, ExactParts, OddParts
<1>2. CASE /\ engine' = engine /\ entries' = entries /\ position' = position
           /\ present' = present /\ (meddled => meddled')
  <2>1. Whole' <=> Whole
    BY DEF Whole
  <2>2. Exact'
    BY <1>2, ExactParts
  <2>3. OddIsFirst'
    BY <1>2, <2>1, OddParts
  <2>. QED  BY <2>2, <2>3
<1>. QED  BY <1>1, <1>2

\* The journal starts again.
LEMMA JournalEmpty ==
  ASSUME TimelineOK', tracked' = tracked, entries' = <<>>, position' = 0
  PROVE  Exact' /\ OddIsFirst'
<1>1. PICK line : line = [i \in 0 .. 0 |-> present']
  OBVIOUS
<1>2. present' \in SnapshotsOf(tracked')
  BY DEF TimelineOK
<1>3. IsLine(line, entries', tracked') /\ line[position'] = present'
  BY <1>1, <1>2 DEF IsLine
<1>4. Exact'
  BY <1>3, ExactParts
<1>5. OddEntries(entries')
  BY DEF OddEntries
<1>6. OddIsFirst'
  BY <1>5, OddParts
<1>. QED  BY <1>4, <1>6

\* A change is recorded.
LEMMA JournalRecords ==
  ASSUME TimelineOK, Exact, OddIsFirst, engine = "journal", NEW s \in SnapshotsOf(tracked),
         tracked' = tracked, RecordPatches(s), meddled => meddled', ~Whole => Compatible(s)
  PROVE  Exact' /\ OddIsFirst'
<1>1. /\ TimelineOK' /\ engine' = "journal" /\ present' = s /\ position' = Len(entries')
      /\ position \in 0 .. Len(entries) /\ position <= Limit
  BY RecordPatchesFacts
<1>2. PICK grown : Recorded(entries', grown, entries, position, Entry(present, s), tracked)
  BY RecordPatchesFacts
<1>3. entries \in Seq(EntriesOf(tracked)) /\ present \in SnapshotsOf(tracked)
  BY DEF TimelineOK
<1>4. Exact'
  <2>. SUFFICES ASSUME ~meddled'
       PROVE  \E line : IsLine(line, entries', tracked') /\ line[position'] = present'
    BY ExactParts
  <2>1. PICK line : IsLine(line, entries, tracked) /\ line[position] = present
    BY ExactParts
  <2>2. Recorded(entries', grown, entries, position, Entry(line[position], s), tracked)
    BY <1>2, <2>1
  <2>3. PICK next : next = entries'
    OBVIOUS
  <2>4. Recorded(next, grown, entries, position, Entry(line[position], s), tracked)
    BY <2>2, <2>3
  <2>5. \E longer : IsLine(longer, next, tracked) /\ longer[Len(next)] = s
    BY <1>1, <1>3, <2>1, <2>4, RecordedLine
  <2>. QED  BY <1>1, <2>3, <2>5
<1>5. OddIsFirst'
  <2>. SUFFICES ASSUME ~Whole'
       PROVE  /\ OddEntries(entries')
              /\ position' > 0 => Compatible(present')
              /\ position' = 0 /\ entries' # <<>> =>
                   OddKeys(present') \subseteq DOMAIN entries'[1].patches
    BY OddParts
  <2>1. ~Whole
    BY DEF Whole
  <2>2. OddEntries(entries) /\ (position > 0 => Compatible(present)) /\ Compatible(s)
    BY <2>1, OddParts
  <2>3. OddEntries(entries')
    BY <1>1, <1>2, <1>3, <2>2, RecordedOdd
  <2>4. position' = 0 => entries' = <<>>
    BY <1>1, EmptySeq DEF TimelineOK
  <2>. QED  BY <1>1, <2>2, <2>3, <2>4
<1>. QED  BY <1>4, <1>5

\* Recording the store keeps a journal exact.
LEMMA JournalRecordsState ==
  ASSUME TypeInvariant, Exact, OddIsFirst, engine # "legacy", tracked' = tracked,
         meddled' = meddled, RecordState
  PROVE  Exact' /\ OddIsFirst'
<1>1. TimelineOK /\ Projected(state) \in SnapshotsOf(tracked)
  BY Parts
<1>2. PICK s \in SnapshotsOf(tracked) : s = Projected(state)
  BY <1>1
<1>3. \/ engine = "snapshots" /\ engine' = engine
      \/ engine = "journal" /\ Switch(s)
      \/ engine = "journal" /\ Compatible(s) /\ RecordPatches(s)
      \/ UNCHANGED timeline
  BY <1>1, <1>2, RecordStateFacts
<1>4. CASE engine = "snapshots" /\ engine' = engine
  BY <1>4, JournalKept
<1>5. CASE engine = "journal" /\ Switch(s)
  BY <1>5, JournalKept DEF Switch
<1>6. CASE engine = "journal" /\ Compatible(s) /\ RecordPatches(s)
  BY <1>1, <1>6, JournalRecords
<1>7. CASE UNCHANGED timeline
  BY <1>7, JournalKept DEF timeline, journal
<1>. QED  BY <1>3, <1>4, <1>5, <1>6, <1>7

-----------------------------------------------------------------------------
(* The calls of a legacy history.                                          *)

LEMMA LegacyPush ==
  ASSUME CallsOK, LegacyCalls, NEW call, Pushes(call),
         engine' = "legacy" => engine = "legacy",
         call.kind = "write" \/ (engine = "legacy" => stack = <<>>),
         stack = <<>> \/ (recording => recording'), call.kind = "setState" => recording'
  PROVE  LegacyCalls'
<1>. SUFFICES ASSUME engine' = "legacy"
     PROVE  /\ \A i \in DOMAIN stack' : i # 1 => stack'[i].kind = "write"
            /\ stack' # <<>> /\ stack'[1].kind = "setState" => recording'
  BY DEF LegacyCalls
<1>1. /\ \A i \in DOMAIN stack : i # 1 => stack[i].kind = "write"
      /\ stack # <<>> /\ stack[1].kind = "setState" => recording
  BY DEF LegacyCalls
<1>2. CASE stack = <<>>
  <2>1. DOMAIN stack' = {1} /\ stack'[1] = call
    BY <1>2 DEF Pushes
  <2>. QED  BY <2>1
<1>3. CASE stack # <<>>
  <2>1. call.kind = "write"
    BY <1>3
  <2>2. \A i \in DOMAIN stack' :
          \/ i \in DOMAIN stack /\ stack'[i] = stack[i]
          \/ i # 1 /\ stack'[i] = call
    BY <1>3 DEF Pushes
  <2>3. stack'[1] = stack[1]
    BY <1>3 DEF Pushes
  <2>. QED  BY <1>1, <1>3, <2>1, <2>2, <2>3
<1>. QED  BY <1>2, <1>3

LEMMA LegacyPop ==
  ASSUME LegacyCalls, Pops, engine' = "legacy" => engine = "legacy",
         recording' = recording \/ Top.kind # "write"
  PROVE  LegacyCalls'
<1>. SUFFICES ASSUME engine' = "legacy"
     PROVE  /\ \A i \in DOMAIN stack' : i # 1 => stack'[i].kind = "write"
            /\ stack' # <<>> /\ stack'[1].kind = "setState" => recording'
  BY DEF LegacyCalls
<1>1. /\ \A i \in DOMAIN stack : i # 1 => stack[i].kind = "write"
      /\ stack # <<>> /\ stack[1].kind = "setState" => recording
  BY DEF LegacyCalls
<1>2. \A i \in DOMAIN stack' : i \in DOMAIN stack /\ stack'[i] = stack[i]
  BY DEF Pops
<1>3. ASSUME stack' # <<>> PROVE stack'[1] = stack[1] /\ recording' = recording
  <2>1. Len(stack) # 1 /\ Len(stack) \in DOMAIN stack /\ 1 \in DOMAIN stack'
    BY <1>3 DEF Pops
  <2>2. Top.kind = "write"
    BY <1>1, <2>1 DEF Pops
  <2>. QED  BY <1>2, <2>1, <2>2
<1>. QED  BY <1>1, <1>2, <1>3 DEF Pops

LEMMA LegacySame ==
  ASSUME LegacyCalls, stack' = stack \/ Drains, engine' = "legacy" => engine = "legacy",
         recording' = recording
  PROVE  LegacyCalls'
<1>1. CASE stack' = stack
  BY <1>1, Zenon DEF LegacyCalls
<1>2. CASE Drains
  BY <1>2 DEF LegacyCalls, Drains
<1>. QED  BY <1>1, <1>2

-----------------------------------------------------------------------------
(* Where moves go.                                                         *)

LEMMA ArrivingKept ==
  ASSUME CallsNest, MovesArrive, Carried, Still,
         traveling => /\ meddled' \/ (meddled' = meddled /\ Projected(state)' = Projected(state))
                      /\ OddKeys(Projected(state)') \subseteq OddKeys(Projected(state))
  PROVE  MovesArrive'
<1>. SUFFICES ASSUME NEW i \in DOMAIN stack', Moving(stack'[i])
     PROVE  LET call == stack'[i] IN
              /\ call.at # "refused" =>
                   /\ ~meddled' => Projected(state)' = call.target
                   /\ OddKeys(Projected(state)') \subseteq OddKeys(call.target)
              /\ engine' = "journal" =>
                   call.target = Patched(present', IF call.kind = "undo"
                                                   THEN entries'[position'].inverse
                                                   ELSE entries'[position' + 1].patches)
              /\ engine' # "journal" =>
                   Last(IF call.kind = "undo" THEN future' ELSE past') =
                     IF engine' = "legacy" THEN call.before ELSE present'
  BY DEF MovesArrive, Moving
<1>1. /\ i \in DOMAIN stack /\ Moving(stack[i])
      /\ stack'[i].kind = stack[i].kind /\ stack'[i].target = stack[i].target
      /\ stack'[i].before = stack[i].before
      /\ stack'[i].at = "refused" <=> stack[i].at = "refused"
  BY DEF Carried, Moving
<1>2. traveling
  <2>1. UnderWay({"undo", "redo"})
    BY <1>1 DEF UnderWay, Moving
  <2>. QED  BY <2>1, Zenon DEF CallsNest
<1>3. /\ engine' = engine /\ entries' = entries /\ position' = position
      /\ past' = past /\ future' = future
      /\ engine # "legacy" => present' = present
      /\ meddled' \/ (meddled' = meddled /\ Projected(state)' = Projected(state))
      /\ OddKeys(Projected(state)') \subseteq OddKeys(Projected(state))
  BY <1>2 DEF Still
<1>4. /\ stack[i].at # "refused" =>
           /\ ~meddled => Projected(state) = stack[i].target
           /\ OddKeys(Projected(state)) \subseteq OddKeys(stack[i].target)
      /\ engine = "journal" =>
           stack[i].target = Patched(present, IF stack[i].kind = "undo"
                                              THEN entries[position].inverse
                                              ELSE entries[position + 1].patches)
      /\ engine # "journal" =>
           Last(IF stack[i].kind = "undo" THEN future ELSE past) =
             IF engine = "legacy" THEN stack[i].before ELSE present
  BY <1>1 DEF MovesArrive
<1>5. stack'[i].at # "refused" =>
        /\ ~meddled' => Projected(state)' = stack'[i].target
        /\ OddKeys(Projected(state)') \subseteq OddKeys(stack'[i].target)
  BY <1>1, <1>3, <1>4
<1>6. engine' = "journal" =>
        stack'[i].target = Patched(present', IF stack'[i].kind = "undo"
                                             THEN entries'[position'].inverse
                                             ELSE entries'[position' + 1].patches)
  BY <1>1, <1>3, <1>4
<1>7. engine' # "journal" =>
        Last(IF stack'[i].kind = "undo" THEN future' ELSE past') =
          IF engine' = "legacy" THEN stack'[i].before ELSE present'
  BY <1>1, <1>3, <1>4
<1>. QED  BY <1>5, <1>6, <1>7

\* An observer that writes while a move is under way writes what patches can
\* represent, and meddles.
LEMMA ArrivingWritten ==
  ASSUME TypeInvariant, MovesArrive, Carried, Still, NEW k \in Keys, NEW v \in Values,
         Wrote(state', k, v), tracked' = tracked, UserWrite(k, v)
  PROVE  MovesArrive'
<1>1. TimelineOK /\ CallsOK /\ CallsNest
  BY Parts
<1>2. traveling => meddled' /\ v \notin Odd
  BY DEF UserWrite
<1>3. tracked \subseteq Keys
  BY <1>1 DEF CallsOK
<1>4. ASSUME v \notin Odd
      PROVE  OddKeys(Projected(state)') \subseteq OddKeys(Projected(state))
  <2>1. /\ DOMAIN Projected(state) = tracked /\ \A j \in tracked : Projected(state)[j] = state[j]
        /\ DOMAIN Projected(state)' = tracked
        /\ \A j \in tracked : Projected(state)'[j] = state'[j]
    BY DEF Projected
  <2>2. \A j \in tracked : state'[j] \in Odd => state[j] \in Odd
    BY <1>3, <1>4 DEF Wrote
  <2>. QED  BY <2>1, <2>2 DEF OddKeys
<1>. QED  BY <1>1, <1>2, <1>4, ArrivingKept

LEMMA ArrivingSame ==
  ASSUME TypeInvariant, MovesArrive, Carried, Still, tracked' = tracked, state' = state,
         traveling => meddled' = meddled
  PROVE  MovesArrive'
<1>1. CallsNest
  BY Parts
<1>2. Projected(state)' = Projected(state)
  BY ProjectedSame
<1>. QED  BY <1>1, <1>2, ArrivingKept

LEMMA ArrivingNone ==
  ASSUME \A i \in DOMAIN stack' : ~Moving(stack'[i])
  PROVE  MovesArrive'
BY DEF MovesArrive, Moving

\* A move that starts.
LEMMA ArrivingStarts ==
  ASSUME ShownInvariant, NEW kind \in {"undo", "redo"}, NEW target \in SnapshotsOf(tracked),
         NEW call, Started(call, kind, target), Taken(kind, target)
  PROVE  MovesArrive'
<1>1. TypeInvariant /\ Followed
  BY DEF ShownInvariant
<1>2. /\ TimelineOK /\ CallsOK /\ CallsNest /\ Projected(state) \in SnapshotsOf(tracked)
  BY <1>1, Parts
<1>3. /\ Pushes(call) /\ call.kind = kind /\ call.target = target
      /\ call.before = Projected(state)
      /\ tracked' = tracked /\ engine' = engine /\ entries' = entries
      /\ position' = position /\ present' = present
      /\ ~traveling /\ ~Suppressed
      /\ call.at = "refused" \/ Projected(state)' = target
  BY DEF Started
<1>4. \A i \in DOMAIN stack : ~Moving(stack[i])
  BY <1>2, <1>3 DEF CallsNest, UnderWay, Moving
<1>5. \A i \in DOMAIN stack' : Moving(stack'[i]) => stack'[i] = call
  BY <1>3, <1>4 DEF Pushes
<1>6. call.at # "refused" => /\ ~meddled' => Projected(state)' = call.target
                             /\ OddKeys(Projected(state)') \subseteq OddKeys(call.target)
  BY <1>3
<1>7. engine = "journal" =>
        call.target = Patched(present, IF kind = "undo" THEN entries[position].inverse
                                       ELSE entries[position + 1].patches)
  <2>. SUFFICES ASSUME engine = "journal"
       PROVE  call.target = Patched(present, IF kind = "undo" THEN entries[position].inverse
                                             ELSE entries[position + 1].patches)
    OBVIOUS
  <2>1. target = Patched(IF Whole THEN state ELSE present,
                         IF kind = "undo" THEN entries[position].inverse
                         ELSE entries[position + 1].patches)
    BY DEF Taken
  <2>2. Whole => state = present
    <3>1. ~Moved
      BY <1>4 DEF Moved
    <3>2. Whole => present = Projected(state)
      BY <1>1, <1>3, <3>1 DEF Followed
    <3>3. Whole => Projected(state) = state
      BY <1>2, ProjectedFacts DEF Whole, CallsOK
    <3>. QED  BY <3>2, <3>3
  <2>. QED  BY <1>3, <2>1, <2>2
<1>8. engine # "journal" =>
        Last(IF kind = "undo" THEN future' ELSE past') =
          IF engine = "legacy" THEN call.before ELSE present
  <2>1. Current = IF engine = "legacy" THEN call.before ELSE present
    BY <1>3 DEF Current
  <2>2. Current \in SnapshotsOf(tracked)
    BY <1>2 DEF Current, TimelineOK
  <2>3. Last(Append(past, Current)) = Current /\ Last(Append(future, Current)) = Current
    BY <1>2, <2>2, AppendFacts DEF TimelineOK
  <2>. QED  BY <2>1, <2>3 DEF Taken
<1>. QED  BY <1>3, <1>5, <1>6, <1>7, <1>8 DEF MovesArrive, Moving

-----------------------------------------------------------------------------
(* The invariant is kept by every step.                                    *)

TimelineParts == LegacyCalls /\ MovesArrive /\ Exact /\ OddIsFirst

\* The commit of a write.
LEMMA JournalCommits ==
  ASSUME TimelineOK, Exact, OddIsFirst, tracked' = tracked, NEW next, Commits(next),
         Hearing => next \in SnapshotsOf(tracked), meddled => meddled'
  PROVE  Exact' /\ OddIsFirst' /\ (engine' = "legacy" => engine = "legacy")
<1>1. CASE Hearing /\ RecordPatches(next)
  <2>1. engine = "journal" /\ Whole
    BY <1>1 DEF Hearing
  <2>2. Exact' /\ OddIsFirst'
    BY <1>1, <2>1, JournalRecords
  <2>. QED  BY <1>1, <2>2 DEF RecordPatches
<1>2. CASE Hearing /\ (Switch(next) \/ Begin)
  <2>1. engine' = "snapshots"
    BY <1>2 DEF Switch, Begin
  <2>. QED  BY <2>1, JournalKept
<1>3. CASE UNCHANGED timeline
  BY <1>3, JournalKept DEF timeline, journal
<1>. QED  BY <1>1, <1>2, <1>3 DEF Commits

LEMMA JournalUnchanged ==
  ASSUME Exact, OddIsFirst, tracked' = tracked, UNCHANGED timeline, meddled' = meddled
  PROVE  Exact' /\ OddIsFirst' /\ (engine' = "legacy" => engine = "legacy")
BY JournalKept DEF timeline, journal

LEMMA WriteArrives ==
  ASSUME TimelineInvariant, NEW k \in Keys, NEW v \in Values, WriteDirectly(k, v)
  PROVE  TimelineParts'
<1>1. TypeInvariant /\ LegacyCalls /\ MovesArrive /\ Exact /\ OddIsFirst
  BY DEF TimelineInvariant, ShownInvariant
<1>2. TimelineOK /\ CallsOK
  BY <1>1, Parts
<1>3. PICK call : call = Call("write")
  OBVIOUS
<1>4. /\ Pushes(call) /\ Carried /\ Still
      /\ Wrote(state', k, v) /\ Commits(state')
      /\ Hearing => state' \in SnapshotsOf(tracked)
      /\ tracked' = tracked
      /\ recording' = recording /\ UserWrite(k, v)
  BY <1>1, <1>3, WriteDirectlyStep
<1>5. call.kind = "write"
  BY <1>2, <1>3, CallTyped
<1>6. meddled => meddled'
  BY <1>4 DEF UserWrite
<1>7. Exact' /\ OddIsFirst' /\ (engine' = "legacy" => engine = "legacy")
  BY <1>1, <1>2, <1>4, <1>6, JournalCommits
<1>8. LegacyCalls'
  BY <1>1, <1>2, <1>4, <1>5, <1>7, LegacyPush
<1>9. MovesArrive'
  BY <1>1, <1>4, ArrivingWritten
<1>. QED  BY <1>7, <1>8, <1>9 DEF TimelineParts

LEMMA SetStateArrives ==
  ASSUME NoNesting, TimelineInvariant, NEW k \in Keys, NEW v \in Values, SetState(k, v)
  PROVE  TimelineParts'
<1>1. TypeInvariant /\ LegacyCalls /\ MovesArrive /\ Exact /\ OddIsFirst
  BY DEF TimelineInvariant, ShownInvariant
<1>2. TimelineOK /\ CallsOK
  BY <1>1, Parts
<1>3. PICK call : call = Call("setState")
  OBVIOUS
<1>4. /\ Pushes(call) /\ Carried /\ Still
      /\ Wrote(state', k, v) /\ Commits(state')
      /\ Hearing => state' \in SnapshotsOf(tracked)
      /\ tracked' = tracked
      /\ recording' /\ UserWrite(k, v) /\ LegacyNests
  BY <1>1, <1>3, SetStateStep
<1>5. engine = "legacy" => stack = <<>>
  BY <1>4 DEF LegacyNests, NoNesting
<1>6. meddled => meddled'
  BY <1>4 DEF UserWrite
<1>7. Exact' /\ OddIsFirst' /\ (engine' = "legacy" => engine = "legacy")
  BY <1>1, <1>2, <1>4, <1>6, JournalCommits
<1>8. LegacyCalls'
  BY <1>1, <1>2, <1>4, <1>5, <1>7, LegacyPush
<1>9. MovesArrive'
  BY <1>1, <1>4, ArrivingWritten
<1>. QED  BY <1>7, <1>8, <1>9 DEF TimelineParts

LEMMA HydrateArrives ==
  ASSUME TimelineInvariant, NEW k \in Keys, NEW v \in Values, Hydrate(k, v)
  PROVE  TimelineParts'
<1>1. TypeInvariant /\ LegacyCalls /\ MovesArrive /\ Exact /\ OddIsFirst
  BY DEF TimelineInvariant, ShownInvariant
<1>2. TimelineOK /\ CallsOK
  BY <1>1, Parts
<1>3. PICK call : call = Call("hydrate")
  OBVIOUS
<1>4. /\ Pushes(call) /\ Carried /\ Still /\ stack = <<>>
      /\ Wrote(state', k, v) /\ tracked' = tracked /\ meddled' = meddled
      /\ UNCHANGED timeline \/ Begin
  BY <1>1, <1>3, HydrateStep
<1>5. call.kind = "hydrate" /\ UserWrite(k, v)
  BY <1>2, <1>3, CallTyped DEF Hydrate
<1>6. Exact' /\ OddIsFirst' /\ (engine' = "legacy" => engine = "legacy")
  <2>1. CASE UNCHANGED timeline
    BY <1>1, <1>4, <2>1, JournalUnchanged
  <2>2. CASE Begin
    <3>1. engine' = "snapshots"
      BY <2>2 DEF Begin
    <3>. QED  BY <1>1, <1>4, <3>1, JournalKept
  <2>. QED  BY <1>4, <2>1, <2>2
<1>7. LegacyCalls'
  BY <1>1, <1>2, <1>4, <1>5, <1>6, LegacyPush
<1>8. MovesArrive'
  BY <1>1, <1>4, <1>5, ArrivingWritten
<1>. QED  BY <1>6, <1>7, <1>8 DEF TimelineParts

LEMMA MoveArrives ==
  ASSUME NoNesting, TimelineInvariant, Undo \/ Redo \/ LegacyUndo \/ LegacyRedo
  PROVE  TimelineParts'
<1>1. /\ TypeInvariant /\ LegacyCalls /\ MovesArrive /\ Exact /\ OddIsFirst
      /\ ShownInvariant
  BY DEF TimelineInvariant, ShownInvariant
<1>2. TimelineOK /\ CallsOK
  BY <1>1, Parts
<1>3. PICK kind, target, call :
        /\ kind \in {"undo", "redo"} /\ target \in SnapshotsOf(tracked)
        /\ Started(call, kind, target) /\ Taken(kind, target)
  BY <1>1, MoveStep
<1>4. /\ Pushes(call) /\ call.kind = kind /\ tracked' = tracked /\ engine' = engine
      /\ entries' = entries /\ position' = position /\ present' = present
      /\ recording' = recording /\ meddled' = meddled /\ LegacyNests
  BY <1>3 DEF Started
<1>5. engine = "legacy" => stack = <<>>
  BY <1>4 DEF LegacyNests, NoNesting
<1>6. LegacyCalls'
  BY <1>1, <1>2, <1>3, <1>4, <1>5, LegacyPush
<1>7. MovesArrive'
  BY <1>1, <1>3, ArrivingStarts
<1>8. Exact' /\ OddIsFirst'
  BY <1>1, <1>4, JournalKept
<1>. QED  BY <1>6, <1>7, <1>8 DEF TimelineParts

LEMMA ClearArrives ==
  ASSUME TimelineInvariant, Clear
  PROVE  TimelineParts'
<1>1. TypeInvariant /\ LegacyCalls /\ MovesArrive /\ Exact /\ OddIsFirst
  BY DEF TimelineInvariant, ShownInvariant
<1>2. /\ TypeInvariant' /\ Carried /\ Still /\ ~traveling
      /\ stack' = stack /\ state' = state /\ tracked' = tracked
      /\ engine' = engine /\ recording' = recording
      /\ entries' = <<>> /\ position' = 0
  BY <1>1, ClearStep
<1>3. LegacyCalls'
  BY <1>1, <1>2, LegacySame
<1>4. MovesArrive'
  BY <1>1, <1>2, ArrivingSame
<1>5. TimelineOK'
  BY <1>2, TypePartsNext DEF TypeInvariant
<1>6. Exact' /\ OddIsFirst'
  BY <1>2, <1>5, JournalEmpty
<1>. QED  BY <1>3, <1>4, <1>6 DEF TimelineParts

LEMMA DrainArrives ==
  ASSUME TimelineInvariant, Drain
  PROVE  TimelineParts'
<1>1. TypeInvariant /\ LegacyCalls /\ MovesArrive /\ Exact /\ OddIsFirst
  BY DEF TimelineInvariant, ShownInvariant
<1>2. /\ Carried /\ Still /\ Drains /\ tracked' = tracked /\ state' = state
      /\ UNCHANGED timeline /\ recording' = recording /\ meddled' = meddled
  BY <1>1, DrainStep
<1>3. Exact' /\ OddIsFirst' /\ (engine' = "legacy" => engine = "legacy")
  BY <1>1, <1>2, JournalUnchanged
<1>4. LegacyCalls'
  BY <1>1, <1>2, <1>3, LegacySame
<1>5. MovesArrive'
  BY <1>1, <1>2, ArrivingSame
<1>. QED  BY <1>3, <1>4, <1>5 DEF TimelineParts

\* What recording the store leaves of the journal.
LEMMA JournalFollows ==
  ASSUME TypeInvariant, Exact, OddIsFirst, tracked' = tracked, meddled' = meddled,
         \/ UNCHANGED timeline
         \/ engine' = "legacy" /\ engine = "legacy"
         \/ engine # "legacy" /\ RecordState
  PROVE  Exact' /\ OddIsFirst' /\ (engine' = "legacy" => engine = "legacy")
<1>1. CASE UNCHANGED timeline
  BY <1>1, JournalUnchanged
<1>2. CASE engine' = "legacy" /\ engine = "legacy"
  BY <1>2, JournalKept
<1>3. CASE engine # "legacy" /\ RecordState
  <2>1. Exact' /\ OddIsFirst'
    BY <1>3, JournalRecordsState
  <2>2. engine' # "legacy"
    BY <1>3, RecordStateFollowed
  <2>. QED  BY <2>1, <2>2
<1>. QED  BY <1>1, <1>2, <1>3

LEMMA SubscriptionArrives ==
  ASSUME TimelineInvariant, Subscription
  PROVE  TimelineParts'
<1>1. TypeInvariant /\ LegacyCalls /\ MovesArrive /\ Exact /\ OddIsFirst
  BY DEF TimelineInvariant, ShownInvariant
<1>2. /\ Carried /\ Still /\ stack' = stack /\ tracked' = tracked /\ state' = state
      /\ engine = "legacy" => LegacySubscription
      /\ engine # "legacy" => IF Muted THEN UNCHANGED timeline ELSE RecordState
  BY <1>1, SubscriptionStep
<1>3. recording' = recording /\ meddled' = meddled
  BY DEF Subscription, flags
<1>4. engine = "legacy" => engine' = "legacy"
  BY <1>2 DEF LegacySubscription, Look, RecordChange
<1>5. Exact' /\ OddIsFirst' /\ (engine' = "legacy" => engine = "legacy")
  BY <1>1, <1>2, <1>3, <1>4, JournalFollows
<1>6. LegacyCalls'
  BY <1>1, <1>2, <1>3, <1>5, LegacySame
<1>7. MovesArrive'
  BY <1>1, <1>2, <1>3, ArrivingSame
<1>. QED  BY <1>5, <1>6, <1>7 DEF TimelineParts

LEMMA ReturnArrives ==
  ASSUME TimelineInvariant, Return
  PROVE  TimelineParts'
<1>1. TypeInvariant /\ LegacyCalls /\ MovesArrive /\ Exact /\ OddIsFirst
  BY DEF TimelineInvariant, ShownInvariant
<1>2. /\ Carried /\ Still /\ stack' = stack /\ tracked' = tracked /\ state' = state
      /\ UNCHANGED timeline
  BY <1>1, ReturnStep
<1>3. recording' = recording /\ meddled' = meddled
  BY DEF Return, flags
<1>4. Exact' /\ OddIsFirst' /\ (engine' = "legacy" => engine = "legacy")
  BY <1>1, <1>2, <1>3, JournalUnchanged
<1>5. LegacyCalls'
  BY <1>1, <1>2, <1>3, <1>4, LegacySame
<1>6. MovesArrive'
  BY <1>1, <1>2, <1>3, ArrivingSame
<1>. QED  BY <1>4, <1>5, <1>6 DEF TimelineParts

LEMMA EndWriteArrives ==
  ASSUME TimelineInvariant, EndWrite
  PROVE  TimelineParts'
<1>1. TypeInvariant /\ LegacyCalls /\ MovesArrive /\ Exact /\ OddIsFirst
  BY DEF TimelineInvariant, ShownInvariant
<1>2. /\ Carried /\ Still /\ UNCHANGED timeline
      /\ recording' = recording /\ meddled' = meddled
  BY <1>1, EndWriteStep
<1>3. Pops /\ tracked' = tracked /\ state' = state
  BY <1>1, ThroughFacts DEF EndWrite
<1>4. Exact' /\ OddIsFirst' /\ (engine' = "legacy" => engine = "legacy")
  BY <1>1, <1>2, <1>3, JournalUnchanged
<1>5. LegacyCalls'
  BY <1>1, <1>2, <1>3, <1>4, LegacyPop
<1>6. MovesArrive'
  BY <1>1, <1>2, <1>3, ArrivingSame
<1>. QED  BY <1>4, <1>5, <1>6 DEF TimelineParts

LEMMA EndSetStateArrives ==
  ASSUME TimelineInvariant, EndSetState
  PROVE  TimelineParts'
<1>1. TypeInvariant /\ LegacyCalls /\ MovesArrive /\ Exact /\ OddIsFirst
  BY DEF TimelineInvariant, ShownInvariant
<1>2. Carried /\ Still /\ SetStateRecords /\ meddled' = meddled
  BY <1>1, EndSetStateStep
<1>3. Pops /\ tracked' = tracked /\ state' = state /\ Top.kind = "setState"
  BY <1>1, ThroughFacts DEF EndSetState
<1>4. \/ UNCHANGED timeline
      \/ engine' = "legacy" /\ engine = "legacy"
      \/ engine # "legacy" /\ RecordState
  BY <1>2 DEF SetStateRecords, LegacyRecords, Look, RecordChange
<1>5. Exact' /\ OddIsFirst' /\ (engine' = "legacy" => engine = "legacy")
  BY <1>1, <1>2, <1>3, <1>4, JournalFollows
<1>6. LegacyCalls'
  BY <1>1, <1>3, <1>5, LegacyPop
<1>7. MovesArrive'
  BY <1>1, <1>2, <1>3, ArrivingSame
<1>. QED  BY <1>5, <1>6, <1>7 DEF TimelineParts

LEMMA EndHydrateArrives ==
  ASSUME TimelineInvariant, EndHydrate
  PROVE  TimelineParts'
<1>1. TypeInvariant /\ LegacyCalls /\ MovesArrive /\ Exact /\ OddIsFirst
  BY DEF TimelineInvariant, ShownInvariant
<1>2. /\ TypeInvariant' /\ Carried /\ Still /\ ~traveling /\ Restart
  BY <1>1, EndHydrateStep
<1>3. Pops /\ tracked' = tracked /\ state' = state /\ Top.kind = "hydrate"
  BY <1>1, ThroughFacts DEF EndHydrate
<1>4. /\ engine' = engine
      /\ engine # "legacy" => entries' = <<>> /\ position' = 0
  BY <1>2 DEF Restart, Look
<1>5. TimelineOK'
  BY <1>2, TypePartsNext DEF TypeInvariant
<1>6. Exact' /\ OddIsFirst'
  <2>1. CASE engine = "legacy"
    BY <1>1, <1>3, <1>4, <2>1, JournalKept
  <2>2. CASE engine # "legacy"
    BY <1>3, <1>4, <1>5, <2>2, JournalEmpty
  <2>. QED  BY <2>1, <2>2
<1>7. LegacyCalls'
  BY <1>1, <1>3, <1>4, LegacyPop
<1>8. MovesArrive'
  BY <1>1, <1>2, <1>3, ArrivingSame
<1>. QED  BY <1>6, <1>7, <1>8 DEF TimelineParts

\* A move of a journal arrives.
LEMMA JournalArrives ==
  ASSUME TypeInvariant, MovesArrive, Exact, OddIsFirst, EndMove, engine = "journal"
  PROVE  Exact' /\ OddIsFirst'
<1>1. /\ TimelineOK /\ CallsOK /\ MovesHaveRoom
      /\ stack # <<>> => Len(stack) \in DOMAIN stack /\ Top = stack[Len(stack)]
  BY Parts
<1>2. /\ Pops /\ Moving(Top) /\ Top.at # "refused" /\ Top \in CallsOf(tracked)
      /\ tracked' = tracked /\ engine' = engine /\ entries' = entries /\ Arrive
      /\ meddled' = (meddled /\ engine = "journal")
  BY EndMoveStep
<1>3. Len(stack) \in DOMAIN stack /\ Top = stack[Len(stack)]
  BY <1>1, <1>2 DEF Pops
<1>4. /\ position' = IF Top.kind = "undo" THEN position - 1 ELSE position + 1
      /\ present' = Projected(state)
  BY <1>2 DEF Arrive
<1>5. PICK patches : patches = IF Top.kind = "undo" THEN entries[position].inverse
                               ELSE entries[position + 1].patches
  OBVIOUS
<1>6. /\ IF Top.kind = "undo" THEN position > 0 ELSE position < Len(entries)
      /\ ~meddled => Projected(state) = Top.target
      /\ OddKeys(Projected(state)) \subseteq OddKeys(Top.target)
      /\ Top.target = Patched(present, patches)
  BY <1>1, <1>2, <1>3, <1>5 DEF MovesHaveRoom, MovesArrive, Moving
<1>7. Len(entries) \in Nat /\ position \in 0 .. Len(entries)
      /\ \A i \in 1 .. Len(entries) : entries[i] \in EntriesOf(tracked)
  BY <1>1, LenProperties, ElementOfSeq DEF TimelineOK
<1>8. Exact'
  <2>. SUFFICES ASSUME ~meddled
       PROVE  \E line : IsLine(line, entries, tracked) /\ line[position'] = present'
    BY <1>2, ExactParts
  <2>1. PICK line : IsLine(line, entries, tracked) /\ line[position] = present
    BY ExactParts
  <2>2. \A i \in 1 .. Len(entries) :
          /\ line[i - 1] = Patched(line[i], entries[i].inverse)
          /\ line[i] = Patched(line[i - 1], entries[i].patches)
    BY <2>1 DEF IsLine
  <2>3. CASE Top.kind = "undo"
    <3>1. position \in 1 .. Len(entries)
      BY <1>6, <1>7, <2>3
    <3>2. line[position - 1] = Patched(present, patches)
      BY <1>5, <2>1, <2>2, <2>3, <3>1
    <3>. QED  BY <1>4, <1>6, <2>1, <2>3, <3>2
  <2>4. CASE Top.kind # "undo"
    <3>1. position + 1 \in 1 .. Len(entries) /\ (position + 1) - 1 = position
      BY <1>6, <1>7, <2>4
    <3>2. line[position + 1] = Patched(present, patches)
      BY <1>5, <2>1, <2>2, <2>4, <3>1
    <3>. QED  BY <1>4, <1>6, <2>1, <2>4, <3>2
  <2>. QED  BY <2>3, <2>4
<1>9. OddIsFirst'
  <2>. SUFFICES ASSUME ~Whole
       PROVE  /\ OddEntries(entries)
              /\ position' > 0 => Compatible(present')
              /\ position' = 0 /\ entries # <<>> =>
                   OddKeys(present') \subseteq DOMAIN entries[1].patches
    BY <1>2, OddParts DEF Whole
  <2>1. /\ OddEntries(entries)
        /\ position > 0 => Compatible(present)
        /\ position = 0 /\ entries # <<>> =>
             OddKeys(present) \subseteq DOMAIN entries[1].patches
    BY OddParts
  <2>2. /\ patches \in PatchesOf(tracked)
        /\ present \in SnapshotsOf(tracked) /\ DOMAIN present = tracked
    BY <1>1, <1>5, <1>6, <1>7 DEF EntriesOf, TimelineOK, SnapshotsOf
  <2>3. /\ DOMAIN Top.target = tracked
        /\ \A k \in tracked : Top.target[k] = IF k \in DOMAIN patches THEN patches[k]
                                              ELSE present[k]
    BY <1>6, <2>2 DEF Patched
  <2>4. Compatible(present') <=> OddKeys(present') = {}
    BY DEF Compatible, OddKeys
  <2>5. CASE Top.kind = "undo"
    <3>1. /\ position \in 1 .. Len(entries) /\ entries # <<>> /\ Compatible(present)
          /\ patches = entries[position].inverse
          /\ position > 1 => Compatible(patches)
          /\ position = 1 => DOMAIN patches = DOMAIN entries[1].patches
      BY <1>5, <1>6, <1>7, <2>1, <2>5 DEF OddEntries
    <3>2. OddKeys(Top.target) \subseteq DOMAIN patches
      BY <2>2, <2>3, <3>1 DEF OddKeys, Compatible
    <3>3. Compatible(patches) => OddKeys(Top.target) = {}
      BY <2>2, <2>3, <3>1 DEF OddKeys, Compatible
    <3>. QED  BY <1>4, <1>6, <1>7, <2>1, <2>4, <2>5, <3>1, <3>2, <3>3
  <2>6. CASE Top.kind # "undo"
    <3>1. /\ position + 1 \in 1 .. Len(entries) /\ entries # <<>>
          /\ patches = entries[position + 1].patches /\ Compatible(patches)
          /\ position = 0 => patches = entries[1].patches
      BY <1>5, <1>6, <1>7, <2>1, <2>6 DEF OddEntries
    <3>2. OddKeys(present) \subseteq DOMAIN patches
      BY <1>7, <2>1, <3>1 DEF OddKeys, Compatible
    <3>3. OddKeys(Top.target) = {}
      BY <2>2, <2>3, <3>1, <3>2 DEF OddKeys, Compatible
    <3>. QED  BY <1>4, <1>6, <1>7, <2>1, <2>4, <2>6, <3>3
  <2>. QED  BY <2>5, <2>6
<1>. QED  BY <1>8, <1>9

LEMMA EndMoveArrives ==
  ASSUME TimelineInvariant, EndMove
  PROVE  TimelineParts'
<1>1. TypeInvariant /\ LegacyCalls /\ MovesArrive /\ Exact /\ OddIsFirst
  BY DEF TimelineInvariant, ShownInvariant
<1>2. /\ Pops /\ Moving(Top) /\ (\A i \in DOMAIN stack' : ~Moving(stack'[i]))
      /\ tracked' = tracked /\ engine' = engine /\ recording' = recording
  BY <1>1, EndMoveStep
<1>3. LegacyCalls'
  BY <1>1, <1>2, LegacyPop
<1>4. MovesArrive'
  BY <1>2, ArrivingNone
<1>5. Exact' /\ OddIsFirst'
  <2>1. CASE engine = "journal"
    BY <1>1, <2>1, JournalArrives
  <2>2. CASE engine # "journal"
    BY <1>1, <1>2, <2>2, JournalKept
  <2>. QED  BY <2>1, <2>2
<1>. QED  BY <1>3, <1>4, <1>5 DEF TimelineParts

LEMMA FailMoveArrives ==
  ASSUME TimelineInvariant, FailMove
  PROVE  TimelineParts'
<1>1. TypeInvariant /\ LegacyCalls /\ MovesArrive /\ Exact /\ OddIsFirst
  BY DEF TimelineInvariant, ShownInvariant
<1>2. /\ Pops /\ Moving(Top) /\ (\A i \in DOMAIN stack' : ~Moving(stack'[i]))
      /\ tracked' = tracked /\ engine' = engine /\ entries' = entries
      /\ position' = position /\ present' = present /\ recording' = recording
      /\ meddled' = (meddled /\ engine = "journal")
  BY <1>1, FailMoveStep
<1>3. LegacyCalls'
  BY <1>1, <1>2, LegacyPop
<1>4. MovesArrive'
  BY <1>2, ArrivingNone
<1>5. Exact' /\ OddIsFirst'
  <2>1. CASE engine = "journal"
    <3>1. meddled => meddled'
      BY <1>2, <2>1
    <3>. QED  BY <1>1, <1>2, <3>1, JournalKept
  <2>2. CASE engine # "journal"
    BY <1>1, <1>2, <2>2, JournalKept
  <2>. QED  BY <2>1, <2>2
<1>. QED  BY <1>3, <1>4, <1>5 DEF TimelineParts

LEMMA StutterArrives ==
  ASSUME TimelineInvariant, UNCHANGED vars
  PROVE  TimelineParts'
<1>1. TypeInvariant /\ LegacyCalls /\ MovesArrive /\ Exact /\ OddIsFirst
  BY DEF TimelineInvariant, ShownInvariant
<1>2. /\ Carried /\ Still /\ tracked' = tracked /\ state' = state /\ UNCHANGED timeline
      /\ recording' = recording /\ stack' = stack /\ meddled' = meddled
  BY <1>1, StutterStep
<1>3. Exact' /\ OddIsFirst' /\ (engine' = "legacy" => engine = "legacy")
  BY <1>1, <1>2, JournalUnchanged
<1>4. LegacyCalls'
  BY <1>1, <1>2, <1>3, LegacySame
<1>5. MovesArrive'
  BY <1>1, <1>2, ArrivingSame
<1>. QED  BY <1>3, <1>4, <1>5 DEF TimelineParts

LEMMA TimelineNext ==
  ASSUME NoLoss, NoNesting, TimelineInvariant, [Next]_vars
  PROVE  TimelineInvariant'
<1>1. ShownInvariant'
  BY ShownNext DEF TimelineInvariant
<1>2. ASSUME NEW k \in Keys, NEW v \in Values, WriteDirectly(k, v) PROVE TimelineParts'
  BY <1>2, WriteArrives
<1>3. ASSUME NEW k \in Keys, NEW v \in Values, SetState(k, v) PROVE TimelineParts'
  BY <1>3, SetStateArrives
<1>4. ASSUME NEW k \in Keys, NEW v \in Values, Hydrate(k, v) PROVE TimelineParts'
  BY <1>4, HydrateArrives
<1>5. ASSUME Undo \/ Redo \/ LegacyUndo \/ LegacyRedo PROVE TimelineParts'
  BY <1>5, MoveArrives
<1>6. ASSUME Clear PROVE TimelineParts'
  BY <1>6, ClearArrives
<1>7. ASSUME Drain PROVE TimelineParts'
  BY <1>7, DrainArrives
<1>8. ASSUME Subscription PROVE TimelineParts'
  BY <1>8, SubscriptionArrives
<1>9. ASSUME Return PROVE TimelineParts'
  BY <1>9, ReturnArrives
<1>10. ASSUME EndWrite PROVE TimelineParts'
  BY <1>10, EndWriteArrives
<1>11. ASSUME EndSetState PROVE TimelineParts'
  BY <1>11, EndSetStateArrives
<1>12. ASSUME EndHydrate PROVE TimelineParts'
  BY <1>12, EndHydrateArrives
<1>13. ASSUME EndMove PROVE TimelineParts'
  BY <1>13, EndMoveArrives
<1>14. ASSUME FailMove PROVE TimelineParts'
  BY <1>14, FailMoveArrives
<1>15. ASSUME UNCHANGED vars PROVE TimelineParts'
  BY <1>15, StutterArrives
<1>16. TimelineParts'
  BY <1>2, <1>3, <1>4, <1>5, <1>6, <1>7, <1>8, <1>9, <1>10, <1>11, <1>12, <1>13,
     <1>14, <1>15 DEF Next
<1>. QED  BY <1>1, <1>16 DEF TimelineInvariant, TimelineParts

LEMMA TimelineInit ==
  ASSUME Init
  PROVE  TimelineInvariant
<1>1. ShownInvariant
  BY ShownInit
<1>2. TimelineOK
  BY <1>1, Parts DEF ShownInvariant
<1>3. stack = <<>> /\ DOMAIN stack = {} /\ entries = <<>> /\ position = 0
  BY DEF Init
<1>4. LegacyCalls
  BY <1>3 DEF LegacyCalls
<1>5. MovesArrive
  BY <1>3 DEF MovesArrive
<1>6. Exact
  <2>1. PICK line : line = [i \in 0 .. 0 |-> present]
    OBVIOUS
  <2>2. IsLine(line, entries, tracked) /\ line[position] = present
    BY <1>2, <1>3, <2>1 DEF IsLine, TimelineOK
  <2>. QED  BY <2>2, ExactParts
<1>7. OddIsFirst
  <2>1. OddEntries(entries)
    BY <1>3 DEF OddEntries
  <2>. QED  BY <1>3, <2>1, OddParts
<1>. QED  BY <1>1, <1>4, <1>5, <1>6, <1>7 DEF TimelineInvariant

-----------------------------------------------------------------------------
(* What is seen of the timeline.                                           *)

CallOf(kind, calling) == CHOOSE c \in Range(calling) : c.kind = kind

PastSeen(e, calling, before, list) ==
  IF e = "journal" THEN before
  ELSE IF \E i \in DOMAIN calling : calling[i].kind \in {"undo"}
  THEN Append(list, CallOf("undo", calling).target)
  ELSE IF \E i \in DOMAIN calling : calling[i].kind \in {"redo"} THEN Front(list)
  ELSE list

FutureSeen(e, calling, after, list) ==
  IF e = "journal" THEN after
  ELSE IF \E i \in DOMAIN calling : calling[i].kind \in {"redo"}
  THEN Append(list, CallOf("redo", calling).target)
  ELSE IF \E i \in DOMAIN calling : calling[i].kind \in {"undo"} THEN Front(list)
  ELSE list

\* While a call that moves is under way.
PastAt(e, call, before, list) ==
  IF e = "journal" THEN before
  ELSE IF call.kind = "undo" THEN Append(list, call.target) ELSE Front(list)

FutureAt(e, call, after, list) ==
  IF e = "journal" THEN after
  ELSE IF call.kind = "undo" THEN Front(list) ELSE Append(list, call.target)

OnlyMove(calling, i) ==
  /\ i \in DOMAIN calling /\ Moving(calling[i])
  /\ \A j \in DOMAIN calling : Moving(calling[j]) => j = i

PresentSeen(e, calling, s) ==
  IF e = "legacy" /\ calling # <<>> /\ Head(calling).kind \in {"setState", "undo", "redo"}
  THEN Head(calling).before
  ELSE s

LEMMA Seen ==
  /\ PastShown = PastSeen(engine, stack, Before, past)
  /\ FutureShown = FutureSeen(engine, stack, After, future)
  /\ PresentShown = PresentSeen(engine, stack, present)
  /\ PastShown' = PastSeen(engine', stack', Before', past')
  /\ FutureShown' = FutureSeen(engine', stack', After', future')
  /\ PresentShown' = PresentSeen(engine', stack', present')
BY Zenon DEF PastShown, FutureShown, PresentShown, UnderWay, PastSeen, FutureSeen, PresentSeen,
             CallOf

LEMMA BeforeNext ==
  /\ Before' = PastOf(present', entries', position')
  /\ After' = FutureOf(present', entries', position')
BY DEF Before, After, PastOf, FutureOf

LEMMA OnlyCall ==
  ASSUME NEW calling, NEW i \in DOMAIN calling, NEW kind, calling[i].kind = kind,
         \A j \in DOMAIN calling : calling[j].kind = kind => j = i
  PROVE  CallOf(kind, calling) = calling[i]
<1>1. /\ calling[i] \in Range(calling)
      /\ \A c \in Range(calling) : c.kind = kind => c = calling[i]
  BY DEF Range
<1>. QED  BY <1>1 DEF CallOf

LEMMA SeenAtRest ==
  ASSUME NEW e, NEW calling, NEW states, NEW list,
         \A i \in DOMAIN calling : ~Moving(calling[i])
  PROVE  /\ PastSeen(e, calling, states, list) = IF e = "journal" THEN states ELSE list
         /\ FutureSeen(e, calling, states, list) = IF e = "journal" THEN states ELSE list
BY DEF PastSeen, FutureSeen, Moving

LEMMA SeenMoving ==
  ASSUME NEW e, NEW calling, NEW states, NEW list, NEW i, OnlyMove(calling, i)
  PROVE  /\ PastSeen(e, calling, states, list) = PastAt(e, calling[i], states, list)
         /\ FutureSeen(e, calling, states, list) = FutureAt(e, calling[i], states, list)
<1>. /\ i \in DOMAIN calling /\ Moving(calling[i])
     /\ \A j \in DOMAIN calling : Moving(calling[j]) => j = i
  BY DEF OnlyMove
<1>1. CASE calling[i].kind = "undo"
  <2>1. CallOf("undo", calling) = calling[i]
    BY <1>1, OnlyCall DEF Moving
  <2>2. \A j \in DOMAIN calling : calling[j].kind \notin {"redo"}
    BY <1>1 DEF Moving
  <2>. QED  BY <1>1, <2>1, <2>2 DEF PastSeen, FutureSeen, PastAt, FutureAt
<1>2. CASE calling[i].kind = "redo"
  <2>1. CallOf("redo", calling) = calling[i]
    BY <1>2, OnlyCall DEF Moving
  <2>2. \A j \in DOMAIN calling : calling[j].kind \notin {"undo"}
    BY <1>2 DEF Moving
  <2>. QED  BY <1>2, <2>1, <2>2 DEF PastSeen, FutureSeen, PastAt, FutureAt
<1>. QED  BY <1>1, <1>2 DEF Moving

LEMMA SeenPresent ==
  ASSUME NEW e, NEW ks, NEW calling \in Seq(CallsOf(ks)), NEW s
  PROVE  PresentSeen(e, calling, s) =
           IF e = "legacy" /\ calling # <<>> /\ calling[1].kind \in {"setState", "undo", "redo"}
           THEN calling[1].before
           ELSE s
<1>1. calling # <<>> => Head(calling) = calling[1]
  OBVIOUS
<1>. QED  BY <1>1 DEF PresentSeen

LEMMA ShownNow ==
  ASSUME TypeInvariant
  PROVE  /\ ~traveling =>
              /\ PastShown = IF engine = "journal" THEN Before ELSE past
              /\ FutureShown = IF engine = "journal" THEN After ELSE future
         /\ \A i \in DOMAIN stack : Moving(stack[i]) =>
              /\ PastShown = PastAt(engine, stack[i], Before, past)
              /\ FutureShown = FutureAt(engine, stack[i], After, future)
         /\ PresentShown = IF /\ engine = "legacy" /\ stack # <<>>
                              /\ stack[1].kind \in {"setState", "undo", "redo"}
                           THEN stack[1].before ELSE present
<1>1. CallsOK /\ CallsNest
  BY Parts
<1>2. ASSUME ~traveling
      PROVE  /\ PastShown = IF engine = "journal" THEN Before ELSE past
             /\ FutureShown = IF engine = "journal" THEN After ELSE future
  <2>1. \A i \in DOMAIN stack : ~Moving(stack[i])
    BY <1>1, <1>2 DEF CallsNest, UnderWay, Moving
  <2>2. /\ PastSeen(engine, stack, Before, past) = IF engine = "journal" THEN Before ELSE past
        /\ FutureSeen(engine, stack, After, future) = IF engine = "journal" THEN After ELSE future
    BY <2>1, SeenAtRest
  <2>. QED  BY <2>2, Seen
<1>3. ASSUME NEW i \in DOMAIN stack, Moving(stack[i])
      PROVE  /\ PastShown = PastAt(engine, stack[i], Before, past)
             /\ FutureShown = FutureAt(engine, stack[i], After, future)
  <2>1. OnlyMove(stack, i)
    BY <1>1, <1>3 DEF CallsNest, OnlyMove, Moving
  <2>2. /\ PastSeen(engine, stack, Before, past) = PastAt(engine, stack[i], Before, past)
        /\ FutureSeen(engine, stack, After, future) = FutureAt(engine, stack[i], After, future)
    BY <2>1, SeenMoving
  <2>. QED  BY <2>2, Seen
<1>4. PresentShown = IF /\ engine = "legacy" /\ stack # <<>>
                        /\ stack[1].kind \in {"setState", "undo", "redo"}
                     THEN stack[1].before ELSE present
  BY <1>1, SeenPresent, Seen DEF CallsOK
<1>. QED  BY <1>2, <1>3, <1>4

LEMMA ShownThen ==
  ASSUME TypeInvariant'
  PROVE  /\ ~traveling' =>
              /\ PastShown' = IF engine' = "journal" THEN Before' ELSE past'
              /\ FutureShown' = IF engine' = "journal" THEN After' ELSE future'
         /\ \A i \in DOMAIN stack' : Moving(stack'[i]) =>
              /\ PastShown' = PastAt(engine', stack'[i], Before', past')
              /\ FutureShown' = FutureAt(engine', stack'[i], After', future')
         /\ PresentShown' = IF /\ engine' = "legacy" /\ stack' # <<>>
                               /\ stack'[1].kind \in {"setState", "undo", "redo"}
                            THEN stack'[1].before ELSE present'
<1>1. CallsOK' /\ CallsNest'
  BY TypePartsNext DEF TypeInvariant
<1>2. ASSUME ~traveling'
      PROVE  /\ PastShown' = IF engine' = "journal" THEN Before' ELSE past'
             /\ FutureShown' = IF engine' = "journal" THEN After' ELSE future'
  <2>1. \A i \in DOMAIN stack' : ~Moving(stack'[i])
    BY <1>1, <1>2 DEF CallsNest, UnderWay, Moving
  <2>2. /\ PastSeen(engine', stack', Before', past') =
             IF engine' = "journal" THEN Before' ELSE past'
        /\ FutureSeen(engine', stack', After', future') =
             IF engine' = "journal" THEN After' ELSE future'
    BY <2>1, SeenAtRest
  <2>. QED  BY <2>2, Seen
<1>3. ASSUME NEW i \in DOMAIN stack', Moving(stack'[i])
      PROVE  /\ PastShown' = PastAt(engine', stack'[i], Before', past')
             /\ FutureShown' = FutureAt(engine', stack'[i], After', future')
  <2>1. OnlyMove(stack', i)
    BY <1>1, <1>3 DEF CallsNest, OnlyMove, Moving
  <2>2. /\ PastSeen(engine', stack', Before', past') = PastAt(engine', stack'[i], Before', past')
        /\ FutureSeen(engine', stack', After', future') =
             FutureAt(engine', stack'[i], After', future')
    BY <2>1, SeenMoving
  <2>. QED  BY <2>2, Seen
<1>4. PresentShown' = IF /\ engine' = "legacy" /\ stack' # <<>>
                         /\ stack'[1].kind \in {"setState", "undo", "redo"}
                      THEN stack'[1].before ELSE present'
  BY <1>1, SeenPresent, Seen DEF CallsOK
<1>. QED  BY <1>2, <1>3, <1>4

\* A timeline that stands still is seen to.
LEMMA ListsKept ==
  ASSUME TypeInvariant, TypeInvariant', Carried, traveling' = traveling,
         engine' = engine, entries' = entries, position' = position,
         engine = "journal" => present' = present, past' = past, future' = future
  PROVE  PastShown' = PastShown /\ FutureShown' = FutureShown
<1>1. CASE engine = "journal"
  <2>1. Before' = Before /\ After' = After
    BY <1>1, BeforeNext DEF Before, After, PastOf, FutureOf
  <2>. QED  BY <1>1, <2>1, Seen DEF PastSeen, FutureSeen
<1>2. CASE engine # "journal" /\ ~traveling
  BY <1>2, ShownNow, ShownThen
<1>3. CASE engine # "journal" /\ traveling
  <2>1. PICK i \in DOMAIN stack' : Moving(stack'[i])
    <3>1. CallsNest'
      BY DEF TypeInvariant
    <3>2. traveling'
      BY <1>3
    <3>3. UnderWay({"undo", "redo"})'
      BY <3>1, <3>2, Zenon DEF CallsNest
    <3>. QED  BY <3>3 DEF UnderWay, Moving
  <2>2. i \in DOMAIN stack /\ Moving(stack[i]) /\ stack'[i].kind = stack[i].kind
        /\ stack'[i].target = stack[i].target
    BY <2>1 DEF Carried, Moving
  <2>3. /\ PastShown = PastAt(engine, stack[i], Before, past)
        /\ FutureShown = FutureAt(engine, stack[i], After, future)
    BY <2>2, ShownNow
  <2>4. /\ PastShown' = PastAt(engine', stack'[i], Before', past')
        /\ FutureShown' = FutureAt(engine', stack'[i], After', future')
    BY <2>1, ShownThen
  <2>. QED  BY <1>3, <2>2, <2>3, <2>4 DEF PastAt, FutureAt
<1>. QED  BY <1>1, <1>2, <1>3

\* Nothing that the timeline promises is about values.
LEMMA Inside ==
  ASSUME TypeInvariant'
  PROVE  /\ {PresentShown', Projected(state)'} \subseteq UNION {[ks -> Values] : ks \in SUBSET Keys}
         /\ meddled' \in BOOLEAN
         /\ Suppressed' \in BOOLEAN
<1>1. TimelineOK' /\ CallsOK'
  BY TypePartsNext DEF TypeInvariant
<1>2. tracked' \subseteq Keys /\ state' \in SnapshotsOf(Keys)
  BY <1>1 DEF CallsOK
<1>3. Projected(state)' \in SnapshotsOf(tracked')
  BY <1>2 DEF Projected, SnapshotsOf
<1>4. PresentShown' \in SnapshotsOf(tracked')
  <2>1. present' \in SnapshotsOf(tracked')
    BY <1>1 DEF TimelineOK
  <2>2. stack' # <<>> => stack'[1].before \in SnapshotsOf(tracked')
    <3>1. stack' \in Seq(CallsOf(tracked'))
      BY <1>1 DEF CallsOK
    <3>2. stack' # <<>> => stack'[1] \in CallsOf(tracked')
      BY <3>1
    <3>. QED  BY <3>2 DEF CallsOf
  <2>. QED  BY <2>1, <2>2, ShownThen
<1>5. meddled' \in BOOLEAN
  BY <1>1 DEF CallsOK
<1>6. Suppressed' \in BOOLEAN
  BY DEF Suppressed, UnderWay
<1>. QED  BY <1>2, <1>3, <1>4, <1>5, <1>6 DEF SnapshotsOf

-----------------------------------------------------------------------------
(* Every step is one of the timeline's.                                    *)

SeesStep ==
  \/ Timeline!Record \/ Timeline!Undo \/ Timeline!Redo \/ Timeline!MeddledMove
  \/ Timeline!Clear \/ Timeline!Absorb \/ Timeline!Cut \/ Timeline!Observe

LEMMA SeesRecord ==
  ASSUME PresentShown' # PresentShown, FutureShown' = <<>>,
         PastShown' = Timeline!Newest(Append(PastShown, PresentShown))
  PROVE  SeesStep
BY DEF SeesStep, Timeline!Record

LEMMA SeesNothing ==
  ASSUME PastShown' = PastShown, FutureShown' = FutureShown, PresentShown' = PresentShown
  PROVE  SeesStep
BY DEF SeesStep, Timeline!Observe, Timeline!lists

LEMMA SeesClear ==
  ASSUME PastShown' = <<>>, FutureShown' = <<>>
  PROVE  SeesStep
BY DEF SeesStep, Timeline!Clear

LEMMA SeesAbsorb ==
  ASSUME PastShown' = PastShown, FutureShown' = FutureShown, Suppressed
  PROVE  SeesStep
BY DEF SeesStep, Timeline!Absorb, Timeline!lists

LEMMA SeesCut ==
  ASSUME PastShown' = PastShown, FutureShown' = <<>>, PresentShown' = PresentShown,
         Projected(state)' # PresentShown
  PROVE  SeesStep
BY DEF SeesStep, Timeline!Cut

\* A change is recorded as patches.
LEMMA PatchesSeen ==
  ASSUME TypeInvariant, TypeInvariant', ~traveling, ~traveling', engine = "journal",
         tracked' = tracked, NEW s \in SnapshotsOf(tracked), RecordPatches(s), s # present
  PROVE  SeesStep
<1>1. TimelineOK
  BY Parts
<1>2. /\ engine' = "journal" /\ present' = s /\ position' = Len(entries')
      /\ position \in 0 .. Len(entries) /\ position <= Limit
  BY <1>1, RecordPatchesFacts
<1>3. PICK grown : Recorded(entries', grown, entries, position, Entry(present, s), tracked)
  BY <1>1, RecordPatchesFacts
<1>4. PICK next : next = entries'
  OBVIOUS
<1>5. Recorded(next, grown, entries, position, Entry(present, s), tracked)
  BY <1>3, <1>4
<1>6. /\ PastOf(s, next, Len(next)) = Newest(Append(PastOf(present, entries, position), present))
      /\ FutureOf(s, next, Len(next)) = <<>>
  BY <1>1, <1>2, <1>5, RecordMaterializes DEF TimelineOK
<1>7. PICK before \in Seq(SnapshotsOf(tracked)) :
        before = Before /\ before = PastOf(present, entries, position) /\ Len(before) = position
  BY <1>1, BeforeFacts
<1>8. Newest(Append(before, present)) = Timeline!Newest(Append(before, present))
  BY <1>1, <1>2, <1>7, GrownFacts DEF TimelineOK
<1>9. Before' = Timeline!Newest(Append(before, present)) /\ After' = <<>>
  BY <1>2, <1>4, <1>6, <1>7, <1>8, BeforeNext
<1>10. PastShown = before /\ PresentShown = present
  BY <1>7, ShownNow
<1>11. PastShown' = Before' /\ FutureShown' = After' /\ PresentShown' = s
  BY <1>2, ShownThen
<1>. QED  BY <1>9, <1>10, <1>11, SeesRecord

\* A change is recorded as a snapshot.
LEMMA GrowsSeen ==
  ASSUME TypeInvariant, TypeInvariant', ~traveling', engine' # "journal",
         tracked' = tracked, NEW older \in Seq(SnapshotsOf(tracked)),
         Len(older) + Len(future) <= Limit, NEW s \in SnapshotsOf(tracked), NEW t,
         PastShown = older, PresentShown = s, Grows(older, s, t), PresentShown' = t, t # s
  PROVE  SeesStep
<1>1. TimelineOK
  BY Parts
<1>2. past' = Timeline!Newest(Append(older, s)) /\ future' = <<>>
  BY <1>1, GrowsFacts
<1>3. PastShown' = past' /\ FutureShown' = future'
  BY ShownThen
<1>. QED  BY <1>2, <1>3, SeesRecord

\* The change from patches to snapshots.
LEMMA SwitchSeen ==
  ASSUME TypeInvariant, TypeInvariant', ~traveling, ~traveling', engine = "journal",
         tracked' = tracked, NEW s \in SnapshotsOf(tracked), Switch(s),
         s # present \/ position = 0
  PROVE  SeesStep
<1>1. TimelineOK
  BY Parts
<1>2. engine' = "snapshots" /\ present' = s /\ Grows(Before, present, s)
  BY <1>1, SwitchFacts
<1>3. /\ Before \in Seq(SnapshotsOf(tracked)) /\ Len(Before) = position
      /\ position \in Nat /\ Len(entries) \in Nat
  BY <1>1, BeforeFacts
<1>4. PastShown = Before /\ PresentShown = present /\ PresentShown' = s
  BY <1>2, ShownNow, ShownThen
<1>5. Len(Before) + Len(future) <= Limit /\ future = <<>>
  <2>1. future = <<>> /\ Len(entries) <= Limit /\ position <= Len(entries) /\ Limit \in Nat
    BY <1>1, <1>3, HistoryAssumption DEF TimelineOK, Limited
  <2>. QED  BY <1>3, <2>1
<1>6. CASE s # present
  <2>1. present \in SnapshotsOf(tracked)
    BY <1>1 DEF TimelineOK
  <2>. QED  BY <1>2, <1>3, <1>4, <1>5, <1>6, <2>1, GrowsSeen
<1>7. CASE s = present /\ position = 0
  <2>1. past' = Before /\ future' = future
    BY <1>2, <1>7 DEF Grows
  <2>2. Before = <<>>
    BY <1>3, <1>7, EmptySeq
  <2>3. PastShown' = <<>> /\ FutureShown' = <<>>
    BY <1>2, <1>5, <2>1, <2>2, ShownThen
  <2>. QED  BY <2>3, SeesClear
<1>. QED  BY <1>6, <1>7

\* Nothing under way moves, and the timeline is as it was.
LEMMA TimelineUnseen ==
  ASSUME TypeInvariant, TypeInvariant', Carried, traveling' = traveling, UNCHANGED timeline,
         engine = "legacy" => PresentShown' = PresentShown
  PROVE  SeesStep
<1>1. /\ engine' = engine /\ entries' = entries /\ position' = position
      /\ present' = present /\ past' = past /\ future' = future
  BY DEF timeline, journal, snapshots
<1>2. PastShown' = PastShown /\ FutureShown' = FutureShown
  BY <1>1, ListsKept
<1>3. engine # "legacy" => PresentShown' = PresentShown
  BY <1>1, ShownNow, ShownThen
<1>. QED  BY <1>2, <1>3, SeesNothing

\* recordProjectedState and recordSnapshotState.  The state may be one that patches
\* cannot represent without having changed: the first, after a hydration.
LEMMA RecordStateSeen ==
  ASSUME TypeInvariant, TypeInvariant', OddIsFirst, engine # "legacy",
         ~(Whole /\ engine = "journal"), ~traveling, traveling' = traveling, Carried,
         tracked' = tracked, RecordState
  PROVE  SeesStep
<1>1. TimelineOK /\ Projected(state) \in SnapshotsOf(tracked)
  BY Parts
<1>2. PICK s \in SnapshotsOf(tracked) : s = Projected(state)
  BY <1>1
<1>3. /\ present' = s /\ engine' # "legacy"
      /\ \/ engine = "snapshots" /\ RecordSnapshot(past, s) /\ engine' = engine
         \/ engine = "journal" /\ ~Compatible(s) /\ Switch(s)
         \/ engine = "journal" /\ Compatible(s) /\ s # present /\ RecordPatches(s)
         \/ s = present /\ UNCHANGED timeline
  BY <1>1, <1>2, RecordStateFacts
<1>4. PresentShown = present /\ PresentShown' = s
  BY <1>3, ShownNow, ShownThen
<1>5. CASE engine = "snapshots" /\ RecordSnapshot(past, s) /\ engine' = engine
  <2>1. Grows(past, present, s)
    BY <1>1, <1>5, RecordSnapshotFacts
  <2>2. /\ past \in Seq(SnapshotsOf(tracked)) /\ present \in SnapshotsOf(tracked)
        /\ Len(past) + Len(future) <= Limit
    BY <1>1, <1>5 DEF TimelineOK, Limited
  <2>3. PastShown = past
    BY <1>5, ShownNow
  <2>4. CASE s # present
    BY <1>4, <1>5, <2>1, <2>2, <2>3, <2>4, GrowsSeen
  <2>5. CASE s = present
    <3>1. past' = past /\ future' = future
      BY <2>1, <2>5 DEF Grows
    <3>2. entries' = entries /\ position' = position
      BY <1>5 DEF RecordSnapshot, journal
    <3>3. PastShown' = PastShown /\ FutureShown' = FutureShown
      BY <1>5, <3>1, <3>2, ListsKept
    <3>. QED  BY <1>4, <2>5, <3>3, SeesNothing
  <2>. QED  BY <2>4, <2>5
<1>6. CASE engine = "journal" /\ ~Compatible(s) /\ Switch(s)
  <2>1. s # present \/ position = 0
    <3>1. ~Whole
      BY <1>6
    <3>2. position > 0 => Compatible(present)
      BY <1>6, <3>1, OddParts
    <3>3. position \in Nat
      BY <1>1, BeforeFacts
    <3>. QED  BY <1>6, <3>2, <3>3
  <2>. QED  BY <1>6, <2>1, SwitchSeen
<1>7. CASE engine = "journal" /\ s # present /\ RecordPatches(s)
  BY <1>7, PatchesSeen
<1>8. CASE s = present /\ UNCHANGED timeline
  BY <1>8, TimelineUnseen
<1>. QED  BY <1>3, <1>5, <1>6, <1>7, <1>8

\* When nobody waits to be called the legacy history has seen the store.
LEMMA LegacyLooks ==
  ASSUME Followed, engine = "legacy", waiting = <<>>
  PROVE  present = Projected(state)
BY DEF Followed, Awaited

\* A journal of the whole store, before it hears of a write.
LEMMA HearingFollows ==
  ASSUME TypeInvariant, Followed, Whole, engine = "journal", ~traveling, ~Suppressed,
         NEW k \in Keys, NEW v \in Values, Wrote(state', k, v), v # state[k],
         tracked' = tracked
  PROVE  /\ present = state /\ state' # present /\ Projected(state)' = state'
         /\ Projected(state)' # present
<1>1. CallsOK /\ CallsNest
  BY Parts
<1>2. ~Moved
  BY <1>1 DEF CallsNest, UnderWay, Moved, Moving
<1>3. present = Projected(state)
  BY <1>2 DEF Followed
<1>4. Projected(state) = state
  BY <1>1, ProjectedFacts DEF Whole, CallsOK
<1>5. Projected(state)' = state'
  <2>1. Projected(state)' = [j \in Keys |-> state'[j]]
    BY DEF Projected, Whole
  <2>2. [j \in Keys |-> state'[j]] = state'
    BY DEF Wrote, SnapshotsOf
  <2>. QED  BY <2>1, <2>2
<1>6. state'[k] # state[k]
  BY DEF Wrote
<1>. QED  BY <1>3, <1>4, <1>5, <1>6

\* beginSnapshotCompatibility cuts the states ahead before the change is recorded.
LEMMA BeginSeen ==
  ASSUME TypeInvariant, TypeInvariant', ~traveling, ~traveling', engine = "journal",
         tracked' = tracked, Begin, Projected(state)' # present
  PROVE  SeesStep
<1>1. TimelineOK
  BY Parts
<1>2. engine' = "snapshots" /\ present' = present /\ past' = Before /\ future' = <<>>
  BY <1>1, BeginFacts
<1>3. PastShown = Before /\ PresentShown = present
  BY ShownNow
<1>4. PastShown' = Before /\ FutureShown' = <<>> /\ PresentShown' = present
  BY <1>2, ShownThen
<1>. QED  BY <1>3, <1>4, SeesCut

\* The commit of a write.
LEMMA CommitsSeen ==
  ASSUME ShownInvariant, TypeInvariant', NEW k \in Keys, NEW v \in Values,
         Wrote(state', k, v), v # state[k], Commits(state'), tracked' = tracked, Carried,
         Hearing => state' \in SnapshotsOf(tracked), traveling' = traveling,
         engine = "legacy" /\ engine' = engine /\ present' = present =>
           PresentShown' = PresentShown
  PROVE  SeesStep
<1>1. TypeInvariant /\ Followed
  BY DEF ShownInvariant
<1>2. Hearing => /\ engine = "journal" /\ ~traveling /\ ~traveling' /\ state' # present
                 /\ Projected(state)' # present
  <2>. SUFFICES ASSUME Hearing
       PROVE  /\ engine = "journal" /\ ~traveling /\ ~traveling' /\ state' # present
              /\ Projected(state)' # present
    OBVIOUS
  <2>1. Whole /\ engine = "journal" /\ ~traveling /\ ~Suppressed
    BY DEF Hearing
  <2>2. ~traveling'
    BY <2>1
  <2>. QED  BY <1>1, <2>1, <2>2, HearingFollows
<1>3. CASE Hearing /\ RecordPatches(state')
  BY <1>1, <1>2, <1>3, PatchesSeen
<1>4. CASE Hearing /\ Switch(state')
  BY <1>1, <1>2, <1>4, SwitchSeen
<1>5. CASE Hearing /\ Begin
  BY <1>1, <1>2, <1>5, BeginSeen
<1>6. CASE UNCHANGED timeline
  <2>1. engine' = engine /\ present' = present
    BY <1>6 DEF timeline
  <2>. QED  BY <1>1, <1>6, <2>1, TimelineUnseen
<1>. QED  BY <1>3, <1>4, <1>5, <1>6 DEF Commits

LEMMA WriteSeen ==
  ASSUME TimelineInvariant, TypeInvariant', NEW k \in Keys, NEW v \in Values,
         WriteDirectly(k, v)
  PROVE  SeesStep
<1>1. ShownInvariant /\ TypeInvariant
  BY DEF TimelineInvariant, ShownInvariant
<1>2. CallsOK
  BY <1>1, Parts
<1>3. PICK call : call = Call("write")
  OBVIOUS
<1>4. /\ Pushes(call) /\ Carried /\ Wrote(state', k, v) /\ Commits(state')
      /\ Hearing => state' \in SnapshotsOf(tracked)
      /\ tracked' = tracked /\ traveling' = traveling /\ UserWrite(k, v)
  BY <1>1, <1>3, WriteDirectlyStep
<1>5. call.kind = "write" /\ v # state[k]
  BY <1>2, <1>3, <1>4, CallTyped DEF UserWrite
<1>6. engine = "legacy" /\ engine' = engine /\ present' = present =>
        PresentShown' = PresentShown
  <2>1. stack = <<>> => stack'[1] = call
    BY <1>4 DEF Pushes
  <2>2. stack # <<>> => stack'[1] = stack[1]
    BY <1>4 DEF Pushes
  <2>3. stack' # <<>>
    BY <1>4 DEF Pushes
  <2>. QED  BY <1>1, <1>5, <2>1, <2>2, <2>3, ShownNow, ShownThen
<1>. QED  BY <1>1, <1>4, <1>5, <1>6, CommitsSeen

LEMMA SetStateSeen ==
  ASSUME NoNesting, TimelineInvariant, TypeInvariant', NEW k \in Keys, NEW v \in Values,
         SetState(k, v)
  PROVE  SeesStep
<1>1. ShownInvariant /\ TypeInvariant /\ CallsRest /\ Followed
  BY DEF TimelineInvariant, ShownInvariant
<1>2. CallsOK
  BY <1>1, Parts
<1>3. PICK call : call = Call("setState")
  OBVIOUS
<1>4. /\ Pushes(call) /\ Carried /\ Wrote(state', k, v) /\ Commits(state')
      /\ Hearing => state' \in SnapshotsOf(tracked)
      /\ tracked' = tracked /\ traveling' = traveling /\ UserWrite(k, v) /\ LegacyNests
  BY <1>1, <1>3, SetStateStep
<1>5. call.kind = "setState" /\ call.before = Projected(state) /\ v # state[k]
  BY <1>2, <1>3, <1>4, CallTyped DEF UserWrite
<1>6. engine = "legacy" /\ engine' = engine /\ present' = present =>
        PresentShown' = PresentShown
  <2>. SUFFICES ASSUME engine = "legacy", engine' = engine PROVE PresentShown' = PresentShown
    OBVIOUS
  <2>1. stack = <<>>
    BY <1>4 DEF LegacyNests, NoNesting
  <2>2. stack' # <<>> /\ stack'[1] = call
    BY <1>4, <2>1 DEF Pushes
  <2>3. present = Projected(state)
    BY <1>1, <2>1, LegacyLooks DEF CallsRest
  <2>. QED  BY <1>1, <1>5, <2>1, <2>2, <2>3, ShownNow, ShownThen
<1>. QED  BY <1>1, <1>4, <1>5, <1>6, CommitsSeen

LEMMA HydrateSeen ==
  ASSUME TimelineInvariant, TypeInvariant', NEW k \in Keys, NEW v \in Values, Hydrate(k, v)
  PROVE  SeesStep
<1>1. ShownInvariant /\ TypeInvariant /\ Followed
  BY DEF TimelineInvariant, ShownInvariant
<1>2. CallsOK /\ CallsNest
  BY <1>1, Parts
<1>3. PICK call : call = Call("hydrate")
  OBVIOUS
<1>4. /\ Pushes(call) /\ Carried /\ stack = <<>> /\ ~traveling
      /\ Wrote(state', k, v) /\ v # state[k] /\ tracked' = tracked
      /\ UNCHANGED timeline \/ (Whole /\ engine = "journal" /\ Begin)
  BY <1>1, <1>3, HydrateStep
<1>5. traveling' = traveling
  BY DEF Hydrate
<1>6. call.kind = "hydrate"
  BY <1>2, <1>3, CallTyped
<1>7. CASE UNCHANGED timeline
  <2>1. engine' = engine /\ present' = present
    BY <1>7 DEF timeline
  <2>2. stack'[1] = call
    BY <1>4 DEF Pushes
  <2>3. PresentShown' = PresentShown
    BY <1>1, <1>4, <1>6, <2>1, <2>2, ShownNow, ShownThen
  <2>. QED  BY <1>1, <1>4, <1>5, <1>7, <2>3, TimelineUnseen
<1>8. CASE Whole /\ engine = "journal" /\ Begin
  <2>1. ~Suppressed
    BY <1>4 DEF Suppressed, UnderWay
  <2>2. Projected(state)' # present
    BY <1>1, <1>4, <1>8, <2>1, HearingFollows
  <2>. QED  BY <1>1, <1>4, <1>5, <1>8, <2>2, BeginSeen
<1>. QED  BY <1>4, <1>7, <1>8

\* A move has been started, and is not seen before it is through.
LEMMA MoveSeen ==
  ASSUME NoNesting, TimelineInvariant, TypeInvariant',
         Undo \/ Redo \/ LegacyUndo \/ LegacyRedo
  PROVE  SeesStep
<1>1. ShownInvariant /\ TypeInvariant /\ CallsRest /\ Followed
  BY DEF TimelineInvariant, ShownInvariant
<1>2. /\ TimelineOK /\ CallsOK /\ CallsNest /\ Projected(state) \in SnapshotsOf(tracked)
  BY <1>1, Parts
<1>3. PICK kind, target, call :
        /\ kind \in {"undo", "redo"} /\ target \in SnapshotsOf(tracked)
        /\ Started(call, kind, target) /\ Taken(kind, target)
  BY <1>1, MoveStep
<1>4. /\ Pushes(call) /\ call.kind = kind /\ call.target = target
      /\ call.before = Projected(state)
      /\ tracked' = tracked /\ engine' = engine /\ entries' = entries
      /\ position' = position /\ present' = present
      /\ ~traveling /\ LegacyNests
  BY <1>3 DEF Started
<1>5. Len(stack) + 1 \in DOMAIN stack' /\ stack'[Len(stack) + 1] = call /\ Moving(call)
  BY <1>3, <1>4 DEF Pushes, Moving
<1>6. /\ PastShown' = PastAt(engine, call, Before', past')
      /\ FutureShown' = FutureAt(engine, call, After', future')
  BY <1>4, <1>5, ShownThen
<1>7. /\ PastShown = IF engine = "journal" THEN Before ELSE past
      /\ FutureShown = IF engine = "journal" THEN After ELSE future
  BY <1>1, <1>4, ShownNow
<1>8. PastShown' = PastShown /\ FutureShown' = FutureShown
  <2>1. CASE engine = "journal"
    <3>1. Before' = Before /\ After' = After
      BY <1>4, BeforeNext DEF Before, After, PastOf, FutureOf
    <3>. QED  BY <1>6, <1>7, <2>1, <3>1 DEF PastAt, FutureAt
  <2>2. CASE engine # "journal"
    <3>1. Current \in SnapshotsOf(tracked)
      BY <1>2 DEF Current, TimelineOK
    <3>2. past \in Seq(SnapshotsOf(tracked)) /\ future \in Seq(SnapshotsOf(tracked))
      BY <1>2 DEF TimelineOK
    <3>3. CASE kind = "undo"
      <4>1. /\ past # <<>> /\ target = Last(past)
            /\ past' = Front(past) /\ future' = Append(future, Current)
        BY <1>3, <2>2, <3>3 DEF Taken
      <4>2. Append(past', target) = past
        BY <3>2, <4>1, FrontFacts
      <4>3. Front(future') = future
        BY <3>1, <3>2, <4>1, AppendFacts
      <4>. QED  BY <1>4, <1>6, <1>7, <2>2, <3>3, <4>2, <4>3 DEF PastAt, FutureAt
    <3>4. CASE kind # "undo"
      <4>1. /\ future # <<>> /\ target = Last(future)
            /\ future' = Front(future) /\ past' = Append(past, Current)
        BY <1>3, <2>2, <3>4 DEF Taken
      <4>2. Append(future', target) = future
        BY <3>2, <4>1, FrontFacts
      <4>3. Front(past') = past
        BY <3>1, <3>2, <4>1, AppendFacts
      <4>. QED  BY <1>4, <1>6, <1>7, <2>2, <3>4, <4>2, <4>3 DEF PastAt, FutureAt
    <3>. QED  BY <3>3, <3>4
  <2>. QED  BY <2>1, <2>2
<1>9. PresentShown' = PresentShown
  <2>1. CASE engine = "legacy"
    <3>1. stack = <<>>
      BY <1>4, <2>1 DEF LegacyNests, NoNesting
    <3>2. stack' # <<>> /\ stack'[1] = call
      BY <1>4, <3>1 DEF Pushes
    <3>3. present = Projected(state)
      BY <1>1, <2>1, <3>1, LegacyLooks DEF CallsRest
    <3>. QED  BY <1>1, <1>4, <2>1, <3>1, <3>2, <3>3, ShownNow, ShownThen
  <2>2. CASE engine # "legacy"
    BY <1>1, <1>4, <2>2, ShownNow, ShownThen
  <2>. QED  BY <2>1, <2>2
<1>. QED  BY <1>8, <1>9, SeesNothing

LEMMA EmptyFacts ==
  ASSUME NEW ks, NEW s \in SnapshotsOf(ks)
  PROVE  PastOf(s, <<>>, 0) = <<>> /\ FutureOf(s, <<>>, 0) = <<>>
<1>1. PICK list \in Seq(EntriesOf(ks)) : list = <<>>
  BY EmptySeq
<1>2. 0 \in 0 .. Len(list) /\ Len(list) = 0
  BY <1>1
<1>3. /\ PastOf(s, list, 0) \in Seq(SnapshotsOf(ks)) /\ IsPast(PastOf(s, list, 0), s, list, 0)
      /\ FutureOf(s, list, 0) \in Seq(SnapshotsOf(ks))
      /\ IsFuture(FutureOf(s, list, 0), s, list, 0)
  BY <1>2, PastFacts, FutureFacts
<1>4. Len(PastOf(s, list, 0)) = 0 /\ Len(FutureOf(s, list, 0)) = 0
  BY <1>2, <1>3 DEF IsPast, IsFuture
<1>. QED  BY <1>1, <1>3, <1>4, EmptySeq

LEMMA ClearSeen ==
  ASSUME TimelineInvariant, TypeInvariant', Clear
  PROVE  SeesStep
<1>1. TypeInvariant
  BY DEF TimelineInvariant, ShownInvariant
<1>2. /\ ~traveling /\ traveling' = traveling /\ tracked' = tracked
      /\ entries' = <<>> /\ position' = 0 /\ past' = <<>> /\ future' = <<>>
  BY <1>1, ClearStep
<1>3. Before' = <<>> /\ After' = <<>>
  <2>1. present' \in SnapshotsOf(tracked')
    BY TypePartsNext DEF TypeInvariant, TimelineOK
  <2>. QED  BY <1>2, <2>1, EmptyFacts, BeforeNext
<1>4. ~traveling'
  BY <1>2
<1>5. PastShown' = <<>> /\ FutureShown' = <<>>
  BY <1>2, <1>3, <1>4, ShownThen
<1>. QED  BY <1>5, SeesClear

\* The outermost call stays what it is.
LEMMA DrainSeen ==
  ASSUME TimelineInvariant, TypeInvariant', Drain
  PROVE  SeesStep
<1>1. TypeInvariant
  BY DEF TimelineInvariant, ShownInvariant
<1>2. Carried /\ Drains /\ UNCHANGED timeline /\ traveling' = traveling
  BY <1>1, DrainStep
<1>3. engine' = engine /\ present' = present
  BY <1>2 DEF timeline
<1>4. PresentShown' = PresentShown
  <2>1. /\ stack # <<>> /\ stack' # <<>> /\ stack'[1].kind = stack[1].kind
        /\ stack'[1].before = stack[1].before
    BY <1>2 DEF Drains
  <2>. QED  BY <1>1, <1>3, <2>1, ShownNow, ShownThen
<1>. QED  BY <1>1, <1>2, <1>4, TimelineUnseen

LEMMA SameSeen ==
  ASSUME TypeInvariant, TypeInvariant', stack' = stack, Carried, UNCHANGED timeline,
         traveling' = traveling
  PROVE  SeesStep
<1>1. engine' = engine /\ present' = present
  BY DEF timeline
<1>2. PresentShown' = PresentShown
  BY <1>1, ShownNow, ShownThen
<1>. QED  BY <1>2, TimelineUnseen

LEMMA ReturnSeen ==
  ASSUME TimelineInvariant, TypeInvariant', Return
  PROVE  SeesStep
<1>1. TypeInvariant
  BY DEF TimelineInvariant, ShownInvariant
<1>2. Carried /\ stack' = stack /\ UNCHANGED timeline
  BY <1>1, ReturnStep
<1>3. traveling' = traveling
  BY DEF Return, flags
<1>. QED  BY <1>1, <1>2, <1>3, SameSeen

LEMMA StutterSeen ==
  ASSUME TimelineInvariant, TypeInvariant', UNCHANGED vars
  PROVE  SeesStep
<1>1. TypeInvariant
  BY DEF TimelineInvariant, ShownInvariant
<1>2. Carried /\ stack' = stack /\ UNCHANGED timeline /\ traveling' = traveling
  BY <1>1, StutterStep
<1>. QED  BY <1>1, <1>2, SameSeen

\* The subscription of the legacy history.
LEMMA LegacySeen ==
  ASSUME TimelineInvariant, TypeInvariant', Subscription, engine = "legacy"
  PROVE  SeesStep
<1>1. ShownInvariant /\ TypeInvariant /\ LegacyCalls
  BY DEF TimelineInvariant, ShownInvariant
<1>2. /\ TimelineOK /\ CallsOK /\ CallsNest /\ Projected(state) \in SnapshotsOf(tracked)
  BY <1>1, Parts
<1>3. /\ Len(stack) = 1 /\ stack' = stack /\ stack # <<>> /\ Carried
      /\ tracked' = tracked /\ LegacySubscription
  BY <1>1, SubscriptionStep
<1>4. traveling' = traveling /\ recording' = recording
  BY DEF Subscription, flags
<1>5. DOMAIN stack = {1} /\ stack[1] \in CallsOf(tracked)
  BY <1>2, <1>3, StackFacts
<1>6. \A kinds : UnderWay(kinds) <=> stack[1].kind \in kinds
  BY <1>5 DEF UnderWay
<1>7. /\ Suppressed <=> stack[1].kind = "hydrate"
      /\ traveling <=> stack[1].kind \in {"undo", "redo"}
  <2>1. /\ UnderWay({"hydrate"}) <=> stack[1].kind = "hydrate"
        /\ UnderWay({"undo", "redo"}) <=> stack[1].kind \in {"undo", "redo"}
    BY <1>6
  <2>. QED  BY <1>2, <2>1, Zenon DEF CallsNest, Suppressed
<1>8. CASE Muted
  <2>1. /\ present' = Projected(state) /\ engine' = engine
        /\ past' = past /\ future' = future /\ entries' = entries /\ position' = position
    BY <1>2, <1>3, <1>8, LookFacts DEF LegacySubscription
  <2>2. PastShown' = PastShown /\ FutureShown' = FutureShown
    BY <1>1, <1>3, <1>4, <2>1, ListsKept
  <2>3. CASE stack[1].kind = "hydrate"
    BY <1>7, <2>2, <2>3, SeesAbsorb
  <2>4. CASE stack[1].kind # "hydrate"
    <3>1. recording => stack[1].kind \in {"setState", "hydrate"}
      <4>1. UnderWay({"setState", "hydrate"}) <=> stack[1].kind \in {"setState", "hydrate"}
        BY <1>6
      <4>. QED  BY <1>2, <4>1, Zenon DEF CallsNest
    <3>2. stack[1].kind \in {"setState", "undo", "redo"}
      BY <1>7, <1>8, <2>4, <3>1 DEF Muted
    <3>3. PresentShown' = PresentShown
      BY <1>1, <1>3, <2>1, <3>2, ShownNow, ShownThen
    <3>. QED  BY <2>2, <3>3, SeesNothing
  <2>. QED  BY <2>3, <2>4
<1>9. CASE ~Muted
  <2>1. RecordChange(present, Projected(state))
    BY <1>3, <1>9 DEF LegacySubscription
  <2>2. present \in SnapshotsOf(tracked)
    BY <1>2 DEF TimelineOK
  <2>3. /\ engine' = engine /\ present' = Projected(state)
        /\ Grows(past, present, Projected(state))
    BY <1>2, <1>3, <2>1, <2>2, RecordChangeFacts
  <2>4. ~traveling /\ ~traveling' /\ stack[1].kind \notin {"setState", "undo", "redo"}
    BY <1>1, <1>3, <1>4, <1>7, <1>9 DEF Muted, LegacyCalls
  <2>5. /\ PastShown = past /\ FutureShown = future /\ PresentShown = present
        /\ PastShown' = past' /\ FutureShown' = future' /\ PresentShown' = Projected(state)
    BY <1>1, <1>3, <2>3, <2>4, ShownNow, ShownThen
  <2>6. CASE Projected(state) # present
    <3>1. past \in Seq(SnapshotsOf(tracked)) /\ Len(past) + Len(future) <= Limit
      BY <1>2 DEF TimelineOK, Limited
    <3>. QED  BY <1>1, <1>3, <2>2, <2>3, <2>4, <2>5, <2>6, <3>1, GrowsSeen
  <2>7. CASE Projected(state) = present
    BY <2>3, <2>5, <2>7, SeesNothing DEF Grows
  <2>. QED  BY <2>6, <2>7
<1>. QED  BY <1>8, <1>9

LEMMA SubscriptionSeen ==
  ASSUME TimelineInvariant, TypeInvariant', Subscription
  PROVE  SeesStep
<1>1. ShownInvariant /\ TypeInvariant /\ OddIsFirst /\ Followed
  BY DEF TimelineInvariant, ShownInvariant
<1>2. /\ stack' = stack /\ Carried /\ tracked' = tracked /\ Awaited
      /\ engine # "legacy" => IF Muted THEN UNCHANGED timeline ELSE RecordState
  BY <1>1, SubscriptionStep
<1>3. traveling' = traveling
  BY DEF Subscription, flags
<1>4. CASE engine = "legacy"
  BY <1>4, LegacySeen
<1>5. CASE engine # "legacy" /\ Muted
  BY <1>1, <1>2, <1>3, <1>5, SameSeen
<1>6. CASE engine # "legacy" /\ ~Muted
  <2>1. ~traveling /\ ~(Whole /\ engine = "journal")
    BY <1>1, <1>2, <1>6 DEF Muted, Followed
  <2>. QED  BY <1>1, <1>2, <1>3, <1>6, <2>1, RecordStateSeen
<1>. QED  BY <1>4, <1>5, <1>6

LEMMA EndWriteSeen ==
  ASSUME TimelineInvariant, TypeInvariant', EndWrite
  PROVE  SeesStep
<1>1. ShownInvariant /\ TypeInvariant
  BY DEF TimelineInvariant, ShownInvariant
<1>2. Carried /\ UNCHANGED timeline /\ traveling' = traveling
  BY <1>1, EndWriteStep
<1>3. Pops /\ Top.kind = "write"
  BY <1>1, ThroughFacts DEF EndWrite
<1>4. engine' = engine /\ present' = present
  BY <1>2 DEF timeline
<1>5. PresentShown' = PresentShown
  <2>1. CASE stack' = <<>>
    <3>1. stack # <<>> /\ stack[1].kind = "write"
      BY <1>3, <2>1 DEF Pops
    <3>. QED  BY <1>1, <1>4, <2>1, <3>1, ShownNow, ShownThen
  <2>2. CASE stack' # <<>>
    <3>1. stack # <<>> /\ stack'[1] = stack[1]
      BY <1>3, <2>2 DEF Pops
    <3>. QED  BY <1>1, <1>4, <2>2, <3>1, ShownNow, ShownThen
  <2>. QED  BY <2>1, <2>2
<1>. QED  BY <1>1, <1>2, <1>5, TimelineUnseen

LEMMA EndSetStateSeen ==
  ASSUME TimelineInvariant, TypeInvariant', EndSetState
  PROVE  SeesStep
<1>1. ShownInvariant /\ TypeInvariant /\ CallsRest /\ LegacyCalls /\ OddIsFirst
  BY DEF TimelineInvariant, ShownInvariant
<1>2. /\ TimelineOK /\ CallsOK /\ CallsNest /\ Projected(state) \in SnapshotsOf(tracked)
  BY <1>1, Parts
<1>3. Carried /\ SetStateRecords /\ traveling' = traveling
  BY <1>1, EndSetStateStep
<1>4. Pops /\ tracked' = tracked /\ Top.kind = "setState" /\ Top \in CallsOf(tracked)
  BY <1>1, ThroughFacts DEF EndSetState
<1>5. ~Thrown
  BY <1>1, <1>4, NotThrown
<1>6. CASE engine = "legacy"
  <2>1. Len(stack) = 1 /\ DOMAIN stack = {1} /\ Top = stack[1] /\ stack # <<>> /\ stack' = <<>>
    <3>1. Len(stack) \in DOMAIN stack /\ Top = stack[Len(stack)]
      BY <1>4 DEF Pops
    <3>2. Len(stack) = 1
      BY <1>1, <1>4, <1>6, <3>1 DEF LegacyCalls
    <3>. QED  BY <1>4, <3>1, <3>2 DEF Pops
  <2>2. ~traveling /\ ~Suppressed
    <3>1. ~UnderWay({"undo", "redo"}) /\ ~UnderWay({"hydrate"})
      BY <1>4, <2>1 DEF UnderWay
    <3>. QED  BY <1>2, <3>1, Zenon DEF CallsNest, Suppressed
  <2>3. RecordChange(Top.before, Projected(state))
    BY <1>3, <1>5, <1>6, <2>2 DEF SetStateRecords, LegacyRecords
  <2>4. PICK before \in SnapshotsOf(tracked) : before = Top.before
    BY <1>4 DEF CallsOf
  <2>5. /\ engine' = engine /\ present' = Projected(state)
        /\ Grows(past, before, Projected(state))
    BY <1>2, <1>4, <1>6, <2>3, <2>4, RecordChangeFacts
  <2>6. ~traveling'
    BY <1>3, <2>2
  <2>7. /\ PastShown = past /\ FutureShown = future /\ PresentShown = before
        /\ PastShown' = past' /\ FutureShown' = future' /\ PresentShown' = Projected(state)
    BY <1>1, <1>4, <1>6, <2>1, <2>2, <2>4, <2>5, <2>6, ShownNow, ShownThen
  <2>8. CASE Projected(state) # before
    <3>1. past \in Seq(SnapshotsOf(tracked)) /\ Len(past) + Len(future) <= Limit
      BY <1>2, <1>6 DEF TimelineOK, Limited
    <3>. QED  BY <1>1, <1>4, <1>6, <2>5, <2>6, <2>7, <2>8, <3>1, GrowsSeen
  <2>9. CASE Projected(state) = before
    BY <2>5, <2>7, <2>9, SeesNothing DEF Grows
  <2>. QED  BY <2>8, <2>9
<1>7. CASE engine # "legacy" /\ (traveling \/ Suppressed \/ (engine = "journal" /\ Whole))
  <2>1. UNCHANGED timeline
    BY <1>3, <1>5, <1>7 DEF SetStateRecords
  <2>. QED  BY <1>1, <1>3, <1>7, <2>1, TimelineUnseen
<1>8. CASE engine # "legacy" /\ ~(traveling \/ Suppressed \/ (engine = "journal" /\ Whole))
  <2>1. RecordState
    BY <1>3, <1>5, <1>8 DEF SetStateRecords
  <2>. QED  BY <1>1, <1>3, <1>4, <1>8, <2>1, RecordStateSeen
<1>. QED  BY <1>6, <1>7, <1>8

LEMMA EndHydrateSeen ==
  ASSUME TimelineInvariant, TypeInvariant', EndHydrate
  PROVE  SeesStep
<1>1. TypeInvariant
  BY DEF TimelineInvariant, ShownInvariant
<1>2. /\ Carried /\ Suppressed /\ ~traveling /\ traveling' = traveling /\ Restart
  BY <1>1, EndHydrateStep
<1>3. /\ TimelineOK /\ Projected(state) \in SnapshotsOf(tracked)
  BY <1>1, Parts
<1>4. tracked' = tracked
  BY DEF EndHydrate, Through
<1>5. CASE engine = "legacy"
  <2>1. /\ engine' = engine /\ entries' = entries /\ position' = position
        /\ past' = past /\ future' = future
    BY <1>2, <1>3, <1>4, <1>5, LookFacts DEF Restart
  <2>2. PastShown' = PastShown /\ FutureShown' = FutureShown
    BY <1>1, <1>2, <1>5, <2>1, ListsKept
  <2>. QED  BY <1>2, <2>2, SeesAbsorb
<1>6. CASE engine # "legacy"
  <2>1. entries' = <<>> /\ position' = 0 /\ past' = <<>> /\ future' = <<>>
    BY <1>2, <1>6 DEF Restart
  <2>2. Before' = <<>> /\ After' = <<>>
    <3>1. present' \in SnapshotsOf(tracked')
      BY TypePartsNext DEF TypeInvariant, TimelineOK
    <3>. QED  BY <2>1, <3>1, EmptyFacts, BeforeNext
  <2>3. ~traveling'
    BY <1>2
  <2>4. PastShown' = <<>> /\ FutureShown' = <<>>
    BY <2>1, <2>2, <2>3, ShownThen
  <2>. QED  BY <2>4, SeesClear
<1>. QED  BY <1>5, <1>6

\* The cursor of a journal whose patches lead back and forth takes a state from one
\* side to the other.
LEMMA LineMoves ==
  ASSUME NEW ks, NEW list \in Seq(EntriesOf(ks)), NEW p \in 1 .. Len(list),
         NEW line, IsLine(line, list, ks)
  PROVE  /\ PastOf(line[p], list, p) = Append(PastOf(line[p - 1], list, p - 1), line[p - 1])
         /\ FutureOf(line[p - 1], list, p - 1) = Append(FutureOf(line[p], list, p), line[p])
<1>. DEFINE n == Len(list)
            back == [i \in 1 .. p - 1 |-> line[i - 1]]
            ahead == [i \in 1 .. n - p |-> line[n + 1 - i]]
<1>1. /\ n \in Nat /\ p \in Nat /\ p <= n /\ p - 1 \in 0 .. n /\ p \in 0 .. n
      /\ \A i \in 0 .. n : line[i] \in SnapshotsOf(ks)
  BY LenProperties DEF IsLine
<1>2. /\ PastOf(line[p - 1], list, p - 1) = back
      /\ PastOf(line[p], list, p) = [i \in 1 .. p |-> line[i - 1]]
      /\ FutureOf(line[p], list, p) = ahead
      /\ FutureOf(line[p - 1], list, p - 1) = [i \in 1 .. n - (p - 1) |-> line[n + 1 - i]]
  <2>1. /\ PastOf(line[p], list, p) = LineBefore(line, p)
        /\ FutureOf(line[p], list, p) = LineAfter(line, Len(list), p)
    BY <1>1, LineMaterializes
  <2>2. PICK q \in 0 .. Len(list) : q = p - 1
    BY <1>1
  <2>3. /\ PastOf(line[q], list, q) = LineBefore(line, q)
        /\ FutureOf(line[q], list, q) = LineAfter(line, Len(list), q)
    BY LineMaterializes
  <2>. QED  BY <2>1, <2>2, <2>3 DEF LineBefore, LineAfter
<1>3. Append(back, line[p - 1]) = [i \in 1 .. p |-> line[i - 1]]
  <2>1. (p - 1) + 1 = p
    BY <1>1
  <2>2. \A i \in 1 .. p - 1 : line[i - 1] \in SnapshotsOf(ks)
    BY <1>1
  <2>3. back \in Seq(SnapshotsOf(ks)) /\ Len(back) = p - 1
    BY <1>1, <2>2
  <2>. QED  BY <1>1, <2>1, <2>3
<1>4. Append(ahead, line[p]) = [i \in 1 .. n - (p - 1) |-> line[n + 1 - i]]
  <2>1. n - (p - 1) = (n - p) + 1 /\ n + 1 - ((n - p) + 1) = p /\ n - p \in Nat
    BY <1>1
  <2>2. \A i \in 1 .. n - p : line[n + 1 - i] \in SnapshotsOf(ks)
    BY <1>1
  <2>. HIDE DEF n
  <2>3. ahead \in Seq(SnapshotsOf(ks)) /\ Len(ahead) = n - p
    BY <1>1, <2>1, <2>2
  <2>. QED  BY <1>1, <2>1, <2>3
<1>. QED  BY <1>2, <1>3, <1>4

LEMMA ShownLengths ==
  ASSUME TimelineOK'
  PROVE  /\ Before' \in Seq(SnapshotsOf(tracked')) /\ After' \in Seq(SnapshotsOf(tracked'))
         /\ Len(Before') = position' /\ Len(After') = Len(entries') - position'
<1>1. /\ PastOf(present', entries', position') \in Seq(SnapshotsOf(tracked'))
      /\ IsPast(PastOf(present', entries', position'), present', entries', position')
      /\ FutureOf(present', entries', position') \in Seq(SnapshotsOf(tracked'))
      /\ IsFuture(FutureOf(present', entries', position'), present', entries', position')
  BY PastFacts, FutureFacts DEF TimelineOK
<1>. QED  BY <1>1, BeforeNext DEF IsPast, IsFuture

\* What the end of a move may do to the lists.
LEMMA SeesUndo ==
  ASSUME NEW S, NEW older \in Seq(S), NEW ahead \in Seq(S), NEW s \in S, NEW t \in S,
         PastShown = Append(older, t), FutureShown = ahead, PresentShown = s,
         PastShown' = older, FutureShown' = Append(ahead, s), ~meddled => PresentShown' = t
  PROVE  SeesStep
<1>1. /\ Append(older, t) # <<>> /\ Last(Append(older, t)) = t
      /\ Front(Append(older, t)) = older
      /\ Len(Append(older, t)) = Len(older) + 1 /\ Len(older) \in Nat
  BY AppendFacts
<1>2. Len(Append(ahead, s)) = Len(ahead) + 1 /\ Len(ahead) \in Nat
  BY AppendFacts
<1>3. CASE meddled
  <2>1. /\ Len(PastShown') = Len(PastShown) + -1
        /\ Len(FutureShown') = Len(FutureShown) - -1
    BY <1>1, <1>2
  <2>2. Timeline!MeddledMove
    BY <1>3, <2>1 DEF Timeline!MeddledMove
  <2>. QED  BY <2>2 DEF SeesStep
<1>4. CASE ~meddled
  <2>1. Timeline!Undo
    BY <1>1, <1>4 DEF Timeline!Undo, Timeline!Last, Timeline!Front, Last, Front
  <2>. QED  BY <2>1 DEF SeesStep
<1>. QED  BY <1>3, <1>4

LEMMA SeesRedo ==
  ASSUME NEW S, NEW older \in Seq(S), NEW ahead \in Seq(S), NEW s \in S, NEW t \in S,
         PastShown = older, FutureShown = Append(ahead, t), PresentShown = s,
         PastShown' = Append(older, s), FutureShown' = ahead, ~meddled => PresentShown' = t
  PROVE  SeesStep
<1>1. /\ Append(ahead, t) # <<>> /\ Last(Append(ahead, t)) = t
      /\ Front(Append(ahead, t)) = ahead
      /\ Len(Append(ahead, t)) = Len(ahead) + 1 /\ Len(ahead) \in Nat
  BY AppendFacts
<1>2. Len(Append(older, s)) = Len(older) + 1 /\ Len(older) \in Nat
  BY AppendFacts
<1>3. CASE meddled
  <2>1. /\ Len(PastShown') = Len(PastShown) + 1
        /\ Len(FutureShown') = Len(FutureShown) - 1
    BY <1>1, <1>2
  <2>2. Timeline!MeddledMove
    BY <1>3, <2>1 DEF Timeline!MeddledMove
  <2>. QED  BY <2>2 DEF SeesStep
<1>4. CASE ~meddled
  <2>1. Timeline!Redo
    BY <1>1, <1>4 DEF Timeline!Redo, Timeline!Last, Timeline!Front, Last, Front
  <2>. QED  BY <2>1 DEF SeesStep
<1>. QED  BY <1>3, <1>4

\* The cursor of a journal moves by one, by as many states when an observer has meddled.
LEMMA JournalMoveSeen ==
  ASSUME TimelineInvariant, TypeInvariant', EndMove, engine = "journal"
  PROVE  SeesStep
<1>1. TypeInvariant /\ MovesArrive /\ Exact
  BY DEF TimelineInvariant, ShownInvariant
<1>2. /\ TimelineOK /\ MovesHaveRoom
      /\ stack # <<>> => Len(stack) \in DOMAIN stack /\ Top = stack[Len(stack)]
  BY <1>1, Parts
<1>3. /\ Pops /\ Moving(Top) /\ Top.at # "refused" /\ traveling' = FALSE
      /\ tracked' = tracked /\ engine' = engine /\ entries' = entries /\ Arrive
  BY <1>1, EndMoveStep
<1>4. Len(stack) \in DOMAIN stack /\ Top = stack[Len(stack)]
  BY <1>2, <1>3 DEF Pops
<1>5. /\ position' = IF Top.kind = "undo" THEN position - 1 ELSE position + 1
      /\ present' = Projected(state)
  BY <1>3 DEF Arrive
<1>6. PICK patches : patches = IF Top.kind = "undo" THEN entries[position].inverse
                               ELSE entries[position + 1].patches
  OBVIOUS
<1>7. /\ IF Top.kind = "undo" THEN position > 0 ELSE position < Len(entries)
      /\ ~meddled => Projected(state) = Top.target
      /\ Top.target = Patched(present, patches)
  BY <1>1, <1>2, <1>3, <1>4, <1>6 DEF MovesHaveRoom, MovesArrive, Moving
<1>8. /\ PastShown = Before /\ FutureShown = After /\ PresentShown = present
      /\ PastShown' = Before' /\ FutureShown' = After' /\ PresentShown' = present'
  BY <1>1, <1>3, ShownNow, ShownThen, Seen DEF PastSeen, FutureSeen
<1>9. TimelineOK'
  BY TypePartsNext DEF TypeInvariant
<1>10. /\ Before \in Seq(SnapshotsOf(tracked)) /\ After \in Seq(SnapshotsOf(tracked))
      /\ Len(Before) = position /\ Len(After) = Len(entries) - position
      /\ position \in Nat /\ Len(entries) \in Nat
      /\ Before = PastOf(present, entries, position)
      /\ After = FutureOf(present, entries, position)
  BY <1>2, BeforeFacts, AfterFacts
<1>11. /\ Before' \in Seq(SnapshotsOf(tracked)) /\ After' \in Seq(SnapshotsOf(tracked))
       /\ Len(Before') = position' /\ Len(After') = Len(entries) - position'
  BY <1>3, <1>9, ShownLengths
<1>12. CASE meddled
  <2>1. CASE Top.kind = "undo"
    <3>1. /\ Len(PastShown') = Len(PastShown) + -1
          /\ Len(FutureShown') = Len(FutureShown) - -1
      BY <1>5, <1>7, <1>8, <1>10, <1>11, <2>1
    <3>2. Timeline!MeddledMove
      BY <1>12, <3>1 DEF Timeline!MeddledMove
    <3>. QED  BY <3>2 DEF SeesStep
  <2>2. CASE Top.kind # "undo"
    <3>1. /\ Len(PastShown') = Len(PastShown) + 1
          /\ Len(FutureShown') = Len(FutureShown) - 1
      BY <1>5, <1>7, <1>8, <1>10, <1>11, <2>2
    <3>2. Timeline!MeddledMove
      BY <1>12, <3>1 DEF Timeline!MeddledMove
    <3>. QED  BY <3>2 DEF SeesStep
  <2>. QED  BY <2>1, <2>2
<1>13. CASE ~meddled
  <2>1. PICK line : IsLine(line, entries, tracked) /\ line[position] = present
    BY <1>1, <1>13, ExactParts
  <2>2. \A i \in 1 .. Len(entries) :
          /\ line[i - 1] = Patched(line[i], entries[i].inverse)
          /\ line[i] = Patched(line[i - 1], entries[i].patches)
    BY <2>1 DEF IsLine
  <2>3. PICK now, before, after : now = present' /\ before = Before' /\ after = After'
    OBVIOUS
  <2>4. /\ present \in SnapshotsOf(tracked) /\ now \in SnapshotsOf(tracked)
        /\ before \in Seq(SnapshotsOf(tracked)) /\ after \in Seq(SnapshotsOf(tracked))
        /\ before = PastOf(now, entries, position')
        /\ after = FutureOf(now, entries, position')
    BY <1>2, <1>3, <1>9, <1>11, <2>3, BeforeNext DEF TimelineOK
  <2>5. CASE Top.kind = "undo"
    <3>1. position \in 1 .. Len(entries) /\ position' = position - 1
      BY <1>5, <1>7, <1>10, <2>5
    <3>2. line[position - 1] = now
      BY <1>5, <1>7, <1>6, <1>13, <2>1, <2>2, <2>3, <2>5, <3>1
    <3>3. entries \in Seq(EntriesOf(tracked))
      BY <1>2 DEF TimelineOK
    <3>4. /\ PastOf(line[position], entries, position) =
               Append(PastOf(line[position - 1], entries, position - 1), line[position - 1])
          /\ FutureOf(line[position - 1], entries, position - 1) =
               Append(FutureOf(line[position], entries, position), line[position])
      BY <2>1, <3>1, <3>3, LineMoves
    <3>5. Before = Append(before, now) /\ after = Append(After, present)
      BY <1>10, <2>1, <2>4, <3>1, <3>2, <3>4
    <3>. QED  BY <1>8, <1>10, <2>3, <2>4, <3>5, SeesUndo
  <2>6. CASE Top.kind # "undo"
    <3>1. /\ position + 1 \in 1 .. Len(entries) /\ position' = position + 1
          /\ (position + 1) - 1 = position
      BY <1>5, <1>7, <1>10, <2>6
    <3>2. line[position + 1] = now
      BY <1>5, <1>7, <1>6, <1>13, <2>1, <2>2, <2>3, <2>6, <3>1
    <3>3. PICK p \in 1 .. Len(entries) : p = position + 1 /\ p - 1 = position
      BY <3>1
    <3>4. entries \in Seq(EntriesOf(tracked))
      BY <1>2 DEF TimelineOK
    <3>5. /\ PastOf(line[p], entries, p) =
               Append(PastOf(line[p - 1], entries, p - 1), line[p - 1])
          /\ FutureOf(line[p - 1], entries, p - 1) =
               Append(FutureOf(line[p], entries, p), line[p])
      BY <2>1, <3>4, LineMoves
    <3>6. before = Append(Before, present) /\ After = Append(after, now)
      BY <1>10, <2>1, <2>4, <3>1, <3>2, <3>3, <3>5
    <3>. QED  BY <1>8, <1>10, <2>3, <2>4, <3>6, SeesRedo
  <2>. QED  BY <2>5, <2>6
<1>. QED  BY <1>12, <1>13

\* The lists of snapshots have been changed when the move was started.
LEMMA SnapshotMoveSeen ==
  ASSUME TimelineInvariant, TypeInvariant', EndMove, engine # "journal"
  PROVE  SeesStep
<1>1. ShownInvariant /\ TypeInvariant /\ MovesArrive /\ LegacyCalls /\ Followed
  BY DEF TimelineInvariant, ShownInvariant
<1>2. /\ TimelineOK /\ MovesHaveRoom /\ Projected(state) \in SnapshotsOf(tracked)
      /\ stack # <<>> => Len(stack) \in DOMAIN stack /\ Top = stack[Len(stack)]
  BY <1>1, Parts
<1>3. /\ Pops /\ Moving(Top) /\ Top.at # "refused" /\ traveling' = FALSE
      /\ Top \in CallsOf(tracked) /\ (Len(stack) = 1 => waiting = <<>>)
      /\ tracked' = tracked /\ engine' = engine /\ past' = past /\ future' = future
      /\ Arrive
  BY <1>1, EndMoveStep
<1>4. Len(stack) \in DOMAIN stack /\ Top = stack[Len(stack)] /\ stack # <<>>
  BY <1>2, <1>3 DEF Pops
<1>5. PICK target, now :
        target \in SnapshotsOf(tracked) /\ target = Top.target /\ now = PresentShown
  BY <1>3 DEF CallsOf
<1>6. /\ (IF Top.kind = "undo" THEN future ELSE past) # <<>>
      /\ ~meddled => Projected(state) = target
      /\ Last(IF Top.kind = "undo" THEN future ELSE past) =
           IF engine = "legacy" THEN Top.before ELSE present
  BY <1>1, <1>2, <1>3, <1>4, <1>5 DEF MovesHaveRoom, MovesArrive, Moving
<1>7. /\ PastShown = PastAt(engine, Top, Before, past)
      /\ FutureShown = FutureAt(engine, Top, After, future)
      /\ PastShown' = past /\ FutureShown' = future
  BY <1>1, <1>3, <1>4, ShownNow, ShownThen
<1>8. /\ now = IF engine = "legacy" THEN Top.before ELSE present
      /\ PresentShown' = Projected(state)
  <2>1. CASE engine = "legacy"
    <3>1. Len(stack) = 1 /\ Top = stack[1] /\ stack' = <<>>
      BY <1>1, <1>3, <1>4, <2>1 DEF LegacyCalls, Moving, Pops
    <3>2. present = Projected(state) /\ present' = present
      BY <1>1, <1>3, <2>1, <3>1, LegacyLooks DEF Arrive
    <3>. QED  BY <1>1, <1>3, <1>4, <1>5, <2>1, <3>1, <3>2, ShownNow, ShownThen DEF Moving
  <2>2. CASE engine # "legacy"
    BY <1>1, <1>3, <1>5, <2>2, ShownNow, ShownThen DEF Arrive
  <2>. QED  BY <2>1, <2>2
<1>9. past \in Seq(SnapshotsOf(tracked)) /\ future \in Seq(SnapshotsOf(tracked))
  BY <1>2 DEF TimelineOK
<1>10. CASE Top.kind = "undo"
  <2>1. future # <<>> /\ Last(future) = now
    BY <1>6, <1>8, <1>10
  <2>2. PICK ahead \in Seq(SnapshotsOf(tracked)) :
          ahead = Front(future) /\ now \in SnapshotsOf(tracked) /\ future = Append(ahead, now)
    BY <1>9, <2>1, FrontFacts
  <2>3. PastShown = Append(past, target) /\ FutureShown = ahead
    BY <1>5, <1>7, <1>10, <2>2 DEF PastAt, FutureAt
  <2>. QED  BY <1>5, <1>6, <1>7, <1>8, <1>9, <2>2, <2>3, SeesUndo
<1>11. CASE Top.kind # "undo"
  <2>1. past # <<>> /\ Last(past) = now
    BY <1>6, <1>8, <1>11
  <2>2. PICK older \in Seq(SnapshotsOf(tracked)) :
          older = Front(past) /\ now \in SnapshotsOf(tracked) /\ past = Append(older, now)
    BY <1>9, <2>1, FrontFacts
  <2>3. PastShown = older /\ FutureShown = Append(future, target)
    BY <1>5, <1>7, <1>11, <2>2 DEF PastAt, FutureAt
  <2>. QED  BY <1>5, <1>6, <1>7, <1>8, <1>9, <2>2, <2>3, SeesRedo
<1>. QED  BY <1>10, <1>11

\* A move that was refused leaves everything where it was.
LEMMA FailMoveSeen ==
  ASSUME NoLoss, TimelineInvariant, TypeInvariant', FailMove
  PROVE  SeesStep
<1>1. ShownInvariant /\ TypeInvariant /\ LegacyCalls /\ Followed
  BY DEF TimelineInvariant, ShownInvariant
<1>2. /\ CallsNest
      /\ stack # <<>> => Len(stack) \in DOMAIN stack /\ Top = stack[Len(stack)]
  BY <1>1, Parts
<1>3. /\ Pops /\ Moving(Top) /\ traveling' = FALSE
      /\ tracked' = tracked /\ engine' = engine /\ entries' = entries
      /\ position' = position /\ present' = present
      /\ IF engine = "journal" THEN past' = past /\ future' = future ELSE PutBack
  BY <1>1, FailMoveStep
<1>4. Top.at = "refused" /\ (Len(stack) = 1 => waiting = <<>>)
  BY <1>1, FailMoveFollowed
<1>5. Len(stack) \in DOMAIN stack /\ Top = stack[Len(stack)] /\ stack # <<>>
  BY <1>2, <1>3 DEF Pops
<1>6. /\ PastShown = PastAt(engine, Top, Before, past)
      /\ FutureShown = FutureAt(engine, Top, After, future)
      /\ PastShown' = IF engine = "journal" THEN Before' ELSE past'
      /\ FutureShown' = IF engine = "journal" THEN After' ELSE future'
  BY <1>1, <1>3, <1>5, ShownNow, ShownThen
<1>7. PastShown' = PastShown /\ FutureShown' = FutureShown
  <2>1. CASE engine = "journal"
    <3>1. Before' = Before /\ After' = After
      BY <1>3, BeforeNext DEF Before, After, PastOf, FutureOf
    <3>. QED  BY <1>6, <2>1, <3>1 DEF PastAt, FutureAt
  <2>2. CASE engine # "journal"
    BY <1>3, <1>6, <2>2 DEF PastAt, FutureAt, PutBack
  <2>. QED  BY <2>1, <2>2
<1>8. PresentShown' = PresentShown
  <2>1. CASE engine = "legacy"
    <3>1. Len(stack) = 1 /\ Top = stack[1] /\ stack' = <<>>
      BY <1>1, <1>3, <1>5, <2>1 DEF LegacyCalls, Moving, Pops
    <3>2. present = Projected(state)
      BY <1>1, <1>4, <2>1, <3>1, LegacyLooks
    <3>3. Top.before = Projected(state)
      BY <1>2, <1>4, <1>5 DEF CallsNest
    <3>. QED  BY <1>1, <1>3, <1>5, <2>1, <3>1, <3>2, <3>3, ShownNow, ShownThen DEF Moving
  <2>2. CASE engine # "legacy"
    BY <1>1, <1>3, <2>2, ShownNow, ShownThen
  <2>. QED  BY <2>1, <2>2
<1>. QED  BY <1>7, <1>8, SeesNothing

LEMMA EndMoveSeen ==
  ASSUME TimelineInvariant, TypeInvariant', EndMove
  PROVE  SeesStep
<1>1. CASE engine = "journal"
  BY <1>1, JournalMoveSeen
<1>2. CASE engine # "journal"
  BY <1>2, SnapshotMoveSeen
<1>. QED  BY <1>1, <1>2

LEMMA SeesNext ==
  ASSUME NoLoss, NoNesting, TimelineInvariant, [Next]_vars
  PROVE  Timeline!Next
<1>1. TypeInvariant'
  BY TypeNext DEF TimelineInvariant, ShownInvariant
<1>2. ASSUME NEW k \in Keys, NEW v \in Values, WriteDirectly(k, v) PROVE SeesStep
  BY <1>1, <1>2, WriteSeen
<1>3. ASSUME NEW k \in Keys, NEW v \in Values, SetState(k, v) PROVE SeesStep
  BY <1>1, <1>3, SetStateSeen
<1>4. ASSUME NEW k \in Keys, NEW v \in Values, Hydrate(k, v) PROVE SeesStep
  BY <1>1, <1>4, HydrateSeen
<1>5. ASSUME Undo \/ Redo \/ LegacyUndo \/ LegacyRedo PROVE SeesStep
  BY <1>1, <1>5, MoveSeen
<1>6. ASSUME Clear PROVE SeesStep
  BY <1>1, <1>6, ClearSeen
<1>7. ASSUME Drain PROVE SeesStep
  BY <1>1, <1>7, DrainSeen
<1>8. ASSUME Subscription PROVE SeesStep
  BY <1>1, <1>8, SubscriptionSeen
<1>9. ASSUME Return PROVE SeesStep
  BY <1>1, <1>9, ReturnSeen
<1>10. ASSUME EndWrite PROVE SeesStep
  BY <1>1, <1>10, EndWriteSeen
<1>11. ASSUME EndSetState PROVE SeesStep
  BY <1>1, <1>11, EndSetStateSeen
<1>12. ASSUME EndHydrate PROVE SeesStep
  BY <1>1, <1>12, EndHydrateSeen
<1>13. ASSUME EndMove PROVE SeesStep
  BY <1>1, <1>13, EndMoveSeen
<1>14. ASSUME FailMove PROVE SeesStep
  BY <1>1, <1>14, FailMoveSeen
<1>15. ASSUME UNCHANGED vars PROVE SeesStep
  BY <1>1, <1>15, StutterSeen
<1>16. SeesStep
  BY <1>2, <1>3, <1>4, <1>5, <1>6, <1>7, <1>8, <1>9, <1>10, <1>11, <1>12, <1>13,
     <1>14, <1>15 DEF Next
<1>. QED  BY <1>1, <1>16, Inside DEF Timeline!Next, SeesStep

LEMMA SeesInit ==
  ASSUME Init
  PROVE  Timeline!Init
<1>1. TypeInvariant
  BY TypeInit
<1>2. TimelineOK /\ CallsOK
  BY <1>1, Parts
<1>3. /\ entries = <<>> /\ position = 0 /\ past = <<>> /\ future = <<>>
      /\ present = Projected(state) /\ stack = <<>> /\ traveling = FALSE /\ meddled = FALSE
  BY DEF Init
<1>4. Before = <<>> /\ After = <<>>
  <2>1. PICK list, p : list = entries /\ p = position
    OBVIOUS
  <2>2. Before = PastOf(present, list, p) /\ After = FutureOf(present, list, p)
    BY <1>2, <2>1, BeforeFacts, AfterFacts
  <2>. QED  BY <1>2, <1>3, <2>1, <2>2, EmptyFacts DEF TimelineOK
<1>5. PastShown = <<>> /\ FutureShown = <<>> /\ PresentShown = present
  BY <1>1, <1>3, <1>4, ShownNow
<1>6. ~Suppressed
  BY <1>3 DEF Suppressed, UnderWay
<1>7. present \in UNION {[ks -> Values] : ks \in SUBSET Keys}
  BY <1>2 DEF TimelineOK, CallsOK, SnapshotsOf
<1>. QED  BY <1>3, <1>5, <1>6, <1>7 DEF Timeline!Init, Suppressed

\* Unless an observer throws where that loses a change, or calls a legacy history in the
\* middle of a call, what undo and redo reach is one line of states, whichever way history
\* records and also where it changes from patches to snapshots: each step of a history is
\* a step of the abstract timeline or leaves it alone.
THEOREM HistoriesImplementTimeline == NoLoss /\ NoNesting => (Spec => ImplementsTimeline)
<1>. SUFFICES ASSUME NoLoss, NoNesting PROVE Spec => ImplementsTimeline
  OBVIOUS
<1>1. Init => TimelineInvariant /\ Timeline!Init
  BY TimelineInit, SeesInit
<1>2. TimelineInvariant /\ [Next]_vars => TimelineInvariant'
  BY TimelineNext
<1>3. TimelineInvariant /\ [Next]_vars => [Timeline!Next]_(Timeline!vars)
  BY SeesNext
<1>. QED  BY <1>1, <1>2, <1>3, PTL DEF Spec, ImplementsTimeline, Timeline!Spec

\* Under the same conditions the patches of a journal always lead back and forth between
\* the same states, unless an observer has written while the cursor moved; a move has
\* written the state it was to show; and only the first state of the journal of a
\* projection may have a value that patches cannot represent.
THEOREM PatchesLeadBack == NoLoss /\ NoNesting => (Spec => [](Exact /\ MovesArrive /\ OddIsFirst))
<1>. SUFFICES ASSUME NoLoss, NoNesting PROVE Spec => [](Exact /\ MovesArrive /\ OddIsFirst)
  OBVIOUS
<1>1. Init => TimelineInvariant
  BY TimelineInit
<1>2. TimelineInvariant /\ [Next]_vars => TimelineInvariant'
  BY TimelineNext
<1>3. TimelineInvariant => Exact /\ MovesArrive /\ OddIsFirst
  BY DEF TimelineInvariant
<1>. QED  BY <1>1, <1>2, <1>3, PTL DEF Spec
=============================================================================
