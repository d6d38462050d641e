------------------------ MODULE CrudAdapterProofs ------------------------
(***************************************************************************)
(* Proofs about CrudAdapter for every set of records, every backend and    *)
(* every bound.                                                            *)
(***************************************************************************)
EXTENDS CrudAdapter, FiniteSetTheorems, SequenceTheorems, WellFoundedInduction, TLAPS

-----------------------------------------------------------------------------
(* The invariant.                                                          *)

Records == [Ids -> Nat]
NamedMutations ==
  [kind : {"add", "replace", "field", "remove"}, id : Ids, value : Nat, n : Nat]
WholeMutations == [kind : {"collection"}, id : {0}, value : Records, n : Nat]
Mutations == NamedMutations \cup WholeMutations
Changes == [id : Ids, value : Nat, rev : Nat \ {0}]
Rows == [value : Nat, rev : Nat]
Answers(T) == UNION {[S -> T] : S \in SUBSET Ids}
Calls == [id : Ids, op : {"create", "update", "delete"}, value : Nat, rev : Nat,
          refused : BOOLEAN]
Pulls == [rows : Answers(Rows), done : BOOLEAN, stale : BOOLEAN]
Pushes ==
  [todo : SUBSET Ids, touched : SUBSET Ids, mutations : SUBSET Nat, deleted : SUBSET Ids,
   records : Records, call : {NoCall} \cup Calls, answers : Answers(Nat),
   stale : BOOLEAN, at : Records]
Bounds == [local : Nat, others : Nat, lost : Nat, crash : Nat]

RemoteType == server \in Records /\ rev \in Records /\ events \in Seq(Changes)
ClientType ==
  /\ base \in Records /\ outbox \in Seq(Mutations) /\ remoteIds \in SUBSET Ids
  /\ cursor \in Nat /\ pullOwed \in BOOLEAN /\ told \in Records /\ raced \in SUBSET Ids
  /\ saved \in [remoteIds : SUBSET Ids, told : Records]
RequestType == push \in {NoPush} \cup Pushes /\ pull \in {NoPull} \cup Pulls
TypeInvariant ==
  setup \in Setups /\ RemoteType /\ ClientType /\ RequestType /\ budget \in Bounds

\* What the remote reports of a record.
Visible(id) == IF InQuery(server[id]) THEN server[id] ELSE 0

\* The client was told of revisions the remote has made, and a record that is
\* believed in, or is there, has one.
RevisionsKnown ==
  \A id \in Ids :
    /\ told[id] <= rev[id] /\ saved.told[id] <= rev[id]
    /\ server[id] # 0 \/ id \in remoteIds \/ id \in saved.remoteIds => rev[id] > 0

\* A report of the newest revision of a record reports the record.
Reports(id, v, r) == r <= rev[id] /\ (r = rev[id] => v = Visible(id))
EventsReport ==
  \A k \in DOMAIN events : Reports(events[k].id, events[k].value, events[k].rev)
RowsReport ==
  \A id \in DOMAIN pull.rows :
    /\ Reports(id, pull.rows[id].value, pull.rows[id].rev)
    /\ setup.incremental => pull.rows[id].value # 0
    /\ pull # NoPull /\ ~pull.stale /\ id \notin raced => told[id] <= pull.rows[id].rev
PullCovers ==
  pull # NoPull /\ pull.done /\ ~setup.incremental => DOMAIN pull.rows = Ids

\* A call that was taken is the newest write of its record, or another one follows.
CallWrote ==
  push # NoPush /\ push.call # NoCall =>
    LET c == push.call
    IN /\ c.id \in push.todo
       /\ c.op = "delete" <=> c.value = 0
       /\ c.rev <= rev[c.id]
       /\ c.op = "delete" => ~c.refused
       /\ ~c.refused => /\ c.rev = rev[c.id] => server[c.id] = c.value
                        /\ c.op # "delete" => c.rev > 0
\* What is kept of the answers is about records the adapter believes in.
AnswersBelieved ==
  push # NoPush => /\ DOMAIN push.answers \cap push.todo = {}
                   /\ ~push.stale => DOMAIN push.answers \subseteq remoteIds

\* The baseline is right about a record whose newest revision the client knows of.
Believes(t, ids) ==
  \A id \in Ids \ raced : t[id] = rev[id] =>
    /\ server[id] # 0 /\ t[id] # 0 => id \in ids
    /\ server[id] = 0 => id \notin ids \/ setup.narrowed

\* The subscription to a query has reported every record the query finds, or is to.
QueryReported ==
  setup.narrowed /\ setup.realtime =>
    \A id \in Ids : InQuery(server[id]) =>
      \/ told[id] = rev[id]
      \/ \E k \in DOMAIN events :
            events[k].id = id /\ events[k].value # 0 /\ events[k].rev = rev[id]

\* When it reports that a record which is still there has left the query, the
\* adapter believes in the record by then, and a removal that is still to be
\* answered is answered too late.
Removing(id, r) ==
  push # NoPush /\ push.call # NoCall /\ push.call.id = id /\ push.call.op = "delete"
    /\ push.call.rev >= r
KnownBy(id, k) ==
  \/ id \in remoteIds /\ ~Removing(id, told[id])
  \/ \E j \in 1 .. k - 1 :
        events[j].id = id /\ events[j].value # 0 /\ ~Removing(id, events[j].rev)
LeaversKnown ==
  \A k \in DOMAIN events : LET e == events[k] IN
    e.value = 0 /\ e.rev = rev[e.id] /\ server[e.id] # 0 /\ e.id \notin raced
      => KnownBy(e.id, k)

BaselineInvariant ==
  /\ TypeInvariant
  /\ RevisionsKnown
  /\ EventsReport /\ RowsReport /\ PullCovers
  /\ CallWrote /\ AnswersBelieved
  /\ Believes(told, remoteIds) /\ Believes(saved.told, saved.remoteIds)
  /\ QueryReported /\ LeaversKnown

-----------------------------------------------------------------------------
(* Recursion over the numbers up to n.                                     *)

\* Induction with a set for the predicate.
LEMMA Induction ==
  ASSUME NEW T, NEW n \in Nat, 0 \in T, \A i \in 0 .. n - 1 : i \in T => i + 1 \in T
  PROVE  0 .. n \subseteq T
<1>. DEFINE Less == {p \in Nat \X Nat : p[1] < p[2]}
            Left == {i \in Nat : i <= n /\ i \notin T}
<1>1. IsWellFoundedOn(Less, Nat)
  <2>1. Less = OpToRel(<, Nat)
    BY Zenon DEF OpToRel
  <2>. QED  BY <2>1, NatLessThanWellFounded, Zenon
<1>2. SUFFICES ASSUME Left # {} PROVE FALSE
  OBVIOUS
<1>3. PICK i \in Left : \A j \in Left : ~(<<j, i>> \in Less)
  BY <1>1, <1>2, WFMin
<1>4. i # 0 /\ i - 1 \in 0 .. n - 1 /\ <<i - 1, i>> \in Less
  BY <1>3
<1>5. i - 1 \in T
  BY <1>3, <1>4
<1>. QED  BY <1>3, <1>4, <1>5

\* The values of a recursion that starts with first and goes on with step.
Runs(t, D, first, step, n) ==
  /\ t \in [0 .. n -> D]
  /\ t[0] = first
  /\ \A i \in 1 .. n : t[i] = step[<<t[i - 1], i>>]

LEMMA RecursionExists ==
  ASSUME NEW D, NEW first \in D, NEW n \in Nat, NEW step \in [D \X (1 .. n) -> D]
  PROVE  \E t : Runs(t, D, first, step, n)
<1>. DEFINE T == {m \in 0 .. n : \E t : Runs(t, D, first, step, m)}
<1>1. 0 \in T
  <2>. DEFINE t == [i \in 0 .. 0 |-> first]
  <2>1. Runs(t, D, first, step, 0)
    BY DEF Runs
  <2>. HIDE DEF t
  <2>. QED  BY <2>1
<1>2. ASSUME NEW m \in 0 .. n - 1, m \in T PROVE m + 1 \in T
  <2>1. PICK t : Runs(t, D, first, step, m)
    BY <1>2
  <2>. DEFINE next == step[<<t[m], m + 1>>]
              u == [i \in 0 .. m + 1 |-> IF i = m + 1 THEN next ELSE t[i]]
  <2>2. m \in Nat /\ m + 1 \in 1 .. n /\ m + 1 \in 0 .. n /\ m \in 0 .. m
    BY <1>2
  <2>3. t \in [0 .. m -> D] /\ t[0] = first /\ t[m] \in D
    BY <2>1, <2>2 DEF Runs
  <2>4. next \in D
    BY <2>2, <2>3
  <2>. HIDE DEF next
  <2>5. u \in [0 .. m + 1 -> D]
    <3>1. ASSUME NEW i \in 0 .. m + 1, i # m + 1 PROVE t[i] \in D
      <4>1. i \in 0 .. m
        BY <2>2, <3>1
      <4>. QED  BY <2>3, <4>1
    <3>. QED  BY <2>4, <3>1
  <2>6. u[0] = first
    BY <2>2, <2>3
  <2>7. ASSUME NEW i \in 1 .. m + 1 PROVE u[i] = step[<<u[i - 1], i>>]
    <3>1. i - 1 \in 0 .. m + 1 /\ i - 1 # m + 1 /\ i \in 0 .. m + 1
      BY <2>2
    <3>2. u[i - 1] = t[i - 1]
      BY <3>1
    <3>3. CASE i = m + 1
      <4>1. i - 1 = m /\ u[i] = next
        BY <2>2, <3>1, <3>3
      <4>. QED  BY <3>2, <3>3, <4>1 DEF next
    <3>4. CASE i # m + 1
      <4>1. i \in 1 .. m /\ u[i] = t[i]
        BY <2>2, <3>1, <3>4
      <4>. QED  BY <2>1, <3>2, <4>1 DEF Runs
    <3>. QED  BY <3>3, <3>4
  <2>. HIDE DEF u
  <2>8. Runs(u, D, first, step, m + 1)
    BY <2>5, <2>6, <2>7 DEF Runs
  <2>. QED  BY <2>2, <2>8
<1>3. \A m \in 0 .. n - 1 : m \in T => m + 1 \in T
  BY <1>2
<1>4. n \in T
  <2>. HIDE DEF T
  <2>1. 0 .. n \subseteq T
    BY <1>1, <1>3, Induction
  <2>. QED  BY <2>1
<1>. QED  BY <1>4

LEMMA RecursionTyped ==
  ASSUME NEW D, NEW n \in Nat, NEW t, t[0] \in D,
         \A i \in 1 .. n : t[i - 1] \in D => t[i] \in D
  PROVE  \A i \in 0 .. n : t[i] \in D
<1>. DEFINE T == {i \in 0 .. n : t[i] \in D}
<1>1. 0 \in T
  OBVIOUS
<1>2. ASSUME NEW i \in 0 .. n - 1, i \in T PROVE i + 1 \in T
  <2>1. i + 1 \in 1 .. n /\ (i + 1) - 1 = i /\ i + 1 \in 0 .. n
    OBVIOUS
  <2>. QED  BY <1>2, <2>1
<1>3. \A i \in 0 .. n - 1 : i \in T => i + 1 \in T
  BY <1>2
<1>4. \A i \in T : t[i] \in D
  OBVIOUS
<1>. HIDE DEF T
<1>5. 0 .. n \subseteq T
  BY <1>1, <1>3, Induction
<1>. QED  BY <1>4, <1>5

-----------------------------------------------------------------------------
(* Revisions.                                                              *)

\* A finite set of numbers has a greatest one.
LEMMA MaxFacts ==
  ASSUME NEW S, IsFiniteSet(S), S \subseteq Nat, S # {}
  PROVE  Max(S) \in S /\ \A x \in S : x <= Max(S)
<1>1. PICK n \in Nat : ExistsBijection(1 .. n, S)
  BY FS_NatBijection
<1>2. PICK f : f \in Bijection(1 .. n, S)
  BY <1>1 DEF ExistsBijection
<1>3. f \in [1 .. n -> S] /\ \A x \in S : \E i \in 1 .. n : f[i] = x
  BY <1>2 DEF Bijection, Injection, Surjection, IsInjective
<1>. DEFINE Upto(m) == {f[i] : i \in 1 .. m}
            T == {m \in 0 .. n : m = 0 \/ \E x \in S : \A i \in 1 .. m : f[i] <= x}
<1>4. 0 \in T
  OBVIOUS
<1>5. ASSUME NEW m \in 0 .. n - 1, m \in T PROVE m + 1 \in T
  <2>a. m \in Nat /\ m + 1 \in 1 .. n /\ m + 1 \in 0 .. n
    OBVIOUS
  <2>b. \A i \in 1 .. n : f[i] \in S /\ f[i] \in Nat
    BY <1>3
  <2>1. m + 1 \in 1 .. n /\ m + 1 \in 0 .. n /\ f[m + 1] \in S /\ f[m + 1] \in Nat
    BY <2>a, <2>b
  <2>2. \A i \in 1 .. m + 1 : i \in 1 .. m \/ i = m + 1
    OBVIOUS
  <2>3. \A i \in 1 .. m + 1 : f[i] \in Nat
    <3>1. \A i \in 1 .. m + 1 : i \in 1 .. n
      BY <2>a
    <3>. QED  BY <2>b, <3>1
  <2>4. CASE m = 0
    <3>1. \A i \in 1 .. m + 1 : f[i] <= f[m + 1]
      BY <2>1, <2>2, <2>4
    <3>. QED  BY <2>1, <3>1
  <2>5. CASE m # 0
    <3>1. PICK x \in S : \A i \in 1 .. m : f[i] <= x
      BY <1>5, <2>5
    <3>2. CASE f[m + 1] <= x
      BY <2>1, <2>2, <3>1, <3>2
    <3>3. CASE ~(f[m + 1] <= x)
      <4>1. x \in Nat /\ x < f[m + 1]
        BY <2>1, <3>3
      <4>2. \A i \in 1 .. m + 1 : f[i] <= f[m + 1]
        BY <2>1, <2>2, <2>3, <3>1, <4>1
      <4>. QED  BY <2>1, <4>2
    <3>. QED  BY <3>2, <3>3
  <2>. QED  BY <2>4, <2>5
<1>6. \A m \in 0 .. n - 1 : m \in T => m + 1 \in T
  BY <1>5
<1>7. n = 0 \/ \E x \in S : \A i \in 1 .. n : f[i] <= x
  <2>1. \A m \in T : m = 0 \/ \E x \in S : \A i \in 1 .. m : f[i] <= x
    OBVIOUS
  <2>. HIDE DEF T
  <2>2. 0 .. n \subseteq T
    BY <1>4, <1>6, Induction
  <2>. QED  BY <2>1, <2>2
<1>8. n # 0
  <2>1. PICK x \in S : TRUE
    OBVIOUS
  <2>2. PICK i \in 1 .. n : f[i] = x
    BY <1>3
  <2>. QED  BY <2>2
<1>9. \E x \in S : \A y \in S : x >= y
  <2>1. PICK x \in S : \A i \in 1 .. n : f[i] <= x
    BY <1>7, <1>8
  <2>2. ASSUME NEW y \in S PROVE x >= y
    <3>1. PICK i \in 1 .. n : f[i] = y
      BY <1>3
    <3>. QED  BY <2>1, <3>1
  <2>. QED  BY <2>2
<1>10. Max(S) \in S /\ \A y \in S : Max(S) >= y
  BY <1>9 DEF Max
<1>. QED  BY <1>10

LEMMA NewestFacts ==
  ASSUME NEW f \in Records, NEW id \in Ids
  PROVE  Newest(f) \in Nat /\ \A i \in Ids : f[i] <= Newest(f)
<1>. DEFINE S == {f[i] : i \in Ids}
<1>1. IsFiniteSet(S)
  <2>1. f \in Surjection(Ids, S)
    BY DEF Records, Surjection
  <2>. QED  BY <2>1, SetupsAssumption, FS_Surjection
<1>2. S \subseteq Nat /\ S # {} /\ \A i \in Ids : f[i] \in S
  BY DEF Records
<1>. HIDE DEF S
<1>3. Max(S) \in S /\ \A x \in S : x <= Max(S)
  BY <1>1, <1>2, MaxFacts
<1>4. Newest(f) = Max(S)
  BY DEF Newest, S
<1>. QED  BY <1>2, <1>3, <1>4

-----------------------------------------------------------------------------
(* Mutations over a base.                                                  *)

LEMMA MutationFacts ==
  ASSUME NEW m \in Mutations
  PROVE  /\ m.n \in Nat
         /\ m.kind = "collection" => m.value \in Records
         /\ m.kind # "collection" => m.id \in Ids /\ m.value \in Nat
BY DEF Mutations, NamedMutations, WholeMutations

LEMMA AppliedType ==
  ASSUME NEW f \in Records, NEW m \in Mutations
  PROVE  Applied(f, m) \in Records
<1>1. CASE m.kind = "collection"
  BY <1>1, MutationFacts DEF Applied, Apply, Applies
<1>2. CASE m.kind # "collection"
  <2>1. [f EXCEPT ![m.id] = m.value] \in Records
    BY <1>2, MutationFacts DEF Records
  <2>. QED  BY <1>2, <2>1 DEF Applied, Apply, Applies
<1>. QED  BY <1>1, <1>2

\* t holds what is there after each of the mutations.
Applying(t, f, ms) ==
  /\ t \in [0 .. Len(ms) -> Records]
  /\ t[0] = f
  /\ \A n \in 1 .. Len(ms) : t[n] = Applied(t[n - 1], ms[n])

LEMMA ApplyAllSteps ==
  ASSUME NEW f \in Records, NEW ms \in Seq(Mutations)
  PROVE  \E t : Applying(t, f, ms) /\ ApplyAll(f, ms) = t[Len(ms)]
<1>. DEFINE n == Len(ms)
            step == [p \in Records \X (1 .. n) |-> Applied(p[1], ms[p[2]])]
            Body(u) == [i \in 0 .. n |-> IF i = 0 THEN f ELSE Applied(u[i - 1], ms[i])]
            c == CHOOSE u : u = Body(u)
<1>1. n \in Nat /\ \A i \in 1 .. n : ms[i] \in Mutations
  BY LenProperties, ElementOfSeq
<1>2. step \in [Records \X (1 .. n) -> Records]
  BY <1>1, AppliedType
<1>3. \A g \in Records, i \in 1 .. n : step[<<g, i>>] = Applied(g, ms[i])
  OBVIOUS
<1>4. ApplyAll(f, ms) = c[n]
  BY DEF ApplyAll
<1>. HIDE DEF step, n
<1>5. PICK t : Runs(t, Records, f, step, n)
  BY <1>1, <1>2, RecursionExists
<1>6. t = Body(t)
  <2>1. t \in [0 .. n -> Records] /\ t[0] = f
    BY <1>5 DEF Runs
  <2>2. ASSUME NEW i \in 0 .. n, i # 0 PROVE t[i] = Applied(t[i - 1], ms[i])
    <3>1. i \in 1 .. n /\ i - 1 \in 0 .. n
      BY <1>1, <2>2
    <3>2. t[i - 1] \in Records
      BY <2>1, <3>1
    <3>3. t[i] = step[<<t[i - 1], i>>]
      BY <1>5, <3>1 DEF Runs
    <3>. QED  BY <1>3, <3>1, <3>2, <3>3
  <2>. QED  BY <2>1, <2>2
<1>7. c = Body(c)
  <2>1. \E u : u = Body(u)
    BY <1>6
  <2>. QED  BY <2>1
<1>. HIDE DEF c
<1>8. c[0] = f /\ \A i \in 1 .. n : c[i] = Applied(c[i - 1], ms[i])
  <2>1. \A i \in 0 .. n : c[i] = IF i = 0 THEN f ELSE Applied(c[i - 1], ms[i])
    BY <1>7
  <2>2. 0 \in 0 .. n /\ \A i \in 1 .. n : i \in 0 .. n /\ i # 0
    BY <1>1
  <2>. QED  BY <2>1, <2>2
<1>9. \A i \in 0 .. n : c[i] \in Records
  <2>1. \A i \in 1 .. n : c[i - 1] \in Records => c[i] \in Records
    BY <1>1, <1>8, AppliedType
  <2>. QED  BY <1>1, <1>8, <2>1, RecursionTyped
<1>10. Applying(c, f, ms)
  <2>1. c \in [0 .. n -> Records]
    BY <1>7, <1>9
  <2>. QED  BY <1>8, <2>1 DEF Applying, n
<1>. QED  BY <1>4, <1>10 DEF n

LEMMA ApplyAllType ==
  ASSUME NEW f \in Records, NEW ms \in Seq(Mutations)
  PROVE  ApplyAll(f, ms) \in Records
<1>1. PICK t : Applying(t, f, ms) /\ ApplyAll(f, ms) = t[Len(ms)]
  BY ApplyAllSteps
<1>2. Len(ms) \in 0 .. Len(ms)
  BY LenProperties
<1>. QED  BY <1>1, <1>2 DEF Applying

\* Two mutations one after the other.
Follows(s, a, b) ==
  \E i, k \in 1 .. Len(s) : i < k /\ s[i] = a /\ s[k] = b
InOrder(s, ms) ==
  \A i, k \in 1 .. Len(s) : i < k => Follows(ms, s[i], s[k])

\* s holds some of the mutations of another sequence, in their order.
Selected(s, ms) ==
  /\ s \in Seq(Mutations)
  /\ \A i \in 1 .. Len(s) : \E j \in 1 .. Len(ms) : s[i] = ms[j]
  /\ InOrder(s, ms)

\* One by one the mutations of ms are taken or left.
Selecting(t, ms) ==
  /\ t[0] = <<>>
  /\ \A n \in 1 .. Len(ms) : t[n] = t[n - 1] \/ t[n] = Append(t[n - 1], ms[n])

LEMMA SelectingSelects ==
  ASSUME NEW ms \in Seq(Mutations), NEW t, Selecting(t, ms)
  PROVE  Selected(t[Len(ms)], ms)
<1>. DEFINE Upto(n) == {s \in Seq(Mutations) :
                          /\ \A i \in 1 .. Len(s) : \E j \in 1 .. n : s[i] = ms[j]
                          /\ InOrder(s, ms)}
            T == {n \in 0 .. Len(ms) : t[n] \in Upto(n)}
<1>1. Len(ms) \in Nat /\ \A i \in 1 .. Len(ms) : ms[i] \in Mutations
  BY LenProperties, ElementOfSeq
<1>2. 0 \in T
  <2>1. t[0] = <<>>
    BY DEF Selecting
  <2>2. <<>> \in Seq(Mutations) /\ Len(<<>>) = 0
    OBVIOUS
  <2>3. InOrder(<<>>, ms)
    BY <2>2 DEF InOrder
  <2>4. \A i \in 1 .. Len(<<>>) : \E j \in 1 .. 0 : <<>>[i] = ms[j]
    BY <2>2
  <2>5. <<>> \in Upto(0)
    BY <2>2, <2>3, <2>4
  <2>. HIDE DEF Upto
  <2>. QED  BY <1>1, <2>1, <2>5
<1>3. ASSUME NEW n \in 0 .. Len(ms) - 1, n \in T PROVE n + 1 \in T
  <2>1. n \in Nat /\ n + 1 \in 0 .. Len(ms) /\ n + 1 \in 1 .. Len(ms) /\ (n + 1) - 1 = n
    BY <1>1
  <2>2. PICK s : s = t[n]
    OBVIOUS
  <2>3. s \in Seq(Mutations) /\ InOrder(s, ms)
        /\ \A i \in 1 .. Len(s) : \E j \in 1 .. n : s[i] = ms[j]
    BY <1>3, <2>2
  <2>4. t[n + 1] = s \/ t[n + 1] = Append(s, ms[n + 1])
    BY <2>1, <2>2 DEF Selecting
  <2>5. \A j \in 1 .. n : j \in 1 .. n + 1
    BY <2>1
  <2>6. CASE t[n + 1] = s
    BY <2>1, <2>3, <2>5, <2>6
  <2>7. CASE t[n + 1] = Append(s, ms[n + 1])
    <3>1. PICK u : u = Append(s, ms[n + 1])
      OBVIOUS
    <3>2. /\ u \in Seq(Mutations) /\ Len(u) = Len(s) + 1 /\ Len(s) \in Nat
          /\ u[Len(u)] = ms[n + 1]
          /\ \A i \in 1 .. Len(s) : u[i] = s[i]
      BY <1>1, <2>1, <2>3, <3>1, AppendProperties, LenProperties
    <3>3. ASSUME NEW i \in 1 .. Len(u) PROVE \E j \in 1 .. n + 1 : u[i] = ms[j]
      <4>1. CASE i = Len(u)
        BY <2>1, <3>2, <4>1
      <4>2. CASE i # Len(u)
        <5>1. i \in 1 .. Len(s)
          BY <3>2, <4>2
        <5>. QED  BY <2>3, <2>5, <3>2, <5>1
      <4>. QED  BY <4>1, <4>2
    <3>4. ASSUME NEW i \in 1 .. Len(u), NEW k \in 1 .. Len(u), i < k
          PROVE  Follows(ms, u[i], u[k])
      <4>1. i \in 1 .. Len(s) /\ u[i] = s[i]
        BY <3>2, <3>4
      <4>2. CASE k \in 1 .. Len(s)
        BY <2>3, <3>2, <3>4, <4>1, <4>2 DEF InOrder
      <4>3. CASE k \notin 1 .. Len(s)
        <5>1. k = Len(u) /\ u[k] = ms[n + 1]
          BY <3>2, <4>3
        <5>2. PICK j \in 1 .. n : s[i] = ms[j]
          BY <2>3, <4>1
        <5>3. j \in 1 .. Len(ms) /\ j < n + 1
          BY <1>1, <2>1
        <5>. QED  BY <2>1, <4>1, <5>1, <5>2, <5>3 DEF Follows
      <4>. QED  BY <4>2, <4>3
    <3>6. InOrder(u, ms)
      BY <3>4 DEF InOrder
    <3>5. u \in Upto(n + 1)
      BY <3>2, <3>3, <3>6
    <3>. QED  BY <2>1, <2>7, <3>1, <3>5
  <2>. QED  BY <2>4, <2>6, <2>7
<1>4. \A n \in 0 .. Len(ms) - 1 : n \in T => n + 1 \in T
  BY <1>3
<1>5. \A n \in T : t[n] \in Upto(n)
  OBVIOUS
<1>6. t[Len(ms)] \in Upto(Len(ms))
  <2>. HIDE DEF T, Upto
  <2>1. 0 .. Len(ms) \subseteq T
    BY <1>1, <1>2, <1>4, Induction
  <2>2. Len(ms) \in 0 .. Len(ms)
    BY <1>1
  <2>. QED  BY <1>5, <2>1, <2>2
<1>. QED  BY <1>6 DEF Selected

\* A recursion that takes or leaves each mutation runs, and selects.
LEMMA ReplayableFacts ==
  ASSUME NEW f \in Records, NEW ms \in Seq(Mutations)
  PROVE  Selected(Replayable(f, ms), ms)
<1>. DEFINE n == Len(ms)
            S == Seq(Mutations)
            step == [p \in S \X (1 .. n) |-> Kept(f, p[1], ms[p[2]])]
            Body(u) == [i \in 0 .. n |-> IF i = 0 THEN <<>> ELSE Kept(f, u[i - 1], ms[i])]
            c == CHOOSE u : u = Body(u)
<1>1. n \in Nat /\ \A i \in 1 .. n : ms[i] \in Mutations
  BY LenProperties, ElementOfSeq
<1>a. \A s \in S, m \in Mutations : Kept(f, s, m) \in S
  BY AppendProperties DEF Kept
<1>2. step \in [S \X (1 .. n) -> S]
  BY <1>1, <1>a
<1>3. \A s \in S, i \in 1 .. n : step[<<s, i>>] = Kept(f, s, ms[i])
  OBVIOUS
<1>4. Replayable(f, ms) = c[n]
  BY DEF Replayable
<1>b. <<>> \in S
  OBVIOUS
<1>. HIDE DEF step, n, S
<1>5. PICK t : Runs(t, S, <<>>, step, n)
  BY <1>1, <1>2, <1>b, RecursionExists
<1>6. t = Body(t)
  <2>1. t \in [0 .. n -> S] /\ t[0] = <<>>
    BY <1>5 DEF Runs
  <2>2. ASSUME NEW i \in 0 .. n, i # 0 PROVE t[i] = Kept(f, t[i - 1], ms[i])
    <3>1. i \in 1 .. n /\ i - 1 \in 0 .. n
      BY <1>1, <2>2
    <3>2. t[i - 1] \in S
      BY <2>1, <3>1
    <3>3. t[i] = step[<<t[i - 1], i>>]
      BY <1>5, <3>1 DEF Runs
    <3>. QED  BY <1>3, <3>1, <3>2, <3>3
  <2>. QED  BY <2>1, <2>2
<1>7. c = Body(c)
  <2>1. \E u : u = Body(u)
    BY <1>6
  <2>. QED  BY <2>1
<1>. HIDE DEF c
<1>8. c[0] = <<>> /\ \A i \in 1 .. n : c[i] = Kept(f, c[i - 1], ms[i])
  <2>1. \A i \in 0 .. n : c[i] = IF i = 0 THEN <<>> ELSE Kept(f, c[i - 1], ms[i])
    BY <1>7
  <2>2. 0 \in 0 .. n /\ \A i \in 1 .. n : i \in 0 .. n /\ i # 0
    BY <1>1
  <2>. QED  BY <2>1, <2>2
<1>9. Selecting(c, ms)
  BY <1>8 DEF Selecting, Kept, n
<1>10. Selected(c[n], ms)
  BY <1>9, SelectingSelects DEF n
<1>. QED  BY <1>4, <1>10

LEMMA NumberedFacts ==
  ASSUME NEW ms \in Seq(Mutations), NEW ns
  PROVE  /\ Selected(Numbered(ms, ns), ms)
         /\ \A i \in 1 .. Len(Numbered(ms, ns)) : Numbered(ms, ns)[i].n \in ns
<1>. DEFINE n == Len(ms)
            S == {s \in Seq(Mutations) : \A i \in 1 .. Len(s) : s[i].n \in ns}
            Next1(s, m) == IF m.n \in ns THEN Append(s, m) ELSE s
            step == [p \in S \X (1 .. n) |-> Next1(p[1], ms[p[2]])]
            Body(u) == [i \in 0 .. n |-> IF i = 0 THEN <<>>
                                        ELSE IF ms[i].n \in ns THEN Append(u[i - 1], ms[i])
                                        ELSE u[i - 1]]
            c == CHOOSE u : u = Body(u)
<1>1. n \in Nat /\ \A i \in 1 .. n : ms[i] \in Mutations
  BY LenProperties, ElementOfSeq
<1>a. ASSUME NEW s \in S, NEW m \in Mutations PROVE Next1(s, m) \in S
  <2>1. CASE m.n \in ns
    <3>1. /\ Append(s, m) \in Seq(Mutations) /\ Len(Append(s, m)) = Len(s) + 1
          /\ Len(s) \in Nat /\ Append(s, m)[Len(s) + 1] = m
          /\ \A i \in 1 .. Len(s) : Append(s, m)[i] = s[i]
      BY AppendProperties, LenProperties
    <3>2. \A i \in 1 .. Len(Append(s, m)) : i \in 1 .. Len(s) \/ i = Len(s) + 1
      BY <3>1
    <3>3. \A i \in 1 .. Len(Append(s, m)) : Append(s, m)[i].n \in ns
      BY <2>1, <3>1, <3>2
    <3>. QED  BY <2>1, <3>1, <3>3
  <2>. QED  BY <2>1
<1>2. step \in [S \X (1 .. n) -> S]
  BY <1>1, <1>a
<1>3. \A s \in S, i \in 1 .. n : step[<<s, i>>] = Next1(s, ms[i])
  OBVIOUS
<1>4. Numbered(ms, ns) = c[n]
  BY DEF Numbered
<1>b. <<>> \in S
  OBVIOUS
<1>c. \A s \in S : s \in Seq(Mutations) /\ \A i \in 1 .. Len(s) : s[i].n \in ns
  OBVIOUS
<1>d. \A i \in 1 .. n : \A s : Next1(s, ms[i]) =
        IF ms[i].n \in ns THEN Append(s, ms[i]) ELSE s
  OBVIOUS
<1>. HIDE DEF step, n, S, Next1
<1>5. PICK t : Runs(t, S, <<>>, step, n)
  BY <1>1, <1>2, <1>b, RecursionExists
<1>6. t = Body(t)
  <2>1. t \in [0 .. n -> S] /\ t[0] = <<>>
    BY <1>5 DEF Runs
  <2>2. ASSUME NEW i \in 0 .. n, i # 0
        PROVE  t[i] = IF ms[i].n \in ns THEN Append(t[i - 1], ms[i]) ELSE t[i - 1]
    <3>1. i \in 1 .. n /\ i - 1 \in 0 .. n
      BY <1>1, <2>2
    <3>2. t[i - 1] \in S
      BY <2>1, <3>1
    <3>3. t[i] = step[<<t[i - 1], i>>]
      BY <1>5, <3>1 DEF Runs
    <3>4. t[i] = Next1(t[i - 1], ms[i])
      BY <1>3, <3>1, <3>2, <3>3
    <3>. QED  BY <1>d, <3>1, <3>4
  <2>. QED  BY <2>1, <2>2
<1>7. c = Body(c)
  <2>1. \E u : u = Body(u)
    BY <1>6
  <2>. QED  BY <2>1
<1>. HIDE DEF c
<1>8. c[0] = <<>> /\ \A i \in 1 .. n :
         c[i] = IF ms[i].n \in ns THEN Append(c[i - 1], ms[i]) ELSE c[i - 1]
  <2>1. \A i \in 0 .. n : c[i] = IF i = 0 THEN <<>>
           ELSE IF ms[i].n \in ns THEN Append(c[i - 1], ms[i]) ELSE c[i - 1]
    BY <1>7
  <2>2. 0 \in 0 .. n /\ \A i \in 1 .. n : i \in 0 .. n /\ i # 0
    BY <1>1
  <2>. QED  BY <2>1, <2>2
<1>9. Selecting(c, ms)
  BY <1>8 DEF Selecting, n
<1>10. Selected(c[n], ms)
  BY <1>9, SelectingSelects DEF n
<1>11. c[n] \in S
  <2>1. ASSUME NEW i \in 1 .. n, c[i - 1] \in S PROVE c[i] \in S
    <3>1. c[i] = Next1(c[i - 1], ms[i])
      BY <1>8, <1>d
    <3>. QED  BY <1>1, <1>a, <2>1, <3>1
  <2>2. \A i \in 0 .. n : c[i] \in S
    BY <1>1, <1>8, <1>b, <2>1, RecursionTyped
  <2>. QED  BY <1>1, <2>2
<1>. QED  BY <1>4, <1>10, <1>11, <1>c

-----------------------------------------------------------------------------
(* What the remote does.                                                   *)

LEMMA SetupFacts ==
  ASSUME setup \in Setups
  PROVE  /\ setup.authoritative => ~setup.incremental /\ ~setup.narrowed
         /\ setup.authoritative \in BOOLEAN
         /\ ~(setup.incremental /\ setup.narrowed)
         /\ setup.rows \subseteq Ids /\ setup.written \subseteq Ids
         /\ setup.bounds \in Bounds
         /\ setup.insert \in BOOLEAN /\ setup.strictUpdate \in BOOLEAN
         /\ setup.narrowed \in BOOLEAN /\ setup.incremental \in BOOLEAN
         /\ setup.paged \in BOOLEAN /\ setup.realtime \in BOOLEAN
BY SetupsAssumption DEF Backends, Bounds

LEMMA CanonicalFacts ==
  ASSUME NEW v \in Nat
  PROVE  Canonical(v) \in Nat /\ (Canonical(v) = 0 <=> v = 0)
BY DEF Canonical

\* The changes a subscription starts with are the records it finds.
Opens(s, rows, revs) ==
  /\ s \in Seq(Changes)
  /\ \A k \in DOMAIN s : /\ InQuery(rows[s[k].id])
                         /\ s[k].value = rows[s[k].id] /\ s[k].rev = revs[s[k].id]
  /\ setup.narrowed => \A id \in Ids : InQuery(rows[id]) =>
       \E k \in DOMAIN s : s[k].id = id /\ s[k].value # 0 /\ s[k].rev = revs[id]

LEMMA OpeningFacts ==
  ASSUME NEW rows \in Records, NEW revs \in Records,
         \A id \in Ids : rows[id] # 0 => revs[id] > 0
  PROVE  Opens(Opening(rows, revs), rows, revs)
<1>1. CASE ~setup.narrowed
  BY <1>1 DEF Opening, Opens
<1>2. CASE setup.narrowed
  <2>. DEFINE Found == {j \in Ids : InQuery(rows[j])}
              Change(i) == [id |-> i, value |-> rows[i], rev |-> revs[i]]
              S == {Change(i) : i \in Found}
              n == Cardinality(S)
              s == SetToSeq(S)
  <2>1. IsFiniteSet(S)
    <3>1. IsFiniteSet(Found)
      BY SetupsAssumption, FS_Subset
    <3>2. [i \in Found |-> Change(i)] \in Surjection(Found, S)
      BY DEF Surjection
    <3>. QED  BY <3>1, <3>2, FS_Surjection
  <2>2. S \subseteq Changes
    BY DEF Changes, Records, InQuery
  <2>3. \A c \in S : InQuery(rows[c.id]) /\ c.value = rows[c.id] /\ c.rev = revs[c.id]
    OBVIOUS
  <2>4. \A i \in Found : /\ Change(i) \in S /\ Change(i).id = i
                         /\ Change(i).value # 0 /\ Change(i).rev = revs[i]
    BY DEF InQuery
  <2>5. Opening(rows, revs) = s
    BY <1>2 DEF Opening
  <2>. HIDE DEF S
  <2>6. n \in Nat /\ ExistsBijection(1 .. n, S)
    BY <2>1, FS_CardinalityType
  <2>7. PICK f : f \in Bijection(1 .. n, S)
    BY <2>6 DEF ExistsBijection
  <2>8. f \in [1 .. n -> S] /\ IsInjective(f)
    BY <2>7 DEF Bijection, Injection
  <2>9. s \in [1 .. n -> S] /\ IsInjective(s)
    BY <2>8 DEF SetToSeq
  <2>10. \A c \in S : \E k \in 1 .. n : s[k] = c
    <3>1. s \in Injection(1 .. n, S)
      BY <2>9 DEF Injection
    <3>2. Cardinality(1 .. n) = n
      BY <2>6, FS_Interval
    <3>3. s \in Surjection(1 .. n, S)
      BY <2>1, <3>1, <3>2, FS_Injection
    <3>. QED  BY <3>3 DEF Surjection
  <2>. HIDE DEF s, n
  <2>11. s \in Seq(Changes) /\ DOMAIN s = 1 .. n
    BY <2>2, <2>6, <2>9
  <2>12. \A k \in DOMAIN s : s[k] \in S
    BY <2>9, <2>11
  <2>13. \A id \in Ids : InQuery(rows[id]) =>
           \E k \in DOMAIN s : s[k].id = id /\ s[k].value # 0 /\ s[k].rev = revs[id]
    <3>. SUFFICES ASSUME NEW id \in Ids, InQuery(rows[id])
                  PROVE \E k \in DOMAIN s : s[k].id = id /\ s[k].value # 0 /\ s[k].rev = revs[id]
      OBVIOUS
    <3>1. id \in Found
      OBVIOUS
    <3>. HIDE DEF Change, Found
    <3>2. PICK k \in 1 .. n : s[k] = Change(id)
      BY <2>4, <2>10, <3>1
    <3>. QED  BY <2>4, <2>11, <3>1, <3>2
  <2>. QED  BY <2>3, <2>5, <2>11, <2>12, <2>13 DEF Opens
<1>. QED  BY <1>1, <1>2

\* What the subscription is told of a write, if anything.
ChangeReported(id, v) ==
  LET seen == setup.realtime /\ (InQuery(server[id]) \/ InQuery(v))
  IN  \/ ~seen /\ events' = events
      \/ seen /\ \E c \in Changes :
           /\ events' = Append(events, c)
           /\ c.id = id /\ c.rev = rev'[id] /\ c.value = IF InQuery(v) THEN v ELSE 0

\* A write gives its record a revision newer than any.
RemoteWrote(id, v) ==
  /\ server'[id] = v /\ \A i \in Ids \ {id} : server'[i] = server[i] /\ rev'[i] = rev[i]
  /\ \A i \in Ids : rev[i] < rev'[id]
  /\ ChangeReported(id, v)

LEMMA WriteEffect ==
  ASSUME RemoteType, NEW id \in Ids, NEW v \in Nat, ServerWrites(id, v)
  PROVE  /\ RemoteType'
         /\ (UNCHANGED remote /\ server[id] = v) \/ RemoteWrote(id, v)
<1>1. CASE UNCHANGED remote /\ server[id] = v
  BY <1>1 DEF remote, RemoteType
<1>2. CASE /\ server' = [server EXCEPT ![id] = v]
           /\ rev' = [rev EXCEPT ![id] = Newest(rev) + 1]
           /\ events' = events \o Reported(id, server[id], v)
  <2>1. server \in Records /\ rev \in Records /\ events \in Seq(Changes)
    BY DEF RemoteType
  <2>2. Newest(rev) \in Nat /\ \A i \in Ids : rev[i] <= Newest(rev)
    BY <2>1, NewestFacts
  <2>3. server' \in Records /\ rev' \in Records
    BY <1>2, <2>1, <2>2 DEF Records
  <2>4. /\ server'[id] = v /\ rev'[id] = Newest(rev) + 1
        /\ \A i \in Ids \ {id} : server'[i] = server[i] /\ rev'[i] = rev[i]
    BY <1>2, <2>1 DEF Records
  <2>5. \A i \in Ids : rev[i] < rev'[id]
    BY <2>1, <2>2, <2>4 DEF Records
  <2>6. events' \in Seq(Changes) /\ ChangeReported(id, v)
    <3>1. CASE ~(setup.realtime /\ (InQuery(server[id]) \/ InQuery(v)))
      <4>1. events' = events
        BY <1>2, <2>1, <3>1, ConcatEmptySeq DEF Reported
      <4>. QED  BY <2>1, <3>1, <4>1 DEF ChangeReported
    <3>2. CASE setup.realtime /\ (InQuery(server[id]) \/ InQuery(v))
      <4>. DEFINE c == [id |-> id, value |-> IF InQuery(v) THEN v ELSE 0, rev |-> Newest(rev) + 1]
      <4>1. c \in Changes
        BY <2>2 DEF Changes
      <4>2. Reported(id, server[id], v) = <<c>>
        BY <3>2 DEF Reported
      <4>3. c.id = id /\ c.rev = rev'[id] /\ c.value = IF InQuery(v) THEN v ELSE 0
        BY <2>4
      <4>. HIDE DEF c
      <4>4. events' = Append(events, c)
        BY <1>2, <2>1, <4>1, <4>2, AppendIsConcat
      <4>5. events' \in Seq(Changes)
        BY <2>1, <4>1, <4>4, AppendProperties
      <4>. QED  BY <3>2, <4>1, <4>3, <4>4, <4>5 DEF ChangeReported
    <3>. QED  BY <3>1, <3>2
  <2>. QED  BY <2>3, <2>4, <2>5, <2>6 DEF RemoteType, RemoteWrote
<1>. QED  BY <1>1, <1>2 DEF ServerWrites

-----------------------------------------------------------------------------
(* A write on the remote.                                                  *)

LEMMA EventTyped ==
  ASSUME events \in Seq(Changes), NEW k \in DOMAIN events
  PROVE  events[k].id \in Ids /\ events[k].value \in Nat /\ events[k].rev \in Nat /\ events[k].rev > 0
<1>1. events[k] \in Changes
  OBVIOUS
<1>. QED  BY <1>1 DEF Changes

LEMMA CallTyped ==
  ASSUME RequestType, push # NoPush, push.call # NoCall
  PROVE  /\ push.call.id \in Ids /\ push.call.op \in {"create", "update", "delete"}
         /\ push.call.value \in Nat /\ push.call.rev \in Nat /\ push.call.refused \in BOOLEAN
<1>1. push \in Pushes
  BY DEF RequestType
<1>2. push.call \in Calls
  BY <1>1 DEF Pushes
<1>. QED  BY <1>2 DEF Calls

\* What the invariant says of the remote and what is known of it.
KnownParts ==
  /\ RevisionsKnown /\ EventsReport
  /\ Believes(told, remoteIds) /\ Believes(saved.told, saved.remoteIds)
  /\ QueryReported /\ LeaversKnown

\* No call that is still to be answered removes a record, but those that did before.
NoNewRemoval ==
  \A id \in Ids : server'[id] # 0 => \A r : Removing(id, r)' => Removing(id, r)

\* Nothing happened between the remote and the adapter, but for a checkpoint and
\* for what is written off.
LEMMA StayKeeps ==
  ASSUME TypeInvariant, KnownParts, NoNewRemoval, UNCHANGED <<setup, remote, remoteIds, told>>,
         raced \subseteq raced',
         saved' = saved \/ saved' = [remoteIds |-> remoteIds, told |-> told]
  PROVE  KnownParts'
<1>1. EventsReport' /\ QueryReported'
  BY DEF EventsReport, Reports, Visible, InQuery, QueryReported, KnownParts, remote
<1>2. RevisionsKnown'
  BY DEF RevisionsKnown, KnownParts, remote
<1>3. Believes(told, remoteIds)' /\ Believes(saved.told, saved.remoteIds)'
  BY DEF Believes, KnownParts, remote
<1>4. LeaversKnown'
  <2>. SUFFICES ASSUME NEW k \in DOMAIN events, events[k].value = 0,
                       events[k].rev = rev[events[k].id], server[events[k].id] # 0,
                       events[k].id \notin raced
                PROVE  KnownBy(events[k].id, k)'
    BY DEF LeaversKnown, remote
  <2>1. PICK id \in Ids : id = events[k].id
    BY EventTyped DEF TypeInvariant, RemoteType
  <2>2. KnownBy(id, k)
    BY <2>1 DEF KnownParts, LeaversKnown
  <2>3. \A r : Removing(id, r)' => Removing(id, r)
    BY <2>1 DEF NoNewRemoval, remote
  <2>4. KnownBy(id, k)'
    BY <2>2, <2>3 DEF KnownBy, remote
  <2>. QED  BY <2>1, <2>4 DEF remote
<1>. QED  BY <1>1, <1>2, <1>3, <1>4 DEF KnownParts

\* What a pull has heard stays as it was, unless it is out of date.
LEMMA RowsStay ==
  ASSUME RowsReport, UNCHANGED <<setup, remote>>, raced \subseteq raced',
         \/ pull' = NoPull
         \/ pull # NoPull /\ pull' = Overtaken(pull)
         \/ pull' = pull /\ \A id \in Ids : pull = NoPull \/ told'[id] = told[id] \/ id \in raced',
         RequestType
  PROVE  RowsReport'
<1>0. ASSUME NEW id, NEW v, NEW r, Reports(id, v, r) PROVE Reports(id, v, r)'
  BY <1>0 DEF Reports, Visible, InQuery, remote
<1>1. CASE pull' = NoPull
  <2>1. DOMAIN pull'.rows = {}
    BY <1>1 DEF NoPull
  <2>. QED  BY <2>1 DEF RowsReport
<1>2. CASE pull # NoPull /\ pull' = Overtaken(pull)
  <2>1. pull \in Pulls
    BY <1>2 DEF RequestType
  <2>2. pull'.rows = pull.rows /\ pull'.stale = TRUE
    BY <1>2, <2>1 DEF Pulls, Overtaken
  <2>3. ASSUME NEW id \in DOMAIN pull.rows
        PROVE  /\ Reports(id, pull.rows[id].value, pull.rows[id].rev)'
               /\ setup.incremental => pull.rows[id].value # 0
    <3>1. Reports(id, pull.rows[id].value, pull.rows[id].rev)
      BY DEF RowsReport
    <3>2. PICK v, r : v = pull.rows[id].value /\ r = pull.rows[id].rev
      OBVIOUS
    <3>3. Reports(id, v, r)'
      BY <1>0, <3>1, <3>2
    <3>. QED  BY <2>2, <3>2, <3>3 DEF RowsReport
  <2>. QED  BY <2>2, <2>3 DEF RowsReport
<1>3. CASE pull' = pull /\ \A id \in Ids : pull = NoPull \/ told'[id] = told[id] \/ id \in raced'
  <2>1. \A id \in DOMAIN pull.rows : pull # NoPull => id \in Ids
    BY DEF RequestType, Pulls, Answers
  <2>3. ASSUME NEW id \in DOMAIN pull.rows
        PROVE  Reports(id, pull.rows[id].value, pull.rows[id].rev)'
    <3>1. Reports(id, pull.rows[id].value, pull.rows[id].rev)
      BY DEF RowsReport
    <3>2. PICK v, r : v = pull.rows[id].value /\ r = pull.rows[id].rev
      OBVIOUS
    <3>3. Reports(id, v, r)'
      BY <1>0, <3>1, <3>2
    <3>. QED  BY <1>3, <3>2, <3>3
  <2>. QED  BY <1>3, <2>1, <2>3 DEF RowsReport
<1>. QED  BY <1>1, <1>2, <1>3

\* The reports there were, and the new one.
LEMMA ReportsAfter ==
  ASSUME RemoteType, RemoteType', NEW id \in Ids, NEW v \in Nat, RemoteWrote(id, v)
  PROVE  /\ DOMAIN events = 1 .. Len(events) /\ Len(events) \in Nat
         /\ \A k \in DOMAIN events : k \in DOMAIN events' /\ events'[k] = events[k]
         /\ \A k \in DOMAIN events' : k \notin DOMAIN events =>
              /\ k = Len(events) + 1 /\ events'[k].id = id /\ events'[k].rev = rev'[id]
              /\ events'[k].value = IF InQuery(v) THEN v ELSE 0
              /\ InQuery(server[id]) \/ InQuery(v)
         /\ setup.realtime /\ InQuery(v) => Len(events) + 1 \in DOMAIN events'
<1>. DEFINE n == Len(events)
<1>1. events \in Seq(Changes) /\ DOMAIN events = 1 .. n /\ n \in Nat
  BY LenProperties DEF RemoteType
<1>2. CASE events' = events /\ ~(setup.realtime /\ (InQuery(server[id]) \/ InQuery(v)))
  BY <1>1, <1>2
<1>3. CASE /\ setup.realtime /\ (InQuery(server[id]) \/ InQuery(v))
           /\ \E c \in Changes :
                /\ events' = Append(events, c)
                /\ c.id = id /\ c.rev = rev'[id] /\ c.value = IF InQuery(v) THEN v ELSE 0
  <2>1. PICK c \in Changes :
                /\ events' = Append(events, c)
                /\ c.id = id /\ c.rev = rev'[id] /\ c.value = IF InQuery(v) THEN v ELSE 0
    BY <1>3
  <2>2. /\ Len(events') = n + 1 /\ events' \in Seq(Changes) /\ events'[n + 1] = c
        /\ \A k \in 1 .. n : events'[k] = events[k]
    BY <1>1, <2>1, AppendProperties
  <2>3. DOMAIN events' = 1 .. n + 1
    BY <2>2, LenProperties
  <2>4. \A k \in 1 .. n + 1 : k \in 1 .. n \/ k = n + 1
    BY <1>1
  <2>. QED  BY <1>1, <1>3, <2>1, <2>2, <2>3, <2>4
<1>. QED  BY <1>2, <1>3 DEF RemoteWrote, ChangeReported

LEMMA WriteKeepsReports ==
  ASSUME TypeInvariant, KnownParts, RowsReport, UNCHANGED <<setup, client, pull>>,
         RemoteType', NEW id \in Ids, NEW v \in Nat, RemoteWrote(id, v)
  PROVE  /\ RevisionsKnown' /\ EventsReport' /\ RowsReport'
         /\ Believes(told, remoteIds)' /\ Believes(saved.told, saved.remoteIds)'
         /\ QueryReported'
<1>1. /\ server \in Records /\ rev \in Records /\ server' \in Records /\ rev' \in Records
      /\ told \in Records /\ saved.told \in Records
  BY DEF TypeInvariant, RemoteType, ClientType
<1>2. /\ server'[id] = v /\ \A i \in Ids \ {id} : server'[i] = server[i] /\ rev'[i] = rev[i]
      /\ \A i \in Ids : rev[i] < rev'[id]
  BY DEF RemoteWrote
<1>3. UNCHANGED <<setup, told, saved, remoteIds, raced, pull>>
  BY DEF client
<1>a. \A i \in Ids : rev[i] \in Nat /\ rev'[i] \in Nat /\ told[i] \in Nat /\ saved.told[i] \in Nat
  BY <1>1 DEF Records
<1>4. \A i \in Ids : rev[i] <= rev'[i] /\ (i # id => rev'[i] = rev[i])
  BY <1>2, <1>a
<1>5. RevisionsKnown'
  <2>. SUFFICES ASSUME NEW i \in Ids
                PROVE  /\ told[i] <= rev'[i] /\ saved.told[i] <= rev'[i]
                       /\ server'[i] # 0 \/ i \in remoteIds \/ i \in saved.remoteIds => rev'[i] > 0
    BY <1>3 DEF RevisionsKnown
  <2>1. /\ told[i] <= rev[i] /\ saved.told[i] <= rev[i]
        /\ server[i] # 0 \/ i \in remoteIds \/ i \in saved.remoteIds => rev[i] > 0
    BY DEF KnownParts, RevisionsKnown
  <2>2. CASE i = id
    BY <1>2, <1>a, <2>1, <2>2
  <2>3. CASE i # id
    BY <1>2, <2>1, <2>3
  <2>. QED  BY <2>2, <2>3
<1>6. ASSUME NEW i \in Ids, NEW w, NEW r \in Nat, Reports(i, w, r) PROVE Reports(i, w, r)'
  <2>1. CASE i = id
    BY <1>2, <1>6, <1>a, <2>1 DEF Reports
  <2>2. CASE i # id
    BY <1>2, <1>3, <1>6, <2>2 DEF Reports, Visible, InQuery
  <2>. QED  BY <2>1, <2>2
<1>7. EventsReport'
  <2>. SUFFICES ASSUME NEW k \in DOMAIN events'
                PROVE  Reports(events[k].id, events[k].value, events[k].rev)'
    BY DEF EventsReport
  <2>1. CASE k \in DOMAIN events
    <3>1. events'[k] = events[k]
      BY <2>1, ReportsAfter DEF TypeInvariant
    <3>2. events[k].id \in Ids /\ events[k].rev \in Nat
      BY <2>1, EventTyped DEF TypeInvariant, RemoteType
    <3>3. Reports(events[k].id, events[k].value, events[k].rev)
      BY <2>1 DEF KnownParts, EventsReport
    <3>4. PICK i, w, r : i = events[k].id /\ w = events[k].value /\ r = events[k].rev
      OBVIOUS
    <3>5. Reports(i, w, r)'
      BY <1>6, <3>2, <3>3, <3>4
    <3>. QED  BY <3>1, <3>4, <3>5
  <2>2. CASE k \notin DOMAIN events
    <3>1. /\ events'[k].id = id /\ events'[k].rev = rev'[id]
          /\ events'[k].value = IF InQuery(v) THEN v ELSE 0
      BY <2>2, ReportsAfter DEF TypeInvariant
    <3>2. Visible(id)' = IF InQuery(v) THEN v ELSE 0
      BY <1>2, <1>3 DEF Visible, InQuery
    <3>. QED  BY <1>a, <3>1, <3>2 DEF Reports
  <2>. QED  BY <2>1, <2>2
<1>8. RowsReport'
  <2>. SUFFICES ASSUME NEW i \in DOMAIN pull.rows
                PROVE  Reports(i, pull.rows[i].value, pull.rows[i].rev)'
    BY <1>3 DEF RowsReport
  <2>1. CASE pull = NoPull
    <3>1. DOMAIN pull.rows = {}
      BY <2>1 DEF NoPull
    <3>. QED  BY <3>1
  <2>2. CASE pull # NoPull
    <3>1. i \in Ids /\ pull.rows[i].rev \in Nat
      BY <2>2 DEF TypeInvariant, RequestType, Pulls, Answers, Rows
    <3>2. Reports(i, pull.rows[i].value, pull.rows[i].rev)
      BY DEF RowsReport
    <3>3. PICK w, r : w = pull.rows[i].value /\ r = pull.rows[i].rev
      OBVIOUS
    <3>4. Reports(i, w, r)'
      BY <1>6, <3>1, <3>2, <3>3
    <3>. QED  BY <1>3, <3>3, <3>4
  <2>. QED  BY <2>1, <2>2
<1>9. Believes(told, remoteIds)' /\ Believes(saved.told, saved.remoteIds)'
  <2>1. \A i \in Ids : told[i] <= rev[i] /\ saved.told[i] <= rev[i]
    BY DEF KnownParts, RevisionsKnown
  <2>2. \A i \in Ids : told[i] = rev'[i] \/ saved.told[i] = rev'[i] => i # id
    BY <1>2, <1>a, <2>1
  <2>3. \A i \in Ids : i # id => server'[i] = server[i] /\ rev'[i] = rev[i]
    BY <1>2
  <2>. QED  BY <1>3, <2>2, <2>3 DEF KnownParts, Believes
<1>10. QueryReported'
  <2>. SUFFICES ASSUME setup.narrowed, setup.realtime, NEW i \in Ids, InQuery(server'[i])
                PROVE  \/ told[i] = rev'[i]
                       \/ \E k \in DOMAIN events' : /\ events'[k].id = i /\ events'[k].value # 0
                                                    /\ events'[k].rev = rev'[i]
    BY <1>3 DEF QueryReported, InQuery
  <2>1. CASE i = id
    <3>1. Len(events) + 1 \in DOMAIN events' /\ Len(events) + 1 \notin DOMAIN events
      BY <1>2, <2>1, ReportsAfter DEF TypeInvariant
    <3>2. PICK k \in DOMAIN events' : k \notin DOMAIN events
      BY <3>1
    <3>3. /\ events'[k].id = id /\ events'[k].rev = rev'[id]
          /\ events'[k].value = IF InQuery(v) THEN v ELSE 0
      BY <3>2, ReportsAfter DEF TypeInvariant
    <3>4. events'[k].value # 0
      BY <1>2, <2>1, <3>3 DEF InQuery
    <3>. QED  BY <2>1, <3>3, <3>4
  <2>2. CASE i # id
    <3>1. server'[i] = server[i] /\ rev'[i] = rev[i]
      BY <1>2, <2>2
    <3>2. \/ told[i] = rev[i]
          \/ \E k \in DOMAIN events :
               events[k].id = i /\ events[k].value # 0 /\ events[k].rev = rev[i]
      BY <3>1 DEF KnownParts, QueryReported
    <3>3. \A k \in DOMAIN events : k \in DOMAIN events' /\ events'[k] = events[k]
      BY ReportsAfter DEF TypeInvariant
    <3>. QED  BY <3>1, <3>2, <3>3
  <2>. QED  BY <2>1, <2>2
<1>. QED  BY <1>5, <1>7, <1>8, <1>9, <1>10

LEMMA WriteKeepsLeavers ==
  ASSUME TypeInvariant, KnownParts, CallWrote, NoNewRemoval, UNCHANGED <<setup, client, pull>>,
         RemoteType', NEW id \in Ids, NEW v \in Nat, RemoteWrote(id, v)
  PROVE  LeaversKnown'
<1>1. /\ server \in Records /\ rev \in Records /\ server' \in Records /\ rev' \in Records
      /\ told \in Records /\ events \in Seq(Changes)
  BY DEF TypeInvariant, RemoteType, ClientType
<1>2. /\ server'[id] = v /\ \A i \in Ids \ {id} : server'[i] = server[i] /\ rev'[i] = rev[i]
      /\ \A i \in Ids : rev[i] < rev'[id]
  BY DEF RemoteWrote
<1>3. UNCHANGED <<setup, told, remoteIds, raced>>
  BY DEF client
<1>4. \A i \in Ids : rev[i] \in Nat /\ rev'[i] \in Nat
  BY <1>1 DEF Records
<1>5. \A k \in DOMAIN events : k \in DOMAIN events' /\ events'[k] = events[k]
  BY ReportsAfter DEF TypeInvariant
<1>6. DOMAIN events = 1 .. Len(events) /\ Len(events) \in Nat
  BY ReportsAfter DEF TypeInvariant
<1>. SUFFICES ASSUME NEW k \in DOMAIN events', events'[k].value = 0,
                     events'[k].rev = rev'[events'[k].id], server'[events'[k].id] # 0,
                     events'[k].id \notin raced
              PROVE  KnownBy(events[k].id, k)'
  BY <1>3 DEF LeaversKnown
<1>7. CASE k \in DOMAIN events
  <2>1. PICK i \in Ids : i = events[k].id
    BY <1>1, <1>7, EventTyped
  <2>2. events[k].rev <= rev[i]
    BY <1>7, <2>1 DEF KnownParts, EventsReport, Reports
  <2>3. events'[k] = events[k]
    BY <1>5, <1>7
  <2>4. i # id /\ server'[i] = server[i] /\ rev'[i] = rev[i]
    BY <1>2, <1>4, <2>1, <2>2, <2>3
  <2>5. KnownBy(i, k)
    BY <1>7, <2>1, <2>3, <2>4 DEF KnownParts, LeaversKnown
  <2>6. \A r : Removing(i, r)' => Removing(i, r)
    BY <2>1, <2>3 DEF NoNewRemoval
  <2>7. \A j \in 1 .. k - 1 : events'[j] = events[j]
    BY <1>5, <1>6, <1>7
  <2>8. KnownBy(i, k)'
    BY <1>3, <2>5, <2>6, <2>7 DEF KnownBy
  <2>. QED  BY <2>1, <2>3, <2>8
<1>8. CASE k \notin DOMAIN events
  <2>1. /\ k = Len(events) + 1 /\ events'[k].id = id /\ events'[k].rev = rev'[id]
        /\ events'[k].value = IF InQuery(v) THEN v ELSE 0
        /\ InQuery(server[id]) \/ InQuery(v)
    BY <1>8, ReportsAfter DEF TypeInvariant
  <2>2. v # 0 /\ ~InQuery(v) /\ setup.narrowed /\ InQuery(server[id]) /\ id \notin raced
    BY <1>2, <2>1 DEF InQuery
  <2>3. server[id] # 0 /\ \A r : Removing(id, r)' => Removing(id, r)
    BY <1>2, <2>2 DEF InQuery, NoNewRemoval
  <2>4. ~Removing(id, rev[id])
    <3>. SUFFICES ASSUME Removing(id, rev[id]) PROVE FALSE
      OBVIOUS
    <3>1. push # NoPush /\ push.call # NoCall /\ push.call.id = id /\ push.call.op = "delete"
          /\ push.call.rev >= rev[id]
      BY DEF Removing
    <3>2. push.call.rev \in Nat
      BY <3>1, CallTyped DEF TypeInvariant
    <3>3. push.call.rev = rev[id] /\ push.call.value = 0
      BY <1>4, <3>1, <3>2 DEF CallWrote
    <3>4. server[id] = 0
      BY <3>1, <3>3 DEF CallWrote
    <3>. QED  BY <2>3, <3>4
  <2>5. setup.realtime
    BY <1>6, <1>8 DEF RemoteWrote, ChangeReported
  <2>6. CASE told[id] = rev[id]
    <3>1. rev[id] > 0
      BY <2>3 DEF KnownParts, RevisionsKnown
    <3>2. id \in remoteIds
      BY <2>2, <2>3, <2>6, <3>1 DEF KnownParts, Believes
    <3>. QED  BY <1>3, <2>1, <2>3, <2>4, <2>6, <3>2 DEF KnownBy
  <2>7. CASE \E j \in DOMAIN events :
               events[j].id = id /\ events[j].value # 0 /\ events[j].rev = rev[id]
    <3>1. PICK j \in DOMAIN events :
               events[j].id = id /\ events[j].value # 0 /\ events[j].rev = rev[id]
      BY <2>7
    <3>2. j \in 1 .. k - 1 /\ events'[j] = events[j]
      BY <1>5, <1>6, <2>1
    <3>. QED  BY <2>1, <2>3, <2>4, <3>1, <3>2 DEF KnownBy
  <2>. QED  BY <2>2, <2>5, <2>6, <2>7 DEF KnownParts, QueryReported
<1>. QED  BY <1>7, <1>8

-----------------------------------------------------------------------------
(* Each step keeps the invariant.                                          *)

\* A request goes on, is overtaken or ends.
PullStays == pull' = pull \/ pull' = NoPull \/ (pull # NoPull /\ pull' = Overtaken(pull))
PushStays == push' = push \/ push' = NoPush \/ (push # NoPush /\ push' = Overtaken(push))

LEMMA PullGoesOn ==
  ASSUME RequestType, PullCovers, PullStays, UNCHANGED setup
  PROVE  pull' \in {NoPull} \cup Pulls /\ PullCovers'
<1>1. CASE pull' = pull
  BY <1>1 DEF RequestType, PullCovers
<1>2. CASE pull' = NoPull
  BY <1>2 DEF PullCovers
<1>3. CASE pull # NoPull /\ pull' = Overtaken(pull)
  <2>1. pull \in Pulls
    BY <1>3 DEF RequestType
  <2>2. pull' \in Pulls /\ pull'.rows = pull.rows /\ pull'.done = pull.done
    BY <1>3, <2>1 DEF Pulls, Overtaken
  <2>. QED  BY <1>3, <2>2 DEF PullCovers
<1>. QED  BY <1>1, <1>2, <1>3 DEF PullStays

LEMMA PushGoesOn ==
  ASSUME RequestType, PushStays
  PROVE  /\ push' \in {NoPush} \cup Pushes
         /\ push' # NoPush => /\ push # NoPush /\ push'.call = push.call
                              /\ push'.todo = push.todo /\ push'.answers = push.answers
                              /\ push'.mutations = push.mutations /\ push'.records = push.records
                              /\ push'.at = push.at /\ push'.touched = push.touched
                              /\ push'.deleted = push.deleted
                              /\ ~push'.stale => push' = push
         /\ \A id, r : Removing(id, r)' => Removing(id, r)
<1>1. CASE push' = push
  BY <1>1 DEF RequestType, Removing
<1>2. CASE push' = NoPush
  BY <1>2 DEF Removing
<1>3. CASE push # NoPush /\ push' = Overtaken(push)
  <2>1. push \in Pushes
    BY <1>3 DEF RequestType
  <2>2. push' \in Pushes /\ push'.stale = TRUE
        /\ push'.call = push.call /\ push'.todo = push.todo /\ push'.answers = push.answers
        /\ push'.mutations = push.mutations /\ push'.records = push.records
        /\ push'.at = push.at /\ push'.touched = push.touched /\ push'.deleted = push.deleted
    BY <1>3, <2>1 DEF Pushes, Overtaken
  <2>. QED  BY <1>3, <2>2 DEF Removing
<1>. QED  BY <1>1, <1>2, <1>3 DEF PushStays

LEMMA CallGoesOn ==
  ASSUME RequestType, CallWrote, PushStays, UNCHANGED <<server, rev>>
  PROVE  CallWrote'
BY PushGoesOn DEF CallWrote

LEMMA SpendTyped ==
  ASSUME budget \in Bounds, NEW what \in {"local", "others", "lost", "crash"}, Spend(what)
  PROVE  budget' \in Bounds /\ budget[what] \in Nat /\ budget[what] > 0
<1>1. CASE what = "local"
  BY <1>1 DEF Bounds, Spend
<1>2. CASE what = "others"
  BY <1>2 DEF Bounds, Spend
<1>3. CASE what = "lost"
  BY <1>3 DEF Bounds, Spend
<1>4. CASE what = "crash"
  BY <1>4 DEF Bounds, Spend
<1>. QED  BY <1>1, <1>2, <1>3, <1>4

\* A mutation joins the outbox.
LEMMA CommitKeeps ==
  ASSUME BaselineInvariant, NEW m \in Mutations, Commit(m)
  PROVE  BaselineInvariant'
<1>1. /\ Spend("local") /\ outbox' = Append(outbox, [m EXCEPT !.n = budget.local])
      /\ UNCHANGED <<setup, remote, base, remoteIds, cursor, pullOwed, told, raced, push, pull>>
      /\ saved' = [remoteIds |-> remoteIds, told |-> told]
  BY DEF Commit, Checkpoint
<1>2. TypeInvariant
  BY DEF BaselineInvariant
<1>3. budget' \in Bounds /\ budget.local \in Nat
  BY <1>1, <1>2, SpendTyped DEF TypeInvariant
<1>4. [m EXCEPT !.n = budget.local] \in Mutations
  BY <1>3 DEF Mutations, NamedMutations, WholeMutations
<1>5. outbox' \in Seq(Mutations)
  BY <1>1, <1>2, <1>4, AppendProperties DEF TypeInvariant, ClientType
<1>6. TypeInvariant'
  BY <1>1, <1>2, <1>3, <1>5 DEF TypeInvariant, RemoteType, ClientType, RequestType, remote
<1>7. NoNewRemoval
  BY <1>1 DEF NoNewRemoval, Removing
<1>8. KnownParts'
  BY <1>1, <1>2, <1>7, StayKeeps DEF BaselineInvariant, KnownParts
<1>9. RowsReport'
  BY <1>1, <1>2, RowsStay DEF BaselineInvariant, TypeInvariant
<1>10. PullCovers' /\ CallWrote' /\ AnswersBelieved'
  BY <1>1 DEF BaselineInvariant, PullCovers, CallWrote, AnswersBelieved, remote
<1>. QED  BY <1>6, <1>8, <1>9, <1>10 DEF BaselineInvariant, KnownParts

LEMMA WriteKeeps ==
  ASSUME BaselineInvariant, Write
  PROVE  BaselineInvariant'
<1>1. setup.written \subseteq Ids
  BY SetupFacts DEF BaselineInvariant, TypeInvariant
<1>2. PICK id \in setup.written, v \in {0, 1, 2}, kind \in {"add", "replace", "field", "remove"} :
        Commit(Mutation(kind, id, v))
  BY DEF Write
<1>3. Mutation(kind, id, v) \in Mutations
  BY <1>1 DEF Mutation, Mutations, NamedMutations
<1>. QED  BY <1>2, <1>3, CommitKeeps

LEMMA WriteAllKeeps ==
  ASSUME BaselineInvariant, WriteAll
  PROVE  BaselineInvariant'
<1>1. PICK id \in Ids : Commit(Mutation("collection", 0, [i \in Ids |-> IF i = id THEN 2 ELSE 0]))
  BY DEF WriteAll
<1>2. Mutation("collection", 0, [i \in Ids |-> IF i = id THEN 2 ELSE 0]) \in Mutations
  BY DEF Mutation, Mutations, WholeMutations, Records
<1>. QED  BY <1>1, <1>2, CommitKeeps

\* Another client writes.
LEMMA OthersKeeps ==
  ASSUME BaselineInvariant, Others
  PROVE  BaselineInvariant'
<1>1. TypeInvariant /\ KnownParts /\ RowsReport
  BY DEF BaselineInvariant, KnownParts
<1>2. setup.written \subseteq Ids
  BY <1>1, SetupFacts DEF TypeInvariant
<1>3. PICK id \in Ids, v \in Nat :
        /\ Spend("others") /\ server[id] # v /\ ServerWrites(id, v)
        /\ UNCHANGED <<setup, client, push, pull>>
  BY <1>2 DEF Others
<1>4. RemoteType' /\ RemoteWrote(id, v)
  BY <1>1, <1>3, WriteEffect DEF TypeInvariant
<1>5. budget' \in Bounds
  BY <1>1, <1>3, SpendTyped DEF TypeInvariant
<1>6. TypeInvariant'
  BY <1>1, <1>3, <1>4, <1>5 DEF TypeInvariant, ClientType, RequestType, client
<1>7. NoNewRemoval
  BY <1>3 DEF NoNewRemoval, Removing
<1>8. KnownParts' /\ RowsReport'
  BY <1>1, <1>3, <1>4, <1>7, WriteKeepsReports, WriteKeepsLeavers DEF BaselineInvariant, KnownParts
<1>9. PullCovers' /\ AnswersBelieved'
  BY <1>3 DEF BaselineInvariant, PullCovers, AnswersBelieved, client
<1>10. CallWrote'
  <2>. SUFFICES ASSUME push # NoPush, push.call # NoCall PROVE CallWrote'
    BY <1>3 DEF CallWrote
  <2>1. push.call.id \in Ids /\ push.call.rev \in Nat
    BY <1>1, CallTyped DEF TypeInvariant
  <2>2. rev[push.call.id] \in Nat /\ rev'[push.call.id] \in Nat
    BY <1>1, <1>4, <2>1 DEF TypeInvariant, RemoteType, Records
  <2>3. push.call.rev <= rev[push.call.id]
    BY DEF BaselineInvariant, CallWrote
  <2>4. CASE push.call.id = id
    <3>1. push.call.rev < rev'[push.call.id]
      BY <1>4, <2>1, <2>2, <2>3, <2>4 DEF RemoteWrote
    <3>. QED  BY <1>3, <2>1, <2>2, <3>1 DEF BaselineInvariant, CallWrote
  <2>5. CASE push.call.id # id
    <3>1. server'[push.call.id] = server[push.call.id] /\ rev'[push.call.id] = rev[push.call.id]
      BY <1>4, <2>1, <2>5 DEF RemoteWrote
    <3>. QED  BY <1>3, <3>1 DEF BaselineInvariant, CallWrote
  <2>. QED  BY <2>4, <2>5
<1>. QED  BY <1>6, <1>8, <1>9, <1>10 DEF BaselineInvariant, KnownParts

\* The process ends and another one starts from the checkpoint.
LEMMA RestartKeeps ==
  ASSUME BaselineInvariant, Restart
  PROVE  BaselineInvariant'
<1>1. TypeInvariant /\ KnownParts
  BY DEF BaselineInvariant, KnownParts
<1>2. /\ Spend("crash") /\ remoteIds' = saved.remoteIds
      /\ push' = NoPush /\ pull' = NoPull /\ pullOwed' = TRUE /\ events' = Opening(server, rev)
      /\ UNCHANGED <<setup, server, rev, cursor, raced, saved>>
  BY DEF Restart
<1>3. /\ server \in Records /\ rev \in Records /\ base \in Records /\ outbox \in Seq(Mutations)
      /\ saved.remoteIds \in SUBSET Ids /\ saved.told \in Records
  BY <1>1 DEF TypeInvariant, RemoteType, ClientType
<1>4. \A id \in Ids : /\ saved.told[id] <= rev[id] /\ rev[id] \in Nat /\ saved.told[id] \in Nat
                      /\ server[id] # 0 \/ id \in saved.remoteIds => rev[id] > 0
  BY <1>1, <1>3 DEF KnownParts, RevisionsKnown, Records
<1>5. Opens(events', server, rev)
  BY <1>2, <1>3, <1>4, OpeningFacts
<1>6. /\ base' \in Records /\ told' \in Records /\ outbox' \in Seq(Mutations)
      /\ told' = saved.told \/ \A id \in Ids : told'[id] = 0
  <2>1. CASE setup.persistState
    BY <1>3, <2>1 DEF Restart
  <2>2. CASE ~setup.persistState
    <3>1. base' = [i \in Ids |-> 0] /\ told' = base' /\ outbox' = Replayable(base', outbox)
      BY <2>2 DEF Restart
    <3>2. base' \in Records
      BY <3>1 DEF Records
    <3>3. PICK f \in Records : f = base'
      BY <3>2
    <3>4. Replayable(f, outbox) \in Seq(Mutations)
      BY <1>3, ReplayableFacts DEF Selected
    <3>. QED  BY <3>1, <3>2, <3>3, <3>4
  <2>. QED  BY <2>1, <2>2
<1>7. budget' \in Bounds
  BY <1>1, <1>2, SpendTyped DEF TypeInvariant
<1>8. TypeInvariant'
  BY <1>1, <1>2, <1>3, <1>5, <1>6, <1>7
     DEF TypeInvariant, RemoteType, ClientType, RequestType, Opens
<1>9. RevisionsKnown'
  BY <1>1, <1>2, <1>4, <1>6 DEF RevisionsKnown, KnownParts
<1>10. ASSUME NEW k \in DOMAIN events'
       PROVE  /\ events'[k].id \in Ids /\ InQuery(server[events'[k].id])
              /\ events'[k].value = server[events'[k].id] /\ events'[k].rev = rev[events'[k].id]
  <2>1. events' \in Seq(Changes)
    BY <1>5 DEF Opens
  <2>2. events'[k] \in Changes
    BY <2>1
  <2>. QED  BY <1>5, <2>2 DEF Opens, Changes
<1>11. EventsReport'
  BY <1>2, <1>4, <1>10 DEF EventsReport, Reports, Visible, InQuery
<1>12. RowsReport' /\ PullCovers' /\ CallWrote' /\ AnswersBelieved'
  <2>1. DOMAIN pull'.rows = {}
    BY <1>2 DEF NoPull
  <2>. QED  BY <1>2, <2>1 DEF RowsReport, PullCovers, CallWrote, AnswersBelieved
<1>13. Believes(told, remoteIds)' /\ Believes(saved.told, saved.remoteIds)'
  <2>1. Believes(saved.told, saved.remoteIds)'
    BY <1>1, <1>2 DEF KnownParts, Believes
  <2>2. CASE told' = saved.told
    BY <1>2, <2>1, <2>2 DEF Believes
  <2>3. CASE \A id \in Ids : told'[id] = 0
    BY <1>2, <1>4, <2>1, <2>3 DEF Believes
  <2>4. told' = saved.told \/ \A id \in Ids : told'[id] = 0
    BY <1>6
  <2>. QED  BY <2>2, <2>3, <2>4
<1>14. QueryReported'
  BY <1>2, <1>5 DEF QueryReported, Opens, InQuery
<1>15. LeaversKnown'
  <2>. SUFFICES ASSUME NEW k \in DOMAIN events', events'[k].value = 0 PROVE FALSE
    BY DEF LeaversKnown
  <2>. QED  BY <1>10 DEF InQuery
<1>. QED  BY <1>8, <1>9, <1>11, <1>12, <1>13, <1>14, <1>15 DEF BaselineInvariant

\* The adapter's view after a remote result.
LEMMA TakeEffect ==
  ASSUME TypeInvariant, NEW found \in Answers(Nat), NEW gone \in SUBSET Ids,
         NEW onto \in Records, NEW pending \in Seq(Mutations), Take(found, gone, onto, pending)
  PROVE  /\ base' \in Records /\ outbox' \in Seq(Mutations) /\ Selected(outbox', pending)
         /\ remoteIds' = (remoteIds \cup DOMAIN found) \ (IF setup.narrowed THEN {} ELSE gone)
         /\ remoteIds' \in SUBSET Ids
         /\ saved' = [remoteIds |-> remoteIds', told |-> told']
         /\ base' = [i \in Ids |-> IF i \in DOMAIN found THEN found[i]
                                   ELSE IF i \in gone THEN 0 ELSE onto[i]]
         /\ outbox' = Replayable(base', pending)
<1>. DEFINE next == [i \in Ids |-> IF i \in DOMAIN found THEN found[i]
                                   ELSE IF i \in gone THEN 0 ELSE onto[i]]
<1>1. /\ base' = next /\ outbox' = Replayable(next, pending) /\ remoteIds' = Believed(found, gone)
      /\ saved' = [remoteIds |-> remoteIds', told |-> told']
  BY DEF Take, Checkpoint
<1>2. next \in Records /\ DOMAIN found \subseteq Ids
  BY DEF Answers, Records
<1>3. remoteIds \in SUBSET Ids
  BY DEF TypeInvariant, ClientType
<1>4. PICK f \in Records : f = next
  BY <1>2
<1>5. Selected(Replayable(f, pending), pending)
  BY ReplayableFacts
<1>6. remoteIds' = (remoteIds \cup DOMAIN found) \ (IF setup.narrowed THEN {} ELSE gone)
  BY <1>1 DEF Believed
<1>7. remoteIds' \in SUBSET Ids
  BY <1>2, <1>3, <1>6
<1>. HIDE DEF next
<1>8. Selected(outbox', pending)
  BY <1>1, <1>4, <1>5
<1>9. outbox' \in Seq(Mutations)
  BY <1>8 DEF Selected
<1>10. base' \in Records
  BY <1>1, <1>2
<1>11. outbox' = Replayable(base', pending)
  BY <1>1
<1>. QED  BY <1>1, <1>6, <1>7, <1>8, <1>9, <1>10, <1>11 DEF next

LEMMA Overtakes ==
  ASSUME RequestType, OvertakePush
  PROVE  PushStays /\ (push' # NoPush => push'.stale)
<1>1. CASE push = NoPush
  BY <1>1 DEF OvertakePush, PushStays
<1>2. CASE push # NoPush
  <2>1. push' = Overtaken(push) /\ push \in Pushes
    BY <1>2 DEF OvertakePush, RequestType
  <2>. QED  BY <1>2, <2>1 DEF PushStays, Overtaken, Pushes
<1>. QED  BY <1>1, <1>2

\* A removal that is answered too late for a revision is so for a newer one.
LEMMA RemovingEarlier ==
  ASSUME RequestType, NEW id, NEW r \in Nat, NEW q \in Nat, r <= q, Removing(id, q)
  PROVE  Removing(id, r)
<1>1. push # NoPush /\ push.call # NoCall
  BY DEF Removing
<1>2. push.call.rev \in Nat
  BY <1>1, CallTyped
<1>. QED  BY <1>2 DEF Removing

LEMMA HigherFacts ==
  ASSUME NEW a \in Nat, NEW b \in Nat
  PROVE  /\ Higher(a, b) \in Nat /\ a <= Higher(a, b) /\ b <= Higher(a, b)
         /\ Higher(a, b) = a \/ Higher(a, b) = b
         /\ a <= b => Higher(a, b) = b
BY DEF Higher

\* The subscription delivers a change: what it says, and what the adapter makes of it.
LEMMA EventEffect ==
  ASSUME BaselineInvariant, Event
  PROVE  \E id \in Ids, r \in Nat, v \in Nat :
           /\ events # <<>> /\ r > 0
           /\ events[1].id = id /\ events[1].value = v /\ events[1].rev = r
           /\ told' = [told EXCEPT ![id] = Higher(@, r)]
           /\ raced' = raced \cup Late(id, r)
           /\ base' \in Records /\ outbox' \in Seq(Mutations) /\ remoteIds' \in SUBSET Ids
           /\ remoteIds' = IF v # 0 THEN remoteIds \cup {id}
                           ELSE IF setup.narrowed THEN remoteIds ELSE remoteIds \ {id}
           /\ saved' = [remoteIds |-> remoteIds', told |-> told']
           /\ Selected(outbox', outbox)
           /\ base' = [base EXCEPT ![id] = v]
           /\ outbox' = Replayable(base', outbox)
<1>1. TypeInvariant /\ events # <<>> /\ events \in Seq(Changes)
  BY DEF BaselineInvariant, TypeInvariant, RemoteType, Event
<1>2. PICK e : e = Head(events)
  OBVIOUS
<1>3. e = events[1] /\ 1 \in DOMAIN events /\ e \in Changes
  BY <1>1, <1>2, HeadTailProperties, LenProperties
<1>4. e.id \in Ids /\ e.value \in Nat /\ e.rev \in Nat /\ e.rev > 0
  BY <1>3 DEF Changes
<1>5. /\ told' = [told EXCEPT ![e.id] = Higher(@, e.rev)]
      /\ raced' = raced \cup Late(e.id, e.rev)
      /\ IF e.value # 0 THEN Take([i \in {e.id} |-> e.value], {}, base, outbox)
         ELSE Take(<<>>, {e.id}, base, outbox)
  BY <1>2 DEF Event
<1>6. base \in Records /\ outbox \in Seq(Mutations)
  BY <1>1 DEF TypeInvariant, ClientType
<1>7. CASE e.value # 0
  <2>2. PICK found : found = [i \in {e.id} |-> e.value]
    OBVIOUS
  <2>3. found \in Answers(Nat) /\ DOMAIN found = {e.id} /\ found[e.id] = e.value
    <3>1. {e.id} \in SUBSET Ids /\ found \in [{e.id} -> Nat]
      BY <1>4, <2>2
    <3>. QED  BY <2>2, <3>1 DEF Answers
  <2>4. TypeInvariant /\ Take(found, {}, base, outbox)
    BY <1>1, <1>5, <1>7, <2>2
  <2>5. /\ base' \in Records /\ outbox' \in Seq(Mutations) /\ Selected(outbox', outbox)
        /\ remoteIds' = (remoteIds \cup DOMAIN found) \ (IF setup.narrowed THEN {} ELSE {})
        /\ remoteIds' \in SUBSET Ids
        /\ saved' = [remoteIds |-> remoteIds', told |-> told']
        /\ base' = [i \in Ids |-> IF i \in DOMAIN found THEN found[i]
                                  ELSE IF i \in {} THEN 0 ELSE base[i]]
        /\ outbox' = Replayable(base', outbox)
    BY <1>6, <2>3, <2>4, TakeEffect
  <2>6. base' = [base EXCEPT ![e.id] = e.value]
    BY <1>6, <2>3, <2>5 DEF Records
  <2>7. remoteIds' = remoteIds \cup {e.id}
    BY <2>3, <2>5
  <2>. QED  BY <1>1, <1>3, <1>4, <1>5, <1>7, <2>5, <2>6, <2>7
<1>8. CASE e.value = 0
  <2>1. PICK found : found = <<>>
    OBVIOUS
  <2>2. PICK gone : gone = {e.id}
    OBVIOUS
  <2>3. found \in Answers(Nat) /\ DOMAIN found = {} /\ gone \in SUBSET Ids
    <3>1. found \in Answers(Nat) /\ DOMAIN found = {}
      BY <2>1 DEF Answers
    <3>2. gone \in SUBSET Ids
      BY <1>4, <2>2
    <3>. QED  BY <3>1, <3>2
  <2>4. TypeInvariant /\ Take(found, gone, base, outbox)
    BY <1>1, <1>5, <1>8, <2>1, <2>2
  <2>5. /\ base' \in Records /\ outbox' \in Seq(Mutations) /\ Selected(outbox', outbox)
        /\ remoteIds' = (remoteIds \cup DOMAIN found) \ (IF setup.narrowed THEN {} ELSE gone)
        /\ remoteIds' \in SUBSET Ids
        /\ saved' = [remoteIds |-> remoteIds', told |-> told']
        /\ base' = [i \in Ids |-> IF i \in DOMAIN found THEN found[i]
                                  ELSE IF i \in gone THEN 0 ELSE base[i]]
        /\ outbox' = Replayable(base', outbox)
    BY <1>6, <2>3, <2>4, TakeEffect
  <2>6. base' = [base EXCEPT ![e.id] = e.value]
    BY <1>6, <1>8, <2>2, <2>3, <2>5 DEF Records
  <2>7. remoteIds' = IF setup.narrowed THEN remoteIds ELSE remoteIds \ {e.id}
    BY <2>2, <2>3, <2>5
  <2>. QED  BY <1>1, <1>3, <1>4, <1>5, <1>8, <2>5, <2>6, <2>7
<1>. QED  BY <1>7, <1>8

LEMMA EventKeeps ==
  ASSUME BaselineInvariant, Event
  PROVE  BaselineInvariant'
<1>1. TypeInvariant /\ KnownParts /\ RequestType /\ told \in Records /\ rev \in Records /\ server \in Records
  BY DEF BaselineInvariant, KnownParts, TypeInvariant, RemoteType, ClientType
<1>2. PICK id \in Ids, r \in Nat, v \in Nat :
           /\ events # <<>> /\ r > 0
           /\ events[1].id = id /\ events[1].value = v /\ events[1].rev = r
           /\ told' = [told EXCEPT ![id] = Higher(@, r)]
           /\ raced' = raced \cup Late(id, r)
           /\ base' \in Records /\ outbox' \in Seq(Mutations) /\ remoteIds' \in SUBSET Ids
           /\ remoteIds' = IF v # 0 THEN remoteIds \cup {id}
                           ELSE IF setup.narrowed THEN remoteIds ELSE remoteIds \ {id}
           /\ saved' = [remoteIds |-> remoteIds', told |-> told']
  BY EventEffect
<1>3. /\ events' = Tail(events) /\ OvertakePull /\ OvertakePush
      /\ UNCHANGED <<setup, server, rev, cursor, pullOwed, budget>>
  BY DEF Event
<1>4. /\ \A i \in Ids \ {id} : told'[i] = told[i]
      /\ told'[id] = Higher(told[id], r) /\ told' \in Records
      /\ \A i \in Ids : told[i] \in Nat /\ told'[i] \in Nat /\ rev[i] \in Nat
  <2>1. \A i \in Ids : told[i] \in Nat /\ rev[i] \in Nat
    BY <1>1 DEF Records
  <2>2. Higher(told[id], r) \in Nat
    BY <2>1, HigherFacts
  <2>3. \A i \in Ids : told'[i] = IF i = id THEN Higher(told[id], r) ELSE told[i]
    BY <1>1, <1>2 DEF Records
  <2>4. told' \in Records
    BY <1>1, <1>2, <2>2 DEF Records
  <2>. QED  BY <2>1, <2>2, <2>3, <2>4
<1>5. /\ events' \in Seq(Changes) /\ DOMAIN events = 1 .. Len(events) /\ Len(events) \in Nat
      /\ DOMAIN events' = 1 .. Len(events) - 1
      /\ \A k \in DOMAIN events' : events'[k] = events[k + 1]
  BY <1>1, <1>2, <1>3, HeadTailProperties, LenProperties DEF TypeInvariant, RemoteType
<1>6. 1 \in DOMAIN events /\ Reports(id, v, r)
  <2>1. Len(events) # 0
    BY <1>1, <1>2, LenProperties, EmptySeq DEF TypeInvariant, RemoteType
  <2>2. 1 \in DOMAIN events
    BY <1>5, <2>1
  <2>. QED  BY <1>1, <1>2, <2>2 DEF KnownParts, EventsReport
<1>7. \A i \in Ids \ raced' : i \notin raced /\ (i = id => told[i] <= r /\ told'[i] = r)
  <2>. SUFFICES ASSUME NEW i \in Ids \ raced'
                PROVE  i \notin raced /\ (i = id => told[i] <= r /\ told'[i] = r)
    OBVIOUS
  <2>1. i \notin raced /\ (i = id => ~(r < told[i]))
    BY <1>2 DEF Late
  <2>. QED  BY <1>4, <2>1, HigherFacts
<1>8. \A i \in Ids : told[i] <= rev[i] /\ told[i] <= told'[i] /\ told'[i] <= rev[i]
  <2>. SUFFICES ASSUME NEW i \in Ids
                PROVE  told[i] <= rev[i] /\ told[i] <= told'[i] /\ told'[i] <= rev[i]
    OBVIOUS
  <2>1. told[i] <= rev[i] /\ r <= rev[id]
    BY <1>1, <1>6 DEF KnownParts, RevisionsKnown, Reports
  <2>. QED  BY <1>4, <2>1, HigherFacts
<1>9. PushStays /\ (push' # NoPush => push'.stale)
  BY <1>1, <1>3, Overtakes
<1>10. PullStays /\ (pull' = NoPull \/ (pull # NoPull /\ pull' = Overtaken(pull)))
  BY <1>3 DEF OvertakePull, PullStays
<1>11. pull' \in {NoPull} \cup Pulls /\ PullCovers' /\ push' \in {NoPush} \cup Pushes
  BY <1>1, <1>3, <1>9, <1>10, PullGoesOn, PushGoesOn DEF BaselineInvariant
<1>12. CallWrote'
  BY <1>1, <1>3, <1>9, CallGoesOn DEF BaselineInvariant
<1>13. AnswersBelieved'
  BY <1>1, <1>9, PushGoesOn DEF BaselineInvariant, AnswersBelieved
<1>14. raced' \in SUBSET Ids /\ raced \subseteq raced'
  BY <1>1, <1>2 DEF Late, TypeInvariant, ClientType
<1>15. TypeInvariant'
  BY <1>1, <1>2, <1>3, <1>4, <1>5, <1>11, <1>14
     DEF TypeInvariant, RemoteType, ClientType, RequestType
<1>16. RevisionsKnown'
  <2>1. rev[id] > 0
    BY <1>2, <1>4, <1>6 DEF Reports
  <2>2. \A i \in Ids : server[i] # 0 \/ i \in remoteIds => rev[i] > 0
    BY <1>1 DEF KnownParts, RevisionsKnown
  <2>3. \A i \in remoteIds' : i \in remoteIds \/ i = id
    BY <1>2
  <2>. QED  BY <1>2, <1>3, <1>8, <2>1, <2>2, <2>3 DEF RevisionsKnown
<1>17. EventsReport'
  <2>. SUFFICES ASSUME NEW k \in DOMAIN events'
                PROVE  Reports(events[k].id, events[k].value, events[k].rev)'
    BY DEF EventsReport
  <2>1. k + 1 \in DOMAIN events /\ events'[k] = events[k + 1]
    BY <1>5
  <2>. QED  BY <1>1, <1>3, <2>1 DEF KnownParts, EventsReport, Reports, Visible, InQuery
<1>18. RowsReport'
  <2>1. \A i, w, q : Reports(i, w, q) => Reports(i, w, q)'
    BY <1>3 DEF Reports, Visible, InQuery
  <2>2. CASE pull' = NoPull
    BY <2>2 DEF RowsReport, NoPull
  <2>3. CASE pull # NoPull /\ pull' = Overtaken(pull)
    <3>1. pull \in Pulls
      BY <1>1, <2>3 DEF RequestType
    <3>2. pull'.rows = pull.rows /\ pull'.stale = TRUE
      BY <2>3, <3>1 DEF Pulls, Overtaken
    <3>3. ASSUME NEW i \in DOMAIN pull'.rows
          PROVE  /\ Reports(i, pull.rows[i].value, pull.rows[i].rev)'
                 /\ setup'.incremental => pull'.rows[i].value # 0
      <4>1. /\ Reports(i, pull.rows[i].value, pull.rows[i].rev)
            /\ setup.incremental => pull.rows[i].value # 0
        BY <3>2 DEF BaselineInvariant, RowsReport
      <4>2. PICK w, q : w = pull.rows[i].value /\ q = pull.rows[i].rev
        OBVIOUS
      <4>. QED  BY <1>3, <2>1, <3>2, <4>1, <4>2
    <3>. QED  BY <3>2, <3>3 DEF RowsReport
  <2>. QED  BY <1>10, <2>2, <2>3
<1>19. \A i \in Ids : Visible(i) # 0 => server[i] # 0
  BY DEF Visible
<1>20. Believes(told, remoteIds)'
  <2>. SUFFICES ASSUME NEW i \in Ids \ raced', told'[i] = rev[i]
                PROVE  /\ server[i] # 0 /\ told'[i] # 0 => i \in remoteIds'
                       /\ server[i] = 0 => i \notin remoteIds' \/ setup.narrowed
    BY <1>3 DEF Believes
  <2>1. CASE i = id
    <3>1. r = rev[id] /\ v = Visible(id) /\ id \notin raced
      BY <1>6, <1>7, <2>1 DEF Reports
    <3>2. CASE v # 0
      BY <1>2, <1>19, <2>1, <3>1, <3>2
    <3>3. CASE v = 0 /\ ~setup.narrowed
      <4>1. server[id] = 0
        BY <3>1, <3>3 DEF Visible, InQuery
      <4>. QED  BY <1>2, <2>1, <3>3, <4>1
    <3>4. CASE v = 0 /\ setup.narrowed /\ server[id] # 0
      <4>1. KnownBy(id, 1)
        BY <1>1, <1>2, <1>6, <3>1, <3>4 DEF KnownParts, LeaversKnown
      <4>2. id \in remoteIds
        BY <4>1 DEF KnownBy
      <4>. QED  BY <1>2, <2>1, <3>4, <4>2
    <3>. QED  BY <2>1, <3>2, <3>3, <3>4
  <2>2. CASE i # id
    <3>1. told[i] = rev[i] /\ i \notin raced /\ (i \in remoteIds' <=> i \in remoteIds)
      BY <1>2, <1>4, <1>7, <2>2
    <3>. QED  BY <1>1, <1>4, <2>2, <3>1 DEF KnownParts, Believes
  <2>. QED  BY <2>1, <2>2
<1>21. Believes(saved.told, saved.remoteIds)'
  BY <1>2, <1>20 DEF Believes
<1>22. QueryReported'
  <2>. SUFFICES ASSUME setup.narrowed, setup.realtime, NEW i \in Ids, InQuery(server[i])
                PROVE  \/ told'[i] = rev[i]
                       \/ \E k \in DOMAIN events' : /\ events'[k].id = i /\ events'[k].value # 0
                                                    /\ events'[k].rev = rev[i]
    BY <1>3 DEF QueryReported, InQuery
  <2>1. CASE told[i] = rev[i]
    BY <1>4, <1>8, <2>1
  <2>2. CASE \E k \in DOMAIN events : /\ events[k].id = i /\ events[k].value # 0
                                      /\ events[k].rev = rev[i]
    <3>1. PICK k \in DOMAIN events : /\ events[k].id = i /\ events[k].value # 0
                                     /\ events[k].rev = rev[i]
      BY <2>2
    <3>2. CASE k = 1
      <4>1. i = id /\ r = rev[i]
        BY <1>2, <3>1, <3>2
      <4>. QED  BY <1>4, <1>8, <4>1, HigherFacts
    <3>3. CASE k # 1
      <4>1. k - 1 \in DOMAIN events' /\ events'[k - 1] = events[(k - 1) + 1] /\ (k - 1) + 1 = k
        BY <1>5, <3>3
      <4>. QED  BY <3>1, <4>1
    <3>. QED  BY <3>2, <3>3
  <2>. QED  BY <1>1, <2>1, <2>2 DEF KnownParts, QueryReported
<1>23. LeaversKnown'
  <2>. SUFFICES ASSUME NEW k \in DOMAIN events', events'[k].value = 0,
                       events'[k].rev = rev[events'[k].id], server[events'[k].id] # 0,
                       events'[k].id \notin raced'
                PROVE  KnownBy(events[k].id, k)'
    BY <1>3 DEF LeaversKnown
  <2>1. k + 1 \in DOMAIN events /\ events'[k] = events[k + 1] /\ k \in Nat /\ k # 0
    BY <1>5
  <2>2. PICK i \in Ids : i = events[k + 1].id
    BY <1>1, <2>1, EventTyped DEF TypeInvariant, RemoteType
  <2>3. /\ i \in Ids \ raced /\ events[k + 1].value = 0 /\ events[k + 1].rev = rev[i]
        /\ server[i] # 0
    BY <1>14, <2>1, <2>2
  <2>4. KnownBy(i, k + 1)
    BY <1>1, <2>1, <2>2, <2>3 DEF KnownParts, LeaversKnown
  <2>5. setup.narrowed
    <3>1. Reports(i, 0, rev[i])
      BY <1>1, <2>1, <2>2, <2>3 DEF KnownParts, EventsReport
    <3>. QED  BY <2>3, <3>1 DEF Reports, Visible, InQuery
  <2>6. remoteIds \subseteq remoteIds'
    BY <1>2, <2>5
  <2>7. \A q : Removing(i, q)' => Removing(i, q)
    BY <1>1, <1>9, PushGoesOn
  <2>8. CASE i \in remoteIds /\ ~Removing(i, told[i])
    <3>1. ~Removing(i, told'[i])
      BY <1>1, <1>4, <1>8, <2>8, RemovingEarlier
    <3>2. ~Removing(i, told[i])'
      BY <2>7, <3>1
    <3>. QED  BY <2>1, <2>2, <2>6, <2>8, <3>2 DEF KnownBy
  <2>9. CASE \E j \in 1 .. (k + 1) - 1 :
                events[j].id = i /\ events[j].value # 0 /\ ~Removing(i, events[j].rev)
    <3>1. PICK j \in 1 .. k :
                events[j].id = i /\ events[j].value # 0 /\ ~Removing(i, events[j].rev)
      BY <2>1, <2>9
    <3>2. CASE j = 1
      <4>1. i = id /\ v # 0 /\ ~Removing(i, r)
        BY <1>2, <3>1, <3>2
      <4>2. r <= told'[i]
        BY <1>4, <4>1, HigherFacts
      <4>3. ~Removing(i, told'[i])
        BY <1>1, <1>4, <4>1, <4>2, RemovingEarlier
      <4>4. ~Removing(i, told[i])' /\ i \in remoteIds'
        BY <1>2, <2>7, <4>1, <4>3
      <4>. QED  BY <2>1, <2>2, <4>4 DEF KnownBy
    <3>3. CASE j # 1
      <4>1. j - 1 \in 1 .. k - 1 /\ j - 1 \in DOMAIN events' /\ (j - 1) + 1 = j
        BY <1>5, <2>1, <3>1, <3>3
      <4>2. events'[j - 1] = events[j]
        BY <1>5, <4>1
      <4>3. PICK q, p : q = j - 1 /\ p = events[j].rev
        OBVIOUS
      <4>4. q \in 1 .. k - 1 /\ events'[q].id = i /\ events'[q].value # 0
            /\ events'[q].rev = p /\ ~Removing(i, p)'
        BY <2>7, <3>1, <4>1, <4>2, <4>3
      <4>5. KnownBy(i, k)'
        BY <4>4 DEF KnownBy, Removing
      <4>. QED  BY <2>1, <2>2, <4>5
    <3>. QED  BY <3>2, <3>3
  <2>. QED  BY <2>4, <2>8, <2>9 DEF KnownBy
<1>. QED  BY <1>11, <1>12, <1>13, <1>15, <1>16, <1>17, <1>18, <1>20, <1>21, <1>22, <1>23
     DEF BaselineInvariant

LEMMA PullAskKeeps ==
  ASSUME BaselineInvariant, PullAsk
  PROVE  BaselineInvariant'
<1>1. TypeInvariant /\ KnownParts
  BY DEF BaselineInvariant, KnownParts
<1>2. /\ pull' = [rows |-> <<>>, done |-> FALSE, stale |-> FALSE]
      /\ UNCHANGED <<setup, remote, client, push, budget>>
  BY DEF PullAsk
<1>3. pull' \in Pulls /\ DOMAIN pull'.rows = {} /\ ~pull'.done
  <2>1. PICK none : none = <<>>
    OBVIOUS
  <2>2. DOMAIN none = {} /\ none \in [{} -> Rows]
    BY <2>1
  <2>3. none \in Answers(Rows)
    BY <2>2 DEF Answers
  <2>. QED  BY <1>2, <2>1, <2>2, <2>3 DEF Pulls
<1>4. TypeInvariant'
  BY <1>1, <1>2, <1>3 DEF TypeInvariant, RemoteType, ClientType, RequestType, remote, client
<1>5. NoNewRemoval
  BY <1>2 DEF NoNewRemoval, Removing
<1>6. KnownParts'
  BY <1>1, <1>2, <1>5, StayKeeps DEF client
<1>7. RowsReport' /\ PullCovers' /\ CallWrote' /\ AnswersBelieved'
  BY <1>2, <1>3
     DEF BaselineInvariant, RowsReport, PullCovers, CallWrote, AnswersBelieved, remote, client
<1>. QED  BY <1>4, <1>6, <1>7 DEF BaselineInvariant, KnownParts

LEMMA PullFailsKeeps ==
  ASSUME BaselineInvariant, PullFails
  PROVE  BaselineInvariant'
<1>1. TypeInvariant /\ KnownParts
  BY DEF BaselineInvariant, KnownParts
<1>2. /\ Spend("lost") /\ pull' = NoPull /\ pullOwed' = TRUE
      /\ UNCHANGED <<setup, remote, base, outbox, remoteIds, cursor, told, raced, saved, push>>
  BY DEF PullFails
<1>3. budget' \in Bounds
  BY <1>1, <1>2, SpendTyped DEF TypeInvariant
<1>4. TypeInvariant'
  BY <1>1, <1>2, <1>3 DEF TypeInvariant, RemoteType, ClientType, RequestType, remote
<1>5. NoNewRemoval
  BY <1>2 DEF NoNewRemoval, Removing
<1>6. KnownParts'
  BY <1>1, <1>2, <1>5, StayKeeps
<1>7. RowsReport'
  BY <1>1, <1>2, RowsStay DEF BaselineInvariant, TypeInvariant
<1>8. PullCovers' /\ CallWrote' /\ AnswersBelieved'
  BY <1>2 DEF BaselineInvariant, PullCovers, CallWrote, AnswersBelieved, remote
<1>. QED  BY <1>4, <1>6, <1>7, <1>8 DEF BaselineInvariant, KnownParts

\* A page of the answer says what the remote holds.
LEMMA PullPageKeeps ==
  ASSUME BaselineInvariant, PullPage
  PROVE  BaselineInvariant'
<1>1. TypeInvariant /\ KnownParts /\ pull # NoPull /\ pull \in Pulls
      /\ server \in Records /\ rev \in Records /\ told \in Records
  BY DEF BaselineInvariant, KnownParts, PullPage, TypeInvariant, RequestType, RemoteType, ClientType
<1>2. UNCHANGED <<setup, remote, client, push, budget>>
  BY DEF PullPage
<1>. DEFINE covered == DOMAIN pull.rows
            ahead == {i \in Known(server) : \A j \in covered : j < i}
            page == IF setup.incremental THEN {i \in Known(server) : rev[i] > cursor}
                    ELSE IF setup.paged /\ ahead # {} THEN {i \in Ids \ covered : i <= Min(ahead)}
                    ELSE Ids \ covered
            more == setup.paged /\ ~setup.incremental /\ ahead # {}
<1>3. pull' = [pull EXCEPT !.rows = [i \in covered \cup page |->
                                       IF i \in covered THEN pull.rows[i] ELSE Row(i)],
                           !.done = ~more]
  BY DEF PullPage
<1>4. page \subseteq Ids
  BY DEF Known
<1>5. /\ ~more /\ ~setup.incremental => page = Ids \ covered
      /\ setup.incremental => \A i \in page : server[i] # 0
      /\ more \in BOOLEAN
  BY DEF Known
<1>. HIDE DEF page, more
<1>6. /\ pull.rows \in [covered -> Rows] /\ covered \subseteq Ids
      /\ pull.done \in BOOLEAN /\ pull.stale \in BOOLEAN
  BY <1>1 DEF Pulls, Answers
<1>7. \A i \in Ids : Row(i) \in Rows /\ Row(i).value = Visible(i) /\ Row(i).rev = rev[i]
  BY <1>1 DEF Row, Rows, Records, Visible, InQuery
<1>8. /\ pull'.rows = [i \in covered \cup page |->
                         IF i \in covered THEN pull.rows[i] ELSE Row(i)]
      /\ pull'.done = ~more /\ pull'.stale = pull.stale
      /\ DOMAIN pull'.rows = covered \cup page
  BY <1>1, <1>3 DEF Pulls
<1>9. \A i \in covered \cup page : pull'.rows[i] = IF i \in covered THEN pull.rows[i] ELSE Row(i)
  BY <1>8
<1>10. pull' \in Pulls
  <2>1. pull'.rows \in Answers(Rows)
    BY <1>4, <1>6, <1>7, <1>8 DEF Answers
  <2>2. pull' = [rows |-> pull'.rows, done |-> pull'.done, stale |-> pull'.stale]
    BY <1>1, <1>3 DEF Pulls
  <2>. QED  BY <1>5, <1>6, <1>8, <2>1, <2>2 DEF Pulls
<1>11. TypeInvariant'
  BY <1>1, <1>2, <1>10 DEF TypeInvariant, RemoteType, ClientType, RequestType, remote, client
<1>12. NoNewRemoval
  BY <1>2 DEF NoNewRemoval, Removing
<1>13. KnownParts'
  BY <1>1, <1>2, <1>12, StayKeeps DEF client
<1>14. PullCovers'
  BY <1>2, <1>4, <1>5, <1>6, <1>8 DEF PullCovers
<1>15. RowsReport'
  <2>. SUFFICES ASSUME NEW i \in covered \cup page
                PROVE  /\ Reports(i, pull'.rows[i].value, pull'.rows[i].rev)
                       /\ setup.incremental => pull'.rows[i].value # 0
                       /\ ~pull.stale /\ i \notin raced => told[i] <= pull'.rows[i].rev
    <3>1. \A i \in Ids, w, q \in Nat : Reports(i, w, q)' <=> Reports(i, w, q)
      BY <1>2 DEF Reports, Visible, InQuery, remote
    <3>2. \A i \in covered \cup page : i \in Ids /\ pull'.rows[i].value \in Nat /\ pull'.rows[i].rev \in Nat
      BY <1>4, <1>6, <1>7, <1>9 DEF Rows
    <3>. QED  BY <1>2, <1>8, <3>2 DEF RowsReport, Reports, Visible, InQuery, remote, client
  <2>1. CASE i \in covered
    BY <1>1, <1>9, <2>1 DEF BaselineInvariant, RowsReport
  <2>2. CASE i \notin covered
    <3>1. i \in Ids /\ i \in page /\ pull'.rows[i].value = Visible(i) /\ pull'.rows[i].rev = rev[i]
      BY <1>4, <1>7, <1>9, <2>2
    <3>2. rev[i] \in Nat /\ told[i] <= rev[i]
      BY <1>1, <3>1 DEF Records, KnownParts, RevisionsKnown
    <3>3. setup.incremental => Visible(i) # 0
      BY <1>1, <1>5, <3>1, SetupFacts DEF Visible, InQuery, TypeInvariant
    <3>. QED  BY <3>1, <3>2, <3>3 DEF Reports
  <2>. QED  BY <2>1, <2>2
<1>16. CallWrote' /\ AnswersBelieved'
  BY <1>2 DEF BaselineInvariant, CallWrote, AnswersBelieved, remote, client
<1>. QED  BY <1>11, <1>13, <1>14, <1>15, <1>16 DEF BaselineInvariant, KnownParts

\* The answer of a pull is not taken.
LEMMA StaleAnswerKeeps ==
  ASSUME BaselineInvariant, PullAnswer, pull.stale
  PROVE  BaselineInvariant'
<1>1. TypeInvariant /\ KnownParts
  BY DEF BaselineInvariant, KnownParts
<1>2. /\ pull' = NoPull /\ pullOwed' = TRUE
      /\ UNCHANGED <<base, outbox, remoteIds, cursor, told, saved, push, setup, remote, raced, budget>>
  BY DEF PullAnswer
<1>4. TypeInvariant'
  BY <1>1, <1>2 DEF TypeInvariant, RemoteType, ClientType, RequestType, remote
<1>5. NoNewRemoval
  BY <1>2 DEF NoNewRemoval, Removing
<1>6. KnownParts'
  BY <1>1, <1>2, <1>5, StayKeeps
<1>7. RowsReport'
  BY <1>1, <1>2, RowsStay DEF BaselineInvariant, TypeInvariant
<1>8. PullCovers' /\ CallWrote' /\ AnswersBelieved'
  BY <1>2 DEF BaselineInvariant, PullCovers, CallWrote, AnswersBelieved, remote
<1>. QED  BY <1>4, <1>6, <1>7, <1>8 DEF BaselineInvariant, KnownParts

\* The records an answer holds, and those it speaks of.
Seen == {i \in DOMAIN pull.rows : pull.rows[i].value # 0}
Heard == IF setup.authoritative THEN DOMAIN pull.rows ELSE Seen
Missing == IF setup.authoritative THEN remoteIds \ Seen ELSE {}

LEMMA PullAnswerEffect ==
  ASSUME BaselineInvariant, PullAnswer, ~pull.stale
  PROVE  /\ pull # NoPull /\ pull.done /\ pull \in Pulls
         /\ told' = [i \in Ids |-> IF i \in Heard THEN Higher(told[i], pull.rows[i].rev) ELSE told[i]]
         /\ told' \in Records /\ cursor' \in Nat
         /\ base' \in Records /\ outbox' \in Seq(Mutations) /\ remoteIds' \in SUBSET Ids
         /\ remoteIds' = (remoteIds \cup Seen) \ (IF setup.narrowed THEN {} ELSE Missing)
         /\ saved' = [remoteIds |-> remoteIds', told |-> told']
         /\ pull' = NoPull /\ pullOwed' = FALSE /\ OvertakePush
         /\ UNCHANGED <<setup, remote, raced, budget>>
         /\ base' = [i \in Ids |-> IF i \in Seen THEN pull.rows[i].value
                                   ELSE IF i \in Missing THEN 0 ELSE base[i]]
         /\ Selected(outbox', outbox)
         /\ outbox' = Replayable(base', outbox)
         /\ cursor <= cursor' /\ \A i \in DOMAIN pull.rows : pull.rows[i].rev <= cursor'
         /\ cursor' = cursor \/ \E i \in DOMAIN pull.rows : pull.rows[i].rev = cursor'
<1>1. /\ TypeInvariant /\ pull # NoPull /\ pull.done /\ pull \in Pulls /\ told \in Records /\ cursor \in Nat
      /\ base \in Records /\ outbox \in Seq(Mutations) /\ remoteIds \in SUBSET Ids
  BY DEF BaselineInvariant, PullAnswer, TypeInvariant, RequestType, ClientType
<1>2. /\ pull' = NoPull
      /\ told' = [i \in Ids |-> IF i \in Heard THEN Higher(told[i], pull.rows[i].rev) ELSE told[i]]
      /\ Take([i \in Seen |-> pull.rows[i].value], Missing, base, outbox)
      /\ cursor' = Higher(cursor, Max({pull.rows[i].rev : i \in DOMAIN pull.rows} \cup {0}))
      /\ pullOwed' = FALSE /\ OvertakePush
      /\ UNCHANGED <<setup, remote, raced, budget>>
  BY DEF PullAnswer, Seen, Heard, Missing
<1>3. /\ \A i \in DOMAIN pull.rows : i \in Ids /\ pull.rows[i].value \in Nat /\ pull.rows[i].rev \in Nat
      /\ DOMAIN pull.rows \subseteq Ids
  BY <1>1 DEF Pulls, Answers, Rows
<1>4. Seen \subseteq DOMAIN pull.rows /\ Heard \subseteq DOMAIN pull.rows /\ Missing \subseteq Ids
  BY <1>1 DEF Seen, Heard, Missing
<1>5. told' \in Records
  <2>1. \A i \in Ids : told[i] \in Nat
    BY <1>1 DEF Records
  <2>2. \A i \in Heard : Higher(told[i], pull.rows[i].rev) \in Nat
    BY <1>3, <1>4, <2>1, HigherFacts
  <2>. QED  BY <1>2, <2>1, <2>2 DEF Records
<1>6. PICK found : found = [i \in Seen |-> pull.rows[i].value]
  OBVIOUS
<1>7. found \in Answers(Nat) /\ DOMAIN found = Seen /\ \A i \in Seen : found[i] = pull.rows[i].value
  <2>1. Seen \in SUBSET Ids /\ found \in [Seen -> Nat]
    BY <1>3, <1>4, <1>6
  <2>. QED  BY <1>6, <2>1 DEF Answers
<1>8. /\ base' \in Records /\ outbox' \in Seq(Mutations) /\ Selected(outbox', outbox)
      /\ remoteIds' = (remoteIds \cup DOMAIN found) \ (IF setup.narrowed THEN {} ELSE Missing)
      /\ remoteIds' \in SUBSET Ids
      /\ saved' = [remoteIds |-> remoteIds', told |-> told']
      /\ base' = [i \in Ids |-> IF i \in DOMAIN found THEN found[i]
                                ELSE IF i \in Missing THEN 0 ELSE base[i]]
      /\ outbox' = Replayable(base', outbox)
  <2>1. Take(found, Missing, base, outbox)
    BY <1>2, <1>6
  <2>. QED  BY <1>1, <1>4, <1>7, <2>1, TakeEffect
<1>9. base' = [i \in Ids |-> IF i \in Seen THEN pull.rows[i].value
                             ELSE IF i \in Missing THEN 0 ELSE base[i]]
  BY <1>7, <1>8
<1>10. /\ cursor' \in Nat /\ cursor <= cursor'
       /\ \A i \in DOMAIN pull.rows : pull.rows[i].rev <= cursor'
       /\ cursor' = cursor \/ \E i \in DOMAIN pull.rows : pull.rows[i].rev = cursor'
  <2>. DEFINE S == {pull.rows[i].rev : i \in DOMAIN pull.rows}
  <2>1. IsFiniteSet(DOMAIN pull.rows)
    BY <1>3, SetupsAssumption, FS_Subset
  <2>2. IsFiniteSet(S)
    <3>1. [i \in DOMAIN pull.rows |-> pull.rows[i].rev] \in Surjection(DOMAIN pull.rows, S)
      BY DEF Surjection
    <3>. QED  BY <2>1, <3>1, FS_Surjection
  <2>3. S \subseteq Nat /\ \A i \in DOMAIN pull.rows : pull.rows[i].rev \in S
    BY <1>3
  <2>4. \A x \in S : \E i \in DOMAIN pull.rows : pull.rows[i].rev = x
    OBVIOUS
  <2>. HIDE DEF S
  <2>5. PICK all : all = S \cup {0}
    OBVIOUS
  <2>a. IsFiniteSet(all) /\ all \subseteq Nat /\ all # {}
    BY <2>2, <2>3, <2>5, FS_AddElement
  <2>6. Max(all) \in all /\ \A x \in all : x <= Max(all)
    BY <2>a, MaxFacts
  <2>7. PICK m : m = Max(all)
    OBVIOUS
  <2>8. cursor' = Higher(cursor, m)
    BY <1>2, <2>5, <2>7 DEF S
  <2>9. m \in Nat /\ (m = 0 \/ m \in S) /\ \A x \in S : x <= m
    <3>1. m \in all /\ \A x \in all : x <= m
      BY <2>6, <2>7
    <3>. QED  BY <2>a, <2>5, <3>1
  <2>10. cursor' \in Nat /\ cursor <= cursor' /\ m <= cursor' /\ (cursor' = cursor \/ cursor' = m)
    BY <1>1, <2>8, <2>9, HigherFacts
  <2>11. \A i \in DOMAIN pull.rows : pull.rows[i].rev <= cursor'
    BY <1>3, <2>3, <2>9, <2>10
  <2>12. cursor' = cursor \/ \E i \in DOMAIN pull.rows : pull.rows[i].rev = cursor'
    <3>1. cursor' = cursor \/ cursor' \in S
      BY <1>1, <2>9, <2>10
    <3>. QED  BY <2>4, <3>1
  <2>. QED  BY <2>10, <2>11, <2>12
<1>. QED  BY <1>1, <1>2, <1>5, <1>7, <1>8, <1>9, <1>10

LEMMA PullAnswerKeeps ==
  ASSUME BaselineInvariant, PullAnswer
  PROVE  BaselineInvariant'
<1>1. CASE pull.stale
  BY <1>1, StaleAnswerKeeps
<1>. SUFFICES ASSUME ~pull.stale PROVE BaselineInvariant'
  BY <1>1
<1>2. TypeInvariant /\ KnownParts /\ RequestType /\ told \in Records /\ rev \in Records /\ server \in Records
  BY DEF BaselineInvariant, KnownParts, TypeInvariant, RemoteType, ClientType
<1>3. /\ pull # NoPull /\ pull.done /\ pull \in Pulls
      /\ told' = [i \in Ids |-> IF i \in Heard THEN Higher(told[i], pull.rows[i].rev) ELSE told[i]]
      /\ told' \in Records /\ cursor' \in Nat
      /\ base' \in Records /\ outbox' \in Seq(Mutations) /\ remoteIds' \in SUBSET Ids
      /\ remoteIds' = (remoteIds \cup Seen) \ (IF setup.narrowed THEN {} ELSE Missing)
      /\ saved' = [remoteIds |-> remoteIds', told |-> told']
      /\ pull' = NoPull /\ pullOwed' = FALSE /\ OvertakePush
      /\ UNCHANGED <<setup, remote, raced, budget>>
  BY PullAnswerEffect
<1>4. /\ \A i \in DOMAIN pull.rows : i \in Ids /\ pull.rows[i].value \in Nat /\ pull.rows[i].rev \in Nat
      /\ Seen \subseteq DOMAIN pull.rows /\ Heard \subseteq DOMAIN pull.rows
      /\ \A i \in DOMAIN pull.rows : i \in Seen <=> pull.rows[i].value # 0
  BY <1>3 DEF Pulls, Answers, Rows, Seen, Heard
<1>5. \A i \in DOMAIN pull.rows :
        /\ Reports(i, pull.rows[i].value, pull.rows[i].rev)
        /\ setup.incremental => pull.rows[i].value # 0
        /\ i \notin raced => told[i] <= pull.rows[i].rev
  BY <1>3 DEF BaselineInvariant, RowsReport
<1>6. \A i \in Ids : /\ told[i] \in Nat /\ rev[i] \in Nat /\ told[i] <= rev[i]
                     /\ server[i] # 0 \/ i \in remoteIds => rev[i] > 0
  BY <1>2 DEF Records, KnownParts, RevisionsKnown
<1>7. \A i \in Ids : told[i] <= told'[i] /\ told'[i] <= rev[i]
  <2>. SUFFICES ASSUME NEW i \in Ids PROVE told[i] <= told'[i] /\ told'[i] <= rev[i]
    OBVIOUS
  <2>1. CASE i \in Heard
    <3>1. pull.rows[i].rev <= rev[i] /\ pull.rows[i].rev \in Nat
      BY <1>4, <1>5, <2>1 DEF Reports
    <3>2. told'[i] = Higher(told[i], pull.rows[i].rev)
      BY <1>3, <2>1
    <3>3. PICK a \in Nat, b \in Nat : a = told[i] /\ b = pull.rows[i].rev
      BY <1>6, <3>1
    <3>4. a <= Higher(a, b) /\ (Higher(a, b) = a \/ Higher(a, b) = b)
      BY HigherFacts
    <3>5. rev[i] \in Nat /\ a <= rev[i] /\ b <= rev[i]
      BY <1>6, <3>1, <3>3
    <3>6. told'[i] = Higher(a, b)
      BY <3>2, <3>3
    <3>. QED  BY <3>3, <3>4, <3>5, <3>6
  <2>2. CASE i \notin Heard
    <3>1. told'[i] = told[i]
      BY <1>3, <2>2
    <3>. QED  BY <1>6, <3>1
  <2>. QED  BY <2>1, <2>2
<1>8. PushStays /\ (push' # NoPush => push'.stale)
  BY <1>2, <1>3, Overtakes
<1>9. push' \in {NoPush} \cup Pushes
  BY <1>2, <1>8, PushGoesOn
<1>10. CallWrote'
  BY <1>2, <1>3, <1>8, CallGoesOn DEF BaselineInvariant, remote
<1>11. AnswersBelieved'
  BY <1>2, <1>8, PushGoesOn DEF BaselineInvariant, AnswersBelieved
<1>12. RowsReport' /\ PullCovers'
  <2>1. DOMAIN pull'.rows = {}
    BY <1>3 DEF NoPull
  <2>. QED  BY <1>3, <2>1 DEF RowsReport, PullCovers
<1>13. TypeInvariant'
  BY <1>2, <1>3, <1>9 DEF TypeInvariant, RemoteType, ClientType, RequestType, remote
<1>14. RevisionsKnown'
  <2>1. \A i \in Seen : rev[i] > 0
    <3>. SUFFICES ASSUME NEW i \in Seen, rev[i] = 0 PROVE FALSE
      BY <1>4, <1>6
    <3>1. server[i] = 0 /\ pull.rows[i].value = Visible(i) /\ pull.rows[i].value # 0
      BY <1>4, <1>5, <1>6 DEF Reports
    <3>. QED  BY <3>1 DEF Visible, InQuery
  <2>2. \A i \in remoteIds' : i \in remoteIds \/ i \in Seen
    BY <1>3
  <2>. QED  BY <1>3, <1>6, <1>7, <2>1, <2>2 DEF RevisionsKnown, remote
<1>15. EventsReport'
  BY <1>2, <1>3 DEF KnownParts, EventsReport, Reports, Visible, InQuery, remote
<1>16. Believes(told, remoteIds)'
  <2>. SUFFICES ASSUME NEW i \in Ids \ raced, told'[i] = rev[i]
                PROVE  /\ server[i] # 0 /\ told'[i] # 0 => i \in remoteIds'
                       /\ server[i] = 0 => i \notin remoteIds' \/ setup.narrowed
    BY <1>3 DEF Believes, remote
  <2>1. CASE i \in Heard
    <3>1. told'[i] = pull.rows[i].rev
      <4>1. told'[i] = Higher(told[i], pull.rows[i].rev) /\ told[i] <= pull.rows[i].rev
        BY <1>3, <1>4, <1>5, <2>1
      <4>. QED  BY <1>4, <1>6, <2>1, <4>1, HigherFacts
    <3>2. pull.rows[i].value = Visible(i)
      BY <1>4, <1>5, <2>1, <3>1 DEF Reports
    <3>3. CASE setup.narrowed
      <4>1. i \in Seen
        BY <1>2, <2>1, <3>3, SetupFacts DEF Heard, TypeInvariant
      <4>2. i \in remoteIds'
        BY <1>3, <3>3, <4>1
      <4>. QED  BY <3>3, <4>2
    <3>4. CASE ~setup.narrowed
      <4>1. pull.rows[i].value = server[i]
        BY <3>2, <3>4 DEF Visible, InQuery
      <4>2. CASE server[i] # 0
        <5>1. i \in Seen /\ i \notin Missing
          BY <1>4, <2>1, <4>1, <4>2 DEF Missing
        <5>. QED  BY <1>3, <4>2, <5>1
      <4>3. CASE server[i] = 0
        <5>1. i \notin Seen
          BY <1>4, <2>1, <4>1, <4>3
        <5>2. setup.authoritative
          BY <2>1, <5>1 DEF Heard
        <5>3. i \notin remoteIds'
          BY <1>3, <3>4, <5>1, <5>2 DEF Missing
        <5>. QED  BY <4>3, <5>3
      <4>. QED  BY <4>2, <4>3
    <3>. QED  BY <3>3, <3>4
  <2>2. CASE i \notin Heard
    <3>1. told[i] = rev[i]
      BY <1>3, <2>2
    <3>2. /\ server[i] # 0 /\ told[i] # 0 => i \in remoteIds
          /\ server[i] = 0 => i \notin remoteIds \/ setup.narrowed
      BY <1>2, <3>1 DEF KnownParts, Believes
    <3>3. CASE setup.narrowed
      BY <1>3, <3>1, <3>2, <3>3
    <3>4. CASE ~setup.narrowed
      <4>1. ~setup.authoritative
        <5>1. ASSUME setup.authoritative PROVE FALSE
          <6>1. i \notin DOMAIN pull.rows
            BY <2>2, <5>1 DEF Heard
          <6>2. setup.incremental
            BY <1>3, <6>1 DEF BaselineInvariant, PullCovers
          <6>. QED  BY <1>2, <5>1, <6>2, SetupFacts DEF TypeInvariant
        <5>. QED  BY <5>1
      <4>2. Missing = {} /\ i \notin Seen
        BY <2>2, <4>1 DEF Missing, Heard
      <4>. QED  BY <1>3, <3>1, <3>2, <3>4, <4>2
    <3>. QED  BY <3>3, <3>4
  <2>. QED  BY <2>1, <2>2
<1>17. Believes(saved.told, saved.remoteIds)'
  BY <1>3, <1>16 DEF Believes
<1>18. QueryReported'
  <2>1. \A i \in Ids : told[i] = rev[i] => told'[i] = rev[i]
    BY <1>3, <1>6, <1>7 DEF Records
  <2>. QED  BY <1>2, <1>3, <2>1 DEF KnownParts, QueryReported, InQuery, remote
<1>19. LeaversKnown'
  <2>. SUFFICES ASSUME NEW k \in DOMAIN events, events[k].value = 0,
                       events[k].rev = rev[events[k].id], server[events[k].id] # 0,
                       events[k].id \notin raced
                PROVE  KnownBy(events[k].id, k)'
    BY <1>3 DEF LeaversKnown, remote
  <2>1. PICK i \in Ids : i = events[k].id
    BY <1>2, EventTyped DEF TypeInvariant, RemoteType
  <2>2. KnownBy(i, k)
    BY <1>2, <2>1 DEF KnownParts, LeaversKnown
  <2>3. setup.narrowed
    <3>1. Reports(i, 0, rev[i])
      BY <1>2, <2>1 DEF KnownParts, EventsReport
    <3>. QED  BY <2>1, <3>1 DEF Reports, Visible, InQuery
  <2>4. remoteIds \subseteq remoteIds'
    BY <1>3, <2>3
  <2>5. \A q : Removing(i, q)' => Removing(i, q)
    BY <1>2, <1>8, PushGoesOn
  <2>6. CASE i \in remoteIds /\ ~Removing(i, told[i])
    <3>1. told'[i] \in Nat
      BY <1>3 DEF Records
    <3>2. ~Removing(i, told'[i])
      BY <1>2, <1>6, <1>7, <2>6, <3>1, RemovingEarlier
    <3>3. ~Removing(i, told[i])'
      BY <2>5, <3>2
    <3>. QED  BY <1>3, <2>1, <2>4, <2>6, <3>3 DEF KnownBy, remote
  <2>7. CASE \E j \in 1 .. k - 1 :
                events[j].id = i /\ events[j].value # 0 /\ ~Removing(i, events[j].rev)
    <3>1. PICK j \in 1 .. k - 1 :
                events[j].id = i /\ events[j].value # 0 /\ ~Removing(i, events[j].rev)
      BY <2>7
    <3>2. PICK q : q = events[j].rev
      OBVIOUS
    <3>3. ~Removing(i, q)'
      BY <2>5, <3>1, <3>2
    <3>4. events' = events
      BY <1>3 DEF remote
    <3>5. KnownBy(i, k)'
      BY <3>1, <3>2, <3>3, <3>4 DEF KnownBy, Removing
    <3>. QED  BY <2>1, <3>4, <3>5
  <2>. QED  BY <2>2, <2>6, <2>7 DEF KnownBy
<1>. QED  BY <1>10, <1>11, <1>12, <1>13, <1>14, <1>15, <1>16, <1>17, <1>18, <1>19
     DEF BaselineInvariant

LEMMA TouchedType == Touched \subseteq Ids \cup remoteIds
BY DEF Touched, Named, Known

\* A push starts with what the outbox holds.
LEMMA PushStartEffect ==
  ASSUME TypeInvariant, PushStart
  PROVE  /\ push = NoPush /\ outbox # <<>> /\ push' \in Pushes
         /\ push'.todo = Touched /\ push'.touched = Touched
         /\ push'.mutations = {m.n : m \in ToSet(outbox)}
         /\ push'.deleted = {id \in Touched : Deleted(id)}
         /\ push'.records = Shown /\ push'.call = NoCall /\ DOMAIN push'.answers = {}
         /\ ~push'.stale /\ push'.at = told
         /\ UNCHANGED <<setup, remote, client, pull, budget>>
<1>1. PICK none : none = <<>>
  OBVIOUS
<1>2. /\ push = NoPush /\ outbox # <<>>
      /\ push' = [todo |-> Touched, touched |-> Touched,
                  mutations |-> {m.n : m \in ToSet(outbox)},
                  deleted |-> {id \in Touched : Deleted(id)},
                  records |-> Shown, call |-> NoCall, answers |-> none,
                  stale |-> FALSE, at |-> told]
      /\ UNCHANGED <<setup, remote, client, pull, budget>>
  BY <1>1 DEF PushStart
<1>3. /\ base \in Records /\ outbox \in Seq(Mutations) /\ told \in Records /\ remoteIds \in SUBSET Ids
  BY DEF TypeInvariant, ClientType
<1>4. Touched \in SUBSET Ids /\ {id \in Touched : Deleted(id)} \in SUBSET Ids
  BY <1>3, TouchedType
<1>5. {m.n : m \in ToSet(outbox)} \in SUBSET Nat
  <2>1. \A m \in ToSet(outbox) : m \in Mutations
    BY <1>3 DEF ToSet
  <2>. QED  BY <2>1, MutationFacts
<1>6. Shown \in Records
  BY <1>3, ApplyAllType DEF Shown
<1>7. DOMAIN none = {} /\ none \in [{} -> Nat]
  BY <1>1
<1>8. none \in Answers(Nat)
  BY <1>7 DEF Answers
<1>9. push' \in Pushes
  BY <1>2, <1>3, <1>4, <1>5, <1>6, <1>8 DEF Pushes
<1>. QED  BY <1>2, <1>7, <1>9

LEMMA PushStartKeeps ==
  ASSUME BaselineInvariant, PushStart
  PROVE  BaselineInvariant'
<1>1. TypeInvariant /\ KnownParts
  BY DEF BaselineInvariant, KnownParts
<1>2. /\ push' \in Pushes /\ push'.call = NoCall /\ DOMAIN push'.answers = {}
      /\ UNCHANGED <<setup, remote, client, pull, budget>>
  BY <1>1, PushStartEffect
<1>3. TypeInvariant'
  BY <1>1, <1>2 DEF TypeInvariant, RemoteType, ClientType, RequestType, remote, client
<1>4. NoNewRemoval
  BY <1>2 DEF NoNewRemoval, Removing
<1>5. KnownParts'
  BY <1>1, <1>2, <1>4, StayKeeps DEF client
<1>6. RowsReport'
  BY <1>1, <1>2, RowsStay DEF BaselineInvariant, TypeInvariant, client
<1>7. PullCovers' /\ CallWrote' /\ AnswersBelieved'
  BY <1>2 DEF BaselineInvariant, PullCovers, CallWrote, AnswersBelieved
<1>. QED  BY <1>3, <1>5, <1>6, <1>7 DEF BaselineInvariant, KnownParts

\* Nothing is called for a record that is gone before the remote had it.
LEMMA SkipKeeps ==
  ASSUME BaselineInvariant, push # NoPush, push.call = NoCall, NEW id \in push.todo,
         Skip(id), UNCHANGED <<setup, client, pull>>
  PROVE  BaselineInvariant'
<1>1. TypeInvariant /\ KnownParts /\ push \in Pushes
  BY DEF BaselineInvariant, KnownParts, TypeInvariant, RequestType
<1>2. push' = [push EXCEPT !.todo = @ \ {id}] /\ UNCHANGED <<remote, budget>>
  BY DEF Skip
<1>3. /\ push' \in Pushes /\ push'.call = NoCall /\ push'.answers = push.answers
      /\ push'.todo = push.todo \ {id} /\ push'.stale = push.stale
  BY <1>1, <1>2 DEF Pushes
<1>4. TypeInvariant'
  BY <1>1, <1>2, <1>3 DEF TypeInvariant, RemoteType, ClientType, RequestType, remote, client
<1>5. NoNewRemoval
  BY <1>3 DEF NoNewRemoval, Removing
<1>6. KnownParts'
  BY <1>1, <1>2, <1>5, StayKeeps DEF client
<1>7. RowsReport'
  BY <1>1, <1>2, RowsStay DEF BaselineInvariant, TypeInvariant, client
<1>8. PullCovers' /\ CallWrote' /\ AnswersBelieved'
  BY <1>2, <1>3 DEF BaselineInvariant, PullCovers, CallWrote, AnswersBelieved, client
<1>. QED  BY <1>4, <1>6, <1>7, <1>8 DEF BaselineInvariant, KnownParts

\* A call: what the remote made of it, and what is noted.
LEMMA CallEffect ==
  ASSUME BaselineInvariant, push # NoPush, push.call = NoCall, NEW id \in push.todo,
         Call(id), UNCHANGED <<setup, client, pull>>
  PROVE  \E c \in Calls :
           /\ push' = [push EXCEPT !.call = c]
           /\ push' \in Pushes /\ push'.call = c /\ push'.todo = push.todo
           /\ push'.answers = push.answers /\ push'.stale = push.stale
           /\ push'.at = push.at /\ push'.records = push.records /\ push'.deleted = push.deleted
           /\ push'.touched = push.touched /\ push'.mutations = push.mutations
           /\ c.id = id /\ c.rev = rev'[id] /\ id \in Ids
           /\ c.op = Operation(id)
           /\ c.value = IF c.op = "delete" THEN 0 ELSE Canonical(push.records[id])
           /\ c.op = "delete" <=> c.value = 0
           /\ c.op = "delete" => ~c.refused
           /\ ~c.refused => server'[id] = c.value
           /\ RemoteType'
           /\ UNCHANGED remote \/ RemoteWrote(id, c.value)
           /\ UNCHANGED budget
<1>1. TypeInvariant /\ push \in Pushes
  BY DEF BaselineInvariant, TypeInvariant, RequestType
<1>2. id \in Ids /\ push.records[id] \in Nat
  BY <1>1 DEF Pushes, Records
<1>3. PICK op : op = Operation(id)
  OBVIOUS
<1>4. PICK v : v = IF op = "delete" THEN 0 ELSE Canonical(push.records[id])
  OBVIOUS
<1>5. PICK refused : refused = Refuses(op, id)
  OBVIOUS
<1>6. /\ IF refused THEN UNCHANGED remote ELSE ServerWrites(id, v)
      /\ push' = [push EXCEPT !.call = [id |-> id, op |-> op, value |-> v,
                                        rev |-> rev'[id], refused |-> refused]]
      /\ UNCHANGED budget
  BY <1>3, <1>4, <1>5 DEF Call
<1>7. op \in {"create", "update", "delete"} /\ (op # "delete" => push.records[id] # 0)
  BY <1>3 DEF Operation, Gone
<1>8. v \in Nat /\ (op = "delete" <=> v = 0)
  BY <1>2, <1>4, <1>7, CanonicalFacts
<1>9. refused \in BOOLEAN /\ (op = "delete" => ~refused)
  BY <1>5, <1>7 DEF Refuses
<1>10. /\ RemoteType' /\ (UNCHANGED remote \/ RemoteWrote(id, v))
       /\ ~refused => server'[id] = v
  <2>1. CASE refused
    BY <1>1, <1>6, <2>1 DEF TypeInvariant, RemoteType, remote
  <2>2. CASE ~refused
    <3>1. ServerWrites(id, v)
      BY <1>6, <2>2
    <3>2. RemoteType' /\ ((UNCHANGED remote /\ server[id] = v) \/ RemoteWrote(id, v))
      BY <1>1, <1>2, <1>8, <3>1, WriteEffect DEF TypeInvariant
    <3>. QED  BY <2>2, <3>2 DEF RemoteWrote, remote
  <2>. QED  BY <1>9, <2>1, <2>2
<1>11. PICK c : c = [id |-> id, op |-> op, value |-> v, rev |-> rev'[id], refused |-> refused]
  OBVIOUS
<1>12. c \in Calls
  <2>1. rev'[id] \in Nat
    BY <1>2, <1>10 DEF RemoteType, Records
  <2>. QED  BY <1>2, <1>7, <1>8, <1>9, <1>11, <2>1 DEF Calls
<1>13. push' = [push EXCEPT !.call = c]
  BY <1>6, <1>11
<1>14. /\ push' \in Pushes /\ push'.call = c /\ push'.todo = push.todo
       /\ push'.answers = push.answers /\ push'.stale = push.stale
       /\ push'.at = push.at /\ push'.records = push.records /\ push'.deleted = push.deleted
       /\ push'.touched = push.touched /\ push'.mutations = push.mutations
  BY <1>1, <1>12, <1>13 DEF Pushes
<1>15. /\ c.id = id /\ c.rev = rev'[id] /\ c.op = op /\ c.value = v /\ c.refused = refused
  BY <1>11
<1>. QED  BY <1>2, <1>3, <1>4, <1>6, <1>8, <1>9, <1>10, <1>12, <1>13, <1>14, <1>15

LEMMA CallKeeps ==
  ASSUME BaselineInvariant, push # NoPush, push.call = NoCall, NEW id \in push.todo,
         Call(id), UNCHANGED <<setup, client, pull>>
  PROVE  BaselineInvariant'
<1>1. TypeInvariant /\ KnownParts /\ RowsReport /\ CallWrote
  BY DEF BaselineInvariant, KnownParts
<1>2. PICK c \in Calls :
           /\ push' \in Pushes /\ push'.call = c /\ push'.todo = push.todo
           /\ push'.answers = push.answers /\ push'.stale = push.stale
           /\ c.id = id /\ c.rev = rev'[id] /\ id \in Ids
           /\ c.op = "delete" <=> c.value = 0
           /\ c.op = "delete" => ~c.refused
           /\ ~c.refused => server'[id] = c.value
           /\ RemoteType'
           /\ UNCHANGED remote \/ RemoteWrote(id, c.value)
           /\ UNCHANGED budget
  BY CallEffect
<1>3. TypeInvariant'
  BY <1>1, <1>2 DEF TypeInvariant, ClientType, RequestType, client
<1>4. NoNewRemoval
  BY <1>2 DEF NoNewRemoval, Removing
<1>5. KnownParts' /\ RowsReport'
  <2>1. CASE UNCHANGED remote
    <3>1. KnownParts'
      BY <1>1, <1>4, <2>1, StayKeeps DEF client
    <3>2. RowsReport'
      BY <1>1, <2>1, RowsStay DEF TypeInvariant, client
    <3>. QED  BY <3>1, <3>2
  <2>2. CASE RemoteWrote(id, c.value)
    <3>1. c.value \in Nat
      BY DEF Calls
    <3>2. PICK v \in Nat : v = c.value
      BY <3>1
    <3>3. RemoteWrote(id, v)
      BY <2>2, <3>2
    <3>. QED  BY <1>1, <1>2, <1>4, <3>3, WriteKeepsReports, WriteKeepsLeavers DEF KnownParts
  <2>. QED  BY <1>2, <2>1, <2>2
<1>6. CallWrote'
  <2>1. rev'[id] \in Nat /\ (server'[id] # 0 => rev'[id] > 0)
    BY <1>2, <1>5 DEF RemoteType, Records, KnownParts, RevisionsKnown
  <2>. QED  BY <1>2, <2>1 DEF CallWrote
<1>7. PullCovers' /\ AnswersBelieved'
  BY <1>2 DEF BaselineInvariant, PullCovers, AnswersBelieved, client
<1>. QED  BY <1>3, <1>5, <1>6, <1>7 DEF BaselineInvariant, KnownParts

\* What an answer brings.
Returned(c) ==
  /\ push # NoPush /\ push.call = c /\ c # NoCall /\ ~c.refused /\ push \in Pushes
  /\ c.id \in Ids /\ c.id \in push.todo /\ c.rev \in Nat /\ c.rev <= rev[c.id]
  /\ c.op = "delete" <=> c.value = 0
  /\ c.rev = rev[c.id] => server[c.id] = c.value
  /\ c.op # "delete" => c.rev > 0
  /\ remoteIds' = IF c.op = "delete" THEN remoteIds \ {c.id} ELSE remoteIds \cup {c.id}
  /\ raced' = raced \cup Late(c.id, c.rev) \cup (IF pull = NoPull THEN {} ELSE {c.id})
  /\ told' = [told EXCEPT ![c.id] = Higher(@, c.rev)]
  /\ push' \in Pushes /\ push'.call = NoCall /\ push'.todo = push.todo \ {c.id}
  /\ push'.stale = push.stale /\ push'.at = [push.at EXCEPT ![c.id] = c.rev]
  /\ push'.records = push.records /\ push'.deleted = push.deleted
  /\ push'.touched = push.touched /\ push'.mutations = push.mutations
  /\ DOMAIN push'.answers = IF c.op = "delete" \/ ~setup.returns THEN DOMAIN push.answers
                            ELSE DOMAIN push.answers \cup {c.id}
  /\ \A i \in DOMAIN push'.answers :
       push'.answers[i] = IF i = c.id /\ i \notin DOMAIN push.answers THEN c.value
                          ELSE push.answers[i]
  /\ UNCHANGED <<setup, remote, base, outbox, cursor, pullOwed, saved, pull, budget>>

LEMMA PushReturnsEffect ==
  ASSUME BaselineInvariant, PushReturns
  PROVE  \E c \in Calls : Returned(c)
<1>1. push # NoPush /\ push.call # NoCall /\ ~push.call.refused
  BY DEF PushReturns
<1>2. push \in Pushes /\ TypeInvariant
  BY <1>1 DEF BaselineInvariant, TypeInvariant, RequestType
<1>3. PICK c \in Calls : c = push.call
  BY <1>1, <1>2 DEF Pushes
<1>4. /\ c.id \in Ids /\ c.rev \in Nat /\ c.value \in Nat
  BY DEF Calls
<1>5. /\ c.id \in push.todo /\ c.rev <= rev[c.id]
      /\ c.op = "delete" <=> c.value = 0
      /\ c.rev = rev[c.id] => server[c.id] = c.value
      /\ c.op # "delete" => c.rev > 0
  BY <1>1, <1>3 DEF BaselineInvariant, CallWrote
<1>6. PICK answers : answers = IF c.op = "delete" \/ ~setup.returns THEN push.answers
                               ELSE Noted(push.answers, c.id, c.value)
  OBVIOUS
<1>7. /\ remoteIds' = IF c.op = "delete" THEN remoteIds \ {c.id} ELSE remoteIds \cup {c.id}
      /\ raced' = raced \cup Late(c.id, c.rev) \cup (IF pull = NoPull THEN {} ELSE {c.id})
      /\ told' = [told EXCEPT ![c.id] = Higher(@, c.rev)]
      /\ push' = [push EXCEPT !.todo = @ \ {c.id}, !.call = NoCall, !.at[c.id] = c.rev,
                              !.answers = answers]
      /\ UNCHANGED <<setup, remote, base, outbox, cursor, pullOwed, saved, pull, budget>>
  BY <1>3, <1>6 DEF PushReturns
<1>8. push.answers \in [DOMAIN push.answers -> Nat] /\ DOMAIN push.answers \subseteq Ids
      /\ push.at \in Records
  BY <1>2 DEF Pushes, Answers
<1>9. /\ answers \in Answers(Nat)
      /\ DOMAIN answers = IF c.op = "delete" \/ ~setup.returns THEN DOMAIN push.answers
                          ELSE DOMAIN push.answers \cup {c.id}
      /\ \A i \in DOMAIN answers : answers[i] = IF i = c.id /\ i \notin DOMAIN push.answers THEN c.value
                                                ELSE push.answers[i]
  <2>1. CASE c.op = "delete" \/ ~setup.returns
    BY <1>2, <1>6, <1>8, <2>1 DEF Answers
  <2>2. CASE ~(c.op = "delete" \/ ~setup.returns)
    <3>1. answers = [i \in DOMAIN push.answers \cup {c.id} |->
                       IF i = c.id THEN c.value ELSE push.answers[i]]
      BY <1>6, <2>2 DEF Noted
    <3>2. c.id \notin DOMAIN push.answers
      BY <1>1, <1>5 DEF BaselineInvariant, AnswersBelieved
    <3>3. answers \in [DOMAIN push.answers \cup {c.id} -> Nat]
      BY <1>4, <1>8, <3>1
    <3>. QED  BY <1>4, <1>8, <2>2, <3>1, <3>2, <3>3 DEF Answers
  <2>. QED  BY <2>1, <2>2
<1>10. /\ push' \in Pushes /\ push'.call = NoCall /\ push'.todo = push.todo \ {c.id}
       /\ push'.stale = push.stale /\ push'.at = [push.at EXCEPT ![c.id] = c.rev]
       /\ push'.records = push.records /\ push'.deleted = push.deleted
       /\ push'.touched = push.touched /\ push'.mutations = push.mutations
       /\ push'.answers = answers
  <2>1. [push.at EXCEPT ![c.id] = c.rev] \in Records
    BY <1>4, <1>8 DEF Records
  <2>. QED  BY <1>2, <1>7, <1>9, <2>1 DEF Pushes
<1>11. Returned(c)
  BY <1>1, <1>2, <1>3, <1>4, <1>5, <1>7, <1>9, <1>10 DEF Returned
<1>. QED  BY <1>11

LEMMA PushReturnsKeeps ==
  ASSUME BaselineInvariant, PushReturns
  PROVE  BaselineInvariant'
<1>1. /\ TypeInvariant /\ KnownParts /\ RequestType /\ RowsReport
      /\ told \in Records /\ rev \in Records /\ server \in Records
  BY DEF BaselineInvariant, KnownParts, TypeInvariant, RemoteType, ClientType
<1>2. PICK c \in Calls : Returned(c)
  BY PushReturnsEffect
<1>3. /\ push # NoPush /\ push.call = c /\ c # NoCall /\ ~c.refused
      /\ c.id \in Ids /\ c.id \in push.todo /\ c.rev \in Nat /\ c.rev <= rev[c.id]
      /\ c.op = "delete" <=> c.value = 0
      /\ c.rev = rev[c.id] => server[c.id] = c.value
      /\ c.op # "delete" => c.rev > 0
  BY <1>2 DEF Returned
<1>4. /\ remoteIds' = IF c.op = "delete" THEN remoteIds \ {c.id} ELSE remoteIds \cup {c.id}
      /\ raced' = raced \cup Late(c.id, c.rev) \cup (IF pull = NoPull THEN {} ELSE {c.id})
      /\ told' = [told EXCEPT ![c.id] = Higher(@, c.rev)]
      /\ push' \in Pushes /\ push'.call = NoCall /\ push'.todo = push.todo \ {c.id}
      /\ push'.stale = push.stale
      /\ DOMAIN push'.answers = IF c.op = "delete" \/ ~setup.returns THEN DOMAIN push.answers
                                ELSE DOMAIN push.answers \cup {c.id}
      /\ UNCHANGED <<setup, remote, base, outbox, cursor, pullOwed, saved, pull, budget>>
  BY <1>2 DEF Returned
<1>5. PICK id \in Ids, r \in Nat : id = c.id /\ r = c.rev
  BY <1>3
<1>6. UNCHANGED <<server, rev, events>>
  BY <1>4 DEF remote
<1>7. /\ \A i \in Ids \ {id} : told'[i] = told[i]
      /\ told'[id] = Higher(told[id], r) /\ told' \in Records
      /\ \A i \in Ids : told[i] \in Nat /\ told'[i] \in Nat /\ rev[i] \in Nat
  <2>1. \A i \in Ids : told[i] \in Nat /\ rev[i] \in Nat
    BY <1>1 DEF Records
  <2>2. Higher(told[id], r) \in Nat
    BY <2>1, HigherFacts
  <2>3. \A i \in Ids : told'[i] = IF i = id THEN Higher(told[id], r) ELSE told[i]
    BY <1>1, <1>4, <1>5 DEF Records
  <2>4. told' \in Records
    BY <1>1, <1>4, <1>5, <2>2 DEF Records
  <2>. QED  BY <2>1, <2>2, <2>3, <2>4
<1>8. raced' \in SUBSET Ids /\ raced \subseteq raced'
  BY <1>1, <1>4, <1>3 DEF Late, TypeInvariant, ClientType
<1>9. id \notin raced' => told'[id] = r /\ pull = NoPull
  <2>1. id \notin raced' => ~(r < told[id]) /\ pull = NoPull
    BY <1>4, <1>5 DEF Late
  <2>. QED  BY <1>7, <2>1, HigherFacts
<1>10. \A i \in Ids : told[i] <= told'[i] /\ told'[i] <= rev[i]
  <2>. SUFFICES ASSUME NEW i \in Ids PROVE told[i] <= told'[i] /\ told'[i] <= rev[i]
    OBVIOUS
  <2>1. told[i] <= rev[i] /\ r <= rev[id]
    BY <1>1, <1>3, <1>5 DEF KnownParts, RevisionsKnown
  <2>2. CASE i = id
    <3>1. PICK t \in Nat : t = told[id]
      BY <1>7
    <3>2. t <= Higher(t, r) /\ (Higher(t, r) = t \/ Higher(t, r) = r)
      BY HigherFacts
    <3>. QED  BY <1>7, <2>1, <2>2, <3>1, <3>2
  <2>3. CASE i # id
    BY <1>7, <2>1, <2>3
  <2>. QED  BY <2>2, <2>3
<1>11. remoteIds' \in SUBSET Ids
  BY <1>1, <1>3, <1>4 DEF TypeInvariant, ClientType
<1>12. TypeInvariant'
  BY <1>1, <1>4, <1>6, <1>7, <1>8, <1>11 DEF TypeInvariant, RemoteType, ClientType, RequestType
<1>13. EventsReport'
  BY <1>1, <1>4, <1>6 DEF EventsReport, Reports, Visible, InQuery, KnownParts
<1>14. RevisionsKnown'
  <2>1. \A i \in Ids : /\ saved.told[i] <= rev[i]
                       /\ server[i] # 0 \/ i \in remoteIds \/ i \in saved.remoteIds => rev[i] > 0
    BY <1>1 DEF KnownParts, RevisionsKnown
  <2>2. c.op # "delete" => rev[id] > 0
    BY <1>3, <1>5, <1>7
  <2>3. \A i \in remoteIds' : i \in remoteIds \/ (i = id /\ c.op # "delete")
    BY <1>4, <1>5
  <2>. QED  BY <1>4, <1>6, <1>10, <2>1, <2>2, <2>3 DEF RevisionsKnown
<1>15. Believes(told, remoteIds)'
  <2>. SUFFICES ASSUME NEW i \in Ids \ raced', told'[i] = rev[i]
                PROVE  /\ server[i] # 0 /\ told'[i] # 0 => i \in remoteIds'
                       /\ server[i] = 0 => i \notin remoteIds' \/ setup.narrowed
    BY <1>4, <1>6 DEF Believes
  <2>1. CASE i = id
    <3>1. server[id] = c.value
      BY <1>3, <1>5, <1>9, <2>1
    <3>. QED  BY <1>3, <1>4, <1>5, <2>1, <3>1
  <2>2. CASE i # id
    <3>1. told[i] = rev[i] /\ i \notin raced /\ (i \in remoteIds' <=> i \in remoteIds)
      BY <1>4, <1>5, <1>7, <1>8, <2>2
    <3>. QED  BY <1>1, <1>7, <2>2, <3>1 DEF KnownParts, Believes
  <2>. QED  BY <2>1, <2>2
<1>16. Believes(saved.told, saved.remoteIds)'
  BY <1>1, <1>4, <1>6, <1>8 DEF Believes, KnownParts
<1>17. QueryReported'
  <2>. SUFFICES ASSUME setup.narrowed, setup.realtime, NEW i \in Ids, InQuery(server[i])
                PROVE  \/ told'[i] = rev[i]
                       \/ \E k \in DOMAIN events : /\ events[k].id = i /\ events[k].value # 0
                                                   /\ events[k].rev = rev[i]
    BY <1>4, <1>6 DEF QueryReported, InQuery
  <2>1. told[i] = rev[i] => told'[i] = rev[i]
    BY <1>7, <1>10
  <2>. QED  BY <1>1, <2>1 DEF KnownParts, QueryReported
<1>18. LeaversKnown'
  <2>. SUFFICES ASSUME NEW k \in DOMAIN events, events[k].value = 0,
                       events[k].rev = rev[events[k].id], server[events[k].id] # 0,
                       events[k].id \notin raced'
                PROVE  KnownBy(events[k].id, k)'
    BY <1>4, <1>6 DEF LeaversKnown
  <2>1. PICK i \in Ids : i = events[k].id
    BY <1>1, EventTyped DEF TypeInvariant, RemoteType
  <2>2. KnownBy(i, k)
    BY <1>1, <1>8, <2>1 DEF KnownParts, LeaversKnown
  <2>3. \A q : ~Removing(i, q)'
    BY <1>4 DEF Removing
  <2>4. CASE \E j \in 1 .. k - 1 : events[j].id = i /\ events[j].value # 0
    BY <1>6, <2>1, <2>3, <2>4 DEF KnownBy
  <2>5. CASE i \in remoteIds /\ ~Removing(i, told[i])
    <3>1. i \in remoteIds'
      <4>. SUFFICES ASSUME i = id, c.op = "delete" PROVE FALSE
        BY <1>4, <1>5, <2>5
      <4>1. ~(r >= told[id])
        BY <1>3, <1>5, <2>5 DEF Removing
      <4>2. r < told[id]
        BY <1>7, <4>1
      <4>3. id \in raced'
        BY <1>4, <1>5, <4>2 DEF Late
      <4>. QED  BY <2>1, <4>3
    <3>. QED  BY <1>6, <2>1, <2>3, <3>1 DEF KnownBy
  <2>. QED  BY <2>2, <2>4, <2>5 DEF KnownBy
<1>19. RowsReport'
  <2>1. pull' = pull /\ \A i \in Ids : pull = NoPull \/ told'[i] = told[i] \/ i \in raced'
    BY <1>4, <1>5, <1>7, <1>9
  <2>. QED  BY <1>1, <1>4, <1>8, <2>1, RowsStay
<1>20. PullCovers' /\ CallWrote'
  BY <1>4 DEF BaselineInvariant, PullCovers, CallWrote
<1>21. AnswersBelieved'
  <2>1. /\ DOMAIN push.answers \cap push.todo = {}
        /\ ~push.stale => DOMAIN push.answers \subseteq remoteIds
    BY <1>3 DEF BaselineInvariant, AnswersBelieved
  <2>2. DOMAIN push'.answers \cap push'.todo = {}
    BY <1>4, <2>1
  <2>3. ASSUME ~push.stale PROVE DOMAIN push'.answers \subseteq remoteIds'
    BY <1>3, <1>4, <2>1, <2>3
  <2>. QED  BY <1>4, <2>2, <2>3 DEF AnswersBelieved
<1>. QED  BY <1>12, <1>13, <1>14, <1>15, <1>16, <1>17, <1>18, <1>19, <1>20, <1>21
     DEF BaselineInvariant

\* A push that rejects only forgets what it was about.
LEMMA PushRejectsKeeps ==
  ASSUME BaselineInvariant, PushRefused \/ PushLost
  PROVE  BaselineInvariant'
<1>1. TypeInvariant /\ KnownParts
  BY DEF BaselineInvariant, KnownParts
<1>2. /\ push # NoPush /\ PushRejects
      /\ UNCHANGED budget \/ Spend("lost")
  BY DEF PushRefused, PushLost
<1>3. /\ push' = NoPush /\ raced' = raced \cup (push.touched \ Touched)
      /\ UNCHANGED <<setup, remote, base, outbox, remoteIds, cursor, pullOwed, told, saved, pull>>
  BY <1>2 DEF PushRejects
<1>4. budget' \in Bounds
  BY <1>1, <1>2, SpendTyped DEF TypeInvariant
<1>5. raced' \in SUBSET Ids /\ raced \subseteq raced'
  BY <1>1, <1>2, <1>3 DEF TypeInvariant, ClientType, RequestType, Pushes
<1>6. TypeInvariant'
  BY <1>1, <1>3, <1>4, <1>5 DEF TypeInvariant, RemoteType, ClientType, RequestType, remote
<1>7. NoNewRemoval
  BY <1>3 DEF NoNewRemoval, Removing
<1>8. KnownParts'
  BY <1>1, <1>3, <1>5, <1>7, StayKeeps
<1>9. RowsReport'
  BY <1>1, <1>3, <1>5, RowsStay DEF BaselineInvariant, TypeInvariant
<1>10. PullCovers' /\ CallWrote' /\ AnswersBelieved'
  BY <1>3 DEF BaselineInvariant, PullCovers, CallWrote, AnswersBelieved
<1>. QED  BY <1>6, <1>8, <1>9, <1>10 DEF BaselineInvariant, KnownParts

\* A push that is acknowledged takes answers about records the adapter believes in.
LEMMA PushDoneEffect ==
  ASSUME BaselineInvariant, PushDone
  PROVE  /\ push # NoPush /\ push \in Pushes /\ push.todo = {} /\ push' = NoPush
         /\ raced' = raced \cup Unconfirmed
         /\ base' \in Records /\ outbox' \in Seq(Mutations)
         /\ Selected(outbox', Numbered(outbox, Nat \ push.mutations))
         /\ remoteIds' = remoteIds
         /\ saved' = [remoteIds |-> remoteIds, told |-> told]
         /\ pullOwed' = (pullOwed \/ push.stale) /\ OvertakePull
         /\ UNCHANGED <<setup, remote, cursor, told, budget>>
<1>1. PICK found : found = IF push.stale THEN <<>> ELSE push.answers
  OBVIOUS
<1>2. PICK sent, rest : /\ sent = Numbered(outbox, push.mutations)
                        /\ rest = Numbered(outbox, Nat \ push.mutations)
  OBVIOUS
<1>3. PICK onto : onto = ApplyAll(base, sent)
  OBVIOUS
<1>4. /\ push # NoPush /\ push.todo = {} /\ push' = NoPush
      /\ raced' = raced \cup Unconfirmed
      /\ UNCHANGED <<setup, remote, cursor, told, budget>>
      /\ Take(found, {}, onto, rest)
      /\ pullOwed' = (pullOwed \/ push.stale) /\ OvertakePull
  BY <1>1, <1>2, <1>3 DEF PushDone
<1>5. TypeInvariant /\ push \in Pushes /\ base \in Records /\ outbox \in Seq(Mutations)
      /\ remoteIds \in SUBSET Ids
  BY <1>4 DEF BaselineInvariant, TypeInvariant, RequestType, ClientType
<1>6. sent \in Seq(Mutations) /\ rest \in Seq(Mutations)
  <2>1. Selected(sent, outbox) /\ Selected(rest, outbox)
    BY <1>2, <1>5, NumberedFacts
  <2>. QED  BY <1>5, <2>1 DEF Selected
<1>7. onto \in Records
  BY <1>3, <1>5, <1>6, ApplyAllType
<1>8. found \in Answers(Nat) /\ DOMAIN found \subseteq remoteIds
  <2>1. CASE push.stale
    <3>1. DOMAIN found = {} /\ found \in [{} -> Nat]
      BY <1>1, <2>1
    <3>. QED  BY <3>1 DEF Answers
  <2>2. CASE ~push.stale
    BY <1>1, <1>4, <1>5, <2>2 DEF BaselineInvariant, AnswersBelieved, Pushes
  <2>. QED  BY <2>1, <2>2
<1>9. /\ base' \in Records /\ outbox' \in Seq(Mutations) /\ Selected(outbox', rest)
      /\ remoteIds' = (remoteIds \cup DOMAIN found) \ (IF setup.narrowed THEN {} ELSE {})
      /\ saved' = [remoteIds |-> remoteIds', told |-> told']
  BY <1>4, <1>5, <1>6, <1>7, <1>8, TakeEffect
<1>10. remoteIds' = remoteIds
  BY <1>8, <1>9
<1>. QED  BY <1>2, <1>4, <1>5, <1>9, <1>10

LEMMA PushDoneKeeps ==
  ASSUME BaselineInvariant, PushDone
  PROVE  BaselineInvariant'
<1>1. TypeInvariant /\ KnownParts /\ RequestType
  BY DEF BaselineInvariant, KnownParts, TypeInvariant
<1>2. /\ push # NoPush /\ push \in Pushes /\ push' = NoPush
      /\ raced' = raced \cup Unconfirmed
      /\ base' \in Records /\ outbox' \in Seq(Mutations)
      /\ remoteIds' = remoteIds
      /\ saved' = [remoteIds |-> remoteIds, told |-> told]
      /\ pullOwed' = (pullOwed \/ push.stale) /\ OvertakePull
      /\ UNCHANGED <<setup, remote, cursor, told, budget>>
  BY PushDoneEffect
<1>3. raced' \in SUBSET Ids /\ raced \subseteq raced'
  BY <1>1, <1>2 DEF Unconfirmed, TypeInvariant, ClientType, Pushes
<1>4. PullStays /\ (pull' = NoPull \/ (pull # NoPull /\ pull' = Overtaken(pull)))
  BY <1>2 DEF OvertakePull, PullStays
<1>5. pull' \in {NoPull} \cup Pulls /\ PullCovers'
  BY <1>1, <1>2, <1>4, PullGoesOn DEF BaselineInvariant
<1>6. TypeInvariant'
  <2>1. pullOwed' \in BOOLEAN
    BY <1>1, <1>2 DEF TypeInvariant, ClientType, Pushes
  <2>2. saved' \in [remoteIds : SUBSET Ids, told : Records]
    BY <1>1, <1>2 DEF TypeInvariant, ClientType
  <2>. QED  BY <1>1, <1>2, <1>3, <1>5, <2>1, <2>2
            DEF TypeInvariant, RemoteType, ClientType, RequestType, remote
<1>7. NoNewRemoval
  BY <1>2 DEF NoNewRemoval, Removing
<1>8. KnownParts'
  BY <1>1, <1>2, <1>3, <1>7, StayKeeps
<1>9. RowsReport'
  BY <1>1, <1>2, <1>3, <1>4, RowsStay DEF BaselineInvariant
<1>10. CallWrote' /\ AnswersBelieved'
  BY <1>2 DEF CallWrote, AnswersBelieved
<1>. QED  BY <1>5, <1>6, <1>8, <1>9, <1>10 DEF BaselineInvariant, KnownParts

-----------------------------------------------------------------------------
(* The baseline.                                                           *)

LEMMA InvariantInit == Init => BaselineInvariant
<1>. SUFFICES ASSUME Init PROVE BaselineInvariant
  OBVIOUS
<1>1. /\ setup \in Setups
      /\ server = [i \in Ids |-> IF i \in setup.rows THEN Canonical(1) ELSE 0]
      /\ rev = [i \in Ids |-> IF i \in setup.rows THEN i ELSE 0]
      /\ events = Opening(server, rev)
      /\ base = [i \in Ids |-> 0] /\ outbox = <<>> /\ remoteIds = {} /\ cursor = 0
      /\ push = NoPush /\ pull = NoPull /\ pullOwed = TRUE
      /\ told = [i \in Ids |-> 0] /\ raced = {}
      /\ saved = [remoteIds |-> {}, told |-> told] /\ budget = setup.bounds
  BY DEF Init
<1>2. /\ setup.rows \subseteq Ids /\ setup.bounds \in Bounds
      /\ setup.narrowed \in BOOLEAN
  BY <1>1, SetupFacts
<1>3. Canonical(1) \in Nat /\ Canonical(1) # 0
  BY CanonicalFacts
<1>4. Ids \subseteq Nat \ {0}
  BY SetupsAssumption
<1>5. /\ server \in Records /\ rev \in Records
      /\ \A i \in Ids : server[i] # 0 => rev[i] > 0
      /\ \A i \in Ids : server[i] = 0 => rev[i] = 0
      /\ \A i \in Ids : rev[i] \in Nat
  BY <1>1, <1>3, <1>4 DEF Records
<1>6. Opens(events, server, rev)
  BY <1>1, <1>5, OpeningFacts
<1>7. base \in Records /\ told \in Records /\ \A i \in Ids : told[i] = 0
  BY <1>1 DEF Records
<1>8. saved \in [remoteIds : SUBSET Ids, told : Records]
      /\ saved.told = told /\ saved.remoteIds = {}
  BY <1>1, <1>7
<1>9. TypeInvariant
  BY <1>1, <1>2, <1>5, <1>6, <1>7, <1>8
     DEF TypeInvariant, RemoteType, ClientType, RequestType, Opens
<1>10. RevisionsKnown
  BY <1>1, <1>5, <1>7, <1>8 DEF RevisionsKnown
<1>11. \A k \in DOMAIN events :
          /\ events[k].id \in Ids /\ InQuery(server[events[k].id])
          /\ events[k].value = server[events[k].id] /\ events[k].rev = rev[events[k].id]
  BY <1>6, <1>9, EventTyped DEF Opens, TypeInvariant, RemoteType
<1>12. EventsReport
  <2>. SUFFICES ASSUME NEW k \in DOMAIN events
                PROVE  Reports(events[k].id, events[k].value, events[k].rev)
    BY DEF EventsReport
  <2>. QED  BY <1>5, <1>11 DEF Reports, Visible
<1>13. RowsReport /\ PullCovers /\ CallWrote /\ AnswersBelieved
  <2>1. DOMAIN pull.rows = {}
    BY <1>1 DEF NoPull
  <2>. QED  BY <1>1, <2>1 DEF RowsReport, PullCovers, CallWrote, AnswersBelieved
<1>14. Believes(told, remoteIds) /\ Believes(saved.told, saved.remoteIds)
  BY <1>1, <1>7, <1>8 DEF Believes
<1>15. QueryReported
  BY <1>6 DEF Opens, QueryReported
<1>16. LeaversKnown
  BY <1>11 DEF LeaversKnown, InQuery
<1>. QED  BY <1>9, <1>10, <1>12, <1>13, <1>14, <1>15, <1>16 DEF BaselineInvariant

LEMMA InvariantKept == BaselineInvariant /\ [Next]_vars => BaselineInvariant'
<1>. SUFFICES ASSUME BaselineInvariant, [Next]_vars PROVE BaselineInvariant'
  OBVIOUS
<1>1. CASE Others
  BY <1>1, OthersKeeps
<1>2. CASE Write
  BY <1>2, WriteKeeps
<1>3. CASE WriteAll
  BY <1>3, WriteAllKeeps
<1>4. CASE Restart
  BY <1>4, RestartKeeps
<1>5. CASE Event
  BY <1>5, EventKeeps
<1>6. CASE PullAsk
  BY <1>6, PullAskKeeps
<1>7. CASE PullPage
  BY <1>7, PullPageKeeps
<1>8. CASE PullAnswer
  BY <1>8, PullAnswerKeeps
<1>9. CASE PullFails
  BY <1>9, PullFailsKeeps
<1>10. CASE PushStart
  BY <1>10, PushStartKeeps
<1>11. CASE PushRecord
  <2>1. PICK id \in push.todo : /\ push # NoPush /\ push.call = NoCall
                                /\ Skip(id) \/ Call(id)
                                /\ UNCHANGED <<setup, client, pull>>
    BY <1>11 DEF PushRecord
  <2>. QED  BY <2>1, SkipKeeps, CallKeeps
<1>12. CASE PushReturns
  BY <1>12, PushReturnsKeeps
<1>13. CASE PushRefused \/ PushLost
  BY <1>13, PushRejectsKeeps
<1>14. CASE PushDone
  BY <1>14, PushDoneKeeps
<1>15. CASE UNCHANGED vars
  BY <1>15 DEF vars, remote, client, BaselineInvariant, TypeInvariant, RemoteType, ClientType,
     RequestType, RevisionsKnown, EventsReport, Reports, Visible, InQuery, RowsReport, PullCovers,
     CallWrote, AnswersBelieved, Believes, QueryReported, LeaversKnown, KnownBy, Removing
<1>. QED  BY <1>1, <1>2, <1>3, <1>4, <1>5, <1>6, <1>7, <1>8, <1>9, <1>10, <1>11, <1>12, <1>13,
          <1>14, <1>15 DEF Next

LEMMA Invariance == Spec => []BaselineInvariant
<1>1. Init => BaselineInvariant
  BY InvariantInit
<1>2. BaselineInvariant /\ [Next]_vars => BaselineInvariant'
  BY InvariantKept
<1>. QED  BY <1>1, <1>2, PTL DEF Spec

\* The adapter (crud.ts) believes what it was told, whatever the backend, the number
\* of records and the bounds: when no push is in flight, a record whose newest
\* revision the client heard of, in order, is in remoteIds exactly if the remote has
\* it, but that under a narrowed read a removal proves nothing.
THEOREM BaselineHolds == Spec => []BaselineIsTold
<1>1. BaselineInvariant => BaselineIsTold
  <2>. SUFFICES ASSUME BaselineInvariant, NEW id \in Ids, Told(id), id \notin raced
                PROVE  /\ server[id] # 0 /\ told[id] # 0 => id \in remoteIds
                       /\ server[id] = 0 => id \notin remoteIds \/ setup.narrowed
    BY DEF BaselineIsTold
  <2>. QED  BY DEF BaselineInvariant, Believes, Told
<1>. QED  BY <1>1, Invariance, PTL

-----------------------------------------------------------------------------
(* What is acknowledged: the invariant.                                    *)

\* The outbox: a removal leaves nothing, no write of the whole collection follows
\* one, and a mutation to come has a number of its own.
Fits(ms, next) ==
  /\ \A k \in 1 .. Len(ms) : /\ ms[k].n > next
                             /\ ms[k].kind = "remove" => ms[k].value = 0
  /\ \A j, k \in 1 .. Len(ms) : j < k /\ ms[j].kind = "remove" => ms[k].kind # "collection"

Sent(k) == k \in 1 .. Len(outbox) /\ outbox[k].n \in push.mutations
WholeSent == \E k \in 1 .. Len(outbox) : Sent(k) /\ outbox[k].kind = "collection"

\* What a push knows of the records: what it deletes is gone, and it makes a call
\* for each record that a mutation it sent names.
PushFits ==
  push # NoPush =>
    /\ \A n \in push.mutations : n > budget.local
    /\ \A k \in 1 .. Len(outbox) : Sent(k) /\ outbox[k].kind # "collection"
                                     => outbox[k].id \in push.touched
    /\ \A i \in push.deleted : push.records[i] = 0
    /\ \A i \in Ids : push.at[i] <= told[i]
CallFits ==
  push # NoPush /\ push.call # NoCall =>
    push.call.value = Canonical(push.records[push.call.id])

\* A record that the push is done with, or that a write of the whole collection
\* leaves out, is on the remote as the store had it, or was written since.
Settled ==
  push # NoPush => \A i \in Ids \ raced :
    i \notin push.todo /\ push.at[i] = rev[i] /\ (i \in push.touched \/ WholeSent)
      => server[i] = Canonical(push.records[i])

AckInvariant ==
  BaselineInvariant /\ Fits(outbox, budget.local) /\ PushFits /\ CallFits /\ Settled

-----------------------------------------------------------------------------
(* What is acknowledged: each step keeps the invariant.                    *)

LEMMA SelectedFits ==
  ASSUME NEW ms \in Seq(Mutations), NEW s, Selected(s, ms), NEW next, Fits(ms, next)
  PROVE  Fits(s, next)
<1>1. ASSUME NEW k \in 1 .. Len(s)
      PROVE  s[k].n > next /\ (s[k].kind = "remove" => s[k].value = 0)
  <2>1. PICK j \in 1 .. Len(ms) : s[k] = ms[j]
    BY DEF Selected
  <2>. QED  BY <2>1 DEF Fits
<1>2. ASSUME NEW j \in 1 .. Len(s), NEW k \in 1 .. Len(s), j < k, s[j].kind = "remove"
      PROVE  s[k].kind # "collection"
  <2>1. Follows(ms, s[j], s[k])
    BY <1>2 DEF Selected, InOrder
  <2>2. PICK i, l \in 1 .. Len(ms) : i < l /\ ms[i] = s[j] /\ ms[l] = s[k]
    BY <2>1 DEF Follows
  <2>. QED  BY <1>2, <2>2 DEF Fits
<1>. QED  BY <1>1, <1>2 DEF Fits

\* A mutation that is sent was pending before.
NothingJoins ==
  \A k \in 1 .. Len(outbox') : outbox'[k].n \in push.mutations =>
    \E j \in 1 .. Len(outbox) : outbox[j] = outbox'[k]

LEMMA SelectedJoins ==
  ASSUME Selected(outbox', outbox)
  PROVE  NothingJoins
BY DEF Selected, NothingJoins

\* The push in flight goes on; it may be out of date.
SamePush ==
  push # NoPush /\ push' # NoPush =>
    /\ push'.touched = push.touched /\ push'.mutations = push.mutations
    /\ push'.deleted = push.deleted /\ push'.records = push.records

\* A record that is written gets a newer revision.
WritesAreNewer ==
  \A i \in Ids : (server'[i] = server[i] /\ rev'[i] = rev[i]) \/ rev[i] < rev'[i]

LEMMA SentStays ==
  ASSUME NothingJoins, push # NoPush, push' # NoPush, SamePush
  PROVE  /\ \A k \in 1 .. Len(outbox') : Sent(k)' =>
              \E j \in 1 .. Len(outbox) : Sent(j) /\ outbox[j] = outbox'[k]
         /\ WholeSent' => WholeSent
<1>1. ASSUME NEW k \in 1 .. Len(outbox'), Sent(k)'
      PROVE  \E j \in 1 .. Len(outbox) : Sent(j) /\ outbox[j] = outbox'[k]
  BY <1>1 DEF NothingJoins, SamePush, Sent
<1>. QED  BY <1>1 DEF WholeSent

\* A push that makes no call and gets no answer.
LEMMA PushWaits ==
  ASSUME TypeInvariant, TypeInvariant', RevisionsKnown, PushFits, Settled,
         SamePush, NothingJoins, WritesAreNewer, setup' = setup, raced \subseteq raced',
         push' = NoPush \/ \A i \in Ids : told[i] <= told'[i],
         push' = NoPush \/ push # NoPush,
         push' = NoPush \/ (push'.todo = push.todo /\ push'.at = push.at),
         budget'.local <= budget.local
  PROVE  PushFits' /\ Settled'
<1>. SUFFICES ASSUME push' # NoPush PROVE PushFits' /\ Settled'
  BY DEF PushFits, Settled
<1>1. /\ push # NoPush /\ push'.todo = push.todo /\ push'.at = push.at
      /\ push'.touched = push.touched /\ push'.mutations = push.mutations
      /\ push'.deleted = push.deleted /\ push'.records = push.records
      /\ \A i \in Ids : told[i] <= told'[i]
  BY DEF SamePush
<1>2. /\ push \in Pushes /\ push.mutations \subseteq Nat /\ push.at \in Records
      /\ told \in Records /\ told' \in Records /\ rev \in Records /\ rev' \in Records
  BY <1>1 DEF TypeInvariant, RequestType, Pushes, ClientType, RemoteType
<1>3. \A i \in Ids : push.at[i] \in Nat /\ told[i] \in Nat /\ told'[i] \in Nat /\ rev[i] \in Nat
                     /\ rev'[i] \in Nat
  BY <1>2 DEF Records
<1>4. \A i \in Ids : push.at[i] <= told[i] /\ told[i] <= rev[i]
  BY <1>1 DEF PushFits, RevisionsKnown
<1>5. PushFits'
  <2>1. ASSUME NEW n \in push'.mutations PROVE n > budget'.local
    <3>1. n \in Nat /\ n > budget.local
      BY <1>1, <1>2 DEF PushFits
    <3>2. budget.local \in Nat /\ budget'.local \in Nat
      BY DEF TypeInvariant, Bounds
    <3>. QED  BY <3>1, <3>2
  <2>2. ASSUME NEW k \in 1 .. Len(outbox'), Sent(k)', outbox'[k].kind # "collection"
        PROVE  outbox'[k].id \in push'.touched
    <3>1. PICK j \in 1 .. Len(outbox) : Sent(j) /\ outbox[j] = outbox'[k]
      BY <1>1, <2>2, SentStays
    <3>. QED  BY <1>1, <2>2, <3>1 DEF PushFits
  <2>3. \A i \in push'.deleted : push'.records[i] = 0
    BY <1>1 DEF PushFits
  <2>4. \A i \in Ids : push'.at[i] <= told'[i]
    BY <1>1, <1>3, <1>4
  <2>. QED  BY <2>1, <2>2, <2>3, <2>4 DEF PushFits
<1>6. Settled'
  <2>. SUFFICES ASSUME NEW i \in Ids \ raced', i \notin push'.todo, push'.at[i] = rev'[i],
                       i \in push'.touched \/ WholeSent'
                PROVE  server'[i] = Canonical(push.records[i])'
    BY DEF Settled
  <2>1. WholeSent' => WholeSent
    BY <1>1, SentStays
  <2>2. server'[i] = server[i] /\ push.at[i] = rev[i]
    BY <1>1, <1>3, <1>4 DEF WritesAreNewer
  <2>3. server[i] = Canonical(push.records[i])
    BY <1>1, <2>1, <2>2 DEF Settled
  <2>. QED  BY <1>1, <2>2, <2>3 DEF Canonical
<1>. QED  BY <1>5, <1>6

LEMMA CallWaits ==
  ASSUME CallFits, setup' = setup, SamePush, push' = NoPush \/ push # NoPush,
         push' = NoPush \/ push'.call = push.call \/ push'.call = NoCall
  PROVE  CallFits'
BY DEF CallFits, SamePush, Canonical

\* A request goes on, is overtaken or ends: nothing becomes of the push.
LEMMA PushStaysFit ==
  ASSUME AckInvariant, BaselineInvariant', PushStays, NothingJoins, WritesAreNewer,
         setup' = setup, raced \subseteq raced',
         push' = NoPush \/ \A i \in Ids : told[i] <= told'[i],
         budget'.local <= budget.local
  PROVE  PushFits' /\ CallFits' /\ Settled'
<1>1. /\ push' # NoPush => /\ push # NoPush /\ push'.call = push.call
                           /\ push'.todo = push.todo /\ push'.answers = push.answers
                           /\ push'.mutations = push.mutations /\ push'.records = push.records
                           /\ push'.at = push.at /\ push'.touched = push.touched
                           /\ push'.deleted = push.deleted
  BY PushGoesOn DEF AckInvariant, BaselineInvariant, TypeInvariant
<1>2. SamePush
  BY <1>1 DEF SamePush
<1>3. PushFits' /\ Settled'
  BY <1>1, <1>2, PushWaits DEF AckInvariant, BaselineInvariant
<1>4. CallFits'
  BY <1>1, <1>2, CallWaits DEF AckInvariant
<1>. QED  BY <1>3, <1>4

\* A mutation joins the outbox.
LEMMA CommitFits ==
  ASSUME AckInvariant, NEW m \in Mutations, Commit(m),
         m.kind = "remove" => m.value = 0,
         m.kind = "collection" => \A k \in 1 .. Len(outbox) : outbox[k].kind # "remove"
  PROVE  AckInvariant'
<1>1. BaselineInvariant'
  BY CommitKeeps DEF AckInvariant
<1>2. /\ Spend("local") /\ outbox' = Append(outbox, [m EXCEPT !.n = budget.local])
      /\ UNCHANGED <<setup, remote, base, remoteIds, cursor, pullOwed, told, raced, push, pull>>
  BY DEF Commit
<1>3. TypeInvariant /\ outbox \in Seq(Mutations)
  BY DEF AckInvariant, BaselineInvariant, TypeInvariant, ClientType
<1>4. budget.local \in Nat /\ budget'.local = budget.local - 1 /\ budget.local > 0
      /\ budget'.local \in Nat
  BY <1>2, <1>3 DEF TypeInvariant, Bounds, Spend
<1>5. PICK new : new = [m EXCEPT !.n = budget.local]
  OBVIOUS
<1>6. new \in Mutations /\ new.n = budget.local /\ new.kind = m.kind /\ new.value = m.value
  BY <1>4, <1>5 DEF Mutations, NamedMutations, WholeMutations
<1>7. /\ Len(outbox') = Len(outbox) + 1 /\ Len(outbox) \in Nat
      /\ outbox'[Len(outbox) + 1] = new
      /\ \A k \in 1 .. Len(outbox) : outbox'[k] = outbox[k]
  BY <1>2, <1>3, <1>5, <1>6, AppendProperties, LenProperties
<1>8. \A k \in 1 .. Len(outbox') : k \in 1 .. Len(outbox) \/ k = Len(outbox) + 1
  BY <1>7
<1>9. Fits(outbox, budget.local)'
  <2>1. ASSUME NEW k \in 1 .. Len(outbox')
        PROVE  outbox'[k].n > budget'.local /\ (outbox'[k].kind = "remove" => outbox'[k].value = 0)
    <3>1. CASE k \in 1 .. Len(outbox)
      <4>1. outbox[k].n \in Nat
        BY <1>3, <3>1, ElementOfSeq, MutationFacts
      <4>2. outbox[k].n > budget.local /\ (outbox[k].kind = "remove" => outbox[k].value = 0)
        BY <3>1 DEF AckInvariant, Fits
      <4>. QED  BY <1>4, <1>7, <3>1, <4>1, <4>2
    <3>2. CASE k = Len(outbox) + 1
      BY <1>4, <1>6, <1>7, <3>2
    <3>. QED  BY <1>8, <3>1, <3>2
  <2>2. ASSUME NEW j \in 1 .. Len(outbox'), NEW k \in 1 .. Len(outbox'), j < k,
               outbox'[j].kind = "remove"
        PROVE  outbox'[k].kind # "collection"
    <3>1. j \in 1 .. Len(outbox)
      BY <1>7, <2>2
    <3>2. CASE k \in 1 .. Len(outbox)
      BY <1>7, <2>2, <3>1, <3>2 DEF AckInvariant, Fits
    <3>3. CASE k = Len(outbox) + 1
      BY <1>6, <1>7, <2>2, <3>1, <3>3
    <3>. QED  BY <1>8, <3>2, <3>3
  <2>. QED  BY <2>1, <2>2 DEF Fits
<1>10. NothingJoins
  <2>. SUFFICES ASSUME NEW k \in 1 .. Len(outbox'), outbox'[k].n \in push.mutations
                PROVE  \E j \in 1 .. Len(outbox) : outbox[j] = outbox'[k]
    BY DEF NothingJoins
  <2>1. CASE k \in 1 .. Len(outbox)
    BY <1>7, <2>1
  <2>2. CASE k = Len(outbox) + 1
    <3>1. budget.local \in push.mutations
      BY <1>6, <1>7, <2>2
    <3>2. push # NoPush
      BY <3>1 DEF NoPush
    <3>. QED  BY <1>4, <3>1, <3>2 DEF AckInvariant, PushFits
  <2>. QED  BY <1>8, <2>1, <2>2
<1>11. PushStays /\ WritesAreNewer
  BY <1>2 DEF PushStays, WritesAreNewer, remote
<1>12. \A i \in Ids : told[i] <= told'[i]
  BY <1>2, <1>3 DEF TypeInvariant, ClientType, Records
<1>13. budget'.local <= budget.local
  BY <1>4
<1>. QED  BY <1>1, <1>2, <1>9, <1>10, <1>11, <1>12, <1>13, PushStaysFit DEF AckInvariant

LEMMA WriteFits ==
  ASSUME AckInvariant, Write
  PROVE  AckInvariant'
<1>1. setup.written \subseteq Ids
  BY SetupFacts DEF AckInvariant, BaselineInvariant, TypeInvariant
<1>2. PICK id \in setup.written, v \in {0, 1, 2}, kind \in {"add", "replace", "field", "remove"} :
        Commit(Mutation(kind, id, v)) /\ (kind = "remove" => v = 0)
  BY DEF Write
<1>3. PICK m : m = Mutation(kind, id, v)
  OBVIOUS
<1>4. m \in Mutations /\ m.kind = kind /\ m.value = v
  BY <1>1, <1>3 DEF Mutation, Mutations, NamedMutations
<1>. QED  BY <1>2, <1>3, <1>4, CommitFits

LEMMA WriteAllFits ==
  ASSUME AckInvariant, WriteAll
  PROVE  AckInvariant'
<1>1. PICK id \in Ids : Commit(Mutation("collection", 0, [i \in Ids |-> IF i = id THEN 2 ELSE 0]))
  BY DEF WriteAll
<1>2. \A m \in ToSet(outbox) : m.kind # "remove"
  BY DEF WriteAll
<1>3. PICK m : m = Mutation("collection", 0, [i \in Ids |-> IF i = id THEN 2 ELSE 0])
  OBVIOUS
<1>4. m \in Mutations /\ m.kind = "collection"
  BY <1>3 DEF Mutation, Mutations, WholeMutations, Records
<1>5. outbox \in Seq(Mutations)
  BY DEF AckInvariant, BaselineInvariant, TypeInvariant, ClientType
<1>6. \A k \in 1 .. Len(outbox) : outbox[k].kind # "remove"
  BY <1>2, <1>5, LenProperties DEF ToSet
<1>. QED  BY <1>1, <1>3, <1>4, <1>6, CommitFits

LEMMA WroteIsNewer ==
  ASSUME UNCHANGED remote \/ \E id \in Ids, v \in Nat : RemoteWrote(id, v)
  PROVE  WritesAreNewer
<1>1. CASE UNCHANGED remote
  BY <1>1 DEF WritesAreNewer, remote
<1>2. ASSUME NEW id \in Ids, NEW v \in Nat, RemoteWrote(id, v) PROVE WritesAreNewer
  BY <1>2 DEF WritesAreNewer, RemoteWrote
<1>. QED  BY <1>1, <1>2

LEMMA SelectedTwice ==
  ASSUME NEW a, NEW b, NEW c, Selected(a, b), Selected(b, c)
  PROVE  Selected(a, c)
<1>1. ASSUME NEW i \in 1 .. Len(a) PROVE \E j \in 1 .. Len(c) : a[i] = c[j]
  <2>1. PICK l \in 1 .. Len(b) : a[i] = b[l]
    BY DEF Selected
  <2>. QED  BY <2>1 DEF Selected
<1>2. ASSUME NEW i \in 1 .. Len(a), NEW k \in 1 .. Len(a), i < k PROVE Follows(c, a[i], a[k])
  <2>1. Follows(b, a[i], a[k])
    BY <1>2 DEF Selected, InOrder
  <2>2. PICK p, q \in 1 .. Len(b) : p < q /\ b[p] = a[i] /\ b[q] = a[k]
    BY <2>1 DEF Follows
  <2>3. Follows(c, b[p], b[q])
    BY <2>2 DEF Selected, InOrder
  <2>. QED  BY <2>2, <2>3
<1>3. InOrder(a, c)
  BY <1>2 DEF InOrder
<1>. QED  BY <1>1, <1>3 DEF Selected

LEMMA LocalStays ==
  ASSUME budget \in Bounds, NEW what \in {"others", "lost", "crash"}, Spend(what)
  PROVE  budget'.local = budget.local
<1>1. CASE what = "others"
  BY <1>1 DEF Bounds, Spend
<1>2. CASE what = "lost"
  BY <1>2 DEF Bounds, Spend
<1>3. CASE what = "crash"
  BY <1>3 DEF Bounds, Spend
<1>. QED  BY <1>1, <1>2, <1>3

\* A step that only drops mutations.
LEMMA OutboxShrinks ==
  ASSUME AckInvariant, BaselineInvariant', PushStays, WritesAreNewer,
         outbox' = outbox \/ Selected(outbox', outbox),
         setup' = setup, raced \subseteq raced',
         push' = NoPush \/ \A i \in Ids : told[i] <= told'[i],
         budget'.local = budget.local
  PROVE  AckInvariant'
<1>1. outbox \in Seq(Mutations) /\ budget.local \in Nat /\ Fits(outbox, budget.local)
  BY DEF AckInvariant, BaselineInvariant, TypeInvariant, ClientType, Bounds
<1>2. Fits(outbox', budget.local)
  BY <1>1, SelectedFits
<1>3. Fits(outbox, budget.local)'
  BY <1>2
<1>4. NothingJoins
  <2>1. CASE outbox' = outbox
    BY <2>1 DEF NothingJoins
  <2>. QED  BY <2>1, SelectedJoins
<1>5. budget'.local <= budget.local
  BY <1>1
<1>. QED  BY <1>3, <1>4, <1>5, PushStaysFit DEF AckInvariant

LEMMA ToldStays ==
  ASSUME TypeInvariant, told' = told
  PROVE  \A i \in Ids : told[i] <= told'[i]
BY DEF TypeInvariant, ClientType, Records

LEMMA OthersFits ==
  ASSUME AckInvariant, Others
  PROVE  AckInvariant'
<1>1. BaselineInvariant' /\ TypeInvariant
  BY OthersKeeps DEF AckInvariant, BaselineInvariant
<1>2. setup.written \subseteq Ids
  BY <1>1, SetupFacts DEF TypeInvariant
<1>3. PICK id \in Ids, v \in Nat :
        /\ Spend("others") /\ ServerWrites(id, v)
        /\ UNCHANGED <<setup, client, push, pull>>
  BY <1>2 DEF Others
<1>4. UNCHANGED remote \/ RemoteWrote(id, v)
  BY <1>1, <1>3, WriteEffect DEF TypeInvariant
<1>5. WritesAreNewer
  BY <1>4, WroteIsNewer
<1>6. PushStays /\ outbox' = outbox /\ told' = told /\ raced' = raced /\ setup' = setup
  BY <1>3 DEF PushStays, client
<1>7. budget'.local = budget.local
  BY <1>1, <1>3, LocalStays DEF TypeInvariant
<1>. QED  BY <1>1, <1>5, <1>6, <1>7, ToldStays, OutboxShrinks

LEMMA RestartFits ==
  ASSUME AckInvariant, Restart
  PROVE  AckInvariant'
<1>1. BaselineInvariant' /\ TypeInvariant
  BY RestartKeeps DEF AckInvariant, BaselineInvariant
<1>2. /\ Spend("crash") /\ push' = NoPush
      /\ UNCHANGED <<setup, server, rev, raced>>
      /\ outbox' = outbox \/ outbox' = Replayable(base', outbox)
  BY DEF Restart
<1>3. base' \in Records /\ outbox \in Seq(Mutations)
  BY <1>1 DEF BaselineInvariant, TypeInvariant, ClientType
<1>4. outbox' = outbox \/ Selected(outbox', outbox)
  <2>1. Selected(Replayable(base', outbox), outbox)
    BY <1>3, ReplayableFacts
  <2>. QED  BY <1>2, <2>1
<1>5. WritesAreNewer /\ PushStays
  BY <1>2 DEF WritesAreNewer, PushStays
<1>6. budget'.local = budget.local
  BY <1>1, <1>2, LocalStays DEF TypeInvariant
<1>. QED  BY <1>1, <1>2, <1>4, <1>5, <1>6, OutboxShrinks

LEMMA EventFits ==
  ASSUME AckInvariant, Event
  PROVE  AckInvariant'
<1>1. BaselineInvariant /\ BaselineInvariant' /\ TypeInvariant /\ RequestType
  BY EventKeeps DEF AckInvariant, BaselineInvariant, TypeInvariant
<1>2. PICK id \in Ids, r \in Nat :
           /\ told' = [told EXCEPT ![id] = Higher(@, r)]
           /\ raced' = raced \cup Late(id, r)
           /\ Selected(outbox', outbox)
  BY <1>1, EventEffect
<1>3. OvertakePush /\ UNCHANGED <<setup, server, rev, budget>>
  BY DEF Event
<1>4. PushStays /\ WritesAreNewer
  BY <1>1, <1>3, Overtakes DEF WritesAreNewer
<1>5. \A i \in Ids : told[i] <= told'[i]
  <2>1. told \in Records
    BY <1>1 DEF TypeInvariant, ClientType
  <2>2. \A i \in Ids : told[i] \in Nat /\ told'[i] = IF i = id THEN Higher(told[i], r) ELSE told[i]
    BY <1>2, <2>1 DEF Records
  <2>3. \A i \in Ids : told[i] <= Higher(told[i], r)
    BY <2>2, HigherFacts
  <2>. QED  BY <2>2, <2>3
<1>. QED  BY <1>1, <1>2, <1>3, <1>4, <1>5, OutboxShrinks

LEMMA PullsFit ==
  ASSUME AckInvariant, PullAsk \/ PullPage \/ PullFails
  PROVE  AckInvariant'
<1>1. BaselineInvariant' /\ TypeInvariant
  BY PullAskKeeps, PullPageKeeps, PullFailsKeeps DEF AckInvariant, BaselineInvariant
<1>2. UNCHANGED <<setup, remote, outbox, told, raced, push>>
  BY DEF PullAsk, PullPage, PullFails, client
<1>3. budget'.local = budget.local
  <2>1. UNCHANGED budget \/ Spend("lost")
    BY DEF PullAsk, PullPage, PullFails
  <2>. QED  BY <1>1, <2>1, LocalStays DEF TypeInvariant
<1>4. PushStays /\ WritesAreNewer
  BY <1>2, WroteIsNewer DEF PushStays
<1>. QED  BY <1>1, <1>2, <1>3, <1>4, ToldStays, OutboxShrinks

LEMMA PullAnswerFits ==
  ASSUME AckInvariant, PullAnswer
  PROVE  AckInvariant'
<1>1. BaselineInvariant /\ BaselineInvariant' /\ TypeInvariant /\ RequestType
  BY PullAnswerKeeps DEF AckInvariant, BaselineInvariant, TypeInvariant
<1>2. UNCHANGED <<setup, remote, raced, budget>>
  BY DEF PullAnswer
<1>3. WritesAreNewer
  BY <1>2, WroteIsNewer
<1>4. CASE pull.stale
  <2>1. UNCHANGED <<outbox, told, push>>
    BY <1>4 DEF PullAnswer
  <2>. QED  BY <1>1, <1>2, <1>3, <2>1, ToldStays, OutboxShrinks DEF PushStays
<1>5. CASE ~pull.stale
  <2>1. /\ pull \in Pulls /\ OvertakePush /\ Selected(outbox', outbox)
        /\ told' = [i \in Ids |-> IF i \in Heard THEN Higher(told[i], pull.rows[i].rev) ELSE told[i]]
    BY <1>1, <1>5, PullAnswerEffect
  <2>2. PushStays
    BY <1>1, <2>1, Overtakes
  <2>3. ASSUME NEW i \in Ids PROVE told[i] <= told'[i]
    <3>1. told[i] \in Nat
      BY <1>1 DEF TypeInvariant, ClientType, Records
    <3>2. CASE i \in Heard
      <4>1. pull.rows[i].rev \in Nat
        BY <1>1, <1>5, <2>1, <3>2 DEF Heard, Seen, Pulls, Answers, Rows
      <4>2. PICK r \in Nat : r = pull.rows[i].rev
        BY <4>1
      <4>. QED  BY <2>1, <3>1, <3>2, <4>2, HigherFacts
    <3>3. CASE i \notin Heard
      BY <2>1, <3>1, <3>3
    <3>. QED  BY <3>2, <3>3
  <2>. QED  BY <1>1, <1>2, <1>3, <2>1, <2>2, <2>3, OutboxShrinks
<1>. QED  BY <1>4, <1>5

LEMMA PushEndsFit ==
  ASSUME AckInvariant, PushRefused \/ PushLost \/ PushDone
  PROVE  AckInvariant'
<1>1. BaselineInvariant /\ BaselineInvariant' /\ TypeInvariant
  BY PushRejectsKeeps, PushDoneKeeps DEF AckInvariant, BaselineInvariant
<1>2. CASE PushRefused \/ PushLost
  <2>1. /\ UNCHANGED budget \/ Spend("lost")
        /\ push' = NoPush /\ raced \subseteq raced' /\ UNCHANGED <<setup, remote, outbox>>
    BY <1>2 DEF PushRefused, PushLost, PushRejects
  <2>2. budget'.local = budget.local
    BY <1>1, <2>1, LocalStays DEF TypeInvariant
  <2>3. PushStays /\ WritesAreNewer
    BY <2>1, WroteIsNewer DEF PushStays
  <2>. QED  BY <1>1, <2>1, <2>2, <2>3, OutboxShrinks
<1>3. CASE PushDone
  <2>1. /\ push' = NoPush /\ raced' = raced \cup Unconfirmed
        /\ Selected(outbox', Numbered(outbox, Nat \ push.mutations))
        /\ UNCHANGED <<setup, remote, budget>>
    BY <1>1, <1>3, PushDoneEffect
  <2>2. outbox \in Seq(Mutations)
    BY <1>1 DEF TypeInvariant, ClientType
  <2>3. Selected(Numbered(outbox, Nat \ push.mutations), outbox)
    BY <2>2, NumberedFacts
  <2>4. Selected(outbox', outbox)
    BY <2>1, <2>3, SelectedTwice
  <2>5. PushStays /\ WritesAreNewer
    BY <2>1, WroteIsNewer DEF PushStays
  <2>. QED  BY <1>1, <2>1, <2>4, <2>5, OutboxShrinks
<1>. QED  BY <1>2, <1>3

\* A record that no mutation is about stays as it was.
Elsewhere(m, id) == m.kind # "collection" /\ m.id # id

LEMMA AppliedElsewhere ==
  ASSUME NEW f \in Records, NEW m \in Mutations, NEW id \in Ids, Elsewhere(m, id)
  PROVE  Applied(f, m)[id] = f[id]
BY MutationFacts DEF Elsewhere, Applied, Apply, Applies, Records

LEMMA UnnamedStays ==
  ASSUME NEW f \in Records, NEW ms \in Seq(Mutations), NEW id \in Ids,
         \A k \in 1 .. Len(ms) : Elsewhere(ms[k], id)
  PROVE  ApplyAll(f, ms)[id] = f[id]
<1>1. PICK t : Applying(t, f, ms) /\ ApplyAll(f, ms) = t[Len(ms)]
  BY ApplyAllSteps
<1>2. Len(ms) \in Nat /\ \A i \in 1 .. Len(ms) : ms[i] \in Mutations
  BY LenProperties, ElementOfSeq
<1>. DEFINE T == {i \in 0 .. Len(ms) : t[i][id] = f[id]}
<1>3. 0 \in T
  BY <1>1, <1>2 DEF Applying
<1>4. ASSUME NEW i \in 0 .. Len(ms) - 1, i \in T PROVE i + 1 \in T
  <2>1. i + 1 \in 1 .. Len(ms) /\ (i + 1) - 1 = i /\ i \in 0 .. Len(ms)
    BY <1>2
  <2>2. t[i] \in Records /\ t[i + 1] = Applied(t[i], ms[i + 1])
    BY <1>1, <2>1 DEF Applying
  <2>3. t[i + 1][id] = t[i][id]
    BY <1>2, <2>1, <2>2, AppliedElsewhere
  <2>. QED  BY <1>2, <1>4, <2>1, <2>3
<1>5. \A i \in 0 .. Len(ms) - 1 : i \in T => i + 1 \in T
  BY <1>4
<1>6. \A i \in T : t[i][id] = f[id]
  OBVIOUS
<1>7. Len(ms) \in T
  <2>. HIDE DEF T
  <2>1. 0 .. Len(ms) \subseteq T
    BY <1>2, <1>3, <1>5, Induction
  <2>. QED  BY <1>2, <2>1
<1>. QED  BY <1>1, <1>6, <1>7

\* A record that the last mutation about it removes is gone.
LEMMA RemovedIsGone ==
  ASSUME NEW f \in Records, NEW ms \in Seq(Mutations), NEW id \in Ids, NEW k \in 1 .. Len(ms),
         ms[k].kind = "remove", ms[k].value = 0, ms[k].id = id,
         \A j \in 1 .. Len(ms) : j > k => Elsewhere(ms[j], id)
  PROVE  ApplyAll(f, ms)[id] = 0
<1>1. PICK t : Applying(t, f, ms) /\ ApplyAll(f, ms) = t[Len(ms)]
  BY ApplyAllSteps
<1>2. Len(ms) \in Nat /\ k \in Nat /\ \A i \in 1 .. Len(ms) : ms[i] \in Mutations
  BY LenProperties, ElementOfSeq
<1>. DEFINE T == {i \in 0 .. Len(ms) : i < k \/ t[i][id] = 0}
<1>3. 0 \in T
  BY <1>2
<1>4. ASSUME NEW i \in 0 .. Len(ms) - 1, i \in T PROVE i + 1 \in T
  <2>1. i + 1 \in 1 .. Len(ms) /\ (i + 1) - 1 = i /\ i \in 0 .. Len(ms) /\ i + 1 \in 0 .. Len(ms)
    BY <1>2
  <2>2. t[i] \in Records /\ t[i + 1] = Applied(t[i], ms[i + 1])
    BY <1>1, <2>1 DEF Applying
  <2>3. CASE i + 1 < k
    BY <2>1, <2>3
  <2>4. CASE i + 1 = k
    <3>1. t[i + 1] = [t[i] EXCEPT ![id] = 0]
      BY <2>2, <2>4 DEF Applied, Applies, Apply
    <3>2. t[i + 1][id] = 0
      BY <2>2, <3>1 DEF Records
    <3>. QED  BY <2>1, <3>2
  <2>5. CASE i + 1 > k
    <3>1. t[i][id] = 0
      BY <1>2, <1>4, <2>1, <2>5
    <3>2. t[i + 1][id] = t[i][id]
      BY <1>2, <2>1, <2>2, <2>5, AppliedElsewhere
    <3>. QED  BY <2>1, <3>1, <3>2
  <2>. QED  BY <1>2, <2>1, <2>3, <2>4, <2>5
<1>5. \A i \in 0 .. Len(ms) - 1 : i \in T => i + 1 \in T
  BY <1>4
<1>6. \A i \in T : i < k \/ t[i][id] = 0
  OBVIOUS
<1>7. Len(ms) \in T
  <2>. HIDE DEF T
  <2>1. 0 .. Len(ms) \subseteq T
    BY <1>2, <1>3, <1>5, Induction
  <2>. QED  BY <1>2, <2>1
<1>. QED  BY <1>1, <1>2, <1>6, <1>7

\* The records a push deletes are gone from the store.
LEMMA DeletedIsGone ==
  ASSUME TypeInvariant, Fits(outbox, budget.local), NEW id \in Ids, Deleted(id)
  PROVE  Shown[id] = 0
<1>1. base \in Records /\ outbox \in Seq(Mutations)
  BY DEF TypeInvariant, ClientType
<1>2. CASE \E k \in DOMAIN outbox :
             /\ Names(outbox[k], id) /\ outbox[k].kind = "remove"
             /\ \A j \in DOMAIN outbox : Names(outbox[j], id) => j <= k
  <2>1. PICK k \in DOMAIN outbox :
             /\ Names(outbox[k], id) /\ outbox[k].kind = "remove"
             /\ \A j \in DOMAIN outbox : Names(outbox[j], id) => j <= k
    BY <1>2
  <2>2. DOMAIN outbox = 1 .. Len(outbox) /\ Len(outbox) \in Nat
    BY <1>1, LenProperties
  <2>3. outbox[k].value = 0 /\ outbox[k].id = id
    BY <2>1, <2>2 DEF Fits, Names
  <2>4. ASSUME NEW j \in 1 .. Len(outbox), j > k PROVE Elsewhere(outbox[j], id)
    <3>1. ~(j <= k)
      BY <2>2, <2>4
    <3>2. ~Names(outbox[j], id)
      BY <2>1, <2>2, <3>1
    <3>3. outbox[j].kind # "collection"
      BY <2>1, <2>2, <2>4 DEF Fits
    <3>. QED  BY <3>2, <3>3 DEF Names, Elsewhere
  <2>5. ApplyAll(base, outbox)[id] = 0
    BY <1>1, <2>1, <2>2, <2>3, <2>4, RemovedIsGone
  <2>. QED  BY <2>5 DEF Shown
<1>3. CASE WholeWrites /\ id \in remoteIds /\ Shown[id] = 0
  BY <1>3
<1>. QED  BY <1>2, <1>3 DEF Deleted

\* A record that is not believed in, and whose newest revision is known, does not exist.
LEMMA UnknownIsGone ==
  ASSUME TypeInvariant, RevisionsKnown, Believes(told, remoteIds), NEW i \in Ids \ raced,
         told[i] = rev[i], i \notin remoteIds
  PROVE  server[i] = 0
<1>1. server[i] # 0 => rev[i] > 0
  BY DEF RevisionsKnown
<1>2. rev[i] \in Nat
  BY DEF TypeInvariant, RemoteType, Records
<1>. QED  BY <1>1, <1>2 DEF Believes

LEMMA PushStartFits ==
  ASSUME AckInvariant, PushStart
  PROVE  AckInvariant'
<1>1. BaselineInvariant' /\ TypeInvariant /\ BaselineInvariant
  BY PushStartKeeps DEF AckInvariant, BaselineInvariant
<1>2. /\ push' \in Pushes /\ push'.todo = Touched /\ push'.touched = Touched
      /\ push'.mutations = {m.n : m \in ToSet(outbox)}
      /\ push'.deleted = {id \in Touched : Deleted(id)}
      /\ push'.records = Shown /\ push'.call = NoCall /\ push'.at = told
      /\ UNCHANGED <<setup, remote, client, pull, budget>>
  BY <1>1, PushStartEffect
<1>3. UNCHANGED <<outbox, told, raced, server, rev, remoteIds>>
  BY <1>2 DEF client, remote
<1>4. /\ outbox \in Seq(Mutations) /\ told \in Records /\ Fits(outbox, budget.local)
      /\ DOMAIN outbox = 1 .. Len(outbox)
  BY <1>1, LenProperties DEF TypeInvariant, ClientType, AckInvariant
<1>5. Fits(outbox, budget.local)'
  BY <1>2, <1>3, <1>4
<1>6. PushFits'
  <2>1. ASSUME NEW n \in push'.mutations PROVE n > budget'.local
    <3>1. PICK k \in 1 .. Len(outbox) : n = outbox[k].n
      BY <1>2, <1>4 DEF ToSet
    <3>. QED  BY <1>2, <1>4, <3>1 DEF Fits
  <2>2. ASSUME NEW k \in 1 .. Len(outbox'), outbox'[k].kind # "collection"
        PROVE  outbox'[k].id \in push'.touched
    <3>1. k \in 1 .. Len(outbox) /\ outbox'[k] = outbox[k]
      BY <1>3
    <3>2. outbox[k].id \in Ids /\ outbox[k] \in ToSet(outbox)
      BY <1>4, <2>2, <3>1, ElementOfSeq, MutationFacts DEF ToSet
    <3>3. Names(outbox[k], outbox[k].id)
      BY <2>2, <3>1 DEF Names
    <3>4. outbox[k].id \in Named
      BY <3>2, <3>3 DEF Named
    <3>. QED  BY <1>2, <3>1, <3>4 DEF Touched
  <2>3. ASSUME NEW i \in push'.deleted PROVE push'.records[i] = 0
    <3>1. i \in Ids
      BY <1>2 DEF Pushes
    <3>2. Deleted(i)
      BY <1>2
    <3>. QED  BY <1>1, <1>2, <1>4, <3>1, <3>2, DeletedIsGone
  <2>4. \A i \in Ids : push'.at[i] <= told'[i]
    BY <1>2, <1>3, <1>4 DEF Records
  <2>. QED  BY <2>1, <2>2, <2>3, <2>4 DEF PushFits
<1>7. CallFits'
  BY <1>2 DEF CallFits
<1>8. Settled'
  <2>1. Shown \in Records
    BY <1>2 DEF Pushes
  <2>2. ASSUME NEW i \in Ids \ raced', i \notin Touched, told[i] = rev[i], WholeSent'
        PROVE  server[i] = 0 /\ Shown[i] = 0
    <3>1. WholeWrites
      BY <1>3, <1>4, <2>2 DEF WholeSent, WholeWrites, ToSet
    <3>2. i \notin remoteIds /\ Shown[i] = 0
      BY <2>2, <3>1 DEF Touched, Known
    <3>3. RevisionsKnown /\ Believes(told, remoteIds) /\ i \in Ids \ raced
      BY <1>1, <1>3 DEF BaselineInvariant
    <3>. QED  BY <1>1, <2>2, <3>2, <3>3, UnknownIsGone
  <2>3. PICK shown : shown = Shown
    OBVIOUS
  <2>4. Settled' <=> \A i \in Ids \ raced' :
                       i \notin push'.todo /\ push'.at[i] = rev'[i] /\ (i \in push'.touched \/ WholeSent')
                         => server'[i] = Canonical(shown[i])
    <3>1. push' # NoPush
      BY <1>2 DEF Pushes, NoPush
    <3>2. \A i \in Ids : (Canonical(push.records[i]))' = Canonical(shown[i])
      BY <1>2, <2>3 DEF Canonical
    <3>. QED  BY <3>1, <3>2 DEF Settled
  <2>. SUFFICES ASSUME NEW i \in Ids \ raced', i \notin push'.todo, push'.at[i] = rev'[i],
                       i \in push'.touched \/ WholeSent'
                PROVE  server'[i] = Canonical(shown[i])
    BY <2>4
  <2>5. server[i] = 0 /\ Shown[i] = 0
    BY <1>2, <1>3, <2>2
  <2>6. Canonical(0) = 0
    BY CanonicalFacts
  <2>. QED  BY <1>3, <2>3, <2>5, <2>6
<1>. QED  BY <1>1, <1>5, <1>6, <1>7, <1>8 DEF AckInvariant

LEMMA SkipFits ==
  ASSUME AckInvariant, push # NoPush, push.call = NoCall, NEW id \in push.todo,
         Skip(id), UNCHANGED <<setup, client, pull>>
  PROVE  AckInvariant'
<1>1. BaselineInvariant /\ BaselineInvariant' /\ TypeInvariant /\ push \in Pushes
  BY SkipKeeps DEF AckInvariant, BaselineInvariant, TypeInvariant, RequestType
<1>2. Gone(id) /\ id \notin remoteIds /\ push' = [push EXCEPT !.todo = @ \ {id}]
      /\ UNCHANGED <<remote, budget>>
  BY DEF Skip
<1>3. /\ push'.call = NoCall /\ push'.todo = push.todo \ {id} /\ push'.at = push.at
      /\ push'.touched = push.touched /\ push'.mutations = push.mutations
      /\ push'.deleted = push.deleted /\ push'.records = push.records
  BY <1>1, <1>2 DEF Pushes
<1>4. UNCHANGED <<server, rev, outbox, told, raced, remoteIds>>
  BY <1>2 DEF remote, client
<1>5. PushFits'
  BY <1>2, <1>3, <1>4 DEF AckInvariant, PushFits, Sent
<1>6. CallFits'
  BY <1>3 DEF CallFits
<1>7. Settled'
  <2>1. ASSUME NEW i \in Ids \ raced, i \notin push.todo \ {id}, push.at[i] = rev[i],
               i \in push.touched \/ WholeSent
        PROVE  server[i] = Canonical(push.records[i])
    <3>1. CASE i # id
      BY <2>1, <3>1 DEF AckInvariant, Settled
    <3>2. CASE i = id
      <4>1. push.at[i] <= told[i] /\ told[i] <= rev[i]
        BY <1>1 DEF AckInvariant, PushFits, BaselineInvariant, RevisionsKnown
      <4>2. told[i] \in Nat /\ rev[i] \in Nat
        BY <1>1 DEF TypeInvariant, RemoteType, ClientType, Records
      <4>3. told[i] = rev[i]
        BY <2>1, <4>1, <4>2
      <4>4. server[i] = 0
        BY <1>1, <1>2, <3>2, <4>3, UnknownIsGone DEF BaselineInvariant
      <4>5. push.records[i] = 0
        BY <1>2, <3>2 DEF Gone, AckInvariant, PushFits
      <4>6. Canonical(0) = 0
        BY CanonicalFacts
      <4>. QED  BY <4>4, <4>5, <4>6
    <3>. QED  BY <3>1, <3>2
  <2>2. WholeSent' => WholeSent
    BY <1>3, <1>4 DEF WholeSent, Sent
  <2>. QED  BY <1>3, <1>4, <2>1, <2>2 DEF Settled, Canonical
<1>8. Fits(outbox, budget.local)'
  BY <1>2, <1>4 DEF AckInvariant
<1>. QED  BY <1>1, <1>5, <1>6, <1>7, <1>8 DEF AckInvariant

LEMMA CallFitsAfter ==
  ASSUME AckInvariant, push # NoPush, push.call = NoCall, NEW id \in push.todo,
         Call(id), UNCHANGED <<setup, client, pull>>
  PROVE  AckInvariant'
<1>1. BaselineInvariant /\ BaselineInvariant' /\ TypeInvariant /\ TypeInvariant' /\ push \in Pushes
  BY CallKeeps DEF AckInvariant, BaselineInvariant, TypeInvariant, RequestType
<1>2. PICK c \in Calls :
           /\ push' \in Pushes /\ push'.call = c /\ push'.todo = push.todo
           /\ push'.at = push.at /\ push'.records = push.records /\ push'.deleted = push.deleted
           /\ push'.touched = push.touched /\ push'.mutations = push.mutations
           /\ c.id = id
           /\ c.op = Operation(id)
           /\ c.value = IF c.op = "delete" THEN 0 ELSE Canonical(push.records[id])
           /\ UNCHANGED remote \/ RemoteWrote(id, c.value)
           /\ UNCHANGED budget
           /\ id \in Ids
  BY <1>1, CallEffect
<1>3. UNCHANGED <<outbox, told, raced, setup>>
  BY DEF client
<1>4. SamePush /\ NothingJoins /\ WritesAreNewer
  <2>1. c.value \in Nat
    BY DEF Calls
  <2>2. WritesAreNewer
    BY <1>2, <2>1, WroteIsNewer
  <2>. QED  BY <1>2, <1>3, <2>2 DEF SamePush, NothingJoins
<1>5. PushFits' /\ Settled'
  <2>1. budget'.local <= budget.local
    BY <1>1, <1>2 DEF TypeInvariant, Bounds
  <2>2. \A i \in Ids : told[i] <= told'[i]
    BY <1>1, <1>3, ToldStays
  <2>. QED  BY <1>1, <1>2, <1>3, <1>4, <2>1, <2>2, PushWaits DEF AckInvariant, BaselineInvariant
<1>6. c.value = Canonical(push.records[id])
  <2>1. CASE c.op # "delete"
    BY <1>2, <2>1
  <2>2. CASE c.op = "delete"
    <3>1. Gone(id)
      BY <1>2, <2>2 DEF Operation
    <3>2. push.records[id] = 0
      BY <3>1 DEF Gone, AckInvariant, PushFits
    <3>3. Canonical(0) = 0
      BY CanonicalFacts
    <3>. QED  BY <1>2, <2>2, <3>2, <3>3
  <2>. QED  BY <2>1, <2>2
<1>7. CallFits'
  BY <1>2, <1>3, <1>6 DEF CallFits, Canonical
<1>8. Fits(outbox, budget.local)'
  BY <1>2, <1>3 DEF AckInvariant
<1>. QED  BY <1>1, <1>5, <1>7, <1>8 DEF AckInvariant

LEMMA PushReturnsFits ==
  ASSUME AckInvariant, PushReturns
  PROVE  AckInvariant'
<1>1. BaselineInvariant /\ BaselineInvariant' /\ TypeInvariant
  BY PushReturnsKeeps DEF AckInvariant, BaselineInvariant
<1>2. PICK c \in Calls : Returned(c)
  BY <1>1, PushReturnsEffect
<1>3. /\ push # NoPush /\ push.call = c /\ c # NoCall /\ push \in Pushes
      /\ c.id \in Ids /\ c.rev \in Nat
      /\ c.rev = rev[c.id] => server[c.id] = c.value
      /\ raced' = raced \cup Late(c.id, c.rev) \cup (IF pull = NoPull THEN {} ELSE {c.id})
      /\ told' = [told EXCEPT ![c.id] = Higher(@, c.rev)]
      /\ push'.call = NoCall /\ push'.todo = push.todo \ {c.id}
      /\ push'.at = [push.at EXCEPT ![c.id] = c.rev]
      /\ push'.records = push.records /\ push'.deleted = push.deleted
      /\ push'.touched = push.touched /\ push'.mutations = push.mutations
      /\ UNCHANGED <<setup, remote, outbox, budget>>
  BY <1>2 DEF Returned
<1>4. UNCHANGED <<server, rev>> /\ raced \subseteq raced'
  BY <1>3 DEF remote
<1>5. told \in Records /\ push.at \in Records
  BY <1>1, <1>3 DEF TypeInvariant, ClientType, Pushes
<1>6. PICK id \in Ids, r \in Nat : id = c.id /\ r = c.rev
  BY <1>3
<1>7. /\ \A i \in Ids \ {id} : told'[i] = told[i] /\ push'.at[i] = push.at[i]
      /\ told'[id] = Higher(told[id], r) /\ push'.at[id] = r
      /\ \A i \in Ids : told[i] \in Nat
  BY <1>3, <1>5, <1>6 DEF Records
<1>8. r <= told'[id]
  BY <1>7, HigherFacts
<1>9. PushFits'
  <2>1. /\ \A n \in push.mutations : n > budget.local
        /\ \A k \in 1 .. Len(outbox) : Sent(k) /\ outbox[k].kind # "collection"
                                         => outbox[k].id \in push.touched
        /\ \A i \in push.deleted : push.records[i] = 0
        /\ \A i \in Ids : push.at[i] <= told[i]
    BY <1>3 DEF AckInvariant, PushFits
  <2>2. \A i \in Ids : push'.at[i] <= told'[i]
    <3>1. ASSUME NEW i \in Ids PROVE push'.at[i] <= told'[i]
      <4>1. CASE i = id
        BY <1>7, <1>8, <4>1
      <4>2. CASE i # id
        BY <1>7, <2>1, <4>2
      <4>. QED  BY <4>1, <4>2
    <3>. QED  BY <3>1
  <2>3. \A k : Sent(k)' <=> Sent(k)
    BY <1>3 DEF Sent
  <2>. QED  BY <1>3, <2>1, <2>2, <2>3 DEF PushFits
<1>10. CallFits'
  BY <1>3 DEF CallFits
<1>11. Settled'
  <2>1. ASSUME NEW i \in Ids \ raced', i \notin push.todo \ {id}, push'.at[i] = rev[i],
               i \in push.touched \/ WholeSent
        PROVE  server[i] = Canonical(push.records[i])
    <3>1. CASE i # id
      <4>1. push.at[i] = rev[i] /\ i \in Ids \ raced /\ i \notin push.todo
        BY <1>4, <1>7, <2>1, <3>1
      <4>. QED  BY <1>3, <2>1, <4>1 DEF AckInvariant, Settled
    <3>2. CASE i = id
      <4>1. server[id] = c.value
        BY <1>3, <1>6, <1>7, <2>1, <3>2
      <4>2. c.value = Canonical(push.records[id])
        BY <1>3, <1>6 DEF AckInvariant, CallFits
      <4>. QED  BY <3>2, <4>1, <4>2
    <3>. QED  BY <3>1, <3>2
  <2>2. WholeSent' => WholeSent
    BY <1>3 DEF WholeSent, Sent
  <2>. QED  BY <1>3, <1>4, <1>6, <2>1, <2>2 DEF Settled, Canonical
<1>12. Fits(outbox, budget.local)'
  BY <1>3 DEF AckInvariant
<1>. QED  BY <1>1, <1>9, <1>10, <1>11, <1>12 DEF AckInvariant

LEMMA AckInvariantInit == Init => AckInvariant
<1>. SUFFICES ASSUME Init PROVE AckInvariant
  OBVIOUS
<1>1. BaselineInvariant
  BY InvariantInit
<1>2. outbox = <<>> /\ push = NoPush
  BY DEF Init
<1>3. Fits(outbox, budget.local)
  BY <1>2 DEF Fits
<1>. QED  BY <1>1, <1>2, <1>3 DEF AckInvariant, PushFits, CallFits, Settled

LEMMA AckInvariantKept == AckInvariant /\ [Next]_vars => AckInvariant'
<1>. SUFFICES ASSUME AckInvariant, [Next]_vars PROVE AckInvariant'
  OBVIOUS
<1>1. CASE Others
  BY <1>1, OthersFits
<1>2. CASE Write
  BY <1>2, WriteFits
<1>3. CASE WriteAll
  BY <1>3, WriteAllFits
<1>4. CASE Restart
  BY <1>4, RestartFits
<1>5. CASE Event
  BY <1>5, EventFits
<1>6. CASE PullAsk \/ PullPage \/ PullFails
  BY <1>6, PullsFit
<1>7. CASE PullAnswer
  BY <1>7, PullAnswerFits
<1>8. CASE PushStart
  BY <1>8, PushStartFits
<1>9. CASE PushRecord
  <2>1. PICK id \in push.todo : /\ push # NoPush /\ push.call = NoCall
                                /\ Skip(id) \/ Call(id)
                                /\ UNCHANGED <<setup, client, pull>>
    BY <1>9 DEF PushRecord
  <2>. QED  BY <2>1, SkipFits, CallFitsAfter
<1>10. CASE PushReturns
  BY <1>10, PushReturnsFits
<1>11. CASE PushRefused \/ PushLost \/ PushDone
  BY <1>11, PushEndsFit
<1>12. CASE UNCHANGED vars
  <2>1. BaselineInvariant'
    BY <1>12, InvariantKept DEF AckInvariant
  <2>. QED  BY <1>12, <2>1 DEF vars, remote, client, AckInvariant, Fits, PushFits, CallFits,
            Settled, Sent, WholeSent, Canonical
<1>. QED  BY <1>1, <1>2, <1>3, <1>4, <1>5, <1>6, <1>7, <1>8, <1>9, <1>10, <1>11, <1>12 DEF Next

\* For every backend that SetupsAssumption admits, a record that an acknowledged mutation
\* changed is on the remote as the store had it when the push began, whatever was lost or
\* refused before (push of crud.ts).  Three kinds of record are excepted: those that
\* another client wrote since, those whose newest revision the client had not heard of
\* when the push began or hears of only in an event still to come, and those in raced,
\* whose answers came back out of order or crossed a pull, or were never confirmed.
THEOREM AcknowledgedIsOnRemote == Spec => AckedIsOnRemote
<1>1. AckInvariant /\ [Next]_vars => AckInvariant'
  BY AckInvariantKept
<1>2. AckInvariant /\ PushDone =>
        \A id \in Ids \ raced :
          Acknowledged(id) /\ Told(id) /\ push.at[id] = rev[id]
            => server[id] = Canonical(push.records[id])
  <2>. SUFFICES ASSUME AckInvariant, PushDone, NEW id \in Ids \ raced, Acknowledged(id),
                       push.at[id] = rev[id]
                PROVE  server[id] = Canonical(push.records[id])
    OBVIOUS
  <2>1. push # NoPush /\ push.todo = {}
    BY DEF PushDone
  <2>2. base \in Records /\ outbox \in Seq(Mutations)
    BY DEF AckInvariant, BaselineInvariant, TypeInvariant, ClientType
  <2>3. PICK sent : sent = Numbered(outbox, push.mutations)
    OBVIOUS
  <2>4. /\ sent \in Seq(Mutations)
        /\ \A k \in 1 .. Len(sent) : sent[k].n \in push.mutations
        /\ \A k \in 1 .. Len(sent) : \E j \in 1 .. Len(outbox) : sent[k] = outbox[j]
    BY <2>2, <2>3, NumberedFacts DEF Selected
  <2>5. PICK k \in 1 .. Len(sent) : ~Elsewhere(sent[k], id)
    <3>1. ApplyAll(base, sent)[id] # base[id]
      BY <2>3 DEF Acknowledged
    <3>. QED  BY <2>2, <2>4, <3>1, UnnamedStays
  <2>6. PICK j \in 1 .. Len(outbox) : Sent(j) /\ sent[k] = outbox[j]
    BY <2>4 DEF Sent
  <2>7. id \in push.touched \/ WholeSent
    BY <2>1, <2>5, <2>6 DEF Elsewhere, AckInvariant, PushFits, WholeSent
  <2>. QED  BY <2>1, <2>7 DEF AckInvariant, Settled
<1>3. Spec => []AckInvariant
  BY AckInvariantInit, <1>1, PTL DEF Spec
<1>. QED  BY <1>2, <1>3, PTL DEF Spec, AckedIsOnRemote

\* Every variable of the adapter and its remote keeps its type, for every backend: a
\* removal never names a record outside the collection, a request in flight is answered
\* with rows of its own, and no bound is overdrawn.
THEOREM TypeCorrect == Spec => []TypeInvariant
<1>1. BaselineInvariant => TypeInvariant
  BY DEF BaselineInvariant
<1>. QED  BY <1>1, Invariance, PTL
=============================================================================
