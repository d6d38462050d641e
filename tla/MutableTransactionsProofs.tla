--------------------- MODULE MutableTransactionsProofs ---------------------
(***************************************************************************)
(* Proofs about MutableTransactions for every set of actions, every number *)
(* of writes and every set of faults; where a theorem leaves out observers *)
(* that call actions, it says so.                                          *)
(***************************************************************************)
EXTENDS MutableTransactions, SequenceTheorems, FiniteSetTheorems,
        WellFoundedInduction, TLAPS

USE TransactionsAssumption

-----------------------------------------------------------------------------
(* Sequences.                                                              *)

Inj(s) == \A i, j \in DOMAIN s : s[i] = s[j] => i = j

LEMMA Pushed ==
  ASSUME NEW S, NEW x \in S, NEW s \in Seq(S)
  PROVE  /\ <<x>> \o s \in Seq(S)
         /\ <<x>> \o s # <<>>
         /\ Len(<<x>> \o s) = Len(s) + 1
         /\ (<<x>> \o s)[1] = x
         /\ \A i \in 1 .. Len(s) : (<<x>> \o s)[i + 1] = s[i]
         /\ DOMAIN (<<x>> \o s) = 1 .. Len(s) + 1
<1>. DEFINE t == <<x>> \o s
<1>1. <<x>> \in Seq(S) /\ Len(<<x>>) = 1 /\ <<x>>[1] = x
  OBVIOUS
<1>2. Len(s) \in Nat
  BY LenProperties
<1>3. /\ t \in Seq(S)
      /\ Len(t) = 1 + Len(s)
      /\ \A i \in 1 .. 1 + Len(s) : t[i] = IF i <= 1 THEN <<x>>[i] ELSE s[i - 1]
  BY <1>1, ConcatProperties, Zenon
<1>4. DOMAIN t = 1 .. Len(t)
  BY <1>3, LenProperties
<1>5. t[1] = x
  BY <1>1, <1>2, <1>3
<1>6. ASSUME NEW i \in 1 .. Len(s) PROVE t[i + 1] = s[i]
  <2>1. i + 1 \in 1 .. 1 + Len(s) /\ ~(i + 1 <= 1) /\ i + 1 - 1 = i
    BY <1>2
  <2>. QED  BY <1>3, <2>1
<1>7. t # <<>>
  BY <1>2, <1>3
<1>. HIDE DEF t
<1>8. Len(t) = Len(s) + 1 /\ DOMAIN t = 1 .. Len(s) + 1
  BY <1>2, <1>3, <1>4
<1>. QED  BY <1>3, <1>5, <1>6, <1>7, <1>8, Zenon DEF t

LEMMA Extended ==
  ASSUME NEW S, NEW s \in Seq(S), NEW x \in S
  PROVE  /\ Append(s, x) \in Seq(S)
         /\ Append(s, x) # <<>>
         /\ Len(Append(s, x)) = Len(s) + 1
         /\ Append(s, x)[Len(Append(s, x))] = x
         /\ Elements(Append(s, x)) = Elements(s) \cup {x}
         /\ Inj(s) /\ x \notin Elements(s) => Inj(Append(s, x))
<1>1. /\ Append(s, x) \in Seq(S)
      /\ Len(Append(s, x)) = Len(s) + 1
      /\ \A i \in 1 .. Len(s) : Append(s, x)[i] = s[i]
      /\ Append(s, x)[Len(s) + 1] = x
  BY AppendProperties
<1>2. PICK t : t = Append(s, x)
  OBVIOUS
<1>3. /\ DOMAIN s = 1 .. Len(s) /\ Len(s) \in Nat
      /\ DOMAIN t = 1 .. Len(s) + 1
  BY <1>1, <1>2, LenProperties
<1>4. t # <<>>
  BY <1>1, <1>2, <1>3
<1>5. Elements(t) = Elements(s) \cup {x}
  BY <1>1, <1>2, <1>3 DEF Elements
<1>6. ASSUME Inj(s), x \notin Elements(s) PROVE Inj(t)
  BY <1>1, <1>2, <1>3, <1>6 DEF Inj, Elements
<1>. QED  BY <1>1, <1>2, <1>4, <1>5, <1>6

LEMMA Joined ==
  ASSUME NEW S, NEW s \in Seq(S), NEW t \in Seq(S)
  PROVE  /\ s \o t \in Seq(S)
         /\ Elements(s \o t) = Elements(s) \cup Elements(t)
         /\ Inj(s) /\ Inj(t) /\ Elements(s) \cap Elements(t) = {} => Inj(s \o t)
<1>1. /\ s \o t \in Seq(S)
      /\ Len(s \o t) = Len(s) + Len(t)
      /\ \A i \in 1 .. Len(s) + Len(t) :
           (s \o t)[i] = IF i <= Len(s) THEN s[i] ELSE t[i - Len(s)]
  BY ConcatProperties
<1>2. PICK u : u = s \o t
  OBVIOUS
<1>3. /\ DOMAIN s = 1 .. Len(s) /\ Len(s) \in Nat
      /\ DOMAIN t = 1 .. Len(t) /\ Len(t) \in Nat
      /\ DOMAIN u = 1 .. Len(s) + Len(t)
  BY <1>1, <1>2, LenProperties
<1>4. ASSUME NEW i \in DOMAIN s PROVE i \in DOMAIN u /\ u[i] = s[i]
  BY <1>1, <1>2, <1>3
<1>5. ASSUME NEW i \in DOMAIN t PROVE i + Len(s) \in DOMAIN u /\ u[i + Len(s)] = t[i]
  BY <1>1, <1>2, <1>3
<1>6. ASSUME NEW i \in DOMAIN u
      PROVE  \/ i \in DOMAIN s /\ u[i] = s[i]
             \/ i - Len(s) \in DOMAIN t /\ u[i] = t[i - Len(s)] /\ i \in Int
  BY <1>1, <1>2, <1>3
<1>7. Elements(u) = Elements(s) \cup Elements(t)
  <2>1. Elements(s) \cup Elements(t) \subseteq Elements(u)
    BY <1>4, <1>5 DEF Elements
  <2>2. Elements(u) \subseteq Elements(s) \cup Elements(t)
    BY <1>6 DEF Elements
  <2>. QED  BY <2>1, <2>2
<1>8. ASSUME Inj(s), Inj(t), Elements(s) \cap Elements(t) = {},
             NEW i \in DOMAIN u, NEW j \in DOMAIN u, u[i] = u[j]
      PROVE  i = j
  <2>1. CASE i \in DOMAIN s /\ u[i] = s[i] /\ j \in DOMAIN s /\ u[j] = s[j]
    BY <1>8, <2>1 DEF Inj
  <2>2. CASE /\ i - Len(s) \in DOMAIN t /\ u[i] = t[i - Len(s)] /\ i \in Int
             /\ j - Len(s) \in DOMAIN t /\ u[j] = t[j - Len(s)] /\ j \in Int
    <3>1. i - Len(s) = j - Len(s)
      BY <1>8, <2>2 DEF Inj
    <3>. QED  BY <1>3, <2>2, <3>1
  <2>3. CASE i \in DOMAIN s /\ u[i] = s[i] /\ j - Len(s) \in DOMAIN t /\ u[j] = t[j - Len(s)]
    BY <1>8, <2>3 DEF Elements
  <2>4. CASE j \in DOMAIN s /\ u[j] = s[j] /\ i - Len(s) \in DOMAIN t /\ u[i] = t[i - Len(s)]
    BY <1>8, <2>4 DEF Elements
  <2>. QED  BY <1>6, <2>1, <2>2, <2>3, <2>4
<1>. QED  BY <1>1, <1>2, <1>7, <1>8 DEF Inj

\* The elements of a sequence that repeats none are as many as it is long.
LEMMA Counted ==
  ASSUME NEW S, NEW s \in Seq(S), Inj(s)
  PROVE  Cardinality(Elements(s)) = Len(s)
<1>1. Len(s) \in Nat /\ DOMAIN s = 1 .. Len(s)
  BY LenProperties
<1>2. s \in [1 .. Len(s) -> Elements(s)]
  BY <1>1, LenProperties DEF Elements
<1>3. s \in Bijection(1 .. Len(s), Elements(s))
  BY <1>1, <1>2 DEF Bijection, Injection, Surjection, IsInjective, Inj, Elements
<1>4. ExistsBijection(1 .. Len(s), Elements(s))
  BY <1>3 DEF ExistsBijection
<1>. QED  BY <1>1, <1>4, FS_CountingElements

-----------------------------------------------------------------------------
(* The call stack.                                                         *)

LEMMA StackFacts ==
  ASSUME TypeOK, stack # <<>>
  PROVE  Top \in Actions /\ Below \in Seq(Actions)
<1>1. stack \in Seq(Actions)
  BY DEF TypeOK
<1>2. Len(stack) \in Nat /\ Len(stack) # 0
  BY <1>1, EmptySeq
<1>3. Top \in Actions
  BY <1>1, <1>2, ElementOfSeq DEF Top
<1>. QED  BY <1>1, <1>2, <1>3, SubSeqProperties DEF Below

LEMMA Called ==
  ASSUME TypeOK, NEW a \in Actions, stack' = Append(stack, a)
  PROVE  stack' \in Seq(Actions) /\ stack' # <<>> /\ Top' = a
BY Extended DEF TypeOK, Top

-----------------------------------------------------------------------------
(* Who opens and closes.                                                   *)

NoObserver == "observer" \notin Faults

Moving(a) == phase[a] \in {"entering", "closing"}

\* Nobody opens or closes a transaction.
Quiet == \A a \in Actions : ~Moving(a)

\* One action at a time opens or closes, and it is the innermost.
OneMoves == \A a \in Actions : Moving(a) => stack # <<>> /\ Top = a

\* The action has called handleDraft and has not gone on.
Shut(a) == phase[a] = "entering" \/ (phase[a] = "closing" /\ closed[a] # "none")

\* There is one draft at most, it can be finalized, and it is gone while an
\* action has it closed.
OneDraft ==
  /\ Len(drafts) <= 1
  /\ finalizer = (drafts # <<>>)
  /\ (\E a \in Actions : Shut(a)) => drafts = <<>>

TypeInvariant ==
  /\ TypeOK
  /\ finalizer => drafts # <<>>
  /\ NoObserver => OneMoves /\ OneDraft

LEMMA UserCodeIsQuiet ==
  ASSUME OneMoves, UserCode
  PROVE  Quiet
BY DEF OneMoves, UserCode, Quiet, Moving, Body

LEMMA OnTopIsUserCode ==
  ASSUME NEW a \in Actions, OnTop(a, Body)
  PROVE  UserCode /\ stack # <<>> /\ Top = a /\ phase[a] \in Body
BY DEF OnTop, UserCode

LEMMA MovesAlone ==
  ASSUME OneMoves, NEW a \in Actions, stack # <<>>, Top = a
  PROVE  \A b \in Actions : b # a => ~Moving(b)
BY DEF OneMoves

LEMMA Moves ==
  ASSUME TypeInvariant, NoObserver, [Next]_vars
  PROVE  OneMoves'
<1>. USE DEF Moving
<1>1. OneMoves /\ TypeOK /\ phase \in [Actions -> Phases]
  BY DEF TypeInvariant, TypeOK
<1>2. ASSUME NEW a \in Actions, Enter(a) PROVE OneMoves'
  <2>1. UserCode /\ stack' = Append(stack, a) /\ phase' = [phase EXCEPT ![a] = "entering"]
    BY <1>2 DEF Enter, NoObserver
  <2>2. Quiet
    BY <1>1, <2>1, UserCodeIsQuiet
  <2>3. stack' # <<>> /\ Top' = a
    BY <1>1, <2>1, Called
  <2>. QED  BY <1>1, <2>1, <2>2, <2>3 DEF Quiet, OneMoves
<1>3. ASSUME NEW a \in Actions, Begin(a) PROVE OneMoves'
  <2>1. /\ stack # <<>> /\ Top = a
        /\ \/ phase' = [phase EXCEPT ![a] = "failed"]
           \/ phase' = [phase EXCEPT ![a] = "running"]
    BY <1>3 DEF Begin, OnTop
  <2>. QED  BY <1>1, <2>1, MovesAlone DEF OneMoves
<1>4. ASSUME NEW a \in Actions, Write(a) PROVE OneMoves'
  BY <1>1, <1>4 DEF Write, calls, OneMoves, Top
<1>5. ASSUME NEW a \in Actions, Suspend(a) PROVE OneMoves'
  <2>1. UserCode /\ phase' = [phase EXCEPT ![a] = "suspended"]
    BY <1>5, OnTopIsUserCode DEF Suspend
  <2>. QED  BY <1>1, <2>1, UserCodeIsQuiet DEF Quiet, OneMoves
<1>6. ASSUME NEW a \in Actions, Resume(a) PROVE OneMoves'
  <2>1. UserCode /\ phase' = [phase EXCEPT ![a] = "resumed"]
    BY <1>6 DEF Resume, UserCode
  <2>. QED  BY <1>1, <2>1, UserCodeIsQuiet DEF Quiet, OneMoves
<1>7. ASSUME NEW a \in Actions, Return(a) PROVE OneMoves'
  <2>1. UserCode /\ phase' = [phase EXCEPT ![a] = "returned"]
    BY <1>7, OnTopIsUserCode DEF Return
  <2>. QED  BY <1>1, <2>1, UserCodeIsQuiet DEF Quiet, OneMoves
<1>8. ASSUME NEW a \in Actions, Finish(a) PROVE OneMoves'
  <2>1. /\ phase' = [phase EXCEPT ![a] = "closing"]
        /\ stack' = IF stack = <<>> THEN <<a>> ELSE stack
        /\ OnTop(a, {"running"}) \/ stack = <<>>
    BY <1>8 DEF Finish
  <2>2. UserCode /\ (stack # <<>> => Top = a)
    BY <2>1 DEF UserCode, OnTop, Body
  <2>3. Quiet
    BY <1>1, <2>2, UserCodeIsQuiet
  <2>4. stack' # <<>> /\ Top' = a
    BY <2>1, <2>2 DEF Top
  <2>. QED  BY <1>1, <2>1, <2>3, <2>4 DEF Quiet, OneMoves
<1>9. ASSUME NEW a \in Actions, End(a) PROVE OneMoves'
  <2>1. /\ stack # <<>> /\ Top = a
        /\ \/ phase' = [phase EXCEPT ![a] = "done"]
           \/ phase' = [phase EXCEPT ![a] = "failed"]
    BY <1>9 DEF End, OnTop, Outcome
  <2>. QED  BY <1>1, <2>1, MovesAlone DEF OneMoves
<1>10. CASE SetState
  BY <1>1, <1>10 DEF SetState, calls, OneMoves, Top
<1>11. CASE UNCHANGED vars
  BY <1>1, <1>11 DEF vars, calls, OneMoves, Top
<1>. QED  BY <1>2, <1>3, <1>4, <1>5, <1>6, <1>7, <1>8, <1>9, <1>10, <1>11 DEF Next

-----------------------------------------------------------------------------
(* The open draft.                                                         *)

LEMMA DraftFacts ==
  ASSUME NEW S, NEW ds \in Seq(S), ds # <<>>
  PROVE  /\ Head(ds) \in S
         /\ Tail(ds) \in Seq(S)
         /\ Head(ds) = ds[1]
         /\ \A i \in 1 .. Len(Tail(ds)) : Tail(ds)[i] = ds[i + 1]
         /\ DOMAIN ds = 1 .. Len(Tail(ds)) + 1
         /\ Len(ds) = Len(Tail(ds)) + 1
         /\ Len(ds) <= 1 => Tail(ds) = <<>>
<1>1. Len(ds) \in Nat /\ Len(ds) >= 1
  BY LenProperties, EmptySeq
<1>2. /\ Head(ds) \in S /\ Tail(ds) \in Seq(S) /\ Len(Tail(ds)) = Len(ds) - 1
      /\ Head(ds) = ds[1]
      /\ \A i \in 1 .. Len(Tail(ds)) : Tail(ds)[i] = ds[i + 1]
      /\ DOMAIN ds = 1 .. Len(ds)
  BY <1>1, HeadTailProperties, ElementOfSeq, LenProperties
<1>3. Len(ds) <= 1 => Tail(ds) = <<>>
  BY <1>1, <1>2, EmptySeq
<1>. QED  BY <1>1, <1>2, <1>3

LEMMA OpenFacts ==
  ASSUME TypeOK, Open
  PROVE  /\ drafts' \in Seq(Seq(Writes))
         /\ drafts' # <<>>
         /\ Len(drafts') = Len(drafts) + 1
         /\ finalizer' = TRUE
         /\ UNCHANGED <<state, published, refused>>
<1>1. drafts \in Seq(Seq(Writes)) /\ <<>> \in Seq(Writes)
  BY DEF TypeOK
<1>. QED  BY <1>1, Pushed DEF Open

LEMMA HandleDraftFacts ==
  ASSUME TypeOK, finalizer => drafts # <<>>, NEW ending, HandleDraft(ending)
  PROVE  /\ ending # "none"
         /\ drafts' \in Seq(Seq(Writes))
         /\ finalizer' = FALSE
         /\ state' \in Seq(Writes)
         /\ published' \in Seq(Writes)
         /\ refused' \subseteq Writes
         /\ OneDraft => drafts' = <<>>
<1>1. /\ drafts \in Seq(Seq(Writes)) /\ state \in Seq(Writes) /\ published \in Seq(Writes)
      /\ refused \subseteq Writes /\ finalizer \in BOOLEAN
  BY DEF TypeOK
<1>2. PICK written : written = IF finalizer THEN Head(drafts) ELSE <<>>
  OBVIOUS
<1>3. written \in Seq(Writes)
  BY <1>1, <1>2, DraftFacts
<1>4. /\ ending # "none"
      /\ drafts' = IF finalizer THEN Tail(drafts) ELSE drafts
      /\ finalizer' = FALSE
  BY DEF HandleDraft
<1>5. \/ UNCHANGED <<state, published, refused>>
      \/ Committed(written)
      \/ Refused(written)
  BY <1>2, Zenon DEF HandleDraft
<1>6. Elements(written) \subseteq Writes
  BY <1>3, ElementOfSeq, LenProperties DEF Elements
<1>7. /\ state \o written \in Seq(Writes)
      /\ published \o written \in Seq(Writes)
  BY <1>1, <1>3, ConcatProperties
<1>8. state' \in Seq(Writes) /\ published' \in Seq(Writes) /\ refused' \subseteq Writes
  BY <1>1, <1>5, <1>6, <1>7 DEF Committed, Refused
<1>9. drafts' \in Seq(Seq(Writes))
  BY <1>1, <1>4, DraftFacts
<1>10. ASSUME OneDraft PROVE drafts' = <<>>
  BY <1>1, <1>4, <1>10, DraftFacts DEF OneDraft
<1>. QED  BY <1>4, <1>8, <1>9, <1>10

LEMMA UpdatedFacts ==
  ASSUME TypeOK, Updated
  PROVE  /\ drafts' = IF IsDraft THEN <<<<>>>> ELSE <<>>
         /\ drafts' \in Seq(Seq(Writes))
         /\ Len(drafts') <= 1
         /\ finalizer' = (drafts' # <<>>)
         /\ state' \in Seq(Writes)
         /\ published' \in Seq(Writes)
         /\ made' \in 0 .. MaxWrites
<1>1. /\ drafts \in Seq(Seq(Writes)) /\ state \in Seq(Writes) /\ published \in Seq(Writes)
      /\ made \in 0 .. MaxWrites
  BY DEF TypeOK
<1>2. /\ drafts' = Reopened
      /\ finalizer' = (Reopened # <<>>)
      /\ Reopened = IF IsDraft THEN <<<<>>>> ELSE <<>>
      /\ made < MaxWrites /\ made' = made + 1
  BY DEF Updated, Reopened, Made
<1>3. made' \in Writes /\ made' \in 0 .. MaxWrites
  BY <1>1, <1>2 DEF Writes
<1>4. PICK open : open = IF IsDraft THEN Head(drafts) ELSE <<>>
  OBVIOUS
<1>5. open \in Seq(Writes)
  BY <1>1, <1>4, DraftFacts DEF IsDraft
<1>6. Append(open, made') \in Seq(Writes)
  BY <1>3, <1>5, AppendProperties
<1>7. /\ state' = state \o Append(open, made')
      /\ published' = published \o Append(open, made')
  BY <1>4 DEF Updated
<1>8. state' \in Seq(Writes) /\ published' \in Seq(Writes)
  BY <1>1, <1>6, <1>7, ConcatProperties
<1>9. <<<<>>>> \in Seq(Seq(Writes)) /\ <<>> \in Seq(Seq(Writes)) /\ Len(<<<<>>>>) = 1
  OBVIOUS
<1>10. drafts' = <<<<>>>> \/ drafts' = <<>>
  BY <1>2
<1>11. finalizer' = (drafts' # <<>>)
  BY <1>2, Zenon
<1>12. Len(drafts') <= 1
  <2>1. CASE drafts' = <<<<>>>>
    BY <1>9, <2>1
  <2>2. CASE drafts' = <<>>
    BY <2>2
  <2>. QED  BY <1>10, <2>1, <2>2
<1>. QED  BY <1>2, <1>3, <1>8, <1>9, <1>10, <1>11, <1>12, Zenon

\* What a write leaves open.
LEMMA WrittenFacts ==
  ASSUME TypeOK, NEW a \in Actions, Write(a)
  PROVE  /\ made' \in Writes /\ made' \in 0 .. MaxWrites
         /\ drafts' \in Seq(Seq(Writes))
         /\ state' \in Seq(Writes)
         /\ Len(drafts') = Len(drafts)
         /\ (drafts' = <<>>) = (drafts = <<>>)
<1>1. /\ drafts \in Seq(Seq(Writes)) /\ state \in Seq(Writes) /\ made \in 0 .. MaxWrites
  BY DEF TypeOK
<1>2. made' \in Writes /\ made' \in 0 .. MaxWrites
  BY <1>1 DEF Write, Made, Writes
<1>3. CASE IsDraft
  <2>1. drafts' = <<Append(Head(drafts), made')>> \o Tail(drafts) /\ state' = state
    BY <1>3 DEF Write
  <2>2. /\ Head(drafts) \in Seq(Writes)
        /\ Tail(drafts) \in Seq(Seq(Writes))
        /\ Len(drafts) = Len(Tail(drafts)) + 1
    BY <1>1, <1>3, DraftFacts DEF IsDraft
  <2>3. Append(Head(drafts), made') \in Seq(Writes)
    BY <1>2, <2>2, AppendProperties
  <2>4. /\ drafts' \in Seq(Seq(Writes)) /\ drafts' # <<>>
        /\ Len(drafts') = Len(Tail(drafts)) + 1
    BY <2>1, <2>2, <2>3, Pushed
  <2>. QED  BY <1>1, <1>2, <1>3, <2>1, <2>2, <2>4 DEF IsDraft
<1>4. CASE ~IsDraft
  <2>1. drafts' = drafts /\ state' = Append(state, made')
    BY <1>4 DEF Write
  <2>. QED  BY <1>1, <1>2, <2>1, AppendProperties
<1>. QED  BY <1>3, <1>4

-----------------------------------------------------------------------------
(* One draft.                                                              *)

LEMMA NobodyShuts ==
  ASSUME Quiet
  PROVE  \A a \in Actions : ~Shut(a)
BY DEF Quiet, Moving, Shut

LEMMA DraftsKept ==
  ASSUME TypeInvariant, NoObserver, [Next]_vars
  PROVE  OneDraft'
<1>1. /\ TypeOK /\ OneMoves /\ OneDraft
      /\ phase \in [Actions -> Phases] /\ closed \in [Actions -> Endings]
      /\ drafts \in Seq(Seq(Writes))
  BY DEF TypeInvariant, TypeOK
<1>2. finalizer => drafts # <<>>
  BY DEF TypeInvariant
<1>3. OneMoves'
  BY Moves
<1>4. ASSUME drafts' = <<>>, finalizer' = FALSE PROVE OneDraft'
  <2>1. Len(drafts') <= 1
    BY <1>4
  <2>2. finalizer' = (drafts' # <<>>)
    BY <1>4, Zenon
  <2>. QED  BY <1>4, <2>1, <2>2, Zenon DEF OneDraft
<1>5. ASSUME UNCHANGED <<drafts, finalizer>>, \A b \in Actions : Shut(b)' => \E c \in Actions : Shut(c)
      PROVE  OneDraft'
  BY <1>1, <1>5 DEF OneDraft
<1>6. ASSUME Open, drafts = <<>>, \A b \in Actions : ~Shut(b)'
      PROVE  OneDraft'
  <2>1. drafts' # <<>> /\ Len(drafts') = Len(drafts) + 1 /\ finalizer' = TRUE
    BY <1>1, <1>6, OpenFacts
  <2>2. Len(drafts') <= 1
    BY <1>6, <2>1
  <2>3. finalizer' = (drafts' # <<>>)
    BY <2>1, Zenon
  <2>. QED  BY <1>6, <2>2, <2>3, Zenon DEF OneDraft
<1>7. ASSUME NEW a \in Actions, Enter(a) PROVE OneDraft'
  <2>1. \/ ~IsDraft /\ UNCHANGED transaction
        \/ \E ending \in Endings : HandleDraft(ending)
    BY <1>7 DEF Enter
  <2>2. CASE ~IsDraft /\ UNCHANGED transaction
    <3>1. drafts' = <<>> /\ finalizer' = FALSE
      BY <1>1, <2>2 DEF IsDraft, transaction, TypeOK, OneDraft
    <3>. QED  BY <1>4, <3>1
  <2>3. CASE \E ending \in Endings : HandleDraft(ending)
    BY <1>1, <1>2, <1>4, <2>3, HandleDraftFacts
  <2>. QED  BY <2>1, <2>2, <2>3
<1>8. ASSUME NEW a \in Actions, Begin(a) PROVE OneDraft'
  <2>1. /\ stack # <<>> /\ Top = a /\ phase[a] = "entering"
        /\ UNCHANGED closed
        /\ \/ phase' = [phase EXCEPT ![a] = "failed"] /\ UNCHANGED transaction
           \/ phase' = [phase EXCEPT ![a] = "running"] /\ Open
    BY <1>8 DEF Begin, OnTop
  <2>2. drafts = <<>>
    BY <1>1, <2>1 DEF OneDraft, Shut
  <2>3. \A b \in Actions : ~Shut(b)'
    BY <1>1, <2>1, MovesAlone DEF Shut, Moving
  <2>4. CASE UNCHANGED transaction
    BY <1>5, <2>3, <2>4 DEF transaction
  <2>5. CASE Open
    BY <1>6, <2>2, <2>3, <2>5
  <2>. QED  BY <2>1, <2>4, <2>5
<1>9. ASSUME NEW a \in Actions, Write(a) PROVE OneDraft'
  <2>1. Len(drafts') = Len(drafts) /\ (drafts' = <<>>) = (drafts = <<>>)
    BY <1>1, <1>9, WrittenFacts
  <2>2. finalizer' = finalizer /\ UNCHANGED <<phase, closed>>
    BY <1>9 DEF Write, calls
  <2>. QED  BY <1>1, <2>1, <2>2 DEF OneDraft, Shut
<1>10. ASSUME NEW a \in Actions, Suspend(a) PROVE OneDraft'
  <2>1. phase' = [phase EXCEPT ![a] = "suspended"] /\ UNCHANGED <<closed, drafts, finalizer>>
    BY <1>10 DEF Suspend, transaction
  <2>. QED  BY <1>1, <1>5, <2>1 DEF Shut
<1>11. ASSUME NEW a \in Actions, Resume(a) PROVE OneDraft'
  <2>1. phase' = [phase EXCEPT ![a] = "resumed"] /\ UNCHANGED <<closed, drafts, finalizer>>
    BY <1>11 DEF Resume, transaction
  <2>. QED  BY <1>1, <1>5, <2>1 DEF Shut
<1>12. ASSUME NEW a \in Actions, Return(a) PROVE OneDraft'
  <2>1. phase' = [phase EXCEPT ![a] = "returned"] /\ UNCHANGED <<closed, drafts, finalizer>>
    BY <1>12 DEF Return, transaction
  <2>. QED  BY <1>1, <1>5, <2>1 DEF Shut
<1>13. ASSUME NEW a \in Actions, Finish(a) PROVE OneDraft'
  <2>1. /\ phase' = [phase EXCEPT ![a] = "closing"]
        /\ \/ closed' = [closed EXCEPT ![a] = "none"] /\ UNCHANGED transaction
           \/ \E ending \in Endings : HandleDraft(ending)
    BY <1>13 DEF Finish
  <2>2. CASE closed' = [closed EXCEPT ![a] = "none"] /\ UNCHANGED transaction
    BY <1>1, <1>5, <2>1, <2>2 DEF Shut, transaction
  <2>3. CASE \E ending \in Endings : HandleDraft(ending)
    BY <1>1, <1>2, <1>4, <2>3, HandleDraftFacts
  <2>. QED  BY <2>1, <2>2, <2>3
<1>14. ASSUME NEW a \in Actions, End(a) PROVE OneDraft'
  <2>1. /\ stack # <<>> /\ Top = a /\ phase[a] = "closing"
        /\ UNCHANGED closed
        /\ \/ phase' = [phase EXCEPT ![a] = "done"]
           \/ phase' = [phase EXCEPT ![a] = "failed"]
        /\ \/ UNCHANGED transaction
           \/ closed[a] # "none" /\ Open
    BY <1>14 DEF End, OnTop, Outcome, HandBack
  <2>2. \A b \in Actions : ~Shut(b)'
    BY <1>1, <2>1, MovesAlone DEF Shut, Moving
  <2>3. CASE UNCHANGED transaction
    BY <1>5, <2>2, <2>3 DEF transaction
  <2>4. CASE closed[a] # "none" /\ Open
    <3>1. drafts = <<>>
      BY <1>1, <2>1, <2>4 DEF OneDraft, Shut
    <3>. QED  BY <1>6, <2>2, <2>4, <3>1
  <2>. QED  BY <2>1, <2>3, <2>4
<1>15. CASE SetState
  <2>1. Updated \/ \E ending \in Endings : HandleDraft(ending)
    BY <1>15 DEF SetState, NotUpdated
  <2>2. UNCHANGED <<phase, closed>>
    BY <1>15 DEF SetState, calls
  <2>3. CASE Updated
    <3>1. /\ drafts' = IF IsDraft THEN <<<<>>>> ELSE <<>>
          /\ Len(drafts') <= 1
          /\ finalizer' = (drafts' # <<>>)
      BY <1>1, <2>3, UpdatedFacts
    <3>2. (\E b \in Actions : Shut(b)') => drafts' = <<>>
      BY <1>1, <2>2, <3>1 DEF OneDraft, Shut, IsDraft
    <3>. QED  BY <3>1, <3>2, Zenon DEF OneDraft
  <2>4. CASE \E ending \in Endings : HandleDraft(ending)
    BY <1>1, <1>2, <1>4, <2>4, HandleDraftFacts
  <2>. QED  BY <2>1, <2>3, <2>4
<1>16. CASE UNCHANGED vars
  BY <1>5, <1>16 DEF vars, calls, transaction, Shut
<1>. QED
  BY <1>7, <1>8, <1>9, <1>10, <1>11, <1>12, <1>13, <1>14, <1>15, <1>16 DEF Next

-----------------------------------------------------------------------------
(* Types.                                                                  *)

LEMMA HeirFacts ==
  ASSUME TypeOK, NEW a \in Actions
  PROVE  /\ Heir(a) \in Actions \cup {None}
         /\ Heir(a) # None =>
              \E i \in DOMAIN chain[a] :
                /\ Heir(a) = chain[a][i]
                /\ Active(chain[a][i])
                /\ \A j \in 1 .. i - 1 : ~Active(chain[a][j])
         /\ (\E i \in DOMAIN chain[a] : Active(chain[a][i])) => Heir(a) # None
<1>. DEFINE Nearest(i) == /\ Active(chain[a][i])
                          /\ \A j \in 1 .. i - 1 : ~Active(chain[a][j])
            Less == {p \in Nat \X Nat : p[1] < p[2]}
            Lives == {i \in DOMAIN chain[a] : Active(chain[a][i])}
<1>1. chain[a] \in Seq(Actions)
  BY DEF TypeOK
<1>2. DOMAIN chain[a] = 1 .. Len(chain[a]) /\ Len(chain[a]) \in Nat
  BY <1>1, LenProperties
<1>3. CASE Lives = {}
  <2>1. ~(\E i \in DOMAIN chain[a] : Active(chain[a][i]))
    BY <1>3
  <2>2. Heir(a) = None
    BY <2>1, Zenon DEF Heir
  <2>. QED  BY <2>1, <2>2
<1>4. CASE Lives # {}
  <2>1. IsWellFoundedOn(Less, Nat)
    <3>1. Less = OpToRel(<, Nat)
      BY Zenon DEF OpToRel
    <3>. QED  BY <3>1, NatLessThanWellFounded, Zenon
  <2>2. Lives \subseteq Nat
    BY <1>2
  <2>3. PICK i \in Lives : \A j \in Lives : ~(<<j, i>> \in Less)
    BY <1>4, <2>1, <2>2, WFMin
  <2>4. \A j \in 1 .. i - 1 : ~Active(chain[a][j])
    <3>1. ASSUME NEW j \in 1 .. i - 1, Active(chain[a][j]) PROVE FALSE
      <4>1. i \in 1 .. Len(chain[a])
        BY <1>2, <2>3
      <4>2. j \in Lives /\ <<j, i>> \in Less
        BY <1>2, <3>1, <4>1
      <4>. QED  BY <2>3, <4>2
    <3>. QED  BY <3>1
  <2>5. i \in DOMAIN chain[a] /\ Nearest(i)
    BY <2>3, <2>4
  <2>6. PICK k : k = CHOOSE n \in DOMAIN chain[a] : Nearest(n)
    OBVIOUS
  <2>7. k \in DOMAIN chain[a] /\ Nearest(k)
    BY <2>5, <2>6, Zenon
  <2>8. \E n \in DOMAIN chain[a] : Active(chain[a][n])
    BY <2>5
  <2>9. Heir(a) = chain[a][k]
    BY <2>6, <2>8, Zenon DEF Heir
  <2>10. chain[a][k] \in Actions
    BY <1>1, <1>2, <2>7, ElementOfSeq
  <2>11. Heir(a) # None
    BY <2>9, <2>10
  <2>. QED  BY <2>7, <2>9, <2>10, <2>11
<1>. QED  BY <1>3, <1>4

LEMMA ChainPushed ==
  ASSUME TypeOK, owner # None
  PROVE  <<owner>> \o chain[owner] \in Seq(Actions)
BY Pushed DEF TypeOK

LEMMA TypesKept ==
  ASSUME TypeInvariant, [Next]_vars
  PROVE  TypeOK' /\ (finalizer => drafts # <<>>)'
<1>1. /\ TypeOK /\ (finalizer => drafts # <<>>)
      /\ phase \in [Actions -> Phases]
      /\ chain \in [Actions -> Seq(Actions)]
      /\ closed \in [Actions -> Endings]
      /\ failure \in [Actions -> BOOLEAN]
      /\ stack \in Seq(Actions)
      /\ owner \in Actions \cup {None}
      /\ drafts \in Seq(Seq(Writes))
      /\ finalizer \in BOOLEAN
      /\ state \in Seq(Writes) /\ published \in Seq(Writes)
      /\ made \in 0 .. MaxWrites
      /\ refused \subseteq Writes
      /\ torn \in BOOLEAN
  BY DEF TypeInvariant, TypeOK
<1>2. NoObserver => Len(drafts') <= 1
  BY DraftsKept DEF OneDraft
<1>. DEFINE Callers == /\ phase' \in [Actions -> Phases]
                       /\ chain' \in [Actions -> Seq(Actions)]
                       /\ closed' \in [Actions -> Endings]
                       /\ failure' \in [Actions -> BOOLEAN]
                       /\ stack' \in Seq(Actions)
                       /\ owner' \in Actions \cup {None}
            Held == /\ drafts' \in Seq(Seq(Writes))
                    /\ finalizer' \in BOOLEAN
                    /\ state' \in Seq(Writes)
                    /\ published' \in Seq(Writes)
                    /\ refused' \subseteq Writes
                    /\ finalizer' => drafts' # <<>>
            Rest == made' \in 0 .. MaxWrites /\ torn' \in BOOLEAN
<1>3. SUFFICES Callers /\ Held /\ Rest
  BY <1>2, Zenon DEF TypeOK, NoObserver
<1>4. ASSUME UNCHANGED transaction PROVE Held
  BY <1>1, <1>4, Zenon DEF transaction
<1>5. ASSUME Open PROVE Held
  <2>1. finalizer' \in BOOLEAN
    BY <1>1, <1>5, OpenFacts
  <2>. QED  BY <1>1, <1>5, <2>1, OpenFacts, Zenon
<1>6. ASSUME NEW ending, HandleDraft(ending) PROVE Held
  <2>1. finalizer' \in BOOLEAN
    BY <1>1, <1>6, HandleDraftFacts
  <2>. QED  BY <1>1, <1>6, <2>1, HandleDraftFacts, Zenon
<1>7. ASSUME UNCHANGED <<made, torn>> PROVE Rest
  BY <1>1, <1>7
<1>8. ASSUME NEW a \in Actions, Enter(a) PROVE Callers /\ Held /\ Rest
  <2>1. /\ phase' = [phase EXCEPT ![a] = "entering"]
        /\ stack' = Append(stack, a)
        /\ chain' = [chain EXCEPT ![a] = IF owner = None THEN <<>> ELSE <<owner>> \o chain[owner]]
        /\ \/ UNCHANGED <<closed, transaction>>
           \/ \E ending \in Endings : HandleDraft(ending) /\ closed' = [closed EXCEPT ![a] = ending]
        /\ UNCHANGED <<failure, owner, made, torn>>
    BY <1>8 DEF Enter
  <2>2. stack' \in Seq(Actions)
    BY <1>1, <2>1, AppendProperties
  <2>3. chain' \in [Actions -> Seq(Actions)]
    BY <1>1, <2>1, ChainPushed
  <2>4. phase' \in [Actions -> Phases]
    BY <1>1, <2>1 DEF Phases
  <2>5. closed' \in [Actions -> Endings]
    BY <1>1, <2>1
  <2>6. Held
    BY <1>4, <1>6, <2>1, Zenon
  <2>. HIDE DEF Held, Rest
  <2>. QED  BY <1>1, <1>7, <2>1, <2>2, <2>3, <2>4, <2>5, <2>6
<1>9. ASSUME NEW a \in Actions, Begin(a) PROVE Callers /\ Held /\ Rest
  <2>1. /\ stack # <<>>
        /\ phase' = [phase EXCEPT ![a] = "failed"] \/ phase' = [phase EXCEPT ![a] = "running"]
        /\ stack' = Below \/ UNCHANGED stack
        /\ owner' = None \/ owner' = a
        /\ UNCHANGED failure \/ (chain[a] # <<>> /\ failure' = [failure EXCEPT ![Head(chain[a])] = TRUE])
        /\ UNCHANGED transaction \/ Open
        /\ UNCHANGED <<chain, closed, made, torn>>
    BY <1>9 DEF Begin, OnTop
  <2>2. phase' \in [Actions -> Phases]
    BY <1>1, <2>1 DEF Phases
  <2>3. stack' \in Seq(Actions)
    BY <1>1, <2>1, StackFacts
  <2>4. failure' \in [Actions -> BOOLEAN]
    BY <1>1, <2>1
  <2>5. Held
    BY <1>4, <1>5, <2>1, Zenon
  <2>. HIDE DEF Held, Rest
  <2>. QED  BY <1>1, <1>7, <2>1, <2>2, <2>3, <2>4, <2>5
<1>10. ASSUME NEW a \in Actions, Write(a) PROVE Callers /\ Held /\ Rest
  <2>1. UNCHANGED <<calls, owner, finalizer, published, refused, torn>>
    BY <1>10 DEF Write
  <2>2. /\ made' \in 0 .. MaxWrites
        /\ drafts' \in Seq(Seq(Writes))
        /\ state' \in Seq(Writes)
        /\ (drafts' = <<>>) = (drafts = <<>>)
    BY <1>1, <1>10, WrittenFacts
  <2>. QED  BY <1>1, <2>1, <2>2 DEF calls
<1>11. ASSUME NEW a \in Actions, Suspend(a) PROVE Callers /\ Held /\ Rest
  <2>1. /\ stack # <<>>
        /\ phase' = [phase EXCEPT ![a] = "suspended"]
        /\ stack' = Below
        /\ UNCHANGED <<chain, closed, failure, owner, transaction, made, torn>>
    BY <1>11 DEF Suspend, OnTop
  <2>2. stack' \in Seq(Actions) /\ phase' \in [Actions -> Phases]
    BY <1>1, <2>1, StackFacts DEF Phases
  <2>3. Held
    BY <1>4, <2>1
  <2>. HIDE DEF Held, Rest
  <2>. QED  BY <1>1, <1>7, <2>1, <2>2, <2>3
<1>12. ASSUME NEW a \in Actions, Resume(a) PROVE Callers /\ Held /\ Rest
  <2>1. /\ phase' = [phase EXCEPT ![a] = "resumed"]
        /\ stack' = <<a>>
        /\ UNCHANGED <<chain, closed, failure, owner, transaction, made, torn>>
    BY <1>12 DEF Resume
  <2>2. stack' \in Seq(Actions) /\ phase' \in [Actions -> Phases]
    BY <1>1, <2>1 DEF Phases
  <2>3. Held
    BY <1>4, <2>1
  <2>. HIDE DEF Held, Rest
  <2>. QED  BY <1>1, <1>7, <2>1, <2>2, <2>3
<1>13. ASSUME NEW a \in Actions, Return(a) PROVE Callers /\ Held /\ Rest
  <2>1. /\ stack # <<>>
        /\ phase' = [phase EXCEPT ![a] = "returned"]
        /\ stack' = Below
        /\ UNCHANGED <<chain, closed, failure, owner, transaction, made, torn>>
    BY <1>13 DEF Return, OnTop
  <2>2. stack' \in Seq(Actions) /\ phase' \in [Actions -> Phases]
    BY <1>1, <2>1, StackFacts DEF Phases
  <2>3. Held
    BY <1>4, <2>1
  <2>. HIDE DEF Held, Rest
  <2>. QED  BY <1>1, <1>7, <2>1, <2>2, <2>3
<1>14. ASSUME NEW a \in Actions, Finish(a) PROVE Callers /\ Held /\ Rest
  <2>1. /\ phase' = [phase EXCEPT ![a] = "closing"]
        /\ stack' = <<a>> \/ UNCHANGED stack
        /\ \/ UNCHANGED transaction /\ closed' = [closed EXCEPT ![a] = "none"]
           \/ \E ending \in Endings : HandleDraft(ending) /\ closed' = [closed EXCEPT ![a] = ending]
        /\ UNCHANGED <<chain, failure, owner, made, torn>>
    BY <1>14 DEF Finish
  <2>2. stack' \in Seq(Actions)
    <3>1. <<a>> \in Seq(Actions)
      OBVIOUS
    <3>. QED  BY <1>1, <2>1, <3>1
  <2>3. phase' \in [Actions -> Phases]
    BY <1>1, <2>1 DEF Phases
  <2>4. closed' \in [Actions -> Endings]
    BY <1>1, <2>1 DEF Endings
  <2>5. Held
    BY <1>4, <1>6, <2>1, Zenon
  <2>. HIDE DEF Held, Rest
  <2>. QED  BY <1>1, <1>7, <2>1, <2>2, <2>3, <2>4, <2>5
<1>15. ASSUME NEW a \in Actions, End(a) PROVE Callers /\ Held /\ Rest
  <2>1. /\ stack # <<>>
        /\ phase' = [phase EXCEPT ![a] = "done"] \/ phase' = [phase EXCEPT ![a] = "failed"]
        /\ failure' = [failure EXCEPT ![a] = FALSE]
        /\ stack' = Below
        /\ UNCHANGED owner \/ owner' = Heir(a)
        /\ UNCHANGED transaction \/ Open
        /\ UNCHANGED <<chain, closed, made, torn>>
    BY <1>15 DEF End, OnTop, Outcome, HandBack
  <2>2. stack' \in Seq(Actions) /\ owner' \in Actions \cup {None}
    BY <1>1, <2>1, StackFacts, HeirFacts
  <2>3. phase' \in [Actions -> Phases]
    BY <1>1, <2>1 DEF Phases
  <2>4. failure' \in [Actions -> BOOLEAN]
    BY <1>1, <2>1
  <2>5. Held
    BY <1>4, <1>5, <2>1, Zenon
  <2>. HIDE DEF Held, Rest
  <2>. QED  BY <1>1, <1>7, <2>1, <2>2, <2>3, <2>4, <2>5
<1>16. CASE SetState
  <2>1. /\ \/ Updated /\ UNCHANGED torn
           \/ torn' = TRUE /\ UNCHANGED made /\ \E ending \in Endings : HandleDraft(ending)
        /\ UNCHANGED <<calls, owner>>
    BY <1>16 DEF SetState, NotUpdated
  <2>2. Callers
    BY <1>1, <2>1 DEF calls
  <2>3. CASE Updated /\ UNCHANGED torn
    <3>1. UNCHANGED refused
      BY <2>3 DEF Updated
    <3>2. finalizer' = (drafts' # <<>>)
      BY <1>1, <2>3, UpdatedFacts
    <3>3. /\ drafts' \in Seq(Seq(Writes)) /\ state' \in Seq(Writes)
          /\ published' \in Seq(Writes) /\ made' \in 0 .. MaxWrites
      BY <1>1, <2>3, UpdatedFacts
    <3>4. finalizer' \in BOOLEAN
      BY <3>2
    <3>5. Held
      BY <1>1, <3>1, <3>2, <3>3, <3>4
    <3>. QED  BY <1>1, <2>2, <2>3, <3>3, <3>5
  <2>4. CASE torn' = TRUE /\ UNCHANGED made /\ \E ending \in Endings : HandleDraft(ending)
    <3>1. Held
      BY <1>6, <2>4
    <3>2. Rest
      BY <1>1, <2>4
    <3>. QED  BY <2>2, <3>1, <3>2
  <2>. QED  BY <2>1, <2>3, <2>4
<1>17. CASE UNCHANGED vars
  <2>1. UNCHANGED <<phase, chain, closed, failure, stack, owner, made, torn>> /\ UNCHANGED transaction
    BY <1>17 DEF vars, calls
  <2>2. Held
    BY <1>4, <2>1
  <2>. HIDE DEF Held
  <2>. QED  BY <1>1, <1>7, <2>1, <2>2
<1>. HIDE DEF Callers, Held, Rest
<1>. QED
  BY <1>8, <1>9, <1>10, <1>11, <1>12, <1>13, <1>14, <1>15, <1>16, <1>17 DEF Next

LEMMA TypeInvariantHolds == Spec => []TypeInvariant
<1>1. ASSUME Init PROVE TypeInvariant
  <2>1. TypeOK
    <3>1. <<>> \in Seq(Actions) /\ <<>> \in Seq(Writes) /\ <<>> \in Seq(Seq(Writes)) /\ Len(drafts) <= 1
      BY <1>1 DEF Init
    <3>2. phase \in [Actions -> Phases] /\ chain \in [Actions -> Seq(Actions)]
      BY <1>1, <3>1 DEF Init, Phases
    <3>3. closed \in [Actions -> Endings] /\ failure \in [Actions -> BOOLEAN]
      BY <1>1 DEF Init, Endings
    <3>4. finalizer \in BOOLEAN /\ torn \in BOOLEAN
      BY <1>1, Zenon DEF Init
    <3>5. made \in 0 .. MaxWrites /\ refused \subseteq Writes
      BY <1>1 DEF Init
    <3>. QED  BY <1>1, <3>1, <3>2, <3>3, <3>4, <3>5 DEF Init, TypeOK
  <2>2. OneMoves /\ ~(\E a \in Actions : Shut(a))
    BY <1>1 DEF Init, OneMoves, Moving, Shut
  <2>3. Len(drafts) <= 1 /\ (finalizer => drafts # <<>>)
    BY <1>1 DEF Init
  <2>4. finalizer = (drafts # <<>>)
    BY <1>1, Zenon DEF Init
  <2>. QED  BY <2>1, <2>2, <2>3, <2>4, Zenon DEF TypeInvariant, OneDraft
<1>2. TypeInvariant /\ [Next]_vars => TypeInvariant'
  <2>1. ASSUME TypeInvariant, [Next]_vars, NoObserver PROVE OneMoves' /\ OneDraft'
    BY <2>1, Moves, DraftsKept
  <2>. QED  BY <2>1, TypesKept, Zenon DEF TypeInvariant, NoObserver
<1>. QED  BY <1>1, <1>2, PTL DEF Spec

\* Every variable of the transactions has its type, and as long as observers
\* call no actions there is never more than one open draft: handleDraft has
\* always run before openTransactionFor opens the next.
THEOREM TypeCorrect == Spec => []TypeOK
<1>1. TypeInvariant => TypeOK
  BY DEF TypeInvariant
<1>. QED  BY <1>1, TypeInvariantHolds, PTL

-----------------------------------------------------------------------------
(* Each write is in one place.                                             *)

In(ds) == UNION {Elements(ds[i]) : i \in DOMAIN ds}

\* No write is twice in the drafts.
Separate(ds) ==
  \A i, j \in DOMAIN ds : \A k \in DOMAIN ds[i], l \in DOMAIN ds[j] :
    ds[i][k] = ds[j][l] => i = j /\ k = l

Placed ==
  /\ 1 .. made = Elements(state) \cup In(drafts) \cup refused
  /\ Elements(state) \cap (In(drafts) \cup refused) = {}
  /\ In(drafts) \cap refused = {}
  /\ Inj(state)
  /\ Separate(drafts)

LEMMA NothingIn ==
  /\ Elements(<<>>) = {} /\ Inj(<<>>)
  /\ In(<<>>) = {} /\ Separate(<<>>)
  /\ In(<<<<>>>>) = {} /\ Separate(<<<<>>>>)
<1>1. DOMAIN <<>> = {}
  OBVIOUS
<1>2. DOMAIN <<<<>>>> = {1} /\ <<<<>>>>[1] = <<>>
  OBVIOUS
<1>. QED  BY <1>1, <1>2 DEF Elements, In, Inj, Separate

LEMMA Divided ==
  ASSUME NEW ds \in Seq(Seq(Writes)), ds # <<>>
  PROVE  /\ In(ds) = Elements(Head(ds)) \cup In(Tail(ds))
         /\ Separate(ds) => /\ Inj(Head(ds))
                            /\ Separate(Tail(ds))
                            /\ Elements(Head(ds)) \cap In(Tail(ds)) = {}
<1>1. /\ Head(ds) = ds[1]
      /\ \A i \in 1 .. Len(Tail(ds)) : Tail(ds)[i] = ds[i + 1]
      /\ DOMAIN ds = 1 .. Len(Tail(ds)) + 1
      /\ Tail(ds) \in Seq(Seq(Writes))
  BY DraftFacts
<1>2. PICK h, t : h = Head(ds) /\ t = Tail(ds)
  OBVIOUS
<1>3. /\ Len(t) \in Nat
      /\ DOMAIN t = 1 .. Len(t)
      /\ DOMAIN ds = 1 .. Len(t) + 1
      /\ h = ds[1]
      /\ \A i \in DOMAIN t : i + 1 \in DOMAIN ds /\ t[i] = ds[i + 1] /\ i + 1 # 1
      /\ 1 \in DOMAIN ds
  BY <1>1, <1>2, LenProperties
<1>4. \A i \in DOMAIN ds : i = 1 \/ (i - 1 \in DOMAIN t /\ ds[i] = t[i - 1])
  BY <1>3
<1>5. In(ds) \subseteq Elements(h) \cup In(t)
  <2>1. ASSUME NEW i \in DOMAIN ds PROVE Elements(ds[i]) \subseteq Elements(h) \cup In(t)
    <3>1. CASE i = 1
      BY <1>3, <3>1
    <3>2. CASE i - 1 \in DOMAIN t /\ ds[i] = t[i - 1]
      BY <3>2 DEF In
    <3>. QED  BY <1>4, <3>1, <3>2
  <2>. QED  BY <2>1, Zenon DEF In
<1>6. Elements(h) \subseteq In(ds)
  BY <1>3 DEF In
<1>7. In(t) \subseteq In(ds)
  BY <1>3 DEF In
<1>8. ASSUME Separate(ds) PROVE Inj(h)
  BY <1>3, <1>8 DEF Separate, Inj
<1>9. ASSUME Separate(ds) PROVE Separate(t)
  <2>1. SUFFICES ASSUME NEW i \in DOMAIN t, NEW j \in DOMAIN t,
                        NEW k \in DOMAIN t[i], NEW l \in DOMAIN t[j], t[i][k] = t[j][l]
                 PROVE  i = j /\ k = l
    BY DEF Separate
  <2>2. i + 1 = j + 1 /\ k = l
    BY <1>3, <1>9, <2>1 DEF Separate
  <2>3. i \in Nat /\ j \in Nat
    BY <1>3
  <2>. QED  BY <2>2, <2>3
<1>10. ASSUME Separate(ds) PROVE Elements(h) \cap In(t) = {}
  <2>1. SUFFICES ASSUME NEW k \in DOMAIN h, NEW i \in DOMAIN t, NEW l \in DOMAIN t[i], h[k] = t[i][l]
                 PROVE  FALSE
    BY DEF Elements, In
  <2>2. /\ 1 \in DOMAIN ds /\ i + 1 \in DOMAIN ds
        /\ k \in DOMAIN ds[1] /\ l \in DOMAIN ds[i + 1]
        /\ ds[1][k] = ds[i + 1][l]
    BY <1>3, <2>1
  <2>3. \A m, n \in DOMAIN ds : \A o \in DOMAIN ds[m], p \in DOMAIN ds[n] :
          ds[m][o] = ds[n][p] => m = n
    BY <1>10, Zenon DEF Separate
  <2>4. PICK n : n = i + 1
    OBVIOUS
  <2>5. 1 = n
    BY <2>2, <2>3, <2>4
  <2>. QED  BY <1>3, <2>1, <2>4, <2>5
<1>. QED  BY <1>2, <1>5, <1>6, <1>7, <1>8, <1>9, <1>10

LEMMA PutBefore ==
  ASSUME NEW h \in Seq(Writes), NEW t \in Seq(Seq(Writes))
  PROVE  /\ In(<<h>> \o t) = Elements(h) \cup In(t)
         /\ Inj(h) /\ Separate(t) /\ Elements(h) \cap In(t) = {} => Separate(<<h>> \o t)
<1>1. PICK ds : ds = <<h>> \o t
  OBVIOUS
<1>2. Len(t) \in Nat /\ DOMAIN t = 1 .. Len(t)
  BY LenProperties
<1>3. /\ ds[1] = h
      /\ \A i \in 1 .. Len(t) : ds[i + 1] = t[i]
      /\ DOMAIN ds = 1 .. Len(t) + 1
  BY <1>1, Pushed
<1>4. \A i \in DOMAIN t : i + 1 \in DOMAIN ds /\ ds[i + 1] = t[i]
  BY <1>2, <1>3
<1>5. \A i \in DOMAIN ds :
        \/ i = 1
        \/ i - 1 \in DOMAIN t /\ ds[i] = t[i - 1] /\ i \in Int
  BY <1>2, <1>3
<1>6. 1 \in DOMAIN ds
  BY <1>2, <1>3
<1>7. In(ds) = Elements(h) \cup In(t)
  <2>1. ASSUME NEW i \in DOMAIN ds PROVE Elements(ds[i]) \subseteq Elements(h) \cup In(t)
    <3>1. CASE i = 1
      BY <1>3, <3>1
    <3>2. CASE i - 1 \in DOMAIN t /\ ds[i] = t[i - 1]
      BY <3>2 DEF In
    <3>. QED  BY <1>5, <3>1, <3>2
  <2>2. In(ds) \subseteq Elements(h) \cup In(t)
    BY <2>1, Zenon DEF In
  <2>3. Elements(h) \cup In(t) \subseteq In(ds)
    BY <1>3, <1>4, <1>6 DEF In
  <2>. QED  BY <2>2, <2>3
<1>8. ASSUME Inj(h), Separate(t), Elements(h) \cap In(t) = {},
             NEW i \in DOMAIN ds, NEW j \in DOMAIN ds,
             NEW k \in DOMAIN ds[i], NEW l \in DOMAIN ds[j], ds[i][k] = ds[j][l]
      PROVE  i = j /\ k = l
  <2>1. CASE i = 1 /\ j = 1
    BY <1>3, <1>8, <2>1 DEF Inj
  <2>2. CASE /\ i - 1 \in DOMAIN t /\ ds[i] = t[i - 1] /\ i \in Int
             /\ j - 1 \in DOMAIN t /\ ds[j] = t[j - 1] /\ j \in Int
    <3>1. i - 1 = j - 1 /\ k = l
      BY <1>8, <2>2 DEF Separate
    <3>. QED  BY <2>2, <3>1
  <2>3. CASE i = 1 /\ j - 1 \in DOMAIN t /\ ds[j] = t[j - 1]
    <3>1. ds[i][k] \in Elements(h) /\ ds[j][l] \in In(t)
      BY <1>3, <1>8, <2>3 DEF Elements, In
    <3>. QED  BY <1>8, <3>1
  <2>4. CASE j = 1 /\ i - 1 \in DOMAIN t /\ ds[i] = t[i - 1]
    <3>1. ds[j][l] \in Elements(h) /\ ds[i][k] \in In(t)
      BY <1>3, <1>8, <2>4 DEF Elements, In
    <3>. QED  BY <1>8, <3>1
  <2>. QED  BY <1>5, <2>1, <2>2, <2>3, <2>4
<1>9. Inj(h) /\ Separate(t) /\ Elements(h) \cap In(t) = {} => Separate(ds)
  BY <1>8 DEF Separate
<1>. QED  BY <1>1, <1>7, <1>9

LEMMA OpenPlaces ==
  ASSUME TypeOK, Placed, Open, UNCHANGED made
  PROVE  Placed'
<1>1. drafts \in Seq(Seq(Writes)) /\ <<>> \in Seq(Writes)
  BY DEF TypeOK
<1>2. drafts' = <<<<>>>> \o drafts /\ UNCHANGED <<state, refused>>
  BY DEF Open
<1>3. /\ In(<<<<>>>> \o drafts) = Elements(<<>>) \cup In(drafts)
      /\ Separate(<<<<>>>> \o drafts)
  BY <1>1, PutBefore, NothingIn DEF Placed
<1>. QED  BY <1>2, <1>3, NothingIn DEF Placed

LEMMA HandleDraftPlaces ==
  ASSUME TypeOK, finalizer => drafts # <<>>, Placed, NEW ending, HandleDraft(ending), UNCHANGED made
  PROVE  Placed'
<1>1. /\ drafts \in Seq(Seq(Writes)) /\ state \in Seq(Writes) /\ finalizer \in BOOLEAN
  BY DEF TypeOK
<1>2. PICK written : written = IF finalizer THEN Head(drafts) ELSE <<>>
  OBVIOUS
<1>3. drafts' = IF finalizer THEN Tail(drafts) ELSE drafts
  BY DEF HandleDraft
<1>4. CASE finalizer
  <2>1. drafts' = Tail(drafts) /\ written = Head(drafts) /\ drafts # <<>>
    BY <1>2, <1>3, <1>4
  <2>2. written \in Seq(Writes)
    BY <1>1, <2>1, DraftFacts
  <2>3. /\ In(drafts) = Elements(written) \cup In(drafts')
        /\ Inj(written) /\ Separate(drafts')
        /\ Elements(written) \cap In(drafts') = {}
    BY <1>1, <2>1, Divided DEF Placed
  <2>4. \/ written = <<>> /\ UNCHANGED <<state, refused>>
        \/ Committed(written)
        \/ Refused(written)
    BY <1>2, Zenon DEF HandleDraft
  <2>5. CASE written = <<>> /\ UNCHANGED <<state, refused>>
    <3>1. Elements(written) = {}
      BY <2>5, NothingIn
    <3>. QED  BY <2>3, <2>5, <3>1 DEF Placed
  <2>6. CASE Committed(written)
    <3>1. state' = state \o written /\ UNCHANGED refused
      BY <2>6 DEF Committed
    <3>2. Elements(state) \cap Elements(written) = {}
      BY <2>3 DEF Placed
    <3>3. Elements(state') = Elements(state) \cup Elements(written) /\ Inj(state')
      BY <1>1, <2>2, <2>3, <3>1, <3>2, Joined DEF Placed
    <3>4. Elements(state') \cap (In(drafts') \cup refused') = {}
      BY <2>3, <3>1, <3>3 DEF Placed
    <3>. QED  BY <2>3, <3>1, <3>3, <3>4 DEF Placed
  <2>7. CASE Refused(written)
    <3>1. refused' = refused \cup Elements(written) /\ UNCHANGED state
      BY <2>7 DEF Refused
    <3>. QED  BY <2>3, <3>1 DEF Placed
  <2>. QED  BY <2>4, <2>5, <2>6, <2>7
<1>5. CASE ~finalizer
  <2>1. written = <<>> /\ drafts' = drafts
    BY <1>2, <1>3, <1>5
  <2>2. Refused(written)
    BY <1>2, <1>5, <2>1, Zenon DEF HandleDraft
  <2>3. refused' = refused /\ state' = state
    BY <2>1, <2>2, NothingIn DEF Refused
  <2>. QED  BY <2>1, <2>3 DEF Placed
<1>. QED  BY <1>4, <1>5

LEMMA WrittenPlaces ==
  ASSUME TypeOK, Placed, NEW a \in Actions, Write(a)
  PROVE  Placed'
<1>1. /\ drafts \in Seq(Seq(Writes)) /\ state \in Seq(Writes) /\ made \in 0 .. MaxWrites
  BY DEF TypeOK
<1>2. made' = made + 1 /\ made' \in Writes /\ UNCHANGED refused
  BY <1>1 DEF Write, Made, Writes
<1>3. 1 .. made' = (1 .. made) \cup {made'} /\ made' \notin 1 .. made
  BY <1>1, <1>2
<1>4. /\ made' \notin Elements(state)
      /\ made' \notin In(drafts)
      /\ made' \notin refused
  BY <1>3 DEF Placed
<1>5. CASE IsDraft
  <2>1. drafts' = <<Append(Head(drafts), made')>> \o Tail(drafts) /\ state' = state
    BY <1>5 DEF Write
  <2>2. /\ Head(drafts) \in Seq(Writes) /\ Tail(drafts) \in Seq(Seq(Writes))
    BY <1>1, <1>5, DraftFacts DEF IsDraft
  <2>3. /\ In(drafts) = Elements(Head(drafts)) \cup In(Tail(drafts))
        /\ Inj(Head(drafts)) /\ Separate(Tail(drafts))
        /\ Elements(Head(drafts)) \cap In(Tail(drafts)) = {}
    BY <1>1, <1>5, Divided DEF Placed, IsDraft
  <2>4. PICK h : h = Append(Head(drafts), made')
    OBVIOUS
  <2>5. h \in Seq(Writes) /\ Elements(h) = Elements(Head(drafts)) \cup {made'} /\ Inj(h)
    BY <1>2, <1>4, <2>2, <2>3, <2>4, Extended
  <2>6. Elements(h) \cap In(Tail(drafts)) = {}
    BY <1>4, <2>3, <2>5
  <2>7. In(drafts') = In(drafts) \cup {made'} /\ Separate(drafts')
    <3>1. drafts' = <<h>> \o Tail(drafts)
      BY <2>1, <2>4
    <3>2. In(drafts') = Elements(h) \cup In(Tail(drafts)) /\ Separate(drafts')
      BY <2>2, <2>3, <2>5, <2>6, <3>1, PutBefore
    <3>. QED  BY <2>3, <2>5, <3>2
  <2>8. /\ Elements(state') \cap (In(drafts') \cup refused') = {}
        /\ In(drafts') \cap refused' = {}
    <3>1. /\ Elements(state) \cap (In(drafts) \cup refused) = {}
          /\ In(drafts) \cap refused = {}
      BY <1>2 DEF Placed
    <3>2. made' \notin Elements(state) /\ made' \notin refused
      BY <1>4
    <3>3. state' = state /\ refused' = refused
      BY <1>2, <2>1
    <3>. QED  BY <2>7, <3>1, <3>2, <3>3
  <2>9. 1 .. made' = Elements(state') \cup In(drafts') \cup refused'
    BY <1>2, <1>3, <2>1, <2>7 DEF Placed
  <2>. QED  BY <2>1, <2>7, <2>8, <2>9 DEF Placed
<1>6. CASE ~IsDraft
  <2>1. drafts' = drafts /\ state' = Append(state, made')
    BY <1>6 DEF Write
  <2>2. Elements(state') = Elements(state) \cup {made'} /\ Inj(state')
    BY <1>1, <1>2, <1>4, <2>1, Extended DEF Placed
  <2>3. /\ Elements(state') \cap (In(drafts') \cup refused') = {}
        /\ In(drafts') \cap refused' = {}
    BY <1>2, <1>4, <2>1, <2>2 DEF Placed
  <2>4. 1 .. made' = Elements(state') \cup In(drafts') \cup refused'
    BY <1>2, <1>3, <2>1, <2>2 DEF Placed
  <2>. QED  BY <2>1, <2>2, <2>3, <2>4 DEF Placed
<1>. QED  BY <1>5, <1>6

\* An update is made of the one draft there is.
LEMMA UpdatedPlaces ==
  ASSUME TypeOK, Placed, Len(drafts) <= 1, Updated
  PROVE  Placed'
<1>1. /\ drafts \in Seq(Seq(Writes)) /\ state \in Seq(Writes) /\ made \in 0 .. MaxWrites
  BY DEF TypeOK
<1>2. made' = made + 1 /\ made' \in Writes /\ UNCHANGED refused
  BY <1>1 DEF Updated, Made, Writes
<1>3. 1 .. made' = (1 .. made) \cup {made'} /\ made' \notin 1 .. made
  BY <1>1, <1>2
<1>4. /\ made' \notin Elements(state)
      /\ made' \notin In(drafts)
      /\ made' \notin refused
  BY <1>3 DEF Placed
<1>5. PICK open : open = IF IsDraft THEN Head(drafts) ELSE <<>>
  OBVIOUS
<1>6. open \in Seq(Writes) /\ In(drafts) = Elements(open) /\ Inj(open)
  <2>1. CASE IsDraft
    <3>1. Tail(drafts) = <<>> /\ Head(drafts) \in Seq(Writes)
      BY <1>1, <2>1, DraftFacts DEF IsDraft
    <3>2. In(Tail(drafts)) = {}
      BY <3>1, NothingIn
    <3>3. In(drafts) = Elements(Head(drafts)) \cup In(Tail(drafts)) /\ Inj(Head(drafts))
      BY <1>1, <2>1, Divided DEF Placed, IsDraft
    <3>. QED  BY <1>5, <2>1, <3>1, <3>2, <3>3
  <2>2. CASE ~IsDraft
    <3>1. open = <<>> /\ drafts = <<>>
      BY <1>5, <2>2 DEF IsDraft
    <3>2. Elements(open) = {} /\ Inj(open) /\ In(drafts) = {}
      BY <3>1, NothingIn, Zenon
    <3>3. open \in Seq(Writes)
      BY <3>1
    <3>. QED  BY <3>2, <3>3
  <2>. QED  BY <2>1, <2>2
<1>7. PICK written : written = Append(open, made')
  OBVIOUS
<1>8. /\ written \in Seq(Writes) /\ Inj(written)
      /\ Elements(written) = In(drafts) \cup {made'}
  BY <1>2, <1>4, <1>6, <1>7, Extended
<1>9. Elements(state) \cap Elements(written) = {}
  BY <1>4, <1>8 DEF Placed
<1>10. state' = state \o written
  BY <1>5, <1>7 DEF Updated
<1>11. Elements(state') = Elements(state) \cup Elements(written) /\ Inj(state')
  BY <1>1, <1>8, <1>9, <1>10, Joined DEF Placed
<1>12. drafts' = <<<<>>>> \/ drafts' = <<>>
  BY DEF Updated, Reopened
<1>13. In(drafts') = {} /\ Separate(drafts')
  BY <1>12, NothingIn
<1>14. Elements(state') \cap refused = {}
  BY <1>4, <1>8, <1>11 DEF Placed
<1>. QED  BY <1>2, <1>3, <1>8, <1>11, <1>13, <1>14 DEF Placed

LEMMA PlacesHold == Spec => []Placed
<1>1. ASSUME Init PROVE Placed
  <2>1. state = <<>> /\ drafts = <<>> /\ refused = {} /\ 1 .. made = {}
    BY <1>1 DEF Init
  <2>. QED  BY <2>1, NothingIn DEF Placed
<1>2. ASSUME TypeInvariant, Placed, [Next]_vars PROVE Placed'
  <2>1. TypeOK /\ (finalizer => drafts # <<>>)
    BY <1>2 DEF TypeInvariant
  <2>2. ASSUME UNCHANGED transaction, UNCHANGED made PROVE Placed'
    BY <1>2, <2>2 DEF transaction, Placed
  <2>3. ASSUME UNCHANGED made,
               UNCHANGED transaction \/ Open \/ \E ending : HandleDraft(ending)
        PROVE  Placed'
    BY <1>2, <2>1, <2>2, <2>3, OpenPlaces, HandleDraftPlaces
  <2>4. ASSUME NEW a \in Actions, Enter(a) PROVE Placed'
    BY <2>3, <2>4, Zenon DEF Enter
  <2>5. ASSUME NEW a \in Actions, Begin(a) PROVE Placed'
    BY <2>3, <2>5, Zenon DEF Begin
  <2>6. ASSUME NEW a \in Actions, Write(a) PROVE Placed'
    BY <1>2, <2>1, <2>6, WrittenPlaces
  <2>7. ASSUME NEW a \in Actions, Suspend(a) \/ Resume(a) \/ Return(a) PROVE Placed'
    BY <2>2, <2>7 DEF Suspend, Resume, Return
  <2>8. ASSUME NEW a \in Actions, Finish(a) PROVE Placed'
    BY <2>3, <2>8, Zenon DEF Finish
  <2>9. ASSUME NEW a \in Actions, End(a) PROVE Placed'
    BY <2>3, <2>9 DEF End, HandBack
  <2>10. CASE SetState
    BY <1>2, <2>1, <2>3, <2>10, UpdatedPlaces, Zenon DEF SetState, NotUpdated
  <2>11. CASE UNCHANGED vars
    BY <2>2, <2>11 DEF vars
  <2>. QED  BY <1>2, <2>4, <2>5, <2>6, <2>7, <2>8, <2>9, <2>10, <2>11 DEF Next
<1>. QED  BY <1>1, <1>2, TypeInvariantHolds, PTL DEF Spec

\* Whatever actions, faults and observers do, and also after a setState has
\* failed inside an action, each write is in the instance once, in one open
\* draft, or was refused: handleDraft and setState lose no write and commit none
\* twice.
THEOREM WritesAreInOnePlace == Spec => []EachWriteInOnePlace
<1>1. TypeInvariant /\ Placed => EachWriteInOnePlace
  <2>1. SUFFICES ASSUME TypeInvariant, Placed PROVE EachWriteInOnePlace
    OBVIOUS
  <2>2. state \in Seq(Writes)
    BY <2>1 DEF TypeInvariant, TypeOK
  <2>3. Cardinality(Elements(state)) = Len(state)
    BY <2>1, <2>2, Counted DEF Placed
  <2>4. Drafted = In(drafts)
    BY DEF Drafted, In
  <2>. QED  BY <2>1, <2>3, <2>4 DEF Placed, EachWriteInOnePlace
<1>. QED  BY <1>1, TypeInvariantHolds, PlacesHold, PTL

-----------------------------------------------------------------------------
(* Ownership is a stack.                                                   *)

\* An action that owns, or has been displaced, has been called; one that has
\* not been called has closed nothing.
Started ==
  /\ owner # None => phase[owner] \notin {"idle", "entering"}
  /\ \A a \in Actions : phase[a] = "idle" => closed[a] = "none"
  /\ \A a \in Actions : \A i \in DOMAIN chain[a] : phase[chain[a][i]] # "idle"

\* What is further down a chain is in the chain of what is above it, and an
\* entering action is on top of the owner's chain.
Nested ==
  /\ \A a \in Actions : \A i, j \in DOMAIN chain[a] :
       i < j => chain[a][j] \in Elements(chain[chain[a][i]])
  /\ \A a \in Actions : phase[a] = "entering" =>
       chain[a] = IF owner = None THEN <<>> ELSE <<owner>> \o chain[owner]

OwnerLives ==
  /\ owner # None => Active(owner) \/ (phase[owner] = "closing" /\ closed[owner] # "none")
  /\ \A a \in Actions : phase[a] = "closing" => (closed[a] # "none") = (owner = a)
  /\ \A a \in Actions : phase[a] = "entering" /\ owner = None => closed[a] = "none"

\* An action that has not finished owns the transaction or waits for its owner.
AllWait ==
  \A b \in Actions : Active(b) /\ phase[b] # "entering" =>
    owner # None /\ (b = owner \/ b \in Elements(chain[owner]))

\* Between two transactions there is no draft; otherwise there is.
DraftExists == (\A a \in Actions : ~Shut(a)) => (owner = None) = (drafts = <<>>)

OwnerInvariant ==
  /\ Started
  /\ Nested
  /\ torn \/ (OwnerLives /\ AllWait /\ DraftExists)

LEMMA ChainFacts ==
  ASSUME TypeOK, NEW a \in Actions
  PROVE  /\ DOMAIN chain[a] = 1 .. Len(chain[a]) /\ Len(chain[a]) \in Nat
         /\ \A i \in DOMAIN chain[a] : chain[a][i] \in Actions
         /\ chain[a] = <<>> => DOMAIN chain[a] = {}
<1>1. chain[a] \in Seq(Actions)
  BY DEF TypeOK
<1>. QED  BY <1>1, LenProperties, ElementOfSeq

LEMMA EnteringChain ==
  ASSUME TypeOK, owner # None
  PROVE  /\ <<owner>> \o chain[owner] # <<>>
         /\ (<<owner>> \o chain[owner])[1] = owner
         /\ \A i \in DOMAIN chain[owner] : (<<owner>> \o chain[owner])[i + 1] = chain[owner][i]
         /\ DOMAIN (<<owner>> \o chain[owner]) = 1 .. Len(chain[owner]) + 1
         /\ Elements(<<owner>> \o chain[owner]) = {owner} \cup Elements(chain[owner])
<1>1. owner \in Actions /\ chain[owner] \in Seq(Actions)
  BY DEF TypeOK
<1>2. DOMAIN chain[owner] = 1 .. Len(chain[owner]) /\ Len(chain[owner]) \in Nat
  BY <1>1, LenProperties
<1>3. PICK c : c = <<owner>> \o chain[owner]
  OBVIOUS
<1>4. /\ c # <<>> /\ c[1] = owner
      /\ \A i \in 1 .. Len(chain[owner]) : c[i + 1] = chain[owner][i]
      /\ DOMAIN c = 1 .. Len(chain[owner]) + 1
  BY <1>1, <1>3, Pushed
<1>5. Elements(c) = {owner} \cup Elements(chain[owner])
  <2>1. Elements(<<owner>>) = {owner} /\ <<owner>> \in Seq(Actions)
    BY <1>1 DEF Elements
  <2>2. PICK d, e : d = <<owner>> /\ e = chain[owner]
    OBVIOUS
  <2>3. Elements(d \o e) = Elements(d) \cup Elements(e)
    BY <1>1, <2>1, <2>2, Joined
  <2>. QED  BY <1>3, <2>1, <2>2, <2>3
<1>. QED  BY <1>2, <1>3, <1>4, <1>5

LEMMA StartedKept ==
  ASSUME TypeInvariant, NoObserver, OwnerInvariant, [Next]_vars
  PROVE  Started'
<1>1. /\ TypeOK /\ OneMoves /\ Started
      /\ phase \in [Actions -> Phases] /\ closed \in [Actions -> Endings]
      /\ chain \in [Actions -> Seq(Actions)]
      /\ owner \in Actions \cup {None}
      /\ \A b \in Actions : \A i \in DOMAIN chain[b] : chain[b][i] \in Actions
  BY ChainFacts DEF TypeInvariant, TypeOK, OwnerInvariant
<1>2. ASSUME NEW a \in Actions, NEW p \in Phases \ {"idle", "entering"},
             phase' = [phase EXCEPT ![a] = p], UNCHANGED <<chain, owner>>,
             \A b \in Actions : b # a => closed'[b] = closed[b]
      PROVE  Started'
  BY <1>1, <1>2 DEF Started
<1>3. ASSUME UNCHANGED <<phase, closed, chain, owner>> PROVE Started'
  BY <1>1, <1>3 DEF Started
<1>4. ASSUME NEW a \in Actions, Enter(a) PROVE Started'
  <2>1. /\ UserCode /\ phase[a] = "idle"
        /\ phase' = [phase EXCEPT ![a] = "entering"]
        /\ chain' = [chain EXCEPT ![a] = IF owner = None THEN <<>> ELSE <<owner>> \o chain[owner]]
        /\ UNCHANGED closed \/ \E ending \in Endings : closed' = [closed EXCEPT ![a] = ending]
        /\ owner' = owner
    BY <1>4 DEF Enter, NoObserver
  <2>2. owner # None => phase'[owner] \notin {"idle", "entering"}
    BY <1>1, <2>1 DEF Started
  <2>3. \A b \in Actions : phase'[b] = "idle" => closed'[b] = "none"
    BY <1>1, <2>1 DEF Started
  <2>4. \A b \in Actions : phase[b] # "idle" => phase'[b] # "idle"
    BY <1>1, <2>1
  <2>5. ASSUME NEW b \in Actions, NEW i \in DOMAIN chain'[b] PROVE phase'[chain'[b][i]] # "idle"
    <3>1. CASE b # a
      BY <1>1, <2>1, <2>4, <2>5, <3>1 DEF Started
    <3>2. CASE b = a /\ owner = None
      <4>1. chain'[b] = <<>>
        BY <1>1, <2>1, <3>2
      <4>2. DOMAIN <<>> = {}
        OBVIOUS
      <4>. QED  BY <2>5, <4>1, <4>2
    <3>3. CASE b = a /\ owner # None
      <4>1. chain'[b] = <<owner>> \o chain[owner]
        BY <1>1, <2>1, <3>3
      <4>2. chain'[b][i] \in {owner} \cup Elements(chain[owner])
        BY <1>1, <2>5, <3>3, <4>1, EnteringChain DEF Elements
      <4>3. chain'[b][i] \in Actions /\ phase[chain'[b][i]] # "idle"
        BY <1>1, <3>3, <4>2 DEF Started, Elements
      <4>. QED  BY <2>4, <4>3
    <3>. QED  BY <3>1, <3>2, <3>3
  <2>. QED  BY <2>1, <2>2, <2>3, <2>5 DEF Started
<1>5. ASSUME NEW a \in Actions, Begin(a) PROVE Started'
  <2>1. PICK p \in {"failed", "running"} : phase' = [phase EXCEPT ![a] = p]
    BY <1>5 DEF Begin
  <2>2. /\ UNCHANGED <<chain, closed>>
        /\ owner' = None \/ (owner' = a /\ phase' = [phase EXCEPT ![a] = "running"])
    BY <1>5 DEF Begin
  <2>3. \A b \in Actions : phase[b] # "idle" => phase'[b] # "idle"
    BY <1>1, <2>1
  <2>. QED  BY <1>1, <2>1, <2>2, <2>3 DEF Started
<1>6. ASSUME NEW a \in Actions, Write(a) PROVE Started'
  BY <1>3, <1>6 DEF Write, calls
<1>7. ASSUME NEW a \in Actions, Suspend(a) PROVE Started'
  BY <1>2, <1>7 DEF Suspend, Phases
<1>8. ASSUME NEW a \in Actions, Resume(a) PROVE Started'
  BY <1>2, <1>8 DEF Resume, Phases
<1>9. ASSUME NEW a \in Actions, Return(a) PROVE Started'
  BY <1>2, <1>9 DEF Return, Phases
<1>10. ASSUME NEW a \in Actions, Finish(a) PROVE Started'
  <2>1. \A b \in Actions : b # a => closed'[b] = closed[b]
    BY <1>1, <1>10 DEF Finish
  <2>. QED  BY <1>2, <1>10, <2>1 DEF Finish, Phases
<1>11. ASSUME NEW a \in Actions, End(a) PROVE Started'
  <2>1. PICK p \in {"failed", "done"} : phase' = [phase EXCEPT ![a] = p]
    BY <1>11 DEF End, Outcome
  <2>2. /\ stack # <<>> /\ Top = a /\ phase[a] = "closing"
        /\ UNCHANGED <<chain, closed>>
        /\ UNCHANGED owner \/ owner' = Heir(a)
    BY <1>11 DEF End, HandBack, OnTop
  <2>3. CASE UNCHANGED owner
    BY <1>2, <2>1, <2>2, <2>3 DEF Phases
  <2>4. CASE owner' = Heir(a)
    <3>1. Heir(a) # None => Heir(a) \in Actions /\ Active(Heir(a))
      BY <1>1, HeirFacts
    <3>2. Heir(a) # None => phase[Heir(a)] \notin {"idle", "entering"} /\ Heir(a) # a
      BY <1>1, <2>2, <3>1, MovesAlone DEF Active, Moving
    <3>3. \A b \in Actions : phase[b] # "idle" => phase'[b] # "idle"
      BY <1>1, <2>1
    <3>4. owner' # None => phase'[owner'] \notin {"idle", "entering"}
      BY <1>1, <2>1, <2>4, <3>1, <3>2
    <3>. QED  BY <1>1, <2>1, <2>2, <3>3, <3>4 DEF Started
  <2>. QED  BY <2>2, <2>3, <2>4
<1>12. CASE SetState
  BY <1>3, <1>12 DEF SetState, calls
<1>13. CASE UNCHANGED vars
  BY <1>3, <1>13 DEF vars, calls
<1>. QED  BY <1>4, <1>5, <1>6, <1>7, <1>8, <1>9, <1>10, <1>11, <1>12, <1>13 DEF Next

LEMMA NestedKept ==
  ASSUME TypeInvariant, NoObserver, OwnerInvariant, [Next]_vars
  PROVE  Nested'
<1>1. /\ TypeOK /\ OneMoves /\ Started /\ Nested
      /\ phase \in [Actions -> Phases] /\ closed \in [Actions -> Endings]
      /\ chain \in [Actions -> Seq(Actions)]
      /\ owner \in Actions \cup {None}
      /\ \A b \in Actions : \A i \in DOMAIN chain[b] : chain[b][i] \in Actions
  BY ChainFacts DEF TypeInvariant, TypeOK, OwnerInvariant
<1>2. ASSUME UNCHANGED chain,
             \A b \in Actions : phase'[b] = "entering" => phase[b] = "entering" /\ UNCHANGED owner
      PROVE  Nested'
  <2>1. ASSUME NEW b \in Actions, phase'[b] = "entering"
        PROVE  chain'[b] = IF owner' = None THEN <<>> ELSE <<owner'>> \o chain'[owner']
    BY <1>1, <1>2, <2>1 DEF Nested
  <2>. QED  BY <1>1, <1>2, <2>1 DEF Nested
<1>3. ASSUME NEW a \in Actions, Enter(a) PROVE Nested'
  <2>1. /\ UserCode /\ phase[a] = "idle"
        /\ phase' = [phase EXCEPT ![a] = "entering"]
        /\ chain' = [chain EXCEPT ![a] = IF owner = None THEN <<>> ELSE <<owner>> \o chain[owner]]
        /\ owner' = owner
    BY <1>3 DEF Enter, NoObserver
  <2>2. Quiet
    BY <1>1, <2>1, UserCodeIsQuiet
  <2>3. owner # None => owner \in Actions /\ owner # a /\ chain'[owner] = chain[owner]
    BY <1>1, <2>1 DEF Started
  <2>4. ASSUME NEW b \in Actions, phase'[b] = "entering"
        PROVE  chain'[b] = IF owner' = None THEN <<>> ELSE <<owner'>> \o chain'[owner']
    <3>1. b = a
      BY <1>1, <2>1, <2>2, <2>4 DEF Quiet, Moving
    <3>. QED  BY <1>1, <2>1, <2>3, <3>1
  <2>5. ASSUME NEW b \in Actions, NEW i \in DOMAIN chain[b]
        PROVE  chain[b][i] \in Actions /\ chain'[chain[b][i]] = chain[chain[b][i]]
    BY <1>1, <2>1, <2>5 DEF Started
  <2>6. ASSUME NEW b \in Actions, NEW i \in DOMAIN chain'[b], NEW j \in DOMAIN chain'[b], i < j
        PROVE  chain'[b][j] \in Elements(chain'[chain'[b][i]])
    <3>1. CASE b # a
      <4>1. chain'[b] = chain[b]
        BY <1>1, <2>1, <3>1
      <4>2. i \in DOMAIN chain[b] /\ j \in DOMAIN chain[b]
        BY <2>6, <4>1
      <4>3. chain[b][j] \in Elements(chain[chain[b][i]])
        BY <1>1, <2>6, <4>2, Zenon DEF Nested
      <4>4. chain'[chain[b][i]] = chain[chain[b][i]]
        BY <2>5, <4>2
      <4>. QED  BY <4>1, <4>3, <4>4
    <3>2. CASE b = a /\ owner = None
      <4>1. chain'[b] = <<>>
        BY <1>1, <2>1, <3>2
      <4>2. DOMAIN <<>> = {}
        OBVIOUS
      <4>. QED  BY <2>6, <4>1, <4>2
    <3>3. CASE b = a /\ owner # None
      <4>1. chain'[b] = <<owner>> \o chain[owner]
        BY <1>1, <2>1, <3>3
      <4>2. /\ chain'[b][1] = owner
            /\ \A k \in DOMAIN chain[owner] : chain'[b][k + 1] = chain[owner][k]
            /\ DOMAIN chain'[b] = 1 .. Len(chain[owner]) + 1
        BY <1>1, <3>3, <4>1, EnteringChain
      <4>3. DOMAIN chain[owner] = 1 .. Len(chain[owner]) /\ Len(chain[owner]) \in Nat
        BY <1>1, <3>3, ChainFacts
      <4>4. j - 1 \in DOMAIN chain[owner] /\ j - 1 + 1 = j
        BY <2>6, <4>2, <4>3
      <4>5. chain'[b][j] = chain[owner][j - 1]
        BY <4>2, <4>4
      <4>6. CASE i = 1
        <5>1. chain'[b][j] \in Elements(chain[owner])
          BY <4>4, <4>5 DEF Elements
        <5>2. chain'[chain'[b][i]] = chain[owner]
          BY <2>3, <3>3, <4>2, <4>6
        <5>. QED  BY <5>1, <5>2
      <4>7. CASE i # 1
        <5>1. i - 1 \in DOMAIN chain[owner] /\ i - 1 + 1 = i /\ i - 1 < j - 1
          BY <2>6, <4>2, <4>3, <4>7
        <5>2. chain'[b][i] = chain[owner][i - 1]
          BY <4>2, <5>1
        <5>3. chain[owner][j - 1] \in Elements(chain[chain[owner][i - 1]])
          BY <1>1, <2>3, <3>3, <4>4, <5>1 DEF Nested
        <5>. QED  BY <2>3, <2>5, <3>3, <4>5, <5>1, <5>2, <5>3
      <4>. QED  BY <4>6, <4>7
    <3>. QED  BY <3>1, <3>2, <3>3
  <2>. QED  BY <2>4, <2>6 DEF Nested
<1>4. ASSUME NEW a \in Actions, Begin(a) PROVE Nested'
  <2>1. /\ stack # <<>> /\ Top = a
        /\ phase' = [phase EXCEPT ![a] = "failed"] \/ phase' = [phase EXCEPT ![a] = "running"]
        /\ UNCHANGED chain
    BY <1>4 DEF Begin, OnTop
  <2>2. \A b \in Actions : phase'[b] # "entering"
    <3>1. \A b \in Actions : b # a => phase[b] # "entering"
      BY <1>1, <2>1, MovesAlone DEF Moving
    <3>2. CASE phase' = [phase EXCEPT ![a] = "failed"]
      BY <1>1, <3>1, <3>2
    <3>3. CASE phase' # [phase EXCEPT ![a] = "failed"]
      BY <1>1, <2>1, <3>1, <3>3
    <3>. QED  BY <3>2, <3>3
  <2>. QED  BY <1>2, <2>1, <2>2
<1>5. ASSUME NEW a \in Actions, Write(a) PROVE Nested'
  BY <1>2, <1>5 DEF Write, calls
<1>6. ASSUME NEW a \in Actions, Suspend(a) \/ Resume(a) \/ Return(a) \/ Finish(a) PROVE Nested'
  <2>1. /\ UNCHANGED <<chain, owner>>
        /\ \A b \in Actions : phase'[b] = "entering" => phase[b] = "entering"
    BY <1>1, <1>6 DEF Suspend, Resume, Return, Finish
  <2>. QED  BY <1>2, <2>1
<1>7. ASSUME NEW a \in Actions, End(a) PROVE Nested'
  <2>1. /\ stack # <<>> /\ Top = a /\ phase[a] = "closing"
        /\ phase' = [phase EXCEPT ![a] = "failed"] \/ phase' = [phase EXCEPT ![a] = "done"]
        /\ UNCHANGED chain
    BY <1>7 DEF End, OnTop, Outcome
  <2>2. \A b \in Actions : phase'[b] # "entering"
    <3>1. \A b \in Actions : b # a => phase[b] # "entering"
      BY <1>1, <2>1, MovesAlone DEF Moving
    <3>2. CASE phase' = [phase EXCEPT ![a] = "failed"]
      BY <1>1, <3>1, <3>2
    <3>3. CASE phase' # [phase EXCEPT ![a] = "failed"]
      BY <1>1, <2>1, <3>1, <3>3
    <3>. QED  BY <3>2, <3>3
  <2>. QED  BY <1>2, <2>1, <2>2
<1>8. CASE SetState
  BY <1>2, <1>8 DEF SetState, calls
<1>9. CASE UNCHANGED vars
  BY <1>2, <1>9 DEF vars, calls
<1>. QED  BY <1>3, <1>4, <1>5, <1>6, <1>7, <1>8, <1>9 DEF Next

LEMMA OwnershipKept ==
  ASSUME TypeInvariant, NoObserver, OwnerInvariant, [Next]_vars, ~torn'
  PROVE  OwnerLives' /\ AllWait' /\ DraftExists'
<1>1. ~torn
  <2>1. torn' \in {torn, TRUE}
    BY DEF Next, vars, Enter, Begin, Write, Suspend, Resume, Return, Finish, End, SetState
  <2>. QED  BY <2>1
<1>2. /\ TypeOK /\ OneMoves /\ OneDraft /\ Started /\ Nested
      /\ OwnerLives /\ AllWait /\ DraftExists
      /\ phase \in [Actions -> Phases] /\ closed \in [Actions -> Endings]
      /\ chain \in [Actions -> Seq(Actions)]
      /\ owner \in Actions \cup {None}
      /\ \A b \in Actions : \A i \in DOMAIN chain[b] : chain[b][i] \in Actions
      /\ finalizer => drafts # <<>>
  BY <1>1, ChainFacts DEF TypeInvariant, TypeOK, OwnerInvariant
<1>. DEFINE Waits == {"running", "suspended", "resumed", "returned"}
            Goal == OwnerLives' /\ AllWait' /\ DraftExists'
<1>3. \A b \in Actions : Active(b) /\ phase[b] # "entering" <=> phase[b] \in Waits
  BY <1>2 DEF Active, Phases
<1>4. ASSUME UNCHANGED <<phase, chain, closed, owner>>, (drafts' = <<>>) = (drafts = <<>>)
      PROVE  Goal
  BY <1>2, <1>4 DEF OwnerLives, AllWait, DraftExists, Active, Shut
<1>5. ASSUME NEW a \in Actions, NEW p \in Waits, phase[a] \in Waits,
             phase' = [phase EXCEPT ![a] = p], UNCHANGED <<chain, closed, owner, drafts>>
      PROVE  Goal
  <2>1. \A b \in Actions :
          /\ Active(b)' <=> Active(b)
          /\ (phase'[b] = "entering") <=> (phase[b] = "entering")
          /\ (phase'[b] = "closing") <=> (phase[b] = "closing")
    BY <1>2, <1>5 DEF Active
  <2>2. OwnerLives'
    BY <1>2, <1>5, <2>1 DEF OwnerLives
  <2>3. AllWait'
    BY <1>2, <1>5, <2>1 DEF AllWait
  <2>4. DraftExists'
    BY <1>2, <1>5, <2>1 DEF DraftExists, Shut
  <2>. QED  BY <2>2, <2>3, <2>4
<1>6. ASSUME NEW a \in Actions, Enter(a) PROVE Goal
  <2>1. /\ UserCode /\ phase[a] = "idle"
        /\ phase' = [phase EXCEPT ![a] = "entering"]
        /\ chain' = [chain EXCEPT ![a] = IF owner = None THEN <<>> ELSE <<owner>> \o chain[owner]]
        /\ \/ ~IsDraft /\ UNCHANGED closed
           \/ IsDraft /\ \E ending \in Endings : closed' = [closed EXCEPT ![a] = ending]
        /\ owner' = owner
    BY <1>6 DEF Enter, NoObserver
  <2>2. Quiet
    BY <1>2, <2>1, UserCodeIsQuiet
  <2>3. owner # None => owner # a /\ Active(owner) /\ phase'[owner] = phase[owner]
    BY <1>2, <2>1, <2>2 DEF OwnerLives, Started, Quiet, Moving
  <2>4. owner = None => drafts = <<>>
    BY <1>2, <2>2, NobodyShuts DEF DraftExists
  <2>5. owner = None => closed'[a] = "none"
    BY <1>2, <2>1, <2>4 DEF Started, IsDraft
  <2>6. \A b \in Actions :
          /\ phase'[b] # "closing"
          /\ b # a => phase'[b] # "entering" /\ phase'[b] = phase[b]
          /\ phase'[a] = "entering"
    BY <1>2, <2>1, <2>2 DEF Quiet, Moving
  <2>7. OwnerLives'
    BY <1>2, <2>1, <2>3, <2>5, <2>6 DEF OwnerLives, Active
  <2>8. AllWait'
    <3>1. owner # None => chain'[owner] = chain[owner]
      BY <1>2, <2>1, <2>3
    <3>. QED  BY <1>2, <2>1, <2>6, <3>1 DEF AllWait, Active
  <2>9. DraftExists'
    BY <2>6 DEF DraftExists, Shut
  <2>. QED  BY <2>7, <2>8, <2>9
<1>7. ASSUME NEW a \in Actions, Begin(a) PROVE Goal
  <2>1. stack # <<>> /\ Top = a /\ phase[a] = "entering" /\ UNCHANGED <<chain, closed>>
    BY <1>7 DEF Begin, OnTop
  <2>2. chain[a] = IF owner = None THEN <<>> ELSE <<owner>> \o chain[owner]
    BY <1>2, <2>1 DEF Nested
  <2>3. ~(closed[a] \in Failing /\ chain[a] = <<>>)
    <3>1. CASE owner = None
      BY <1>2, <2>1, <3>1 DEF OwnerLives, Failing
    <3>2. CASE owner # None
      BY <1>2, <2>2, <3>2, EnteringChain
    <3>. QED  BY <3>1, <3>2
  <2>4. phase' = [phase EXCEPT ![a] = "running"] /\ owner' = a /\ Open
    BY <1>7, <2>3 DEF Begin
  <2>5. drafts' # <<>>
    BY <1>2, <2>4, OpenFacts
  <2>6. \A b \in Actions : phase'[b] \notin {"entering", "closing"}
    BY <1>2, <2>1, <2>4, MovesAlone DEF Moving
  <2>7. owner' # None /\ Active(owner)'
    BY <1>2, <2>4 DEF Active
  <2>8. OwnerLives'
    BY <2>6, <2>7 DEF OwnerLives
  <2>9. AllWait'
    <3>1. SUFFICES ASSUME NEW b \in Actions, Active(b)', b # a PROVE b \in Elements(chain[a])
      BY <2>1, <2>4, <2>7 DEF AllWait
    <3>2. Active(b) /\ phase[b] # "entering"
      BY <1>2, <2>4, <2>6, <3>1 DEF Active
    <3>3. owner # None /\ (b = owner \/ b \in Elements(chain[owner]))
      BY <1>2, <3>1, <3>2 DEF AllWait
    <3>4. chain[a] = <<owner>> \o chain[owner]
      BY <2>2, <3>3
    <3>5. Elements(chain[a]) = {owner} \cup Elements(chain[owner])
      BY <1>2, <3>3, <3>4, EnteringChain
    <3>. QED  BY <3>3, <3>5
  <2>10. DraftExists'
    BY <2>5, <2>7 DEF DraftExists
  <2>. QED  BY <2>8, <2>9, <2>10
<1>8. ASSUME NEW a \in Actions, Write(a) PROVE Goal
  <2>1. (drafts' = <<>>) = (drafts = <<>>)
    BY <1>2, <1>8, WrittenFacts
  <2>. QED  BY <1>4, <1>8, <2>1 DEF Write, calls
<1>9. ASSUME NEW a \in Actions, Suspend(a) PROVE Goal
  <2>1. /\ phase[a] \in Waits
        /\ phase' = [phase EXCEPT ![a] = "suspended"] /\ UNCHANGED <<chain, closed, owner, drafts>>
    BY <1>9 DEF Suspend, OnTop, Body, transaction
  <2>. HIDE DEF Goal
  <2>. QED  BY <1>5, <2>1
<1>10. ASSUME NEW a \in Actions, Resume(a) PROVE Goal
  <2>1. /\ phase[a] \in Waits
        /\ phase' = [phase EXCEPT ![a] = "resumed"] /\ UNCHANGED <<chain, closed, owner, drafts>>
    BY <1>10 DEF Resume, transaction
  <2>. HIDE DEF Goal
  <2>. QED  BY <1>5, <2>1
<1>11. ASSUME NEW a \in Actions, Return(a) PROVE Goal
  <2>1. /\ phase[a] \in Waits
        /\ phase' = [phase EXCEPT ![a] = "returned"] /\ UNCHANGED <<chain, closed, owner, drafts>>
    BY <1>11 DEF Return, OnTop, Body, transaction
  <2>. HIDE DEF Goal
  <2>. QED  BY <1>5, <2>1
<1>12. ASSUME NEW a \in Actions, Finish(a) PROVE Goal
  <2>1. /\ phase' = [phase EXCEPT ![a] = "closing"]
        /\ UNCHANGED <<chain, owner>>
        /\ \/ owner # a /\ closed' = [closed EXCEPT ![a] = "none"] /\ UNCHANGED drafts
           \/ owner = a /\ \E ending \in Endings \ {"none"} : closed' = [closed EXCEPT ![a] = ending]
        /\ OnTop(a, {"running"}) \/ (stack = <<>> /\ phase[a] = "returned")
    BY <1>2, <1>12, HandleDraftFacts DEF Finish, transaction
  <2>2. UserCode
    BY <2>1 DEF UserCode, OnTop, Body
  <2>3. Quiet
    BY <1>2, <2>2, UserCodeIsQuiet
  <2>4. \A b \in Actions :
          /\ phase'[b] # "entering"
          /\ b # a => phase'[b] # "closing" /\ phase'[b] = phase[b]
          /\ phase'[a] = "closing"
    BY <1>2, <2>1, <2>3 DEF Quiet, Moving
  <2>5. (closed'[a] # "none") = (owner = a)
    BY <1>2, <2>1
  <2>6. owner # None => Active(owner)
    BY <1>2, <2>3 DEF OwnerLives, Quiet, Moving
  <2>7. OwnerLives'
    BY <1>2, <2>1, <2>4, <2>5, <2>6 DEF OwnerLives, Active
  <2>8. AllWait'
    BY <1>2, <2>1, <2>3, <2>4 DEF AllWait, Active, Quiet, Moving
  <2>9. DraftExists'
    <3>1. CASE owner = a
      <4>1. Shut(a)'
        BY <2>4, <2>5, <3>1 DEF Shut
      <4>. QED  BY <4>1 DEF DraftExists
    <3>2. CASE owner # a
      BY <1>2, <2>1, <2>3, <3>2, NobodyShuts DEF DraftExists
    <3>. QED  BY <3>1, <3>2
  <2>. QED  BY <2>7, <2>8, <2>9
<1>13. ASSUME NEW a \in Actions, End(a) PROVE Goal
  <2>1. /\ stack # <<>> /\ Top = a /\ phase[a] = "closing"
        /\ UNCHANGED <<chain, closed>>
    BY <1>13 DEF End, OnTop
  <2>2. PICK p \in {"failed", "done"} : phase' = [phase EXCEPT ![a] = p]
    BY <1>13 DEF End, Outcome
  <2>3. \A b \in Actions :
          /\ phase'[b] \notin {"entering", "closing"}
          /\ b # a => phase'[b] = phase[b]
          /\ phase'[a] = p
    BY <1>2, <2>1, <2>2, MovesAlone DEF Moving
  <2>4. (closed[a] # "none") = (owner = a)
    BY <1>2, <2>1 DEF OwnerLives
  <2>5. \A b \in Actions : Active(b)' => Active(b) /\ phase[b] # "entering" /\ b # a
    BY <2>2, <2>3 DEF Active
  <2>6. CASE closed[a] = "none"
    <3>1. UNCHANGED <<owner, transaction>> /\ owner # a
      BY <1>13, <2>4, <2>6 DEF End
    <3>2. owner # None => Active(owner)
      BY <1>2, <2>1, <3>1, MovesAlone DEF OwnerLives, Moving
    <3>3. OwnerLives'
      BY <1>2, <2>3, <3>1, <3>2 DEF OwnerLives, Active
    <3>4. AllWait'
      BY <1>2, <2>1, <2>5, <3>1 DEF AllWait
    <3>5. \A b \in Actions : ~Shut(b)
      BY <1>2, <2>1, <2>6, MovesAlone DEF Shut, Moving
    <3>6. DraftExists'
      BY <1>2, <3>1, <3>5 DEF DraftExists, transaction
    <3>. QED  BY <3>3, <3>4, <3>6
  <2>7. CASE closed[a] # "none"
    <3>1. owner = a /\ owner' = Heir(a) /\ (IF Heir(a) = None THEN UNCHANGED transaction ELSE Open)
      BY <1>13, <2>4, <2>7 DEF End, HandBack
    <3>2. /\ Heir(a) \in Actions \cup {None}
          /\ Heir(a) # None =>
               \E i \in DOMAIN chain[a] :
                 /\ Heir(a) = chain[a][i]
                 /\ Active(chain[a][i])
                 /\ \A j \in 1 .. i - 1 : ~Active(chain[a][j])
          /\ (\E i \in DOMAIN chain[a] : Active(chain[a][i])) => Heir(a) # None
      BY <1>2, HeirFacts
    <3>3. owner' # None => Active(owner)'
      <4>1. ASSUME Heir(a) # None PROVE Active(owner)'
        <5>1. Active(Heir(a)) /\ Heir(a) \in Actions
          BY <3>2, <4>1
        <5>2. Heir(a) # a
          BY <2>1, <5>1 DEF Active
        <5>3. phase'[owner'] = phase[Heir(a)]
          BY <2>3, <3>1, <5>1, <5>2
        <5>. QED  BY <5>1, <5>3 DEF Active
      <4>. QED  BY <3>1, <4>1
    <3>4. OwnerLives'
      BY <2>3, <3>3 DEF OwnerLives
    <3>5. AllWait'
      <4>1. SUFFICES ASSUME NEW b \in Actions, Active(b)'
                     PROVE  owner' # None /\ (b = owner' \/ b \in Elements(chain[owner']))
        BY <2>1 DEF AllWait
      <4>2. b \in Elements(chain[a]) /\ Active(b)
        BY <1>2, <2>5, <3>1, <4>1 DEF AllWait
      <4>3. PICK j \in DOMAIN chain[a] : b = chain[a][j]
        BY <4>2 DEF Elements
      <4>4. Heir(a) # None
        BY <3>2, <4>2, <4>3
      <4>5. PICK i \in DOMAIN chain[a] :
              /\ Heir(a) = chain[a][i]
              /\ \A k \in 1 .. i - 1 : ~Active(chain[a][k])
        BY <3>2, <4>4
      <4>6. DOMAIN chain[a] = 1 .. Len(chain[a]) /\ Len(chain[a]) \in Nat
        BY <1>2, ChainFacts
      <4>7. ~(j < i)
        BY <4>2, <4>3, <4>5, <4>6
      <4>8. CASE j = i
        BY <3>1, <4>3, <4>4, <4>5, <4>8
      <4>9. CASE i < j
        <5>1. chain[a][j] \in Elements(chain[chain[a][i]])
          BY <1>2, <4>3, <4>5, <4>9 DEF Nested
        <5>. QED  BY <3>1, <4>3, <4>4, <4>5, <5>1
      <4>. QED  BY <4>3, <4>5, <4>6, <4>7, <4>8, <4>9
    <3>6. DraftExists'
      <4>1. CASE Heir(a) = None
        <5>1. Shut(a)
          BY <2>1, <2>7 DEF Shut
        <5>2. drafts = <<>>
          BY <1>2, <5>1 DEF OneDraft
        <5>3. drafts' = <<>> /\ owner' = None
          BY <3>1, <4>1, <5>2 DEF transaction
        <5>. QED  BY <5>3, Zenon DEF DraftExists
      <4>2. CASE Heir(a) # None
        <5>1. drafts' # <<>> /\ owner' # None
          BY <1>2, <3>1, <4>2, OpenFacts
        <5>. QED  BY <5>1, Zenon DEF DraftExists
      <4>. QED  BY <4>1, <4>2
    <3>. QED  BY <3>4, <3>5, <3>6
  <2>. QED  BY <2>6, <2>7
<1>14. ASSUME SetState PROVE Goal
  <2>1. Updated /\ UNCHANGED <<calls, owner>>
    BY <1>14 DEF SetState
  <2>2. drafts' = IF drafts = <<>> THEN <<>> ELSE <<<<>>>>
    BY <1>2, <2>1, UpdatedFacts DEF IsDraft
  <2>3. <<<<>>>> # <<>>
    OBVIOUS
  <2>4. (drafts' = <<>>) = (drafts = <<>>)
    BY <2>2, <2>3
  <2>. QED  BY <1>4, <2>1, <2>4 DEF calls
<1>15. ASSUME UNCHANGED vars PROVE Goal
  BY <1>4, <1>15 DEF vars, calls, transaction
<1>. HIDE DEF Goal
<1>16. Goal
  BY <1>6, <1>7, <1>8, <1>9, <1>10, <1>11, <1>12, <1>13, <1>14, <1>15 DEF Next
<1>. QED  BY <1>16 DEF Goal

LEMMA OwnershipHolds ==
  ASSUME NoObserver
  PROVE  Spec => []OwnerInvariant
<1>1. ASSUME Init PROVE OwnerInvariant
  <2>1. /\ \A a \in Actions : phase[a] = "idle" /\ closed[a] = "none" /\ chain[a] = <<>>
        /\ owner = None /\ drafts = <<>>
    BY <1>1 DEF Init
  <2>2. \A a \in Actions : DOMAIN chain[a] = {}
    <3>1. DOMAIN <<>> = {}
      OBVIOUS
    <3>. QED  BY <2>1, <3>1
  <2>3. Started
    BY <2>1, <2>2 DEF Started
  <2>4. Nested
    BY <2>1, <2>2 DEF Nested
  <2>5. OwnerLives /\ AllWait
    BY <2>1 DEF OwnerLives, AllWait, Active
  <2>6. DraftExists
    BY <2>1, Zenon DEF DraftExists
  <2>. QED  BY <2>3, <2>4, <2>5, <2>6 DEF OwnerInvariant
<1>2. ASSUME TypeInvariant, OwnerInvariant, [Next]_vars PROVE OwnerInvariant'
  BY <1>2, StartedKept, NestedKept, OwnershipKept DEF OwnerInvariant
<1>. QED  BY <1>1, <1>2, TypeInvariantHolds, PTL DEF Spec

\* As long as no observer calls an action and no setState has failed inside one,
\* the open draft belongs to an action that has not finished, there is one
\* whenever such an action exists, and none is left when all have finished:
\* createLocalAction's displaced contexts form a stack and handleResult hands
\* the transaction to the nearest one still active.
THEOREM TransactionIsOwned ==
  ASSUME NoObserver
  PROVE  Spec => []DraftIsOwned
<1>1. ASSUME TypeInvariant, OwnerInvariant PROVE DraftIsOwned
  <2>1. SUFFICES ASSUME ~torn, \A a \in Actions : phase[a] \notin {"entering", "closing"}
                 PROVE  IF \E a \in Actions : Active(a)
                        THEN owner # None /\ Active(owner) /\ Len(drafts) = 1 /\ finalizer
                        ELSE owner = None /\ drafts = <<>>
    BY DEF DraftIsOwned
  <2>2. /\ OwnerLives /\ AllWait /\ DraftExists /\ OneDraft
        /\ owner \in Actions \cup {None} /\ drafts \in Seq(Seq(Writes))
        /\ finalizer \in BOOLEAN
    BY <1>1, <2>1 DEF OwnerInvariant, TypeInvariant, TypeOK
  <2>3. owner # None => Active(owner)
    BY <2>1, <2>2 DEF OwnerLives
  <2>4. (owner = None) = (drafts = <<>>)
    BY <2>1, <2>2 DEF DraftExists, Shut
  <2>5. CASE \E a \in Actions : Active(a)
    <3>1. owner # None
      BY <2>1, <2>2, <2>5 DEF AllWait
    <3>2. drafts # <<>> /\ finalizer
      BY <2>2, <2>4, <3>1 DEF OneDraft
    <3>3. Len(drafts) = 1
      <4>1. Tail(drafts) = <<>> /\ Len(drafts) = Len(Tail(drafts)) + 1
        BY <2>2, <3>2, DraftFacts DEF OneDraft
      <4>2. Len(<<>>) = 0
        OBVIOUS
      <4>3. Len(Tail(drafts)) = 0
        BY <4>1, <4>2, Zenon
      <4>. QED  BY <4>1, <4>3
    <3>. QED  BY <2>3, <2>5, <3>1, <3>2, <3>3
  <2>6. CASE ~\E a \in Actions : Active(a)
    BY <2>2, <2>3, <2>4, <2>6
  <2>. QED  BY <2>5, <2>6
<1>. QED  BY <1>1, TypeInvariantHolds, OwnershipHolds, PTL

LEMMA BothOrNeither ==
  ASSUME NEW ending, HandleDraft(ending), published = state
  PROVE  published' = state'
BY Zenon DEF HandleDraft, Committed, Refused

\* As long as no observer calls an action, the published commits rebuild the
\* instance: an action that writes has a draft to write into, so that no write
\* reaches the instance unrecorded, until a setState has failed inside an action.
THEOREM CommitsAreComplete ==
  ASSUME NoObserver
  PROVE  Spec => []CommitsRebuildState
<1>1. Init => CommitsRebuildState
  BY DEF Init, CommitsRebuildState
<1>2. ASSUME TypeInvariant, OwnerInvariant, CommitsRebuildState, [Next]_vars
      PROVE  CommitsRebuildState'
  <2>1. torn' = torn \/ torn' = TRUE
    BY <1>2, Zenon DEF Next, vars, Enter, Begin, Write, Suspend, Resume, Return, Finish, End, SetState
  <2>2. CASE torn' = TRUE
    BY <2>2 DEF CommitsRebuildState
  <2>3. CASE torn' = torn /\ torn
    BY <2>3 DEF CommitsRebuildState
  <2>4. CASE ~torn
    <3>1. published = state
      BY <1>2, <2>4 DEF CommitsRebuildState
    <3>2. ASSUME UNCHANGED transaction \/ Open \/ \E ending : HandleDraft(ending)
          PROVE  published' = state'
      BY <3>1, <3>2, BothOrNeither DEF transaction, Open
    <3>3. ASSUME NEW a \in Actions, Enter(a) PROVE published' = state'
      BY <3>2, <3>3, Zenon DEF Enter
    <3>4. ASSUME NEW a \in Actions, Begin(a) PROVE published' = state'
      BY <3>2, <3>4, Zenon DEF Begin
    <3>5. ASSUME NEW a \in Actions, Write(a) PROVE published' = state'
      <4>1. OnTop(a, Body)
        BY <3>5 DEF Write
      <4>2. OneMoves /\ AllWait /\ DraftExists
        BY <1>2, <2>4 DEF TypeInvariant, OwnerInvariant
      <4>3. Quiet /\ phase[a] \in Body
        BY <4>1, <4>2, OnTopIsUserCode, UserCodeIsQuiet
      <4>4. owner # None
        BY <4>2, <4>3 DEF AllWait, Active, Body
      <4>5. IsDraft
        BY <4>2, <4>3, <4>4, NobodyShuts DEF DraftExists, IsDraft
      <4>. QED  BY <3>1, <3>5, <4>5 DEF Write
    <3>6. ASSUME NEW a \in Actions, Suspend(a) \/ Resume(a) \/ Return(a) PROVE published' = state'
      BY <3>2, <3>6 DEF Suspend, Resume, Return
    <3>7. ASSUME NEW a \in Actions, Finish(a) PROVE published' = state'
      BY <3>2, <3>7, Zenon DEF Finish
    <3>8. ASSUME NEW a \in Actions, End(a) PROVE published' = state'
      BY <3>2, <3>8 DEF End, HandBack
    <3>9. ASSUME SetState PROVE published' = state'
      <4>1. CASE Updated
        BY <3>1, <4>1 DEF Updated
      <4>2. CASE \E ending \in Endings : HandleDraft(ending)
        BY <3>2, <4>2
      <4>. QED  BY <3>9, <4>1, <4>2 DEF SetState, NotUpdated
    <3>10. ASSUME UNCHANGED vars PROVE published' = state'
      BY <3>2, <3>10 DEF vars
    <3>11. published' = state'
      BY <1>2, <3>3, <3>4, <3>5, <3>6, <3>7, <3>8, <3>9, <3>10 DEF Next
    <3>. QED  BY <3>11 DEF CommitsRebuildState
  <2>. QED  BY <2>1, <2>2, <2>3, <2>4
<1>. QED  BY <1>1, <1>2, TypeInvariantHolds, OwnershipHolds, PTL DEF Spec

=============================================================================
