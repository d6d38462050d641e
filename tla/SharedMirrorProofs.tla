------------------------- MODULE SharedMirrorProofs -------------------------
(***************************************************************************)
(* Proofs about SharedMirror for every set of clients and calls and every  *)
(* bound: type correctness, and that a mirror shows a published point of   *)
(* the history of its authority and only moves forward, and that the      *)
(* promise of a remote action finds the action's writes there.             *)
(***************************************************************************)
EXTENDS SharedMirror, SequenceTheorems, TLAPS

USE BoundsAssumption

LEMMA NewCallType == NewCall \in CallRecords
BY DEF NewCall, CallRecords, Epochs

\* The parts of a call record that change keep their types.
LEMMA SettledCallType ==
  /\ SettledCall("resolved", "value") \in CallRecords
  /\ SettledCall("rejected", "actionError") \in CallRecords
  /\ \A why \in {"authorityChanged", "destroyed", "transport", "sync"} :
       Rejected(why) \in CallRecords
BY NewCallType DEF SettledCall, Rejected, CallRecords

LEMMA FinishedType == \A r : Finished(r) \in CallRecords
BY SettledCallType DEF Finished

LEMMA NotifiedType ==
  ASSUME TypeOK, NEW c, NEW e, NEW s
  PROVE  Notified(c, e, s) \in [Calls -> CallRecords]
BY FinishedType DEF TypeOK, Notified

LEMMA AwaitedType ==
  ASSUME NEW job, NEW ok, NEW calls \in [Calls -> CallRecords]
  PROVE  Awaited(job, ok, calls) \in [Calls -> CallRecords]
BY FinishedType, SettledCallType DEF Awaited

LEMMA HandlerType ==
  \A h \in Handlers : \A phase \in {"ready", "failed"} :
    [h EXCEPT !.phase = phase] \in Handlers
BY DEF Handlers

LEMMA ResumedType ==
  ASSUME TypeOK, NEW c \in Clients, NEW job \in Jobs, NEW ok \in BOOLEAN
  PROVE  Resumed(c, job, ok) \in SUBSET Handlers
<1>1. CASE job.kind = "connect"
  <2>. DEFINE phase == IF ok THEN "ready" ELSE "failed"
  <2>1. phase \in {"ready", "failed"}
    OBVIOUS
  <2>2. handling[c] \subseteq Handlers
    BY DEF TypeOK
  <2>3. \A h \in handling[c] : [h EXCEPT !.phase = phase] \in Handlers
    BY <2>1, <2>2, HandlerType
  <2>. QED  BY <1>1, <2>2, <2>3 DEF Resumed
<1>2. CASE job.kind \in {"epoch", "gap"}
  <2>1. job.who \in Updates
    BY <1>2 DEF Jobs, JobsFor
  <2>2. job.gen \in Nat
    BY DEF Jobs, JobsFor
  <2>. QED  BY <1>2, <2>1, <2>2 DEF Resumed, TypeOK, Handlers
<1>3. CASE job.kind \notin {"connect", "epoch", "gap"}
  BY <1>3 DEF Resumed, TypeOK
<1>. QED  BY <1>1, <1>2, <1>3

\* What the settlement of a job touches keeps its type.
LEMMA SettleType ==
  ASSUME TypeOK, NEW c \in Clients, NEW job \in Jobs, NEW ok \in BOOLEAN,
         NEW calls \in [Calls -> CallRecords], Settle(c, job, ok, calls)
  PROVE  /\ connectSync' \in [Clients -> Nat]
         /\ handling' \in [Clients -> SUBSET Handlers]
         /\ call' \in [Calls -> CallRecords]
         /\ UNCHANGED <<authorityVars, connectGeneration, arrived, destroyed>>
<1>1. connectSync' \in [Clients -> Nat]
  BY DEF Settle, TypeOK
<1>2. handling' \in [Clients -> SUBSET Handlers]
  BY ResumedType DEF Settle, TypeOK
<1>3. call' \in [Calls -> CallRecords]
  BY AwaitedType DEF Settle
<1>. QED  BY <1>1, <1>2, <1>3 DEF Settle

LEMMA StateAtType ==
  ASSUME NEW e \in Epochs, NEW s \in 0..MaxSequence
  PROVE  StateAt(e, s) \in Seq(Epochs \X Nat)
BY DEF StateAt

LEMMA InstalledType ==
  ASSUME TypeOK, NEW c \in Clients, NEW e \in Epochs, NEW s \in 0..MaxSequence,
         NEW state \in Seq(Epochs \X Nat), NEW threw \in BOOLEAN
  PROVE  Installed(c, e, s, state, threw) \in Mirrors
BY DEF Installed, TypeOK, Mirrors

LEMMA InitType == Init => TypeOK
<1>1. <<>> \in Seq(Epochs \X Nat) /\ <<>> \in Seq(Jobs)
  OBVIOUS
<1>2. [epoch |-> 0, seq |-> 0, state |-> <<>>] \in Mirrors
  BY <1>1 DEF Mirrors, Epochs
<1>3. Init => authority \in Epochs
  BY DEF Init, Epochs
<1>7. Init => alive \in BOOLEAN
  BY Zenon DEF Init
<1>6. Init => sequence \in [Epochs -> 0..MaxSequence]
  BY DEF Init
<1>4. Init => /\ mirror \in [Clients -> Mirrors]
              /\ call \in [Calls -> CallRecords]
              /\ syncTail \in [Clients -> Seq(Jobs)]
  BY <1>1, <1>2, NewCallType DEF Init
<1>5. Init => /\ connectGeneration \in [Clients -> Nat]
              /\ connectSync \in [Clients -> Nat]
              /\ syncing \in [Clients -> SUBSET Flights]
              /\ handling \in [Clients -> SUBSET Handlers]
              /\ arrived \in [Clients -> SUBSET Updates]
              /\ destroyed \in [Clients -> BOOLEAN]
  BY DEF Init
<1>. QED  BY <1>3, <1>4, <1>5, <1>6, <1>7 DEF TypeOK

-----------------------------------------------------------------------------
(* Type correctness: one lemma per family of actions, one step per action. *)

LEMMA AuthorityTypes ==
  ASSUME TypeOK
  PROVE  /\ StartAuthority => TypeOK'
         /\ StopAuthority => TypeOK'
         /\ Write => TypeOK'
<1>1. ASSUME StartAuthority PROVE TypeOK'
  BY <1>1 DEF StartAuthority, TypeOK, authorityVars, syncVars, clientVars, Epochs
<1>2. ASSUME StopAuthority PROVE TypeOK'
  BY <1>2 DEF StopAuthority, TypeOK, authorityVars, syncVars, clientVars
<1>3. ASSUME Write PROVE TypeOK'
  BY <1>3 DEF Write, Emit, NextSequence, TypeOK, authorityVars, syncVars, clientVars
<1>. QED  BY <1>1, <1>2, <1>3

LEMMA CallRecordType ==
  ASSUME NEW r \in CallRecords, NEW e \in Epochs, NEW s \in 0..MaxSequence,
         NEW ok \in BOOLEAN
  PROVE  /\ [r EXCEPT !.phase = "running", !.epoch = e] \in CallRecords
         /\ [r EXCEPT !.wrote = s] \in CallRecords
         /\ [r EXCEPT !.phase = "answered", !.epoch = e, !.seq = s, !.ok = ok]
              \in CallRecords
         /\ \A phase \in {"waiting", "syncing", "timedOut"} :
              [r EXCEPT !.phase = phase] \in CallRecords
<1>1. [r EXCEPT !.phase = "running", !.epoch = e] \in CallRecords
  BY DEF CallRecords
<1>2. [r EXCEPT !.wrote = s] \in CallRecords
  BY DEF CallRecords
<1>3. [r EXCEPT !.phase = "answered", !.epoch = e, !.seq = s, !.ok = ok]
        \in CallRecords
  BY DEF CallRecords
<1>4. \A phase \in {"waiting", "syncing", "timedOut"} :
        [r EXCEPT !.phase = phase] \in CallRecords
  BY DEF CallRecords
<1>. QED  BY <1>1, <1>2, <1>3, <1>4

LEMMA AnswerType ==
  ASSUME TypeOK, NEW k \in Calls, NEW e \in Epochs, NEW ok \in BOOLEAN,
         Answer(k, e, ok)
  PROVE  call' \in [Calls -> CallRecords]
<1>. DEFINE r == [call[k] EXCEPT !.phase = "answered", !.epoch = e,
                                 !.seq = sequence[e], !.ok = ok]
<1>1. r \in CallRecords
  BY CallRecordType DEF TypeOK
<1>2. call' = [call EXCEPT ![k] = r]
  BY DEF Answer
<1>. QED  BY <1>1, <1>2 DEF TypeOK

LEMMA CallTypes ==
  ASSUME TypeOK, NEW k \in Calls
  PROVE  /\ ExecuteBegin(k) => TypeOK'
         /\ ExecuteWrite(k) => TypeOK'
         /\ ExecuteEnd(k) => TypeOK'
         /\ ExecuteRefuse(k) => TypeOK'
         /\ LoseCall(k) => TypeOK'
<1>1. ASSUME ExecuteBegin(k) PROVE TypeOK'
  <2>1. [call[k] EXCEPT !.phase = "running", !.epoch = authority] \in CallRecords
    BY CallRecordType DEF TypeOK
  <2>2. call' \in [Calls -> CallRecords]
    BY <1>1, <2>1 DEF ExecuteBegin, TypeOK
  <2>. QED  BY <1>1, <2>2 DEF ExecuteBegin, TypeOK, authorityVars, syncVars,
                              clientVars
<1>2. ASSUME ExecuteWrite(k) PROVE TypeOK'
  <2>1. NextSequence \in 0..MaxSequence
    BY <1>2 DEF ExecuteWrite, Emit, NextSequence, TypeOK
  <2>2. [call[k] EXCEPT !.wrote = NextSequence] \in CallRecords
    BY <2>1, CallRecordType DEF TypeOK
  <2>3. call' \in [Calls -> CallRecords]
    BY <1>2, <2>2 DEF ExecuteWrite, TypeOK
  <2>. QED  BY <1>2, <2>1, <2>3 DEF ExecuteWrite, Emit, TypeOK, syncVars,
                                    clientVars
<1>3. ASSUME ExecuteEnd(k) PROVE TypeOK'
  <2>1. call[k].epoch \in Epochs
    BY DEF TypeOK, CallRecords
  <2>2. call' \in [Calls -> CallRecords]
    BY <1>3, <2>1, AnswerType DEF ExecuteEnd
  <2>. QED  BY <1>3, <2>2 DEF ExecuteEnd, TypeOK, authorityVars, syncVars,
                              clientVars
<1>4. ASSUME ExecuteRefuse(k) PROVE TypeOK'
  <2>1. call' \in [Calls -> CallRecords]
    BY <1>4, AnswerType DEF ExecuteRefuse, TypeOK
  <2>. QED  BY <1>4, <2>1 DEF ExecuteRefuse, TypeOK, authorityVars, syncVars,
                              clientVars
<1>5. ASSUME LoseCall(k) PROVE TypeOK'
  BY <1>5, SettledCallType DEF LoseCall, TypeOK, authorityVars, syncVars,
                               clientVars
<1>. QED  BY <1>1, <1>2, <1>3, <1>4, <1>5

LEMMA JobType ==
  ASSUME NEW gen \in Nat
  PROVE  /\ Job("connect", gen, 0, 0, NoOne) \in Jobs
         /\ Job("recover", gen, 0, 0, NoOne) \in Jobs
         /\ \A u \in Updates :
              /\ Job("epoch", gen, u.epoch, 0, u) \in Jobs
              /\ Job("gap", gen, u.epoch, u.seq, u) \in Jobs
         /\ \A e \in Epochs, s \in 0..MaxSequence, k \in Calls :
              Job("call", gen, e, s, k) \in Jobs
<1>1. /\ Job("connect", gen, 0, 0, NoOne) \in Jobs
      /\ Job("recover", gen, 0, 0, NoOne) \in Jobs
  BY DEF Job, Jobs, JobsFor, Epochs
<1>2. ASSUME NEW u \in Updates
      PROVE  /\ Job("epoch", gen, u.epoch, 0, u) \in Jobs
             /\ Job("gap", gen, u.epoch, u.seq, u) \in Jobs
  <2>1. u.epoch \in Epochs /\ u.seq \in 0..MaxSequence
    BY DEF Updates
  <2>. QED  BY <2>1 DEF Job, Jobs, JobsFor
<1>3. \A e \in Epochs, s \in 0..MaxSequence, k \in Calls :
        Job("call", gen, e, s, k) \in Jobs
  BY DEF Job, Jobs, JobsFor
<1>. QED  BY <1>1, <1>2, <1>3

\* Queueing a job and taking the first one keep the type of syncTail.
LEMMA EnqueueType ==
  ASSUME TypeOK, NEW c \in Clients, NEW job \in Jobs, Enqueue(c, job)
  PROVE  syncTail' \in [Clients -> Seq(Jobs)]
BY DEF Enqueue, TypeOK

LEMMA HeadTailType ==
  ASSUME TypeOK, NEW c \in Clients, CanStart(c)
  PROVE  /\ Head(syncTail[c]) \in Jobs
         /\ [syncTail EXCEPT ![c] = Tail(@)] \in [Clients -> Seq(Jobs)]
BY DEF TypeOK, CanStart

LEMMA SyncTypes ==
  ASSUME TypeOK, NEW c \in Clients
  PROVE  /\ StartSync(c) => TypeOK'
         /\ SkipSync(c) => TypeOK'
         /\ \A f \in syncing[c] : /\ AnswerSync(c, f) => TypeOK'
                                  /\ FailSync(c, f) => TypeOK'
                                  /\ FinishSync(c, f) => TypeOK'
<1>1. ASSUME StartSync(c) PROVE TypeOK'
  <2>. DEFINE f == [job |-> Head(syncTail[c]), answered |-> FALSE,
                    epoch |-> 0, seq |-> 0]
  <2>1. f \in Flights
    BY <1>1, HeadTailType DEF StartSync, Flights, Epochs
  <2>2. syncing' \in [Clients -> SUBSET Flights]
    BY <1>1, <2>1 DEF StartSync, TypeOK
  <2>3. syncTail' \in [Clients -> Seq(Jobs)]
    BY <1>1, HeadTailType DEF StartSync
  <2>. QED  BY <1>1, <2>2, <2>3 DEF StartSync, TypeOK, authorityVars, clientVars
<1>2. ASSUME SkipSync(c) PROVE TypeOK'
  <2>. DEFINE job == Head(syncTail[c])
  <2>1. job \in Jobs /\ syncTail' \in [Clients -> Seq(Jobs)]
    BY <1>2, HeadTailType DEF SkipSync
  <2>2. Settle(c, job, TRUE, call) /\ UNCHANGED <<syncing, mirror>>
    BY <1>2 DEF SkipSync
  <2>. HIDE DEF job
  <2>3. call \in [Calls -> CallRecords]
    BY DEF TypeOK
  <2>4. /\ connectSync' \in [Clients -> Nat]
        /\ handling' \in [Clients -> SUBSET Handlers]
        /\ call' \in [Calls -> CallRecords]
        /\ UNCHANGED <<authorityVars, connectGeneration, arrived, destroyed>>
    BY <2>1, <2>2, <2>3, SettleType
  <2>. QED  BY <2>1, <2>2, <2>4 DEF TypeOK, authorityVars
<1>3. ASSUME NEW f \in syncing[c], AnswerSync(c, f) PROVE TypeOK'
  <2>. DEFINE reply == [f EXCEPT !.answered = TRUE, !.epoch = authority,
                                 !.seq = sequence[authority]]
  <2>1. f \in Flights
    BY DEF TypeOK
  <2>2. authority \in Epochs /\ sequence[authority] \in 0..MaxSequence
    BY DEF TypeOK
  <2>3. reply \in Flights
    BY <2>1, <2>2 DEF Flights
  <2>4. syncing' \in [Clients -> SUBSET Flights]
    BY <1>3, <2>3 DEF AnswerSync, TypeOK
  <2>. QED  BY <1>3, <2>4 DEF AnswerSync, TypeOK, authorityVars
<1>4. ASSUME NEW f \in syncing[c], FailSync(c, f) PROVE TypeOK'
  <2>1. f.job \in Jobs
    BY DEF TypeOK, Flights
  <2>2. call \in [Calls -> CallRecords]
    BY DEF TypeOK
  <2>3. /\ connectSync' \in [Clients -> Nat]
        /\ handling' \in [Clients -> SUBSET Handlers]
        /\ call' \in [Calls -> CallRecords]
        /\ UNCHANGED <<authorityVars, connectGeneration, arrived, destroyed>>
    BY <1>4, <2>1, <2>2, SettleType DEF FailSync
  <2>4. syncing' \in [Clients -> SUBSET Flights]
    BY <1>4 DEF FailSync, TypeOK
  <2>. QED  BY <1>4, <2>3, <2>4 DEF FailSync, TypeOK, authorityVars
<1>5. ASSUME NEW f \in syncing[c], FinishSync(c, f) PROVE TypeOK'
  <2>. DEFINE state == StateAt(f.epoch, f.seq)
  <2>1. /\ f.job \in Jobs
        /\ f.epoch \in Epochs
        /\ f.seq \in 0..MaxSequence
    BY DEF TypeOK, Flights
  <2>2. call \in [Calls -> CallRecords]
        /\ Notified(c, f.epoch, f.seq) \in [Calls -> CallRecords]
    BY NotifiedType DEF TypeOK
  <2>3. /\ connectSync' \in [Clients -> Nat]
        /\ handling' \in [Clients -> SUBSET Handlers]
        /\ call' \in [Calls -> CallRecords]
        /\ UNCHANGED <<authorityVars, connectGeneration, arrived, destroyed>>
    <3>1. CASE Settle(c, f.job, TRUE, call) \/ Settle(c, f.job, FALSE, call)
      BY <2>1, <2>2, <3>1, SettleType
    <3>2. CASE \E threw \in Throws :
                 Settle(c, f.job, ~threw, Notified(c, f.epoch, f.seq))
      <4>1. PICK threw \in BOOLEAN :
                 Settle(c, f.job, ~threw, Notified(c, f.epoch, f.seq))
        BY <3>2 DEF Throws
      <4>2. (~threw) \in BOOLEAN
        BY Zenon
      <4>. QED  BY <2>1, <2>2, <4>1, <4>2, SettleType
    <3>. QED  BY <1>5, <3>1, <3>2 DEF FinishSync
  <2>4. mirror' \in [Clients -> Mirrors]
    <3>1. CASE UNCHANGED mirror
      BY <3>1 DEF TypeOK
    <3>2. CASE \E threw \in Throws : mirror' = [mirror EXCEPT ![c] =
                  Installed(c, f.epoch, f.seq, state, threw)]
      <4>1. PICK threw \in BOOLEAN : mirror' = [mirror EXCEPT ![c] =
                  Installed(c, f.epoch, f.seq, state, threw)]
        BY <3>2 DEF Throws
      <4>2. Installed(c, f.epoch, f.seq, state, threw) \in Mirrors
        BY <2>1, StateAtType, InstalledType
      <4>. QED  BY <4>1, <4>2 DEF TypeOK
    <3>. QED  BY <1>5, <3>1, <3>2 DEF FinishSync
  <2>5. syncing' \in [Clients -> SUBSET Flights] /\ UNCHANGED syncTail
    BY <1>5 DEF FinishSync, TypeOK
  <2>. QED  BY <2>3, <2>4, <2>5 DEF TypeOK, authorityVars
<1>. QED  BY <1>1, <1>2, <1>3, <1>4, <1>5

LEMMA HandlerTypes ==
  ASSUME TypeOK, NEW c \in Clients, NEW h \in handling[c]
  PROVE  HandlerNext(c, h) => TypeOK'
<1>. h \in Handlers /\ h.gen \in Nat /\ h.update \in Updates
  BY DEF TypeOK, Handlers
<1>. h.update.epoch \in Epochs /\ h.update.seq \in 0..MaxSequence
  BY DEF Updates
<1>. [h EXCEPT !.phase = "failed"] \in Handlers
  BY HandlerType
<1>1. ASSUME DropUpdate(c, h) PROVE TypeOK'
  BY <1>1 DEF DropUpdate, Leave, TypeOK, authorityVars, syncVars
<1>2. ASSUME SyncEpoch(c, h) PROVE TypeOK'
  <2>1. syncTail' \in [Clients -> Seq(Jobs)]
    BY <1>2, JobType, EnqueueType DEF SyncEpoch
  <2>. QED  BY <1>2, <2>1 DEF SyncEpoch, Leave, TypeOK, authorityVars
<1>3. ASSUME MismatchedEpoch(c, h) PROVE TypeOK'
  BY <1>3 DEF MismatchedEpoch, TypeOK, authorityVars, syncVars
<1>4. ASSUME ApplyUpdate(c, h) PROVE TypeOK'
  <2>. DEFINE u == h.update
              state == Append(mirror[c].state, <<u.epoch, u.seq>>)
  <2>1. PICK threw \in BOOLEAN :
          /\ mirror' = [mirror EXCEPT
               ![c] = Installed(c, u.epoch, u.seq, state, threw)]
          /\ handling' = [handling EXCEPT ![c] = (@ \ {h}) \cup
               IF threw THEN {[h EXCEPT !.phase = "failed"]} ELSE {}]
          /\ call' = Notified(c, u.epoch, u.seq)
    BY <1>4 DEF ApplyUpdate, Throws
  <2>2. state \in Seq(Epochs \X Nat)
    <3>1. mirror[c].state \in Seq(Epochs \X Nat)
      BY DEF TypeOK, Mirrors
    <3>2. <<u.epoch, u.seq>> \in Epochs \X Nat
      OBVIOUS
    <3>. QED  BY <3>1, <3>2
  <2>3. Installed(c, u.epoch, u.seq, state, threw) \in Mirrors
    BY <2>2, InstalledType
  <2>4. mirror' \in [Clients -> Mirrors]
    BY <2>1, <2>3 DEF TypeOK
  <2>5. handling' \in [Clients -> SUBSET Handlers]
    BY <2>1 DEF TypeOK
  <2>6. call' \in [Calls -> CallRecords]
    BY <2>1, NotifiedType
  <2>. QED  BY <1>4, <2>4, <2>5, <2>6 DEF ApplyUpdate, TypeOK, authorityVars,
                                          syncVars
<1>5. ASSUME SyncGap(c, h) PROVE TypeOK'
  <2>1. syncTail' \in [Clients -> Seq(Jobs)]
    BY <1>5, JobType, EnqueueType DEF SyncGap
  <2>. QED  BY <1>5, <2>1 DEF SyncGap, Leave, TypeOK, authorityVars
<1>6. ASSUME Recover(c, h) PROVE TypeOK'
  <2>1. connectGeneration[c] \in Nat
    BY DEF TypeOK
  <2>2. syncTail' \in [Clients -> Seq(Jobs)]
    BY <1>6, <2>1, JobType, EnqueueType DEF Recover
  <2>. QED  BY <1>6, <2>2 DEF Recover, Leave, TypeOK, authorityVars
<1>. QED  BY <1>1, <1>2, <1>3, <1>4, <1>5, <1>6 DEF HandlerNext

LEMMA CallSyncType ==
  ASSUME TypeOK, NEW c \in Clients, NEW k \in Calls, CallSync(c, k)
  PROVE  syncTail' \in [Clients -> Seq(Jobs)]
<1>1. /\ connectGeneration[c] \in Nat
      /\ call[k].epoch \in Epochs
      /\ call[k].seq \in 0..MaxSequence
  BY DEF TypeOK, CallRecords
<1>. QED  BY <1>1, JobType, EnqueueType DEF CallSync

LEMMA ReceiveTypes ==
  ASSUME TypeOK, NEW c \in Clients, NEW k \in Calls
  PROVE  /\ ReceiveNext(c, k) => TypeOK'
         /\ WaitTimeout(c, k) => TypeOK'
<1>. call[k] \in CallRecords
  BY DEF TypeOK
<1>. \A phase \in {"waiting", "syncing", "timedOut"} :
       [call[k] EXCEPT !.phase = phase] \in CallRecords
  <2>1. 0 \in Epochs /\ 0 \in 0..MaxSequence
    BY DEF Epochs
  <2>. QED  BY <2>1, CallRecordType
<1>1. ASSUME ReceiveChanged(c, k) PROVE TypeOK'
  BY <1>1, SettledCallType DEF ReceiveChanged, TypeOK, authorityVars, syncVars,
                               clientVars
<1>2. ASSUME ReceiveForeign(c, k) PROVE TypeOK'
  <2>1. syncTail' \in [Clients -> Seq(Jobs)]
    BY <1>2, CallSyncType DEF ReceiveForeign
  <2>2. call' \in [Calls -> CallRecords]
    BY <1>2 DEF ReceiveForeign, TypeOK
  <2>. QED  BY <1>2, <2>1, <2>2 DEF ReceiveForeign, TypeOK, authorityVars,
                                    clientVars
<1>3. ASSUME ReceiveLocal(c, k) PROVE TypeOK'
  <2>1. call' \in [Calls -> CallRecords]
    BY <1>3, FinishedType DEF ReceiveLocal, TypeOK
  <2>. QED  BY <1>3, <2>1 DEF ReceiveLocal, TypeOK, authorityVars, syncVars,
                              clientVars
<1>4. ASSUME WaitTimeout(c, k) PROVE TypeOK'
  <2>1. syncTail' \in [Clients -> Seq(Jobs)]
    BY <1>4, CallSyncType DEF WaitTimeout
  <2>2. call' \in [Calls -> CallRecords]
    BY <1>4 DEF WaitTimeout, TypeOK
  <2>. QED  BY <1>4, <2>1, <2>2 DEF WaitTimeout, TypeOK, authorityVars,
                                    clientVars
<1>. QED  BY <1>1, <1>2, <1>3, <1>4 DEF ReceiveNext

LEMMA UserTypes ==
  ASSUME TypeOK, NEW c \in Clients
  PROVE  UserNext(c) => TypeOK'
<1>1. ASSUME Connect(c) PROVE TypeOK'
  <2>. DEFINE gen == connectGeneration[c] + 1
  <2>1. gen \in Nat
    BY DEF TypeOK
  <2>2. syncTail' \in [Clients -> Seq(Jobs)]
    BY <1>1, <2>1, JobType, EnqueueType DEF Connect
  <2>. QED  BY <1>1, <2>1, <2>2 DEF Connect, TypeOK, authorityVars, clientVars
<1>2. ASSUME Destroy(c) PROVE TypeOK'
  <2>1. call' \in [Calls -> CallRecords]
    BY <1>2, SettledCallType DEF Destroy, TypeOK
  <2>2. syncTail' \in [Clients -> Seq(Jobs)]
    BY <1>2 DEF Destroy, TypeOK
  <2>3. destroyed' \in [Clients -> BOOLEAN]
    BY <1>2 DEF Destroy, TypeOK
  <2>. QED  BY <1>2, <2>1, <2>2, <2>3 DEF Destroy, TypeOK, authorityVars
<1>3. ASSUME NEW e \in 1..authority, NEW s \in 1..sequence[e], Deliver(c, e, s)
      PROVE  TypeOK'
  <2>. DEFINE u == [epoch |-> e, seq |-> s]
              h == [update |-> u, gen |-> connectGeneration[c],
                    phase |-> IF connectSync[c] # 0 THEN "connect" ELSE "ready"]
  <2>1. e \in Epochs /\ s \in 1..MaxSequence
    BY DEF TypeOK, Epochs
  <2>2. u \in Updates
    BY <2>1 DEF Updates
  <2>3. h \in Handlers
    BY <2>2 DEF Handlers, TypeOK
  <2>4. handling' \in [Clients -> SUBSET Handlers]
    BY <1>3, <2>3 DEF Deliver, TypeOK
  <2>5. arrived' \in [Clients -> SUBSET Updates]
    BY <1>3, <2>2 DEF Deliver, TypeOK
  <2>. QED  BY <1>3, <2>4, <2>5 DEF Deliver, TypeOK, authorityVars, syncVars
<1>4. ASSUME NEW k \in Calls, CallAction(c, k) PROVE TypeOK'
  <2>1. call[k] \in CallRecords /\ mirror[c].epoch \in Epochs
    BY DEF TypeOK, Mirrors
  <2>2. [call[k] EXCEPT !.phase = "sent", !.client = c,
                        !.requestEpoch = mirror[c].epoch] \in CallRecords
    BY <2>1 DEF CallRecords
  <2>3. call' \in [Calls -> CallRecords]
    BY <1>4, <2>2 DEF CallAction, TypeOK
  <2>. QED  BY <1>4, <2>3 DEF CallAction, TypeOK, authorityVars, syncVars,
                              clientVars
<1>. QED  BY <1>1, <1>2, <1>3, <1>4 DEF UserNext

LEMMA TypeStep ==
  ASSUME TypeOK, [Next]_vars
  PROVE  TypeOK'
<1>1. CASE AuthorityNext
  BY <1>1, AuthorityTypes, CallTypes, SyncTypes DEF AuthorityNext
<1>2. ASSUME NEW c \in Clients, ClientNext(c) PROVE TypeOK'
  BY <1>2, SyncTypes, HandlerTypes, ReceiveTypes DEF ClientNext
<1>3. ASSUME NEW c \in Clients, UserNext(c) PROVE TypeOK'
  BY <1>3, UserTypes
<1>4. CASE UNCHANGED vars
  BY <1>4 DEF TypeOK, vars, authorityVars, syncVars, clientVars
<1>. QED  BY <1>1, <1>2, <1>3, <1>4 DEF Next

\* Every variable keeps its type, whatever the clients, calls and bounds.
THEOREM TypeCorrect == Spec => []TypeOK
<1>1. TypeOK /\ [Next]_vars => TypeOK'
  BY TypeStep
<1>. QED  BY <1>1, InitType, PTL DEF Spec

-----------------------------------------------------------------------------
(* The inductive invariant.                                                *)

\* Update s of epoch e has been emitted, or the state before any update.
Published(e, s) == e <= authority /\ s <= sequence[e]

ShowsHistory(m) == Published(m.epoch, m.seq) /\ m.state = StateAt(m.epoch, m.seq)

CarriesUpdate(job) ==
  job.kind \in {"epoch", "gap"} => Published(job.who.epoch, job.who.seq)

TailSound(c) == \A i \in DOMAIN syncTail[c] : CarriesUpdate(syncTail[c][i])

\* A snapshot on its way to c is one that an authority held, and no authority
\* older than the mirror's.
Recent(c, f) == f.answered => Published(f.epoch, f.seq) /\ mirror[c].epoch <= f.epoch

\* Whatever is still to be handled in c was emitted once, and at most one
\* request is out: nothing else moves the mirror to another epoch meanwhile.
Sound(c) ==
  /\ ShowsHistory(mirror[c])
  /\ \A h \in handling[c] : Published(h.update.epoch, h.update.seq)
  /\ TailSound(c)
  /\ \A f \in syncing[c] : CarriesUpdate(f.job) /\ Recent(c, f)
  /\ \A f, g \in syncing[c] : f = g

MirrorInvariant == TypeOK /\ \A c \in Clients : Sound(c)

LEMMA InvariantImplies == MirrorInvariant => MirrorShowsHistory
BY DEF MirrorInvariant, Sound, ShowsHistory, Published, MirrorShowsHistory

LEMMA InitInvariant == Init => MirrorInvariant
<1>. SUFFICES ASSUME Init PROVE MirrorInvariant
  OBVIOUS
<1>1. TypeOK
  BY InitType
<1>2. ASSUME NEW c \in Clients PROVE Sound(c)
  <2>1. ShowsHistory(mirror[c])
    <3>1. mirror[c] = [epoch |-> 0, seq |-> 0, state |-> <<>>]
      BY DEF Init
    <3>2. StateAt(0, 0) = <<>>
      BY DEF StateAt
    <3>3. authority = 0 /\ sequence[0] = 0
      BY DEF Init, Epochs
    <3>. QED  BY <3>1, <3>2, <3>3 DEF ShowsHistory, Published
  <2>. QED  BY <2>1 DEF Init, Sound, TailSound
<1>. QED  BY <1>1, <1>2 DEF MirrorInvariant

\* The authority only adds to what has been published.
LEMMA QuietStep ==
  ASSUME MirrorInvariant, TypeOK',
         UNCHANGED <<mirror, syncing, syncTail, handling>>,
         authority <= authority',
         \A e \in Epochs : sequence[e] <= sequence'[e]
  PROVE  MirrorInvariant'
<1>1. \A e \in Epochs, s \in 0..MaxSequence : Published(e, s) => Published(e, s)'
  BY DEF Published, MirrorInvariant, TypeOK, Epochs
<1>2. ASSUME NEW c \in Clients PROVE Sound(c)'
  <2>. Sound(c) /\ TypeOK
    BY DEF MirrorInvariant
  <2>1. ShowsHistory(mirror[c])'
    BY <1>1 DEF Sound, ShowsHistory, TypeOK, Mirrors
  <2>2. \A h \in handling[c] : Published(h.update.epoch, h.update.seq)'
    <3>1. \A h \in handling[c] : h.update.epoch \in Epochs
                                 /\ h.update.seq \in 0..MaxSequence
      BY DEF TypeOK, Handlers, Updates
    <3>. QED  BY <1>1, <3>1 DEF Sound
  <2>3. \A job \in Jobs : CarriesUpdate(job) => CarriesUpdate(job)'
    <3>1. \A job \in Jobs : job.kind \in {"epoch", "gap"} =>
            job.who.epoch \in Epochs /\ job.who.seq \in 0..MaxSequence
      BY DEF Jobs, JobsFor, Updates
    <3>. QED  BY <1>1, <3>1 DEF CarriesUpdate
  <2>4. TailSound(c)'
    BY <2>3 DEF Sound, TailSound, TypeOK
  <2>5. \A f \in syncing[c] : CarriesUpdate(f.job)' /\ Recent(c, f)'
    <3>1. \A f \in syncing[c] : f \in Flights
      BY DEF TypeOK
    <3>2. \A f \in syncing[c] : f.job \in Jobs /\ f.epoch \in Epochs
                                /\ f.seq \in 0..MaxSequence
      BY <3>1 DEF Flights
    <3>. QED  BY <1>1, <2>3, <3>2 DEF Sound, Recent
  <2>. QED  BY <2>1, <2>2, <2>4, <2>5 DEF Sound
<1>. QED  BY <1>2 DEF MirrorInvariant

\* A step of one client leaves the others alone.
LEMMA ClientStep ==
  ASSUME MirrorInvariant, TypeOK', UNCHANGED authorityVars,
         NEW c \in Clients,
         \A d \in Clients \ {c} : /\ mirror'[d] = mirror[d]
                                  /\ syncing'[d] = syncing[d]
                                  /\ syncTail'[d] = syncTail[d]
                                  /\ handling'[d] = handling[d],
         Sound(c)'
  PROVE  MirrorInvariant'
<1>1. ASSUME NEW d \in Clients \ {c} PROVE Sound(d)'
  BY DEF MirrorInvariant, Sound, ShowsHistory, Recent, TailSound,
         CarriesUpdate, Published, authorityVars
<1>. QED  BY <1>1 DEF MirrorInvariant

\* The actions of the authority and the network.
LEMMA AuthoritySteps ==
  ASSUME MirrorInvariant, TypeOK',
         \/ StartAuthority \/ StopAuthority \/ Write
         \/ \E k \in Calls : \/ ExecuteBegin(k) \/ ExecuteWrite(k)
                             \/ ExecuteEnd(k) \/ ExecuteRefuse(k)
                             \/ LoseCall(k)
  PROVE  MirrorInvariant'
<1>. TypeOK
  BY DEF MirrorInvariant
<1>1. UNCHANGED <<mirror, syncing, syncTail, handling>>
  BY DEF StartAuthority, StopAuthority, Write, ExecuteBegin, ExecuteWrite,
         ExecuteEnd, ExecuteRefuse, LoseCall, syncVars, clientVars
<1>2. authority <= authority' /\ \A e \in Epochs : sequence[e] <= sequence'[e]
  <2>1. CASE StartAuthority
    BY <2>1 DEF StartAuthority, TypeOK, Epochs
  <2>2. CASE Emit /\ UNCHANGED authority
    BY <2>2 DEF Emit, NextSequence, TypeOK, Epochs
  <2>3. CASE UNCHANGED <<authority, sequence>>
    BY <2>3 DEF TypeOK, Epochs
  <2>. QED
    BY <2>1, <2>2, <2>3 DEF StopAuthority, Write, ExecuteBegin, ExecuteWrite,
         ExecuteEnd, ExecuteRefuse, LoseCall, authorityVars
<1>. QED  BY <1>1, <1>2, QuietStep

LEMMA AnswerSyncStep ==
  ASSUME MirrorInvariant, TypeOK', NEW c \in Clients, NEW f \in syncing[c],
         AnswerSync(c, f)
  PROVE  MirrorInvariant'
<1>. TypeOK /\ Sound(c)
  BY DEF MirrorInvariant
<1>1. f \in Flights
  BY DEF TypeOK
<1>2. syncing[c] = {f}
  BY DEF Sound
<1>3. PICK reply : /\ reply = [f EXCEPT !.answered = TRUE, !.epoch = authority,
                                        !.seq = sequence[authority]]
                   /\ syncing' = [syncing EXCEPT ![c] = {reply}]
  BY <1>2 DEF AnswerSync
<1>4. /\ reply.job = f.job
      /\ reply.epoch = authority
      /\ reply.seq = sequence[authority]
  BY <1>1, <1>3 DEF Flights
<1>5. UNCHANGED <<authority, sequence, mirror, handling, syncTail>>
  BY DEF AnswerSync, authorityVars
<1>6. Recent(c, reply)'
  <2>1. authority \in Nat /\ sequence[authority] \in Nat
    BY DEF TypeOK, Epochs
  <2>2. mirror[c].epoch <= authority
    BY DEF Sound, ShowsHistory, Published
  <2>3. Published(reply.epoch, reply.seq)'
    BY <1>4, <1>5, <2>1 DEF Published
  <2>4. (mirror[c].epoch <= reply.epoch)'
    BY <1>4, <1>5, <2>2
  <2>. QED  BY <2>3, <2>4 DEF Recent
<1>7. Sound(c)'
  <2>1. syncing'[c] = {reply}
    BY <1>3 DEF TypeOK
  <2>2. CarriesUpdate(reply.job)'
    BY <1>4, <1>5 DEF Sound, CarriesUpdate, Published
  <2>. QED  BY <1>5, <1>6, <2>1, <2>2 DEF Sound, ShowsHistory, Published,
                                          TailSound, CarriesUpdate
<1>. QED  BY <1>3, <1>7, ClientStep DEF AnswerSync, authorityVars

\* What the queue of a client, and the handlers a job releases, carry.
LEMMA EnqueueSound ==
  ASSUME TypeOK, NEW c \in Clients, Sound(c), UNCHANGED authorityVars,
         NEW job \in Jobs, CarriesUpdate(job), Enqueue(c, job)
  PROVE  /\ TailSound(c)'
         /\ \A d \in Clients \ {c} : syncTail'[d] = syncTail[d]
<1>1. syncTail[c] \in Seq(Jobs) /\ syncTail'[c] = Append(syncTail[c], job)
  BY DEF Enqueue, TypeOK
<1>2. \A i \in DOMAIN syncTail'[c] :
        \/ i \in DOMAIN syncTail[c] /\ syncTail'[c][i] = syncTail[c][i]
        \/ syncTail'[c][i] = job
  <2>1. /\ DOMAIN syncTail'[c] = 1 .. Len(syncTail[c]) + 1
        /\ DOMAIN syncTail[c] = 1 .. Len(syncTail[c])
    BY <1>1
  <2>2. /\ \A i \in 1 .. Len(syncTail[c]) : syncTail'[c][i] = syncTail[c][i]
        /\ syncTail'[c][Len(syncTail[c]) + 1] = job
    BY <1>1, AppendProperties
  <2>. QED  BY <1>1, <2>1, <2>2, LenProperties
<1>3. \A i \in DOMAIN syncTail'[c] : CarriesUpdate(syncTail'[c][i])
  BY <1>2 DEF Sound, TailSound
<1>4. TailSound(c)'
  BY <1>3 DEF TailSound, CarriesUpdate, Published, authorityVars
<1>. QED  BY <1>4 DEF Enqueue, TypeOK

LEMMA HeadTailSound ==
  ASSUME TypeOK, NEW c \in Clients, Sound(c), CanStart(c)
  PROVE  /\ CarriesUpdate(Head(syncTail[c]))
         /\ \A i \in DOMAIN Tail(syncTail[c]) : CarriesUpdate(Tail(syncTail[c])[i])
<1>1. syncTail[c] \in Seq(Jobs) /\ syncTail[c] # <<>>
  BY DEF TypeOK, CanStart
<1>2. Head(syncTail[c]) = syncTail[c][1] /\ 1 \in DOMAIN syncTail[c]
  BY <1>1
<1>3. \A i \in DOMAIN Tail(syncTail[c]) :
        i + 1 \in DOMAIN syncTail[c] /\ Tail(syncTail[c])[i] = syncTail[c][i + 1]
  BY <1>1
<1>4. CarriesUpdate(syncTail[c][1])
  BY <1>2 DEF Sound, TailSound
<1>5. \A i \in DOMAIN Tail(syncTail[c]) : CarriesUpdate(syncTail[c][i + 1])
  BY <1>3 DEF Sound, TailSound
<1>. QED  BY <1>2, <1>3, <1>4, <1>5, Zenon

LEMMA ResumedSound ==
  ASSUME TypeOK, NEW c \in Clients, Sound(c), NEW job \in Jobs,
         CarriesUpdate(job), NEW ok
  PROVE  \A h \in Resumed(c, job, ok) : Published(h.update.epoch, h.update.seq)
<1>1. CASE job.kind = "connect"
  <2>1. \A h \in Handlers : \A phase :
          [h EXCEPT !.phase = phase].update = h.update
    BY DEF Handlers
  <2>2. handling[c] \subseteq Handlers
    BY DEF TypeOK
  <2>3. ASSUME NEW h \in Resumed(c, job, ok)
        PROVE  \E g \in handling[c] : h.update = g.update
    <3>1. \/ h \in handling[c]
          \/ \E g \in handling[c] : \E phase \in {"ready", "failed"} :
               h = [g EXCEPT !.phase = phase]
      BY <1>1 DEF Resumed
    <3>. QED  BY <2>1, <2>2, <3>1
  <2>. QED  BY <2>3 DEF Sound
<1>2. CASE job.kind \in {"epoch", "gap"}
  BY <1>2 DEF Resumed, Sound, CarriesUpdate
<1>3. CASE job.kind \notin {"connect", "epoch", "gap"}
  BY <1>3 DEF Resumed, Sound
<1>. QED  BY <1>1, <1>2, <1>3

\* The steps that leave the mirror alone.
LEMMA QueueStep ==
  ASSUME MirrorInvariant, TypeOK', NEW c \in Clients,
         UNCHANGED <<authorityVars, mirror>>,
         \A d \in Clients \ {c} : /\ syncing'[d] = syncing[d]
                                  /\ syncTail'[d] = syncTail[d]
                                  /\ handling'[d] = handling[d],
         syncing'[c] \subseteq syncing[c],
         \A h \in handling'[c] : Published(h.update.epoch, h.update.seq)',
         TailSound(c)'
  PROVE  MirrorInvariant'
<1>1. Sound(c)'
  BY DEF MirrorInvariant, Sound, ShowsHistory, Recent, TailSound,
         CarriesUpdate, Published, authorityVars
<1>. QED  BY <1>1, ClientStep

LEMMA StartSyncStep ==
  ASSUME MirrorInvariant, TypeOK', NEW c \in Clients, StartSync(c)
  PROVE  MirrorInvariant'
<1>. TypeOK /\ Sound(c)
  BY DEF MirrorInvariant
<1>1. PICK f : /\ f = [job |-> Head(syncTail[c]), answered |-> FALSE,
                       epoch |-> 0, seq |-> 0]
               /\ syncing' = [syncing EXCEPT ![c] = @ \cup {f}]
  BY DEF StartSync
<1>2. f.job = Head(syncTail[c]) /\ f.answered = FALSE
  BY <1>1
<1>3. /\ CanStart(c)
      /\ syncTail' = [syncTail EXCEPT ![c] = Tail(@)]
      /\ UNCHANGED <<authorityVars, mirror, handling>>
  BY DEF StartSync, clientVars
<1>4. syncing'[c] = {f}
  BY <1>1, <1>3 DEF CanStart, TypeOK
<1>5. CarriesUpdate(f.job)' /\ Recent(c, f)'
  BY <1>2, <1>3, HeadTailSound DEF CarriesUpdate, Recent, Published, authorityVars
<1>6. TailSound(c)'
  BY <1>3, HeadTailSound DEF TailSound, CarriesUpdate, Published, authorityVars,
                             TypeOK
<1>7. Sound(c)'
  BY <1>3, <1>4, <1>5, <1>6 DEF Sound, ShowsHistory, Published, authorityVars
<1>. QED  BY <1>1, <1>3, <1>7, ClientStep

LEMMA SkipSyncStep ==
  ASSUME MirrorInvariant, TypeOK', NEW c \in Clients, SkipSync(c)
  PROVE  MirrorInvariant'
<1>. TypeOK /\ Sound(c)
  BY DEF MirrorInvariant
<1>1. PICK job : job = Head(syncTail[c])
  OBVIOUS
<1>2. /\ CanStart(c)
      /\ syncTail' = [syncTail EXCEPT ![c] = Tail(@)]
      /\ handling' = [handling EXCEPT ![c] = Resumed(c, job, TRUE)]
      /\ UNCHANGED <<authorityVars, mirror, syncing>>
  BY <1>1 DEF SkipSync, Settle
<1>3. job \in Jobs /\ CarriesUpdate(job)
  BY <1>1, <1>2, HeadTailType, HeadTailSound
<1>4. \A h \in handling'[c] : Published(h.update.epoch, h.update.seq)'
  BY <1>2, <1>3, ResumedSound DEF TypeOK, Published, authorityVars
<1>5. TailSound(c)'
  BY <1>2, HeadTailSound DEF TailSound, CarriesUpdate, Published, authorityVars,
                             TypeOK
<1>6. \A d \in Clients \ {c} : /\ syncing'[d] = syncing[d]
                               /\ syncTail'[d] = syncTail[d]
                               /\ handling'[d] = handling[d]
  BY <1>2 DEF TypeOK
<1>. QED  BY <1>2, <1>4, <1>5, <1>6, QueueStep

LEMMA FailSyncStep ==
  ASSUME MirrorInvariant, TypeOK', NEW c \in Clients, NEW f \in syncing[c],
         FailSync(c, f)
  PROVE  MirrorInvariant'
<1>. TypeOK /\ Sound(c)
  BY DEF MirrorInvariant
<1>1. /\ syncing' = [syncing EXCEPT ![c] = @ \ {f}]
      /\ handling' = [handling EXCEPT ![c] = Resumed(c, f.job, FALSE)]
      /\ UNCHANGED <<authorityVars, mirror, syncTail>>
  BY DEF FailSync, Settle
<1>2. f.job \in Jobs /\ CarriesUpdate(f.job)
  BY DEF TypeOK, Flights, Sound
<1>3. \A h \in handling'[c] : Published(h.update.epoch, h.update.seq)'
  BY <1>1, <1>2, ResumedSound DEF TypeOK, Published, authorityVars
<1>4. TailSound(c)'
  BY <1>1 DEF Sound, TailSound, CarriesUpdate, Published, authorityVars
<1>5. syncing'[c] \subseteq syncing[c]
  BY <1>1 DEF TypeOK
<1>6. \A d \in Clients \ {c} : /\ syncing'[d] = syncing[d]
                               /\ syncTail'[d] = syncTail[d]
                               /\ handling'[d] = handling[d]
  BY <1>1 DEF TypeOK
<1>. QED  BY <1>1, <1>3, <1>4, <1>5, <1>6, QueueStep

\* The mirror of c jumps to a later published point of a history.
Jump(c) ==
  \E e \in Epochs, s \in 0..MaxSequence :
    /\ Published(e, s)
    /\ \/ e > mirror[c].epoch
       \/ e = mirror[c].epoch /\ s > mirror[c].seq
    /\ mirror' = [mirror EXCEPT
         ![c] = [epoch |-> e, seq |-> s, state |-> StateAt(e, s)]]

\* No subscriber of a client throws while a snapshot or update is applied.
NoThrow == "throw" \notin Faults

LEMMA FinishSyncJumps ==
  ASSUME NoThrow, MirrorInvariant, NEW c \in Clients, NEW f \in syncing[c],
         FinishSync(c, f)
  PROVE  UNCHANGED mirror \/ (f.answered /\ Jump(c) /\ mirror'[c].epoch = f.epoch)
<1>. TypeOK /\ Sound(c)
  BY DEF MirrorInvariant
<1>1. f.epoch \in Epochs /\ f.seq \in 0..MaxSequence /\ f.answered
  BY DEF TypeOK, Flights, FinishSync
<1>2. /\ Published(f.epoch, f.seq)
      /\ mirror[c].epoch <= f.epoch
  BY <1>1 DEF Sound, Recent
<1>3. SUFFICES ASSUME mirror' # mirror
               PROVE  Jump(c) /\ mirror'[c].epoch = f.epoch
  BY <1>1
<1>4. ~Ignores(c, f) /\ \E threw \in Throws : mirror' = [mirror EXCEPT
        ![c] = Installed(c, f.epoch, f.seq, StateAt(f.epoch, f.seq), threw)]
  BY <1>3 DEF FinishSync
<1>. DEFINE point == [epoch |-> f.epoch, seq |-> f.seq,
                      state |-> StateAt(f.epoch, f.seq)]
<1>5. mirror' = [mirror EXCEPT ![c] = point]
  BY <1>4 DEF NoThrow, Throws, Installed
<1>6. mirror[c].epoch \in Epochs /\ mirror[c].seq \in 0..MaxSequence
  BY DEF TypeOK, Mirrors
<1>7. \/ f.epoch > mirror[c].epoch
      \/ f.epoch = mirror[c].epoch /\ f.seq > mirror[c].seq
  <2>1. CASE f.epoch # mirror[c].epoch
    BY <1>1, <1>2, <1>6, <2>1 DEF Epochs
  <2>2. CASE f.epoch = mirror[c].epoch
    <3>1. f.seq >= mirror[c].seq
      BY <1>1, <1>4, <1>6, <2>2 DEF Ignores
    <3>2. f.seq # mirror[c].seq
      <4>1. SUFFICES ASSUME f.seq = mirror[c].seq PROVE FALSE
        OBVIOUS
      <4>2. mirror[c] = point
        BY <2>2, <4>1 DEF Sound, ShowsHistory, TypeOK, Mirrors
      <4>. QED  BY <1>3, <1>5, <4>2 DEF TypeOK
    <3>. QED  BY <1>1, <1>6, <2>2, <3>1, <3>2
  <2>. QED  BY <2>1, <2>2
<1>8. Jump(c)
  BY <1>1, <1>2, <1>5, <1>7 DEF Jump
<1>9. mirror'[c].epoch = f.epoch
  BY <1>5 DEF TypeOK
<1>. QED  BY <1>8, <1>9

LEMMA JumpShowsHistory ==
  ASSUME TypeOK, UNCHANGED authorityVars, NEW c \in Clients, Jump(c)
  PROVE  ShowsHistory(mirror[c])'
BY DEF TypeOK, Jump, ShowsHistory, Published, authorityVars

\* The next update turns the state at one sequence into the state at the next.
LEMMA AppendState ==
  ASSUME NEW e \in Nat, NEW s \in Nat
  PROVE  Append(StateAt(e, s), <<e, s + 1>>) = StateAt(e, s + 1)
<1>. DEFINE one == StateAt(e, s)
            two == StateAt(e, s + 1)
<1>1. /\ one \in Seq(Nat \X Nat)
      /\ Len(one) = s
      /\ \A i \in 1..s : one[i] = <<e, i>>
  BY DEF StateAt
<1>2. /\ two \in Seq(Nat \X Nat)
      /\ Len(two) = s + 1
      /\ \A i \in 1 .. s + 1 : two[i] = <<e, i>>
  BY DEF StateAt
<1>. HIDE DEF one, two
<1>3. /\ Append(one, <<e, s + 1>>) \in Seq(Nat \X Nat)
      /\ Len(Append(one, <<e, s + 1>>)) = s + 1
      /\ \A i \in 1..s : Append(one, <<e, s + 1>>)[i] = one[i]
      /\ Append(one, <<e, s + 1>>)[s + 1] = <<e, s + 1>>
  <2>1. <<e, s + 1>> \in Nat \X Nat
    OBVIOUS
  <2>. QED  BY <1>1, <2>1, AppendProperties
<1>4. ASSUME NEW i \in 1 .. s + 1
      PROVE  Append(one, <<e, s + 1>>)[i] = two[i]
  <2>1. CASE i \in 1..s
    <3>1. Append(one, <<e, s + 1>>)[i] = one[i]
      BY <1>3, <2>1
    <3>2. one[i] = <<e, i>> /\ two[i] = <<e, i>>
      BY <1>1, <1>2, <2>1
    <3>. QED  BY <3>1, <3>2
  <2>2. CASE i = s + 1
    <3>1. two[s + 1] = <<e, s + 1>>
      BY <1>2
    <3>2. Append(one, <<e, s + 1>>)[s + 1] = two[s + 1]
      BY <1>3, <3>1
    <3>. QED  BY <2>2, <3>2
  <2>3. i \in 1..s \/ i = s + 1
    OBVIOUS
  <2>. QED  BY <2>1, <2>2, <2>3, Zenon
<1>5. Append(one, <<e, s + 1>>) = two
  BY <1>2, <1>3, <1>4, SeqEqual
<1>. QED  BY <1>5 DEF one, two

LEMMA ApplyUpdateJumps ==
  ASSUME NoThrow, MirrorInvariant, NEW c \in Clients, NEW h \in handling[c],
         ApplyUpdate(c, h)
  PROVE  Jump(c) /\ mirror'[c].epoch = mirror[c].epoch
<1>. TypeOK /\ Sound(c)
  BY DEF MirrorInvariant
<1>. DEFINE u == h.update
            state == Append(mirror[c].state, <<u.epoch, u.seq>>)
<1>1. /\ u.epoch \in Epochs /\ u.seq \in 0..MaxSequence
      /\ mirror[c].epoch \in Epochs /\ mirror[c].seq \in 0..MaxSequence
  BY DEF TypeOK, Handlers, Updates, Mirrors
<1>2. u.epoch = mirror[c].epoch /\ u.seq = mirror[c].seq + 1
  BY DEF ApplyUpdate, IsNext
<1>3. Published(u.epoch, u.seq)
  BY DEF Sound
<1>4. state = StateAt(u.epoch, u.seq)
  <2>1. mirror[c].state = StateAt(mirror[c].epoch, mirror[c].seq)
    BY DEF Sound, ShowsHistory
  <2>2. mirror[c].epoch \in Nat /\ mirror[c].seq \in Nat
    BY <1>1 DEF Epochs
  <2>. QED  BY <1>2, <2>1, <2>2, AppendState
<1>5. mirror' = [mirror EXCEPT
        ![c] = [epoch |-> u.epoch, seq |-> u.seq, state |-> state]]
  BY DEF ApplyUpdate, NoThrow, Throws, Installed
<1>. HIDE DEF u, state
<1>6. Jump(c)
  <2>1. mirror' = [mirror EXCEPT ![c] = [epoch |-> u.epoch, seq |-> u.seq,
                                         state |-> StateAt(u.epoch, u.seq)]]
    BY <1>4, <1>5
  <2>2. u.epoch = mirror[c].epoch /\ u.seq > mirror[c].seq
    BY <1>1, <1>2
  <2>. QED  BY <1>1, <1>3, <2>1, <2>2 DEF Jump
<1>. QED  BY <1>2, <1>5, <1>6 DEF TypeOK

LEMMA FinishSyncStep ==
  ASSUME NoThrow, MirrorInvariant, TypeOK', NEW c \in Clients,
         NEW f \in syncing[c], FinishSync(c, f)
  PROVE  MirrorInvariant'
<1>. TypeOK /\ Sound(c)
  BY DEF MirrorInvariant
<1>1. /\ syncing' = [syncing EXCEPT ![c] = @ \ {f}]
      /\ \E ok \in BOOLEAN :
           handling' = [handling EXCEPT ![c] = Resumed(c, f.job, ok)]
      /\ UNCHANGED <<authorityVars, syncTail>>
  BY DEF FinishSync, Settle, Throws
<1>2. f.job \in Jobs /\ CarriesUpdate(f.job)
  BY DEF TypeOK, Flights, Sound
<1>3. \A h \in handling'[c] : Published(h.update.epoch, h.update.seq)'
  BY <1>1, <1>2, ResumedSound DEF TypeOK, Published, authorityVars
<1>4. TailSound(c)'
  BY <1>1 DEF Sound, TailSound, CarriesUpdate, Published, authorityVars
<1>5. syncing'[c] = {}
  BY <1>1 DEF Sound, TypeOK
<1>6. UNCHANGED mirror \/ Jump(c)
  BY FinishSyncJumps
<1>7. ShowsHistory(mirror[c])'
  BY <1>1, <1>6, JumpShowsHistory DEF Sound, ShowsHistory, Published, authorityVars
<1>8. Sound(c)'
  BY <1>3, <1>4, <1>5, <1>7 DEF Sound
<1>9. \A d \in Clients \ {c} : /\ mirror'[d] = mirror[d]
                               /\ syncing'[d] = syncing[d]
                               /\ syncTail'[d] = syncTail[d]
                               /\ handling'[d] = handling[d]
  BY <1>1, <1>6 DEF TypeOK, Jump
<1>. QED  BY <1>1, <1>8, <1>9, ClientStep

\* A handler that ends, or goes on without touching the mirror or the queue.
LEMMA HandlerStep ==
  ASSUME NoThrow, MirrorInvariant, TypeOK', NEW c \in Clients,
         NEW h \in handling[c], HandlerNext(c, h)
  PROVE  MirrorInvariant'
<1>. TypeOK /\ Sound(c)
  BY DEF MirrorInvariant
<1>. /\ h \in Handlers
     /\ h.gen \in Nat
     /\ h.update \in Updates
     /\ Published(h.update.epoch, h.update.seq)
  BY DEF TypeOK, Handlers, Sound
<1>. [h EXCEPT !.phase = "failed"].update = h.update
  BY DEF Handlers
<1>1. /\ UNCHANGED <<authorityVars, syncing>>
      /\ \/ handling' = [handling EXCEPT ![c] = @ \ {h}]
         \/ handling' = [handling EXCEPT
              ![c] = (@ \ {h}) \cup {[h EXCEPT !.phase = "failed"]}]
  <2>1. CASE ApplyUpdate(c, h)
    BY <2>1 DEF ApplyUpdate, NoThrow, Throws, syncVars
  <2>2. CASE DropUpdate(c, h) \/ SyncEpoch(c, h) \/ MismatchedEpoch(c, h)
             \/ SyncGap(c, h) \/ Recover(c, h)
    BY <2>2 DEF DropUpdate, SyncEpoch, MismatchedEpoch, SyncGap, Recover, Leave,
                syncVars
  <2>. QED  BY <2>1, <2>2 DEF HandlerNext
<1>2. \A g \in handling'[c] : Published(g.update.epoch, g.update.seq)'
  <2>1. handling'[c] \subseteq handling[c] \cup {[h EXCEPT !.phase = "failed"]}
    BY <1>1 DEF TypeOK
  <2>. QED  BY <1>1, <2>1 DEF Sound, Published, authorityVars
<1>3. TailSound(c)' /\ \A d \in Clients \ {c} : syncTail'[d] = syncTail[d]
  <2>1. CASE UNCHANGED syncTail
    BY <1>1, <2>1 DEF Sound, TailSound, CarriesUpdate, Published, authorityVars
  <2>2. CASE \E job \in Jobs : CarriesUpdate(job) /\ Enqueue(c, job)
    BY <1>1, <2>2, EnqueueSound
  <2>3. UNCHANGED syncTail \/ \E job \in Jobs : CarriesUpdate(job) /\ Enqueue(c, job)
    <3>1. CASE SyncEpoch(c, h)
      BY <3>1, JobType DEF SyncEpoch, CarriesUpdate, Job
    <3>2. CASE SyncGap(c, h)
      BY <3>2, JobType DEF SyncGap, CarriesUpdate, Job
    <3>3. CASE Recover(c, h)
      <4>1. connectGeneration[c] \in Nat
        BY DEF TypeOK
      <4>. QED  BY <3>3, <4>1, JobType DEF Recover, CarriesUpdate, Job
    <3>4. CASE DropUpdate(c, h) \/ MismatchedEpoch(c, h) \/ ApplyUpdate(c, h)
      BY <3>4 DEF DropUpdate, MismatchedEpoch, ApplyUpdate, syncVars
    <3>. QED  BY <3>1, <3>2, <3>3, <3>4 DEF HandlerNext
  <2>. QED  BY <2>1, <2>2, <2>3
<1>4. UNCHANGED mirror \/ (Jump(c) /\ mirror'[c].epoch = mirror[c].epoch)
  BY ApplyUpdateJumps DEF HandlerNext, DropUpdate, SyncEpoch, MismatchedEpoch,
     SyncGap, Recover
<1>5. ShowsHistory(mirror[c])'
  BY <1>1, <1>4, JumpShowsHistory DEF Sound, ShowsHistory, Published, authorityVars
<1>6. \A f \in syncing'[c] : CarriesUpdate(f.job)' /\ Recent(c, f)'
  BY <1>1, <1>4 DEF Sound, CarriesUpdate, Recent, Published, authorityVars
<1>7. Sound(c)'
  BY <1>1, <1>2, <1>3, <1>5, <1>6 DEF Sound
<1>8. \A d \in Clients \ {c} : /\ mirror'[d] = mirror[d]
                               /\ syncing'[d] = syncing[d]
                               /\ syncTail'[d] = syncTail[d]
                               /\ handling'[d] = handling[d]
  BY <1>1, <1>3, <1>4 DEF TypeOK, Jump
<1>. QED  BY <1>1, <1>7, <1>8, ClientStep

\* A remote action of c asks for a snapshot, or settles.
LEMMA ReceiveStep ==
  ASSUME MirrorInvariant, TypeOK', NEW c \in Clients, NEW k \in Calls,
         ReceiveNext(c, k) \/ WaitTimeout(c, k) \/ CallAction(c, k)
  PROVE  MirrorInvariant'
<1>. TypeOK /\ Sound(c)
  BY DEF MirrorInvariant
<1>1. UNCHANGED <<authorityVars, mirror, syncing, handling>>
  BY DEF ReceiveNext, ReceiveChanged, ReceiveForeign, ReceiveLocal, WaitTimeout,
         CallAction, syncVars, clientVars
<1>2. CASE UNCHANGED syncTail
  BY <1>1, <1>2, QuietStep DEF authorityVars, TypeOK, Epochs
<1>3. CASE CallSync(c, k)
  <2>1. /\ connectGeneration[c] \in Nat
        /\ call[k].epoch \in Epochs
        /\ call[k].seq \in 0..MaxSequence
    BY DEF TypeOK, CallRecords
  <2>2. PICK job \in Jobs : job.kind = "call" /\ Enqueue(c, job)
    BY <1>3, <2>1, JobType DEF CallSync, Job
  <2>3. CarriesUpdate(job)
    BY <2>2 DEF CarriesUpdate
  <2>4. TailSound(c)' /\ \A d \in Clients \ {c} : syncTail'[d] = syncTail[d]
    BY <1>1, <2>2, <2>3, EnqueueSound
  <2>5. \A h \in handling'[c] : Published(h.update.epoch, h.update.seq)'
    BY <1>1 DEF Sound, Published, authorityVars
  <2>. QED  BY <1>1, <2>4, <2>5, QueueStep
<1>. QED
  BY <1>2, <1>3 DEF ReceiveNext, ReceiveChanged, ReceiveForeign, ReceiveLocal,
     WaitTimeout, CallAction, syncVars

LEMMA UserStep ==
  ASSUME MirrorInvariant, TypeOK', NEW c \in Clients, UserNext(c)
  PROVE  MirrorInvariant'
<1>. TypeOK /\ Sound(c)
  BY DEF MirrorInvariant
<1>1. CASE Connect(c)
  <2>1. connectGeneration[c] + 1 \in Nat
    BY DEF TypeOK
  <2>2. PICK job \in Jobs : job.kind = "connect" /\ Enqueue(c, job)
    BY <1>1, <2>1, JobType DEF Connect, Job
  <2>3. CarriesUpdate(job)
    BY <2>2 DEF CarriesUpdate
  <2>4. UNCHANGED <<authorityVars, mirror, syncing, handling>>
    BY <1>1 DEF Connect, clientVars
  <2>5. TailSound(c)' /\ \A d \in Clients \ {c} : syncTail'[d] = syncTail[d]
    BY <2>2, <2>3, <2>4, EnqueueSound
  <2>6. \A h \in handling'[c] : Published(h.update.epoch, h.update.seq)'
    BY <2>4 DEF Sound, Published, authorityVars
  <2>. QED  BY <2>4, <2>5, <2>6, QueueStep
<1>2. CASE Destroy(c)
  <2>1. /\ UNCHANGED <<authorityVars, mirror>>
        /\ syncTail'[c] = <<>> /\ syncing'[c] = {} /\ handling'[c] = {}
        /\ \A d \in Clients \ {c} : /\ syncing'[d] = syncing[d]
                                    /\ syncTail'[d] = syncTail[d]
                                    /\ handling'[d] = handling[d]
    BY <1>2 DEF Destroy, TypeOK
  <2>2. TailSound(c)'
    BY <2>1 DEF TailSound
  <2>. QED  BY <2>1, <2>2, QueueStep
<1>3. ASSUME NEW e \in 1..authority, NEW s \in 1..sequence[e], Deliver(c, e, s)
      PROVE  MirrorInvariant'
  <2>. DEFINE u == [epoch |-> e, seq |-> s]
              handler == [update |-> u, gen |-> connectGeneration[c],
                          phase |-> IF connectSync[c] # 0 THEN "connect"
                                                          ELSE "ready"]
  <2>1. PICK h : h = handler /\ handling' = [handling EXCEPT ![c] = @ \cup {h}]
    BY <1>3 DEF Deliver
  <2>7. h.update.epoch = e /\ h.update.seq = s
    BY <2>1
  <2>2. UNCHANGED <<authorityVars, mirror, syncing, syncTail>>
    BY <1>3 DEF Deliver, syncVars
  <2>3. Published(e, s)
    BY DEF Published, TypeOK, Epochs
  <2>4. \A g \in handling'[c] : Published(g.update.epoch, g.update.seq)'
    <3>1. \A g \in handling'[c] : g \in handling[c] \/ g = h
      BY <2>1 DEF TypeOK
    <3>. QED  BY <2>2, <2>3, <2>7, <3>1 DEF Sound, Published, authorityVars
  <2>5. TailSound(c)'
    BY <2>2 DEF Sound, TailSound, CarriesUpdate, Published, authorityVars
  <2>6. \A d \in Clients \ {c} : handling'[d] = handling[d]
    BY <2>1 DEF TypeOK
  <2>. QED  BY <2>2, <2>4, <2>5, <2>6, QueueStep
<1>4. CASE \E k \in Calls : CallAction(c, k)
  BY <1>4, ReceiveStep
<1>. QED  BY <1>1, <1>2, <1>3, <1>4 DEF UserNext

LEMMA InvariantStep ==
  ASSUME NoThrow, MirrorInvariant, [Next]_vars
  PROVE  MirrorInvariant'
<1>1. TypeOK'
  BY TypeStep DEF MirrorInvariant
<1>2. CASE AuthorityNext
  BY <1>1, <1>2, AuthoritySteps, AnswerSyncStep, FailSyncStep DEF AuthorityNext
<1>3. ASSUME NEW c \in Clients, ClientNext(c) PROVE MirrorInvariant'
  BY <1>1, <1>3, StartSyncStep, SkipSyncStep, FinishSyncStep, HandlerStep,
     ReceiveStep DEF ClientNext
<1>4. ASSUME NEW c \in Clients, UserNext(c) PROVE MirrorInvariant'
  BY <1>1, <1>4, UserStep
<1>5. CASE UNCHANGED vars
  <2>1. UNCHANGED <<mirror, syncing, syncTail, handling, authority, sequence>>
    BY <1>5 DEF vars, authorityVars, syncVars, clientVars
  <2>. QED  BY <1>1, <2>1, QuietStep DEF MirrorInvariant, TypeOK, Epochs
<1>. QED  BY <1>2, <1>3, <1>4, <1>5 DEF Next

\* Under every interleaving of requests, updates, reconnections and restarts
\* of the authority, a mirror shows a published point of a history, provided
\* no subscriber throws while a snapshot or an update is applied.
THEOREM MirrorsShowHistory ==
  ASSUME NoThrow
  PROVE  Spec => []MirrorShowsHistory
<1>1. Init => MirrorInvariant
  BY InitInvariant
<1>2. MirrorInvariant /\ [Next]_vars => MirrorInvariant'
  BY InvariantStep
<1>3. MirrorInvariant => MirrorShowsHistory
  BY InvariantImplies
<1>. QED  BY <1>1, <1>2, <1>3, PTL DEF Spec

-----------------------------------------------------------------------------
(* How mirrors move, and the refinement of MirroredHistory.                *)

\* A step moves no mirror, or makes one client jump.
LEMMA StepJumps ==
  ASSUME NoThrow, MirrorInvariant, [Next]_vars
  PROVE  \/ UNCHANGED mirror
         \/ \E c \in Clients : Jump(c) /\ UNCHANGED authorityVars
<1>1. CASE AuthorityNext
  BY <1>1 DEF AuthorityNext, StartAuthority, StopAuthority, Write, ExecuteBegin,
     ExecuteWrite, ExecuteEnd, ExecuteRefuse, LoseCall, AnswerSync, FailSync,
     clientVars
<1>2. ASSUME NEW c \in Clients, ClientNext(c)
      PROVE  UNCHANGED mirror \/ (Jump(c) /\ UNCHANGED authorityVars)
  <2>1. CASE StartSync(c) \/ SkipSync(c)
    BY <2>1 DEF StartSync, SkipSync, clientVars
  <2>2. CASE \E f \in syncing[c] : FinishSync(c, f)
    BY <2>2, FinishSyncJumps DEF FinishSync, Settle
  <2>3. CASE \E h \in handling[c] : ApplyUpdate(c, h)
    BY <2>3, ApplyUpdateJumps DEF ApplyUpdate
  <2>4. CASE \E h \in handling[c] : HandlerNext(c, h) /\ ~ApplyUpdate(c, h)
    BY <2>4 DEF HandlerNext, DropUpdate, SyncEpoch, MismatchedEpoch, SyncGap,
       Recover
  <2>5. CASE \E k \in Calls : ReceiveNext(c, k) \/ WaitTimeout(c, k)
    BY <2>5 DEF ReceiveNext, ReceiveChanged, ReceiveForeign, ReceiveLocal,
       WaitTimeout, clientVars
  <2>. QED  BY <1>2, <2>1, <2>2, <2>3, <2>4, <2>5 DEF ClientNext
<1>3. ASSUME NEW c \in Clients, UserNext(c) PROVE UNCHANGED mirror
  BY <1>3 DEF UserNext, Connect, Destroy, Deliver, CallAction, clientVars
<1>4. CASE UNCHANGED vars
  BY <1>4 DEF vars, clientVars
<1>. QED  BY <1>1, <1>2, <1>3, <1>4 DEF Next

LEMMA JumpAdvances ==
  ASSUME TypeOK, NEW c \in Clients, Jump(c)
  PROVE  \A d \in Clients :
           LET m == mirror[d]
               n == mirror'[d]
           IN  m # n => \/ n.epoch > m.epoch
                        \/ n.epoch = m.epoch /\ n.seq > m.seq
BY DEF TypeOK, Jump

\* No mirror ever goes back to an older epoch, or back within an epoch.
THEOREM MirrorsAdvance ==
  ASSUME NoThrow
  PROVE  Spec => MirrorAdvances
<1>1. Init => MirrorInvariant
  BY InitInvariant
<1>2. MirrorInvariant /\ [Next]_vars => MirrorInvariant'
  BY InvariantStep
<1>3. MirrorInvariant /\ [Next]_vars =>
        [\A c \in Clients :
           LET m == mirror[c]
               n == mirror'[c]
           IN  m # n => \/ n.epoch > m.epoch
                        \/ n.epoch = m.epoch /\ n.seq > m.seq]_vars
  BY StepJumps, JumpAdvances DEF MirrorInvariant
<1>. QED  BY <1>1, <1>2, <1>3, PTL DEF Spec, MirrorAdvances

\* A step adds to the authorities' histories in one of two ways, or not.
LEMMA AuthorityHistory ==
  ASSUME TypeOK, AuthorityNext
  PROVE  \/ History!Begin
         \/ History!Publish
         \/ UNCHANGED <<authority, sequence, mirror>>
<1>1. CASE StartAuthority
  BY <1>1 DEF StartAuthority, clientVars, History!Begin
<1>2. CASE Emit /\ UNCHANGED <<authority, mirror>>
  BY <1>2 DEF Emit, NextSequence, History!Publish
<1>3. CASE UNCHANGED <<authority, sequence, mirror>>
  BY <1>3
<1>. QED
  BY <1>1, <1>2, <1>3 DEF AuthorityNext, StopAuthority, Write, ExecuteBegin,
     ExecuteWrite, ExecuteEnd, ExecuteRefuse, LoseCall, AnswerSync, FailSync,
     Settle, authorityVars, clientVars

LEMMA ClientsOnlyRead ==
  ASSUME NEW c \in Clients, ClientNext(c) \/ UserNext(c)
  PROVE  UNCHANGED authorityVars
<1>1. CASE \E h \in handling[c] : HandlerNext(c, h)
  BY <1>1 DEF HandlerNext, DropUpdate, SyncEpoch, MismatchedEpoch, ApplyUpdate,
     SyncGap, Recover
<1>2. CASE \E k \in Calls : ReceiveNext(c, k) \/ WaitTimeout(c, k)
  BY <1>2 DEF ReceiveNext, ReceiveChanged, ReceiveForeign, ReceiveLocal,
     WaitTimeout
<1>3. CASE \/ StartSync(c) \/ SkipSync(c)
           \/ \E f \in syncing[c] : FinishSync(c, f)
  BY <1>3 DEF StartSync, SkipSync, FinishSync, Settle
<1>4. CASE UserNext(c)
  BY <1>4 DEF UserNext, Connect, Destroy, Deliver, CallAction
<1>. QED  BY <1>1, <1>2, <1>3, <1>4 DEF ClientNext

LEMMA JumpIsAdvance ==
  ASSUME MirrorInvariant, NEW c \in Clients, Jump(c), UNCHANGED authorityVars
  PROVE  History!Advance(c)
<1>. TypeOK
  BY DEF MirrorInvariant
<1>1. PICK e \in Epochs, s \in 0..MaxSequence :
        /\ Published(e, s)
        /\ \/ e > mirror[c].epoch
           \/ e = mirror[c].epoch /\ s > mirror[c].seq
        /\ mirror' = [mirror EXCEPT
             ![c] = [epoch |-> e, seq |-> s, state |-> StateAt(e, s)]]
  BY DEF Jump
<1>2. e \in 0..authority /\ s \in 0..sequence[e]
  BY <1>1 DEF Published, TypeOK, Epochs
<1>3. History!Point(e, s) = [epoch |-> e, seq |-> s, state |-> StateAt(e, s)]
  BY DEF History!Point, History!HistoryAt, StateAt
<1>4. History!Later(mirror[c], History!Point(e, s))
  BY <1>1, <1>3 DEF History!Later
<1>. QED  BY <1>1, <1>2, <1>3, <1>4 DEF History!Advance, authorityVars

\* The transport, the queues, the retries and the restarts are invisible: a
\* shared store behaves as mirrors that jump along published histories.
THEOREM MirrorsImplementHistory ==
  ASSUME NoThrow
  PROVE  Spec => ImplementsHistory
<1>1. Init => MirrorInvariant /\ History!Init
  <2>1. StateAt(0, 0) = <<>>
    BY DEF StateAt
  <2>2. History!Point(0, 0) = [epoch |-> 0, seq |-> 0, state |-> <<>>]
    BY <2>1 DEF History!Point, History!HistoryAt, StateAt
  <2>. QED  BY <2>2, InitInvariant DEF Init, History!Init, Epochs, History!Epochs
<1>2. MirrorInvariant /\ [Next]_vars => MirrorInvariant'
  BY InvariantStep
<1>3. MirrorInvariant /\ [Next]_vars => [History!Next]_(History!vars)
  <2>. SUFFICES ASSUME MirrorInvariant, [Next]_vars
                PROVE  [History!Next]_(History!vars)
    OBVIOUS
  <2>1. CASE AuthorityNext
    BY <2>1, AuthorityHistory DEF MirrorInvariant, History!Next, History!vars
  <2>2. CASE \E c \in Clients : Jump(c) /\ UNCHANGED authorityVars
    BY <2>2, JumpIsAdvance DEF History!Next
  <2>3. CASE ~AuthorityNext /\ UNCHANGED mirror
    <3>1. UNCHANGED <<authority, sequence>>
      BY <2>3, ClientsOnlyRead DEF Next, authorityVars, vars
    <3>. QED  BY <2>3, <3>1 DEF History!vars
  <2>. QED  BY <2>1, <2>2, <2>3, StepJumps
<1>. QED  BY <1>1, <1>2, <1>3, PTL DEF Spec, ImplementsHistory, History!Spec

-----------------------------------------------------------------------------
(* Remote actions.                                                         *)

Asked(r) == r.phase \in {"syncing", "timedOut"}

Answered(r) == r.phase \in {"answered", "waiting", "timedOut", "syncing"}

\* An answer carries a sequence that the writes of its action are part of,
\* and the epoch of an authority that was alive.
RecordSound(r) ==
  /\ r.phase \in {"idle", "sent"} => r.wrote = 0
  /\ r.phase = "running" => r.wrote <= sequence[r.epoch]
  /\ Answered(r) => r.wrote <= r.seq
  /\ r.phase = "running" \/ Answered(r) => r.epoch > 0

\* A snapshot that was asked for on behalf of an action is the one its promise
\* needs, or the promise has settled without it.
RequestSound(c, job) ==
  job.kind = "call" =>
    LET r == call[job.who] IN
      \/ r.phase \in {"resolved", "rejected"}
      \/ /\ Asked(r)
         /\ r.client = c
         /\ job.expect = r.epoch
         /\ job.min = r.seq

CallInvariant ==
  /\ alive => authority > 0
  /\ \A k \in Calls : RecordSound(call[k])
  /\ \A c \in Clients : \A job \in JobsOf(c) : RequestSound(c, job)

LEMMA InitCalls == Init => CallInvariant
<1>. SUFFICES ASSUME Init PROVE CallInvariant
  OBVIOUS
<1>1. ASSUME NEW k \in Calls PROVE RecordSound(call[k])
  BY DEF Init, NewCall, RecordSound, Answered
<1>2. ASSUME NEW c \in Clients PROVE JobsOf(c) = {}
  BY DEF Init, JobsOf
<1>. QED  BY <1>1, <1>2 DEF Init, CallInvariant

SettledRecord(r) == r.phase \in {"resolved", "rejected"}

LEMMA SettledRecords ==
  /\ \A r : SettledRecord(Finished(r))
  /\ \A why : SettledRecord(Rejected(why))
BY DEF SettledRecord, Finished, Rejected, SettledCall, NewCall

\* A record that has settled meets every condition.
LEMMA SettledIsSound ==
  ASSUME NEW r, SettledRecord(r)
  PROVE  RecordSound(r) /\ RecordSound(r)'
BY DEF SettledRecord, RecordSound, Answered

LEMMA JobsOfType ==
  ASSUME TypeOK, NEW c \in Clients
  PROVE  JobsOf(c) \subseteq Jobs
<1>1. \A i \in DOMAIN syncTail[c] : syncTail[c][i] \in Jobs
  <2>1. syncTail[c] \in Seq(Jobs)
    BY DEF TypeOK
  <2>. QED  BY <2>1, ElementOfSeq, LenProperties
<1>2. \A f \in syncing[c] : f.job \in Jobs
  BY DEF TypeOK, Flights
<1>. QED  BY <1>1, <1>2 DEF JobsOf

\* A record that does not move stays sound, since sequences only grow.
LEMMA RecordStays ==
  ASSUME TypeOK, TypeOK', NEW k \in Calls, RecordSound(call[k]),
         call'[k] = call[k],
         \A e \in Epochs : sequence[e] <= sequence'[e]
  PROVE  RecordSound(call[k])'
<1>1. /\ call[k].epoch \in Epochs
      /\ call[k].wrote \in 0..MaxSequence
  BY DEF TypeOK, CallRecords
<1>2. /\ sequence[call[k].epoch] \in 0..MaxSequence
      /\ sequence'[call[k].epoch] \in 0..MaxSequence
      /\ sequence[call[k].epoch] <= sequence'[call[k].epoch]
  BY <1>1 DEF TypeOK
<1>. QED  BY <1>1, <1>2 DEF RecordSound, Answered

\* Records that stay or settle keep the invariant, if no request is added on
\* behalf of an action.
LEMMA CallsSettleOrStay ==
  ASSUME TypeOK, TypeOK', CallInvariant,
         alive' => authority' > 0,
         \A e \in Epochs : sequence[e] <= sequence'[e],
         \A k \in Calls : call'[k] = call[k] \/ SettledRecord(call'[k]),
         \A c \in Clients : \A job \in JobsOf(c)' :
           job \in JobsOf(c) \/ job.kind # "call"
  PROVE  CallInvariant'
<1>1. ASSUME NEW k \in Calls PROVE RecordSound(call[k])'
  <2>1. CASE SettledRecord(call'[k])
    BY <2>1, SettledIsSound
  <2>2. CASE call'[k] = call[k]
    BY <2>2, RecordStays DEF CallInvariant
  <2>. QED  BY <2>1, <2>2
<1>2. ASSUME NEW c \in Clients, NEW job \in JobsOf(c), job.kind = "call"
      PROVE  RequestSound(c, job)'
  <2>1. job \in Jobs
    BY JobsOfType
  <2>2. job.who \in Calls
    BY <1>2, <2>1 DEF Jobs, JobsFor
  <2>3. RequestSound(c, job)
    BY <1>2 DEF CallInvariant
  <2>4. CASE SettledRecord(call'[job.who])
    BY <2>4 DEF RequestSound, SettledRecord
  <2>5. CASE call'[job.who] = call[job.who]
    BY <2>3, <2>5 DEF RequestSound, Asked
  <2>. QED  BY <2>2, <2>4, <2>5
<1>3. ASSUME NEW c \in Clients, NEW job \in JobsOf(c)'
      PROVE  RequestSound(c, job)'
  <2>1. job \in JobsOf(c) \/ job.kind # "call"
    OBVIOUS
  <2>. QED  BY <1>2, <2>1 DEF RequestSound
<1>. QED  BY <1>1, <1>3 DEF CallInvariant

\* A call that nobody has asked a snapshot for moves on, and may ask for one.
LEMMA CallMoves ==
  ASSUME TypeOK, TypeOK', CallInvariant, UNCHANGED <<authority, alive>>,
         \A e \in Epochs : sequence[e] <= sequence'[e],
         NEW k \in Calls, ~Asked(call[k]), ~SettledRecord(call[k]),
         \A j \in Calls \ {k} : call'[j] = call[j],
         RecordSound(call[k])',
         \A c \in Clients : \A job \in JobsOf(c)' :
           job \in JobsOf(c) \/ RequestSound(c, job)'
  PROVE  CallInvariant'
<1>1. ASSUME NEW j \in Calls PROVE RecordSound(call[j])'
  BY RecordStays DEF CallInvariant
<1>2. ASSUME NEW c \in Clients, NEW job \in JobsOf(c), job.kind = "call"
      PROVE  RequestSound(c, job)'
  <2>1. job \in Jobs
    BY JobsOfType
  <2>2. job.who \in Calls
    BY <1>2, <2>1 DEF Jobs, JobsFor
  <2>3. RequestSound(c, job)
    BY DEF CallInvariant
  <2>4. job.who # k
    BY <1>2, <2>3 DEF RequestSound, SettledRecord
  <2>5. call'[job.who] = call[job.who]
    BY <2>2, <2>4
  <2>. QED  BY <2>3, <2>5 DEF RequestSound, Asked
<1>3. \A c \in Clients : \A job \in JobsOf(c)' : RequestSound(c, job)'
  BY <1>2 DEF RequestSound
<1>. QED  BY <1>1, <1>3 DEF CallInvariant

\* What happens to the requests of a client.
LEMMA EnqueueJobs ==
  ASSUME TypeOK, NEW c \in Clients, NEW job \in Jobs, Enqueue(c, job),
         UNCHANGED syncing
  PROVE  \A d \in Clients : \A j \in JobsOf(d)' :
           j \in JobsOf(d) \/ (d = c /\ j = job)
<1>1. syncTail[c] \in Seq(Jobs) /\ syncTail'[c] = Append(syncTail[c], job)
  BY DEF Enqueue, TypeOK
<1>2. \A i \in DOMAIN syncTail'[c] :
        \/ i \in DOMAIN syncTail[c] /\ syncTail'[c][i] = syncTail[c][i]
        \/ syncTail'[c][i] = job
  <2>1. /\ DOMAIN syncTail'[c] = 1 .. Len(syncTail[c]) + 1
        /\ DOMAIN syncTail[c] = 1 .. Len(syncTail[c])
    BY <1>1
  <2>2. /\ \A i \in 1 .. Len(syncTail[c]) : syncTail'[c][i] = syncTail[c][i]
        /\ syncTail'[c][Len(syncTail[c]) + 1] = job
    BY <1>1, AppendProperties
  <2>. QED  BY <1>1, <2>1, <2>2, LenProperties
<1>3. \A d \in Clients \ {c} : syncTail'[d] = syncTail[d]
  BY DEF Enqueue, TypeOK
<1>4. ASSUME NEW j \in JobsOf(c)' PROVE j \in JobsOf(c) \/ j = job
  BY <1>2 DEF JobsOf
<1>5. \A d \in Clients \ {c} : JobsOf(d)' = JobsOf(d)
  BY <1>3 DEF JobsOf
<1>. QED  BY <1>4, <1>5

LEMMA TailJobs ==
  ASSUME TypeOK, NEW c \in Clients, CanStart(c),
         syncTail' = [syncTail EXCEPT ![c] = Tail(@)]
  PROVE  /\ Head(syncTail[c]) \in JobsOf(c)
         /\ \A i \in DOMAIN syncTail'[c] : syncTail'[c][i] \in JobsOf(c)
         /\ \A d \in Clients \ {c} : syncTail'[d] = syncTail[d]
<1>1. syncTail[c] \in Seq(Jobs) /\ syncTail[c] # <<>>
  BY DEF TypeOK, CanStart
<1>2. Head(syncTail[c]) = syncTail[c][1] /\ 1 \in DOMAIN syncTail[c]
  BY <1>1
<1>3. syncTail'[c] = Tail(syncTail[c])
  BY DEF TypeOK
<1>4. \A i \in DOMAIN Tail(syncTail[c]) :
        i + 1 \in DOMAIN syncTail[c] /\ Tail(syncTail[c])[i] = syncTail[c][i + 1]
  BY <1>1
<1>. QED  BY <1>2, <1>3, <1>4 DEF JobsOf, TypeOK

LEMMA SequenceStays ==
  ASSUME TypeOK, UNCHANGED sequence
  PROVE  \A e \in Epochs : sequence[e] <= sequence'[e]
BY DEF TypeOK

LEMMA EmitGrows ==
  ASSUME TypeOK, Emit
  PROVE  \A e \in Epochs : sequence[e] <= sequence'[e]
BY DEF TypeOK, Emit, NextSequence

\* The authority and what it does for a call.
LEMMA ExecuteCalls ==
  ASSUME TypeOK, TypeOK', CallInvariant, NEW k \in Calls,
         \/ ExecuteBegin(k) \/ ExecuteWrite(k)
         \/ ExecuteEnd(k) \/ ExecuteRefuse(k)
  PROVE  CallInvariant'
<1>1. /\ call[k] \in CallRecords
      /\ RecordSound(call[k])
      /\ authority \in Epochs
      /\ \A e \in Epochs : sequence[e] \in 0..MaxSequence
  BY DEF TypeOK, CallInvariant
<1>2. /\ UNCHANGED <<authority, alive, syncTail, syncing>>
      /\ ~Asked(call[k]) /\ ~SettledRecord(call[k])
      /\ \A j \in Calls \ {k} : call'[j] = call[j]
  BY DEF ExecuteBegin, ExecuteWrite, ExecuteEnd, ExecuteRefuse, Emit, Answer,
         TypeOK, authorityVars, syncVars, Asked, SettledRecord
<1>3. \A c \in Clients : JobsOf(c)' = JobsOf(c)
  BY <1>2 DEF JobsOf
<1>4. \A e \in Epochs : sequence[e] <= sequence'[e]
  BY SequenceStays, EmitGrows DEF ExecuteBegin, ExecuteWrite, ExecuteEnd,
     ExecuteRefuse, authorityVars
<1>5. alive => authority > 0
  BY DEF CallInvariant
<1>6. RecordSound(call[k])'
  <2>1. CASE ExecuteBegin(k)
    <3>1. call'[k] = [call[k] EXCEPT !.phase = "running", !.epoch = authority]
      BY <2>1 DEF ExecuteBegin, TypeOK
    <3>2. call'[k].phase = "running" /\ call'[k].epoch = authority
          /\ call'[k].wrote = call[k].wrote
      BY <1>1, <3>1 DEF CallRecords
    <3>3. call[k].wrote = 0 /\ alive /\ sequence' = sequence
      BY <1>1, <2>1 DEF ExecuteBegin, RecordSound, authorityVars
    <3>. QED  BY <1>1, <1>5, <3>2, <3>3 DEF RecordSound, Answered
  <2>2. CASE ExecuteWrite(k)
    <3>1. call'[k] = [call[k] EXCEPT !.wrote = NextSequence]
      BY <2>2 DEF ExecuteWrite, TypeOK
    <3>2. call'[k].phase = "running" /\ call'[k].epoch = authority
          /\ call'[k].wrote = NextSequence
      BY <1>1, <2>2, <3>1 DEF CallRecords, ExecuteWrite
    <3>3. sequence'[authority] = NextSequence
      BY <2>2 DEF ExecuteWrite, Emit, TypeOK
    <3>4. alive /\ NextSequence \in Nat
      BY <1>1, <2>2 DEF ExecuteWrite, Emit, NextSequence
    <3>. QED  BY <1>5, <3>2, <3>3, <3>4 DEF RecordSound, Answered
  <2>3. ASSUME NEW e \in Epochs, NEW ok \in BOOLEAN, Answer(k, e, ok),
               e > 0, call[k].wrote <= sequence[e], UNCHANGED sequence
        PROVE  RecordSound(call[k])'
    <3>1. call'[k] = [call[k] EXCEPT !.phase = "answered", !.epoch = e,
                                     !.seq = sequence[e], !.ok = ok]
      BY <2>3 DEF Answer, TypeOK
    <3>2. call'[k].phase = "answered" /\ call'[k].epoch = e
          /\ call'[k].wrote = call[k].wrote /\ call'[k].seq = sequence[e]
      BY <1>1, <3>1 DEF CallRecords
    <3>. QED  BY <2>3, <3>2 DEF RecordSound, Answered
  <2>4. CASE ExecuteEnd(k)
    <3>1. PICK ok \in BOOLEAN : Answer(k, call[k].epoch, ok)
      BY <2>4 DEF ExecuteEnd
    <3>2. /\ call[k].epoch \in Epochs /\ call[k].epoch > 0
          /\ call[k].wrote <= sequence[call[k].epoch]
          /\ UNCHANGED sequence
      BY <1>1, <2>4 DEF ExecuteEnd, RecordSound, CallRecords, authorityVars
    <3>. QED  BY <2>3, <3>1, <3>2
  <2>5. CASE ExecuteRefuse(k)
    <3>1. /\ Answer(k, authority, FALSE) /\ UNCHANGED sequence
          /\ alive /\ call[k].wrote = 0
      BY <1>1, <2>5 DEF ExecuteRefuse, RecordSound, authorityVars
    <3>2. 0 <= sequence[authority]
      BY <1>1
    <3>. QED  BY <1>1, <1>5, <2>3, <3>1, <3>2
  <2>. QED  BY <2>1, <2>2, <2>4, <2>5
<1>. QED  BY <1>2, <1>3, <1>4, <1>6, CallMoves

LEMMA AuthorityCalls ==
  ASSUME TypeOK, TypeOK', CallInvariant, StartAuthority \/ StopAuthority \/ Write
  PROVE  CallInvariant'
<1>1. UNCHANGED <<syncTail, syncing, call>>
  BY DEF StartAuthority, StopAuthority, Write, syncVars
<1>2. \A c \in Clients : JobsOf(c)' = JobsOf(c)
  BY <1>1 DEF JobsOf
<1>3. \A e \in Epochs : sequence[e] <= sequence'[e]
  BY SequenceStays, EmitGrows DEF StartAuthority, StopAuthority, Write
<1>4. alive' => authority' > 0
  <2>1. CASE StartAuthority
    BY <2>1 DEF StartAuthority, TypeOK, Epochs
  <2>2. CASE StopAuthority
    BY <2>2 DEF StopAuthority
  <2>3. CASE Write
    BY <2>3 DEF Write, CallInvariant
  <2>. QED  BY <2>1, <2>2, <2>3
<1>. QED  BY <1>1, <1>2, <1>3, <1>4, CallsSettleOrStay

\* Whatever settles promises or works off requests.
LEMMA ClientCalls ==
  ASSUME TypeOK, TypeOK', CallInvariant, UNCHANGED authorityVars,
         \A k \in Calls : call'[k] = call[k] \/ SettledRecord(call'[k]),
         \A c \in Clients : \A job \in JobsOf(c)' :
           job \in JobsOf(c) \/ job.kind # "call"
  PROVE  CallInvariant'
<1>1. \A e \in Epochs : sequence[e] <= sequence'[e]
  BY SequenceStays DEF authorityVars
<1>2. alive' => authority' > 0
  BY DEF CallInvariant, authorityVars
<1>. QED  BY <1>1, <1>2, CallsSettleOrStay

LEMMA SettleCalls ==
  ASSUME TypeOK, NEW c, NEW job, NEW ok, NEW e, NEW s,
         \/ Settle(c, job, ok, call)
         \/ Settle(c, job, ok, Notified(c, e, s))
         \/ call' = Notified(c, e, s)
  PROVE  \A k \in Calls : call'[k] = call[k] \/ SettledRecord(call'[k])
<1>1. \A k \in Calls : \/ Notified(c, e, s)[k] = call[k]
                       \/ SettledRecord(Notified(c, e, s)[k])
  BY SettledRecords DEF Notified
<1>2. ASSUME NEW calls, NEW k \in Calls
      PROVE  \/ Awaited(job, ok, calls)[k] = calls[k]
             \/ SettledRecord(Awaited(job, ok, calls)[k])
  BY SettledRecords DEF Awaited
<1>. QED  BY <1>1, <1>2 DEF Settle

LEMMA SyncCalls ==
  ASSUME TypeOK, TypeOK', CallInvariant, NEW c \in Clients,
         \/ StartSync(c) \/ SkipSync(c)
         \/ \E f \in syncing[c] : AnswerSync(c, f) \/ FailSync(c, f)
                                  \/ FinishSync(c, f)
  PROVE  CallInvariant'
<1>1. CASE StartSync(c)
  <2>. DEFINE g == [job |-> Head(syncTail[c]), answered |-> FALSE,
                    epoch |-> 0, seq |-> 0]
  <2>1. /\ CanStart(c)
        /\ syncTail' = [syncTail EXCEPT ![c] = Tail(@)]
        /\ syncing' = [syncing EXCEPT ![c] = @ \cup {g}]
        /\ UNCHANGED <<authorityVars, call>>
    BY <1>1 DEF StartSync
  <2>2. g.job = Head(syncTail[c])
    OBVIOUS
  <2>. HIDE DEF g
  <2>3. syncing'[c] = syncing[c] \cup {g}
        /\ \A d \in Clients \ {c} : syncing'[d] = syncing[d]
    BY <2>1 DEF TypeOK
  <2>6. /\ \A i \in DOMAIN syncTail'[c] : syncTail'[c][i] \in JobsOf(c)
        /\ g.job \in JobsOf(c)
    BY <2>1, <2>2, TailJobs
  <2>4. ASSUME NEW job \in JobsOf(c)' PROVE job \in JobsOf(c)
    <3>1. \/ \E i \in DOMAIN syncTail'[c] : job = syncTail'[c][i]
          \/ \E f \in syncing'[c] : job = f.job
      BY DEF JobsOf
    <3>2. \A f \in syncing[c] : f.job \in JobsOf(c)
      BY DEF JobsOf
    <3>. QED  BY <2>3, <2>6, <3>1, <3>2
  <2>5. \A d \in Clients \ {c} : JobsOf(d)' = JobsOf(d)
    BY <2>1, <2>3, TailJobs DEF JobsOf
  <2>. QED  BY <2>1, <2>4, <2>5, ClientCalls
<1>2. CASE SkipSync(c)
  <2>1. /\ CanStart(c)
        /\ syncTail' = [syncTail EXCEPT ![c] = Tail(@)]
        /\ UNCHANGED <<authorityVars, syncing>>
        /\ \A k \in Calls : call'[k] = call[k] \/ SettledRecord(call'[k])
    BY <1>2, SettleCalls DEF SkipSync, Settle
  <2>4. /\ \A i \in DOMAIN syncTail'[c] : syncTail'[c][i] \in JobsOf(c)
        /\ \A f \in syncing'[c] : f.job \in JobsOf(c)
    <3>1. \A i \in DOMAIN syncTail'[c] : syncTail'[c][i] \in JobsOf(c)
      BY <2>1, TailJobs
    <3>. QED  BY <2>1, <3>1 DEF JobsOf
  <2>2. ASSUME NEW job \in JobsOf(c)' PROVE job \in JobsOf(c)
    <3>1. \/ \E i \in DOMAIN syncTail'[c] : job = syncTail'[c][i]
          \/ \E f \in syncing'[c] : job = f.job
      BY DEF JobsOf
    <3>. QED  BY <2>4, <3>1
  <2>3. \A d \in Clients \ {c} : JobsOf(d)' = JobsOf(d)
    BY <2>1, TailJobs DEF JobsOf
  <2>. QED  BY <2>1, <2>2, <2>3, ClientCalls
<1>3. ASSUME NEW f \in syncing[c], AnswerSync(c, f) PROVE CallInvariant'
  <2>1. PICK g : /\ g = [f EXCEPT !.answered = TRUE, !.epoch = authority,
                                   !.seq = sequence[authority]]
                 /\ syncing' = [syncing EXCEPT ![c] = (@ \ {f}) \cup {g}]
                 /\ UNCHANGED <<authorityVars, syncTail, call>>
    BY <1>3 DEF AnswerSync
  <2>2. g.job = f.job
    BY <2>1 DEF TypeOK, Flights
  <2>3. syncing'[c] = (syncing[c] \ {f}) \cup {g}
        /\ \A d \in Clients \ {c} : syncing'[d] = syncing[d]
    BY <2>1 DEF TypeOK
  <2>4. \A d \in Clients : JobsOf(d)' \subseteq JobsOf(d)
    BY <2>1, <2>2, <2>3 DEF JobsOf
  <2>. QED  BY <2>1, <2>4, ClientCalls
<1>4. ASSUME NEW f \in syncing[c], FailSync(c, f) \/ FinishSync(c, f)
      PROVE  CallInvariant'
  <2>1. /\ syncing' = [syncing EXCEPT ![c] = @ \ {f}]
        /\ UNCHANGED <<authorityVars, syncTail>>
    BY <1>4 DEF FailSync, FinishSync, Settle
  <2>2. \A k \in Calls : call'[k] = call[k] \/ SettledRecord(call'[k])
    BY <1>4, SettleCalls DEF FailSync, FinishSync
  <2>3. \A d \in Clients : syncing'[d] \subseteq syncing[d]
    BY <2>1 DEF TypeOK
  <2>4. \A d \in Clients : JobsOf(d)' \subseteq JobsOf(d)
    BY <2>1, <2>3 DEF JobsOf
  <2>. QED  BY <2>1, <2>2, <2>4, ClientCalls
<1>. QED  BY <1>1, <1>2, <1>3, <1>4

LEMMA HandlerCalls ==
  ASSUME TypeOK, TypeOK', CallInvariant, NEW c \in Clients, NEW h \in handling[c],
         HandlerNext(c, h)
  PROVE  CallInvariant'
<1>1. h \in Handlers /\ h.gen \in Nat /\ h.update \in Updates
  BY DEF TypeOK, Handlers
<1>2. connectGeneration[c] \in Nat
  BY DEF TypeOK
<1>3. /\ UNCHANGED <<authorityVars, syncing>>
      /\ \A k \in Calls : call'[k] = call[k] \/ SettledRecord(call'[k])
  <2>1. CASE ApplyUpdate(c, h)
    <3>1. /\ UNCHANGED <<authorityVars, syncing>>
          /\ call' = Notified(c, h.update.epoch, h.update.seq)
      BY <2>1 DEF ApplyUpdate, syncVars
    <3>. QED  BY <3>1, SettleCalls
  <2>2. CASE DropUpdate(c, h) \/ SyncEpoch(c, h) \/ MismatchedEpoch(c, h)
             \/ SyncGap(c, h) \/ Recover(c, h)
    BY <2>2 DEF DropUpdate, SyncEpoch, MismatchedEpoch, SyncGap, Recover, syncVars
  <2>. QED  BY <2>1, <2>2 DEF HandlerNext
<1>4. \/ UNCHANGED syncTail
      \/ \E job \in Jobs : job.kind # "call" /\ Enqueue(c, job)
  <2>1. CASE SyncEpoch(c, h)
    BY <1>1, <2>1, JobType DEF SyncEpoch, Job
  <2>2. CASE SyncGap(c, h)
    BY <1>1, <2>2, JobType DEF SyncGap, Job
  <2>3. CASE Recover(c, h)
    BY <1>2, <2>3, JobType DEF Recover, Job
  <2>4. CASE DropUpdate(c, h) \/ MismatchedEpoch(c, h) \/ ApplyUpdate(c, h)
    BY <2>4 DEF DropUpdate, MismatchedEpoch, ApplyUpdate, syncVars
  <2>. QED  BY <2>1, <2>2, <2>3, <2>4 DEF HandlerNext
<1>5. \A d \in Clients : \A j \in JobsOf(d)' : j \in JobsOf(d) \/ j.kind # "call"
  <2>1. CASE UNCHANGED syncTail
    BY <1>3, <2>1 DEF JobsOf
  <2>2. ASSUME NEW job \in Jobs, job.kind # "call", Enqueue(c, job)
        PROVE  \A d \in Clients : \A j \in JobsOf(d)' :
                 j \in JobsOf(d) \/ j.kind # "call"
    BY <1>3, <2>2, EnqueueJobs
  <2>. QED  BY <1>4, <2>1, <2>2
<1>. QED  BY <1>3, <1>5, ClientCalls

\* An action asks for the snapshot its answer needs.
LEMMA CallSyncCalls ==
  ASSUME TypeOK, TypeOK', CallInvariant, NEW c \in Clients, NEW k \in Calls,
         UNCHANGED <<authorityVars, syncing>>, CallSync(c, k),
         call[k].client = c, call[k].phase \in {"answered", "waiting"},
         NEW phase \in {"syncing", "timedOut"},
         call' = [call EXCEPT ![k].phase = phase]
  PROVE  CallInvariant'
<1>1. call[k] \in CallRecords /\ RecordSound(call[k])
  BY DEF TypeOK, CallInvariant
<1>2. /\ call'[k] = [call[k] EXCEPT !.phase = phase]
      /\ \A j \in Calls \ {k} : call'[j] = call[j]
  BY DEF TypeOK
<1>3. /\ call'[k].phase = phase
      /\ call'[k].client = c
      /\ call'[k].epoch = call[k].epoch
      /\ call'[k].seq = call[k].seq
      /\ call'[k].wrote = call[k].wrote
  BY <1>1, <1>2 DEF CallRecords
<1>4. RecordSound(call[k])'
  BY <1>1, <1>3 DEF RecordSound, Answered
<1>5. PICK job \in Jobs :
        /\ job = Job("call", connectGeneration[c], call[k].epoch, call[k].seq, k)
        /\ Enqueue(c, job)
  <2>1. /\ connectGeneration[c] \in Nat
        /\ call[k].epoch \in Epochs
        /\ call[k].seq \in 0..MaxSequence
    BY <1>1 DEF TypeOK, CallRecords
  <2>. QED  BY <2>1, JobType DEF CallSync
<1>6. job.who = k /\ job.expect = call[k].epoch /\ job.min = call[k].seq
  BY <1>5 DEF Job
<1>7. RequestSound(c, job)'
  BY <1>3, <1>6 DEF RequestSound, Asked
<1>8. \A d \in Clients : \A j \in JobsOf(d)' : j \in JobsOf(d) \/ RequestSound(d, j)'
  BY <1>5, <1>7, EnqueueJobs
<1>9. ~Asked(call[k]) /\ ~SettledRecord(call[k])
  BY DEF Asked, SettledRecord
<1>10. /\ UNCHANGED <<authority, alive>>
       /\ \A e \in Epochs : sequence[e] <= sequence'[e]
  BY SequenceStays DEF authorityVars
<1>. QED  BY <1>2, <1>4, <1>8, <1>9, <1>10, CallMoves

LEMMA ReceiveCalls ==
  ASSUME TypeOK, TypeOK', CallInvariant, NEW c \in Clients, NEW k \in Calls,
         ReceiveNext(c, k) \/ WaitTimeout(c, k) \/ CallAction(c, k)
  PROVE  CallInvariant'
<1>1. UNCHANGED <<authorityVars, syncing>>
  BY DEF ReceiveNext, ReceiveChanged, ReceiveForeign, ReceiveLocal, WaitTimeout,
         CallAction, syncVars
<1>2. call[k] \in CallRecords /\ RecordSound(call[k])
  BY DEF TypeOK, CallInvariant
<1>3. CASE ReceiveForeign(c, k) \/ WaitTimeout(c, k)
  BY <1>1, <1>3, CallSyncCalls DEF ReceiveForeign, WaitTimeout
<1>4. ASSUME UNCHANGED syncTail,
             \A j \in Calls : call'[j] = call[j] \/ SettledRecord(call'[j])
      PROVE  CallInvariant'
  <2>1. \A d \in Clients : JobsOf(d)' = JobsOf(d)
    BY <1>1, <1>4 DEF JobsOf
  <2>. QED  BY <1>1, <1>4, <2>1, ClientCalls
<1>5. CASE ReceiveChanged(c, k)
  <2>1. \A j \in Calls : call'[j] = call[j] \/ SettledRecord(call'[j])
    BY <1>5, SettledRecords DEF ReceiveChanged, TypeOK
  <2>. QED  BY <1>4, <1>5, <2>1 DEF ReceiveChanged, syncVars
<1>6. ASSUME UNCHANGED syncTail, ~Asked(call[k]), ~SettledRecord(call[k]),
             \A j \in Calls \ {k} : call'[j] = call[j],
             RecordSound(call[k])'
      PROVE  CallInvariant'
  <2>1. \A d \in Clients : JobsOf(d)' = JobsOf(d)
    BY <1>1, <1>6 DEF JobsOf
  <2>2. /\ UNCHANGED <<authority, alive>>
        /\ \A e \in Epochs : sequence[e] <= sequence'[e]
    BY <1>1, SequenceStays DEF authorityVars
  <2>. QED  BY <1>6, <2>1, <2>2, CallMoves
<1>7. CASE ReceiveLocal(c, k)
  <2>1. CASE call[k].seq > mirror[c].seq
    <3>1. /\ call' = [call EXCEPT ![k] = [call[k] EXCEPT !.phase = "waiting"]]
          /\ call[k].phase = "answered"
      BY <1>7, <2>1 DEF ReceiveLocal
    <3>2. /\ call'[k] = [call[k] EXCEPT !.phase = "waiting"]
          /\ \A j \in Calls \ {k} : call'[j] = call[j]
      BY <3>1 DEF TypeOK
    <3>3. /\ call'[k].phase = "waiting"
          /\ call'[k].epoch = call[k].epoch
          /\ call'[k].seq = call[k].seq
          /\ call'[k].wrote = call[k].wrote
      BY <1>2, <3>2 DEF CallRecords
    <3>4. RecordSound(call[k])'
      BY <1>2, <3>1, <3>3 DEF RecordSound, Answered
    <3>. QED  BY <1>6, <1>7, <3>1, <3>2, <3>4 DEF ReceiveLocal, syncVars, Asked,
                                                 SettledRecord
  <2>2. CASE ~(call[k].seq > mirror[c].seq)
    <3>1. call' = [call EXCEPT ![k] = Finished(call[k])]
      BY <1>7, <2>2 DEF ReceiveLocal
    <3>2. \A j \in Calls : call'[j] = call[j] \/ SettledRecord(call'[j])
      BY <3>1, SettledRecords DEF TypeOK
    <3>. QED  BY <1>4, <1>7, <3>2 DEF ReceiveLocal, syncVars
  <2>. QED  BY <2>1, <2>2
<1>8. CASE CallAction(c, k)
  <2>1. call'[k] = [call[k] EXCEPT !.phase = "sent", !.client = c,
                                   !.requestEpoch = mirror[c].epoch]
        /\ \A j \in Calls \ {k} : call'[j] = call[j]
    BY <1>8 DEF CallAction, TypeOK
  <2>2. call'[k].phase = "sent" /\ call'[k].wrote = call[k].wrote
    BY <1>2, <2>1 DEF CallRecords
  <2>3. RecordSound(call[k])'
    BY <1>2, <1>8, <2>2 DEF CallAction, RecordSound, Answered
  <2>. QED  BY <1>6, <1>8, <2>1, <2>3 DEF CallAction, syncVars, Asked, SettledRecord
<1>. QED  BY <1>3, <1>5, <1>7, <1>8 DEF ReceiveNext

LEMMA UserCalls ==
  ASSUME TypeOK, TypeOK', CallInvariant, NEW c \in Clients,
         \/ Connect(c) \/ Destroy(c)
         \/ \E e \in 1..authority : \E s \in 1..sequence[e] : Deliver(c, e, s)
  PROVE  CallInvariant'
<1>1. CASE Connect(c)
  <2>1. connectGeneration[c] + 1 \in Nat
    BY DEF TypeOK
  <2>2. PICK job \in Jobs : job.kind # "call" /\ Enqueue(c, job)
    BY <1>1, <2>1, JobType DEF Connect, Job
  <2>3. UNCHANGED <<authorityVars, syncing, call>>
    BY <1>1 DEF Connect
  <2>4. \A d \in Clients : \A j \in JobsOf(d)' : j \in JobsOf(d) \/ j.kind # "call"
    BY <2>2, <2>3, EnqueueJobs
  <2>. QED  BY <2>3, <2>4, ClientCalls
<1>2. CASE Destroy(c)
  <2>1. /\ UNCHANGED authorityVars
        /\ syncTail'[c] = <<>> /\ syncing'[c] = {}
        /\ \A d \in Clients \ {c} : /\ syncing'[d] = syncing[d]
                                    /\ syncTail'[d] = syncTail[d]
    BY <1>2 DEF Destroy, TypeOK
  <2>2. JobsOf(c)' = {}
    BY <2>1 DEF JobsOf
  <2>3. \A d \in Clients \ {c} : JobsOf(d)' = JobsOf(d)
    BY <2>1 DEF JobsOf
  <2>4. \A k \in Calls : call'[k] = call[k] \/ SettledRecord(call'[k])
    BY <1>2, SettledRecords DEF Destroy
  <2>. QED  BY <2>1, <2>2, <2>3, <2>4, ClientCalls
<1>3. CASE \E e \in 1..authority : \E s \in 1..sequence[e] : Deliver(c, e, s)
  <2>1. UNCHANGED <<authorityVars, syncTail, syncing, call>>
    BY <1>3 DEF Deliver, syncVars
  <2>2. \A d \in Clients : JobsOf(d)' = JobsOf(d)
    BY <2>1 DEF JobsOf
  <2>. QED  BY <2>1, <2>2, ClientCalls
<1>. QED  BY <1>1, <1>2, <1>3

LEMMA CallStep ==
  ASSUME TypeOK, TypeOK', CallInvariant, [Next]_vars
  PROVE  CallInvariant'
<1>1. ASSUME NEW k \in Calls, LoseCall(k) PROVE CallInvariant'
  <2>1. /\ UNCHANGED <<authorityVars, syncTail, syncing>>
        /\ \A j \in Calls : call'[j] = call[j] \/ SettledRecord(call'[j])
    BY <1>1, SettledRecords DEF LoseCall, TypeOK, syncVars
  <2>2. \A d \in Clients : JobsOf(d)' = JobsOf(d)
    BY <2>1 DEF JobsOf
  <2>. QED  BY <2>1, <2>2, ClientCalls
<1>2. CASE AuthorityNext
  BY <1>1, <1>2, AuthorityCalls, ExecuteCalls, SyncCalls DEF AuthorityNext
<1>3. ASSUME NEW c \in Clients, ClientNext(c) PROVE CallInvariant'
  BY <1>3, SyncCalls, HandlerCalls, ReceiveCalls DEF ClientNext
<1>4. ASSUME NEW c \in Clients, UserNext(c) PROVE CallInvariant'
  BY <1>4, UserCalls, ReceiveCalls DEF UserNext
<1>5. CASE UNCHANGED vars
  <2>1. UNCHANGED <<authorityVars, syncTail, syncing, call>>
    BY <1>5 DEF vars, syncVars
  <2>2. \A d \in Clients : JobsOf(d)' = JobsOf(d)
    BY <2>1 DEF JobsOf
  <2>. QED  BY <2>1, <2>2, ClientCalls
<1>. QED  BY <1>2, <1>3, <1>4, <1>5 DEF Next

\* An action's promise resolves as ResolvesCaughtUp says.
CaughtUp(k) ==
  LET c == call[k].client IN
    \/ SeesItsWrites(k, mirror'[c])
    \/ \E job \in JobsOf(c) : job.who = k /\ Superseded(c, job)

\* The subscribers' notification resolves what has been reached, and a request
\* resolves what it was made for.
LEMMA NotifiedResolves ==
  ASSUME NEW c, NEW e, NEW s, NEW k \in Calls,
         Notified(c, e, s)[k].phase = "resolved", call[k].phase # "resolved"
  PROVE  Waiting(call[k], c) /\ Reached(call[k], e, s)
BY DEF Notified

LEMMA AwaitedResolves ==
  ASSUME NEW job, NEW ok, NEW calls, NEW k \in Calls,
         call' = Awaited(job, ok, calls), calls[k] = call[k], Resolves(k)
  PROVE  ok /\ job.kind = "call" /\ job.who = k /\ Asked(call[k])
<1>1. /\ call'[k] = Awaited(job, ok, calls)[k]
      /\ call'[k].phase = "resolved" /\ call[k].phase # "resolved"
  BY DEF Resolves
<1>2. job.kind = "call" /\ job.who = k /\ Asked(calls[k])
  BY <1>1 DEF Awaited, Asked
<1>3. ~ok => Awaited(job, ok, calls)[k] = Rejected("sync")
  BY <1>2 DEF Awaited, Asked
<1>4. Rejected("sync").phase # "resolved"
  BY DEF Rejected, SettledCall, NewCall
<1>. QED  BY <1>1, <1>2, <1>3, <1>4

LEMMA ReachedSees ==
  ASSUME TypeOK, CallInvariant, NEW k \in Calls, NEW c \in Clients,
         Answered(call[k]), call[k].client = c,
         mirror'[c].epoch = call[k].epoch, mirror'[c].seq \in Nat,
         mirror'[c].seq >= call[k].seq
  PROVE  CaughtUp(k)
<1>1. /\ call[k].wrote \in Nat /\ call[k].seq \in Nat
      /\ call[k].wrote <= call[k].seq
  BY DEF TypeOK, CallRecords, CallInvariant, RecordSound
<1>. QED  BY <1>1 DEF CaughtUp, SeesItsWrites

LEMMA ApplyUpdateResolves ==
  ASSUME NoThrow, TypeOK, CallInvariant, NEW c \in Clients, NEW h \in handling[c],
         ApplyUpdate(c, h), NEW k \in Calls, Resolves(k)
  PROVE  CaughtUp(k)
<1>1. PICK state : /\ mirror' = [mirror EXCEPT ![c] =
                        [epoch |-> h.update.epoch, seq |-> h.update.seq,
                         state |-> state]]
                   /\ call' = Notified(c, h.update.epoch, h.update.seq)
  BY DEF ApplyUpdate, NoThrow, Throws, Installed
<1>2. Waiting(call[k], c) /\ Reached(call[k], h.update.epoch, h.update.seq)
  BY <1>1, NotifiedResolves DEF Resolves
<1>3. /\ mirror'[c].epoch = h.update.epoch
      /\ mirror'[c].seq = h.update.seq
      /\ h.update.seq \in Nat
  BY <1>1 DEF TypeOK, Handlers, Updates
<1>. QED  BY <1>2, <1>3, ReachedSees DEF Waiting, Reached, Answered

LEMMA RequestResolves ==
  ASSUME CallInvariant, NEW c \in Clients, NEW job \in JobsOf(c),
         job.kind = "call", NEW k \in Calls, job.who = k, Asked(call[k])
  PROVE  call[k].client = c /\ job.expect = call[k].epoch /\ job.min = call[k].seq
BY DEF CallInvariant, RequestSound, Asked

LEMMA SkipSyncResolves ==
  ASSUME NoThrow, TypeOK, CallInvariant, NEW c \in Clients, SkipSync(c),
         NEW k \in Calls, Resolves(k)
  PROVE  CaughtUp(k)
<1>1. PICK job : /\ job = Head(syncTail[c])
                 /\ Superseded(c, job)
                 /\ call' = Awaited(job, TRUE, call)
  BY DEF SkipSync, Settle
<1>2. job \in JobsOf(c)
  BY <1>1, TailJobs DEF SkipSync
<1>3. job.kind = "call" /\ job.who = k /\ Asked(call[k])
  BY <1>1, AwaitedResolves
<1>4. call[k].client = c
  BY <1>2, <1>3, RequestResolves
<1>. QED  BY <1>1, <1>2, <1>3, <1>4 DEF CaughtUp

LEMMA FinishSyncResolves ==
  ASSUME NoThrow, TypeOK, CallInvariant, NEW c \in Clients, NEW f \in syncing[c],
         FinishSync(c, f), NEW k \in Calls, Resolves(k)
  PROVE  CaughtUp(k)
<1>0. PICK job : job = f.job
  OBVIOUS
<1>1. /\ f \in Flights /\ f.job \in Jobs /\ f.job \in JobsOf(c)
      /\ f.epoch \in Epochs /\ f.seq \in Nat
      /\ f.job.expect \in Epochs /\ f.job.min \in Nat
      /\ mirror[c].seq \in Nat
  <2>1. f \in Flights /\ f.job \in JobsOf(c) /\ mirror[c].seq \in Nat
    BY DEF TypeOK, JobsOf, Mirrors
  <2>2. f.job \in Jobs /\ f.epoch \in Epochs /\ f.seq \in Nat
    BY <2>1 DEF Flights
  <2>3. f.job.expect \in Epochs /\ f.job.min \in Nat
    BY <2>2 DEF Jobs, JobsFor
  <2>. QED  BY <2>1, <2>2, <2>3
<1>2. ASSUME Asked(call[k]), f.job.kind = "call", f.job.who = k
      PROVE  /\ call[k].client = c
             /\ f.job.expect = call[k].epoch
             /\ f.job.min = call[k].seq
             /\ call[k].epoch > 0
             /\ Answered(call[k])
  BY <1>1, <1>2, RequestResolves DEF CallInvariant, RecordSound, Asked, Answered
<1>3. CASE Superseded(c, f.job) /\ call' = Awaited(job, TRUE, call)
  <2>1. job.kind = "call" /\ job.who = k /\ Asked(call[k])
    BY <1>3, AwaitedResolves
  <2>. QED  BY <1>0, <1>1, <1>2, <1>3, <2>1 DEF CaughtUp
<1>4. CASE call' = Awaited(job, FALSE, call)
  BY <1>4, AwaitedResolves
<1>5. ASSUME ~Refuses(c, f), Asked(call[k]), f.job.kind = "call", f.job.who = k
      PROVE  f.epoch = call[k].epoch /\ f.seq >= call[k].seq
  BY <1>1, <1>2, <1>5 DEF Refuses, Epochs
<1>6. CASE /\ ~Refuses(c, f) /\ Ignores(c, f)
           /\ UNCHANGED mirror
           /\ call' = Awaited(job, TRUE, call)
  <2>1. job.kind = "call" /\ job.who = k /\ Asked(call[k])
    BY <1>6, AwaitedResolves
  <2>2. f.epoch = call[k].epoch /\ f.seq >= call[k].seq
    BY <1>0, <1>5, <1>6, <2>1
  <2>3. mirror'[c].epoch = f.epoch /\ mirror'[c].seq > f.seq /\ mirror'[c].seq \in Nat
    BY <1>1, <1>6 DEF Ignores
  <2>4. call[k].seq \in Nat
    BY DEF TypeOK, CallRecords
  <2>5. mirror'[c].seq >= call[k].seq
    BY <1>1, <2>2, <2>3, <2>4
  <2>. QED  BY <1>0, <1>2, <2>1, <2>2, <2>3, <2>5, ReachedSees
<1>7. CASE /\ ~Refuses(c, f)
           /\ mirror' = [mirror EXCEPT ![c] =
                [epoch |-> f.epoch, seq |-> f.seq,
                 state |-> StateAt(f.epoch, f.seq)]]
           /\ call' = Awaited(job, TRUE, Notified(c, f.epoch, f.seq))
  <2>. DEFINE calls == Notified(c, f.epoch, f.seq)
  <2>1. mirror'[c].epoch = f.epoch /\ mirror'[c].seq = f.seq
    BY <1>7 DEF TypeOK
  <2>2. CASE Waiting(call[k], c) /\ Reached(call[k], f.epoch, f.seq)
    BY <1>1, <2>1, <2>2, ReachedSees DEF Waiting, Reached, Answered
  <2>3. CASE ~(Waiting(call[k], c) /\ Reached(call[k], f.epoch, f.seq))
    <3>1. calls[k] = call[k]
      BY <2>3 DEF Notified
    <3>2. job.kind = "call" /\ job.who = k /\ Asked(call[k])
      BY <1>7, <3>1, AwaitedResolves
    <3>3. f.epoch = call[k].epoch /\ f.seq >= call[k].seq
      BY <1>0, <1>5, <1>7, <3>2
    <3>. QED  BY <1>0, <1>1, <1>2, <2>1, <3>2, <3>3, ReachedSees
  <2>. QED  BY <2>2, <2>3
<1>. QED
  BY <1>0, <1>3, <1>4, <1>6, <1>7 DEF FinishSync, Settle, NoThrow, Throws, Installed

\* Nothing else resolves a promise, but the arrival of an answer.
LEMMA OthersResolveNone ==
  ASSUME TypeOK, NEW k \in Calls, Resolves(k), Next
  PROVE  \E c \in Clients :
           \/ SkipSync(c)
           \/ \E f \in syncing[c] : FinishSync(c, f)
           \/ \E h \in handling[c] : ApplyUpdate(c, h)
           \/ ReceiveLocal(c, k)
<1>1. call \in [Calls -> CallRecords] /\ call[k] \in CallRecords
  BY DEF TypeOK
<1>2. \A why : Rejected(why).phase # "resolved"
  BY DEF Rejected, SettledCall, NewCall
<1>3. ~UNCHANGED call
  BY DEF Resolves
<1>4. ~(StartAuthority \/ StopAuthority \/ Write)
  BY <1>3 DEF StartAuthority, StopAuthority, Write
<1>5. ASSUME NEW j \in Calls, ExecuteBegin(j) \/ ExecuteWrite(j) \/ ExecuteEnd(j)
                              \/ ExecuteRefuse(j) \/ LoseCall(j)
      PROVE  FALSE
  <2>1. CASE j # k
    <3>1. call'[k] = call[k]
      BY <1>1, <1>5, <2>1 DEF ExecuteBegin, ExecuteWrite, ExecuteEnd, ExecuteRefuse,
         LoseCall, Answer
    <3>. QED  BY <3>1 DEF Resolves
  <2>2. CASE j = k
    <3>1. CASE LoseCall(k)
      <4>1. call'[k] = Rejected("transport")
        BY <1>1, <3>1 DEF LoseCall
      <4>. QED  BY <1>2, <4>1 DEF Resolves
    <3>2. CASE ~LoseCall(k)
      <4>1. call'[k].phase \in {"running", "answered"}
        BY <1>1, <1>5, <2>2, <3>2 DEF ExecuteBegin, ExecuteWrite, ExecuteEnd,
           ExecuteRefuse, Answer, CallRecords
      <4>. QED  BY <4>1 DEF Resolves
    <3>. QED  BY <3>1, <3>2
  <2>. QED  BY <2>1, <2>2
<1>6. ASSUME NEW c \in Clients, NEW f \in syncing[c], AnswerSync(c, f)
      PROVE  FALSE
  BY <1>3, <1>6 DEF AnswerSync
<1>7. ASSUME NEW c \in Clients, NEW f \in syncing[c], FailSync(c, f)
      PROVE  FALSE
  <2>1. PICK job : call' = Awaited(job, FALSE, call)
    BY <1>7 DEF FailSync, Settle
  <2>. QED  BY <2>1, AwaitedResolves
<1>8. ASSUME NEW c \in Clients, StartSync(c) PROVE FALSE
  BY <1>3, <1>8 DEF StartSync
<1>9. ASSUME NEW c \in Clients, NEW h \in handling[c], HandlerNext(c, h)
      PROVE  ApplyUpdate(c, h)
  BY <1>3, <1>9 DEF HandlerNext, DropUpdate, SyncEpoch, MismatchedEpoch, SyncGap,
     Recover
<1>10. ASSUME NEW c \in Clients, NEW j \in Calls,
              ReceiveChanged(c, j) \/ ReceiveForeign(c, j) \/ WaitTimeout(c, j)
              \/ CallAction(c, j) \/ (ReceiveLocal(c, j) /\ j # k)
       PROVE  FALSE
  <2>1. CASE j # k
    <3>1. call'[k] = call[k]
      BY <1>1, <1>10, <2>1 DEF ReceiveChanged, ReceiveForeign, WaitTimeout,
         CallAction, ReceiveLocal
    <3>. QED  BY <3>1 DEF Resolves
  <2>2. CASE j = k
    <3>1. \/ call'[k] = Rejected("authorityChanged")
          \/ call'[k].phase \in {"syncing", "timedOut", "sent"}
      BY <1>1, <1>10, <2>2 DEF ReceiveChanged, ReceiveForeign, WaitTimeout,
         CallAction, CallRecords
    <3>. QED  BY <1>2, <3>1 DEF Resolves
  <2>. QED  BY <2>1, <2>2
<1>11. ASSUME NEW c \in Clients, \/ Connect(c) \/ Destroy(c)
              \/ \E e \in 1..authority : \E s \in 1..sequence[e] : Deliver(c, e, s)
       PROVE  FALSE
  <2>1. CASE Destroy(c)
    BY <1>2, <2>1 DEF Destroy, Resolves
  <2>2. CASE ~Destroy(c)
    BY <1>3, <1>11, <2>2 DEF Connect, Deliver
  <2>. QED  BY <2>1, <2>2
<1>. QED
  BY <1>4, <1>5, <1>6, <1>7, <1>8, <1>9, <1>10, <1>11
     DEF Next, AuthorityNext, ClientNext, UserNext, ReceiveNext

\* When the promise of a remote action resolves, the mirror of its caller shows
\* what the action wrote, unless the client reconnected after it asked for the
\* snapshot the promise waited for (createClientAction, fullSync): an answer
\* carries a sequence that includes the writes, and what a promise waits for
\* never asks for less.
THEOREM PromisesFindTheirWrites ==
  ASSUME NoThrow
  PROVE  Spec => ResolvesCaughtUp
<1>1. ASSUME TypeOK, TypeOK', CallInvariant, [Next]_vars, NEW k \in Calls, Resolves(k)
      PROVE  CaughtUp(k)
  <2>1. Next
    BY <1>1 DEF vars, Resolves
  <2>2. PICK c \in Clients :
          \/ SkipSync(c)
          \/ \E f \in syncing[c] : FinishSync(c, f)
          \/ \E h \in handling[c] : ApplyUpdate(c, h)
          \/ ReceiveLocal(c, k)
    BY <1>1, <2>1, OthersResolveNone
  <2>3. CASE ReceiveLocal(c, k)
    <3>1. call[k].phase = "answered" /\ call[k].client = c
          /\ call[k].epoch = mirror[c].epoch /\ UNCHANGED mirror
      BY <2>3 DEF ReceiveLocal, clientVars
    <3>2. call[k] \in CallRecords /\ mirror[c].seq \in Nat
      BY <1>1 DEF TypeOK, Mirrors
    <3>3. mirror[c].seq >= call[k].seq
      <4>1. SUFFICES ASSUME call[k].seq > mirror[c].seq PROVE FALSE
        BY <3>2 DEF CallRecords
      <4>2. call' = [call EXCEPT ![k] = [call[k] EXCEPT !.phase = "waiting"]]
        BY <2>3, <4>1 DEF ReceiveLocal
      <4>3. call'[k] = [call[k] EXCEPT !.phase = "waiting"]
        BY <1>1, <4>2 DEF TypeOK
      <4>. QED  BY <1>1, <3>2, <4>3 DEF Resolves, CallRecords
    <3>. QED  BY <1>1, <3>1, <3>2, <3>3, ReachedSees DEF Answered
  <2>. QED
    BY <1>1, <2>2, <2>3, SkipSyncResolves, FinishSyncResolves, ApplyUpdateResolves
<1>2. TypeOK /\ TypeOK' /\ CallInvariant /\ [Next]_vars
        => [\A k \in Calls : Resolves(k) => CaughtUp(k)]_vars
  BY <1>1
<1>3. TypeOK /\ TypeOK' /\ CallInvariant /\ [Next]_vars => CallInvariant'
  BY CallStep
<1>4. [][\A k \in Calls : Resolves(k) => CaughtUp(k)]_vars => ResolvesCaughtUp
  BY PTL DEF ResolvesCaughtUp, CaughtUp
<1>. QED  BY <1>2, <1>3, <1>4, InitCalls, TypeCorrect, PTL DEF Spec

=============================================================================
