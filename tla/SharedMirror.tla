---------------------------- MODULE SharedMirror ----------------------------
(***************************************************************************)
(* A shared Coaction store: one write authority and the client mirrors     *)
(* connected to it (packages/core/src: handleMainTransport.ts,             *)
(* asyncClientStore.ts, getRawStateClientAction.ts).                       *)
(*                                                                         *)
(* The authority owns an epoch and numbers its patch updates.  A client    *)
(* applies the next update of its epoch and asks for a full snapshot       *)
(* otherwise.  Remote actions run on the authority; the client's promise   *)
(* settles when its mirror has reached the answer.                         *)
(*                                                                         *)
(* The data are abstracted to write identities: the i-th write of epoch e  *)
(* is <<e, i>>, a patch appends its identity to the state, and a snapshot  *)
(* taken at sequence s is the sequence of the first s identities.          *)
(*                                                                         *)
(* The transport loses, delays and reorders updates: an update once        *)
(* emitted may be delivered at any later time, or never.  Faults adds      *)
(* "duplicate" (it may be delivered again), "fail" (a fullSync request may *)
(* fail under a live authority) and "throw" (a subscriber may throw).      *)
(***************************************************************************)
EXTENDS Integers, Sequences, FiniteSets

CONSTANTS
  Clients,             \* client stores
  Calls,               \* remote action calls, each made at most once
  NoOne,               \* owner of a fullSync nobody but the client awaits
  MaxEpoch,            \* bound: authority lifetimes
  MaxSequence,         \* bound: updates of one lifetime
  MaxConnects,         \* bound: connect events of one client
  MaxPending,          \* bound: work queued in a client when an update arrives
  Faults               \* what may go wrong, besides lost and late updates

ASSUME BoundsAssumption ==
  /\ MaxEpoch \in Nat
  /\ MaxSequence \in Nat
  /\ MaxConnects \in Nat
  /\ MaxPending \in Nat
  /\ Faults \subseteq {"duplicate", "fail", "throw"}

VARIABLES
  authority,          \* epoch of the newest authority; 0 before the first
  alive,              \* whether that authority has not been destroyed
  sequence,           \* sequence[e]: internal.sequence of authority e
  mirror,             \* per client: transportEpoch, sequence and rootState
  connectGeneration,  \* per client: connectGeneration
  connectSync,        \* per client: generation of the pending connectSync, or 0
  syncTail,           \* per client: fullSync jobs not yet started, in order
  syncing,            \* per client: fullSync jobs whose request is out
  handling,           \* per client: handleUpdate calls in progress
  arrived,            \* per client: updates that have been delivered to it
  destroyed,          \* per client: destroyed
  call                \* per call: progress of the promise

authorityVars == <<authority, alive, sequence>>
syncVars == <<connectGeneration, connectSync, syncTail, syncing>>
clientVars == <<mirror, handling, arrived, destroyed>>
vars == <<authorityVars, syncVars, clientVars, call>>

-----------------------------------------------------------------------------
(* Data.                                                                   *)

Epochs == 0..MaxEpoch

\* The state an authority of epoch e holds after its first s updates.
StateAt(e, s) == [i \in 1..s |-> <<e, i>>]

Mirrors == [epoch: Epochs, seq: 0..MaxSequence, state: Seq(Epochs \X Nat)]

Updates == [epoch: Epochs, seq: 1..MaxSequence]

\* A queued fullSync: who awaits it, the generation it was asked under, the
\* epoch it insists on (0: any) and the least sequence it accepts.
JobsFor(kinds, owners) ==
  [kind: kinds, gen: Nat, expect: Epochs, min: 0..MaxSequence, who: owners]

Jobs == JobsFor({"connect", "recover"}, {NoOne})
        \cup JobsFor({"epoch", "gap"}, Updates)
        \cup JobsFor({"call"}, Calls)

Flights == [job: Jobs, answered: BOOLEAN, epoch: Epochs, seq: 0..MaxSequence]

Handlers == [update: Updates, gen: Nat,
             phase: {"connect", "ready", "synced", "failed"}]

CallRecords ==
  [phase: {"idle", "sent", "running", "answered", "waiting", "timedOut",
           "syncing", "resolved", "rejected"},
   client: Clients \cup {NoOne}, requestEpoch: Epochs,
   epoch: Epochs, seq: 0..MaxSequence, ok: BOOLEAN, wrote: 0..MaxSequence,
   outcome: {"none", "value", "actionError", "authorityChanged", "destroyed",
             "transport", "sync"}]

\* A call that has not been made, and what is kept of one that has settled.
NewCall == [phase |-> "idle", client |-> NoOne, requestEpoch |-> 0,
            epoch |-> 0, seq |-> 0, ok |-> FALSE, wrote |-> 0,
            outcome |-> "none"]

SettledCall(phase, outcome) ==
  [NewCall EXCEPT !.phase = phase, !.outcome = outcome]

TypeOK ==
  /\ authority \in Epochs
  /\ alive \in BOOLEAN
  /\ sequence \in [Epochs -> 0..MaxSequence]
  /\ mirror \in [Clients -> Mirrors]
  /\ connectGeneration \in [Clients -> Nat]
  /\ connectSync \in [Clients -> Nat]
  /\ syncTail \in [Clients -> Seq(Jobs)]
  /\ syncing \in [Clients -> SUBSET Flights]
  /\ handling \in [Clients -> SUBSET Handlers]
  /\ arrived \in [Clients -> SUBSET Updates]
  /\ destroyed \in [Clients -> BOOLEAN]
  /\ call \in [Calls -> CallRecords]

Init ==
  /\ authority = 0
  /\ alive = FALSE
  /\ sequence = [e \in Epochs |-> 0]
  /\ mirror = [c \in Clients |-> [epoch |-> 0, seq |-> 0, state |-> <<>>]]
  /\ connectGeneration = [c \in Clients |-> 0]
  /\ connectSync = [c \in Clients |-> 0]
  /\ syncTail = [c \in Clients |-> <<>>]
  /\ syncing = [c \in Clients |-> {}]
  /\ handling = [c \in Clients |-> {}]
  /\ arrived = [c \in Clients |-> {}]
  /\ destroyed = [c \in Clients |-> FALSE]
  /\ call = [k \in Calls |-> NewCall]

-----------------------------------------------------------------------------
(* The authority.                                                          *)

\* handleMainTransport: a new authority takes a fresh epoch, sequence 0.
StartAuthority ==
  /\ ~alive
  /\ authority < MaxEpoch
  /\ authority' = authority + 1
  /\ alive' = TRUE
  /\ UNCHANGED <<sequence, syncVars, clientVars, call>>

\* store.destroy() on the authority, or its worker going away.
StopAuthority ==
  /\ alive
  /\ alive' = FALSE
  /\ UNCHANGED <<authority, sequence, syncVars, clientVars, call>>

\* The sequence number the next update is sent under.
NextSequence == sequence[authority] + 1

\* emit: number the patches of a commit and hand them to the transport.
Emit ==
  /\ alive
  /\ sequence[authority] < MaxSequence
  /\ sequence' = [sequence EXCEPT ![authority] = NextSequence]

\* A commit on the authority that no modelled remote action made.
Write ==
  /\ Emit
  /\ UNCHANGED <<authority, alive, syncVars, clientVars, call>>

\* The 'execute' listener lets the request through and starts the action.
ExecuteBegin(k) ==
  /\ alive
  /\ call[k].phase = "sent"
  /\ call' = [call EXCEPT ![k].phase = "running", ![k].epoch = authority]
  /\ UNCHANGED <<authorityVars, syncVars, clientVars>>

\* The action commits a write.
ExecuteWrite(k) ==
  /\ call[k].phase = "running"
  /\ call[k].epoch = authority
  /\ Emit
  /\ call' = [call EXCEPT ![k].wrote = NextSequence]
  /\ UNCHANGED <<authority, alive, syncVars, clientVars>>

Answer(k, e, accepted) ==
  call' = [call EXCEPT ![k].phase = "answered", ![k].epoch = e,
                       ![k].seq = sequence[e], ![k].ok = accepted]

\* The action returns or throws; either answer carries the sequence of now.
ExecuteEnd(k) ==
  /\ call[k].phase = "running"
  /\ \E accepted \in BOOLEAN :
       /\ accepted => alive /\ call[k].epoch = authority
       /\ Answer(k, call[k].epoch, accepted)
  /\ UNCHANGED <<authorityVars, syncVars, clientVars>>

\* The request is refused before any action runs: not a shared action path,
\* not allowed, not authorized, not a function.
ExecuteRefuse(k) ==
  /\ alive
  /\ call[k].phase = "sent"
  /\ Answer(k, authority, FALSE)
  /\ UNCHANGED <<authorityVars, syncVars, clientVars>>

\* The 'fullSync' listener reads epoch, sequence and state in one step.
AnswerSync(c, f) ==
  /\ alive
  /\ f \in syncing[c]
  /\ ~f.answered
  /\ LET reply == [f EXCEPT !.answered = TRUE, !.epoch = authority,
                            !.seq = sequence[authority]]
     IN  syncing' = [syncing EXCEPT ![c] = (@ \ {f}) \cup {reply}]
  /\ UNCHANGED <<authorityVars, connectGeneration, connectSync, syncTail,
                 mirror, handling, arrived, destroyed, call>>

-----------------------------------------------------------------------------
(* fullSync on the client.                                                 *)

Enqueue(c, job) == syncTail' = [syncTail EXCEPT ![c] = Append(@, job)]

Job(kind, gen, expect, min, who) ==
  [kind |-> kind, gen |-> gen, expect |-> expect, min |-> min, who |-> who]

\* The generation check that opens and reopens the body of fullSync.
Superseded(c, job) == job.gen # connectGeneration[c]

\* The promise of an action settles as the authority answered it.
Finished(r) ==
  IF r.ok THEN SettledCall("resolved", "value")
          ELSE SettledCall("rejected", "actionError")

Rejected(why) == SettledCall("rejected", why)

Waiting(r, c) == r.client = c /\ r.phase \in {"waiting", "timedOut"}

Reached(r, e, s) == e = r.epoch /\ s >= r.seq

\* The calls after the subscribers of c have run on a mirror at e, s.
Notified(c, e, s) ==
  [k \in Calls |-> IF Waiting(call[k], c) /\ Reached(call[k], e, s)
                   THEN Finished(call[k])
                   ELSE call[k]]

\* Mutant: updates that wait for the connection are dropped.
MutantResumed(c, job, ok) == {h \in handling[c] : h.phase # "connect"}

\* handleUpdate calls after the job they may be awaiting has settled.
Resumed(c, job, ok) ==
  LET settled == IF ok THEN "synced" ELSE "failed"
      handler == [update |-> job.who, gen |-> job.gen, phase |-> settled]
  IN  CASE job.kind = "connect" ->
             {h \in handling[c] : h.phase # "connect" \/ h.gen # job.gen}
             \cup {[h EXCEPT !.phase = IF ok THEN "ready" ELSE "failed"] :
                     h \in {g \in handling[c] :
                              g.phase = "connect" /\ g.gen = job.gen}}
        [] job.kind = "epoch" -> handling[c] \cup {handler}
        [] job.kind = "gap" /\ ~ok -> handling[c] \cup {handler}
        [] OTHER -> handling[c]

\* The calls after the job has settled, given the calls the snapshot left.
Awaited(job, ok, calls) ==
  [k \in Calls |->
     IF job.kind = "call" /\ job.who = k
        /\ calls[k].phase \in {"syncing", "timedOut"}
     THEN IF ok THEN Finished(calls[k]) ELSE Rejected("sync")
     ELSE calls[k]]

\* The promise of the job settles: everyone who awaits it goes on.
Settle(c, job, ok, calls) ==
  /\ connectSync' = [connectSync EXCEPT
       ![c] = IF job.kind = "connect" /\ @ = job.gen THEN 0 ELSE @]
  /\ handling' = [handling EXCEPT ![c] = Resumed(c, job, ok)]
  /\ call' = Awaited(job, ok, calls)
  /\ UNCHANGED <<authorityVars, connectGeneration, arrived, destroyed>>

\* Mutant: requests are not queued behind one another.
MutantCanStart(c) == syncTail[c] # <<>>

\* syncTail: the next job starts when the one before it has settled.
CanStart(c) == syncing[c] = {} /\ syncTail[c] # <<>>

StartSync(c) ==
  /\ CanStart(c)
  /\ LET job == Head(syncTail[c]) IN
       /\ ~Superseded(c, job)
       /\ syncing' = [syncing EXCEPT ![c] = @ \cup
            {[job |-> job, answered |-> FALSE, epoch |-> 0, seq |-> 0]}]
       /\ syncTail' = [syncTail EXCEPT ![c] = Tail(@)]
  /\ UNCHANGED <<authorityVars, connectGeneration, connectSync, clientVars,
                 call>>

\* A job whose generation has passed settles without a request.
SkipSync(c) ==
  /\ CanStart(c)
  /\ LET job == Head(syncTail[c]) IN
       /\ Superseded(c, job)
       /\ Settle(c, job, TRUE, call)
  /\ syncTail' = [syncTail EXCEPT ![c] = Tail(@)]
  /\ UNCHANGED <<syncing, mirror>>

\* Mutant: a snapshot of any authority answers the job.
MutantRefuses(c, f) == f.seq < f.job.min

\* Snapshots fullSync throws on, and snapshots it ignores.
Refuses(c, f) ==
  \/ f.job.expect # 0 /\ f.epoch # f.job.expect
  \/ f.seq < f.job.min

Ignores(c, f) == f.epoch = mirror[c].epoch /\ f.seq < mirror[c].seq

Throws == {threw \in BOOLEAN : threw => "throw" \in Faults}

\* applyFullSync and applyUpdate: the state is replaced and the subscribers
\* run; if one throws, epoch and sequence are put back and the state is not.
Installed(c, e, s, state, threw) ==
  IF threw THEN [mirror[c] EXCEPT !.state = state]
           ELSE [epoch |-> e, seq |-> s, state |-> state]

\* The answer arrives: the body of fullSync after its await.
FinishSync(c, f) ==
  /\ f \in syncing[c]
  /\ f.answered
  /\ \/ /\ Superseded(c, f.job) \/ (~Refuses(c, f) /\ Ignores(c, f))
        /\ UNCHANGED mirror
        /\ Settle(c, f.job, TRUE, call)
     \/ /\ ~Superseded(c, f.job)
        /\ Refuses(c, f)
        /\ UNCHANGED mirror
        /\ Settle(c, f.job, FALSE, call)
     \/ /\ ~Superseded(c, f.job)
        /\ ~Refuses(c, f)
        /\ ~Ignores(c, f)
        /\ \E threw \in Throws :
             /\ mirror' = [mirror EXCEPT ![c] =
                  Installed(c, f.epoch, f.seq, StateAt(f.epoch, f.seq), threw)]
             /\ Settle(c, f.job, ~threw, Notified(c, f.epoch, f.seq))
  /\ syncing' = [syncing EXCEPT ![c] = @ \ {f}]
  /\ UNCHANGED syncTail

\* The request fails: lost, timed out, refused, or its authority destroyed.
FailSync(c, f) ==
  /\ f \in syncing[c]
  /\ "fail" \in Faults \/ ~alive
  /\ Settle(c, f.job, FALSE, call)
  /\ syncing' = [syncing EXCEPT ![c] = @ \ {f}]
  /\ UNCHANGED <<syncTail, mirror>>

-----------------------------------------------------------------------------
(* Connections and updates on the client.                                  *)

\* transport.onConnect.
Connect(c) ==
  LET gen == connectGeneration[c] + 1 IN
  /\ ~destroyed[c]
  /\ gen <= MaxConnects
  /\ connectGeneration' = [connectGeneration EXCEPT ![c] = gen]
  /\ connectSync' = [connectSync EXCEPT ![c] = gen]
  /\ Enqueue(c, Job("connect", gen, 0, 0, NoOne))
  /\ UNCHANGED <<authorityVars, syncing, clientVars, call>>

Pending(c) ==
  Cardinality(handling[c]) + Cardinality(syncing[c]) + Len(syncTail[c])

\* An update arrives; while a connectSync is pending its handler waits.
Deliver(c, e, s) ==
  /\ ~destroyed[c]
  /\ Pending(c) < MaxPending
  /\ LET u == [epoch |-> e, seq |-> s]
         h == [update |-> u, gen |-> connectGeneration[c],
               phase |-> IF connectSync[c] # 0 THEN "connect" ELSE "ready"]
     IN  /\ u \notin arrived[c]
         /\ arrived' = [arrived EXCEPT
              ![c] = IF "duplicate" \in Faults THEN @ ELSE @ \cup {u}]
         /\ handling' = [handling EXCEPT ![c] = @ \cup {h}]
  /\ UNCHANGED <<authorityVars, syncVars, mirror, destroyed, call>>

Leave(c, h) == handling' = [handling EXCEPT ![c] = @ \ {h}]

\* handleUpdate returns early: its connection is over, or it knows the update.
DropUpdate(c, h) ==
  /\ h \in handling[c]
  /\ h.phase \in {"ready", "synced"}
  /\ \/ Superseded(c, h)
     \/ h.update.epoch = mirror[c].epoch /\ h.update.seq <= mirror[c].seq
  /\ Leave(c, h)
  /\ UNCHANGED <<authorityVars, syncVars, mirror, arrived, destroyed, call>>

\* The update is of another epoch: a snapshot of that epoch is asked for, once.
SyncEpoch(c, h) ==
  /\ h \in handling[c]
  /\ h.phase = "ready"
  /\ ~Superseded(c, h)
  /\ h.update.epoch # mirror[c].epoch
  /\ Enqueue(c, Job("epoch", h.gen, h.update.epoch, 0, h.update))
  /\ Leave(c, h)
  /\ UNCHANGED <<authorityVars, connectGeneration, connectSync, syncing,
                 mirror, arrived, destroyed, call>>

\* The snapshot came and the epoch still differs: handleUpdate throws.
MismatchedEpoch(c, h) ==
  /\ h \in handling[c]
  /\ h.phase = "synced"
  /\ ~Superseded(c, h)
  /\ h.update.epoch # mirror[c].epoch
  /\ handling' = [handling EXCEPT
       ![c] = (@ \ {h}) \cup {[h EXCEPT !.phase = "failed"]}]
  /\ UNCHANGED <<authorityVars, syncVars, mirror, arrived, destroyed, call>>

\* Mutant: a gap is taken for the next update.
MutantIsNext(c, u) == u.epoch = mirror[c].epoch /\ u.seq > mirror[c].seq

IsNext(c, u) == u.epoch = mirror[c].epoch /\ u.seq = mirror[c].seq + 1

\* The next update of the mirror's epoch: applyUpdate.
ApplyUpdate(c, h) ==
  /\ h \in handling[c]
  /\ h.phase \in {"ready", "synced"}
  /\ ~Superseded(c, h)
  /\ IsNext(c, h.update)
  /\ LET u == h.update
         state == Append(mirror[c].state, <<u.epoch, u.seq>>)
     IN  \E threw \in Throws :
           /\ mirror' = [mirror EXCEPT
                ![c] = Installed(c, u.epoch, u.seq, state, threw)]
           /\ handling' = [handling EXCEPT ![c] = (@ \ {h}) \cup
                IF threw THEN {[h EXCEPT !.phase = "failed"]} ELSE {}]
           /\ call' = Notified(c, u.epoch, u.seq)
  /\ UNCHANGED <<authorityVars, syncVars, arrived, destroyed>>

\* A later update of the mirror's epoch: a snapshot at least as new.
SyncGap(c, h) ==
  /\ h \in handling[c]
  /\ h.phase \in {"ready", "synced"}
  /\ ~Superseded(c, h)
  /\ h.update.epoch = mirror[c].epoch
  /\ h.update.seq > mirror[c].seq + 1
  /\ Enqueue(c, Job("gap", h.gen, h.update.epoch, h.update.seq, h.update))
  /\ Leave(c, h)
  /\ UNCHANGED <<authorityVars, connectGeneration, connectSync, syncing,
                 mirror, arrived, destroyed, call>>

\* The 'update' listener catches whatever handleUpdate threw.
Recover(c, h) ==
  /\ h \in handling[c]
  /\ h.phase = "failed"
  /\ Enqueue(c, Job("recover", connectGeneration[c], 0, 0, NoOne))
  /\ Leave(c, h)
  /\ UNCHANGED <<authorityVars, connectGeneration, connectSync, syncing,
                 mirror, arrived, destroyed, call>>

-----------------------------------------------------------------------------
(* Remote actions and the end of a client.                                 *)

\* createClientAction: the request goes out with the epoch of now remembered.
CallAction(c, k) ==
  /\ ~destroyed[c]
  /\ call[k].phase = "idle"
  /\ call' = [call EXCEPT ![k].phase = "sent", ![k].client = c,
                          ![k].requestEpoch = mirror[c].epoch]
  /\ UNCHANGED <<authorityVars, syncVars, clientVars>>

\* The request or its answer is lost, and the transport gives up on it.
LoseCall(k) ==
  /\ call[k].phase \in {"sent", "running", "answered"}
  /\ call' = [call EXCEPT ![k] = Rejected("transport")]
  /\ UNCHANGED <<authorityVars, syncVars, clientVars>>

\* The mirror moved to an authority that is not the one that answered.
AuthorityChanged(c, r) ==
  /\ mirror[c].epoch # r.requestEpoch
  /\ r.epoch # mirror[c].epoch

\* Mutant: a timeout asks for no snapshot.
MutantCallSync(c, k) == UNCHANGED syncTail

CallSync(c, k) ==
  Enqueue(c, Job("call", connectGeneration[c], call[k].epoch, call[k].seq, k))

\* The answer arrives, from an authority the mirror cannot be brought to ...
ReceiveChanged(c, k) ==
  /\ call[k].phase = "answered"
  /\ call[k].client = c
  /\ AuthorityChanged(c, call[k])
  /\ call' = [call EXCEPT ![k] = Rejected("authorityChanged")]
  /\ UNCHANGED <<authorityVars, syncVars, clientVars>>

\* ... from an authority the mirror has not seen yet ...
ReceiveForeign(c, k) ==
  /\ call[k].phase = "answered"
  /\ call[k].client = c
  /\ ~AuthorityChanged(c, call[k])
  /\ call[k].epoch # mirror[c].epoch
  /\ call' = [call EXCEPT ![k].phase = "syncing"]
  /\ CallSync(c, k)
  /\ UNCHANGED <<authorityVars, connectGeneration, connectSync, syncing,
                 clientVars>>

\* ... from the mirror's own authority, and the mirror is behind or there.
ReceiveLocal(c, k) ==
  /\ call[k].phase = "answered"
  /\ call[k].client = c
  /\ call[k].epoch = mirror[c].epoch
  /\ call' = [call EXCEPT ![k] = IF @.seq > mirror[c].seq
                                 THEN [@ EXCEPT !.phase = "waiting"]
                                 ELSE Finished(@)]
  /\ UNCHANGED <<authorityVars, syncVars, clientVars>>

\* executeSyncTimeoutMs passes: the wait goes on, and a fullSync is asked for.
WaitTimeout(c, k) ==
  /\ call[k].phase = "waiting"
  /\ call[k].client = c
  /\ call' = [call EXCEPT ![k].phase = "timedOut"]
  /\ CallSync(c, k)
  /\ UNCHANGED <<authorityVars, connectGeneration, connectSync, syncing,
                 clientVars>>

Unsettled(r) == r.phase \notin {"idle", "resolved", "rejected"}

\* store.destroy() on the client: cleanup releases everything that is pending.
Destroy(c) ==
  /\ ~destroyed[c]
  /\ destroyed' = [destroyed EXCEPT ![c] = TRUE]
  /\ connectGeneration' = [connectGeneration EXCEPT ![c] = @ + 1]
  /\ connectSync' = [connectSync EXCEPT ![c] = 0]
  /\ syncTail' = [syncTail EXCEPT ![c] = <<>>]
  /\ syncing' = [syncing EXCEPT ![c] = {}]
  /\ handling' = [handling EXCEPT ![c] = {}]
  /\ call' = [k \in Calls |->
                IF call[k].client = c /\ Unsettled(call[k])
                THEN Rejected("destroyed")
                ELSE call[k]]
  /\ UNCHANGED <<authorityVars, mirror, arrived>>

-----------------------------------------------------------------------------
(* Specification.                                                          *)

AuthorityNext ==
  \/ StartAuthority
  \/ StopAuthority
  \/ Write
  \/ \E k \in Calls : \/ ExecuteBegin(k)
                      \/ ExecuteWrite(k)
                      \/ ExecuteEnd(k)
                      \/ ExecuteRefuse(k)
                      \/ LoseCall(k)
  \/ \E c \in Clients : \E f \in syncing[c] : AnswerSync(c, f) \/ FailSync(c, f)

HandlerNext(c, h) ==
  \/ DropUpdate(c, h)
  \/ SyncEpoch(c, h)
  \/ MismatchedEpoch(c, h)
  \/ ApplyUpdate(c, h)
  \/ SyncGap(c, h)
  \/ Recover(c, h)

ReceiveNext(c, k) ==
  \/ ReceiveChanged(c, k)
  \/ ReceiveForeign(c, k)
  \/ ReceiveLocal(c, k)

ClientNext(c) ==
  \/ StartSync(c)
  \/ SkipSync(c)
  \/ \E f \in syncing[c] : FinishSync(c, f)
  \/ \E h \in handling[c] : HandlerNext(c, h)
  \/ \E k \in Calls : ReceiveNext(c, k) \/ WaitTimeout(c, k)

UserNext(c) ==
  \/ Connect(c)
  \/ Destroy(c)
  \/ \E e \in 1..authority : \E s \in 1..sequence[e] : Deliver(c, e, s)
  \/ \E k \in Calls : CallAction(c, k)

Next == AuthorityNext \/ \E c \in Clients : ClientNext(c) \/ UserNext(c)

Spec == Init /\ [][Next]_vars

-----------------------------------------------------------------------------
(* Properties.                                                             *)

\* A mirror shows exactly what its authority held at the epoch and sequence
\* the mirror says it is at: no gap, no double application, no mixture of two
\* authorities (handleUpdate, fullSync).
MirrorShowsHistory ==
  \A c \in Clients :
    LET m == mirror[c] IN
      /\ m.epoch <= authority
      /\ m.seq <= sequence[m.epoch]
      /\ m.state = StateAt(m.epoch, m.seq)

History == INSTANCE MirroredHistory

\* Without its transport a shared store is a set of mirrors that jump forward
\* between published points of the authorities' histories: no point is shown
\* that was never published, however requests and updates interleave.
ImplementsHistory == History!Spec

\* A mirror only moves forward: never back within an epoch, never to an
\* authority older than the one it has seen (the order of syncTail and the
\* sequence checks of fullSync and handleUpdate).
MirrorAdvances ==
  [][\A c \in Clients :
       LET m == mirror[c]
           n == mirror'[c]
       IN  m # n => \/ n.epoch > m.epoch
                    \/ n.epoch = m.epoch /\ n.seq > m.seq]_vars

JobsOf(c) == {syncTail[c][i] : i \in DOMAIN syncTail[c]}
             \cup {f.job : f \in syncing[c]}

\* The mirror of the caller shows every write the action made.
SeesItsWrites(k, m) == m.epoch = call[k].epoch /\ m.seq >= call[k].wrote

Resolves(k) == call[k].phase # "resolved" /\ call'[k].phase = "resolved"

\* When the promise of a remote action resolves, the mirror of its caller
\* shows what the action wrote, unless the client reconnected after it asked
\* for the snapshot the promise waited for (createClientAction).
ResolvesCaughtUp ==
  [][\A k \in Calls : Resolves(k) =>
       LET c == call[k].client IN
         \/ SeesItsWrites(k, mirror'[c])
         \/ \E job \in JobsOf(c) : job.who = k /\ Superseded(c, job)]_vars

-----------------------------------------------------------------------------
(* Liveness.                                                               *)

\* What a client does by itself happens: its promise jobs run, its timers
\* fire, and the transport answers or gives up on every request.
Fairness ==
  /\ \A c \in Clients : WF_vars(ClientNext(c))
  /\ \A c \in Clients : WF_vars(\E f \in syncing[c] : AnswerSync(c, f))
  /\ \A c \in Clients : WF_vars(\E f \in syncing[c] : FailSync(c, f))
  /\ \A k \in Calls : WF_vars(ExecuteEnd(k) \/ LoseCall(k))

FairSpec == Spec /\ Fairness

\* A transport that delivers every update once.
ReliableDelivery ==
  \A c \in Clients, e \in 1..MaxEpoch, s \in 1..MaxSequence :
    WF_vars(e <= authority /\ s <= sequence[e] /\ Deliver(c, e, s))

\* The promise of every remote action settles, whatever becomes of the
\* authority, the connection and the client (createClientAction).
CallsSettle ==
  \A k \in Calls : call[k].phase = "sent" ~> ~Unsettled(call[k])

\* Over a transport that delivers every update once, a client that stays
\* alive ends up showing what the last authority holds, once that authority
\* has emitted anything (handleUpdate, syncClientState, fullSync).
MirrorConverges ==
  ReliableDelivery => \A c \in Clients :
    <>[](\/ destroyed[c]
         \/ sequence[authority] = 0
         \/ ~alive
         \/ /\ mirror[c].epoch = authority
            /\ mirror[c].seq = sequence[authority])

=============================================================================
