----------------------------- MODULE SyncOutbox -----------------------------
(***************************************************************************)
(* A store kept in step with a remote service by sync() (packages/         *)
(* coaction-sync/src/index.ts, checkpoint.ts, mutations.ts): the outbox of *)
(* local mutations, its checkpoint and journal in storage, hydration,      *)
(* push, pull, remote events, rebase and retry.                            *)
(*                                                                         *)
(* The program is single-threaded and all its waiting is on promises.      *)
(* Continuations run before anything else happens (Quiet), except that     *)
(* the application may commit at any time.  A continuation that waits for  *)
(* a write is a name in the waiters of that write, and in due once the     *)
(* write has settled.                                                      *)
(*                                                                         *)
(* The data are abstracted: the remote state is the number of the last     *)
(* fact in it, a mutation is its number, and the state of the store is the *)
(* fact it is based on and how often each mutation is applied to it.  The  *)
(* cursor is that fact.  remoteEpoch is only ever compared with the value  *)
(* a request has captured, so each request keeps whether it has moved.     *)
(* The adapter delivers events in the order of the facts, each once, but   *)
(* says nothing of their order among its answers: an event may arrive      *)
(* after an answer that already held its fact.                             *)
(* Delays, statuses and the text of errors are left out.                   *)
(***************************************************************************)
EXTENDS Integers, Sequences, FiniteSets, SequencesExt

CONSTANTS
  MaxMutations,   \* bound: local commits
  Setups          \* what happens besides: bounds, faults, calls (MCSetups)

SetupType ==
  [mutations: 0..MaxMutations, facts: Nat, sessions: Nat, faults: Nat,
   attempts: Nat,
   fails: SUBSET {"crash", "write", "read", "remove", "push", "pull", "malformed",
                  "decline", "conflict", "refuse", "throw"},
   calls: SUBSET {"flush", "pull", "clear", "destroy"},
   realtime: BOOLEAN]

ASSUME SyncAssumption == MaxMutations \in Nat /\ Setups \subseteq SetupType

VARIABLES
  setup,       \* the element of Setups this behaviour belongs to
  life,        \* how far the session is
  outbox,      \* the pending mutations, in order
  applied,     \* how often each mutation is applied to the store's state
  base,        \* the remote fact the store's state is based on
  writeQueue,  \* writes to storage, the one under way first
  failed,      \* whether the last write that settled was rejected
  removing,    \* who has asked storage to remove the journal
  due,         \* continuations of settled writes that have not run yet
  lane,        \* remoteLane: results to be applied, in order of arrival
  busy,        \* whether the first of them waits for its write
  flush,       \* the flush in progress
  pull,        \* the pull in progress
  timer,       \* retryTimer is set
  pullOwed,
  main,        \* storage: the checkpoint
  journal,     \* storage: the pre-hydration journal
  server,      \* remote: the number of facts
  events,      \* remote: the last fact the subscription has delivered
  taken,       \* remote: the mutations it has accepted
  made,        \* number of local commits so far
  durable,     \* mutations whose own write has succeeded
  dropped,     \* mutations that a rebase or a replay has given up
  cleared,     \* mutations that clearPending has given up
  revived,     \* mutations that hydration has taken from a journal left behind
  sessions,    \* number of starts
  faults       \* number of faults

storeVars == <<outbox, applied, base>>
writeVars == <<writeQueue, failed, removing, due>>
laneVars == <<lane, busy>>
retryVars == <<timer, pullOwed>>
storageVars == <<main, journal>>
remoteVars == <<server, events, taken>>
ghostVars == <<made, durable, dropped, cleared, revived>>
boundVars == <<sessions, faults>>
vars == <<setup, life, storeVars, writeVars, laneVars, flush, pull, retryVars,
          storageVars, remoteVars, ghostVars, boundVars>>

-----------------------------------------------------------------------------
(* Data.                                                                   *)

MaxFacts == setup.facts         \* bound: writes of other clients of the service
MaxSessions == setup.sessions   \* bound: times the program is started
MaxFaults == setup.faults       \* bound: faults
PullAttempts == setup.attempts  \* times a pull asks again before it is owed (2)
Faults == setup.fails           \* what may go wrong
UserCalls == setup.calls        \* what the application calls besides its actions
Realtime == setup.realtime      \* whether the adapter has a subscription

Mutations == 1..MaxMutations
Facts == 0..MaxFacts

Checkpoints == [outbox: Seq(Mutations), applied: [Mutations -> Nat],
                base: Facts]

Waiters == {"commit", "flush", "lane", "clear", "start", "hydrate"}

Writes == [key: {"main", "journal"}, content: Checkpoints, started: BOOLEAN,
           waiters: SUBSET Waiters]

\* A remote result: 0 stands for one without patches.
Results == [who: {"push", "pull", "event"}, fact: Facts, ack: SUBSET Mutations]

Flushes == [pc: {"idle", "waiting", "pushing", "answered", "applying"},
            sent: SUBSET Mutations, attempted: SUBSET Mutations,
            declined: BOOLEAN, moved: BOOLEAN, fact: Facts,
            ack: SUBSET Mutations]

Pulls == [pc: {"idle", "asking", "answered", "applying"}, attempt: Nat,
          moved: BOOLEAN, fact: Facts, resume: BOOLEAN]

TypeOK ==
  /\ setup \in Setups
  /\ life \in {"down", "reading", "draining", "journal", "merged", "ready",
               "failed", "closing"}
  /\ outbox \in Seq(Mutations)
  /\ applied \in [Mutations -> Nat]
  /\ base \in Facts
  /\ writeQueue \in Seq(Writes)
  /\ failed \in BOOLEAN
  /\ removing \subseteq {"start", "clear"}
  /\ due \subseteq [who: Waiters, ok: BOOLEAN]
  /\ lane \in Seq(Results)
  /\ busy \in {"no", "writing", "threw"}
  /\ flush \in Flushes
  /\ pull \in Pulls
  /\ timer \in BOOLEAN
  /\ pullOwed \in BOOLEAN
  /\ main \in Checkpoints
  /\ journal \in Seq(Mutations)
  /\ server \in Facts
  /\ events \in Facts
  /\ taken \subseteq Mutations
  /\ made \in 0..MaxMutations
  /\ durable \subseteq Mutations
  /\ dropped \subseteq Mutations
  /\ cleared \subseteq Mutations
  /\ revived \subseteq Mutations
  /\ sessions \in 0..MaxSessions
  /\ faults \in 0..MaxFaults

NoFlush == [pc |-> "idle", sent |-> {}, attempted |-> {}, declined |-> FALSE,
            moved |-> FALSE, fact |-> 0, ack |-> {}]

NoPull == [pc |-> "idle", attempt |-> 0, moved |-> FALSE, fact |-> 0,
           resume |-> FALSE]

Nothing == [m \in Mutations |-> 0]

Init ==
  /\ setup \in Setups
  /\ life = "down"
  /\ outbox = <<>> /\ applied = Nothing /\ base = 0
  /\ writeQueue = <<>> /\ failed = FALSE /\ removing = {} /\ due = {}
  /\ lane = <<>> /\ busy = "no"
  /\ flush = NoFlush /\ pull = NoPull
  /\ timer = FALSE /\ pullOwed = FALSE
  /\ main = [outbox |-> <<>>, applied |-> Nothing, base |-> 0]
  /\ journal = <<>>
  /\ server = 0 /\ events = 0 /\ taken = {}
  /\ made = 0 /\ durable = {} /\ dropped = {} /\ cleared = {}
  /\ revived = {}
  /\ sessions = 0 /\ faults = 0

Open == life \notin {"down", "closing"}

\* Nothing is left for a continuation to do.
Quiet ==
  /\ due = {}
  /\ lane # <<>> => busy # "no"
  /\ writeQueue # <<>> => Head(writeQueue).started
  /\ life # "merged"

Fault(kind) ==
  /\ kind \in Faults
  /\ faults < MaxFaults
  /\ faults' = faults + 1
  /\ UNCHANGED sessions

-----------------------------------------------------------------------------
(* The write queue.                                                        *)

State == [outbox |-> outbox, applied |-> applied, base |-> base]

Write(key, content, who) ==
  [key |-> key, content |-> content, started |-> FALSE, waiters |-> {who}]

\* persist: the checkpoint of the moment the write starts is written.
Persisted(who) == Append(writeQueue, Write("main", State, who))

\* await writeQueue, which is its last write, or how that one has ended.
Await(queue, pending) ==
  IF queue = <<>>
  THEN /\ writeQueue' = queue
       /\ due' = pending \cup {[who |-> "flush", ok |-> ~failed]}
  ELSE /\ writeQueue' = [queue EXCEPT ![Len(queue)].waiters = @ \cup {"flush"}]
       /\ due' = pending

\* flush: one at a time; a call during one is answered by that one.
Flush(queue, pending) ==
  IF flush.pc = "idle" /\ life = "ready"
  THEN /\ flush' = [NoFlush EXCEPT !.pc = "waiting"]
       /\ Await(queue, pending)
  ELSE /\ flush' = flush
       /\ writeQueue' = queue
       /\ due' = pending

\* Mutant: a failure does not schedule a retry.
MutantRetry == UNCHANGED timer

\* scheduleRetry and reportError, on a store that is not destroyed.
Retry == timer' = Open

StartWrite ==
  /\ writeQueue # <<>>
  /\ ~Head(writeQueue).started
  /\ LET first == Head(writeQueue) IN
       writeQueue' = [writeQueue EXCEPT ![1] =
         [first EXCEPT !.started = TRUE,
            !.content = IF first.key = "main" THEN State ELSE first.content]]
  /\ UNCHANGED <<life, storeVars, failed, removing, due, laneVars, flush, pull,
                 retryVars, storageVars, remoteVars, ghostVars, boundVars>>

\* Array.prototype.filter: the mutations that are not in gone, in their order.
Without(pending, gone) ==
  LET kept[i \in 0 .. Len(pending)] ==
        IF i = 0 THEN <<>>
        ELSE IF pending[i] \in gone THEN kept[i - 1]
                                   ELSE Append(kept[i - 1], pending[i])
  IN  kept[Len(pending)]

\* Mutant: the later list comes first.
MutantMerge(left, right) == right \o Without(left, ToSet(right))

\* mergeMutationsById.
Merge(left, right) == left \o Without(right, ToSet(left))

\* The continuations of the first write, and the writes after it.
Settled(ok) ==
  /\ writeQueue # <<>>
  /\ Head(writeQueue).started
  /\ Quiet
  /\ writeQueue' = Tail(writeQueue)
  /\ failed' = ~ok
  /\ due' = {[who |-> who, ok |-> ok] : who \in Head(writeQueue).waiters}

\* storage.setItem takes effect.
FinishWrite ==
  /\ Settled(TRUE)
  /\ LET w == Head(writeQueue) IN
       /\ main' = IF w.key = "main" THEN w.content ELSE main
       /\ journal' = IF w.key = "journal"
                     THEN Merge(journal, w.content.outbox)
                     ELSE journal
       /\ durable' = durable \cup ToSet(w.content.outbox)
  /\ UNCHANGED <<life, storeVars, removing, laneVars, flush, pull, retryVars,
                 remoteVars, made, dropped, cleared, revived, boundVars>>

FailWrite ==
  /\ Settled(FALSE)
  /\ Fault("write")
  /\ UNCHANGED <<life, storeVars, removing, laneVars, flush, pull, retryVars,
                 storageVars, remoteVars, ghostVars>>

\* storage.removeItem of the journal takes effect; after hydration a flush
\* follows.
FinishRemoval(who) ==
  /\ Quiet
  /\ who \in removing
  /\ removing' = removing \ {who}
  /\ journal' = <<>>
  /\ IF who = "start" THEN Flush(writeQueue, due)
                      ELSE UNCHANGED <<flush, writeQueue, due>>
  /\ UNCHANGED <<life, storeVars, failed, laneVars, pull, retryVars, main,
                 remoteVars, ghostVars, boundVars>>

FailRemoval(who) ==
  /\ Quiet
  /\ who \in removing
  /\ Fault("remove")
  /\ removing' = removing \ {who}
  /\ IF who = "start" THEN Retry ELSE UNCHANGED timer
  /\ UNCHANGED <<life, storeVars, writeQueue, failed, due, laneVars, flush,
                 pull, pullOwed, storageVars, remoteVars, ghostVars>>

-----------------------------------------------------------------------------
(* A session: start, hydration, local commits, the end.                    *)

\* The program is started: sync() is applied to a new store.  What the
\* subscription delivers is new.
Start ==
  /\ life = "down"
  /\ sessions < MaxSessions
  /\ sessions' = sessions + 1
  /\ life' = "reading"
  /\ events' = server
  /\ UNCHANGED <<storeVars, writeVars, laneVars, flush, pull, retryVars,
                 storageVars, server, taken, ghostVars, faults>>

\* The checkpoint has been read: await writeQueue.catch().
ReadState ==
  /\ Quiet
  /\ life = "reading"
  /\ life' = "draining"
  /\ IF writeQueue = <<>>
     THEN /\ due' = {[who |-> "hydrate", ok |-> TRUE]}
          /\ UNCHANGED writeQueue
     ELSE /\ writeQueue' = [writeQueue EXCEPT
               ![Len(writeQueue)].waiters = @ \cup {"hydrate"}]
          /\ UNCHANGED due
  /\ UNCHANGED <<storeVars, failed, removing, laneVars, flush, pull, retryVars,
                 storageVars, remoteVars, ghostVars, boundVars>>

Drained(r) ==
  /\ life = "draining"
  /\ r \in due
  /\ r.who = "hydrate"
  /\ life' = "journal"
  /\ due' = due \ {r}
  /\ UNCHANGED <<storeVars, writeQueue, failed, removing, laneVars, flush,
                 pull, retryVars, storageVars, remoteVars, ghostVars,
                 boundVars>>

\* Mutations a replay may give up: none, unless they can conflict.
Droppable(pending) ==
  IF "conflict" \in Faults THEN SUBSET ToSet(pending) ELSE {{}}

\* Mutant: the journal is not read.
MutantPreHydration == Without(outbox, ToSet(main.outbox))

\* Mutations made before hydration, in the journal or in memory, that the
\* checkpoint does not hold.
PreHydration ==
  Without(Merge(Without(journal, ToSet(main.outbox)), outbox),
          ToSet(main.outbox))

\* The journal has been read: the checkpoint's state replaces the store's, and
\* the mutations made since are replayed onto it.  One that the checkpoint's
\* state already holds, because it was acknowledged or cleared and the journal
\* was not removed, is applied once more and pending again.
Hydrate ==
  /\ Quiet
  /\ life = "journal"
  /\ life' = "merged"
  /\ \E gone \in Droppable(PreHydration) :
       LET replayed == Without(PreHydration, gone) IN
         /\ outbox' = main.outbox \o replayed
         /\ applied' = [m \in Mutations |-> IF m \in ToSet(replayed)
                                            THEN main.applied[m] + 1
                                            ELSE main.applied[m]]
         /\ dropped' = dropped \cup gone
         /\ revived' = revived \cup {m \in ToSet(replayed) : main.applied[m] > 0}
  /\ base' = main.base
  /\ UNCHANGED <<writeVars, laneVars, flush, pull, retryVars, storageVars,
                 remoteVars, made, durable, cleared, boundVars>>

\* Hydration is over: hydrated is set and the checkpoint is written.
FinishHydration ==
  /\ life = "merged"
  /\ life' = "ready"
  /\ writeQueue' = Persisted("start")
  /\ UNCHANGED <<storeVars, failed, removing, due, laneVars, flush, pull,
                 retryVars, storageVars, remoteVars, ghostVars, boundVars>>

FailedHydration ==
  /\ life' = "failed"
  /\ UNCHANGED <<storeVars, writeVars, laneVars, flush, pull, retryVars,
                 storageVars, remoteVars, ghostVars>>

\* A read fails.
FailRead ==
  /\ Quiet
  /\ life \in {"reading", "journal"}
  /\ Fault("read")
  /\ FailedHydration

\* readCheckpoint, parseJournal: what was read is refused whole, and left where
\* it is.
RefuseStored ==
  /\ Quiet
  /\ life = "journal"
  /\ Fault("malformed")
  /\ FailedHydration

\* The commit listener: a local commit joins the outbox and is written, to the
\* journal before hydration is over.
Commit ==
  /\ Open
  /\ made < setup.mutations
  /\ made' = made + 1
  /\ outbox' = Append(outbox, made')
  /\ applied' = [applied EXCEPT ![made'] = 1]
  /\ writeQueue' =
       IF life = "ready"
       THEN Persisted("commit")
       ELSE Append(writeQueue,
                   Write("journal", [State EXCEPT !.outbox = outbox'],
                         "commit"))
  /\ UNCHANGED <<life, base, failed, removing, due, laneVars, flush, pull,
                 retryVars, storageVars, remoteVars, durable, dropped,
                 cleared, revived, boundVars>>

\* ... and is sent, once it is written and hydration is over.
CommitWritten(r) ==
  /\ r \in due
  /\ r.who = "commit"
  /\ IF r.ok
     THEN Flush(writeQueue, due \ {r}) /\ UNCHANGED timer
     ELSE due' = due \ {r} /\ Retry /\ UNCHANGED <<writeQueue, flush>>
  /\ UNCHANGED <<life, storeVars, failed, removing, laneVars, pull, pullOwed,
                 storageVars, remoteVars, ghostVars, boundVars>>

\* The checkpoint of hydration is written: the journal goes.
StartWritten(r) ==
  /\ r \in due
  /\ r.who = "start"
  /\ due' = due \ {r}
  /\ IF r.ok THEN removing' = removing \cup {"start"} /\ UNCHANGED timer
             ELSE Retry /\ UNCHANGED removing
  /\ UNCHANGED <<life, storeVars, writeQueue, failed, laneVars, flush, pull,
                 pullOwed, storageVars, remoteVars, ghostVars, boundVars>>

\* clearPending.
ClearPending ==
  /\ "clear" \in UserCalls
  /\ Quiet
  /\ life = "ready"
  /\ outbox # <<>>
  /\ outbox' = <<>>
  /\ cleared' = cleared \cup ToSet(outbox)
  /\ writeQueue' = Persisted("clear")
  /\ UNCHANGED <<life, applied, base, failed, removing, due, laneVars, flush,
                 pull, retryVars, storageVars, remoteVars, made, durable,
                 dropped, revived, boundVars>>

ClearWritten(r) ==
  /\ r \in due
  /\ r.who = "clear"
  /\ due' = due \ {r}
  /\ removing' = IF r.ok THEN removing \cup {"clear"} ELSE removing
  /\ UNCHANGED <<life, storeVars, writeQueue, failed, laneVars, flush, pull,
                 retryVars, storageVars, remoteVars, ghostVars, boundVars>>

\* What the remote may still take of a request that nobody waits for.
Abandoned ==
  /\ \E late \in SUBSET (IF flush.pc = "pushing" THEN flush.sent ELSE {}) :
       taken' = taken \cup late
  /\ flush' = NoFlush
  /\ pull' = NoPull
  /\ lane' = <<>>
  /\ busy' = "no"
  /\ timer' = FALSE
  /\ pullOwed' = FALSE
  /\ UNCHANGED <<server, events>>

\* store.destroy: writes already queued still go to storage.
Destroy ==
  /\ "destroy" \in UserCalls
  /\ Quiet
  /\ Open
  /\ life' = "closing"
  /\ Abandoned
  /\ UNCHANGED <<storeVars, writeVars, storageVars, ghostVars, boundVars>>

\* Continuations that find the store destroyed.
Ended(r) ==
  /\ life = "closing"
  /\ r \in due
  /\ r.who \in {"flush", "lane", "hydrate"}
  /\ due' = due \ {r}
  /\ UNCHANGED <<life, storeVars, writeQueue, failed, removing, laneVars,
                 flush, pull, retryVars, storageVars, remoteVars, ghostVars,
                 boundVars>>

Gone ==
  /\ life' = "down"
  /\ outbox' = <<>> /\ applied' = Nothing /\ base' = 0
  /\ writeQueue' = <<>> /\ failed' = FALSE /\ removing' = {} /\ due' = {}

\* The program ends after the last write of a destroyed store.
Stop ==
  /\ Quiet
  /\ life = "closing"
  /\ writeQueue = <<>>
  /\ removing = {}
  /\ Gone
  /\ UNCHANGED <<laneVars, flush, pull, retryVars, storageVars, remoteVars,
                 ghostVars, boundVars>>

\* The program ends at any moment.
Crash ==
  /\ life # "down"
  /\ Fault("crash")
  /\ Gone
  /\ Abandoned
  /\ UNCHANGED <<storageVars, ghostVars>>

-----------------------------------------------------------------------------
(* Sending the outbox.                                                     *)

\* doFlush after its await: what has not been sent by this flush is sent, and
\* the flush is over when there is nothing.
Send(r) ==
  /\ life = "ready"
  /\ r \in due
  /\ r.who = "flush"
  /\ due' = due \ {r}
  /\ LET submitted == ToSet(outbox) \ flush.attempted IN
       \/ /\ r.ok
          /\ submitted # {}
          /\ flush' = [flush EXCEPT !.pc = "pushing", !.sent = submitted,
                                    !.attempted = @ \cup submitted,
                                    !.moved = FALSE]
          /\ UNCHANGED timer
       \/ /\ r.ok
          /\ submitted = {}
          /\ flush' = NoFlush
          /\ timer' = (flush.declined \/ pullOwed)
       \/ /\ ~r.ok
          /\ flush' = NoFlush
          /\ Retry
  /\ UNCHANGED <<life, storeVars, writeQueue, failed, removing, laneVars, pull,
                 pullOwed, storageVars, remoteVars, ghostVars, boundVars>>

\* Mutations the remote may leave out of its acknowledgement.
Declinable(sent) == IF "decline" \in Faults THEN SUBSET sent ELSE {{}}

\* The remote takes what it was sent, and answers with its state or without.
RemoteTakes ==
  /\ Quiet
  /\ flush.pc = "pushing"
  /\ \E left \in Declinable(flush.sent) :
       LET ack == flush.sent \ left IN
         /\ IF left = {} THEN UNCHANGED boundVars ELSE Fault("decline")
         /\ taken' = taken \cup ack
         /\ \E fact \in {0, server} :
              flush' = [flush EXCEPT !.pc = "answered", !.ack = ack,
                                     !.fact = fact]
  /\ UNCHANGED <<life, storeVars, writeVars, laneVars, pull, retryVars,
                 storageVars, server, events, ghostVars>>

\* flush gives up, and the retry schedule owns what happens next.
GiveUpFlush ==
  /\ flush' = NoFlush
  /\ Retry
  /\ UNCHANGED <<life, storeVars, writeVars, laneVars, pull, pullOwed,
                 storageVars, remoteVars, ghostVars>>

\* A push fails before it reaches the remote, or its answer is lost.
FailPush ==
  /\ Quiet
  /\ flush.pc \in {"pushing", "answered"}
  /\ Fault("push")
  /\ GiveUpFlush

\* readRemoteResult: the answer is refused as a whole, what it acknowledges
\* included, though the remote has taken it.
RefuseAnswer ==
  /\ Quiet
  /\ flush.pc = "answered"
  /\ Fault("malformed")
  /\ GiveUpFlush

\* The answer of a push arrives.  The state in it counts unless another remote
\* result has arrived since the push was sent; the acknowledgement always does.
ReceivePush ==
  /\ Quiet
  /\ flush.pc = "answered"
  /\ lane' = Append(lane, [who |-> "push", ack |-> flush.ack,
                           fact |-> IF flush.moved THEN 0 ELSE flush.fact])
  /\ pullOwed' = (pullOwed \/ flush.moved)
  /\ pull' = [pull EXCEPT !.moved = (pull.pc # "idle")]
  /\ flush' = [flush EXCEPT !.pc = "applying", !.ack = {}, !.fact = 0,
                 !.moved = FALSE, !.declined = @ \/ flush.ack # flush.sent]
  /\ UNCHANGED <<life, storeVars, writeVars, busy, timer, storageVars,
                 remoteVars, ghostVars, boundVars>>

\* sync.flush() of the application.
UserFlush ==
  /\ "flush" \in UserCalls
  /\ Quiet
  /\ life = "ready"
  /\ flush.pc = "idle"
  /\ Flush(writeQueue, due)
  /\ UNCHANGED <<life, storeVars, failed, removing, laneVars, pull, retryVars,
                 storageVars, remoteVars, ghostVars, boundVars>>

-----------------------------------------------------------------------------
(* Asking the remote, and hearing from it.                                 *)

\* A push is out, and what was known when it was sent may change.
InFlight == flush.pc \in {"pushing", "answered"}

\* Another client of the remote writes.
RemoteWrite ==
  /\ server < MaxFacts
  /\ server' = server + 1
  /\ UNCHANGED <<life, storeVars, writeVars, laneVars, flush, pull, retryVars,
                 storageVars, events, taken, ghostVars, boundVars>>

\* The subscription delivers the next fact, to a hydrated store.
Event ==
  /\ Realtime
  /\ Quiet
  /\ life = "ready"
  /\ events < server
  /\ events' = events + 1
  /\ lane' = Append(lane, [who |-> "event", fact |-> events', ack |-> {}])
  /\ flush' = [flush EXCEPT !.moved = InFlight]
  /\ pull' = [pull EXCEPT !.moved = (pull.pc # "idle")]
  /\ UNCHANGED <<life, storeVars, writeVars, busy, retryVars, storageVars,
                 server, taken, ghostVars, boundVars>>

Asking(attempt, resume) ==
  [NoPull EXCEPT !.pc = "asking", !.attempt = attempt, !.resume = resume]

\* sync.pull() of the application: one pull at a time.
UserPull ==
  /\ "pull" \in UserCalls
  /\ Quiet
  /\ life = "ready"
  /\ pull.pc = "idle"
  /\ pull' = Asking(0, FALSE)
  /\ UNCHANGED <<life, storeVars, writeVars, laneVars, flush, retryVars,
                 storageVars, remoteVars, ghostVars, boundVars>>

RemoteAnswersPull ==
  /\ Quiet
  /\ pull.pc = "asking"
  /\ pull' = [pull EXCEPT !.pc = "answered", !.fact = server]
  /\ UNCHANGED <<life, storeVars, writeVars, laneVars, flush, retryVars,
                 storageVars, remoteVars, ghostVars, boundVars>>

FailPull ==
  /\ Quiet
  /\ pull.pc \in {"asking", "answered"}
  /\ Fault("pull")
  /\ pull' = NoPull
  /\ pullOwed' = TRUE
  /\ Retry
  /\ UNCHANGED <<life, storeVars, writeVars, laneVars, flush, storageVars,
                 remoteVars, ghostVars>>

ReceivePull ==
  /\ Quiet
  /\ pull.pc = "answered"
  /\ lane' = Append(lane, [who |-> "pull", fact |-> pull.fact, ack |-> {}])
  /\ pull' = [pull EXCEPT !.pc = "applying", !.fact = 0]
  /\ UNCHANGED <<life, storeVars, writeVars, busy, flush, retryVars,
                 storageVars, remoteVars, ghostVars, boundVars>>

\* The retry timer fires: the pull that is owed, then a flush.
FireTimer ==
  /\ Quiet
  /\ life = "ready"
  /\ timer
  /\ timer' = FALSE
  /\ IF pullOwed
     THEN /\ pull' = IF pull.pc = "idle" THEN Asking(0, TRUE)
                                         ELSE [pull EXCEPT !.resume = TRUE]
          /\ UNCHANGED <<flush, writeQueue, due>>
     ELSE /\ Flush(writeQueue, due)
          /\ UNCHANGED pull
  /\ UNCHANGED <<life, storeVars, failed, removing, laneVars, pullOwed,
                 storageVars, remoteVars, ghostVars, boundVars>>

-----------------------------------------------------------------------------
(* The lane of remote results.                                             *)

LaneReady == lane # <<>> /\ busy = "no"

\* Mutant: the answer of a pull is never out of date.
MutantOutdated(result) == FALSE

\* The answer of a pull that was computed before another result arrived.
Outdated(result) == result.who = "pull" /\ pull.moved

\* ... is not applied; the pull asks again, or is owed and ends without error,
\* so that the flush that follows it is made.
Discard ==
  /\ LaneReady
  /\ Outdated(Head(lane))
  /\ lane' = Tail(lane)
  /\ IF pull.attempt < PullAttempts
     THEN /\ pull' = Asking(pull.attempt + 1, pull.resume)
          /\ UNCHANGED <<retryVars, flush, writeQueue, due>>
     ELSE /\ pull' = NoPull
          /\ pullOwed' = TRUE
          /\ Retry
          /\ IF pull.resume THEN Flush(writeQueue, due)
                            ELSE UNCHANGED <<flush, writeQueue, due>>
  /\ UNCHANGED <<life, storeVars, failed, removing, busy, storageVars,
                 remoteVars, ghostVars, boundVars>>

\* remoteEpoch moves when the answer of a pull is taken.
PullMoves(result) ==
  flush' = IF result.who = "pull" THEN [flush EXCEPT !.moved = InFlight]
                                  ELSE flush

\* Mutant: what is dropped is not rolled back.
MutantRebase(fact, pending) ==
  IF fact = 0
  THEN outbox' = pending /\ UNCHANGED <<applied, base, dropped>>
  ELSE \E gone \in Droppable(pending) :
         /\ outbox' = Without(pending, gone)
         /\ base' = fact
         /\ dropped' = dropped \cup gone
         /\ UNCHANGED applied

\* rebase: pending mutations are rolled back, the remote patches applied, and
\* the mutations that still apply are replayed.
Rebase(fact, pending) ==
  IF fact = 0
  THEN outbox' = pending /\ UNCHANGED <<applied, base, dropped>>
  ELSE \E gone \in Droppable(pending) :
         /\ outbox' = Without(pending, gone)
         /\ applied' = [m \in Mutations |-> IF m \in gone THEN applied[m] - 1
                                                          ELSE applied[m]]
         /\ base' = fact
         /\ dropped' = dropped \cup gone

\* applyRemoteResult up to its await: rebase without what is acknowledged, and
\* write the checkpoint.
Apply ==
  /\ LaneReady
  /\ ~Outdated(Head(lane))
  /\ Rebase(Head(lane).fact, Without(outbox, Head(lane).ack))
  /\ PullMoves(Head(lane))
  /\ writeQueue' = Persisted("lane")
  /\ \/ busy' = "writing" /\ UNCHANGED boundVars
     \/ busy' = "threw" /\ Head(lane).fact # 0 /\ Fault("throw")
  /\ UNCHANGED <<life, failed, removing, due, lane, pull, retryVars,
                 storageVars, remoteVars, made, durable, cleared, revived>>

\* Whoever sent the request that this result answers goes on.
Resume(result, ok, queue, pending) ==
  \/ /\ result.who = "push"
     /\ ok
     /\ flush' = [flush EXCEPT !.pc = "waiting", !.sent = {}]
     /\ Await(queue, pending)
     /\ UNCHANGED <<pull, retryVars>>
  \/ /\ result.who = "push"
     /\ ~ok
     /\ flush' = NoFlush
     /\ writeQueue' = queue /\ due' = pending
     /\ Retry
     /\ UNCHANGED <<pull, pullOwed>>
  \/ /\ result.who = "pull"
     /\ ok
     /\ pull' = NoPull
     /\ pullOwed' = FALSE
     /\ timer' = FALSE
     /\ IF pull.resume
        THEN Flush(queue, pending)
        ELSE writeQueue' = queue /\ due' = pending /\ UNCHANGED flush
  \/ /\ result.who = "pull"
     /\ ~ok
     /\ pull' = NoPull
     /\ pullOwed' = TRUE
     /\ Retry
     /\ writeQueue' = queue /\ due' = pending
     /\ UNCHANGED flush
  \/ /\ result.who = "event"
     /\ IF ok THEN UNCHANGED timer ELSE Retry
     /\ writeQueue' = queue /\ due' = pending
     /\ UNCHANGED <<flush, pull, pullOwed>>

\* The rebase throws before it has written: store and outbox are untouched.
Refuse ==
  /\ LaneReady
  /\ ~Outdated(Head(lane))
  /\ Head(lane).fact # 0
  /\ Fault("refuse")
  /\ lane' = Tail(lane)
  /\ IF Head(lane).who = "pull"
     THEN /\ pull' = NoPull /\ pullOwed' = TRUE /\ Retry
          /\ PullMoves(Head(lane))
          /\ UNCHANGED <<writeQueue, due>>
     ELSE Resume(Head(lane), FALSE, writeQueue, due)
  /\ UNCHANGED <<life, storeVars, failed, removing, busy, storageVars,
                 remoteVars, ghostVars>>

\* applyRemoteResult after its await.
Applied(r) ==
  /\ life = "ready"
  /\ r \in due
  /\ r.who = "lane"
  /\ lane' = Tail(lane)
  /\ busy' = "no"
  /\ Resume(Head(lane), r.ok /\ busy = "writing", writeQueue, due \ {r})
  /\ UNCHANGED <<life, storeVars, failed, removing, storageVars, remoteVars,
                 ghostVars, boundVars>>

-----------------------------------------------------------------------------
(* Specification.                                                          *)

Continuation(r) ==
  \/ Drained(r)
  \/ CommitWritten(r)
  \/ StartWritten(r)
  \/ ClearWritten(r)
  \/ Send(r)
  \/ Applied(r)
  \/ Ended(r)

\* What the program does by itself, and storage and the remote without fail.
Progress ==
  \/ \E r \in due : Continuation(r)
  \/ StartWrite
  \/ FinishHydration
  \/ Discard
  \/ Apply
  \/ FinishWrite
  \/ \E who \in removing : FinishRemoval(who)
  \/ ReadState
  \/ Hydrate
  \/ RemoteTakes
  \/ ReceivePush
  \/ RemoteAnswersPull
  \/ ReceivePull
  \/ Event
  \/ FireTimer
  \/ Stop

Failures ==
  \/ FailWrite
  \/ \E who \in removing : FailRemoval(who)
  \/ FailRead
  \/ RefuseStored
  \/ FailPush
  \/ RefuseAnswer
  \/ FailPull
  \/ Refuse
  \/ Crash

UserNext ==
  \/ Start
  \/ Commit
  \/ ClearPending
  \/ UserFlush
  \/ UserPull
  \/ Destroy
  \/ RemoteWrite

Next == (Progress \/ Failures \/ UserNext) /\ UNCHANGED setup

Spec == Init /\ [][Next]_vars

-----------------------------------------------------------------------------
(* Properties.                                                             *)

Pending == ToSet(outbox)

\* A mutation that has reached storage is in storage, and in the outbox of a
\* hydrated store, until the remote has taken it, it has lost a conflict or
\* the application has given it up: whatever crashes, fails or is lost
\* (persist, persistPreHydration, hydration, applyRemoteResult).
NothingLost ==
  \A m \in durable \ (taken \cup dropped \cup cleared) :
    /\ m \in ToSet(main.outbox) \cup ToSet(journal)
    /\ life = "ready" => m \in Pending

\* What the store shows is what the remote has, and what is pending, and it
\* applies it once: no optimistic change stays that nobody will send, no
\* mutation is sent that the store does not show, and none is applied twice by
\* rebases, replays and restarts (rebase, hydration, the commit listener).
\* Only a mutation that hydration has found in a journal left behind, after it
\* was acknowledged or cleared, is applied again (revived).
ShownIsPendingOrTaken ==
  Open => /\ \A m \in Pending : applied[m] > 0
          /\ \A m \in Mutations \ (taken \cup cleared) :
               applied[m] > 0 => m \in Pending
          /\ \A m \in Mutations \ revived : applied[m] <= 1
          /\ revived \subseteq taken \cup cleared

\* Each mutation is a delta from the one before: the outbox keeps those that
\* are neither taken nor given up in the order they were made, through the
\* journal, restarts and rebases (hydration, mergeMutationsById, the commit
\* listener).
OutboxInOrder ==
  LET owed == Without(outbox, taken \cup dropped \cup cleared) IN
    \A i, j \in DOMAIN owed : i < j => owed[i] < owed[j]

\* An answer of a push or a pull is never applied over a newer fact, whatever
\* arrives or is applied while it is on its way (remoteLane, remoteEpoch).  An
\* event is applied as it comes: one that arrives after an answer that held
\* its fact is the only thing that takes the store back (subscribe).
AnswersNeverRewind ==
  [][life = "ready" /\ life' = "ready" /\ base' < base =>
       lane # <<>> /\ Head(lane).who = "event"]_vars

Fairness == WF_vars(Progress /\ UNCHANGED setup)

FairSpec == Spec /\ Fairness

\* Storage does not fail, and the application does nothing but act on the store.
Undisturbed == "write" \notin Faults /\ UserCalls = {}

\* A pending mutation is taken by the remote in the end, unless the program
\* ends first or a conflict drops it: whatever pushes, pulls, rebases and
\* events fail or meet, a retry is owed (scheduleRetry, flush, pullOwed).
Delivers ==
  \A m \in Mutations :
    Undisturbed /\ m \in Pending ~> \/ m \in taken \cup dropped
                                   \/ life \in {"down", "failed"}

=============================================================================
