---------------------------- MODULE StoreCommits ----------------------------
(***************************************************************************)
(* One store, its writes and its observers (packages/core/src:             *)
(* notifications.ts, storeFactory.ts, storeCommit.ts, handleState.ts).     *)
(*                                                                         *)
(* The program is sequential, and its difficulty is reentrancy: a commit   *)
(* listener or a subscriber is user code that runs in the middle of a      *)
(* write, and may itself write, replay, subscribe, unsubscribe, destroy    *)
(* the store or throw.  The call stack is therefore part of the state: a   *)
(* "run" frame is a call of notifications.run, a "callback" frame is user  *)
(* code that a run frame has called.  Only the outermost run frame finds   *)
(* depth = -1.                                                             *)
(*                                                                         *)
(* The body of a write is one step: it runs at depth 1, where no observer  *)
(* is called.  A state is the number of commits that lead to it.  Effects  *)
(* of the signal library are left out.                                     *)
(***************************************************************************)
EXTENDS Integers, Sequences, FiniteSets

CONSTANTS
  CommitListeners,   \* callbacks given to onStoreCommit
  Subscribers,       \* callbacks given to store.subscribe
  Transport,         \* the callback that hands patches to the transport
  MaxCalls           \* bound: calls of run, nested ones included

ASSUME CallsAssumption ==
  /\ MaxCalls \in Nat
  /\ Transport \notin CommitListeners

Operations == {"setState", "replay", "apply", "destroy"}

Sources == {"none", "setState", "replay", "external"}

VARIABLES
  log,                 \* the commits: what made each, and its commit.source
  onCommit,            \* commits.listeners, in order of registration
  onChange,            \* internal.listeners, in order of registration
  commits,             \* notifications: commit callbacks still to be run
  listeners,           \* notifications: subscriber callbacks still to be run
  failure,             \* notifications: whether an observer has thrown
  pendingCommitSource, \* handleState: "replay" or "none"
  destroyed,           \* isDestroyed
  sequence,            \* internal.sequence: updates sent to the transport
  received,            \* per commit listener: the last commit it was told of
  told,                \* ... and how often it was told, with the commits before it joined
  seen,                \* per subscriber: number of commits when last called
  stack,               \* the frames, innermost last
  calls                \* number of calls of run so far

queues == <<commits, listeners>>
registered == <<onCommit, onChange>>
observed == <<sequence, received, told, seen>>
vars == <<log, registered, queues, failure, pendingCommitSource, destroyed,
          observed, stack, calls>>

-----------------------------------------------------------------------------
(* Data.                                                                   *)

Commits == [op: Operations \ {"destroy"}, source: Sources \ {"none"}]

RunFrames ==
  [kind: {"run"}, op: Operations, pc: {"before", "after"}, outer: BOOLEAN,
   saved: {"none", "replay"}]

CallbackFrames == [kind: {"callback"}, who: CommitListeners \cup Subscribers]

Deliveries == [who: CommitListeners \cup {Transport}, commit: Nat]

TypeOK ==
  /\ log \in Seq(Commits)
  /\ onCommit \in Seq(CommitListeners)
  /\ onChange \in Seq(Subscribers)
  /\ commits \in Seq(Deliveries)
  /\ listeners \in Seq(Subscribers)
  /\ failure \in BOOLEAN
  /\ pendingCommitSource \in {"none", "replay"}
  /\ destroyed \in BOOLEAN
  /\ sequence \in Nat
  /\ received \in [CommitListeners -> Nat]
  /\ told \in [CommitListeners -> Nat]
  /\ seen \in [Subscribers -> Nat]
  /\ stack \in Seq(RunFrames \cup CallbackFrames)
  /\ calls \in 0..MaxCalls

Elements(s) == {s[i] : i \in DOMAIN s}

\* Set.delete: the one entry that is x is left out, and the order is kept.
Without(s, x) ==
  LET at == CHOOSE i \in DOMAIN s : s[i] = x
  IN [i \in 1 .. Len(s) - 1 |-> IF i < at THEN s[i] ELSE s[i + 1]]

Init ==
  /\ log = <<>>
  /\ onCommit = <<>>
  /\ onChange = <<>>
  /\ commits = <<>>
  /\ listeners = <<>>
  /\ failure = FALSE
  /\ pendingCommitSource = "none"
  /\ destroyed = FALSE
  /\ sequence = 0
  /\ received = [l \in CommitListeners |-> 0]
  /\ told = received
  /\ seen = [s \in Subscribers |-> 0]
  /\ stack = <<>>
  /\ calls = 0

-----------------------------------------------------------------------------
(* The stack.                                                              *)

AtRest == stack = <<>>

Top == stack[Len(stack)]

Below == SubSeq(stack, 1, Len(stack) - 1)

InCallback == stack # <<>> /\ Top.kind = "callback"

InRun(pc) == stack # <<>> /\ Top.kind = "run" /\ Top.pc = pc

\* User code: the program's own, or an observer the store has called.
UserCode == AtRest \/ InCallback

Goto(pc) == Append(Below, [Top EXCEPT !.pc = pc])

-----------------------------------------------------------------------------
(* What user code may do.                                                  *)

\* replayStorePatches finds no replayer once the store is destroyed; the other
\* calls are refused when their body runs.
MayCall(op) == op = "replay" => ~destroyed

\* setState, replayStorePatches, store.apply or store.destroy: notifications
\* .run is entered.  A replay has announced its source before.
Call(op) ==
  /\ UserCode
  /\ calls < MaxCalls
  /\ MayCall(op)
  /\ calls' = calls + 1
  /\ pendingCommitSource' = IF op = "replay" THEN "replay"
                                             ELSE pendingCommitSource
  /\ stack' = Append(stack, [kind |-> "run", op |-> op, pc |-> "before",
                             outer |-> AtRest, saved |-> pendingCommitSource])
  /\ UNCHANGED <<log, registered, queues, failure, destroyed, observed>>

\* Who has left may still be in the queue.
Queued(l) == \E i \in DOMAIN commits : commits[i].who = l

\* Mutant: the listeners are a list, and one that registers again is in it twice.
MutantListenToCommits(l) ==
  /\ UserCode
  /\ ~destroyed
  /\ onCommit' = Append(onCommit, l)
  /\ received' = [received EXCEPT ![l] = Len(log)]
  /\ told' = [told EXCEPT ![l] = Len(log)]
  /\ UNCHANGED <<log, onChange, queues, failure, pendingCommitSource, destroyed,
                 sequence, seen, stack, calls>>

\* onStoreCommit.
ListenToCommits(l) ==
  /\ UserCode
  /\ ~destroyed
  /\ l \notin Elements(onCommit)
  /\ onCommit' = Append(onCommit, l)
  /\ IF Queued(l)
     THEN UNCHANGED <<received, told>>
     ELSE /\ received' = [received EXCEPT ![l] = Len(log)]
          /\ told' = [told EXCEPT ![l] = Len(log)]
  /\ UNCHANGED <<log, onChange, queues, failure, pendingCommitSource, destroyed,
                 sequence, seen, stack, calls>>

StopListening(l) ==
  /\ UserCode
  /\ l \in Elements(onCommit)
  /\ onCommit' = Without(onCommit, l)
  /\ UNCHANGED <<log, onChange, queues, failure, pendingCommitSource, destroyed,
                 observed, stack, calls>>

\* store.subscribe.
Subscribe(s) ==
  /\ UserCode
  /\ ~destroyed
  /\ s \notin Elements(onChange)
  /\ onChange' = Append(onChange, s)
  /\ seen' = [seen EXCEPT ![s] = Len(log)]
  /\ UNCHANGED <<log, onCommit, queues, failure, pendingCommitSource, destroyed,
                 sequence, received, told, stack, calls>>

Unsubscribe(s) ==
  /\ UserCode
  /\ s \in Elements(onChange)
  /\ onChange' = Without(onChange, s)
  /\ UNCHANGED <<log, onCommit, queues, failure, pendingCommitSource, destroyed,
                 observed, stack, calls>>

\* The observer returns, or throws: the first error is kept.
Return ==
  /\ InCallback
  /\ stack' = Below
  /\ UNCHANGED <<log, registered, queues, failure, pendingCommitSource,
                 destroyed, observed, calls>>

\* Mutant: the error of an observer ends the loop over the subscribers.
MutantThrow ==
  /\ InCallback
  /\ stack' = Below
  /\ failure' = TRUE
  /\ listeners' = <<>>
  /\ UNCHANGED <<log, registered, commits, pendingCommitSource, destroyed,
                 observed, calls>>

Throw ==
  /\ InCallback
  /\ stack' = Below
  /\ failure' = TRUE
  /\ UNCHANGED <<log, registered, queues, pendingCommitSource, destroyed,
                 observed, calls>>

-----------------------------------------------------------------------------
(* notifications.run.                                                      *)

\* drainCommits, before the body, after it, and after each subscriber.
Drain ==
  /\ stack # <<>>
  /\ Top.kind = "run"
  /\ commits # <<>>
  /\ LET next == Head(commits) IN
       \/ /\ next.who = Transport
          /\ sequence' = sequence + 1
          /\ UNCHANGED <<received, told, stack>>
       \/ /\ next.who # Transport
          /\ received' = [received EXCEPT ![next.who] = next.commit]
          /\ told' = [told EXCEPT ![next.who] = @ + 1]
          /\ stack' = Append(stack, [kind |-> "callback", who |-> next.who])
          /\ UNCHANGED sequence
  /\ commits' = Tail(commits)
  /\ UNCHANGED <<log, registered, listeners, failure, pendingCommitSource,
                 destroyed, seen, calls>>

\* The body is reached when every commit before it has been delivered.
AtBody(op) == InRun("before") /\ Top.op = op /\ commits = <<>>

\* setState takes the source a replay has announced, and clears it.
CommitSource(op) ==
  CASE op = "apply" -> "external"
    [] pendingCommitSource = "replay" -> "replay"
    [] OTHER -> "setState"

SourceTaken(op) ==
  pendingCommitSource' = IF op = "apply" THEN pendingCommitSource ELSE "none"

\* publishCommit: the transport first, then the listeners of now.
Published(n) ==
  [i \in 1 .. Len(onCommit) + 1 |->
     [who |-> IF i = 1 THEN Transport ELSE onCommit[i - 1], commit |-> n]]

\* The write commits: notifyStateChange, then publishCommit.
Commit(op) ==
  /\ AtBody(op)
  /\ op # "destroy"
  /\ ~destroyed
  /\ log' = Append(log, [op |-> op, source |-> CommitSource(op)])
  /\ SourceTaken(op)
  /\ listeners' = listeners \o onChange
  /\ commits' = commits \o Published(Len(log) + 1)
  /\ stack' = Goto("after")
  /\ UNCHANGED <<registered, failure, destroyed, observed, calls>>

\* The write changes nothing.  A replacement is announced to subscribers all
\* the same, and has no patches to publish.
Unchanged(op) ==
  /\ AtBody(op)
  /\ op # "destroy"
  /\ ~destroyed
  /\ SourceTaken(op)
  /\ listeners' = IF op = "apply" THEN listeners \o onChange ELSE listeners
  /\ stack' = Goto("after")
  /\ UNCHANGED <<log, registered, commits, failure, destroyed, observed, calls>>

\* The write is refused: by the recipe, by a validator, by its arguments, or
\* because the store is destroyed.
Refuse(op) ==
  /\ AtBody(op)
  /\ op # "destroy"
  /\ SourceTaken(op)
  /\ stack' = Goto("after")
  /\ UNCHANGED <<log, registered, queues, failure, destroyed, observed, calls>>

\* disposeStoreCommitRuntime: who listens to commits is forgotten, but not what
\* is queued for them.
ForgetListeners == onCommit' = <<>>

\* destroy: the observers are forgotten.
Destroy ==
  /\ AtBody("destroy")
  /\ destroyed' = TRUE
  /\ ForgetListeners
  /\ onChange' = <<>>
  /\ stack' = Goto("after")
  /\ UNCHANGED <<log, queues, failure, pendingCommitSource, observed, calls>>

\* The outermost run calls the subscribers, one after the other.
Flush ==
  /\ InRun("after")
  /\ Top.outer
  /\ commits = <<>>
  /\ listeners # <<>>
  /\ listeners' = Tail(listeners)
  /\ seen' = [seen EXCEPT ![Head(listeners)] = Len(log)]
  /\ stack' = Append(stack, [kind |-> "callback", who |-> Head(listeners)])
  /\ UNCHANGED <<log, registered, commits, failure, pendingCommitSource,
                 destroyed, sequence, received, told, calls>>

\* Mutant: the error that run throws is kept for the next run.
MutantFinish ==
  /\ InRun("after")
  /\ commits = <<>>
  /\ Top.outer => listeners = <<>>
  /\ pendingCommitSource' = IF Top.op = "replay" THEN Top.saved
                                                 ELSE pendingCommitSource
  /\ stack' = Below
  /\ UNCHANGED <<log, registered, queues, failure, destroyed, observed, calls>>

\* run returns, or throws what it has collected if it is the outermost.
Finish ==
  /\ InRun("after")
  /\ commits = <<>>
  /\ Top.outer => listeners = <<>>
  /\ failure' = IF Top.outer THEN FALSE ELSE failure
  /\ pendingCommitSource' = IF Top.op = "replay" THEN Top.saved
                                                 ELSE pendingCommitSource
  /\ stack' = Below
  /\ UNCHANGED <<log, registered, queues, destroyed, observed, calls>>

-----------------------------------------------------------------------------
(* Specification.                                                          *)

RunNext ==
  \/ Drain
  \/ \E op \in Operations : Commit(op) \/ Unchanged(op) \/ Refuse(op)
  \/ Destroy
  \/ Flush
  \/ Finish

UserNext ==
  \/ \E op \in Operations : Call(op)
  \/ \E l \in CommitListeners : ListenToCommits(l) \/ StopListening(l)
  \/ \E s \in Subscribers : Subscribe(s) \/ Unsubscribe(s)
  \/ Return
  \/ Throw

Next == RunNext \/ UserNext

Spec == Init /\ [][Next]_vars

-----------------------------------------------------------------------------
(* Properties.                                                             *)

Log == INSTANCE CommitLog WITH made <- Len(log),
                               listening <- Elements(onCommit)

\* docs/reference/core-api-notes.md: "A reentrant write completes delivery of
\* the preceding commit first."  However writes nest, every listener is told
\* of every commit made since it registered, once, in order, and before the
\* next commit is made (notifications.run).
ImplementsLog == Log!Spec

\* When no write is in progress nothing is left to deliver or to report, and the
\* transport has numbered every commit: an observer that threw, wrote, or
\* destroyed the store does not leave its mark on the next write, nor on the
\* sequence the next snapshot is labelled with (notifications.run, publishCommit).
NothingLeftBehind ==
  AtRest => /\ commits = <<>>
            /\ listeners = <<>>
            /\ ~failure
            /\ pendingCommitSource = "none"
            /\ sequence = Len(log)

\* When no write is in progress every subscriber has been called since the
\* last commit, whichever observers threw (notifyStateChange, run).
SubscribersAreCurrent ==
  AtRest => \A s \in Elements(onChange) : seen[s] = Len(log)

=============================================================================
