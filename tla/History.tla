------------------------------ MODULE History ------------------------------
(***************************************************************************)
(* Undo and redo of a store (packages/coaction-history/src/index.ts), with *)
(* its three ways of recording:                                            *)
(*                                                                         *)
(*   "journal"    patches, kept by the journal of the travels library, of  *)
(*                the whole store or of a projection of it (partialize);   *)
(*   "snapshots"  what a journal turns into when the tracked state can no  *)
(*                longer be represented by patches;                        *)
(*   "legacy"     snapshots from the start, if the first state cannot be.  *)
(*                                                                         *)
(* The program is sequential; what is hard is that observers are called in *)
(* the middle of every write, of every undo and of every hydration, and    *)
(* may write, undo, redo and clear themselves.  stack holds the calls that *)
(* are not through.  The listeners of a commit are called before the call  *)
(* that made it returns, the subscribers when the outermost call is        *)
(* through (notifications.ts).  History hears of a commit before another   *)
(* write can be made, so a write and what history records of its commit    *)
(* are one step.                                                           *)
(*                                                                         *)
(* Left out: the representation of states and patches; an undo or a clear  *)
(* called while another undo or a hydration is under way, and a value that *)
(* patches cannot represent written then; a write that is refused; destroy.*)
(***************************************************************************)
EXTENDS Integers, Sequences, SequencesExt

CONSTANTS
  Keys,         \* keys of the store
  Values,       \* values of a key
  Odd,          \* the values that patches cannot represent
  Initial,      \* the values of a new store
  Projections,  \* what partialize may select
  Limit,
  MaxWrites,    \* bound: writes
  MaxMoves,     \* bound: calls of undo, redo and clear
  MaxDepth,     \* bound: calls under way
  Faults        \* what may go wrong: the write of a move is refused; a subscriber
                \* throws, also ("lose") in a setState or a move; the legacy history
                \* is called in the middle of a call ("nested")

ASSUME HistoryAssumption ==
  /\ Odd \subseteq Values
  /\ Initial \subseteq Values
  /\ Projections \subseteq SUBSET Keys
  /\ {Limit, MaxWrites, MaxMoves, MaxDepth} \subseteq Nat
  /\ Faults \subseteq {"refuse", "throw", "lose", "nested"}

VARIABLES
  tracked,    \* the keys that history follows
  engine,     \* "journal", "snapshots" or "legacy"
  state,      \* the store
  entries,    \* journal.getHistoryEntries
  position,   \* journal.getPosition
  present,    \* journal.getState, snapshotCurrent or lastSnapshot
  past,       \* snapshotPast
  future,     \* snapshotFuture
  recording,  \* isSetStateRecording
  traveling,  \* isTimeTraveling
  stack,      \* the calls under way
  waiting,    \* the subscribers to be called
  failed,     \* whether an observer has thrown
  meddled,    \* whether an observer has written in an undo or redo that is under
              \* way, or that the journal still has patches of
  writes,     \* number of writes
  moves       \* number of calls of undo, redo and clear

journal == <<entries, position>>
snapshots == <<past, future>>
timeline == <<engine, journal, present, snapshots>>
flags == <<recording, traveling>>
calls == <<stack, waiting, failed>>
vars == <<tracked, state, timeline, flags, calls, meddled, writes, moves>>

Whole == tracked = Keys

-----------------------------------------------------------------------------
(* Data.                                                                   *)

Snapshot == [tracked -> Values]

Compatible(s) == \A k \in DOMAIN s : s[k] \notin Odd

\* toHistoryState, toHistorySnapshot.
Projected(s) == [k \in tracked |-> s[k]]

\* s with the keys of patches replaced.
Patched(s, patches) ==
  [k \in DOMAIN s |-> IF k \in DOMAIN patches THEN patches[k] ELSE s[k]]

\* The patches that lead from s to t.
Patches(s, t) == [k \in {k \in DOMAIN s : s[k] # t[k]} |-> t[k]]

Entry(s, t) == [patches |-> Patches(s, t), inverse |-> Patches(t, s)]

\* A list that has grown, and is shifted when it is longer than the limit.
Newest(list) ==
  SubSeq(list, IF Len(list) > Limit THEN 2 ELSE 1, Len(list))

-----------------------------------------------------------------------------
(* The timeline.                                                           *)

\* The states that patches lead to from s, one after the other.
Steps(s, patches) ==
  LET t[i \in 0..Len(patches)] == IF i = 0 THEN s ELSE Patched(t[i - 1], patches[i])
  IN  [i \in 1..Len(patches) |-> t[i]]

\* materialize, of what lies before and after the cursor.
Before ==
  Reverse(Steps(present, [i \in 1..position |-> entries[position + 1 - i].inverse]))

After ==
  Reverse(Steps(present,
                [i \in 1..(Len(entries) - position) |-> entries[position + i].patches]))

\* journal.recordPatches.
RecordPatches(s) ==
  /\ entries' = Newest(Append(SubSeq(entries, 1, position), Entry(present, s)))
  /\ position' = Len(entries')
  /\ present' = s
  /\ UNCHANGED <<engine, snapshots>>

\* recordSnapshotState, on a timeline of snapshots with older behind it.
RecordSnapshot(older, s) ==
  /\ IF s # present
     THEN past' = Newest(Append(older, present)) /\ future' = <<>>
     ELSE past' = older /\ UNCHANGED future
  /\ present' = s
  /\ UNCHANGED journal

\* recordChange of the legacy history, which compares with what was seen before.
RecordChange(before, s) ==
  /\ IF s # before
     THEN past' = Newest(Append(past, before)) /\ future' = <<>>
     ELSE UNCHANGED snapshots
  /\ present' = s
  /\ UNCHANGED <<engine, journal>>

\* switchToSnapshotCompatibility.
Switch(s) ==
  /\ engine' = "snapshots"
  /\ RecordSnapshot(Before, s)

\* beginSnapshotCompatibility.
Begin ==
  /\ engine' = "snapshots"
  /\ past' = Before
  /\ future' = <<>>
  /\ UNCHANGED <<journal, present>>

\* recordCommit, of the write of one key.
RecordCommit(s, odd) ==
  IF odd THEN Switch(s) ELSE RecordPatches(s)

\* recordProjectedState or recordSnapshotState of the store.
RecordState ==
  LET s == Projected(state) IN
    IF engine = "snapshots" THEN RecordSnapshot(past, s) /\ UNCHANGED engine
    ELSE IF ~Compatible(s) THEN Switch(s)
    ELSE IF s # present THEN RecordPatches(s)
    ELSE UNCHANGED timeline

\* The legacy history only takes the store for what it has seen.
Look ==
  /\ present' = Projected(state)
  /\ UNCHANGED <<engine, journal, snapshots>>

\* The end of runWithoutRecording.
Restart ==
  IF engine = "legacy" THEN Look
  ELSE /\ present' = Projected(state)
       /\ entries' = <<>> /\ position' = 0
       /\ past' = <<>> /\ future' = <<>>
       /\ UNCHANGED engine

-----------------------------------------------------------------------------
(* Calls.                                                                  *)

\* A call, what the wrapped setState of the legacy history saw before it, and
\* where a move goes.  "commits": the listeners of its commit are called;
\* "subscribers": all that is left is to call subscribers; "refused": the
\* write of a move was refused.
Call(kind) ==
  [kind |-> kind, before |-> Projected(state), target |-> Projected(state),
   at |-> "commits"]

Top == Last(stack)

UnderWay(kinds) == \E i \in DOMAIN stack : stack[i].kind \in kinds

Suppressed == UnderWay({"hydrate"})

\* The program runs: nothing is under way, or an observer has been called.
UserCode ==
  stack # <<>> =>
    \/ Top.at = "commits"
    \/ Top.at = "subscribers" /\ waiting # <<>> /\ Head(waiting) = "user"

CanCall == UserCode /\ Len(stack) < MaxDepth

\* A projection is followed by a subscription made before all others, as is
\* the legacy history; the snapshots of a whole store by one made when they
\* begin.
Subscribers(mode) ==
  IF ~Whole \/ mode = "legacy" THEN <<"history", "user">>
  ELSE IF mode = "snapshots" THEN <<"user", "history">>
  ELSE <<"user">>

Notified(mode) == waiting' = waiting \o Subscribers(mode)

\* A write of the store, with history as it is when the state is replaced.
Writes(next, mode) ==
  /\ state' = next
  /\ Notified(mode)
  /\ UNCHANGED <<tracked, failed, moves>>

\* A write of one key that an observer or the program makes.
UserWrite(k, v) ==
  /\ CanCall
  /\ writes < MaxWrites
  /\ v # state[k]
  /\ v \in Odd => ~traveling
  /\ writes' = writes + 1
  /\ meddled' = (meddled \/ traveling)

NeedsSnapshots(k, v) == v \in Odd \/ state[k] \in Odd

\* The write of a key is committed: a journal of the whole store hears of the
\* commit.  What patches cannot represent may also be found before it is
\* committed (onStoreCommitPrepare, the argument of setState), and then the
\* subscription or the end of setState records it.
Committed(k, v) ==
  LET next == [state EXCEPT ![k] = v] IN
    \/ /\ Whole /\ engine = "journal" /\ ~traveling /\ ~Suppressed
       /\ \/ RecordCommit(next, NeedsSnapshots(k, v)) /\ Writes(next, "journal")
          \/ NeedsSnapshots(k, v) /\ Begin /\ Writes(next, "snapshots")
    \/ /\ ~(Whole /\ engine = "journal" /\ ~traveling /\ ~Suppressed)
       /\ Writes(next, engine)
       /\ UNCHANGED timeline

\* An action's set, or store.apply.
WriteDirectly(k, v) ==
  /\ UserWrite(k, v)
  /\ Committed(k, v)
  /\ stack' = Append(stack, Call("write"))
  /\ UNCHANGED flags

\* The legacy history takes what the end of a setState finds for its change,
\* and what is moved in the middle of a write for another.
LegacyNests == engine = "legacy" /\ stack # <<>> => "nested" \in Faults

\* store.setState.
SetState(k, v) ==
  /\ LegacyNests
  /\ UserWrite(k, v)
  /\ Committed(k, v)
  /\ stack' = Append(stack, Call("setState"))
  /\ recording' = TRUE
  /\ UNCHANGED traveling

\* runWithoutRecording, of a setState or of an apply.
Hydrate(k, v) ==
  /\ stack = <<>>
  /\ UserWrite(k, v)
  /\ recording' \in BOOLEAN
  /\ stack' = <<Call("hydrate")>>
  /\ LET next == [state EXCEPT ![k] = v] IN
       \/ Writes(next, engine) /\ UNCHANGED timeline
       \/ /\ recording' /\ v \in Odd /\ Whole /\ engine = "journal"
          /\ Begin
          /\ Writes(next, "snapshots")
  /\ UNCHANGED traveling

\* The store is written with the state that the move goes to.
TimeTravel(target) ==
  /\ state' = Patched(state, target)
  /\ Notified(engine)

\* undo and redo up to the write of the store; it may be refused.
Moves(kind, target) ==
  /\ CanCall
  /\ LegacyNests
  /\ moves < MaxMoves
  /\ ~traveling /\ ~Suppressed
  /\ moves' = moves + 1
  /\ traveling' = TRUE
  /\ \/ /\ stack' = Append(stack, [Call(kind) EXCEPT !.target = target])
        /\ TimeTravel(target)
     \/ /\ "refuse" \in Faults
        /\ stack' = Append(stack, [Call(kind) EXCEPT !.target = target,
                                                     !.at = "refused"])
        /\ UNCHANGED <<state, waiting>>
  /\ UNCHANGED <<tracked, engine, journal, present, recording, failed, meddled,
                 writes>>

Undo ==
  \/ /\ engine = "journal" /\ position > 0
     /\ Moves("undo", Patched(IF Whole THEN state ELSE present,
                              entries[position].inverse))
     /\ UNCHANGED snapshots
  \/ /\ engine = "snapshots" /\ past # <<>>
     /\ past' = Front(past)
     /\ future' = Append(future, present)
     /\ Moves("undo", Last(past))

Redo ==
  \/ /\ engine = "journal" /\ position < Len(entries)
     /\ Moves("redo", Patched(IF Whole THEN state ELSE present,
                              entries[position + 1].patches))
     /\ UNCHANGED snapshots
  \/ /\ engine = "snapshots" /\ future # <<>>
     /\ future' = Front(future)
     /\ past' = Newest(Append(past, present))
     /\ Moves("redo", Last(future))

\* The legacy history takes the state it finds for the current one, and does not
\* look at the limit when it moves.
LegacyUndo ==
  /\ engine = "legacy" /\ past # <<>>
  /\ past' = Front(past)
  /\ future' = Append(future, Projected(state))
  /\ Moves("undo", Last(past))

LegacyRedo ==
  /\ engine = "legacy" /\ future # <<>>
  /\ future' = Front(future)
  /\ past' = Append(past, Projected(state))
  /\ Moves("redo", Last(future))

Clear ==
  /\ UserCode
  /\ moves < MaxMoves
  /\ ~traveling /\ ~Suppressed
  /\ moves' = moves + 1
  /\ entries' = <<>> /\ position' = 0
  /\ past' = <<>> /\ future' = <<>>
  /\ present' = IF engine = "snapshots" THEN Projected(state) ELSE present
  /\ meddled' = FALSE
  /\ UNCHANGED <<tracked, engine, state, flags, calls, writes>>

-----------------------------------------------------------------------------
(* Observers.                                                              *)

Muted == recording \/ traveling \/ Suppressed

\* The listeners of the outermost call's commit have been called.
Drain ==
  /\ Len(stack) = 1
  /\ Top.at = "commits"
  /\ stack' = <<[Top EXCEPT !.at = "subscribers"]>>
  /\ UNCHANGED <<tracked, state, timeline, flags, waiting, failed, meddled,
                 writes, moves>>

\* The subscription of the legacy history.
LegacySubscription ==
  IF Muted THEN Look ELSE RecordChange(present, Projected(state))

\* The subscription of history.
Subscription ==
  /\ Len(stack) = 1
  /\ Top.at = "subscribers"
  /\ waiting # <<>> /\ Head(waiting) = "history"
  /\ waiting' = Tail(waiting)
  /\ IF engine = "legacy" THEN LegacySubscription
     ELSE IF Muted THEN UNCHANGED timeline
     ELSE RecordState
  /\ UNCHANGED <<tracked, state, flags, stack, failed, meddled, writes, moves>>

\* An error in a setState keeps its change from being recorded, one in a move
\* puts back the lists of a move that has been made.
MayLose == Top.kind \notin {"write", "hydrate"}

\* A subscriber returns, or throws; the error is thrown by the outermost call.
Return ==
  /\ Len(stack) = 1
  /\ Top.at = "subscribers"
  /\ waiting # <<>> /\ Head(waiting) = "user"
  /\ waiting' = Tail(waiting)
  /\ \/ UNCHANGED failed
     \/ /\ "throw" \in Faults
        /\ MayLose => "lose" \in Faults
        /\ failed' = TRUE
  /\ UNCHANGED <<tracked, state, timeline, flags, stack, meddled, writes, moves>>

-----------------------------------------------------------------------------
(* The ends of calls.                                                      *)

\* The innermost call returns.
Through ==
  /\ stack # <<>>
  /\ \/ Len(stack) > 1 /\ Top.at = "commits"
     \/ Len(stack) = 1 /\ Top.at = "subscribers" /\ waiting = <<>>
  /\ stack' = Front(stack)
  /\ failed' = (failed /\ Len(stack) > 1)
  /\ UNCHANGED <<tracked, state, waiting, writes, moves>>

Thrown == failed /\ Len(stack) = 1

EndWrite ==
  /\ Through
  /\ Top.kind = "write"
  /\ UNCHANGED <<timeline, flags, meddled>>

\* What the setState of the legacy history does once the store's is through.
LegacyRecords ==
  IF traveling \/ Suppressed THEN Look
  ELSE RecordChange(Top.before, Projected(state))

EndSetState ==
  /\ Through
  /\ Top.kind = "setState"
  /\ recording' = FALSE
  /\ IF Thrown THEN UNCHANGED timeline
     ELSE IF engine = "legacy" THEN LegacyRecords
     ELSE IF traveling \/ Suppressed \/ (engine = "journal" /\ Whole)
     THEN UNCHANGED timeline
     ELSE RecordState
  /\ UNCHANGED <<traveling, meddled>>

EndHydrate ==
  /\ Through
  /\ Top.kind = "hydrate"
  /\ recording' = FALSE
  /\ Restart
  /\ meddled' = FALSE
  /\ UNCHANGED traveling

\* Mutant: what the snapshots call current is left as it was.
MutantArrive ==
  /\ position' = IF engine # "journal" THEN position
                 ELSE IF Top.kind = "undo" THEN position - 1 ELSE position + 1
  /\ present' = IF engine = "journal" THEN Projected(state) ELSE present

\* The cursor moves, after the store.
Arrive ==
  /\ position' = IF engine # "journal" THEN position
                 ELSE IF Top.kind = "undo" THEN position - 1 ELSE position + 1
  /\ present' = IF engine = "legacy" THEN present ELSE Projected(state)

EndMove ==
  /\ Through
  /\ Top.kind \in {"undo", "redo"}
  /\ ~Thrown
  /\ Arrive
  /\ traveling' = FALSE
  /\ meddled' = (meddled /\ engine = "journal")
  /\ UNCHANGED <<engine, entries, snapshots, recording>>

\* Mutant: only the list that was taken from is put back.
MutantPutBack ==
  IF Top.kind = "undo"
  THEN past' = Append(past, Top.target) /\ UNCHANGED future
  ELSE future' = Append(future, Top.target) /\ UNCHANGED past

\* The catch of undo, redo and move.
PutBack ==
  IF Top.kind = "undo"
  THEN past' = Append(past, Top.target) /\ future' = Front(future)
  ELSE past' = Front(past) /\ future' = Append(future, Top.target)

\* The write of a move was refused, or an observer of it has thrown.
FailMove ==
  /\ stack # <<>>
  /\ Top.kind \in {"undo", "redo"}
  /\ Top.at # "refused" => Thrown /\ Top.at = "subscribers" /\ waiting = <<>>
  /\ stack' = Front(stack)
  /\ failed' = (failed /\ Len(stack) > 1)
  /\ IF engine = "journal" THEN UNCHANGED snapshots ELSE PutBack
  /\ traveling' = FALSE
  /\ meddled' = (meddled /\ engine = "journal")
  /\ UNCHANGED <<tracked, state, engine, journal, present, recording, waiting,
                 writes, moves>>

-----------------------------------------------------------------------------

Init ==
  /\ tracked \in {Keys} \cup Projections
  /\ state \in [Keys -> Initial]
  /\ engine = IF Compatible(Projected(state)) THEN "journal" ELSE "legacy"
  /\ entries = <<>> /\ position = 0
  /\ present = Projected(state)
  /\ past = <<>> /\ future = <<>>
  /\ recording = FALSE /\ traveling = FALSE
  /\ stack = <<>> /\ waiting = <<>>
  /\ failed = FALSE /\ meddled = FALSE
  /\ writes = 0 /\ moves = 0

Next ==
  \/ \E k \in Keys, v \in Values :
       WriteDirectly(k, v) \/ SetState(k, v) \/ Hydrate(k, v)
  \/ Undo \/ Redo \/ LegacyUndo \/ LegacyRedo \/ Clear
  \/ Drain \/ Subscription \/ Return
  \/ EndWrite \/ EndSetState \/ EndHydrate \/ EndMove \/ FailMove

Spec == Init /\ [][Next]_vars

-----------------------------------------------------------------------------
(* Properties.                                                             *)

Snapshots == Seq(Snapshot)

PatchSets == UNION {[ks -> Values] : ks \in SUBSET tracked}

\* Every variable has its type; the cursor is within the journal.
TypeOK ==
  /\ tracked \subseteq Keys
  /\ engine \in {"journal", "snapshots", "legacy"}
  /\ state \in [Keys -> Values]
  /\ entries \in Seq([patches : PatchSets, inverse : PatchSets])
  /\ position \in 0..Len(entries)
  /\ present \in Snapshot
  /\ past \in Snapshots /\ future \in Snapshots
  /\ {recording, traveling, failed, meddled} \subseteq BOOLEAN
  /\ stack \in Seq([kind : {"write", "setState", "hydrate", "undo", "redo"},
                    before : Snapshot, target : Snapshot,
                    at : {"commits", "subscribers", "refused"}])
  /\ waiting \in Seq({"history", "user"})
  /\ writes \in 0..MaxWrites
  /\ moves \in 0..MaxMoves

\* Between calls the state that history calls current is the state of the
\* store: whatever observers have written, moved, cleared or thrown in the
\* middle of writes, moves and hydrations, no change is left to be recorded
\* with a later one, and none is recorded that was not made.
TimelineIsShown == stack = <<>> => present = Projected(state)

\* The lists of the snapshots are changed before the store is, those of a
\* journal after it.
PastShown ==
  IF engine = "journal" THEN Before
  ELSE IF UnderWay({"undo"})
  THEN Append(past, (CHOOSE c \in Range(stack) : c.kind = "undo").target)
  ELSE IF UnderWay({"redo"}) THEN Front(past)
  ELSE past

FutureShown ==
  IF engine = "journal" THEN After
  ELSE IF UnderWay({"redo"})
  THEN Append(future, (CHOOSE c \in Range(stack) : c.kind = "redo").target)
  ELSE IF UnderWay({"undo"}) THEN Front(future)
  ELSE future

\* A setState or a move of the legacy history takes the state it has found for
\* the current one until it is through.
PresentShown ==
  IF engine = "legacy" /\ stack # <<>> /\ Head(stack).kind \in {"setState", "undo", "redo"}
  THEN Head(stack).before
  ELSE present

Timeline == INSTANCE UndoTimeline WITH
  States <- UNION {[ks -> Values] : ks \in SUBSET Keys},
  past <- PastShown,
  present <- PresentShown,
  future <- FutureShown,
  store <- Projected(state),
  suspended <- Suppressed

\* Whichever way history records, and also where it changes from patches to
\* snapshots, what undo and redo reach is one line of states: a change is
\* recorded once and cuts the states ahead, undo and redo show the very state
\* that was there and can be taken back, a move that is refused leaves
\* everything where it was.
ImplementsTimeline == Timeline!Spec

=============================================================================
