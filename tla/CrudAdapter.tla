----------------------------- MODULE CrudAdapter ------------------------------
(* createCrudSyncAdapter (crud.ts) and the adapters built on it, over the part *)
(* of the sync core they meet: an outbox that is durable before it is sent, a  *)
(* lane that applies remote results one at a time and a check that drops a     *)
(* result something newer has overtaken.                                       *)
(*                                                                             *)
(* The adapter turns mutations into create, update and delete calls.  Which    *)
(* call a record gets depends on remoteIds, what the remote is believed to     *)
(* hold: the interest is in what makes that belief wrong.  A record is a       *)
(* number, 0 where it does not exist.                                          *)
EXTENDS Integers, FiniteSets, SequencesExt, FiniteSetsExt

CONSTANTS
    Ids,     \* the records, numbers
    Setups   \* the backends, and the bounds on each: see MCCrudAdapter

\* The options an adapter passes to createCrudSyncAdapter, and what its remote does.
\* rows: what the remote starts with; insert, strictUpdate: a call that meets a row
\* it should not, or none, is refused; returns: a call answers with the record,
\* normalises: changed; whole, fields, written: the writes the application makes.
Backend == [rows |-> {1}, insert |-> FALSE, strictUpdate |-> FALSE, returns |-> FALSE,
            normalises |-> FALSE, authoritative |-> TRUE, paged |-> FALSE,
            incremental |-> FALSE, narrowed |-> FALSE, realtime |-> FALSE,
            persistState |-> TRUE, whole |-> FALSE, fields |-> FALSE, written |-> {1}]

\* A REST backend whose POST refuses a known id and whose PUT an unknown one.
Rest == [Backend EXCEPT !.insert = TRUE, !.strictUpdate = TRUE, !.whole = TRUE,
                        !.fields = TRUE, !.written = Ids]

\* createSupabaseSyncAdapter: create is an upsert, update names one row and both
\* answer with it; a full pull is a walk by id, changesSince asks for what is newer.
Supabase == [Backend EXCEPT !.strictUpdate = TRUE, !.returns = TRUE,
                            !.normalises = TRUE, !.paged = TRUE, !.realtime = TRUE]
Incremental == [Supabase EXCEPT !.paged = FALSE, !.incremental = TRUE,
                                !.authoritative = FALSE]

\* createFirestoreSyncAdapter with a query: both writes are setDoc.
Firestore == [Backend EXCEPT !.returns = TRUE, !.authoritative = FALSE,
                             !.narrowed = TRUE, !.realtime = TRUE]

VARIABLES
    setup,
    server,     \* the remote's records
    rev,        \* id -> revision of the record on the remote
    events,     \* changes the subscription has still to deliver
    base,       \* the collection without the pending mutations
    outbox,     \* the pending mutations, in order
    remoteIds,  \* ids the remote is believed to hold
    cursor,     \* revision the last incremental pull reached
    push,       \* the push in flight, or NoPush
    pull,       \* the pull in flight, or NoPull
    pullOwed,
    saved,      \* what the last checkpoint holds of remoteIds and told
    told,       \* id -> newest revision the client was told of (history)
    raced,      \* ids whose answers came back out of order (history)
    budget

remote == <<server, rev, events>>
client == <<base, outbox, remoteIds, cursor, pullOwed, told, raced, saved>>
vars == <<setup, remote, client, push, pull, budget>>

\* What can be said of a backend.
Backends ==
    [rows : SUBSET Ids, insert : BOOLEAN, strictUpdate : BOOLEAN, returns : BOOLEAN,
     normalises : BOOLEAN, authoritative : BOOLEAN, paged : BOOLEAN,
     incremental : BOOLEAN, narrowed : BOOLEAN, realtime : BOOLEAN,
     persistState : BOOLEAN, whole : BOOLEAN, fields : BOOLEAN, written : SUBSET Ids,
     bounds : [local : Nat, others : Nat, lost : Nat, crash : Nat]]

\* An authoritativeList is neither a list of changes nor one that a query narrows:
\* what any other list leaves out, the default one included, may still be there.
ASSUME SetupsAssumption ==
    /\ IsFiniteSet(Ids) /\ Ids \subseteq Nat \ {0}
    /\ \A s \in Setups :
        /\ s \in Backends
        /\ s.authoritative => ~s.incremental /\ ~s.narrowed
        /\ ~(s.incremental /\ s.narrowed)

Known(f) == {i \in Ids : f[i] # 0}
NoPush == [todo |-> {}, mutations |-> {}]
NoPull == [rows |-> <<>>, done |-> FALSE]
NoCall == [id |-> 0]
Higher(a, b) == IF a > b THEN a ELSE b
Newest(f) == Max({f[i] : i \in Ids})

\* What the remote makes of a record.
Canonical(v) == IF setup.normalises /\ v \in 1..9 THEN v + 10 ELSE v

\* A narrowed read does not see every record.
InQuery(v) == v # 0 /\ (setup.narrowed => v # 2)

Spend(what) == budget[what] > 0 /\ budget' = [budget EXCEPT ![what] = @ - 1]

-----------------------------------------------------------------------------
(* Pending mutations over a base.                                             *)

Applies(f, m) == m.kind = "field" => f[m.id] # 0
Apply(f, m) == IF m.kind = "collection" THEN m.value
               ELSE [f EXCEPT ![m.id] = m.value]
Applied(f, m) == IF Applies(f, m) THEN Apply(f, m) ELSE f
ApplyAll(f, ms) ==
    LET after[n \in 0..Len(ms)] == IF n = 0 THEN f ELSE Applied(after[n - 1], ms[n])
    IN after[Len(ms)]

\* rebase: a mutation that no longer applies is dropped.
Kept(f, ms, m) == IF Applies(ApplyAll(f, ms), m) THEN Append(ms, m) ELSE ms
Replayable(f, ms) ==
    LET kept[n \in 0..Len(ms)] == IF n = 0 THEN <<>> ELSE Kept(f, kept[n - 1], ms[n])
    IN kept[Len(ms)]
Shown == ApplyAll(base, outbox)

\* The mutations whose numbers are in ns.
Numbered(ms, ns) ==
    LET kept[n \in 0..Len(ms)] == IF n = 0 THEN <<>>
                                  ELSE IF ms[n].n \in ns THEN Append(kept[n - 1], ms[n])
                                  ELSE kept[n - 1]
    IN kept[Len(ms)]

\* A subscription to a query reports what matches it when it starts.
Opening(rows, revs) ==
    IF ~setup.narrowed THEN <<>>
    ELSE SetToSeq({[id |-> i, value |-> rows[i], rev |-> revs[i]] :
                      i \in {j \in Ids : InQuery(rows[j])}})

Init ==
    /\ setup \in Setups
    /\ server = [i \in Ids |-> IF i \in setup.rows THEN Canonical(1) ELSE 0]
    /\ rev = [i \in Ids |-> IF i \in setup.rows THEN i ELSE 0]
    /\ events = Opening(server, rev)
    /\ base = [i \in Ids |-> 0]
    /\ outbox = <<>>
    /\ remoteIds = {}
    /\ cursor = 0
    /\ push = NoPush
    /\ pull = NoPull
    /\ pullOwed = TRUE
    /\ told = [i \in Ids |-> 0]
    /\ raced = {}
    /\ saved = [remoteIds |-> {}, told |-> told]
    /\ budget = setup.bounds

-----------------------------------------------------------------------------
(* The remote.                                                                *)

\* The subscription reports a change: under a narrowed read a record that leaves
\* the query is removed, one that was never in it is not mentioned.
Reported(id, old, new) ==
    IF ~setup.realtime \/ ~(InQuery(old) \/ InQuery(new)) THEN <<>>
    ELSE <<[id |-> id, value |-> IF InQuery(new) THEN new ELSE 0,
            rev |-> Newest(rev) + 1]>>

\* A write that changes nothing is no new revision, unless the backend stamps the
\* row for a changes-since query.
ServerWrites(id, v) ==
    IF server[id] = v /\ (v = 0 \/ ~setup.incremental) THEN UNCHANGED remote ELSE
    /\ server' = [server EXCEPT ![id] = v]
    /\ rev' = [rev EXCEPT ![id] = Newest(rev) + 1]
    /\ events' = events \o Reported(id, server[id], v)

\* Another client writes a record.
Others == \E id \in setup.written, v \in {0, 2, 3} :
    /\ Spend("others")
    /\ server[id] # v
    /\ ServerWrites(id, v)
    /\ UNCHANGED <<setup, client, push, pull>>

-----------------------------------------------------------------------------
(* The client's core.                                                         *)

\* A checkpoint: what is in memory is durable.
Checkpoint == saved' = [remoteIds |-> remoteIds', told |-> told']

\* The commit subscriber: the mutation joins the outbox and is made durable (see
\* SyncOutbox for the time this takes, and what a crash meanwhile loses).
Commit(m) ==
    /\ Spend("local")
    /\ outbox' = Append(outbox, [m EXCEPT !.n = budget.local])
    /\ UNCHANGED <<setup, remote, base, remoteIds, cursor, pullOwed, told, raced, push, pull>>
    /\ Checkpoint

Mutation(kind, id, v) == [kind |-> kind, id |-> id, value |-> v, n |-> 0]
Write == \E id \in setup.written :
    IF Shown[id] = 0 THEN Commit(Mutation("add", id, 1))
    ELSE \/ Commit(Mutation("replace", id, 2))
         \/ setup.fields /\ Commit(Mutation("field", id, 1))
         \/ Commit(Mutation("remove", id, 0))
\* A write at the collection itself, or above it, while the queue removes no record by
\* name: to bring one back is known to be mistaken for an update (crud.ts 320).
WriteAll == \E id \in Ids :
    /\ setup.whole
    /\ \A m \in ToSet(outbox) : m.kind # "remove"
    /\ Commit(Mutation("collection", 0, [i \in Ids |-> IF i = id THEN 2 ELSE 0]))

\* The process ends and another one hydrates from the checkpoint, which holds the
\* state itself only with persistState, and of the adapter what it serialized.
Restart ==
    /\ Spend("crash")
    /\ remoteIds' = saved.remoteIds
    /\ IF setup.persistState
       THEN told' = saved.told /\ UNCHANGED <<base, outbox>>
       ELSE /\ base' = [i \in Ids |-> 0]
            /\ told' = base'
            /\ outbox' = Replayable(base', outbox)
    /\ push' = NoPush
    /\ pull' = NoPull
    /\ pullOwed' = TRUE
    /\ events' = Opening(server, rev)
    /\ UNCHANGED <<setup, server, rev, cursor, raced, saved>>

-----------------------------------------------------------------------------
(* Remote results.  found maps ids to the records a result reports, gone is    *)
(* what it removes.                                                            *)

\* Mutant: a removal always proves that the record is gone.
MutantBelieved(found, gone) == (remoteIds \cup DOMAIN found) \ gone

\* observeRemotePatches.
Believed(found, gone) ==
    (remoteIds \cup DOMAIN found) \ (IF setup.narrowed THEN {} ELSE gone)

\* applyRemoteResult over a base and the mutations still pending: one rebase,
\* accept, and a checkpoint.
Take(found, gone, onto, pending) ==
    LET next == [i \in Ids |-> IF i \in DOMAIN found THEN found[i]
                               ELSE IF i \in gone THEN 0 ELSE onto[i]]
    IN /\ base' = next
       /\ outbox' = Replayable(next, pending)
       /\ remoteIds' = Believed(found, gone)
       /\ Checkpoint

\* Records for which an answer comes after a newer one.
Late(id, r) == IF r < told[id] THEN {id} ELSE {}

\* Mutant: a result that arrives does not overtake the others in flight.
MutantOvertaken(request) == request

\* remoteEpoch moved: the answer a request in flight brings is out of date.
Overtaken(request) == [request EXCEPT !.stale = TRUE]
OvertakePull == pull' = IF pull = NoPull THEN pull ELSE Overtaken(pull)
OvertakePush == push' = IF push = NoPush THEN push ELSE Overtaken(push)

\* The subscription delivers a change.
Event ==
    /\ events # <<>>
    /\ LET e == Head(events)
       IN /\ told' = [told EXCEPT ![e.id] = Higher(@, e.rev)]
          /\ raced' = raced \cup Late(e.id, e.rev)
          /\ IF e.value # 0 THEN Take([i \in {e.id} |-> e.value], {}, base, outbox)
             ELSE Take(<<>>, {e.id}, base, outbox)
    /\ events' = Tail(events)
    /\ OvertakePull
    /\ OvertakePush
    /\ UNCHANGED <<setup, server, rev, cursor, pullOwed, budget>>

-----------------------------------------------------------------------------
(* pull.                                                                      *)

PullAsk ==
    /\ pull = NoPull
    /\ pull' = [rows |-> <<>>, done |-> FALSE, stale |-> FALSE]
    /\ UNCHANGED <<setup, remote, client, push, budget>>

Row(id) == [value |-> IF InQuery(server[id]) THEN server[id] ELSE 0, rev |-> rev[id]]

\* One request of list: everything, everything newer than the cursor, or the next
\* page of a walk by id, which is one record here.  rows remembers what the
\* answers said of each id, 0 for an id a page passed over.
PullPage ==
    /\ pull # NoPull
    /\ ~pull.done
    /\ LET covered == DOMAIN pull.rows
           ahead == {i \in Known(server) : \A j \in covered : j < i}
           page == IF setup.incremental THEN {i \in Known(server) : rev[i] > cursor}
                   ELSE IF setup.paged /\ ahead # {} THEN {i \in Ids \ covered : i <= Min(ahead)}
                   ELSE Ids \ covered
       IN pull' = [pull EXCEPT
                     !.rows = [i \in covered \cup page |->
                                 IF i \in covered THEN @[i] ELSE Row(i)],
                     !.done = ~(setup.paged /\ ~setup.incremental /\ ahead # {})]
    /\ UNCHANGED <<setup, remote, client, push, budget>>

\* The answer is applied unless a newer fact arrived since it was asked for, and
\* then the pull is still owed.  An authoritative list removes what the adapter
\* believes in and the list did not mention; any other says nothing of that.
PullAnswer ==
    /\ pull # NoPull
    /\ pull.done
    /\ pull' = NoPull
    /\ IF pull.stale
       THEN /\ pullOwed' = TRUE
            /\ UNCHANGED <<base, outbox, remoteIds, cursor, told, saved, push>>
       ELSE LET rows == pull.rows
                seen == {i \in DOMAIN rows : rows[i].value # 0}
                gone == IF setup.authoritative THEN remoteIds \ seen ELSE {}
            IN /\ told' = [i \in Ids |-> IF i \in (IF setup.authoritative THEN DOMAIN rows ELSE seen)
                                         THEN Higher(told[i], rows[i].rev) ELSE told[i]]
               /\ Take([i \in seen |-> rows[i].value], gone, base, outbox)
               /\ cursor' = Higher(cursor, Max({rows[i].rev : i \in DOMAIN rows} \cup {0}))
               /\ pullOwed' = FALSE
               /\ OvertakePush
    /\ UNCHANGED <<setup, remote, raced, budget>>

\* A request fails or its answer is lost.
PullFails ==
    /\ pull # NoPull
    /\ Spend("lost")
    /\ pull' = NoPull
    /\ pullOwed' = TRUE
    /\ UNCHANGED <<setup, remote, base, outbox, remoteIds, cursor, told, raced, saved, push>>

-----------------------------------------------------------------------------
(* push.                                                                      *)

Names(m, id) == m.kind # "collection" /\ m.id = id
Named == {id \in Ids : \E m \in ToSet(outbox) : Names(m, id)}
WholeWrites == \E m \in ToSet(outbox) : m.kind = "collection"

\* readIntents: the records the queue names, and with a write of the whole
\* collection the ones it holds and the ones it should no longer hold.
Deleted(id) ==
    \/ \E k \in DOMAIN outbox :
          /\ Names(outbox[k], id) /\ outbox[k].kind = "remove"
          /\ \A j \in DOMAIN outbox : Names(outbox[j], id) => j <= k
    \/ WholeWrites /\ id \in remoteIds /\ Shown[id] = 0

\* Mutant: a write of the whole collection only names the records it holds.
MutantTouched == Named \cup (IF WholeWrites THEN Known(Shown) ELSE {})

Touched == Named \cup (IF WholeWrites THEN Known(Shown) \cup remoteIds ELSE {})

PushStart ==
    /\ push = NoPush
    /\ outbox # <<>>
    /\ push' = [todo |-> Touched, touched |-> Touched,
                mutations |-> {m.n : m \in ToSet(outbox)},
                deleted |-> {id \in Touched : Deleted(id)},
                records |-> Shown, call |-> NoCall, answers |-> <<>>,
                stale |-> FALSE, at |-> told]
    /\ UNCHANGED <<setup, remote, client, pull, budget>>

Gone(id) == id \in push.deleted \/ push.records[id] = 0

\* Mutant: what to call is decided from the queue alone, so that a retry creates
\* again what the attempt before it created.
MutantOperation(id) ==
    IF Gone(id) THEN "delete" ELSE IF push.records[id] = 2 THEN "update" ELSE "create"

Operation(id) ==
    IF Gone(id) THEN "delete" ELSE IF id \in remoteIds THEN "update" ELSE "create"

\* A record that is gone and that the remote is not believed to hold needs no
\* call: it was created and removed before either reached the remote.
Skip(id) ==
    /\ Gone(id)
    /\ id \notin remoteIds
    /\ push' = [push EXCEPT !.todo = @ \ {id}]
    /\ UNCHANGED <<remote, budget>>

\* Whether the backend takes the call: an insert meets a row, an update none.
Refuses(op, id) ==
    \/ op = "create" /\ setup.insert /\ server[id] # 0
    \/ op = "update" /\ setup.strictUpdate /\ server[id] = 0

\* A call reaches the remote, which takes it or refuses it.
Call(id) ==
    LET op == Operation(id)
        v == IF op = "delete" THEN 0 ELSE Canonical(push.records[id])
        refused == Refuses(op, id)
    IN /\ ~(Gone(id) /\ id \notin remoteIds)
       /\ IF refused THEN UNCHANGED remote ELSE ServerWrites(id, v)
       /\ push' = [push EXCEPT !.call = [id |-> id, op |-> op, value |-> v,
                                         rev |-> rev'[id], refused |-> refused]]
       /\ UNCHANGED budget

PushRecord == \E id \in push.todo :
    /\ push # NoPush
    /\ push.call = NoCall
    /\ Skip(id) \/ Call(id)
    /\ UNCHANGED <<setup, client, pull>>

Noted(answers, id, v) ==
    [i \in DOMAIN answers \cup {id} |-> IF i = id THEN v ELSE answers[i]]

\* The answer of a call: what the remote holds is noted at once, what it made of
\* the record waits for the end of the push.
PushReturns ==
    /\ push # NoPush
    /\ push.call # NoCall
    /\ ~push.call.refused
    /\ LET c == push.call
       IN /\ remoteIds' = IF c.op = "delete" THEN remoteIds \ {c.id} ELSE remoteIds \cup {c.id}
          /\ raced' = raced \cup Late(c.id, c.rev) \cup (IF pull = NoPull THEN {} ELSE {c.id})
          /\ told' = [told EXCEPT ![c.id] = Higher(@, c.rev)]
          /\ push' = [push EXCEPT !.todo = @ \ {c.id}, !.call = NoCall, !.at[c.id] = c.rev,
                         !.answers = IF c.op = "delete" \/ ~setup.returns THEN @
                                     ELSE Noted(@, c.id, c.value)]
    /\ UNCHANGED <<setup, remote, base, outbox, cursor, pullOwed, saved, pull, budget>>

\* Records whose acknowledged write nothing will correct: the adapter was told
\* meanwhile that the remote has none, or the owed pull starts after the write.
Unconfirmed == {id \in push.touched :
    \/ push.records[id] # 0 /\ id \notin remoteIds
    \/ setup.incremental /\ push.stale}

\* The push rejects: every mutation stays in the outbox for the retry timer, but
\* for those a remote result has dropped meanwhile.
PushRejects ==
    /\ push' = NoPush
    /\ raced' = raced \cup (push.touched \ Touched)
    /\ UNCHANGED <<setup, remote, base, outbox, remoteIds, cursor, pullOwed, told, saved, pull>>

\* A call is refused.
PushRefused ==
    /\ push # NoPush
    /\ push.call # NoCall
    /\ push.call.refused
    /\ PushRejects
    /\ UNCHANGED budget

\* A call fails on its way, or its answer is lost, whatever it did.
PushLost ==
    /\ push # NoPush
    /\ Spend("lost")
    /\ PushRejects

\* The push is acknowledged; its records are taken unless something newer arrived
\* while it was under way, and then a pull is owed.
PushDone ==
    /\ push # NoPush
    /\ push.todo = {}
    /\ push' = NoPush
    /\ raced' = raced \cup Unconfirmed
    /\ UNCHANGED <<setup, remote, cursor, told, budget>>
    /\ LET sent == Numbered(outbox, push.mutations)
           rest == Numbered(outbox, Nat \ push.mutations)
       IN Take(IF push.stale THEN <<>> ELSE push.answers, {}, ApplyAll(base, sent), rest)
    /\ pullOwed' = (pullOwed \/ push.stale)
    /\ OvertakePull

-----------------------------------------------------------------------------
Next ==
    \/ Others \/ Write \/ WriteAll \/ Restart \/ Event
    \/ PullAsk \/ PullPage \/ PullAnswer \/ PullFails
    \/ PushStart \/ PushRecord \/ PushReturns
    \/ PushRefused \/ PushLost \/ PushDone

\* Storage, the network and the retry timer make progress, and the application
\* pulls from time to time.
Fairness ==
    /\ WF_vars(Event)
    /\ WF_vars(PullAsk) /\ WF_vars(PullPage) /\ WF_vars(PullAnswer)
    /\ WF_vars(PushStart) /\ WF_vars(PushRecord) /\ WF_vars(PushReturns)
    /\ WF_vars(PushRefused) /\ WF_vars(PushDone)

Spec == Init /\ [][Next]_vars /\ Fairness

-----------------------------------------------------------------------------
(* Properties.                                                                *)

Reporting(id) == \E e \in ToSet(events) : e.id = id
Told(id) == told[id] = rev[id] /\ ~Reporting(id)

\* What the client was told last is what it shows: with nothing pending, no
\* older answer of a pull, a push or the subscription has been put back over it.
LatestIsShown ==
    outbox = <<>> /\ push = NoPush /\ ~pullOwed =>
        \A id \in Ids : Told(id) /\ id \notin raced /\ (InQuery(server[id]) \/ ~setup.narrowed)
                        => Shown[id] = server[id]

\* The adapter believes what it was told, across restarts, pushes that fail half
\* way, pages and realtime changes: a record that exists is not created again,
\* and one that is gone is not updated.  Under a narrowed read a removal is no
\* proof.
BaselineIsTold ==
    push = NoPush =>
        \A id \in Ids : Told(id) /\ id \notin raced =>
            /\ server[id] # 0 /\ told[id] # 0 => id \in remoteIds
            /\ server[id] = 0 => id \notin remoteIds \/ setup.narrowed

\* An acknowledged mutation is on the remote: when a push succeeds, every record
\* the mutations it sent changed is there as the store had it, unless another
\* client wrote it since, the client had not heard of its newest revision when the
\* push began, or answers about it raced each other.
Acknowledged(id) ==
    ApplyAll(base, Numbered(outbox, push.mutations))[id] # base[id]
AckedIsOnRemote ==
    [][PushDone => \A id \in Ids \ raced :
          Acknowledged(id) /\ Told(id) /\ push.at[id] = rev[id]
          => server[id] = Canonical(push.records[id])]_vars

\* No record wedges the outbox: whatever was lost, refused or restarted, in the
\* end it is empty, unless answers about a record came back out of order (a record
\* the adapter then updates may be gone, and a changes-since pull never says so).
Drains == <>[](outbox = <<>> \/ raced # {})
=============================================================================
