------------------------ MODULE MutableTransactions ------------------------
(***************************************************************************)
(* Actions of a store bound to a mutable instance (MobX, Pinia, Valtio)    *)
(* whose commits somebody hears: createLocalAction                         *)
(* (getRawStateLocalAction.ts), handleDraft (handleDraft.ts) and the       *)
(* mutable branch of setState (handleState.ts).                            *)
(*                                                                         *)
(* There is one internal.rootState: the instance, or a draft of it.  An    *)
(* action writes into the draft, and closing the transaction applies the   *)
(* draft to the instance and publishes it.  Actions nest, and an async     *)
(* action keeps its transaction open while it is suspended, so actions     *)
(* displace one another and hand the transaction back.                     *)
(*                                                                         *)
(* Each write is a number, in the order they are made.  Left out: actions  *)
(* called inside an updater (isBatching) or while nobody hears commits,    *)
(* store.apply on an open draft, and destroy.                              *)
(***************************************************************************)
EXTENDS Integers, Sequences, FiniteSets

CONSTANTS
  Actions,    \* calls of actions, each made once
  None,       \* no action; the program outside actions
  MaxWrites,  \* bound: writes made
  Faults      \* what may go wrong

ASSUME TransactionsAssumption ==
  /\ None \notin Actions
  /\ MaxWrites \in Nat
  /\ Faults \subseteq {"refuse", "throw", "update", "observer"}

VARIABLES
  phase,      \* where each action is
  chain,      \* context.displaced, and displaced of that, and so on
  closed,     \* how the last handleDraft that an action called has ended
  failure,    \* context.failure
  stack,      \* the actions on the call stack, innermost last
  owner,      \* internal.mutableTransactionOwner
  drafts,     \* the writes in internal.rootState if it is a draft, first;
              \* then those of the draft it was made from
  finalizer,  \* whether internal.finalizeDraft is of the first of drafts
  state,      \* the writes in the mutable instance
  published,  \* the writes in published commits
  made,       \* number of writes
  refused,    \* the writes rolled back by a validator
  torn        \* whether a setState has failed inside an action

calls == <<phase, chain, closed, failure, stack>>
transaction == <<drafts, finalizer, state, published, refused>>
vars == <<calls, owner, transaction, made, torn>>

-----------------------------------------------------------------------------
(* Data.                                                                   *)

Phases == {"idle", "entering", "running", "suspended", "resumed", "returned",
           "closing", "done", "failed"}

\* How handleDraft ends: nothing was written; the draft is committed; it is
\* committed and an observer has thrown; it is refused.  "none": not called.
Endings == {"none", "nothing", "commit", "throw", "refuse"}

Failing == {"throw", "refuse"}

Writes == 1 .. MaxWrites

Elements(s) == {s[i] : i \in DOMAIN s}

TypeOK ==
  /\ phase \in [Actions -> Phases]
  /\ chain \in [Actions -> Seq(Actions)]
  /\ closed \in [Actions -> Endings]
  /\ failure \in [Actions -> BOOLEAN]
  /\ stack \in Seq(Actions)
  /\ owner \in Actions \cup {None}
  /\ drafts \in Seq(Seq(Writes))
  /\ "observer" \notin Faults => Len(drafts) <= 1
  /\ finalizer \in BOOLEAN
  /\ state \in Seq(Writes)
  /\ published \in Seq(Writes)
  /\ made \in 0..MaxWrites
  /\ refused \subseteq Writes
  /\ torn \in BOOLEAN

Init ==
  /\ phase = [a \in Actions |-> "idle"]
  /\ chain = [a \in Actions |-> <<>>]
  /\ closed = [a \in Actions |-> "none"]
  /\ failure = [a \in Actions |-> FALSE]
  /\ stack = <<>>
  /\ owner = None
  /\ drafts = <<>>
  /\ finalizer = FALSE
  /\ state = <<>>
  /\ published = <<>>
  /\ made = 0
  /\ refused = {}
  /\ torn = FALSE

-----------------------------------------------------------------------------
(* The call stack.                                                         *)

Top == stack[Len(stack)]

Below == SubSeq(stack, 1, Len(stack) - 1)

OnTop(a, phases) == stack # <<>> /\ Top = a /\ phase[a] \in phases

Body == {"running", "resumed"}

\* An observer runs: handleDraft has committed, and its caller still waits.
Observing ==
  /\ stack # <<>>
  /\ phase[Top] \in {"entering", "closing"}
  /\ closed[Top] \in {"commit", "throw"}

\* No observer waits: notifications.run throws their errors to this caller.
Outermost == \A a \in Elements(stack) : phase[a] \in Body

\* The program outside actions runs, or an action does.
UserCode == stack # <<>> => phase[Top] \in Body

\* context.active.
Active(a) == phase[a] \notin {"idle", "closing", "done", "failed"}

-----------------------------------------------------------------------------
(* The transaction.                                                        *)

IsDraft == drafts # <<>>

\* openTransactionFor.
Open ==
  /\ drafts' = <<<<>>>> \o drafts
  /\ finalizer' = TRUE
  /\ UNCHANGED <<state, published, refused>>

\* Mutant: the validator runs after the draft has been applied.
MutantRefused(written) ==
  /\ refused' = refused \cup Elements(written)
  /\ state' = state \o written
  /\ published' = published \o written

\* handleDraft puts the instance back before it validates.
Refused(written) ==
  /\ refused' = refused \cup Elements(written)
  /\ UNCHANGED <<state, published>>

Committed(written) ==
  /\ state' = state \o written
  /\ published' = published \o written
  /\ UNCHANGED refused

\* handleDraft.  A draft that was finalized before is a revoked proxy, and
\* finalizing it again throws.
HandleDraft(ending) ==
  LET written == IF finalizer THEN Head(drafts) ELSE <<>> IN
  /\ drafts' = IF finalizer THEN Tail(drafts) ELSE drafts
  /\ finalizer' = FALSE
  /\ \/ /\ ending = "nothing"
        /\ finalizer
        /\ written = <<>>
        /\ UNCHANGED <<state, published, refused>>
     \/ /\ ending \in {"commit", "throw"}
        /\ ending = "throw" => "throw" \in Faults /\ Outermost
        /\ written # <<>>
        /\ Committed(written)
     \/ /\ ending = "refuse"
        /\ finalizer => written # <<>> /\ "refuse" \in Faults
        /\ Refused(written)

-----------------------------------------------------------------------------
(* A call of an action.                                                    *)

\* The call begins: what is open is closed, whoever owns it.
Enter(a) ==
  /\ UserCode \/ (Observing /\ "observer" \in Faults)
  /\ phase[a] = "idle"
  /\ phase' = [phase EXCEPT ![a] = "entering"]
  /\ stack' = Append(stack, a)
  /\ chain' = [chain EXCEPT
       ![a] = IF owner = None THEN <<>> ELSE <<owner>> \o chain[owner]]
  /\ \/ /\ ~IsDraft
        /\ UNCHANGED <<closed, transaction>>
     \/ /\ IsDraft
        /\ \E ending \in Endings :
             /\ HandleDraft(ending)
             /\ closed' = [closed EXCEPT ![a] = ending]
  /\ UNCHANGED <<failure, owner, made, torn>>

\* The error of closing is the displaced action's; if there is none, the call
\* throws.  Otherwise the action opens its own transaction and runs.
Begin(a) ==
  /\ OnTop(a, {"entering"})
  /\ \/ /\ closed[a] \in Failing
        /\ chain[a] = <<>>
        /\ phase' = [phase EXCEPT ![a] = "failed"]
        /\ stack' = Below
        /\ owner' = None
        /\ UNCHANGED <<failure, transaction>>
     \/ /\ closed[a] \in Failing => chain[a] # <<>>
        /\ failure' = IF closed[a] \in Failing
                      THEN [failure EXCEPT ![Head(chain[a])] = TRUE]
                      ELSE failure
        /\ phase' = [phase EXCEPT ![a] = "running"]
        /\ owner' = a
        /\ Open
        /\ UNCHANGED stack
  /\ UNCHANGED <<chain, closed, made, torn>>

\* A write is made.
Made ==
  /\ made < MaxWrites
  /\ made' = made + 1

\* The action writes through internal.rootState, whoever's draft that is.
Write(a) ==
  /\ OnTop(a, Body)
  /\ Made
  /\ IF IsDraft
     THEN /\ drafts' = <<Append(Head(drafts), made')>> \o Tail(drafts)
          /\ UNCHANGED state
     ELSE /\ state' = Append(state, made')
          /\ UNCHANGED drafts
  /\ UNCHANGED <<calls, owner, finalizer, published, refused, torn>>

\* An await: the caller goes on.
Suspend(a) ==
  /\ OnTop(a, Body)
  /\ phase' = [phase EXCEPT ![a] = "suspended"]
  /\ stack' = Below
  /\ UNCHANGED <<chain, closed, failure, owner, transaction, made, torn>>

Resume(a) ==
  /\ stack = <<>>
  /\ phase[a] = "suspended"
  /\ phase' = [phase EXCEPT ![a] = "resumed"]
  /\ stack' = <<a>>
  /\ UNCHANGED <<chain, closed, failure, owner, transaction, made, torn>>

\* An async action is through; its promise settles in a later job.
Return(a) ==
  /\ OnTop(a, Body)
  /\ phase' = [phase EXCEPT ![a] = "returned"]
  /\ stack' = Below
  /\ UNCHANGED <<chain, closed, failure, owner, transaction, made, torn>>

\* handleResult begins: of a synchronous action, or of a settled promise.
Finish(a) ==
  /\ OnTop(a, {"running"}) \/ (stack = <<>> /\ phase[a] = "returned")
  /\ phase' = [phase EXCEPT ![a] = "closing"]
  /\ stack' = IF stack = <<>> THEN <<a>> ELSE stack
  /\ \/ /\ owner # a
        /\ closed' = [closed EXCEPT ![a] = "none"]
        /\ UNCHANGED transaction
     \/ /\ owner = a
        /\ \E ending \in Endings :
             /\ HandleDraft(ending)
             /\ closed' = [closed EXCEPT ![a] = ending]
  /\ UNCHANGED <<chain, failure, owner, made, torn>>

\* Mutant: only the action displaced directly is considered.
MutantHeir(a) ==
  IF chain[a] # <<>> /\ Active(Head(chain[a])) THEN Head(chain[a]) ELSE None

\* The nearest displaced action that has not finished.
Heir(a) ==
  LET Nearest(i) == /\ Active(chain[a][i])
                    /\ \A j \in 1 .. i - 1 : ~Active(chain[a][j])
  IN  IF \E i \in DOMAIN chain[a] : Active(chain[a][i])
      THEN chain[a][CHOOSE i \in DOMAIN chain[a] : Nearest(i)]
      ELSE None

\* The transaction goes to the heir, whether or not closing has thrown.
HandBack(a) ==
  /\ owner' = Heir(a)
  /\ IF Heir(a) = None THEN UNCHANGED transaction ELSE Open

Outcome(a) == IF closed[a] \in Failing \/ failure[a] THEN "failed" ELSE "done"

\* handleResult ends.
End(a) ==
  /\ OnTop(a, {"closing"})
  /\ IF closed[a] = "none" THEN UNCHANGED <<owner, transaction>> ELSE HandBack(a)
  /\ phase' = [phase EXCEPT ![a] = Outcome(a)]
  /\ failure' = [failure EXCEPT ![a] = FALSE]
  /\ stack' = Below
  /\ UNCHANGED <<chain, closed, made, torn>>

-----------------------------------------------------------------------------
(* setState.                                                               *)

\* Mutant: the draft is closed and not opened again.
MutantReopened == <<>>

\* What is open after the update.
Reopened == IF IsDraft THEN <<<<>>>> ELSE <<>>

\* The draft is committed, then the update, and a draft is opened for the same
\* owner.
Updated ==
  /\ IsDraft => finalizer
  /\ Made
  /\ LET written == Append(IF IsDraft THEN Head(drafts) ELSE <<>>, made') IN
       /\ state' = state \o written
       /\ published' = published \o written
  /\ drafts' = Reopened
  /\ finalizer' = (Reopened # <<>>)
  /\ UNCHANGED refused

\* The draft is refused, or it is committed and the update throws: the caller
\* gets the error, and no draft is opened.
NotUpdated ==
  /\ "update" \in Faults
  /\ IsDraft
  /\ \E ending \in Endings \ {"throw"} : HandleDraft(ending)
  /\ UNCHANGED made

\* An observer may call it too.  An update of a draft made from another draft
\* is not followed.
SetState ==
  /\ UserCode \/ Observing
  /\ Len(drafts) <= 1
  /\ \/ Updated /\ UNCHANGED torn
     \/ NotUpdated /\ torn' = TRUE
  /\ UNCHANGED <<calls, owner>>

-----------------------------------------------------------------------------
(* Specification.                                                          *)

Next ==
  \/ \E a \in Actions :
       \/ Enter(a)
       \/ Begin(a)
       \/ Write(a)
       \/ Suspend(a)
       \/ Resume(a)
       \/ Return(a)
       \/ Finish(a)
       \/ End(a)
  \/ SetState

Spec == Init /\ [][Next]_vars

-----------------------------------------------------------------------------
(* Properties.                                                             *)

\* getRawStateLocalAction.ts: "The store then held a state its own commits
\* could not rebuild."  However actions overlap, nest and fail, no write
\* reaches the instance without a draft to record it, unless a setState has failed
\* inside an action and left it without one.
CommitsRebuildState == published = state \/ torn

Drafted == UNION {Elements(drafts[i]) : i \in DOMAIN drafts}

\* Each write is in the instance, in the open draft, or was refused, and in
\* one of them only: closing somebody else's transaction loses nothing, rolls
\* nothing back that was committed, and commits nothing twice.
EachWriteInOnePlace ==
  /\ 1..made = Elements(state) \cup Drafted \cup refused
  /\ Elements(state) \cap (Drafted \cup refused) = {}
  /\ Cardinality(Elements(state)) = Len(state)
  /\ Drafted \cap refused = {}

\* "Exactly one action owns the open draft, and ownership is a stack."  While
\* some action has not finished there is one open draft, owned by such an
\* action; when all have, there is none (as long as no setState has failed).
DraftIsOwned ==
  ~torn /\ (\A a \in Actions : phase[a] \notin {"entering", "closing"})
  => IF \E a \in Actions : Active(a)
     THEN /\ owner # None
          /\ Active(owner)
          /\ Len(drafts) = 1
          /\ finalizer
     ELSE owner = None /\ drafts = <<>>

=============================================================================
