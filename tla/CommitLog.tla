----------------------------- MODULE CommitLog ------------------------------
(***************************************************************************)
(* What a store promises the middleware that listens to its commits: the   *)
(* commits form one log, and every listener has been told of a commit,     *)
(* once, before the next one is made.  StoreCommits implements this.       *)
(***************************************************************************)
EXTENDS Integers

CONSTANT CommitListeners

VARIABLES
  made,       \* number of commits
  listening,  \* listeners that are registered
  received,   \* per listener: the last commit it has been told of
  told        \* per listener: how often it was told, and the commits before it joined

vars == <<made, listening, received, told>>

Init ==
  /\ made = 0
  /\ listening \in SUBSET CommitListeners
  /\ received = [l \in CommitListeners |-> 0]
  /\ told = [l \in CommitListeners |-> 0]

Commit ==
  /\ \A l \in listening : received[l] = made
  /\ made' = made + 1
  /\ UNCHANGED <<listening, received, told>>

\* The listener is told of the commit it has not been told of.
Tell(l) ==
  /\ received[l] = made - 1
  /\ received' = [received EXCEPT ![l] = made]
  /\ told' = [told EXCEPT ![l] = @ + 1]
  /\ UNCHANGED <<made, listening>>

\* A new listener is told of the commits still to come, and one that comes back
\* before it was told of the last, of that one.
Join(l) ==
  /\ l \notin listening
  /\ listening' = listening \cup {l}
  /\ \/ /\ received' = [received EXCEPT ![l] = made]
        /\ told' = [told EXCEPT ![l] = made]
     \/ /\ received[l] = made - 1
        /\ UNCHANGED <<received, told>>
  /\ UNCHANGED made

Leave ==
  /\ listening' \in SUBSET listening
  /\ UNCHANGED <<made, received, told>>

Next ==
  \/ Commit
  \/ \E l \in CommitListeners : Tell(l) \/ Join(l)
  \/ Leave

Spec == Init /\ [][Next]_vars

=============================================================================
