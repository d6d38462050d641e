---------------------------- MODULE UndoTimeline ----------------------------
(***************************************************************************)
(* What an undo history promises (packages/coaction-history/README.md,     *)
(* API): a line of at most Limit + 1 states with a cursor.  A recorded     *)
(* change goes behind the cursor and cuts what is ahead of it; undo and    *)
(* redo move the cursor by one and show the very state that is there.      *)
(* History implements this.                                                *)
(*                                                                         *)
(* An observer may write while the cursor moves: the write is not          *)
(* recorded, and becomes part of the state that is shown.  The patches of  *)
(* a history of patches then lead elsewhere, and only the number of its    *)
(* states is as it should be.                                              *)
(***************************************************************************)
EXTENDS Naturals, Sequences, SequencesExt

CONSTANTS States, Limit

VARIABLES
  past,      \* the states before the cursor, oldest first
  present,   \* the state at the cursor
  future,    \* the states after the cursor, nearest last
  store,     \* the state that is shown
  meddled,   \* whether an observer has written while the cursor moved
  suspended  \* whether recording is suspended

lists == <<past, future>>
vars == <<lists, present, store, meddled, suspended>>

Init ==
  /\ past = <<>>
  /\ present \in States
  /\ future = <<>>
  /\ store = present
  /\ meddled = FALSE
  /\ suspended = FALSE

\* The newest states of a list, as many as the limit allows.
Newest(list) ==
  SubSeq(list, IF Len(list) > Limit THEN Len(list) - Limit + 1 ELSE 1, Len(list))

Record ==
  /\ present' # present
  /\ past' = Newest(Append(past, present))
  /\ future' = <<>>

Undo ==
  /\ past # <<>>
  /\ ~meddled
  /\ present' = Last(past)
  /\ past' = Front(past)
  /\ future' = Append(future, present)

Redo ==
  /\ future # <<>>
  /\ ~meddled
  /\ present' = Last(future)
  /\ past' = Append(past, present)
  /\ future' = Front(future)

\* A move that may end in another state than the one that was there.
MeddledMove ==
  /\ meddled
  /\ \E by \in {-1, 1} :
       /\ Len(past') = Len(past) + by
       /\ Len(future') = Len(future) - by

\* clear, or the end of a suspension: history starts again.
Clear ==
  /\ past' = <<>>
  /\ future' = <<>>

\* A change while recording is suspended.
Absorb ==
  /\ suspended
  /\ UNCHANGED lists

\* The states ahead may be cut before the change that cuts them is recorded.
Cut ==
  /\ store' # present
  /\ future' = <<>>
  /\ UNCHANGED <<past, present>>

Observe == UNCHANGED <<lists, present>>

Next ==
  /\ Record \/ Undo \/ Redo \/ MeddledMove \/ Clear \/ Absorb \/ Cut \/ Observe
  /\ {present', store'} \subseteq States
  /\ meddled' \in BOOLEAN
  /\ suspended' \in BOOLEAN

Spec == Init /\ [][Next]_vars

=============================================================================
