-------------------------- MODULE MirroredHistory ---------------------------
(***************************************************************************)
(* What a shared store promises its clients, with no transport in sight:   *)
(* authorities come one after the other, each appends updates to a history *)
(* of its own, and a mirror jumps from one published point of those        *)
(* histories to a later one.  SharedMirror implements this.                *)
(***************************************************************************)
EXTENDS Integers, Sequences

CONSTANTS Clients, MaxEpoch

VARIABLES
  authority,   \* epoch of the newest authority
  sequence,    \* sequence[e]: number of updates published in epoch e
  mirror       \* per client: the point it shows, and the state shown

vars == <<authority, sequence, mirror>>

Epochs == 0..MaxEpoch

\* The state after the first s updates of epoch e.
HistoryAt(e, s) == [i \in 1..s |-> <<e, i>>]

Point(e, s) == [epoch |-> e, seq |-> s, state |-> HistoryAt(e, s)]

Later(m, n) == n.epoch > m.epoch \/ (n.epoch = m.epoch /\ n.seq > m.seq)

Init ==
  /\ authority = 0
  /\ sequence = [e \in Epochs |-> 0]
  /\ mirror = [c \in Clients |-> Point(0, 0)]

Begin ==
  /\ authority' = authority + 1
  /\ UNCHANGED <<sequence, mirror>>

Publish ==
  /\ sequence' = [sequence EXCEPT ![authority] = @ + 1]
  /\ UNCHANGED <<authority, mirror>>

Advance(c) ==
  /\ \E e \in 0..authority : \E s \in 0..sequence[e] :
       /\ Later(mirror[c], Point(e, s))
       /\ mirror' = [mirror EXCEPT ![c] = Point(e, s)]
  /\ UNCHANGED <<authority, sequence>>

Next == Begin \/ Publish \/ \E c \in Clients : Advance(c)

Spec == Init /\ [][Next]_vars

=============================================================================
