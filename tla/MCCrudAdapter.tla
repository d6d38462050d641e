---------------------------- MODULE MCCrudAdapter -----------------------------
(* Instances of CrudAdapter: the backends, and bounds on what happens to each. *)
EXTENDS CrudAdapter

Bounded(backend, local, others, lost, crash) ==
    [bounds |-> [local |-> local, others |-> others, lost |-> lost, crash |-> crash]]
        @@ backend

\* The defaults: a list that leaves a record out does not say it is gone.
Partial == [Backend EXCEPT !.insert = TRUE, !.authoritative = FALSE]

MCSetups ==
    {Bounded(Rest, 2, 0, 0, 1),
     Bounded([Rest EXCEPT !.whole = FALSE], 1, 1, 1, 0),
     Bounded(Supabase, 1, 1, 0, 1),
     Bounded(Incremental, 1, 1, 1, 0),
     Bounded(Partial, 2, 1, 1, 1),
     Bounded([Firestore EXCEPT !.persistState = FALSE], 1, 1, 0, 1)}

=============================================================================
