--------------------------- MODULE MCExternalStores ---------------------------
(* Instances of ExternalStores: every library in every role its binding supports. *)
EXTENDS ExternalStores

Store(kinds, shares, validated) ==
    {[kind |-> k, share |-> s, validated |-> v] :
        k \in kinds, s \in shares, v \in validated}

MCSetups ==
    Store(ReadThrough \cup {"zustand", "redux", "jotai", "xstate"}, {"none"}, BOOLEAN)
    \cup Store(ReadThrough \cup {"zustand", "redux", "jotai", "xstate"}, {"main"}, {FALSE})
    \cup Store(ReadThrough \cup {"zustand", "jotai", "xstate"}, {"client"}, {FALSE})
=============================================================================
