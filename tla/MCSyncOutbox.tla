---------------------------- MODULE MCSyncOutbox ----------------------------
(***************************************************************************)
(* SyncOutbox on small instances: each setup lets a few things happen, and *)
(* together they let everything happen.                                    *)
(***************************************************************************)
EXTENDS SyncOutbox, TLC

Bounds(m, f, s, x) ==
  [mutations |-> m, facts |-> f, sessions |-> s,
   faults |-> x, attempts |-> 1]

Happens(fails, calls, realtime) ==
  [fails |-> fails, calls |-> calls, realtime |-> realtime]

MCSetups ==
  {\* storage fails or the program ends, twice over, across a restart
   Bounds(2, 0, 2, 2) @@ Happens({"crash", "write", "read", "remove"}, {"destroy"}, FALSE),
   Bounds(2, 0, 2, 1) @@ Happens({"crash", "write", "read", "remove", "malformed"}, {"clear"}, FALSE),
   \* the remote fails, declines or wins a conflict, across a restart
   Bounds(2, 1, 2, 1) @@ Happens({"crash", "push", "malformed", "decline", "conflict"}, {}, FALSE),
   Bounds(2, 1, 1, 1) @@ Happens({"push", "decline", "conflict"}, {"flush", "clear"}, FALSE),
   \* events, pulls and pushes meet in the lane
   Bounds(1, 2, 1, 1) @@ Happens({"push", "pull", "conflict", "refuse", "throw"}, {"pull"}, TRUE),
   \* two faults of the remote before everything is delivered
   Bounds(2, 1, 1, 2) @@ Happens({"push", "pull", "decline", "refuse", "throw"}, {}, TRUE)}

=============================================================================
