------------------------------ MODULE WorkPool ------------------------------
(***************************************************************************)
(* What the thread pool of src/src/tpool.c promises to its callers: a work  *)
(* item handed to tpool_add_work is pending, is then executed by one        *)
(* worker, once, and is done; when the pool is torn down the items still    *)
(* pending are thrown away without being executed.  Nothing is said about   *)
(* threads, counters or the order in which pending items start.             *)
(***************************************************************************)
CONSTANT Works        \* the work items callers may submit

VARIABLES pending,    \* submitted, not yet taken by a worker
          running,    \* being executed
          done,       \* executed to the end
          dropped     \* discarded by the teardown, never executed

vars == <<pending, running, done, dropped>>

Init == /\ pending = {}
        /\ running = {}
        /\ done = {}
        /\ dropped = {}

Submit(w) == /\ w \notin pending \cup running \cup done \cup dropped
             /\ pending' = pending \cup {w}
             /\ UNCHANGED <<running, done, dropped>>

Start(w) == /\ w \in pending
            /\ pending' = pending \ {w}
            /\ running' = running \cup {w}
            /\ UNCHANGED <<done, dropped>>

Complete(w) == /\ w \in running
               /\ running' = running \ {w}
               /\ done' = done \cup {w}
               /\ UNCHANGED <<pending, dropped>>

Teardown == /\ pending' = {}
            /\ dropped' = dropped \cup pending
            /\ UNCHANGED <<running, done>>

Next == \/ \E w \in Works : Submit(w) \/ Start(w) \/ Complete(w)
        \/ Teardown

Spec == Init /\ [][Next]_vars
=============================================================================
