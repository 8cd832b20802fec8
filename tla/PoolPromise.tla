---------------------------- MODULE PoolPromise ----------------------------
(***************************************************************************)
(* What the worker pool promises the callers of AddTask, whatever the      *)
(* goroutines, channels and locks it is made of: a task begins only once   *)
(* it was accepted by an open pool, is held by the pool once and finishes  *)
(* at most once; an accepted task gets lost only while the pool closes or  *)
(* with a worker that fails; in a pool that closed in time nothing is held *)
(* and nothing begins again.                                               *)
(***************************************************************************)
EXTENDS Naturals, FiniteSets

CONSTANTS Tasks, QueueSize

VARIABLES
  task,    \* what became of each task
  phase,   \* of the pool
  late     \* the pool closed without waiting for its workers

In(s) == {t \in Tasks : task[t] = s}

Init ==
  /\ task = [t \in Tasks |-> "new"]
  /\ phase = "new"
  /\ late = FALSE

Become(t, from, to) ==
  /\ task[t] = from
  /\ task' = [task EXCEPT ![t] = to]
  /\ UNCHANGED <<phase, late>>

Offer(t) == phase = "open" /\ Become(t, "new", "offered")
Refuse(t) == phase # "open" /\ Become(t, "new", "rejected")
Accept(t) == /\ phase = "open" /\ Cardinality(In("queued")) < QueueSize
             /\ Become(t, "offered", "queued")
Reject(t) == phase \in {"closing", "closed"} /\ Become(t, "offered", "rejected")

Working == phase # "closed" \/ late
Take(t) == Working /\ Become(t, "queued", "held")
Finish(t) == Working /\ Become(t, "held", "finished")
Fail(t) == Working /\ Become(t, "held", "lost")
Drop(t) == phase = "closing" /\ Become(t, "queued", "lost")

Open == phase = "new" /\ phase' = "open" /\ UNCHANGED <<task, late>>
Close == phase \in {"new", "open"} /\ phase' = "closing" /\ UNCHANGED <<task, late>>
GiveUp == phase = "closing" /\ late' = TRUE /\ UNCHANGED <<task, phase>>
Closed == /\ phase = "closing" /\ (late \/ In("held") = {})
          /\ phase' = "closed" /\ UNCHANGED <<task, late>>

Next ==
  \/ Open \/ Close \/ GiveUp \/ Closed
  \/ \E t \in Tasks :
       \/ Offer(t) \/ Refuse(t) \/ Accept(t) \/ Reject(t)
       \/ Take(t) \/ Finish(t) \/ Fail(t) \/ Drop(t)

Spec == Init /\ [][Next]_<<task, phase, late>>
=============================================================================
