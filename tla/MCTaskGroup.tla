---------------------------- MODULE MCTaskGroup ----------------------------
(* TaskGroup with a group of each kind. *)
EXTENDS TaskGroup, TLC

CONSTANTS gw, gc, t1, t2, t3

MCGroups == {gw, gc}
MCTasks == {t1, t2, t3}
MCGroupOf == (t1 :> gw) @@ (t2 :> gc) @@ (t3 :> gc)
MCTasksOfOne == {t1, t2}
MCGroupOfOne == (t1 :> gw) @@ (t2 :> gw)
=============================================================================
