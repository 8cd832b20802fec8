------------------------------- MODULE MCTask -------------------------------
(* Task on small sets of jobs and task objects. *)
EXTENDS Task

CONSTANTS j1, j2, o1

MCJobs == {j1, j2}
MCKinds == JobKinds
=============================================================================
