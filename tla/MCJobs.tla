------------------------------- MODULE MCJobs -------------------------------
(* Bounds for Jobs: the "jobs" setting may be unset (0), 1 or 3 on a        *)
(* machine with 2 processors, and the caller offers up to one job more than *)
(* the table holds.                                                         *)
EXTENDS Jobs

MCSettings == {0, 1, 3}
=============================================================================
