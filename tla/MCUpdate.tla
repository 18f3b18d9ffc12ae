------------------------------ MODULE MCUpdate ------------------------------
(* Two processes and two repositories; sources.list names the first again. *)
EXTENDS Update

CONSTANTS p1, p2, s1, s2, n1, n2

MCProc == {p1, p2}
MCFileOf == [s \in {s1, s2} |-> IF s = s1 THEN n1 ELSE n2]
MCLines == <<s1, s2, s1>>
=============================================================================
