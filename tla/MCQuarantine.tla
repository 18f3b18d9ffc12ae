---------------------------- MODULE MCQuarantine ----------------------------
(* Two packages, p and q.  p lists up to two files of x, y and z, where x   *)
(* may have either of two contents and z is restricted; q up to two of x    *)
(* and y, and up to one link.  Every path may be missing or altered in the  *)
(* quarantine's root.                                                       *)
EXTENDS Quarantine, TLC

CONSTANTS p, q, x, y, z, h1, h2, t

UpToTwo(S) == {<<>>} \cup { <<e>> : e \in S } \cup (S \X S)

PLines == {<<x, h1>>, <<x, h2>>, <<y, h1>>, <<z, h1>>}
QLines == {<<x, h1>>, <<y, h1>>}
QLinks == {<<x, t>>, <<y, t>>}

Roots ==
  { [i \in {x, y, z} |-> CASE i = x -> cx [] i = y -> cy [] i = z -> h1] :
      cx \in {h1, h2, t, Absent}, cy \in {h1, Absent} }

MCScenarios ==
  { [files |-> (p :> fp) @@ (q :> fq), links |-> (p :> <<>>) @@ (q :> lq), root |-> r] :
      fp \in UpToTwo(PLines), fq \in UpToTwo(QLines),
      lq \in {<<>>} \cup { <<e>> : e \in QLinks }, r \in Roots }
=============================================================================
