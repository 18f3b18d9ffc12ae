----------------------------- MODULE MCInstall -----------------------------
(* Package p has the file x and the link y; in its version 2 x is a link,   *)
(* and y is given up.  Version 2 of package q takes y over as a file with   *)
(* the same content, giving up z.  A transaction of p's version 1 and q's   *)
(* version 2 has a conflict.  The path z is restricted by now; version 3 of *)
(* q is for another architecture.                                           *)
EXTENDS Install, TLC

CONSTANTS p, q, v1, v2, v3, x, y, z, c1, c2

Nothing == <<>>

MCFiles ==
  (p :> (v1 :> (x :> c1) @@ v2 :> Nothing @@ v3 :> Nothing))
  @@ (q :> (v1 :> (z :> c1) @@ v2 :> (y :> c1) @@ v3 :> Nothing))

MCLinks ==
  (p :> (v1 :> (y :> c1) @@ v2 :> (x :> c2) @@ v3 :> Nothing))
  @@ (q :> (v1 :> Nothing @@ v2 :> Nothing @@ v3 :> Nothing))

MCForeign == {<<q, v3>>}

MCInstalls ==
  {p :> v2, p :> v2 @@ q :> v2, p :> v1 @@ q :> v2, q :> v1, q :> v3}

MCRemovals == {{p}, {p, q}}

MCInstallFlags ==
  {{}, {"usrmerge", "ignore-error"}, {"ignore-quarantine"}, {"download-only"}, {"user"},
   {"locked", "ignore-error"}}

MCRemoveFlags ==
  {{}, {"without-files"}, {"without-metadata"}, {"declined"}}
=============================================================================
