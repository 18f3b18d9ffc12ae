----------------------------- MODULE MCResolve -----------------------------
(* Packages a, b and c, a group g and an alternative o.  a may depend on    *)
(* any of them and on itself, b on a, c or o, c on a: cycles of every       *)
(* length, shared dependencies, sets and alternatives inside dependencies.  *)
EXTENDS Resolve

CONSTANTS a, b, c, g, o, Deep

MCName == {a, b, c, g, o}

Kinds(bfile) ==
  [n \in MCName |-> CASE n = g -> "set" [] n = o -> "or"
                      [] n = b -> IF bfile THEN "file" ELSE "package" [] OTHER -> "package"]

DepsOfA == {<<>>, <<a>>, <<b>>, <<g>>, <<b, c>>, <<c, c>>, <<o, b>>, <<g, b>>}
DepsOfB == {<<>>, <<a>>, <<o>>}
DepsOfC == {<<>>, <<a>>}
Groups == {<<>>, <<b, c>>}

Lists ==
  { [n \in MCName |-> CASE n = a -> da [] n = b -> db [] n = c -> dc [] n = g -> dg [] n = o -> <<b, c>>] :
      da \in DepsOfA, db \in DepsOfB, dc \in DepsOfC, dg \in Groups }

(* a is new; b is a file, new, current, outdated, missing or local; c is    *)
(* new or current.                                                          *)
BStates == {"file", "new", "current", "old", "missing", "local"}

InstallWorlds ==
  { [mode |-> "install", request |-> r, kind |-> Kinds(sb = "file"), parts |-> l,
     available |-> {a, c} \cup (IF sb \in {"new", "current", "old"} THEN {b} ELSE {}),
     installed |-> (IF sb \in {"current", "old", "local"} THEN {b} ELSE {}) \cup (IF sc THEN {c} ELSE {}),
     newer |-> IF sb = "old" THEN {b} ELSE {}, marked |-> {c}, flags |-> f, max_depth |-> m] :
      r \in {<<a>>, <<a, c>>, <<g, b>>}, l \in Lists, sb \in BStates, sc \in BOOLEAN,
      f \in {{"unsafe"}, {"reinstall"}, {"unsafe", "ignore-missing", "ignore-satisfied"},
             {"unsafe", "ignore-dependency"}}, m \in {1, Deep} }

RemoveWorlds ==
  { [mode |-> "remove", request |-> r, kind |-> Kinds(FALSE), parts |-> l,
     available |-> {a, b, c}, installed |-> i, newer |-> {}, marked |-> {}, flags |-> f,
     max_depth |-> m] :
      r \in {<<a>>, <<c>>, <<g, o>>}, l \in Lists, i \in SUBSET {a, b, c},
      f \in {{}, {"ignore-dependency"}}, m \in {1, Deep} }

MCWorlds == InstallWorlds \cup RemoveWorlds
=============================================================================
