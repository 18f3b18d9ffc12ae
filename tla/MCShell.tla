------------------------------ MODULE MCShell ------------------------------
(* All short scripts over four vocabularies: control flow alone, conditions *)
(* alone, control flow with scripts that run scripts, and the operations    *)
(* that touch the program's global state.                                   *)
EXTENDS Shell, SequencesExt

CONSTANTS a, b, c, L

Word0(w) == <<w, "none">>
other == Word0("other")

Control ==
  {<<"label", L>>, <<"goto", L>>, Word0("ret"), Word0("endif"), <<"if", other>>, other}

Conditions == {Word0("endif"), <<"if", other>>, other}

Nesting ==
  {<<"label", L>>, <<"goto", L>>, Word0("ret"), <<"shell", b>>, <<"if", <<"shell", b>>>>, other}

Operations ==
  {Word0("exec"), Word0("sandbox"), <<"exit", 0>>,
   <<"set", "unblock">>, <<"unset", "unblock">>, <<"set", "sandbox">>, <<"set", "ignore-error">>,
   <<"shell", b>>, <<"if", Word0("exec")>>, other}

Files(as, bs) == { (a :> x) @@ (b :> y) @@ (c :> <<other>>) : x \in as, y \in bs }

MCSources ==
  Files(BoundedSeq(Control, 4) \cup BoundedSeq(Conditions, 5), {<<>>})
  \cup Files(BoundedSeq(Nesting, 3),
             {<<other>>, <<<<"shell", c>>, other>>, <<<<"label", L>>, other>>, <<<<"goto", L>>>>})
  \cup Files(BoundedSeq(Operations, 2), {<<other, Word0("exec")>>})

MCStarts == {<<"shell", a>>, <<"shell", "-">>}
MCTyped == {<<"shell", a>>, <<"goto", L>>}
MCFlagSets == {{}, {"ignore-error"}, {"unblock"}}
=============================================================================
