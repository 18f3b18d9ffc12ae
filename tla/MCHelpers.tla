----------------------------- MODULE MCHelpers -----------------------------
(* The helpers most components are built from: a behaviour fills a new     *)
(* string array and prunes it, or lets a text grow that the conversions    *)
(* are applied to, or runs operations that save and clear the environment. *)
EXTENDS ArrayClient, Text, Environment

MCAlphabet == [u \in {"name", "path", "area"} |->
  CASE u = "name" -> {"A", "a", "2", "5", "/", "%", "*", "."}
    [] u = "path" -> {"a", ".", "/", "\t"}
    [] u = "area" -> {"a", " ", "\n"}]
MCMaxText == [u \in DOMAIN MCAlphabet |-> IF u = "name" THEN 4 ELSE 6]

(* One list that makes the table grow while it is set.                     *)
MCGiven == {<<v, w>> : v \in Value, w \in Value} \cup {<<1, 2, 1, 3>>}

HelpersInit == Init /\ TextInit /\ EnvInit
HelpersNext ==
  \/ text = <<>> /\ ops = 0 /\ Next /\ UNCHANGED <<textVars, envVars>>
  \/ arr = array_new /\ ops = 0 /\ TextNext /\ UNCHANGED <<vars, envVars>>
  \/ arr = array_new /\ text = <<>> /\ EnvNext /\ UNCHANGED <<vars, textVars>>
  \/ Len(text) = MaxText[use] /\ UNCHANGED <<vars, textVars, envVars>>
  \/ ops = MaxOps /\ frames = <<>> /\ UNCHANGED <<vars, textVars, envVars>>
=============================================================================
