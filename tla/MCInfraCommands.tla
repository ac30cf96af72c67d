--------------------------- MODULE MCInfraCommands ---------------------------
(***************************************************************************)
(* Two operators, a resource that is always there and one behind a toggle, *)
(* and the commands that differ in what they say and from where they say   *)
(* it: typed, exported or not at all.                                      *)
(***************************************************************************)
EXTENDS InfraCommands, TLC

CONSTANTS o1, o2, dataset, composer, tf_var, proxy, home

Typed == [value |-> "yes", origin |-> "command line"]
Exported == [value |-> "yes", origin |-> "environment"]
Unsaid == [value |-> "", origin |-> "undefined"]

Vars(items, origin) == [items |-> items, origin |-> origin]
NoVars == Vars({}, "undefined")
Say(cmd, confirm, allow, v, env) ==
    [cmd |-> cmd, project |-> TRUE, confirm |-> confirm, allow |-> allow,
     vars |-> v, env |-> env]

MCCommands ==
    {Say("apply", Typed, allow, v, {home}) :
        allow \in {Typed, Exported},
        v \in {NoVars, Vars({composer}, "command line"), Vars({composer}, "environment")}}
    \cup {Say("apply", Exported, Typed, NoVars, {}),
          Say("apply", Typed, Unsaid, NoVars, {tf_var}),
          Say("apply", Typed, Unsaid, NoVars, {proxy}),
          Say("apply", Typed, Unsaid, Vars({composer, "no value"}, "command line"), {}),
          Say("destroy", Typed, Unsaid, NoVars, {}),
          Say("destroy", Exported, Unsaid, NoVars, {}),
          Say("validate", Unsaid, Unsaid, NoVars, {proxy}),
          Say("plan", Unsaid, Unsaid, NoVars, {}),
          Say("migrate-state", Typed, Unsaid, NoVars, {})}

MCTexts == (dataset :> {"as_is", "forgotten", Gone}) @@ (composer :> {"as_is", "replaced"})
Same == Permutations(Operators)
MCTfVarNames == [n \in {tf_var} |-> composer]
=============================================================================
