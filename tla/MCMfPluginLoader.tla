--------------------------- MODULE MCMfPluginLoader ---------------------------
(* The audio and the vibra backend, each with or without a second link in  *)
(* either directory, next to a file of another name, a library that cannot *)
(* be loaded, a plug-in of another program and a source.                   *)
EXTENDS MfPluginLoader, TLC

MCLibs == {"audio", "vibra", "input", "other", "bad"}
MCKind == [audio |-> "backend", vibra |-> "backend", input |-> "source",
           other |-> "foreign", bad |-> "broken"]
Link(l) == [named |-> TRUE, lib |-> l]
Backup(l) == [named |-> FALSE, lib |-> l]

UpTo(n, ls) == UNION {[1 .. k -> {Link(l) : l \in ls}] : k \in 0 .. n}
MCInstallations ==
    [nonThreaded : UpTo(3, {"audio", "vibra"}) \cup {<<Backup("vibra"), Link("other"), Link("audio")>>},
     threaded : UpTo(2, {"audio", "vibra"}) \cup {<<Link("bad"), Link("input"), Link("vibra")>>},
     sources : {<<>>, <<Link("input"), Link("audio"), Link("input")>>}]

=============================================================================
