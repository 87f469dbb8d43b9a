------------------------- MODULE MCMfFeedbackCache -------------------------
(* Two feedbacks.  Both themes fall back on the base theme's directories,  *)
(* so a handle can survive a theme change; light overrides one feedback    *)
(* and dark the other, and empty files silence some of them for audio.     *)
EXTENDS MfFeedbackCache, TLC

MCNames == <<"press", "release">>
MCOneName == <<"press">>
MCOneBackend == <<"audio">>
MCTwoBackends == <<"audio", "vibra">>
MCOneEpoch == [b \in Backends |-> 1]
MCEpochs == [b \in Backends |-> IF b = "audio" THEN 2 ELSE 1]
MCThemes == {"light", "dark"}
MCDirList ==
    [light |-> [press |-> <<"light/press", "base/press">>, release |-> <<"base/release">>],
     dark |-> [press |-> <<"base/press">>, release |-> <<"dark/release", "base/release">>]]
MCContent ==
    [audio |-> [d \in Dirs |-> IF d \in {"base/press", "dark/release"} THEN "empty" ELSE "sound"],
     vibra |-> [d \in Dirs |-> IF d = "light/press" THEN "none" ELSE "sound"]]

=============================================================================
