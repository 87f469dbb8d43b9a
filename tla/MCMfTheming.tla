----------------------------- MODULE MCMfTheming -----------------------------
EXTENDS MfTheming

CONSTANTS base, custom, another, none

MCThemes == {base, custom, another}
MCNameOrder == <<"Press", "alarm", "press", "press-x">>
MCIllFormed == {"Press"}
MCFallbackName == [n \in {"Press", "alarm", "press", "press-x"} |->
                      IF n = "press-x" THEN "press" ELSE ""]

\* base <- custom <- another; another on base; custom broken; a circle.
Inheritances ==
    {[t \in MCThemes |-> CASE t = base -> none [] t = custom -> pair[1] [] t = another -> pair[2]] :
        pair \in {<<base, custom>>, <<base, base>>, <<none, custom>>, <<another, custom>>}}

\* Pairs of common and application directories.
BaseContents == {<<{}, {}>>, <<{"press"}, {}>>, <<{"Press", "press", "press-x"}, {}>>,
                 <<{"press", "press-x"}, {"press"}>>, <<{"alarm", "press"}, {"Press", "press-x"}>>,
                 <<{"press-x"}, {"alarm", "press"}>>}
CustomContents == (SUBSET {"press", "press-x"}) \X {{}, {"press"}, {"alarm", "press"}}
AnotherContents == {<<{}, {}>>, <<{"Press", "press"}, {"press-x"}>>, <<{"alarm", "press-x"}, {"press"}>>}

Tree(installed, inherits, b, c, a) ==
    LET contents == [t \in MCThemes |-> CASE t = base -> b [] t = custom -> c [] t = another -> a]
        On(t, i) == IF t \in installed THEN contents[t][i] ELSE {}
    IN [installed |-> installed, inherits |-> inherits,
        common |-> [t \in MCThemes |-> On(t, 1)], app |-> [t \in MCThemes |-> On(t, 2)]]

MCTrees ==
    {Tree(i, h, b, c, a) : i \in {MCThemes, {base, another}}, h \in Inheritances,
                           b \in BaseContents, c \in CustomContents, a \in AnotherContents}
      \cup {Tree({custom, another}, h, <<{}, {}>>, <<{"press"}, {}>>, <<{}, {}>>) : h \in Inheritances}

\* An update that adds, removes and moves feedbacks.
MCUpdatedTrees == {Tree(MCThemes, h, <<{"alarm", "press-x"}, {"press"}>>, <<{"press"}, {}>>, <<{}, {}>>) :
                      h \in Inheritances}

=============================================================================
