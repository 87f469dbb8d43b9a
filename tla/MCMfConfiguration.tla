-------------------------- MODULE MCMfConfiguration --------------------------
EXTENDS MfConfiguration

CONSTANT nan

MCPriorities == <<"priority1", "priority2">>
MCOtherDirs == {"priority3", "priorities"}
MCPrefixNumber == [d \in Range(MCPriorities) \cup MCOtherDirs |->
                      CASE d = "priority1" -> 1 [] d = "priority2" -> 2
                        [] d = "priority3" -> 3 [] OTHER -> nan]
MCFeedbacks == {"press", "priority1_press", "priority2_press"}
MCNamePriority == [f \in MCFeedbacks |->
                      CASE f = "press" -> 0 [] f = "priority1_press" -> 1
                        [] OTHER -> 2]

==============================================================================
