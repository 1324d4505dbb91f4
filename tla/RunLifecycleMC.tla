-------------------------- MODULE RunLifecycleMC --------------------------
EXTENDS RunLifecycle

\* A cloud packet that starts the run and a local one that depends on it.
MCRequired  == <<"patch", "review">>
MCDeps      == [p \in {"patch", "review"} |-> IF p = "review" THEN {"patch"} ELSE {}]
MCCloud     == {"patch"}
MCInvocable == {"patch", "review"}
=============================================================================
