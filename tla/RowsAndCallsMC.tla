--------------------------- MODULE RowsAndCallsMC ---------------------------
(* RowsAndCalls for TLC: a few columns, delegations and environments.          *)
EXTENDS RowsAndCalls, TLC

\* A call of the store is only ever compared with another.
Symmetric == Permutations(Calls)

\* One column alone, two together, and the status.
MCPatches == {{"status"}, {"stage"}, {"stage", "anchor"}}

Asked(act, src) == [act |-> act, src |-> src]

\* A live patch to start with and a specification; a patch without a source
\* of its own and an issue.
MCPlan == {<<Asked("patch", "narrow"), Asked("spec", "none")>>,
           <<Asked("patch", "none"), Asked("issue", "none")>>}
MCDirect == {Asked("spec", "none"), Asked("patch", "none"), Asked("patch", "part"),
             Asked("sql", "none")}

\* Everything configured, and agents that are waited for only when their patch
\* is complete; a CLI and nothing else; keys that cannot be right.
MCSetting ==
  {[cloud |-> TRUE, cli |-> TRUE, keys |-> "good", contract |-> "silent", force |-> ""],
   [cloud |-> FALSE, cli |-> TRUE, keys |-> "none", contract |-> "absent", force |-> ""],
   [cloud |-> FALSE, cli |-> FALSE, keys |-> "odd", contract |-> "absent", force |-> ""]}
=============================================================================
