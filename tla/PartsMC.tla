------------------------------ MODULE PartsMC ------------------------------
(* Parts for TLC: words, stamps and the delegations that are asked for.        *)
EXTENDS Parts

\* One word per bucket and per desired state, and one of no bucket.
MCWord == {"accepted", "running", "succeeded", "failed", "merge_conflict"}
MCTime == 0..3

-----------------------------------------------------------------------------
(* Delegations: every single packet a planner, an engineer, a designer or  *)
(* QA can be asked for, and pairs of a few of them with one id or two.     *)

Tools   == {"cursor", "github", "supabase", "vercel", "railway", "unset"}
Actions == {"create_spec", "emit_patch", "create_issue", "open_pr", "apply_sql",
            "deploy", "inspect_logs", "unset"}
Formats == {"spec_markdown", "patch_markdown", "issue_draft", "log_review"}

Single == [id : {"a"}, persona : {"pm", "engineering", "design", "qa"},
           tool : Tools, action : Actions, format : Formats, live : BOOLEAN,
           draft : {FALSE}]
Few(ids) ==
  LET like(format, live) ==
        [id : ids, persona : {"pm", "engineering", "qa"}, tool : {"unset"},
         action : {"unset"}, format : {format}, live : {live}, draft : BOOLEAN]
  IN  like("spec_markdown", FALSE) \cup like("spec_markdown", TRUE)
        \cup like("issue_draft", FALSE)

Teams == {<<>>, <<"engineering">>, <<"qa", "pm">>, <<"pm", "engineering", "qa">>}

MCAsked ==
  [team : Teams, packets : {<<>>}, patch : BOOLEAN]
    \cup [team : {<<>>}, packets : {<<r>> : r \in Single}, patch : {FALSE}]
    \cup [team : Teams, packets : {<<r, q>> : r \in Few({"a"}), q \in Few({"a", "b"})},
          patch : {FALSE}]

MCNothing == [team |-> <<>>, packets |-> <<>>, patch |-> FALSE]

\* Everything configured, and nothing.
MCReady == {{}, {"cloud", "github", "supabase", "railway"}}
=============================================================================
