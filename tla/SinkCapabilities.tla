---------------------------- MODULE SinkCapabilities ----------------------------
(***************************************************************************)
(* What can be written to a sink of a project's secrets, and how that can  *)
(* be verified: the registry and the qualification ledger of               *)
(* liveBindingCapabilityRegistry.js, the step that envSecretPropagation-   *)
(* Plan.js plans, and what the four binding writers report.                *)
(***************************************************************************)
EXTENDS Naturals, Sequences

Kind == {"none", "smoke", "existence_only", "read_back"}
\* From the weakest to the strongest, as downgradeToMaxAllowed orders them.
Strength(kind) == CASE kind = "none" -> 0 [] kind = "smoke" -> 1
                    [] kind = "existence_only" -> 2 [] OTHER -> 3

\* An unknown sink has a registry entry that allows nothing.
Sink == {"github", "vercel", "railway", "supabase", "unknown"}
Writable == {"github", "vercel"}
Modes(sink) == CASE sink \in Writable -> {"existence_only", "smoke", "none"}
                 [] sink \in {"railway", "supabase"} -> {"smoke", "none"}
                 [] OTHER -> {"none"}
DefaultStatus(sink) == CASE sink = "railway" -> "manual_only"
                         [] sink = "unknown" -> "unverified" [] OTHER -> "conservative"

Qualification == {"live_verified", "live_verified_read_only", "fixture_verified", "conservative",
                  "unverified", "stale", "verification_failed", "manual_only"}

\* The ledger has an entry for a sink, with its age, or none.
Unlisted == [status |-> "unlisted", old |-> FALSE]
Entry    == {Unlisted} \cup [status : Qualification, old : BOOLEAN]

Qualified(sink, entry) ==
  IF entry = Unlisted THEN DefaultStatus(sink)
  ELSE IF entry.old /\ entry.status \in {"live_verified", "fixture_verified"} THEN "stale"
  ELSE entry.status

BadLiveWriteAllowed(sink, entry) == Qualified(sink, entry) = "live_verified"
LiveWriteAllowed(sink, entry) == sink \in Writable /\ Qualified(sink, entry) = "live_verified"

\* The strongest verification a sink may be planned with.
MaxAllowed(sink, entry) ==
  LET status == Qualified(sink, entry)
      best   == CHOOSE kind \in Modes(sink) :
                  \A other \in Modes(sink) : Strength(other) <= Strength(kind)
  IN  CASE status \in {"live_verified", "conservative"} -> best
        [] status = "fixture_verified" /\ "smoke" \in Modes(sink) -> "smoke"
        [] OTHER -> "none"

\* The verification of a planned step: what the registry can do, lowered to
\* what the ledger allows.  (No caller overrides the sinks' capabilities.)
Planned(sink, entry) ==
  LET wanted == IF sink \in Writable THEN "existence_only" ELSE "none"
  IN  IF Qualified(sink, entry) = "live_verified"
         \/ Strength(wanted) <= Strength(MaxAllowed(sink, entry))
      THEN wanted ELSE MaxAllowed(sink, entry)

-----------------------------------------------------------------------------
(* What a writer reports of a step, and whether it has written. *)

Report(kind, result, done) ==
  [kind |-> kind, result |-> result, live |-> done, wrote |-> done]
Reports == [kind : Kind, result : {"ok", "failed", "not_applicable"},
            live : BOOLEAN, wrote : BOOLEAN]

Smoke          == Report("smoke", "ok", FALSE)
Failure(kind)  == Report(kind, "failed", FALSE)
NoWriter       == Report("none", "not_applicable", FALSE)

\* With the report comes the fact whether the sink was changed.  A failure
\* after the write (no answer, or no metadata of it) reports nothing written.
Outcome == [report : Reports, changed : BOOLEAN]
Did(report, changed) == [report |-> report, changed |-> changed]

\* GitHub and Vercel: the secret is read from the environment and put.
PutSecret == {Did(Report("existence_only", "ok", TRUE), TRUE),
              Did(Failure("existence_only"), FALSE), Did(Failure("existence_only"), TRUE)}
\* Railway: the variable is looked up, and reported as written when found.
LookUp == {Did(Failure("smoke"), FALSE), Did(Failure("read_back"), FALSE),
           Did(Report("read_back", "ok", TRUE), FALSE)}
\* Supabase: the project is pinged, and reported as written when it answers.
Ping == {Did(Failure("smoke"), FALSE), Did(Report("smoke", "ok", TRUE), FALSE)}

\* What a writer may do of a step; on is COS_LIVE_BINDING_WRITERS.  A step
\* without a binding_name has nothing to be put or looked up.  None of the
\* writers looks at dry_run.
Outcomes(step, on) ==
  LET real == on /\ step.named /\ step.mode # "smoke_only"
  IN  CASE step.sink = "unknown" -> {Did(NoWriter, FALSE)}
        [] step.sink = "supabase" /\ on /\ step.mode = "smoke_only" -> Ping
        [] step.sink = "railway" /\ real -> LookUp
        [] step.sink \in Writable /\ real -> PutSecret
        [] OTHER -> {Did(Smoke, FALSE)}

\* The engine's judgement: a kind of verification that the sink cannot give is
\* a failure, and a live write that the ledger does not allow was none.
BadJudged(sink, entry, r) ==
  IF ~LiveWriteAllowed(sink, entry)
  THEN [kind |-> "none", result |-> "not_applicable", live |-> FALSE, wrote |-> FALSE]
  ELSE r
Judged(sink, entry, r) ==
  IF r.live /\ ~LiveWriteAllowed(sink, entry)
  THEN [kind |-> "none", result |-> "not_applicable", live |-> FALSE, wrote |-> FALSE]
  ELSE IF r.kind \notin Modes(sink) THEN [r EXCEPT !.kind = "none", !.result = "failed"]
  ELSE r
=============================================================================
