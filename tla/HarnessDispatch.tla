--------------------------- MODULE HarnessDispatch ---------------------------
(***************************************************************************)
(* A delegation by the model, from the packets it asks for to the end of   *)
(* their run: defaults are filled in, the persona contracts accept or      *)
(* block the whole dispatch, the packets are put in hand-off order, the    *)
(* first is invoked as the starter and ticks invoke the others.            *)
(*                                                                         *)
(* The rules are spread over modules that each know the tools: what the    *)
(* contract lets through must be what the starter and the ticks can        *)
(* invoke.  The run is the simplest there is (no dependencies: the bridge  *)
(* drops them; no crash, no replacement, no store that fails): RunLifecycle *)
(* has the rest.  What the tool plane refuses is here, how a call runs in   *)
(* ToolCalls.                                                              *)
(* Missions, deliverables and the workcell's review duties, which nothing  *)
(* waits for, are left out.                                                *)
(***************************************************************************)
EXTENDS PacketStates, FiniteSets

CONSTANTS
  Asked,  \* the delegations tried: a sequence of personas, each once, a sequence
          \*   of Requests and whether a deliverable mentions a patch
  Ready   \* the sets of lanes tried that have what they need in the environment:
          \*   subsets of {"cloud", "github", "supabase", "railway"}

VARIABLES
  asked,    \* the arguments of delegate_harness_team
  ready,    \* the lanes configured
  verdict,  \* "none", "blocked" or "accepted"
  packets,  \* the dispatch's packets, normalised
  psm,      \* packet_state_map of the run
  invoked   \* history: the indices of the packets invoked, in order

vars == <<asked, ready, verdict, packets, psm, invoked>>

-----------------------------------------------------------------------------
(* Tools, actions and the contracts of the personas. *)

Persona == {"research", "pm", "engineering", "design", "qa", "data"}
Unset   == "unset"

ActionsOf ==
  [cursor   |-> {"create_spec", "emit_patch"},
   github   |-> {"create_issue", "open_pr"},
   supabase |-> {"apply_sql"},
   vercel   |-> {"deploy"},
   railway  |-> {"inspect_logs", "deploy"}]
Tool   == DOMAIN ActionsOf
Action == UNION {ActionsOf[t] : t \in Tool}

ValidPair(tool, action) == tool \in Tool /\ action \in ActionsOf[tool]

AllowedTools(persona) ==
  CASE persona \in {"pm", "research"}      -> {"cursor", "github"}
    [] persona = "design"                  -> {"cursor"}
    [] persona = "qa"                      -> Tool \ {"vercel"}
    [] persona \in {"engineering", "data"} -> Tool

AllowedActions(persona) ==
  CASE persona \in {"pm", "research"}      -> {"create_spec", "emit_patch", "create_issue"}
    [] persona = "design"                  -> {"create_spec", "emit_patch"}
    [] persona = "qa"                      -> Action \ {"deploy"}
    [] persona \in {"engineering", "data"} -> Action

BadPermitted(persona, tool, action) ==
  tool \in AllowedTools(persona) /\ action \in AllowedActions(persona)
Permitted(persona, tool, action) ==
  /\ tool \in AllowedTools(persona) /\ action \in AllowedActions(persona)
  /\ ValidPair(tool, action)

-----------------------------------------------------------------------------
(* The bridge. *)

Format  == {"spec_markdown", "patch_markdown", "issue_draft", "log_review"}

\* live: the packet carries a single-file patch that may only go out live.
Request == [id : STRING, persona : Persona, tool : Tool \cup {Unset},
            action : Action \cup {Unset}, format : Format, live : BOOLEAN,
            draft : BOOLEAN]

Preferred(format) ==
  CASE format = "patch_markdown" -> [tool |-> "cursor",  action |-> "emit_patch"]
    [] format = "issue_draft"    -> [tool |-> "github",  action |-> "create_issue"]
    [] format = "log_review"     -> [tool |-> "railway", action |-> "inspect_logs"]
    [] OTHER                     -> [tool |-> "cursor",  action |-> "create_spec"]

\* A tool or an action the model leaves open comes from the format, each by
\* itself; a live patch turns a specification into a patch.
Specialised(r) ==
  LET tool   == IF r.tool = Unset   THEN Preferred(r.format).tool   ELSE r.tool
      action == IF r.action = Unset THEN Preferred(r.format).action ELSE r.action
      patch  == tool = "cursor" /\ action = "create_spec" /\ r.live
  IN  [id |-> r.id, persona |-> r.persona, tool |-> tool, draft |-> r.draft,
       live |-> r.live, action |-> IF patch THEN "emit_patch" ELSE action]

\* Without a team the planner works alone; without packets everybody gets one.
Team == IF asked.team = <<>> THEN <<"pm">> ELSE asked.team

Envelope(persona) ==
  [id |-> persona, persona |-> persona, tool |-> Unset, action |-> Unset,
   live |-> FALSE, draft |-> FALSE,
   format |-> IF persona = "engineering" /\ asked.patch THEN "patch_markdown"
                                                       ELSE "spec_markdown"]

Normalised ==
  LET requests == IF asked.packets = <<>>
                  THEN [i \in DOMAIN Team |-> Envelope(Team[i])]
                  ELSE asked.packets
  IN  [i \in DOMAIN requests |-> Specialised(requests[i])]

\* The contract is applied to the arguments as they came, where what is left
\* open is not judged, and to the packets as they will be run.
Acceptable ==
  /\ \A i \in DOMAIN asked.packets :
       LET r == asked.packets[i]
       IN  /\ r.tool # Unset   => r.tool \in AllowedTools(r.persona)
           /\ r.action # Unset => r.action \in AllowedActions(r.persona)
           /\ Unset \notin {r.tool, r.action} => ValidPair(r.tool, r.action)
  /\ \A i \in DOMAIN Normalised :
       LET p == Normalised[i] IN Permitted(p.persona, p.tool, p.action)

-----------------------------------------------------------------------------
(* Hand-off order, as the slots of the packets: the last packet a member of *)
(* the team was given has the member's slot, the others come after the team *)
(* in their own order.                                                     *)

TeamPlace(persona) == CHOOSE k \in DOMAIN Team : Team[k] = persona

TheirLast(i) ==
  /\ packets[i].persona \in ToSet(Team)
  /\ \A j \in DOMAIN packets : packets[j].persona = packets[i].persona => j <= i

BadSlot(i) == Len(Team) + i
Slot(i) == IF TheirLast(i) THEN TeamPlace(packets[i].persona) ELSE Len(Team) + i

First(i, S)  == i \in S /\ \A j \in S : Slot(i) <= Slot(j)
LastIn(i, S) == i \in S /\ \A j \in S : Slot(j) <= Slot(i)

\* The run's required ids, each at the slot of its packet.
Live(i)  == ~packets[i].draft
Required ==
  LET live == {i \in DOMAIN packets : Live(i)}
  IN  [s \in {Slot(i) : i \in live} |-> packets[CHOOSE i \in live : Slot(i) = s].id]

\* A packet that is neither a draft nor without a tool that can do it.
Invocable(i) == Live(i) /\ ValidPair(packets[i].tool, packets[i].action)

Able         == {i \in DOMAIN packets : Invocable(i)}

\* The state of an id listed twice is the one its last packet was given.
WithId(id) == {i \in DOMAIN packets : packets[i].id = id}
Graph ==
  [id \in {packets[i].id : i \in DOMAIN packets} |->
     IF \E i \in WithId(id) : LastIn(i, WithId(id)) /\ ~Live(i) THEN "skipped" ELSE "queued"]

-----------------------------------------------------------------------------
(* What the tool plane refuses, whatever the contracts said.               *)

\* The thread is live-only once a dispatch of it carries a live patch.
LiveOnly == \E i \in DOMAIN packets : packets[i].action = "emit_patch" /\ packets[i].live

\* The starter's patch serves the packets that bring none of their own.
Stashed == \E i \in Able : First(i, Able) /\ packets[i].action = "emit_patch" /\ packets[i].live

NeedsKeys == [github |-> {"create_issue", "open_pr"}, supabase |-> {"apply_sql"},
              railway |-> {"inspect_logs"}]

Refused(i) ==
  LET p == packets[i]
  IN  \/ p.tool \in DOMAIN NeedsKeys \ ready /\ p.action \in NeedsKeys[p.tool]
      \/ p.action = "create_spec" /\ LiveOnly
      \/ p.action = "emit_patch" /\ "cloud" \in ready /\ ~p.live /\ ~Stashed

Outcomes(i) ==
  CASE ~Invocable(i) -> {"invalid_spec"}
    [] Invocable(i) /\ Refused(i) -> {"blocked"}
    [] OTHER -> {"completed", "degraded", "failed"}
                \cup IF packets[i].tool = "cursor" /\ "cloud" \in ready
                     THEN {"dispatch_accepted"} ELSE {}

-----------------------------------------------------------------------------
Init ==
  /\ asked \in Asked /\ ready \in Ready
  /\ verdict = "none" /\ packets = <<>> /\ psm = <<>> /\ invoked = <<>>

Delegate ==
  /\ verdict = "none"
  /\ IF Acceptable
     THEN verdict' = "accepted" /\ packets' = Normalised
     ELSE verdict' = "blocked" /\ UNCHANGED packets
  /\ UNCHANGED <<asked, ready, psm, invoked>>

\* Invoking the i-th packet: its tool answers or refuses, or there is nothing
\* to invoke.
Invoke(i, states) ==
  \E outcome \in Outcomes(i) :
    /\ psm' = [states EXCEPT ![packets[i].id] =
                 IF @ = "skipped" THEN @ ELSE StateOfOutcome(outcome)]
    /\ invoked' = IF Invocable(i) THEN Append(invoked, i) ELSE invoked

\* The run is stored and its starter invoked: the first packet in order that
\* can be.  Without one the run is stored as it is.
Kick ==
  /\ verdict = "accepted" /\ psm = <<>>
  /\ IF Able = {} THEN psm' = Graph /\ UNCHANGED invoked
                  ELSE \E i \in Able : First(i, Able) /\ Invoke(i, Graph)
  /\ UNCHANGED <<asked, ready, verdict, packets>>

\* A tick looks for the first runnable packet that is no draft, and invokes
\* it.  Of packets with one id it judges the last and invokes the first.
Judged(id)     == CHOOSE i \in WithId(id) : \A j \in WithId(id) : j <= i
Definition(id) == CHOOSE i \in WithId(id) : \A j \in WithId(id) : i <= j

Advance ==
  /\ psm # <<>>
  /\ LET required == Required
         judged   == {k \in DOMAIN required : Live(Judged(required[k]))}
     IN  /\ RunStatus(psm, required) \notin {"blocked", "failed", "review_required"}
         /\ \E id \in ToSet(required) :
              /\ NextRunnable(id, judged, required, psm, [q \in DOMAIN psm |-> {}])
              /\ Invoke(Definition(id), psm)
  /\ UNCHANGED <<asked, ready, verdict, packets>>

\* A cloud agent reports the end of its packet.
Callback(id) ==
  /\ psm # <<>> /\ id \in DOMAIN psm /\ psm[id] = "running"
  /\ Definition(id) \in ToSet(invoked)
  /\ psm' = [psm EXCEPT ![id] = "completed"]
  /\ UNCHANGED <<asked, ready, verdict, packets, invoked>>

Report == \E i \in DOMAIN packets : Callback(packets[i].id)

Next == Delegate \/ Kick \/ Advance \/ Report

Fairness == WF_vars(Delegate) /\ WF_vars(Kick) /\ WF_vars(Advance) /\ WF_vars(Report)

-----------------------------------------------------------------------------
TypeOK ==
  /\ asked.patch \in BOOLEAN /\ ready \in Ready
  /\ verdict \in {"none", "blocked", "accepted"}
  /\ \A i \in DOMAIN packets : packets[i].persona \in Persona
  /\ \A id \in DOMAIN psm : psm[id] \in PacketState
  /\ ToSet(invoked) \subseteq DOMAIN packets

\* The place of a packet's persona in the team; outsiders come last.
Rank(i) ==
  IF packets[i].persona \in ToSet(Team)
  THEN CHOOSE k \in DOMAIN Team : Team[k] = packets[i].persona
  ELSE Len(Team) + 1

OwnIds == \A i, j \in DOMAIN packets : packets[i].id = packets[j].id => i = j

\* Where no persona has two packets, packets are invoked in the order of the
\* team, whatever order the model wrote them in: starter and ticks agree.
HandoffIsKept ==
  OwnIds /\ (\A i, j \in DOMAIN packets : packets[i].persona = packets[j].persona => i = j)
    => \A k, n \in DOMAIN invoked : k < n => Rank(invoked[k]) <= Rank(invoked[n])

CarriedOut ==
  /\ psm # <<>> /\ RunStatus(psm, Required) = "completed"
  /\ \A i \in DOMAIN packets :
       Live(i) => Cardinality({k \in DOMAIN invoked : invoked[k] = i}) = 1
ToolFailed == \E id \in DOMAIN psm : psm[id] \in {"failed", "review_required"}

\* A dispatch that the contracts accept, whose packets have ids of their own
\* and of which the tool plane refuses none, is carried out to the end: unless
\* a tool fails, its run completes and every packet that is no draft was
\* invoked just once.
AcceptedIsCarriedOut ==
  (/\ verdict = "accepted" /\ OwnIds
   /\ \A i \in DOMAIN packets : Live(i) => ~Refused(i))
    ~> (CarriedOut \/ ToolFailed)
=============================================================================
