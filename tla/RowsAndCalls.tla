---------------------------- MODULE RowsAndCalls ----------------------------
(***************************************************************************)
(* Two parts that share no state, side by side: a behaviour is one of the  *)
(* row stores or of a thread's tool calls, and the other stays at its      *)
(* start.                                                                  *)
(***************************************************************************)
EXTENDS RunStore

CONSTANTS MaxCalls, MaxAsked, Plan, Direct, Setting, MaxRuns, MaxFaults

VARIABLES
  part,
  set, plans, shell, active, stash, liveOnly, toolCall, known, agent, faults

\* What is asked for, and where a patch comes from.
Act == {"spec", "patch", "issue", "sql", "logs", "deploy"}
Src == {"none", "part", "bad", "ops", "narrow"}

ASSUME CallsAssumption ==
  /\ {MaxCalls, MaxRuns} \subseteq Nat
  /\ Plan \subseteq Seq([act : Act, src : Src]) /\ Direct \subseteq [act : Act, src : Src]

Tools == INSTANCE ToolCalls WITH call <- toolCall

-----------------------------------------------------------------------------
toolVars == <<set, plans, shell, active, stash, liveOnly, toolCall, known, agent, faults>>

PartsInit ==
  /\ part \in {"rows", "calls"}
  /\ Init /\ (part # "rows" => mode = "memory")
  /\ Tools!Init /\ (part # "calls" => set.keys = "none")

PartsNext ==
  \/ part = "rows" /\ Next /\ UNCHANGED <<part, toolVars>>
  \/ part = "calls" /\ Tools!Next /\ UNCHANGED <<part, vars>>

PartsSpec == PartsInit /\ [][PartsNext]_<<part, vars, toolVars>>

-----------------------------------------------------------------------------
\* Whichever part moves keeps its types.
PartsTypeOK == IF part = "rows" THEN TypeOK ELSE Tools!TypeOK

\* What a tool call tells is true (externalToolInvocationFlow.js).
OutcomeIsTrue == part = "calls" => Tools!OutcomeIsTrue

\* The agent of a packet's patch can be placed, and was sent no older
\* delegation's patch (providerEventCorrelator.js, delegateEmitPatchStash.js).
AgentIsOfItsPacket == part = "calls" => Tools!AgentIsOfItsPacket
=============================================================================
