---------------------------- MODULE RunLifecycle ----------------------------
(***************************************************************************)
(* One delegated run from its durable row to the founder's last milestone. *)
(* Four kinds of actors share the row through getRunById and patchRunById: *)
(*                                                                         *)
(*   - the founder's turn ("delegate"): it has stored the run's shell, and *)
(*     invokes the starter packet and then writes packet graph and status  *)
(*     from what the invocation returned;                                  *)
(*   - supervisor ticks, run-scoped or thread-scoped: reconcile the row    *)
(*     with the ledger of tool results, advance packets, send milestones;  *)
(*   - handlers of provider callbacks: move the packet the callback is for *)
(*     and anchor the closure;                                             *)
(*   - a later delegation on the same thread, which supersedes the run.    *)
(*                                                                         *)
(* A step is the code between two awaits: an actor reads the row in one    *)
(* step and writes what it computed from that copy in a later one, and any *)
(* other actor may write between the two.  A patch itself is atomic, as in *)
(* the memory store.  The pending-wake flag and the lease are left to      *)
(* SupervisorWake and SupervisorLease: here a tick may begin at any time   *)
(* its re-entry guard allows.                                              *)
(***************************************************************************)
EXTENDS PacketStates, FiniteSets

CONSTANTS
  Required,          \* the run's required packets, in handoff order
  Deps,              \* Deps[p]: the packets p depends on
  Cloud,             \* packets whose tool call is an emit_patch of the cloud agent
  Invocable,         \* packets with a valid tool and action
  Ticks,             \* supervisor ticks that may be in progress together
  Handlers,          \* callbacks that may be in progress together
  Time,              \* occurred_at stamps of callbacks
  MaxCallbacks,      \* bound: callbacks received in a behaviour
  MaxRounds,         \* packets a tick may advance (6 in the code)
  MaxCrashes,        \* bound: process crashes in a behaviour
  CancelsSuperseded, \* the durable store cancels the run a new one replaces
  Overlap            \* FALSE: an actor starts only when the others are at rest

Packet   == ToSet(Required)
Delegate == "delegate"
Caller   == Ticks \cup {Delegate}

ASSUME RunAssumption ==
  /\ Required \in Seq(STRING \ {NoPacket})
  /\ Deps \in [Packet -> SUBSET Packet]
  /\ Cloud \subseteq Packet /\ Invocable \subseteq Packet
  /\ Time \subseteq Nat /\ Delegate \notin Ticks
  /\ {MaxCallbacks, MaxRounds, MaxCrashes} \subseteq Nat
  /\ {CancelsSuperseded, Overlap} \subseteq BOOLEAN

Status    == {"running", "review_required", "blocked", "completed", "failed",
              "canceled"}
Milestone == {"started", "blocked", "review_required", "completed", "failed"}

VARIABLES
  row,       \* the durable row of the run
  active,    \* this run is the one its thread's pointer names
  ledger,    \* ledger[p]: outcome of the latest tool_result of p, or "none"
  delegate,  \* where the founder's turn is
  call,      \* call[a]: the tool invocation caller a waits for
  tick,      \* tick[t]: where a tick is and what it holds
  inflight,  \* kinds of tick in progress: the re-entry guard
  handler,   \* handler[h]: where a callback is and what it holds
  received,  \* number of callbacks received
  crashes,   \* number of crashes
  \* history, read by properties only:
  dispatched,\* dispatched[p]: times the cloud agent accepted p (up to 2)
  vouched,   \* packets a positive callback has arrived for
  everDone,  \* packets the row has ever shown done
  sent       \* sent[m]: times milestone m reached the founder (up to 2)

vars == <<row, active, ledger, delegate, call, tick, inflight, handler,
          received, crashes, dispatched, vouched, everDone, sent>>

actors  == <<delegate, call, tick, inflight, handler>>
history == <<dispatched, vouched, everDone, sent>>

-----------------------------------------------------------------------------
(* The row. *)

Kicked(kick) == kick # "none"
Queued == [p \in Packet |-> "queued"]

\* The graph built at delegation shows as next any packet still open, also one
\* whose dependencies are not done.
GraphCurrentNext(psm) ==
  LET open == SelectSeq(Required, LAMBDA p : psm[p] \notin DoneStates)
      wait == SelectSeq(Tail(open),
                        LAMBDA p : psm[p] \in {"queued", "ready", "running"})
  IN  IF Required = <<>> THEN <<NoPacket, NoPacket>>
      ELSE IF open = <<>> THEN <<Last(Required), NoPacket>>
      ELSE <<Head(open), IF wait = <<>> THEN NoPacket ELSE Head(wait)>>

\* What a writer shows the founder of the states psm: cursors and stage.
Shown(psm, kick) ==
  <<CurrentNext(Required, psm, Deps), RunStage(RunStatus(psm, Required), Kicked(kick))>>

\* The row as persistAcceptedRunShell inserts it: no starter call yet.
Shell ==
  [psm    |-> Queued,
   status |-> RunStatus(Queued, Required),
   kick   |-> "none",         \* lane of the executed starter call
   shown  |-> <<GraphCurrentNext(Queued), RunStage(RunStatus(Queued, Required), FALSE)>>,
   told   |-> {},             \* founder_notified_*_at that are set
   bound  |-> NoPacket,       \* cursor_dispatch_ledger.target_packet_id
   anchor |-> NoPacket,       \* provider_structural_closure_packet_id
   terms  |-> [p \in Packet |-> NoRec]]

\* Every write of packet states goes through here, so history sees each one.
SetRow(new) ==
  /\ row' = new
  /\ everDone' = everDone \cup {p \in Packet : new.psm[p] \in DoneStates}

KeepRow == UNCHANGED <<row, everDone>>

(* As in PacketStates, "Bad" definitions are plausible slips in the ones   *)
(* below them.                                                             *)

-----------------------------------------------------------------------------
(* Idle actors. *)

NoCall == [stage |-> "none", packet |-> NoPacket, outcome |-> "none"]

IdleTick ==
  [pc |-> "idle", kind |-> "run", psm |-> Queued, kick |-> "none",
   was |-> <<>>, target |-> NoPacket, say |-> {}, rounds |-> 0]

IdleHandler ==
  [pc |-> "idle", packet |-> NoPacket, word |-> "running", at |-> 0,
   psm |-> Queued, kick |-> "none", terms |-> [p \in Packet |-> NoRec]]

Resting ==
  /\ delegate \in {"done", "dead"}
  /\ \A t \in Ticks : tick[t].pc = "idle"
  /\ \A h \in Handlers : handler[h].pc = "idle"

MayStart == Overlap \/ Resting

Init ==
  /\ row = Shell
  /\ active = TRUE
  /\ ledger = [p \in Packet |-> "none"]
  /\ delegate = "kick"
  /\ call = [a \in Caller |-> NoCall]
  /\ tick = [t \in Ticks |-> IdleTick]
  /\ inflight = {}
  /\ handler = [h \in Handlers |-> IdleHandler]
  /\ received = 0
  /\ crashes = 0
  /\ dispatched = [p \in Packet |-> 0]
  /\ vouched = {}
  /\ everDone = {}
  /\ sent = [m \in Milestone |-> 0]

UpTo2(n) == IF n < 2 THEN n + 1 ELSE 2

-----------------------------------------------------------------------------
(* Tool invocations, made by the delegation and by ticks.                  *)

NewCall(p) ==
  IF p \notin Invocable
  THEN [stage |-> "done", packet |-> p, outcome |-> "invalid_spec"]
  ELSE [stage |-> IF p \in Cloud THEN "bind" ELSE "local",
        packet |-> p, outcome |-> "none"]

\* The invocation ends: its tool_result is appended, the caller goes on.
EndCall(a, outcome) ==
  /\ call' = [call EXCEPT ![a] = [@ EXCEPT !.stage = "done", !.outcome = outcome]]
  /\ ledger' = [ledger EXCEPT ![call[a].packet] = outcome]

\* The dispatch ledger and the correlation are bound before the trigger, so
\* that a callback finds its packet; a failed bind blocks the packet.
Bind(a) ==
  /\ call[a].stage = "bind"
  /\ \/ /\ SetRow([row EXCEPT !.bound = call[a].packet])
        /\ call' = [call EXCEPT ![a].stage = "trigger"]
        /\ UNCHANGED ledger
     \/ /\ EndCall(a, "blocked")
        /\ KeepRow
  /\ UNCHANGED <<active, delegate, tick, inflight, handler, received, crashes,
                 dispatched, vouched, sent>>

\* The cloud agent accepts the packet, or an artifact is built instead.
Trigger(a) ==
  /\ call[a].stage = "trigger"
  /\ \/ /\ call' = [call EXCEPT ![a].stage = "wait"]
        /\ dispatched' = [dispatched EXCEPT ![call[a].packet] = UpTo2(@)]
        /\ UNCHANGED ledger
     \/ /\ \E outcome \in {"degraded", "failed"} : EndCall(a, outcome)
        /\ UNCHANGED dispatched
  /\ KeepRow
  /\ UNCHANGED <<active, delegate, tick, inflight, handler, received, crashes,
                 vouched, sent>>

\* The orchestrator waits for the provider's callback and gives up after a
\* timeout; either way the outcome says "dispatched".  An exception on the
\* way leaves an artifact or a failure.
StopWaiting(a) ==
  /\ call[a].stage = "wait"
  /\ \E outcome \in {"dispatch_accepted", "degraded", "failed"} : EndCall(a, outcome)
  /\ KeepRow
  /\ UNCHANGED <<active, delegate, tick, inflight, handler, received, crashes,
                 dispatched, vouched, sent>>

RunLocally(a) ==
  /\ call[a].stage = "local"
  /\ \E outcome \in {"completed", "degraded", "failed", "blocked"} : EndCall(a, outcome)
  /\ KeepRow
  /\ UNCHANGED <<active, delegate, tick, inflight, handler, received, crashes,
                 dispatched, vouched, sent>>

-----------------------------------------------------------------------------
(* The founder's turn. *)

\* pickFirstStarterPacket takes the first packet with a tool and action; it
\* does not look at dependencies.
IsStarter(p) ==
  \E i \in DOMAIN Required :
    /\ p = Required[i] /\ p \in Invocable
    /\ \A j \in DOMAIN Required : j < i => Required[j] \notin Invocable

\* Without a starter there is no call to wait for.
Kickoff ==
  /\ delegate = "kick"
  /\ delegate' = "call"
  /\ IF Invocable = {}
     THEN call' = [call EXCEPT ![Delegate].stage = "done"]
     ELSE \E p \in Packet :
            /\ IsStarter(p)
            /\ call' = [call EXCEPT ![Delegate] = NewCall(p)]
  /\ KeepRow
  /\ UNCHANGED <<active, ledger, tick, inflight, handler, received, crashes,
                 dispatched, vouched, sent>>

\* The starter counts as run by the cloud agent also when its bind failed; an
\* artifact built instead is of another lane.
StarterLane(starter, outcome) ==
  CASE starter = NoPacket -> "none"
    [] starter \in Cloud /\ outcome \in {"dispatch_accepted", "blocked"} -> "cloud"
    [] OTHER -> "local"

\* The row gets the graph of the dispatch with the starter's outcome in it,
\* whatever the row has become since the shell was stored.
FinalizeRow(r, starter, outcome) ==
  LET psm    == IF starter = NoPacket THEN Queued
                ELSE [Queued EXCEPT ![starter] = StateOfOutcome(outcome)]
      kick   == StarterLane(starter, outcome)
      status == RunStatus(psm, Required)
  IN  [r EXCEPT !.psm = psm, !.status = status, !.kick = kick,
                !.shown = <<GraphCurrentNext(psm), RunStage(status, Kicked(kick))>>]

Finalize ==
  /\ delegate = "call"
  /\ call[Delegate].stage = "done"
  /\ SetRow(FinalizeRow(row, call[Delegate].packet, call[Delegate].outcome))
  /\ delegate' = "done"
  /\ call' = [call EXCEPT ![Delegate] = NoCall]
  /\ UNCHANGED <<active, ledger, tick, inflight, handler, received, crashes,
                 dispatched, vouched, sent>>

\* A later delegation of the thread: its run becomes the thread's active run,
\* and the durable store cancels this one if it is not terminal.
Supersede ==
  /\ active
  /\ MayStart
  /\ active' = FALSE
  /\ SetRow(IF CancelsSuperseded
               /\ row.status \in {"running", "review_required", "blocked"}
            THEN [row EXCEPT !.status = "canceled"] ELSE row)
  /\ UNCHANGED <<ledger, delegate, call, tick, inflight, handler, received,
                 crashes, dispatched, vouched, sent>>

-----------------------------------------------------------------------------
(* Supervisor ticks.  A run-scoped tick works on this run whatever it has  *)
(* become; a thread-scoped one works on the thread's active run, and leaves *)
(* this one when it is superseded.                                         *)

At(t, pc) == tick[t].pc = pc
Elsewhere(t) == tick[t].kind = "thread" /\ ~active

\* The periodic loop holds the lease, so nothing lies between the re-entry
\* check and the entry; a direct tick awaits the lease in between.
BeginPeriodic(t, kind) ==
  /\ At(t, "idle") /\ kind \notin inflight /\ MayStart
  /\ tick' = [tick EXCEPT ![t].pc = "enter", ![t].kind = kind]
  /\ inflight' = inflight \cup {kind}
  /\ KeepRow
  /\ UNCHANGED <<active, ledger, delegate, call, handler, received, crashes,
                 dispatched, vouched, sent>>

BeginDirect(t) ==
  /\ At(t, "idle") /\ "run" \notin inflight /\ MayStart
  /\ tick' = [tick EXCEPT ![t].pc = "lease", ![t].kind = "run"]
  /\ KeepRow
  /\ UNCHANGED <<active, ledger, delegate, call, inflight, handler, received,
                 crashes, dispatched, vouched, sent>>

Lease(t) ==
  /\ At(t, "lease")
  /\ \/ /\ tick' = [tick EXCEPT ![t].pc = "enter"]
        /\ inflight' = inflight \cup {"run"}
     \/ /\ tick' = [tick EXCEPT ![t] = IdleTick]
        /\ UNCHANGED inflight
  /\ KeepRow
  /\ UNCHANGED <<active, ledger, delegate, call, handler, received, crashes,
                 dispatched, vouched, sent>>

\* The finally block: two overlapping ticks of a kind share one guard entry.
Leave(t) ==
  /\ \/ At(t, "leave")
     \/ At(t, "enter") /\ row.status = "canceled"
     \/ tick[t].pc \in {"enter", "reconcile", "advance", "report"} /\ Elsewhere(t)
  /\ tick' = [tick EXCEPT ![t] = IdleTick]
  /\ inflight' = inflight \ {tick[t].kind}
  /\ KeepRow
  /\ UNCHANGED <<active, ledger, delegate, call, handler, received, crashes,
                 dispatched, vouched, sent>>

Enter(t) ==
  /\ At(t, "enter") /\ ~Elsewhere(t) /\ row.status # "canceled"
  /\ tick' = [tick EXCEPT ![t].pc = "reconcile"]
  /\ KeepRow
  /\ UNCHANGED <<active, ledger, delegate, call, inflight, handler, received,
                 crashes, dispatched, vouched, sent>>

\* Reconciling starts from a copy of the row, read before the ledger is.
ReadForReconcile(t) ==
  /\ At(t, "reconcile") /\ ~Elsewhere(t)
  /\ tick' = [tick EXCEPT ![t].pc = "write", ![t].psm = row.psm,
                          ![t].kick = row.kick,
                          ![t].was = <<row.status, row.shown>>]
  /\ KeepRow
  /\ UNCHANGED <<active, ledger, delegate, call, inflight, handler, received,
                 crashes, dispatched, vouched, sent>>

\* The copy with the latest tool results in it; terminal packets stay.
BadReconciledAll(psm) ==
  [p \in Packet |-> IF ledger[p] = "none" THEN psm[p] ELSE StateOfOutcome(ledger[p])]
BadReconciledLate(psm) ==
  [p \in Packet |-> IF ledger[p] = "none" \/ StateOfOutcome(ledger[p]) = "running"
                    THEN psm[p] ELSE StateOfOutcome(ledger[p])]
Reconciled(psm) ==
  [p \in Packet |-> IF psm[p] \in TerminalStates \/ ledger[p] = "none"
                    THEN psm[p] ELSE StateOfOutcome(ledger[p])]

\* A completed run always counts as changed: completed_at is a new stamp.
Reconcile(t) ==
  LET psm    == Reconciled(tick[t].psm)
      status == RunStatus(psm, Required)
      shown  == Shown(psm, tick[t].kick)
      changed == \/ psm # tick[t].psm
                 \/ <<status, shown>> # tick[t].was
                 \/ status = "completed"
  IN  /\ At(t, "write")
      /\ IF changed
         THEN SetRow([row EXCEPT !.psm = psm, !.status = status, !.shown = shown])
         ELSE KeepRow
      /\ tick' = [tick EXCEPT ![t] = [IdleTick EXCEPT !.pc = "advance",
                                                      !.kind = tick[t].kind]]
      /\ UNCHANGED <<active, ledger, delegate, call, inflight, handler, received,
                     crashes, dispatched, vouched, sent>>

OnHold == row.status \in {"blocked", "failed", "review_required"}
IsNext(p) == NextRunnable(p, DOMAIN Required, Required, row.psm, Deps)

\* Take the first runnable packet; the copy read here is what Finish will
\* write when the invocation is over.
Advance(t) ==
  /\ At(t, "advance") /\ ~Elsewhere(t)
  /\ tick[t].rounds < MaxRounds /\ ~OnHold
  /\ \E p \in Packet :
       /\ IsNext(p)
       /\ tick' = [tick EXCEPT ![t].pc = "mark", ![t].target = p,
                               ![t].psm = [row.psm EXCEPT ![p] = "running"],
                               ![t].kick = row.kick]
  /\ KeepRow
  /\ UNCHANGED <<active, ledger, delegate, call, inflight, handler, received,
                 crashes, dispatched, vouched, sent>>

AdvanceNothing(t) ==
  /\ At(t, "advance") /\ ~Elsewhere(t)
  /\ \/ tick[t].rounds = MaxRounds
     \/ OnHold
     \/ \A p \in Packet : ~IsNext(p)
  /\ tick' = [tick EXCEPT ![t].pc = "report", ![t].rounds = 0]
  /\ KeepRow
  /\ UNCHANGED <<active, ledger, delegate, call, inflight, handler, received,
                 crashes, dispatched, vouched, sent>>

\* Before the invocation only the packet states are written, not the status.
Mark(t) ==
  /\ At(t, "mark")
  /\ SetRow([row EXCEPT !.psm = tick[t].psm])
  /\ call' = [call EXCEPT ![t] = NewCall(tick[t].target)]
  /\ tick' = [tick EXCEPT ![t].pc = "call"]
  /\ UNCHANGED <<active, ledger, delegate, inflight, handler, received, crashes,
                 dispatched, vouched, sent>>

BadFinish(t) ==
  LET psm == [tick[t].psm EXCEPT ![tick[t].target] = StateOfOutcome(call[t].outcome)]
  IN  /\ At(t, "call") /\ call[t].stage = "done"
      /\ SetRow([row EXCEPT !.psm = psm])
      /\ call' = [call EXCEPT ![t] = NoCall]
      /\ tick' = [tick EXCEPT ![t] = [IdleTick EXCEPT !.pc = "advance",
                                                      !.kind = tick[t].kind,
                                                      !.rounds = tick[t].rounds + 1]]
      /\ UNCHANGED <<active, ledger, delegate, inflight, handler, received,
                     crashes, dispatched, vouched, sent>>

\* The states written are those of the copy Advance made: what others wrote
\* while the invocation lasted is overwritten.
Finish(t) ==
  LET psm == [tick[t].psm EXCEPT ![tick[t].target] = StateOfOutcome(call[t].outcome)]
  IN  /\ At(t, "call") /\ call[t].stage = "done"
      /\ SetRow([row EXCEPT !.psm = psm, !.status = RunStatus(psm, Required),
                            !.shown = Shown(psm, tick[t].kick)])
      /\ call' = [call EXCEPT ![t] = NoCall]
      /\ tick' = [tick EXCEPT ![t] = [IdleTick EXCEPT !.pc = "advance",
                                                      !.kind = tick[t].kind,
                                                      !.rounds = tick[t].rounds + 1]]
      /\ UNCHANGED <<active, ledger, delegate, inflight, handler, received,
                     crashes, dispatched, vouched, sent>>

\* The run of a cloud starter is complete for the founder when the packet it
\* was bound for has a closure and is completed.
BadClosed(r) == r.bound # NoPacket /\ r.status = "completed"
Closed(r) ==
  /\ r.bound # NoPacket /\ r.anchor = r.bound
  /\ r.psm[r.bound] = "completed" /\ r.status = "completed"

\* The milestones one message may tell, {} for no message.  A text without
\* lines is not sent, hence the choices.
BadMessages(r) ==
  IF r.told = {} THEN {{"started"}} ELSE {{}}
Messages(r) ==
  LET cloud == r.kick = "cloud"
      ends  == r.status \in {"completed", "blocked", "failed", "review_required"}
      ending ==
        CASE r.status = "blocked" /\ cloud   -> IF Closed(r) THEN {{}} ELSE {{}, {"blocked"}}
          [] r.status = "review_required"    -> {{}, {"review_required"}}
          [] r.status = "completed" /\ cloud -> IF Closed(r) THEN {{"completed"}} ELSE {{}}
          [] OTHER                           -> {{r.status}}
  IN  IF Kicked(r.kick) /\ "started" \notin r.told
      THEN IF ends /\ ~cloud THEN {{"started", r.status}} ELSE {{"started"}}
      ELSE IF ends /\ r.status \notin r.told THEN ending ELSE {{}}

Report(t) ==
  /\ At(t, "report") /\ ~Elsewhere(t)
  /\ \E m \in Messages(row) :
       tick' = [tick EXCEPT ![t].pc = IF m = {} THEN "leave" ELSE "send", ![t].say = m]
  /\ KeepRow
  /\ UNCHANGED <<active, ledger, delegate, call, inflight, handler, received,
                 crashes, dispatched, vouched, sent>>

SendSucceeds(t) ==
  /\ At(t, "send")
  /\ sent' = [m \in Milestone |-> IF m \in tick[t].say THEN UpTo2(sent[m]) ELSE sent[m]]
  /\ tick' = [tick EXCEPT ![t].pc = "flag"]
  /\ KeepRow
  /\ UNCHANGED <<active, ledger, delegate, call, inflight, handler, received,
                 crashes, dispatched, vouched>>

SendFails(t) ==
  /\ At(t, "send")
  /\ tick' = [tick EXCEPT ![t].pc = "leave", ![t].say = {}]
  /\ KeepRow
  /\ UNCHANGED <<active, ledger, delegate, call, inflight, handler, received,
                 crashes, dispatched, vouched, sent>>

BadFlag(t) ==
  /\ At(t, "flag")
  /\ tick' = [tick EXCEPT ![t].pc = "leave", ![t].say = {}]
  /\ KeepRow
  /\ UNCHANGED <<active, ledger, delegate, call, inflight, handler, received,
                 crashes, dispatched, vouched, sent>>
Flag(t) ==
  /\ At(t, "flag")
  /\ SetRow([row EXCEPT !.told = @ \cup tick[t].say])
  /\ tick' = [tick EXCEPT ![t].pc = "leave", ![t].say = {}]
  /\ UNCHANGED <<active, ledger, delegate, call, inflight, handler, received,
                 crashes, dispatched, vouched, sent>>

-----------------------------------------------------------------------------
(* Provider callbacks, already matched to this run by a direct key. *)

\* The provider reports on a packet it accepted, in any order and repeatedly.
Receive(h, p, word, at) ==
  /\ handler[h].pc = "idle" /\ MayStart
  /\ dispatched[p] > 0 /\ received < MaxCallbacks
  /\ handler' = [handler EXCEPT ![h] =
                   [IdleHandler EXCEPT !.pc = "check", !.packet = p,
                                       !.word = word, !.at = at]]
  /\ received' = received + 1
  /\ vouched' = IF Bucket(word) = "positive_terminal" THEN vouched \cup {p} ELSE vouched
  /\ KeepRow
  /\ UNCHANGED <<active, ledger, delegate, call, tick, inflight, crashes,
                 dispatched, sent>>

\* The callback is for the packet the dispatch ledger names, and has not been
\* committed already.
Intake(h) ==
  LET e == handler[h]
      repeated == /\ Bucket(e.word) = "positive_terminal"
                  /\ row.anchor = e.packet /\ row.psm[e.packet] = "completed"
  IN  /\ e.pc = "check"
      /\ handler' = [handler EXCEPT ![h] =
                       IF row.bound # e.packet \/ repeated
                       THEN IdleHandler ELSE [e EXCEPT !.pc = "load"]]
      /\ KeepRow
      /\ UNCHANGED <<active, ledger, delegate, call, tick, inflight, received,
                     crashes, dispatched, vouched, sent>>

Load(h) ==
  /\ handler[h].pc = "load"
  /\ handler' = [handler EXCEPT ![h] =
                   [@ EXCEPT !.pc = "store", !.psm = row.psm,
                             !.kick = row.kick, !.terms = row.terms]]
  /\ KeepRow
  /\ UNCHANGED <<active, ledger, delegate, call, tick, inflight, received,
                 crashes, dispatched, vouched, sent>>

\* The packet, the status and the terminal records are stored together, all
\* from the copy Load made.
Store(h) ==
  LET e      == handler[h]
      answer == Authority(e.psm[e.packet], DesiredState(e.word), e.at, e.terms[e.packet])
      psm    == [e.psm EXCEPT ![e.packet] = answer.state]
      closes == DesiredState(e.word) \in TerminalStates
  IN  /\ e.pc = "store"
      /\ IF answer.accept
         THEN SetRow([row EXCEPT !.psm = psm, !.status = RunStatus(psm, Required),
                                 !.shown = Shown(psm, e.kick),
                                 !.terms = [e.terms EXCEPT ![e.packet] = answer.rec]])
         ELSE KeepRow
      /\ handler' = [handler EXCEPT ![h] =
                       IF answer.accept /\ closes
                       THEN [IdleHandler EXCEPT !.pc = "anchor", !.packet = e.packet]
                       ELSE IdleHandler]
      /\ UNCHANGED <<active, ledger, delegate, call, tick, inflight, received,
                     crashes, dispatched, vouched, sent>>

\* The closure is anchored by a patch of its own.
Anchor(h) ==
  /\ handler[h].pc = "anchor"
  /\ SetRow([row EXCEPT !.anchor = handler[h].packet])
  /\ handler' = [handler EXCEPT ![h] = IdleHandler]
  /\ UNCHANGED <<active, ledger, delegate, call, tick, inflight, received,
                 crashes, dispatched, vouched, sent>>

\* The process stops: the row and the ledger survive, what was in progress
\* does not, and nobody finishes the founder's turn.
Crash ==
  /\ crashes < MaxCrashes
  /\ crashes' = crashes + 1
  /\ delegate' = IF delegate = "done" THEN "done" ELSE "dead"
  /\ call' = [a \in Caller |-> NoCall]
  /\ tick' = [t \in Ticks |-> IdleTick]
  /\ inflight' = {}
  /\ handler' = [h \in Handlers |-> IdleHandler]
  /\ KeepRow
  /\ UNCHANGED <<active, ledger, received, dispatched, vouched, sent>>

-----------------------------------------------------------------------------
CallStep(a) == Bind(a) \/ Trigger(a) \/ StopWaiting(a) \/ RunLocally(a)

TickStep(t) ==
  \/ Lease(t) \/ Leave(t) \/ Enter(t) \/ ReadForReconcile(t) \/ Reconcile(t)
  \/ Advance(t) \/ AdvanceNothing(t) \/ Mark(t) \/ Finish(t)
  \/ Report(t) \/ SendSucceeds(t) \/ SendFails(t) \/ Flag(t)

HandlerStep(h) == Intake(h) \/ Load(h) \/ Store(h) \/ Anchor(h)

Word == {"succeeded", "failed", "accepted", "running"}

Next ==
  \/ Kickoff \/ Finalize \/ Supersede \/ Crash
  \/ \E a \in Caller : CallStep(a)
  \/ \E t \in Ticks : \/ BeginDirect(t)
                      \/ \E kind \in {"run", "thread"} : BeginPeriodic(t, kind)
                      \/ TickStep(t)
  \/ \E h \in Handlers : \/ HandlerStep(h)
                         \/ \E p \in Cloud, word \in Word, at \in Time :
                              Receive(h, p, word, at)

Spec == Init /\ [][Next]_vars

\* The interval timer visits every thread key, so some tick of the thread is
\* begun again and again although direct ticks come between; every await of a
\* tick returns, and Slack takes a message that is retried for ever.
FairSpec ==
  /\ Spec
  /\ WF_vars(Kickoff) /\ WF_vars(Finalize)
  /\ \A a \in Caller : WF_vars(CallStep(a))
  /\ \A h \in Handlers : WF_vars(HandlerStep(h))
  /\ \A t \in Ticks : /\ SF_vars(BeginPeriodic(t, "thread"))
                      /\ WF_vars(TickStep(t)) /\ SF_vars(SendSucceeds(t))
-----------------------------------------------------------------------------
Stamp == Time \cup {0}

RowOK(r) ==
  /\ r.psm \in [Packet -> PacketState]
  /\ r.status \in Status
  /\ r.kick \in {"none", "cloud", "local"}
  /\ r.told \subseteq Milestone
  /\ r.bound \in Packet \cup {NoPacket}
  /\ r.anchor \in Packet \cup {NoPacket}
  /\ r.terms \in [Packet -> [at : Stamp, outcome : {"none", "positive", "negative"}]]

TickPc == {"idle", "lease", "enter", "reconcile", "write", "advance", "mark",
           "call", "report", "send", "flag", "leave"}

TypeOK ==
  /\ RowOK(row)
  /\ active \in BOOLEAN
  /\ ledger \in [Packet -> Outcome \cup {"none"}]
  /\ delegate \in {"kick", "call", "done", "dead"}
  /\ call \in [Caller -> [stage : {"none", "bind", "trigger", "wait", "local", "done"},
                          packet : Packet \cup {NoPacket},
                          outcome : Outcome \cup {"none"}]]
  /\ \A t \in Ticks :
       /\ tick[t].pc \in TickPc
       /\ tick[t].kind \in {"run", "thread"}
       /\ tick[t].psm \in [Packet -> PacketState]
       /\ tick[t].kick \in {"none", "cloud", "local"}
       /\ tick[t].target \in Packet \cup {NoPacket}
       /\ tick[t].say \subseteq Milestone
       /\ tick[t].rounds \in 0..MaxRounds
  /\ inflight \subseteq {"run", "thread"}
  /\ \A h \in Handlers :
       /\ handler[h].pc \in {"idle", "check", "load", "store", "anchor"}
       /\ handler[h].packet \in Packet \cup {NoPacket}
       /\ handler[h].word \in Word
       /\ handler[h].at \in Stamp
       /\ handler[h].psm \in [Packet -> PacketState]
  /\ dispatched \in [Packet -> 0..2]
  /\ vouched \subseteq Cloud
  /\ everDone \subseteq Packet
  /\ sent \in [Milestone -> 0..2]

-----------------------------------------------------------------------------
(* Safety under every interleaving. *)

\* A cloud packet is completed only on the word of the provider: whatever the
\* ledger, the delegation and the stale copies of ticks write, no row shows a
\* cloud packet completed before a positive callback for it arrived.
CompletionIsVouched ==
  \A p \in Cloud : row.psm[p] = "completed" => p \in vouched

\* A tick invokes a packet only after each packet it depends on has been done
\* in the row, although it decides from a copy that others overwrite.
DependenciesFirst ==
  \A t \in Ticks : tick[t].pc \in {"mark", "call"} =>
                     Deps[tick[t].target] \subseteq everDone

\* The founder hears "completed" only of a run each of whose required packets
\* has been done, the cloud ones on the provider's word.
CompletedIsEarned ==
  sent["completed"] > 0 => /\ Packet \subseteq everDone
                           /\ Cloud \subseteq vouched

\* What a callback committed is undone only by those who read the row before
\* the commit, the founder's turn above all: once the turn is over and every
\* copy of the packet in progress is as new as the row, no tick, no callback of
\* another packet, no later delegation and no crash changes the packet or its
\* record, and a further callback of the packet leaves it in the state of the
\* record (writePacketStates and commitCursorPacketState write whole maps back).
Committed(p) == row.psm[p] \in TerminalStates /\ Polarity(row.psm[p]) = row.terms[p].outcome

Known(p) ==
  /\ delegate \in {"done", "dead"}
  /\ \A t \in Ticks :
       /\ tick[t].pc \in {"write", "mark", "call"} => tick[t].psm[p] = row.psm[p]
       /\ tick[t].pc \in {"mark", "call"} => tick[t].target # p
  /\ \A h \in Handlers : handler[h].pc = "store" =>
       <<handler[h].psm[p], handler[h].terms[p]>> = <<row.psm[p], row.terms[p]>>

Decides(h, p) ==
  /\ handler[h].pc = "store" /\ handler[h].packet = p
  /\ handler'[h].pc # "store"

KnownCommitsStay ==
  [][\A p \in Packet : Committed(p) /\ Known(p) =>
       /\ Committed(p)'
       /\ \/ Known(p)' /\ UNCHANGED <<row.psm[p], row.terms[p]>>
          \/ \E h \in Handlers : Decides(h, p)]_vars

-----------------------------------------------------------------------------
(* Safety when actors do not overlap (Overlap = FALSE).  A crash may come  *)
(* at any step.                                                            *)

\* For a run started in the cloud the founder never hears "completed" before
\* the closure is anchored, although the packet states are patched first and
\* the anchor by a later patch.
CompletedAfterAnchor ==
  (sent["completed"] > 0 /\ row.kick = "cloud") => row.anchor # NoPacket

\* What a callback committed stays: a packet with a terminal record is in the
\* state of that record (cursorReceiveCommit: "terminal success: completed").
CommitsStay ==
  \A p \in Packet : row.terms[p] # NoRec => Polarity(row.psm[p]) = row.terms[p].outcome

\* A packet is handed to the cloud agent once, although an "accepted" callback
\* sets it back to ready; a crash before the hand-over is recorded may repeat it
\* (maybeAdvanceNextPacketForRun: the hand-over leaves no trace until the invocation ends).
DispatchedOnce == \A p \in Packet : dispatched[p] <= 1 + crashes

\* A milestone reaches the founder once; a crash between the message and the
\* mark may repeat it (processRunMilestones).
ToldOnce == \A m \in Milestone : sent[m] <= 1 + crashes

\* When everybody is at rest the status is the one its packets call for.
StatusFits ==
  Resting /\ delegate = "done" => row.status \in {RunStatus(row.psm, Required), "canceled"}

-----------------------------------------------------------------------------
(* Liveness of the thread's active run (FairSpec, Overlap = FALSE). *)

Announceable(m) ==
  /\ active /\ row.status = m /\ row.kick # "none"
  /\ m = "completed" /\ row.kick = "cloud" => Closed(row)

\* A run that ends for good as completed or failed, and stays the active run
\* of its thread, is announced to the founder as such, however often Slack
\* refuses the message and even when the end is reached before "started" is
\* told (processRunMilestones retried by the periodic thread sweep).
EndIsAnnounced ==
  \A m \in {"completed", "failed"} :
    <>[]Announceable(m) => <>(m \in row.told)
=============================================================================
