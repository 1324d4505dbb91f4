# G1 COS Slack: TLA+ models of the durable run machinery

G1 COS is a Slack assistant for founders. A founder's request becomes a
*delegated run*: a durable row with a few *packets* of work. Some packets are
tool calls that end at once; the ones that matter here are handed to a cloud
coding agent (Cursor), which answers minutes later by a webhook, or not at all.
Everything that moves a run afterwards happens without the founder: provider
callbacks, GitHub pushes, a timer that supervises runs, replicas that compete
for that timer's lease, and restarts of the process.

These modules model that machinery, the founder's turn and the delegation that
come before it, the stores below it, and the project space beside it. All paths
below are relative to `src/founder/` of the repository unless they start with
`app.js`, `docs/` or `supabase/`.

## The system's parts

| Part | State it keeps | Operations | What makes it correct |
| --- | --- | --- | --- |
| Slack turn (`registerFounderHandlers.js`, `handleFounderSlackTurn.js`, `founderToolLoop.js`, `threadMemory.js`, `slackRoutingStore.js`) | route and memory file of a thread, the bot's id | two event handlers, a turn, rounds of the model | rounds are bounded; one turn per message; nothing remembered that was not said |
| harness bridge, persona contracts, workcell (`harnessBridge.js`, `personaContractHarness.js`, `harnessWorkcellRuntime.js`) | the packets of a dispatch | normalise, accept or block, order, start | what is accepted can be carried out, in the order of the hand-off |
| packet state authority (`externalRunStatus.js`, `runProgressor.js`, `starterLadder.js`) | the state of a packet, the record of its last terminal callback | weigh a callback, an outcome; derive status, stage, cursors | the verdict does not depend on the order of callbacks; a terminal state is not reopened |
| run lifecycle (`executionRunStore.js`, `runProgressor.js`, `runSupervisor.js`) | one row per run: packet states, status, kickoff, milestones told, dispatch ledger, anchor, terminal records | persist, finalize, reconcile, advance, report, commit a callback, cancel | nothing is completed without the provider's word; nothing is dispatched twice; the founder hears of the end |
| supervisor (`runSupervisor.js`, `supervisorDirectTrigger.js`) | re-entry guard (memory), `pending_supervisor_wake` (row) | periodic sweep, direct tick, signal, clear | no lost wake, no guard left behind |
| lease (`supervisorLease.js`) | `cos_supervisor_leases` row, memory lease | acquire, degrade to memory | one replica supervises, unless two read the expired row together |
| correlation and receive intake (`correlationStore.js`, `providerEventCorrelator.js`, `cursorReceiveCommit.js`, `canonicalExternalEvent.js`) | correlation rows, dispatch ledger, closure anchor | bind before the trigger, record the agent's ids, correlate, commit, anchor | a callback moves its own packet, and only that one; a closure is not lost |
| recovery bridge (`resultRecoveryBridge.js`, `recoveryEnvelopeStore.js`) | an envelope per run, in memory and on the row | register, observe, recover by push | a push never undoes the provider; a restart loses no envelope |
| run row stores (`executionRunStore.js`, `runStoreSupabase.js`) | rows in memory, in Supabase, or in two files each | accept, patch the thread's run, patch by id | what a call wrote stays until a call that means to change it |
| tool calls, cloud adapter (`toolPlane/`, `cursorCloudAdapter.js`, `providerEventCorrelator.js`, `delegateEmitPatchStash.js`, `cursorCallbackCompletionOrchestrator.js`) | the stash and the live-only mark of a thread (memory), correlation rows, the agents | stash, merge, gate, bind, trigger, record, wait, fall back, tell | what a call tells is true; an agent can be placed from the moment it exists |
| human gate, project space (`humanGateRuntime.js`, `projectSpaceBindingStore.js`, `deliveryReadiness.js`) | space, bindings, gates | open, close, resume, record, judge readiness | a continuation is given once; "ready" overlooks nothing |
| secret propagation (`envSecretPropagationEngine.js`, `liveBindingCapabilityRegistry.js`, the four binding writers) | rows of propagation runs, the qualification ledger | plan, write, judge, finish | no failure is hidden; no write is claimed that was not made |
| GitHub intake (`githubWebhookDedupe.js`, `externalEventGateway.js`) | delivery ids in memory, table or file | record, process | a delivery that is repeated is filed once |
| logs and read models (`executionLedger.js`, `runCosEvents.js`, `smokeOps.js`, surfaces, scorecards) | append-only records | append, summarise | no decision of a run, but the latest tool result of a packet |

The parts meet in the run's row. The founder's turn delegates, writes the row
and writes it again after the starter call; a tick reads it, awaits a tool call
and writes it; a callback's handler reads it and writes packet states and then
the anchor; a push writes envelope and packet state. The callers of
`patchRunById` hold no lock, and each of them decides from a copy it read one or
more awaits ago. After a write that changes a run, `signalSupervisorWakeForRun`
sets a flag on the row and nudges a direct tick through the listener of
`app.js`; the periodic sweep serves flagged runs, open runs and the active run
of each thread. The project space shares no state with a run; a founder's turn
only reads its readiness (`founderCosToolHandlers.js:128`).

What is hard here: (1) stale copies, as every await lets other actors in;
(2) callbacks that come early, late, twice, out of order or under other ids;
(3) pairs of writes with a crash in between, files that are empty for a while;
(4) a guard, a flag, a lease that must not stay behind or get lost; (5) two
sources of truth on one packet, the provider's callback and the evidence of a
push; (6) rules on one thing spread over modules that must agree. `PROJECT.json`
lists the hazards one by one with the line where each bites and the property
that covers it.

## Modules

| Module | Models | Proofs |
| --- | --- | --- |
| `PacketStates` | pure rules of packet and run states; no variables | |
| `TerminalVerdict` | abstract: the verdict on a packet is the join of the claims heard | |
| `CursorAuthority` | one packet under callbacks, implements `TerminalVerdict` | `PartsProofs` |
| `RunLifecycle` | one run: founder's turn, ticks, callbacks, superseding delegation, crash | `RunLifecycleProofs` |
| `SupervisorWake` | several runs: flag, nudges, guard, sweeps | `SupervisorWakeProofs` |
| `SupervisorLease` | several replicas: row, memory lease, clock, database errors, restarts | `SupervisorLeaseProofs` |
| `Supervisor` | two that share no state, side by side: wake and lease | `SupervisorLeaseProofs` |
| `ReceiveIntake` | dispatch binding, correlation, candidates, commit, anchor | `ReceiveIntakeProofs` |
| `RecoveryBridge` | envelopes, callbacks and pushes | `RecoveryBridgeProofs` |
| `RunStore` | the rows of a thread's runs in the three stores | `RowsAndCallsProofs` |
| `SinkCapabilities` | pure rules: what a sink can do, what its writer does and reports | |
| `ProjectSpace` | gates, bindings, propagation, readiness over `SinkCapabilities` | `ProjectSpaceProofs` |
| `SlackTurns` | the turns of one thread, its two files, the tool loop | `PartsProofs` |
| `HarnessDispatch` | a delegation from its arguments to the end of its run, over `PacketStates` | |
| `ToolCalls` | one thread's tool calls: stash, gates, cloud agents, fallbacks, outcomes | `RowsAndCallsProofs` |
| `GithubDeliveries` | delivery ids and the handlers that look them up | `PartsProofs` |
| `Parts` | four that share no state, side by side: authority, turns, dispatch, deliveries | `PartsProofs` |
| `RowsAndCalls` | two that share no state, side by side: row stores and tool calls | `RowsAndCallsProofs` |

Each `*MC` module instantiates one of them for TLC. A behaviour of `Parts` is one of
`CursorAuthority`, `SlackTurns`, `HarnessDispatch` or `GithubDeliveries` while the
others stay at their start, one of `RowsAndCalls` one of `RunStore` or
`ToolCalls`, and one of `Supervisor` one of `SupervisorWake` or `SupervisorLease`; so a theorem about a part is one about the whole, by a lemma that
projects the whole onto it. Each `.cfg` is one run. A definition whose name starts with
`Bad` is a plausible slip in the definition below it; `PROJECT.json` pairs it with
the property that catches it.

### Conventions

* A step is the code between two awaits. Reading the row and patching it are
  different steps wherever an await lies between them.
* A patch is one step everywhere but in `RunStore`, which opens it up. So the
  lifecycle's races are those of the memory store; what Supabase and the files
  add to them is what `RunStore` says a patch may lose.
* History variables (`vouched`, `everDone`, `sent`, `dispatched`, `said`,
  `pushed`, `kept`, `leads`, ...) are read by properties only.
* The actors of `RunLifecycle` (with `Overlap = TRUE`) and of `RecoveryBridge`
  (where `overlap` is chosen at the start of a behaviour) interleave at every
  await, as the code's do. Which properties survive that is the question of
  `lifecycle_overlap` and `recovery`; which do not is shown by
  `lifecycle_undone` and `recovery_late`. What one actor's commit is
  worth to the others is said by `KnownCommitsStay` and `SettledStays`, whose
  preconditions name every copy that may still undo it.
* Without overlap an actor starts only when the others are at rest: the
  serialised use of the repository's tests. `CompletedAfterAnchor`,
  `CommitsStay`, `DispatchedOnce`, `ToldOnce`, `StatusFits`, `QuietPushYields` and
  `QuietRowMatches` hold only then; they are about crashes, which come at any
  step, and about the order of the steps of one actor after another.
* The attempts on the lease, the calls of `RunStore`, `ToolCalls` and
  `ProjectSpace`, and the turns of `SlackTurns` always overlap, and their
  properties say what overlapping leaves intact.

### CursorAuthority and TerminalVerdict

`Callback` is `resolveCursorPacketStateAuthority` as the two commit functions
use it, `Outcome` the states a tool outcome sets, `Word` the provider's status
words. The code keeps one record per packet, `cursor_external_terminal_by_packet`;
`VerdictIgnoresOrder` says that this is enough: whatever arrived in whatever
order, the packet is in the state of the newest claim, and of failure among
the newest. Time 0 is "no time" and "unparsable time", as `Date.parse(..) || 0`
makes it.

### RunLifecycle

| Action | Code |
| --- | --- |
| `Kickoff`, `Finalize` | `executeStarterKickoffIfEligible`, `finalizeRunAfterStarterKickoff` |
| `Bind`, `Trigger`, `StopWaiting`, `RunLocally`, `EndCall` | the tool invocation: ledger bind, trigger of the agent, the wait for the callback, local lanes, the `tool_result` in the execution ledger |
| `BeginPeriodic`, `BeginDirect`, `Lease`, `Enter`, `Reconcile*`, `Advance*`, `Mark`, `Finish`, `Report`, `Send*`, `Flag`, `Leave` | a tick: guard, lease, reconcile from the ledger, advance (up to `MaxRounds`, six in the code), milestones |
| `Receive`, `Intake`, `Load`, `Store`, `Anchor` | a callback that has found its packet |
| `Supersede`, `Elsewhere` | a later delegation cancels the run (Supabase only) and takes the thread's pointer |
| `Crash` | the actors and the guard are gone; row, pointer and ledger stay |

`Init` is the row as `persistAcceptedRunShell` inserts it. The binding of the
ledger that the second dispatch shares with the first, and the rewriting of the
anchor after the trigger, are in `ReceiveIntake`. An outcome without a status
(an invalid packet specification) leaves a packet `running`, as in the code; a
`ready` packet that was dispatched before is taken back to `running` by the
reconciliation, which comes before the advance, so `DispatchedOnce` holds.

### SupervisorWake, SupervisorLease

`SupervisorWake` abstracts a run to open, ended or canceled and to "due": its
last change has not been told. `Change` stands for every write followed by
`signalSupervisorWakeForRun` (whose patch and notification are merged), `Look`
for `processRunMilestones`. The lease is a nondeterministic refusal here, and a
module with a row, a clock (`Pass`) and errors there. A replica keeps its owner
id for its lifetime and is never refused its own lease. `Select` and the upsert
are two steps of an attempt, and any replica may come between them: `missed` is
who wrote the row since an attempt has read it, `lost` whose lease such an
attempt wrote over. Two replicas can hold leases at once, and
`TakenOnlyUnseen` says that this race is the only way to it.

### ReceiveIntake

Ids are unique per dispatch, so the correlation store is a set of pairs of a
kind of id and a dispatch. All runs are of one thread, and runs share packet
ids, as a re-delegation of the same plan produces them. A callback is about one
dispatch (`for`) and names it by a set of hints. `Candidates` are the ids the
commit tries: the accepted id, which the request id stands in for, the request
id, and the request the named run's ledger waits for. The pending mark of the
ledger is never reset by the code, so it is no part of the state. `Try` reads
the correlation and the row in one step. Path fingerprints are left out: they
correlate as evidence only and move no packet. Stale copies of packet states
are left to `RunLifecycle`; the anchor's stale copy is modelled.

### RecoveryBridge

`mem` is the process's envelope map, `row` the copy on the run's row. A push
carries the set of dispatches whose repository, paths, age (48 h) and branch it
matches; the order in which envelopes are listed is open. `Take` puts each
listed copy back in the memory before it is examined, as the code does. So an
older packet's envelope may come to stand in the memory, where it hides the one
on the row from every later push: `PushSettles` excepts that (`Hidden`).

### RunStore

One thread's runs under `persistAcceptedRunShell`, `patchRun` and
`patchRunById`. A field of a row holds the name of the patch that wrote it, so
that a lost update is a name that is gone.

| Action | Code |
| --- | --- |
| `Accept`, `Patch`, `PatchById` | a call begins in the mode of `COS_RUN_STORE` |
| `Apply` | memory mode: one step |
| `Cancel`, `Insert`, `Select`, `Update` | Supabase: cancel the active runs, insert; read the row, merge, write every column. Each call may fail, and an update may be made and not answered |
| `ReadThread`, `ReadById`, `Scan`, `Open`, `Fill`, `Look` | files: the thread's file and the run's, found directly or by a scan; a write empties the file and then fills it, and two writers may garble it |
| `Crash` | calls are lost, rows and files stay as they are |

Two calls that overlap lose each other's columns in Supabase and in files. The
properties say what is kept all the same: what a call wrote while it was alone
(`QuietPatchStays`), and that a late patch of an older run does not bring that
run back (`QuietRunLeads`). `OneCrashLosesNoRun` is about the two files: one of
them is readable at any time, so that one crash takes at most one of them.

### SinkCapabilities and ProjectSpace

`SinkCapabilities` has the registry of sinks, what the qualification ledger
makes of it, the verification a step is planned with, what each of the four
binding writers does and what it reports, and the engine's judgement of the
report (`Judged`). A writer's outcome is a pair: the report, and whether the
sink was really changed.

`ProjectSpace` has the calls of `projectSpaceLane.js` over Supabase with a step
per database call, each of which may fail: a binding or a gate makes the
missing space first (`GetSpace`, `Upsert`); closing a resolved gate and marking
it resumed read the count first (`Count`, `Close`, `Mark`); a propagation
inserts its row, writes and judges step by step and stores its status
(`Insert`, `Write`, `Judge`, `Finish`); the readiness verdict reads three lists
in any order and takes a failed read for an empty list (`Read`, `Verdict`). The
operator may edit the ledger at any moment (`Qualify`).

### SlackTurns

An event is a message at one of the two handlers; a mention in a thread reaches
both. `Mentioned` and `Replied` are the handlers with their early returns,
`OpenRoute` and `FillRoute` the saving of the route, `Load`, `Open` and `Fill`
an `appendThreadTurn`, `Recall` what the model is shown, `Think` a round of the
tool loop, `Send` and `Apologise` the answer. Both files are emptied before they
are filled, and what cannot be read counts as absent. Nothing orders the turns
of a thread.

### HarnessDispatch

`Delegate` is `runHarnessOrchestration`: packets get their tool and action from
the format where the model gave none, a live patch becomes `emit_patch`, and the
persona contracts judge the arguments and the packets. `Kick` stores the run and
invokes the starter, `Advance` a later packet, `Report` the provider's callback.
`Judged` and `Definition` keep the two ways in which the code finds a packet by
its id: the last one, and the first. The order that `orderPacketsByHandoff` makes is
the slot of each packet, so `First` and `Required` need no sorted sequence.

What the tool plane refuses whatever the contracts said is `Refused`: a lane
without its keys, a specification in a thread that is live-only, a patch that
the cloud contract cannot assemble and for which nothing is stashed. `Ready` are
the lanes the environment has.

### ToolCalls

A call is a record with a program counter; delegation *d* is also the name of
its run. Two rules of one call are easy to get right and the interleaving is
not: what is stashed, which run is the thread's, and what is stored about an
agent change while a call is under way.

| Action | Code |
| --- | --- |
| `Delegate`, `Persist`, `PersistFails` | `executeFounderCosToolCall.js`: stash, live-only mark, the run's row before the starter, or after it if that failed |
| `Invoke`, `Ask` | a packet's call by the starter or a tick; the model's own call, whose run was read before the round |
| `Merge`, `Gate` | `tryMergeStashedDelegateEmitPatchPayload`; early exits and prechecks, which end a call as "blocked" |
| `Bind`, `Send`, `Record`, `Wait` | the correlation rows before the trigger, the trigger, the agent's ids, the bounded wait for the callback |
| `Live`, `Link`, `File` | a live adapter, the correlation of a GitHub issue, an artifact on disk |
| `Report`, `Crash` | a cloud agent ends; a restart, which empties the stash |

`OutcomeIsTrue` compares what a call told with what really happened (`agent`,
`did`). `AgentIsOfItsPacket` says that the agent of a packet's patch is in the
correlation store from the moment it exists, whatever fails after, and was not
sent the patch of an earlier delegation.

### GithubDeliveries

`Recall` and `Insert` are `tryRecordGithubDelivery` in memory and over the
database, one step each; `Begin`, `Read`, `Open` and `Fill` are its file mode, and
`Fallback` its `catch`, which writes the list anew with one id. `Process` is what
`handleGithubWebhookIngress` does afterwards. `spoilt` names the losses the code
puts up with: a store that failed, handlers that met at the file, a memory that
died. `FiledOnce` says that nothing else lets a repetition pass.

## Runs

| Run | Question |
| --- | --- |
| `parts` | one packet, all kinds of words, four times: order-free verdict, refinement of `TerminalVerdict`; one thread with a mention and a reply that overlap, a fault and a crash: the model is shown nothing invented, nothing dropped or doubled but as stated, every turn ends; dispatches of one and two packets, with every lane configured and with none: what is accepted and not refused is carried out, in order; GitHub's deliveries, repeated, at two handlers, with a failure or a restart, in three stores: filed once |
| `lifecycle_restart` | two callbacks, one tick, one crash, a superseding delegation, no overlap: commits stay, only a crash repeats a dispatch or a message, status fits, nothing is announced before its closure; liveness: the end is announced |
| `lifecycle_overlap` | one callback, one tick, one crash, a superseding delegation, interleaved with the founder's turn at every await: completion is vouched for, dependencies come first, "completed" is earned; a commit that no older copy is left of stays |
| `lifecycle_undone` | violation: a callback's commit is overwritten by the founder's turn |
| `supervisor` | guard ownership; which changes are acted on at last whatever is dropped; two replicas whose attempts interleave, two restarts, a database error: two lead at once only by the race between read and write, and somebody leads again and again |
| `intake_named` | callbacks that name their packet, under every interleaving with two dispatches and a crash: claims stay home; one with the request id settles its packet |
| `intake_stray` | violation: a late callback completes the next packet |
| `recovery` | a callback, a push, two dispatches and a crash, interleaved: reviews are earned; a packet that no pending envelope is left of is never sent to review; a push that matches settles its dispatch. One after the other: pushes yield to callbacks, and the row says what the memory says |
| `recovery_late` | violation: the race in which a push does not yield |
| `rows_and_calls` | three overlapping calls in each of the three stores, failures, a crash: what survives; two tool calls of packets or of the model under two delegations, a fault or a restart, in three environments: what is told is true, agents can be placed |
| `space` | three overlapping calls of any kind on a project space, failures, a crash: gates are continued once, failures and writes are told as they were, "ready" overlooks nothing |
| `space_unqualified` | violation: a sink is changed before the engine asks whether it may be |

### Seen while modelling

Besides the four violations, these behaviours are in the modules and no
property of a run speaks against them. A reader who relies on the documents
should know them.

Run and supervisor:

* A tick that reports between the callback's commit and the end of the founder's
  turn does not know yet that the run was started in the cloud (`starter_kickoff`
  is stored last), and tells "completed" before the closure is anchored
  (`runSupervisor.js:281`). `CompletedAfterAnchor` needs `Overlap = FALSE`.
* The guard of `tickRunSupervisorForRun` is looked at before the lease is awaited
  and taken after it (`runSupervisor.js:384-392`): two direct ticks of a run may
  both pass. `RunLifecycleProofs` holds for any number of ticks.
* The test that skips a blocked milestone (`runSupervisor.js:227`) asks for a
  closure that demands the status "completed", and never holds.
* `ClearFlag` takes the wake flag away whatever the tick achieved
  (`runSupervisor.js:432`): the end of a run that lost its place as the active
  one is never told if Slack refused that one message.
* Two replicas that read the expired lease before either writes it both win
  (`supervisorLease.js:168`; `TakenOnlyUnseen` says how); a sweep that outlasts
  the lease goes on.
* A closure anchored while the agent's ids are being recorded is erased
  (`providerEventCorrelator.js:276`, `RecordAnchor`).
* A callback with an id of the agent that is not recorded yet is dropped although
  it carries the request id bound before the trigger (`correlationStore.js:162`);
  hence `CallbackLands` is checked for callbacks without an accepted id.

Stores:

* Patches of different columns that overlap undo one another in Supabase and in
  files (`runStoreSupabase.js:688`, `executionRunStore.js:812`).
* A crash in file mode between emptying and filling leaves the file empty for
  good; the run is then found by its other copy only.
* In the JSON files of the thread memory, the execution ledger and the
  correlations, a read of a file that is just emptied gives `[]`, and the write
  that follows wipes the history (`threadMemory.js:26`, `executionLedger.js:30`,
  `correlationStore.js:22`).

Slack turns:

* A reply in a routed thread that is read while another turn saves the route is
  ignored. With an unknown bot id a mention in a routed thread is answered twice.
* `recent[-1].role === 'user'` (`handleFounderSlackTurn.js:124`) is meant to drop
  the question itself. With overlapping turns it may drop another's message and
  show the model its own twice.
* When filing fails after the answer was sent, or the eight rounds are used up,
  the founder is asked to send the message again although it was answered, or
  the tools have run. When Slack refuses the answer there is neither a record
  nor an apology unless the refusal throws.

Delegation:

* `normalizeCosPackets` drops `depends_on`, so the runs of the bridge have no
  dependencies; those in `RunLifecycle` come from rows that others wrote.
* Of two packets with one id, one is never invoked, and the run is "completed"
  all the same, or stalls when one of the two is a draft.
* Of several packets of one persona the last is handed off first.
* A tool given without an action gets the action of the format; the pair may be
  invalid, and then the dispatch is blocked as a whole.
* A dispatch of drafts only is "completed" at once.
* A later packet is invoked while an earlier cloud packet is still running.

Tool calls:

* A delegation that mixes a live patch with specifications is accepted, and the
  specifications are blocked when they are invoked: the thread is live-only.
* The live-only mark and the stash are in memory, so a restart forgets both
  (`delegateEmitPatchStash.js:10-14`).
* A patch marked `no_fallback` becomes an artifact all the same where there is no
  cloud lane or its trigger failed.
* A packet of an older run without a patch of its own, and the model's own
  `emit_patch` without one, are completed from the latest delegation's stash, the
  second although that patch was sent already.
* A trigger whose answer is late is done again: a specification by the CLI, a
  patch as an artifact, while the agent works. So is one whose recording throws;
  a store that only answers "no" is not noticed.
* The wait for the callback looks at any provider event of the run
  (`cursorCallbackCompletionOrchestrator.js:41`), so a report on one packet ends
  the wait for another.
* The run of the model's own calls is read once before their round
  (`founderToolLoop.js:80`): a call behind a delegation in one round is filed
  under the previous run. So is the starter's agent of a run whose row is not
  stored yet.
* A GitHub issue is correlated with the run the thread has after the API call
  (`providerEventCorrelator.js:130`).
* Two overlapping calls lose each other's rows of the ledger file
  (`executionLedger.js:80`); `ToolCalls` writes a row in one step.
* SQL against an URL that cannot be right, and deployments, are "completed" by an
  artifact that nobody runs.

Project space:

* The count of resumes is lost when a close and a mark overlap.
* `missing_binding` is never a verdict: the loader passes no requirements.
* A failed read of gates and runs gives "ready", although the comment at
  `deliveryReadiness.js:123` says that a failure gives null.
* The Supabase writer pings and the Railway writer looks up, and both report a
  live write; only the ledger keeps a time of writing from them. No writer looks
  at `dry_run`.
* A step that the ledger does not qualify gives rows of "not_applicable" in a run
  that "succeeded". A run whose last update fails stays "running".
* A read of the space that fails makes the upsert write over its row.

### Bounds, and why they are enough

Two packets, the second dependent on the first where dependencies matter, give
every relation between packets the code distinguishes: it treats the others by
the same loop. Two times give older, equal and newer. A sweep and a direct tick
overlap in `supervisor`. In `lifecycle_overlap` the founder's turn, a tick and a
callback overlap, one of each kind of writer; any number of ticks and callbacks
is left to the proofs of `RunLifecycleProofs`, and its four properties are all
proved. `recovery` has two runs with two packets each, of which two are out of
the queue at a time (`MaxAccepted`): two runs whose envelopes could be confused,
or two dispatches of one run, of which the later takes the envelope's place. Its
one push and one callback overlap each other and the dispatches; that two pushes
overlap, so that the second lists what the first is about to take, is left to
the proofs of `SettledStays` and `ReviewIsEarned`, which are for any number.
`supervisor` has two replicas with two restarts, so that the third
and the fourth owner of the lease are the successors of the first two; for any
number of replicas there is the proof.

`rows_and_calls` has two runs and three calls of the store: two that overlap and
one that runs alone before or after them. Its tool calls are two, at most one of
them the model's own, under two delegations (one that starts with a live patch,
one whose patch has no source), with one fault: two calls are enough for a report
on one to meet the wait of the other, and two delegations for the stash to be
overwritten. Its environments are everything configured, a CLI alone, and keys
that cannot be right; an endpoint that is told where to report, and a wait that
is forced or forbidden, are in the module and not in the run. `space` has three calls, since a propagation, a
closing and a verdict must be able to meet; its plan has a step whose sink can
be written and one whose sink can only be looked up, its three ledgers are
empty, fresh and grown old, and two propagations with a limit of one in the
verdict's list tell the newest from the others. `parts` has one mention
(two events) and one reply, of which two are in progress together, two rounds
where the code has eight, and two remembered turns where it has thirteen, so
that the memory is longer than what is read back; its dispatches are every
packet four of the personas can be asked for, with and without a live patch, pairs
with equal and different ids, live patches and drafts for four teams, and none.
Its deliveries have two ids, four receipts and a file that keeps one id, so that
a repetition comes at once, later, and after the window has moved on.

Each bound on calls, crashes and errors is named in the module and stands in
the guard of its action.

### Fairness

Every await returns, so each actor's steps are weakly fair. Slack accepts a
message now and then: `SendSucceeds` is strongly fair. The timer of
`startRunSupervisorLoop` starts a sweep again and again. Nothing is assumed of
nudges, direct ticks, callbacks or pushes. In `SupervisorLease` an attempt is
now and then prompt (strong fairness), since one that outlasts the term
acquires nothing. In `SlackTurns` the model and Slack answer or fail at last,
which the clients' time limits justify; that a message arrives, or is heard, is
not assumed. In `HarnessDispatch` a dispatch goes on as long as it can: the
timer ticks, and a cloud agent reports at last, which is the one assumption on
the outside that `AcceptedIsCarriedOut` needs.

## Proofs

TLAPS checks every theorem for all values of the constants.

* `PartsProofs`, the packet: types, `RecordMatchesState`, `VerdictIgnoresOrder`,
  `TerminalIsFinal`, and that each callback is a step of `TerminalVerdict` or a
  stutter. The invariant says that the record is the newest claim heard.
* `RunLifecycleProofs`: types, `CompletionIsVouched`, `DependenciesFirst`,
  `CompletedIsEarned`. None is inductive: a tick's copy may be older than the
  callback. The strengthening (`RowGood`, `TickGood`, `HandlerGood`, each a use of
  `Honest`) says that *no copy* of
  packet states, held by whomever and however stale, shows a cloud packet
  completed that nobody vouched for, and that whatever a copy shows as done is
  in `everDone`. Then it does not matter which write comes last.
  `KnownCommitsStay` is an action property under every interleaving: from a
  state in which a packet is committed and every copy in progress is as new as
  the row, each step keeps both, but for a callback of that very packet, and the
  authority leaves what that one writes committed (`AuthorityKeepsCommit`). A
  tick's copy taken from then on is the row's, and its own writes set no
  committed packet to anything.
  For actors that do not overlap there is a second invariant, `SerialInv`, from
  which `DispatchedOnce`, `ToldOnce`, `CompletedAfterAnchor` and
  `StatusFits` follow. None of the four is inductive. `Alone` says that one actor is
  at work, so that its copy is the row (`Fresh`) although every await lies between
  reading and writing. `HandedOnce` needs that a packet whose hand-over was not
  recorded is waited for or was lost in a crash, and that a tick past its
  reconciliation finds no packet with an outcome still runnable: that is why an
  accepted callback which sets a packet back to ready does not send it out
  again. `ToldKept` needs the milestones between message and mark, and that
  "started" is told first; `AnchorKept` the tick about to say "completed".
* `SupervisorWakeProofs`: types and `GuardIsOwned`; the invariant adds that two
  ticks past the guard never share a key in a way that lets one take out the
  other's.
* `SupervisorLeaseProofs`: types, `LeaseIsRecorded` and `TakenOnlyUnseen`, for any
  replicas, interleaving, errors and restarts; nothing is assumed of the order of
  attempts. The invariant (`Careful`) adds what an attempt knows between its two
  calls: the owner it would write over holds no unexpired lease of another's, or
  has written since it looked, or is gone; and only a replica that gave up the
  database asks its memory.
* `RecoveryBridgeProofs`: types (`BridgeTypeCorrect`) and `ReviewIsEarned`. The invariant (`BridgeInv`) says that
  a push past its test goes on with a dispatch it touched, and that no copy of
  packet states held for a later write shows a review that was not earned.
  For the types (`RealInv`) it is joined by what every copy of an envelope is, and by
  the fact that a push about to try a run has that run's envelope in the memory.
  `SettledStays` is an action property under every interleaving: a pending
  envelope of a packet comes from its registration only, so once none is left on
  the row, in the memory or with an actor, none appears, and nobody who would
  write an older state of the packet is left either.
  In quiet behaviours, `QuietRowMatches`: an envelope that waits, on
  the row or in memory, is of a packet that is not completed (`Calm`), and memory
  and row differ only while an actor is about to copy the one to the other
  (`Matched`).
* `ReceiveIntakeProofs`: types (`IntakeTypeCorrect`) and `ClaimsStayHome`, from `CallbacksNamePacket` (every
  callback names its packet; `intake_stray` shows what happens without it). The
  invariant says that every candidate a callback holds is of its own run and that
  the one it commits is its own dispatch; for the types it adds that a dispatch
  under way is of a real packet and that correlation rows name real dispatches.
* `ProjectSpaceProofs`: types, `ContinuedOnce`, `NoFailureHidden`,
  `WroteAtIsTrue`, for any plan, ledgers, gates and calls. The invariant adds to
  the types that every report under way and every row kept is truthful to what
  the writers did, that a call's place in the plan is that of its rows, that a
  failure so far has a failed row, that a gate about to be recorded does not
  exist and that one call at most records it, and that the gate of a call that
  closed it is not open. `ReadyIsHonest` has an invariant of its own
  (`HonestInv`): what a verdict keeps in mind from before its reads has a row, and
  what of it is still of concern was found by the read of its table. It rests on
  rows that only go forward: a gate once opened never opens again, and a failed run
  stays failed.
* `RowsAndCallsProofs`, the rows: types, `QuietPatchStays`, `QuietRunLeads`, for any runs,
  columns, patches, number of overlapping calls and crashes. A promised value can
  be lost only by a call that was under way when the promise was made, so the
  invariant says that every row held for a later write agrees with all promises
  (`Faithful`), that a call which is alone is the only one (`Alone`) and finds in
  the first file what it has written there (`Wrote`), that the file of a run
  never vanishes (`Begun`), and that only the promised run is written to the
  thread's file (`Follows`). For `OneCrashLosesNoRun` it is joined by `SafeInv`: while
  no crash has hit, a call that rewrites one file of the newest run has the other
  readable; after one, a call ends only when it has made one of the two readable.
* `RowsAndCallsProofs`, the tool calls: types, `OutcomeIsTrue` and
  `AgentIsOfItsPacket`, for any delegations, requests, environments, faults and
  crashes (`CallsInv`). What a call tells is fixed in its last steps but depends on
  the lane and the agent of the earlier ones, so the invariant says at each step
  what it may know already; a call's run and the owner of its patch are
  delegations that exist, and a packet's row is there from the step that binds it.
* `PartsProofs`, the thread: `PriorIsTranscript` and `OneTurnPerMention`, for any
  messages, number of turns shown, overlap, faults and crashes (`ThreadInv`). All
  that any turn has read, will file or shows was said; as long as nothing overlaps
  or fails, what was said is the memory and the one message the turn is filing,
  wherever it is on the way between file, memory and prompt. That the last turns
  without the question are the last turns before it is a lemma on sequences
  (`PriorIsRecent`). The action property `DroppedOnlyWhileSaving` follows from a
  second invariant (`RouteInv`): while nothing fails, a thread that was greeted has
  its route on file or a turn that is about to fill the file.
* `PartsProofs`, the dispatch: `HandoffIsKept`, for any team, packets, lanes and
  answers (`HandInv`). Starter and ticks search differently, the starter among
  packets that can be invoked and a tick among runnable ids, so the invariant says
  of both that a packet with an earlier slot than an invoked one waits for nothing.
  That there is a first among some slots is the lemma `Least`.
* `PartsProofs`, the deliveries: `FiledOnce`, for any handlers, window, failures and
  restarts (`RecordInv`). In memory and in the table every id let through is
  recorded. The file is cut to the latest ids, so the invariant counts from the
  end: an id let through `d` recorded ids ago is at place `d` from the end of the
  file, or of the list in the hands of the one handler that is rewriting it
  (`Lists`, `Coming`), unless `d` is beyond the window.

Assumptions on constants are the named `ASSUME`s of the modules; they say that
packets are not `NoPacket`, times and bounds are naturals, and the like. Of a
delegation `PartsAssumption` says that nobody is in the team twice: the code takes
the set of the personas (`harnessBridge.js:266`).

What is proved is not always run as well: `RecordMatchesState`,
`TerminalIsFinal`, `LeaseIsRecorded` and the types of every module are left to
TLAPS; those of the parts side by side (`EveryPartTyped`, `PartsTyped`) follow
from the parts' invariants.

Model-checked only:

* Liveness, and everything else that needs fairness: out of this prover's reach.
* The violations.
* `CommitsStay` and `QuietPushYields`, which the overlap of actors breaks; what is
  proved in their place is `KnownCommitsStay` and `SettledStays`.

## Not modelled

`PROJECT.json` gives a reason per component. Signature checks, field selection,
message wording, attachments, HTTP routes, the agent and Slack themselves are
input and output. Logs and read models decide nothing. Tenancy keys are constant
in a run. Of the GitHub
intake the normalisers are left out; a delivery whose processing failed is dropped
when it comes again (`githubWebhookDedupe.js:47`), which `GithubDeliveries` allows.
The lists of a sweep are complete in
`SupervisorWake`, where the code takes 50 flagged and 120 open runs
(`runSupervisor.js:447`) without turn-taking. The correlation store is the
database; its file mode loses rows when two upserts overlap
(`correlationStore.js:95`), as the thread memory of `SlackTurns` does.

The modules cover about an eighth of the repository's lines. Half of those lines
are scripts and tests, and of `src/founder/` the long files (`smokeOps.js`, the
adapters, the ingress of attachments, the scorecards) are input, output or read
models without a state that anything depends on.

## Plan

1. Done: authority, lifecycle, supervisor, lease, intake, recovery, row stores,
   project space, Slack turns, dispatch, tool calls,
   deliveries.
2. Done: proofs of the safety properties that passing runs check, but for the two
   named above.
3. A composition of lifecycle and intake on several packets of one ledger.
4. The lifecycle over the row of `RunStore` instead of an atomic one.
