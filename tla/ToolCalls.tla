------------------------------ MODULE ToolCalls ------------------------------
(***************************************************************************)
(* One thread's tool calls, from the call to its outcome: what a packet or *)
(* the model asks for is completed from the stash of the last delegation,  *)
(* gated, bound to its packet, handed to a cloud agent, to a live adapter  *)
(* or to an artifact on disk, and told to the ledger.                      *)
(*                                                                         *)
(* Calls of packets, calls of the model itself, delegations and agents     *)
(* that report interleave at every await; stores fail, triggers time out   *)
(* and the process restarts, which empties the stash.  Delegation d is     *)
(* also the name of its run.  How a run goes on after a call is in         *)
(* RunLifecycle and how a callback finds its packet in ReceiveIntake.  A   *)
(* row of the ledger is written in one step here: what two writers lose to *)
(* each other is left out.                                                 *)
(***************************************************************************)
EXTENDS Naturals, Sequences, FiniteSets

CONSTANTS
  MaxCalls,    \* bound: calls
  MaxAsked,    \* bound: those of them that the model makes itself
  Plan,        \* the delegations tried: sequences of [act, src]
  Direct,      \* what the model asks for by itself: records [act, src]
  Setting,     \* the environments: records [cloud, cli, keys, contract, force]
  MaxRuns,     \* bound: delegations
  MaxFaults    \* bound: stores and files that fail, and restarts

VARIABLES
  set,       \* the environment
  plans,     \* the delegations accepted so far
  shell,     \* per delegation: "pending", "stored", "missed" or "lost"
  active,    \* the run stored last, 0 without one
  stash,     \* the delegation whose starter's patch is at hand, 0 without one
  liveOnly,  \* the thread may only send patches
  call,      \* the calls
  known,     \* correlation rows [call, run, packet]: how a callback is matched
  agent,     \* per call: "none", "working" or "reported"
  faults     \* what has failed so far

vars == <<set, plans, shell, active, stash, liveOnly, call, known, agent, faults>>

-----------------------------------------------------------------------------
(* act is what is asked for: "spec" and "patch" are Cursor's create_spec   *)
(* and emit_patch.  src is where a patch comes from: "none", "part" (a     *)
(* live patch that lacks something), "bad" (operations that lack           *)
(* something), "ops" and "narrow" (a complete live patch).                 *)

Cursor == {"spec", "patch"}
Call   == 1..MaxCalls
Idle   == [pc |-> "idle"]
Ended  == {"done", "raised", "lost"}

Called(c)    == call[c] # Idle
UnderWay(c)  == Called(c) /\ call[c].pc \notin Ended
At(c, pc)    == Called(c) /\ call[c].pc = pc
Goes(c, pc)  == call' = [call EXCEPT ![c].pc = pc]
\* Calls are numbered as they come.
Fresh(c) == ~Called(c) /\ \A e \in 1..(c - 1) : Called(e)

Begun(act, src, run, owner, packet) ==
  [pc |-> "merge", act |-> act, src |-> src, run |-> run, owner |-> owner,
   packet |-> packet, from |-> 0, tried |-> FALSE, did |-> FALSE,
   status |-> "none", lane |-> "none", delivery |-> "unknown"]

Fault == faults < MaxFaults /\ faults' = faults + 1

\* The outcome goes to the ledger and then to the caller, or the ledger fails.
Tell(c, told) ==
  \/ call' = [call EXCEPT ![c] = [told EXCEPT !.pc = "done"]] /\ UNCHANGED faults
  \/ Fault /\ Goes(c, "raised")

-----------------------------------------------------------------------------
(* Delegations.                                                            *)

Narrow(p) == p.act = "patch" /\ p.src = "narrow"

\* A delegation without a patch to start with empties the stash.
Stashed(plan) == IF Narrow(plan[1]) THEN Len(plans) + 1 ELSE 0

\* (A delegation after the last call has passed the gate is not tried.)
Delegate(plan) ==
  /\ Len(plans) < MaxRuns /\ \E c \in Call : ~Called(c) \/ call[c].pc \in {"merge", "gate"}
  /\ plans' = Append(plans, plan) /\ shell' = Append(shell, "pending")
  /\ liveOnly' = (\E k \in DOMAIN plan : Narrow(plan[k]))
  /\ stash' = Stashed(plan)
  /\ UNCHANGED <<set, active, call, known, agent, faults>>

\* The run's row is stored before its starter is invoked; without a row the
\* starter is invoked all the same and the run is stored after it.
Persist(d) ==
  /\ \/ shell[d] = "pending"
     \/ shell[d] = "missed" /\ \E c \in Call : Called(c) /\ call[c].owner = d /\ ~UnderWay(c)
  /\ shell' = [shell EXCEPT ![d] = "stored"] /\ active' = d
  /\ UNCHANGED <<set, plans, stash, liveOnly, call, known, agent, faults>>

PersistFails(d) ==
  /\ shell[d] = "pending" /\ Fault
  /\ shell' = [shell EXCEPT ![d] = "missed"]
  /\ UNCHANGED <<set, plans, active, stash, liveOnly, call, known, agent>>

-----------------------------------------------------------------------------
(* A call begins.                                                          *)

Of(c, d, k) == Called(c) /\ call[c].owner = d /\ call[c].packet = k

\* The starter and the ticks invoke the packets of a run one after the other.
Invoke(c, d, k) ==
  /\ Fresh(c) /\ ~\E e \in Call : Of(e, d, k)
  /\ \A j \in 1..(k - 1) : \E e \in Call : Of(e, d, j) /\ ~UnderWay(e)
  /\ shell[d] = "stored" \/ (shell[d] = "missed" /\ k = 1)
  /\ call' = [call EXCEPT ![c] =
       Begun(plans[d][k].act, plans[d][k].src, IF shell[d] = "stored" THEN d ELSE 0, d, k)]
  /\ UNCHANGED <<set, plans, shell, active, stash, liveOnly, known, agent, faults>>

\* The run of the model's own call is read before its first call of the round.
Ask(c, q) ==
  /\ Fresh(c) /\ Cardinality({e \in Call : Called(e) /\ call[e].owner = 0}) < MaxAsked
  /\ call' = [call EXCEPT ![c] = Begun(q.act, q.src, active, 0, 0)]
  /\ UNCHANGED <<set, plans, shell, active, stash, liveOnly, known, agent, faults>>

\* A patch without a source of its own takes the stashed packet's; a source
\* that lacks something stays as it is.
Merge(c) ==
  /\ At(c, "merge")
  /\ IF call[c].act = "patch" /\ call[c].src \in {"none", "part"} /\ stash # 0
     THEN call' = [call EXCEPT ![c].pc = "gate", ![c].from = stash,
                               ![c].src = IF @ = "part" THEN @ ELSE "narrow"]
     ELSE Goes(c, "gate")
  /\ UNCHANGED <<set, plans, shell, active, stash, liveOnly, known, agent, faults>>

-----------------------------------------------------------------------------
(* The gates, and which way a call takes.                                  *)

Cloud(c) == call[c].act \in Cursor /\ set.cloud

Unsourced(c) == Cloud(c) /\ call[c].act = "patch" /\ call[c].src \notin {"ops", "narrow"}
Forbidden(c) == call[c].act = "spec" /\ liveOnly
Keyless(c)   == call[c].act \in {"issue", "sql", "logs"} /\ set.keys = "none"

CanLive(c) ==
  CASE call[c].act = "spec"              -> set.cli
    [] call[c].act = "sql"               -> set.keys = "good"
    [] call[c].act \in {"issue", "logs"} -> set.keys # "none"
    [] call[c].act \in {"patch", "deploy"} -> FALSE

Route(c) ==
  CASE Cloud(c) -> IF call[c].act = "patch" /\ call[c].packet # 0 /\ call[c].run # 0
                   THEN "bind" ELSE "send"
    [] ~Cloud(c) /\ CanLive(c) -> "live"
    [] OTHER -> "file"

Gate(c) ==
  /\ At(c, "gate")
  /\ IF Unsourced(c) \/ Forbidden(c) \/ Keyless(c)
     THEN Tell(c, [call[c] EXCEPT !.status = "blocked", !.lane = "artifact"])
     ELSE Goes(c, Route(c)) /\ UNCHANGED faults
  /\ UNCHANGED <<set, plans, shell, active, stash, liveOnly, known, agent>>

-----------------------------------------------------------------------------
(* The cloud agent.                                                        *)

Row(c, run) == [call |-> c, run |-> run, packet |-> call[c].packet]

BadBind(c) ==
  /\ At(c, "bind")
  /\ \/ known' = known \cup {Row(c, call[c].run)} /\ Goes(c, "send") /\ UNCHANGED faults
     \/ Fault /\ Goes(c, "send") /\ UNCHANGED known
  /\ UNCHANGED <<set, plans, shell, active, stash, liveOnly, agent>>

\* The packet's two correlation rows are written before the trigger: if one is
\* refused, nothing is sent; the run's own row, patched after them, may throw.
Bind(c) ==
  /\ At(c, "bind")
  /\ \/ known' = known \cup {Row(c, call[c].run)} /\ Goes(c, "send") /\ UNCHANGED faults
     \/ Fault /\ known' \in {known, known \cup {Row(c, call[c].run)}}
          /\ call' = [call EXCEPT ![c].pc = "done", ![c].status = "blocked", ![c].lane = "cloud"]
     \/ Fault /\ Goes(c, "raised") /\ known' = known \cup {Row(c, call[c].run)}
  /\ UNCHANGED <<set, plans, shell, active, stash, liveOnly, agent>>

\* The endpoint starts an agent or does not, and what it answers is recorded.
\* A trigger refused, and one whose answer is late, goes on to the CLI or to
\* an artifact, whatever the agent does.
Send(c) ==
  /\ At(c, "send")
  /\ \E started \in {"none", "working"} :
       /\ agent' = [agent EXCEPT ![c] = started]
       /\ \E pc \in {IF call[c].act = "spec" /\ CanLive(c) THEN "live" ELSE "file"}
                     \cup (IF started = "none" THEN {} ELSE {"record"}) :
            call' = [call EXCEPT ![c].pc = pc, ![c].tried = TRUE]
  /\ UNCHANGED <<set, plans, shell, active, stash, liveOnly, known, faults>>

\* The agent is waited for when the wait is forced, or for a patch that is
\* complete or whose endpoint knows where to report.
Waits(c) ==
  /\ call[c].run # 0
  /\ \/ set.force = "1"
     \/ set.force # "0" /\ call[c].src = "narrow" /\ call[c].act = "patch"
     \/ call[c].act = "patch" /\ set.contract = "sent"

\* The rows of the agent's ids; a store that refuses them is not noticed.
\* Without a run of its own the call is filed under the thread's last.
Record(c) ==
  LET run  == IF call[c].run # 0 THEN call[c].run ELSE active
      rows == IF run = 0 THEN {} ELSE {Row(c, run)}
      next == IF Waits(c) THEN Goes(c, "wait") /\ UNCHANGED faults
                          ELSE Tell(c, [call[c] EXCEPT !.status = "running", !.lane = "cloud"])
  IN  /\ At(c, "record")
      /\ \/ known' = known \cup rows /\ next
         \/ Fault /\ UNCHANGED known
              /\ IF Waits(c) THEN Goes(c, "wait")
                 ELSE call' = [call EXCEPT ![c].pc = "done", ![c].status = "running", ![c].lane = "cloud"]
         \/ Fault /\ Goes(c, "file") /\ UNCHANGED known
      /\ UNCHANGED <<set, plans, shell, active, stash, liveOnly, agent>>

\* The runs of which a matched report has been seen.
Seen == {r.run : r \in {row \in known : agent[row.call] = "reported"}}

\* Polling ends with a report for the run or when the time is up, or fails.
Delivery(c) ==
  CASE set.contract = "absent" -> "unavailable"
    [] set.contract # "absent" /\ call[c].run \in Seen -> "delivered"
    [] OTHER -> "timeout"

Wait(c) ==
  /\ At(c, "wait")
  /\ \E delivery \in {Delivery(c), "unknown"} :
       Tell(c, [call[c] EXCEPT !.status = "running", !.lane = "cloud", !.delivery = delivery])
  /\ UNCHANGED <<set, plans, shell, active, stash, liveOnly, known, agent>>

\* An agent ends and reports; its row says of which packet.
Report(c) ==
  /\ agent[c] = "working" /\ agent' = [agent EXCEPT ![c] = "reported"]
  /\ UNCHANGED <<set, plans, shell, active, stash, liveOnly, call, known, faults>>

-----------------------------------------------------------------------------
(* The other ways.                                                         *)

\* A live adapter did it, or says it failed, which does not mean it did not.
Live(c) ==
  /\ At(c, "live")
  /\ \/ call[c].act # "issue" /\
          Tell(c, [call[c] EXCEPT !.status = "completed", !.lane = "live", !.did = TRUE])
     \/ call[c].act = "issue" /\ call' = [call EXCEPT ![c].pc = "link", ![c].did = TRUE]
          /\ UNCHANGED faults
     \/ /\ \E did \in BOOLEAN :
             call' = [call EXCEPT ![c].pc = "file", ![c].did = did, ![c].tried = TRUE]
        /\ UNCHANGED faults
  /\ UNCHANGED <<set, plans, shell, active, stash, liveOnly, known, agent>>

\* An issue is filed under the run the thread has by now; a store that fails
\* is passed over.
Link(c) ==
  /\ At(c, "link")
  /\ Tell(c, [call[c] EXCEPT !.status = "completed", !.lane = "live"])
  /\ known' \in {known, known \cup (IF active = 0 THEN {} ELSE {Row(c, active)})}
  /\ UNCHANGED <<set, plans, shell, active, stash, liveOnly, agent>>

\* An artifact is a result of its own only when nothing else was tried.
BadFiled(c) == "completed"
Filed(c)    == IF call[c].tried THEN "degraded" ELSE "completed"

File(c) ==
  /\ At(c, "file") /\ Tell(c, [call[c] EXCEPT !.status = Filed(c), !.lane = "artifact"])
  /\ UNCHANGED <<set, plans, shell, active, stash, liveOnly, known, agent>>

-----------------------------------------------------------------------------
\* A restart: calls under way end nowhere, stash and live-only are forgotten.
Crash ==
  /\ Fault
  /\ call' = [c \in Call |-> IF UnderWay(c) THEN [call[c] EXCEPT !.pc = "lost"] ELSE call[c]]
  /\ shell' = [d \in DOMAIN shell |-> IF shell[d] = "stored" THEN "stored" ELSE "lost"]
  /\ stash' = 0 /\ liveOnly' = FALSE
  /\ UNCHANGED <<set, plans, active, known, agent>>

Init ==
  /\ set \in Setting
  /\ plans = <<>> /\ shell = <<>> /\ active = 0 /\ stash = 0 /\ liveOnly = FALSE
  /\ call = [c \in Call |-> Idle] /\ agent = [c \in Call |-> "none"]
  /\ known = {} /\ faults = 0

Step(c) ==
  Merge(c) \/ Gate(c) \/ Bind(c) \/ Send(c) \/ Record(c) \/ Wait(c)
    \/ Live(c) \/ Link(c) \/ File(c)

Begin(c) ==
  \/ \E d \in DOMAIN plans : \E k \in DOMAIN plans[d] : Invoke(c, d, k)
  \/ \E q \in Direct : Ask(c, q)

Next ==
  \/ \E plan \in Plan : Delegate(plan)
  \/ \E d \in DOMAIN plans : Persist(d) \/ PersistFails(d)
  \/ \E c \in Call : Begin(c) \/ Step(c) \/ Report(c)
  \/ Crash

Spec == Init /\ [][Next]_vars

-----------------------------------------------------------------------------
TypeOK ==
  /\ set \in Setting /\ Len(plans) <= MaxRuns /\ DOMAIN shell = DOMAIN plans
  /\ active \in {0} \cup DOMAIN plans /\ stash \in {0} \cup DOMAIN plans /\ liveOnly \in BOOLEAN
  /\ \A row \in known : Called(row.call) /\ row.run \in DOMAIN plans
  /\ \A c \in Call : agent[c] \in {"none", "working", "reported"}

\* What a call tells is true: what is blocked was never sent, what is running
\* has an agent, what is completed live was done, an artifact is a completion
\* only if nothing else was tried, and what is delivered was reported by an
\* agent of that run.
OutcomeIsTrue ==
  \A c \in {e \in Call : Called(e)} :
    /\ call[c].status = "blocked" => agent[c] = "none" /\ ~call[c].did
    /\ call[c].status = "running" => agent[c] # "none"
    /\ call[c].status = "completed" /\ call[c].lane = "live" => call[c].did
    /\ call[c].status = "completed" /\ call[c].lane = "artifact"
         => agent[c] = "none" /\ ~call[c].did
    /\ call[c].delivery = "delivered"
         => \E row \in known : row.run = call[c].run /\ agent[row.call] = "reported"

\* The agent that works on a packet's patch can be placed from the moment it
\* exists: a row names its run and packet, whatever fails afterwards.  And what
\* it was sent is the packet's own patch or that of the latest delegation,
\* which takes the stash over: never one of an earlier delegation.
AgentIsOfItsPacket ==
  \A c \in {e \in Call : Called(e) /\ agent[e] # "none"} :
    call[c].act = "patch" /\ call[c].owner # 0 /\ call[c].run # 0
      => /\ Row(c, call[c].run) \in known
         /\ call[c].from # 0 => call[c].from >= call[c].owner
=============================================================================
