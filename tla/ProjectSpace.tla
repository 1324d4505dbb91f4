------------------------------ MODULE ProjectSpace ------------------------------
(***************************************************************************)
(* A project space over Supabase: its row, its bindings and human gates    *)
(* (projectSpaceLane.js, projectSpaceBindingStore.js, humanGateRuntime.js),*)
(* the propagation of its secrets (envSecretPropagationEngine.js) and the  *)
(* verdict whether it can be delivered (deliveryReadiness.js).  Calls      *)
(* overlap at every await, any database call may fail, the operator edits  *)
(* the qualification ledger, and the process may die.                      *)
(***************************************************************************)
EXTENDS SinkCapabilities, FiniteSets

CONSTANTS
  Calls,        \* calls, each made at most once
  Gates,        \* ids of human gates
  Plan,         \* the steps of a propagation: sink, handling mode, has it a name
  Ledgers,      \* what the qualification ledger may hold
  RecentLimit,  \* how many propagation runs the verdict looks at
  MaxRuns       \* bound on the propagations that are started

NoGate == "no_gate"
ASSUME ProjectSpaceAssumption ==
  /\ Plan \in Seq([sink : Sink, mode : {"plain_readable", "write_only", "smoke_only"},
                   named : BOOLEAN])
  /\ Ledgers \subseteq [Sink -> Entry]
  /\ NoGate \notin Gates /\ Calls \cap Gates = {}
  /\ IsFiniteSet(Calls) /\ RecentLimit \in Nat \ {0} /\ MaxRuns \in Nat

VARIABLES
  live,      \* COS_LIVE_BINDING_WRITERS
  ledger,    \* the qualification ledger, a file
  space,     \* the space has a row
  bindings,  \* it has a binding row
  gates,     \* the gate rows: status and reopened_count
  stored,    \* propagation_runs: the status of each run's row
  started,   \* started_at of each propagation run, 0 for none
  call       \* the calls and their locals

rows == <<space, bindings, gates, stored>>
vars == <<live, ledger, rows, started, call>>

\* changed and failure tell what the writers have really done; before and
\* missed, what a verdict should have seen.
NoReport == [kind |-> "none", result |-> "pending", live |-> FALSE, wrote |-> FALSE]
Idle == [pc |-> "idle", op |-> "none", gate |-> NoGate, to |-> "open", count |-> 0,
         results |-> <<>>, report |-> NoReport, changed |-> {}, failure |-> FALSE, told |-> "none",
         left |-> {}, found |-> {}, clean |-> TRUE, before |-> {}, missed |-> {}]

Init ==
  /\ live \in BOOLEAN
  /\ ledger \in Ledgers
  /\ space = FALSE /\ bindings = FALSE
  /\ gates = [g \in Gates |-> [status |-> "absent", count |-> 0]]
  /\ stored = [c \in Calls |-> "absent"] /\ started = [c \in Calls |-> 0]
  /\ call = [c \in Calls |-> Idle]

\* A call that throws, or dies with the process, gives its caller nothing.
Ended == {"idle", "returned", "lost"}
Over(k, pc) == [Idle EXCEPT !.pc = pc, !.op = k.op, !.gate = k.gate]
At(c, pc) == call[c].pc = pc
Set(c, new) == call' = [call EXCEPT ![c] = new]
Throw(c)  == Set(c, Over(call[c], "lost"))
Return(c) == Set(c, Over(call[c], "returned"))
Begin(c, new) ==
  /\ At(c, "idle") /\ Set(c, new)
  /\ UNCHANGED <<live, ledger, rows>>
Fixed == UNCHANGED <<live, ledger, started>>

-----------------------------------------------------------------------------
(* Bindings and gates are recorded in a space that is made when missing. *)

Open(g)   == gates[g].status = "open"
Bind(c) == Begin(c, [Idle EXCEPT !.pc = "space", !.op = "bind"]) /\ UNCHANGED started
OpenGate(c, g) ==
  /\ gates[g].status = "absent" /\ \A k \in Calls : call[k].op = "open" => call[k].gate # g
  /\ Begin(c, [Idle EXCEPT !.pc = "space", !.op = "open", !.gate = g])
  /\ UNCHANGED started

\* getProjectSpace: a read that fails is a space that is not there.
GetSpace(c) ==
  /\ At(c, "space")
  /\ \E there \in {space, FALSE} :
       Set(c, [call[c] EXCEPT !.pc = IF there THEN "record" ELSE "upsert"])
  /\ Fixed /\ UNCHANGED rows

\* upsertProjectSpace writes over whatever row there is.
Upsert(c) ==
  /\ At(c, "upsert") /\ Fixed /\ UNCHANGED <<bindings, gates, stored>>
  /\ \/ space' = TRUE /\ Set(c, [call[c] EXCEPT !.pc = "record"])
     \/ space' = space /\ Throw(c)

RecordBinding(c) ==
  /\ At(c, "record") /\ call[c].op = "bind"
  /\ Fixed /\ UNCHANGED <<space, gates, stored>>
  /\ \/ bindings' = TRUE /\ Return(c)
     \/ bindings' = bindings /\ Throw(c)

RecordGate(c) ==
  /\ At(c, "record") /\ call[c].op = "open"
  /\ Fixed /\ UNCHANGED <<space, bindings, stored>>
  /\ \/ /\ gates' = [gates EXCEPT ![call[c].gate] = [status |-> "open", count |-> 0]]
        /\ Return(c)
     \/ gates' = gates /\ Throw(c)

\* closeHumanGate and closeGateAndResume; only a resolved gate counts.
CloseGate(c, g, to) ==
  /\ Begin(c, [Idle EXCEPT !.op = "close", !.gate = g, !.to = to,
                 !.pc = IF to = "resolved" THEN "count" ELSE "close"])
  /\ UNCHANGED started
MarkResumed(c, g) ==
  Begin(c, [Idle EXCEPT !.pc = "count", !.op = "mark", !.gate = g]) /\ UNCHANGED started

Count(c) ==
  /\ At(c, "count")
  /\ \E n \in {gates[call[c].gate].count, 0} :
       Set(c, [call[c] EXCEPT !.count = n, !.pc = call[c].op])
  /\ Fixed /\ UNCHANGED rows

\* Only an open gate is closed; its row gives the caller the continuation.
BadClosable(g) == gates[g].status # "absent"
Closable(g)    == Open(g)
Close(c) ==
  LET k == call[c]
  IN  /\ At(c, "close") /\ Fixed /\ UNCHANGED <<space, bindings, stored>>
      /\ \/ /\ Closable(k.gate)
            /\ gates' = [gates EXCEPT ![k.gate] =
                 [status |-> k.to, count |-> IF k.to = "resolved" THEN k.count + 1 ELSE @.count]]
            /\ Return(c)
         \/ gates' = gates /\ Throw(c)

Mark(c) ==
  LET g == call[c].gate
  IN  /\ At(c, "mark") /\ Fixed /\ UNCHANGED <<space, bindings, stored>>
      /\ \/ /\ gates' = IF gates[g].status = "absent" THEN gates
                        ELSE [gates EXCEPT ![g].count = call[c].count + 1]
            /\ Return(c)
         \/ gates' = gates /\ Throw(c)

-----------------------------------------------------------------------------
(* The propagation of the project's secrets, and its run's row. *)

Started == Cardinality({c \in Calls : started[c] # 0})
Propagate(c) ==
  /\ Started < MaxRuns
  /\ Begin(c, [Idle EXCEPT !.pc = "insert", !.op = "propagate"])
  /\ started' = [started EXCEPT ![c] = Started + 1]

\* A row that cannot be written is logged and forgotten; one that is missing
\* is not made by the update at the end.
Store(c, status) ==
  /\ \/ stored' = stored
     \/ /\ stored[c] # "absent" \/ At(c, "insert")
        /\ stored' = [stored EXCEPT ![c] = status]
  /\ UNCHANGED <<space, bindings, gates>>
NextStep(done) == IF done = Len(Plan) THEN "finish" ELSE "write"

Insert(c) ==
  /\ At(c, "insert") /\ Store(c, "running")
  /\ Set(c, [call[c] EXCEPT !.pc = NextStep(0)])
  /\ Fixed

\* A writer that throws has failed, with the verification that was planned
\* with some earlier ledger.
Write(c) ==
  LET n    == Len(call[c].results) + 1
      step == Plan[n]
      thrown == {Did(Failure(Planned(step.sink, entry)), FALSE) :
                   entry \in {old[step.sink] : old \in Ledgers}}
  IN  /\ At(c, "write")
      /\ \E did \in Outcomes(step, live) \cup thrown :
           Set(c, [call[c] EXCEPT !.pc = "judge", !.report = did.report,
                     !.failure = @ \/ did.report.result = "failed",
                     !.changed = IF did.changed THEN @ \cup {n} ELSE @])
      /\ Fixed /\ UNCHANGED rows

\* The columns of a step's row that anything depends on: verification_result
\* and whether wrote_at has a time.
RowOf(report) == [result |-> report.result, wrote |-> report.wrote]
\* The ledger is read after the writer's answer, and the step's row is kept.
Judge(c) ==
  LET k    == call[c]
      n    == Len(k.results) + 1
      sink == Plan[n].sink
  IN  /\ At(c, "judge")
      /\ Set(c, [k EXCEPT !.pc = NextStep(n), !.report = NoReport,
                   !.results = Append(@, RowOf(Judged(sink, ledger[sink], k.report)))])
      /\ Fixed /\ UNCHANGED rows

\* dry_run decides nothing but the status of a run without a failure.
Final(results, dry) ==
  IF \E n \in DOMAIN results : results[n].result = "failed" THEN "failed"
  ELSE IF dry THEN "verify_pending" ELSE "succeeded"
Finish(c) ==
  /\ At(c, "finish")
  /\ \E dry \in BOOLEAN :
       LET status == Final(call[c].results, dry)
       IN  /\ Store(c, status)
           /\ Set(c, [Over(call[c], "returned") EXCEPT !.told = status, !.failure = call[c].failure])
  /\ Fixed

-----------------------------------------------------------------------------
(* Whether the project can be delivered: three reads, in any order. *)

\* What should keep a project from being called ready.
Newest(c) == stored[c] # "absent" /\ \A d \in Calls : stored[d] # "absent" => started[d] <= started[c]
Concerns  == {g \in Gates : Open(g)} \cup {c \in Calls : stored[c] = "failed" /\ Newest(c)}

Ready(c) ==
  /\ Begin(c, [Idle EXCEPT !.pc = "reads", !.op = "ready", !.left = {"graph", "gates", "runs"},
                 !.before = Concerns])
  /\ UNCHANGED started

BadListed(c) ==
  /\ stored[c] # "absent"
  /\ Cardinality({d \in Calls : stored[d] # "absent" /\ started[d] < started[c]}) < RecentLimit
Listed(c) ==
  /\ stored[c] # "absent"
  /\ Cardinality({d \in Calls : stored[d] # "absent" /\ started[d] > started[c]}) < RecentLimit

\* What a read brings: that there is data, an open gate, a failed run.
Finds(part) ==
  CASE part = "graph" -> IF space \/ bindings THEN {"data"} ELSE {}
    [] part = "gates" -> IF \E g \in Gates : Open(g) THEN {"open_gate"} ELSE {}
    [] OTHER -> {"run" : c \in {d \in Calls : Listed(d)}}
                \cup {"failed" : c \in {d \in Calls : Listed(d) /\ stored[d] = "failed"}}

\* No data, no gate and no run give no verdict; missing_binding cannot arise,
\* because the loader passes no requirements.
Verdict(found) == IF found = {} THEN "null"
                  ELSE IF "open_gate" \in found THEN "open_gate"
                  ELSE IF "failed" \in found THEN "propagation_failed" ELSE "ready"

\* A read that fails brings nothing.
Read(c, part) ==
  LET k == call[c]
  IN  /\ At(c, "reads") /\ part \in k.left
      /\ \E ok \in BOOLEAN :
           LET found == IF ok THEN k.found \cup Finds(part) ELSE k.found
               last  == k.left = {part}
           IN  Set(c, IF last
                      THEN [Over(k, "returned") EXCEPT !.told = Verdict(found),
                              !.clean = k.clean /\ ok, !.missed = k.before \cap Concerns]
                      ELSE [k EXCEPT !.left = @ \ {part}, !.found = found, !.clean = @ /\ ok])
      /\ Fixed /\ UNCHANGED rows

-----------------------------------------------------------------------------
\* The operator records, dates or withdraws the sinks' qualifications.
Qualify ==
  /\ ledger' \in Ledgers \ {ledger}
  /\ UNCHANGED <<live, rows, started, call>>

\* A restart loses the calls under way; the database stays.
Crash ==
  /\ \E c \in Calls : call[c].pc \notin Ended
  /\ call' = [c \in Calls |-> IF call[c].pc \in Ended THEN call[c]
                              ELSE Over(call[c], "lost")]
  /\ UNCHANGED <<live, ledger, rows, started>>

Next ==
  \/ \E c \in Calls :
       \/ Bind(c) \/ \E g \in Gates : OpenGate(c, g)
       \/ \E g \in Gates : \/ MarkResumed(c, g)
                           \/ \E to \in {"resolved", "abandoned"} : CloseGate(c, g, to)
       \/ Propagate(c)
       \/ Ready(c) \/ \E part \in {"graph", "gates", "runs"} : Read(c, part)
       \/ GetSpace(c) \/ Upsert(c) \/ RecordBinding(c) \/ RecordGate(c)
       \/ Count(c) \/ Close(c) \/ Mark(c)
       \/ Insert(c) \/ Write(c) \/ Judge(c) \/ Finish(c)
  \/ Qualify \/ Crash

Spec == Init /\ [][Next]_vars

-----------------------------------------------------------------------------
(* Properties *)

Status == {"absent", "running", "succeeded", "verify_pending", "failed"}
Pc     == Ended \cup {"space", "upsert", "record", "count", "close", "mark", "insert", "write",
                     "judge", "finish", "reads"}
Call ==
  [pc : Pc, op : {"none", "bind", "open", "close", "mark", "propagate", "ready"},
   gate : Gates \cup {NoGate}, to : {"open", "resolved", "abandoned"}, count : Nat,
   results : Seq([result : {"ok", "failed", "not_applicable"}, wrote : BOOLEAN]), report : Reports \cup {NoReport},
   changed : SUBSET (DOMAIN Plan), failure : BOOLEAN,
   told : Status \cup {"none", "null", "open_gate", "propagation_failed", "ready"},
   left : SUBSET {"graph", "gates", "runs"}, found : SUBSET {"data", "open_gate", "run", "failed"},
   clean : BOOLEAN, before : SUBSET (Gates \cup Calls), missed : SUBSET (Gates \cup Calls)]

\* The type invariant: every row and every local of a call has its shape, and
\* a run's report names only statuses and verdicts that the code can return.
TypeOK ==
  /\ live \in BOOLEAN /\ ledger \in Ledgers
  /\ space \in BOOLEAN /\ bindings \in BOOLEAN
  /\ gates \in [Gates -> [status : {"absent", "open", "resolved", "abandoned"}, count : Nat]]
  /\ stored \in [Calls -> Status] /\ started \in [Calls -> Nat]
  /\ call \in [Calls -> Call]

\* However many closers of a gate overlap between the reading of its count and
\* the writing of its row, at most one is given the continuation to resume.
ContinuedOnce ==
  \A a, b \in Calls :
    (/\ call[a].op = "close" /\ call[b].op = "close" /\ call[a].gate = call[b].gate
     /\ call[a].pc = "returned" /\ call[b].pc = "returned") => a = b

\* A propagation is called succeeded, or a dry run verify_pending, only when no
\* writer has failed: the engine's later judgement, with a ledger that changes
\* meanwhile, hides no failure of an earlier step.
NoFailureHidden ==
  \A c \in Calls : call[c].told \in {"succeeded", "verify_pending"} => ~call[c].failure

\* A step that is reported as written was written: sinks whose writers only
\* look or ping, and report that as a live write, never get a time of writing.
WroteAtIsTrue ==
  \A c \in Calls : \A n \in DOMAIN call[c].results :
    call[c].results[n].wrote => n \in call[c].changed

\* When its three reads succeed, a verdict of ready overlooks no gate that was
\* open, and no failure of the newest run, before and after all of them.
ReadyIsHonest ==
  \A c \in Calls : call[c].told = "ready" /\ call[c].clean => call[c].missed = {}

\* A sink is changed only while the ledger allows live writes to it, as the
\* comment of the engine and the operators' instructions have it.
QualifiedBeforeWrite ==
  [][\A c \in Calls : \A n \in call'[c].changed \ call[c].changed :
       LiveWriteAllowed(Plan[n].sink, ledger[Plan[n].sink])]_vars
=============================================================================
