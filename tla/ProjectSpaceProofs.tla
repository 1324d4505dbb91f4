--------------------------- MODULE ProjectSpaceProofs ---------------------------
(***************************************************************************)
(* What ProjectSpace keeps for every set of calls and gates, every plan    *)
(* and every ledger: its types, one continuation per gate, no hidden       *)
(* failure of a writer, true times of writing, and a verdict of ready that *)
(* overlooks nothing.                                                      *)
(***************************************************************************)
EXTENDS ProjectSpace, FiniteSetTheorems, TLAPS

-----------------------------------------------------------------------------
(* What a writer may report, and what the engine makes of it. *)

LEMMA ModesTyped == \A s \in Sink : Modes(s) \subseteq Kind /\ Modes(s) # {}
BY DEF Sink, Modes, Kind, Writable

LEMMA PlannedTyped ==
  ASSUME NEW s \in Sink, NEW entry PROVE Planned(s, entry) \in Kind
<1> DEFINE best == CHOOSE kind \in Modes(s) :
                     \A other \in Modes(s) : Strength(other) <= Strength(kind)
<1>1. best \in Modes(s)
  <2>1. \E kind \in Modes(s) : \A other \in Modes(s) : Strength(other) <= Strength(kind)
    <3>1. CASE s \in Writable
      <4>1. Modes(s) = {"existence_only", "smoke", "none"}  BY <3>1 DEF Modes, Writable
      <4>2. \A other \in Modes(s) : Strength(other) <= Strength("existence_only")
        BY <4>1 DEF Strength
      <4> QED  BY <4>1, <4>2
    <3>2. CASE s \in {"railway", "supabase"}
      <4>1. Modes(s) = {"smoke", "none"}  BY <3>2 DEF Modes, Writable
      <4>2. \A other \in Modes(s) : Strength(other) <= Strength("smoke")
        BY <4>1 DEF Strength
      <4> QED  BY <4>1, <4>2
    <3>3. CASE s = "unknown"
      <4>1. Modes(s) = {"none"}  BY <3>3 DEF Modes, Writable
      <4>2. \A other \in Modes(s) : Strength(other) <= Strength("none")
        BY <4>1 DEF Strength
      <4> QED  BY <4>1, <4>2
    <3> QED  BY <3>1, <3>2, <3>3 DEF Sink, Writable
  <2> QED  BY <2>1
<1>2. MaxAllowed(s, entry) \in Kind
  <2> HIDE DEF best
  <2>1. best \in Kind  BY <1>1, ModesTyped
  <2>2. MaxAllowed(s, entry) \in {best, "smoke", "none"}  BY DEF MaxAllowed, best
  <2> QED  BY <2>1, <2>2 DEF Kind
<1> QED  BY <1>2 DEF Planned, Kind

\* A report is of a live write exactly when it has a time of writing; a failed
\* one never is.
Truthful(report) ==
  /\ report \in Reports
  /\ report.wrote = report.live
  /\ report.result = "failed" => ~report.live

\* Of a writable sink, a live write has changed it.
Real(did, sink) ==
  /\ Truthful(did.report) /\ did.changed \in BOOLEAN
  /\ did.report.live /\ sink \in Writable => did.changed

LEMMA OutcomesReal ==
  ASSUME NEW step, NEW s \in Sink, step.sink = s, NEW on \in BOOLEAN,
         NEW did \in Outcomes(step, on)
  PROVE  Real(did, s)
<1>1. did \in {Did(NoWriter, FALSE), Did(Smoke, FALSE)} \cup Ping \cup LookUp \cup PutSecret
  BY DEF Outcomes
<1>2. did \in Ping \cup LookUp => s \notin Writable
  <2>1. CASE s \in Writable
    <3>1. Outcomes(step, on) \in {PutSecret, {Did(Smoke, FALSE)}}
      BY <2>1 DEF Outcomes, Writable
    <3>2. \A x \in PutSecret \cup {Did(Smoke, FALSE)} : x \notin Ping \cup LookUp
      BY DEF PutSecret, Smoke, Ping, LookUp, Did, Report, Failure
    <3> QED  BY <3>1, <3>2
  <2> QED  BY <2>1
<1>3. Real(Did(NoWriter, FALSE), s) /\ Real(Did(Smoke, FALSE), s)
  BY DEF Real, Did, Truthful, NoWriter, Smoke, Report, Reports, Kind
<1>4. \A kind \in Kind : Real(Did(Failure(kind), FALSE), s) /\ Real(Did(Failure(kind), TRUE), s)
  BY DEF Real, Did, Truthful, Failure, Report, Reports
<1>5. \A kind \in Kind : Real(Did(Report(kind, "ok", TRUE), TRUE), s)
  BY DEF Real, Did, Truthful, Report, Reports
<1>6. \A kind \in Kind : s \notin Writable => Real(Did(Report(kind, "ok", TRUE), FALSE), s)
  BY DEF Real, Did, Truthful, Report, Reports
<1>7. {"smoke", "existence_only", "read_back"} \subseteq Kind  BY DEF Kind
<1>8. CASE did \in Ping
  BY <1>2, <1>4, <1>6, <1>7, <1>8 DEF Ping
<1>9. CASE did \in LookUp
  BY <1>2, <1>4, <1>6, <1>7, <1>9 DEF LookUp
<1>10. CASE did \in PutSecret
  BY <1>4, <1>5, <1>7, <1>10 DEF PutSecret
<1> QED  BY <1>1, <1>3, <1>8, <1>9, <1>10

LEMMA ThrownReal ==
  ASSUME NEW s \in Sink, NEW kind \in Kind
  PROVE  Real(Did(Failure(kind), FALSE), s)
BY DEF Real, Truthful, Did, Report, Failure, Reports

\* The judgement keeps a failure, and a time of writing only where the sink is
\* writable and was written to.
LEMMA JudgedTruthful ==
  ASSUME NEW s \in Sink, NEW entry, NEW r, Truthful(r)
  PROVE  /\ Judged(s, entry, r) \in Reports
         /\ r.result = "failed" => Judged(s, entry, r).result = "failed"
         /\ Judged(s, entry, r).wrote => r.live /\ s \in Writable
<1>1. CASE r.live /\ ~LiveWriteAllowed(s, entry)
  BY <1>1 DEF Judged, Truthful, Reports, Kind
<1>2. CASE ~(r.live /\ ~LiveWriteAllowed(s, entry))
  <2>1. r.live => s \in Writable  BY <1>2 DEF LiveWriteAllowed
  <2>2. r.wrote => r.live /\ s \in Writable  BY <2>1 DEF Truthful
  <2>3. Judged(s, entry, r) \in {r, [r EXCEPT !.kind = "none", !.result = "failed"]}
    BY <1>2 DEF Judged
  <2>4. [r EXCEPT !.kind = "none", !.result = "failed"] \in Reports
    BY DEF Truthful, Reports, Kind
  <2>5. [r EXCEPT !.kind = "none", !.result = "failed"].result = "failed"
        /\ [r EXCEPT !.kind = "none", !.result = "failed"].wrote = r.wrote
    BY DEF Truthful, Reports
  <2> QED  BY <2>2, <2>3, <2>4, <2>5 DEF Truthful
<1> QED  BY <1>1, <1>2

-----------------------------------------------------------------------------
(* The inductive invariant: what holds of the locals of each call, and what *)
(* the gates' rows have to do with the calls that open and close them.      *)

Rows == [result : {"ok", "failed", "not_applicable"}, wrote : BOOLEAN]
HasFailed(results) == \E n \in DOMAIN results : results[n].result = "failed"

GateFits(k) ==
  /\ k.op \in {"open", "close", "mark"} => k.gate \in Gates
  /\ k.pc = "count" => k.op \in {"close", "mark"}
  /\ k.pc = "close" => k.op = "close"
  /\ k.pc \in {"count", "close"} /\ k.op = "close" => k.to \in {"resolved", "abandoned"}
  /\ k.pc = "mark" => k.op = "mark"
  /\ k.op = "close" => k.pc \in {"count", "close", "returned", "lost"}

\* The step under way is one of the plan, and its report is a true one.
StepFits(k) ==
  /\ k.pc = "insert" => k.results = <<>>
  /\ k.pc \in {"write", "judge"} => Len(k.results) < Len(Plan)
  /\ k.pc = "judge" =>
       /\ Truthful(k.report)
       /\ (k.report.live /\ Plan[Len(k.results) + 1].sink \in Writable)
            => Len(k.results) + 1 \in k.changed

\* Times of writing are true, and a failure has a failed row, or will have.
RowsFit(k) ==
  /\ \A n \in DOMAIN k.results : k.results[n].wrote => n \in k.changed
  /\ k.failure => \/ HasFailed(k.results)
                  \/ k.pc = "judge" /\ k.report.result = "failed"
                  \/ k.pc = "returned" /\ k.told = "failed"
  /\ k.told \in {"succeeded", "verify_pending"} => k.pc = "returned"
  /\ k.pc = "returned" => k.results = <<>>

LocalInv(k) == k \in Call /\ GateFits(k) /\ StepFits(k) /\ RowsFit(k)

Opening == {"space", "upsert", "record"}
GateInv ==
  /\ \A a, b \in Calls :
       (call[a].op = "open" /\ call[b].op = "open" /\ call[a].gate = call[b].gate) => a = b
  /\ \A a \in Calls : (call[a].op = "open" /\ call[a].pc \in Opening)
       => gates[call[a].gate].status = "absent"
  /\ \A a \in Calls : (call[a].op = "close" /\ call[a].pc = "returned")
       => gates[call[a].gate].status \notin {"absent", "open"}

Types ==
  /\ live \in BOOLEAN /\ ledger \in Ledgers /\ space \in BOOLEAN /\ bindings \in BOOLEAN
  /\ gates \in [Gates -> [status : {"absent", "open", "resolved", "abandoned"}, count : Nat]]
  /\ stored \in [Calls -> Status] /\ started \in [Calls -> Nat]
Locals == call \in [Calls -> Call] /\ \A c \in Calls : LocalInv(call[c])

Inv == Types /\ Locals /\ GateInv /\ ContinuedOnce

LEMMA InvGivesTypeOK == Inv => TypeOK
BY DEF Inv, Types, Locals, TypeOK

LEMMA InvGivesNoFailureHidden == Inv => NoFailureHidden
<1> SUFFICES ASSUME Inv, NEW c \in Calls, call[c].told \in {"succeeded", "verify_pending"}
             PROVE  ~call[c].failure
  BY DEF NoFailureHidden
<1>1. RowsFit(call[c])  BY DEF Inv, Locals, LocalInv
<1>2. call[c].pc = "returned" /\ call[c].results = <<>>  BY <1>1 DEF RowsFit
<1>3. ~HasFailed(call[c].results)  BY <1>2 DEF HasFailed
<1> QED  BY <1>1, <1>2, <1>3 DEF RowsFit

LEMMA InvGivesWroteAtIsTrue == Inv => WroteAtIsTrue
BY DEF Inv, Locals, LocalInv, RowsFit, WroteAtIsTrue

-----------------------------------------------------------------------------
(* The locals of a call that begins, and of one that is over. *)

LEMMA IdleFits == LocalInv(Idle)
<1>1. Idle \in Call
  <2>1. <<>> \in Seq([result : {"ok", "failed", "not_applicable"}, wrote : BOOLEAN])  OBVIOUS
  <2> QED  BY <2>1 DEF Idle, Call, Pc, Ended
<1>2. GateFits(Idle) /\ StepFits(Idle) /\ RowsFit(Idle)
  BY DEF Idle, GateFits, StepFits, RowsFit
<1> QED  BY <1>1, <1>2 DEF LocalInv

LEMMA OverFits ==
  ASSUME NEW k, LocalInv(k), NEW pc \in {"returned", "lost"}
  PROVE  /\ LocalInv(Over(k, pc))
         /\ Over(k, pc).op = k.op /\ Over(k, pc).gate = k.gate /\ Over(k, pc).pc = pc
<1>1. k.op \in {"none", "bind", "open", "close", "mark", "propagate", "ready"}
      /\ k.gate \in Gates \cup {NoGate}
  BY DEF LocalInv, Call
<1>2. Over(k, pc).op = k.op /\ Over(k, pc).gate = k.gate /\ Over(k, pc).pc = pc
      /\ Over(k, pc).failure = FALSE /\ Over(k, pc).told = "none" /\ Over(k, pc).results = <<>>
  BY DEF Over, Idle
<1>3. Over(k, pc) \in Call
  <2>1. Idle \in Call /\ pc \in Pc  BY IdleFits DEF LocalInv, Pc, Ended
  <2>2. [Idle EXCEPT !.pc = pc, !.op = k.op, !.gate = k.gate] \in Call
    BY <1>1, <2>1 DEF Call
  <2> QED  BY <2>2 DEF Over
<1>4. GateFits(Over(k, pc))  BY <1>2 DEF LocalInv, GateFits
<1>5. StepFits(Over(k, pc)) /\ RowsFit(Over(k, pc))  BY <1>2 DEF StepFits, RowsFit
<1> QED  BY <1>2, <1>3, <1>4, <1>5 DEF LocalInv

\* A step of one call that leaves the gates' rows as they are, keeps its
\* operation and gate, and returns from no close.
LEMMA CallKeeps ==
  ASSUME Inv, NEW c \in Calls, NEW x, Set(c, x), UNCHANGED gates, LocalInv(x),
         x.op = call[c].op, x.gate = call[c].gate,
         x.op = "open" /\ x.pc \in Opening => call[c].pc \in Opening,
         x.op = "close" => x.pc # "returned"
  PROVE  Locals' /\ GateInv' /\ ContinuedOnce'
<1>1. call \in [Calls -> Call]  BY DEF Inv, Locals
<1>2. /\ call' = [call EXCEPT ![c] = x]
      /\ call'[c] = x /\ \A k \in Calls : k # c => call'[k] = call[k]
  BY <1>1 DEF Set
<1>3. x \in Call  BY DEF LocalInv
<1>4. Locals'  BY <1>1, <1>2, <1>3 DEF Inv, Locals
<1>5. GateInv'  BY <1>2 DEF Inv, GateInv
<1>6. ContinuedOnce'  BY <1>2 DEF Inv, ContinuedOnce
<1> QED  BY <1>4, <1>5, <1>6

\* A call that begins; one that opens a gate has a gate of its own.
LEMMA BeginKeeps ==
  ASSUME Inv, NEW c \in Calls, NEW x, Begin(c, x), LocalInv(x), x.pc # "returned",
         x.op = "open" => /\ gates[x.gate].status = "absent"
                          /\ \A k \in Calls : call[k].op = "open" => call[k].gate # x.gate
  PROVE  Locals' /\ GateInv' /\ ContinuedOnce'
<1>1. call \in [Calls -> Call]  BY DEF Inv, Locals
<1>2. /\ call' = [call EXCEPT ![c] = x] /\ UNCHANGED gates
      /\ call'[c] = x /\ \A k \in Calls : k # c => call'[k] = call[k]
  BY <1>1 DEF Begin, Set, rows
<1>3. x \in Call  BY DEF LocalInv
<1>4. Locals'  BY <1>1, <1>2, <1>3 DEF Inv, Locals
<1>5. GateInv'  BY <1>2 DEF Inv, GateInv
<1>6. ContinuedOnce'  BY <1>2 DEF Inv, ContinuedOnce
<1> QED  BY <1>4, <1>5, <1>6

LEMMA BindKeeps == ASSUME Inv, NEW c \in Calls, Bind(c) PROVE Inv'
<1> DEFINE x == [Idle EXCEPT !.pc = "space", !.op = "bind"]
<1>1. Begin(c, x) /\ UNCHANGED started  BY DEF Bind
<1>2. x \in Call  BY IdleFits DEF LocalInv, Call, Pc
<1>3. GateFits(x) /\ StepFits(x) /\ RowsFit(x) /\ x.pc = "space" /\ x.op = "bind"
  BY DEF Idle, GateFits, StepFits, RowsFit
<1> HIDE DEF x
<1>4. Locals' /\ GateInv' /\ ContinuedOnce'  BY <1>1, <1>2, <1>3, BeginKeeps DEF LocalInv
<1>5. Types'  BY <1>1 DEF Inv, Types, Begin, rows
<1> QED  BY <1>4, <1>5 DEF Inv

LEMMA OpenGateKeeps == ASSUME Inv, NEW c \in Calls, NEW g \in Gates, OpenGate(c, g) PROVE Inv'
<1> DEFINE x == [Idle EXCEPT !.pc = "space", !.op = "open", !.gate = g]
<1>1. Begin(c, x) /\ UNCHANGED started  BY DEF OpenGate
<1>2. x \in Call  BY IdleFits DEF LocalInv, Call, Pc
<1>3. GateFits(x) /\ StepFits(x) /\ RowsFit(x) /\ x.pc = "space" /\ x.op = "open" /\ x.gate = g
  BY DEF Idle, GateFits, StepFits, RowsFit
<1> HIDE DEF x
<1>4. Locals' /\ GateInv' /\ ContinuedOnce'
  BY <1>1, <1>2, <1>3, BeginKeeps DEF LocalInv, OpenGate
<1>5. Types'  BY <1>1 DEF Inv, Types, Begin, rows
<1> QED  BY <1>4, <1>5 DEF Inv

LEMMA CloseGateKeeps ==
  ASSUME Inv, NEW c \in Calls, NEW g \in Gates, NEW to \in {"resolved", "abandoned"},
         CloseGate(c, g, to)
  PROVE  Inv'
<1> DEFINE pc == IF to = "resolved" THEN "count" ELSE "close"
           x  == [Idle EXCEPT !.op = "close", !.gate = g, !.to = to, !.pc = pc]
<1>1. Begin(c, x) /\ UNCHANGED started  BY DEF CloseGate
<1>2. x \in Call
  <2>1. pc \in Pc /\ Idle \in Call  BY IdleFits DEF Pc, LocalInv
  <2> HIDE DEF pc
  <2> QED  BY <2>1 DEF Call
<1>3. GateFits(x) /\ StepFits(x) /\ RowsFit(x) /\ x.pc # "returned" /\ x.op = "close"
  BY DEF Idle, GateFits, StepFits, RowsFit
<1> HIDE DEF x
<1>4. Locals' /\ GateInv' /\ ContinuedOnce'  BY <1>1, <1>2, <1>3, BeginKeeps DEF LocalInv
<1>5. Types'  BY <1>1 DEF Inv, Types, Begin, rows
<1> QED  BY <1>4, <1>5 DEF Inv

LEMMA MarkResumedKeeps ==
  ASSUME Inv, NEW c \in Calls, NEW g \in Gates, MarkResumed(c, g) PROVE Inv'
<1> DEFINE x == [Idle EXCEPT !.pc = "count", !.op = "mark", !.gate = g]
<1>1. Begin(c, x) /\ UNCHANGED started  BY DEF MarkResumed
<1>2. x \in Call  BY IdleFits DEF LocalInv, Call, Pc
<1>3. GateFits(x) /\ StepFits(x) /\ RowsFit(x) /\ x.pc # "returned" /\ x.op = "mark"
  BY DEF Idle, GateFits, StepFits, RowsFit
<1> HIDE DEF x
<1>4. Locals' /\ GateInv' /\ ContinuedOnce'  BY <1>1, <1>2, <1>3, BeginKeeps DEF LocalInv
<1>5. Types'  BY <1>1 DEF Inv, Types, Begin, rows
<1> QED  BY <1>4, <1>5 DEF Inv

LEMMA StartedTyped == Started \in Nat
<1>1. IsFiniteSet({c \in Calls : started[c] # 0})
  BY ProjectSpaceAssumption, FS_Subset
<1> QED  BY <1>1, FS_CardinalityType DEF Started

LEMMA PropagateKeeps == ASSUME Inv, NEW c \in Calls, Propagate(c) PROVE Inv'
<1> DEFINE x == [Idle EXCEPT !.pc = "insert", !.op = "propagate"]
<1>1. Begin(c, x) /\ started' = [started EXCEPT ![c] = Started + 1]  BY DEF Propagate
<1>2. x \in Call  BY IdleFits DEF LocalInv, Call, Pc
<1>3. GateFits(x) /\ StepFits(x) /\ RowsFit(x) /\ x.pc # "returned" /\ x.op = "propagate"
  BY DEF Idle, GateFits, StepFits, RowsFit
<1> HIDE DEF x
<1>4. Locals' /\ GateInv' /\ ContinuedOnce'  BY <1>1, <1>2, <1>3, BeginKeeps DEF LocalInv
<1>5. Types'  BY <1>1, StartedTyped DEF Inv, Types, Begin, rows
<1> QED  BY <1>4, <1>5 DEF Inv

LEMMA ConcernsTyped == Concerns \subseteq Gates \cup Calls
BY DEF Concerns

LEMMA ReadyKeeps == ASSUME Inv, NEW c \in Calls, Ready(c) PROVE Inv'
<1> DEFINE x == [Idle EXCEPT !.pc = "reads", !.op = "ready", !.left = {"graph", "gates", "runs"},
                   !.before = Concerns]
<1>1. Begin(c, x) /\ UNCHANGED started  BY DEF Ready
<1>2. x \in Call  BY IdleFits, ConcernsTyped DEF LocalInv, Call, Pc
<1>3. GateFits(x) /\ StepFits(x) /\ RowsFit(x) /\ x.pc # "returned" /\ x.op = "ready"
  BY DEF Idle, GateFits, StepFits, RowsFit
<1> HIDE DEF x
<1>4. Locals' /\ GateInv' /\ ContinuedOnce'  BY <1>1, <1>2, <1>3, BeginKeeps DEF LocalInv
<1>5. Types'  BY <1>1 DEF Inv, Types, Begin, rows
<1> QED  BY <1>4, <1>5 DEF Inv

-----------------------------------------------------------------------------
(* The steps of the calls on bindings and gates. *)

\* A call that throws.
LEMMA ThrowKeeps ==
  ASSUME Inv, NEW c \in Calls, Throw(c), UNCHANGED gates PROVE Locals' /\ GateInv' /\ ContinuedOnce'
<1>1. LocalInv(call[c])  BY DEF Inv, Locals
<1> DEFINE x == Over(call[c], "lost")
<1>2. LocalInv(x) /\ x.op = call[c].op /\ x.gate = call[c].gate /\ x.pc = "lost"
  BY <1>1, OverFits
<1>3. Set(c, x)  BY DEF Throw
<1> HIDE DEF x
<1> QED  BY <1>2, <1>3, CallKeeps DEF Opening

LEMMA GetSpaceKeeps == ASSUME Inv, NEW c \in Calls, GetSpace(c) PROVE Inv'
<1> DEFINE k == call[c]
<1>1. LocalInv(k) /\ k.pc = "space"  BY DEF Inv, Locals, GetSpace, At
<1>2. PICK pc \in {"record", "upsert"} : Set(c, [k EXCEPT !.pc = pc])
  BY DEF GetSpace
<1> DEFINE x == [k EXCEPT !.pc = pc]
<1>3. LocalInv(x) /\ x.op = k.op /\ x.gate = k.gate
  <2>1. x \in Call  BY <1>1 DEF LocalInv, Call, Pc
  <2>2. GateFits(x) /\ StepFits(x)  BY <1>1 DEF LocalInv, Call, GateFits, StepFits
  <2>3. RowsFit(x)  BY <1>1 DEF LocalInv, Call, RowsFit, HasFailed
  <2> QED  BY <1>1, <2>1, <2>2, <2>3 DEF LocalInv, Call
<1>4. x.pc # "returned"  BY <1>1 DEF LocalInv, Call
<1>5. UNCHANGED <<live, ledger, started, rows>>  BY DEF GetSpace, Fixed
<1> HIDE DEF x
<1>6. Locals' /\ GateInv' /\ ContinuedOnce'
  BY <1>1, <1>2, <1>3, <1>4, <1>5, CallKeeps DEF Opening, rows, x
<1> QED  BY <1>5, <1>6 DEF Inv, Types, rows

LEMMA UpsertKeeps == ASSUME Inv, NEW c \in Calls, Upsert(c) PROVE Inv'
<1> DEFINE k == call[c]
           x == [k EXCEPT !.pc = "record"]
<1>1. LocalInv(k) /\ k.pc = "upsert"  BY DEF Inv, Locals, Upsert, At
<1>2. UNCHANGED <<live, ledger, started, bindings, gates, stored>> /\ space' \in BOOLEAN
  BY DEF Upsert, Fixed, Inv, Types
<1>3. LocalInv(x) /\ x.op = k.op /\ x.gate = k.gate /\ x.pc = "record"
  <2>1. x \in Call  BY <1>1 DEF LocalInv, Call, Pc
  <2>2. GateFits(x) /\ StepFits(x)  BY <1>1 DEF LocalInv, Call, GateFits, StepFits
  <2>3. RowsFit(x)  BY <1>1 DEF LocalInv, Call, RowsFit, HasFailed
  <2> QED  BY <1>1, <2>1, <2>2, <2>3 DEF LocalInv, Call
<1> HIDE DEF x
<1>4. CASE Set(c, x)
  BY <1>1, <1>2, <1>3, <1>4, CallKeeps DEF Opening, Inv, Types
<1>5. CASE Throw(c)
  BY <1>2, <1>5, ThrowKeeps DEF Inv, Types
<1> QED  BY <1>4, <1>5 DEF Upsert, x

LEMMA RecordBindingKeeps == ASSUME Inv, NEW c \in Calls, RecordBinding(c) PROVE Inv'
<1> DEFINE x == Over(call[c], "returned")
<1>1. LocalInv(call[c]) /\ call[c].op = "bind"  BY DEF Inv, Locals, RecordBinding
<1>2. UNCHANGED <<live, ledger, started, space, gates, stored>> /\ bindings' \in BOOLEAN
  BY DEF RecordBinding, Fixed, Inv, Types
<1>3. LocalInv(x) /\ x.op = "bind" /\ x.gate = call[c].gate  BY <1>1, OverFits
<1> HIDE DEF x
<1>4. CASE Set(c, x)
  BY <1>1, <1>2, <1>3, <1>4, CallKeeps DEF Opening, Inv, Types
<1>5. CASE Throw(c)
  BY <1>2, <1>5, ThrowKeeps DEF Inv, Types
<1> QED  BY <1>4, <1>5 DEF RecordBinding, Return, x

\* The gate's row is inserted: until then it is absent, and nobody else opens
\* it or has closed it.
LEMMA RecordGateKeeps == ASSUME Inv, NEW c \in Calls, RecordGate(c) PROVE Inv'
<1> DEFINE x == Over(call[c], "returned")
           g == call[c].gate
<1>1. /\ LocalInv(call[c]) /\ call[c].op = "open" /\ call[c].pc = "record"
      /\ g \in Gates /\ gates[g].status = "absent"
  BY DEF Inv, Locals, LocalInv, GateFits, GateInv, Opening, RecordGate, At
<1>2. UNCHANGED <<live, ledger, started, space, bindings, stored>>
  BY DEF RecordGate, Fixed
<1>3. LocalInv(x) /\ x.op = "open" /\ x.gate = g /\ x.pc = "returned"  BY <1>1, OverFits
<1> HIDE DEF x
<1>4. CASE gates' = [gates EXCEPT ![g] = [status |-> "open", count |-> 0]] /\ Set(c, x)
  <2>1. call \in [Calls -> Call] /\ x \in Call  BY <1>3 DEF Inv, Locals, LocalInv
  <2>2. /\ call' = [call EXCEPT ![c] = x]
        /\ call'[c] = x /\ \A k \in Calls : k # c => call'[k] = call[k]
    BY <1>4, <2>1 DEF Set
  <2>3. Locals'  BY <1>3, <2>1, <2>2 DEF Inv, Locals
  <2>4. Types'  BY <1>1, <1>2, <1>4 DEF Inv, Types
  <2>5. \A h \in Gates : h # g => gates'[h] = gates[h]  BY <1>1, <1>4 DEF Inv, Types
  <2>6. \A a \in Calls : call[a].op \in {"open", "close"} => call[a].gate \in Gates
    BY DEF Inv, Locals, LocalInv, GateFits
  <2>7. GateInv'
    <3>1. \A a \in Calls : a # c /\ call[a].op = "open" => call[a].gate # g
      BY <1>1 DEF Inv, GateInv
    <3>2. \A a \in Calls : call[a].op = "close" /\ call[a].pc = "returned" => call[a].gate # g
      BY <1>1 DEF Inv, GateInv
    <3>3. \A a, b \in Calls :
            (call'[a].op = "open" /\ call'[b].op = "open" /\ call'[a].gate = call'[b].gate) => a = b
      BY <1>1, <1>3, <2>2 DEF Inv, GateInv
    <3>4. \A a \in Calls : (call'[a].op = "open" /\ call'[a].pc \in Opening)
            => gates'[call'[a].gate].status = "absent"
      BY <1>3, <2>2, <2>5, <2>6, <3>1 DEF Inv, GateInv, Opening
    <3>5. \A a \in Calls : (call'[a].op = "close" /\ call'[a].pc = "returned")
            => gates'[call'[a].gate].status \notin {"absent", "open"}
      BY <1>3, <2>2, <2>5, <2>6, <3>2 DEF Inv, GateInv
    <3> QED  BY <3>3, <3>4, <3>5 DEF GateInv
  <2>8. ContinuedOnce'  BY <1>3, <2>2 DEF Inv, ContinuedOnce
  <2> QED  BY <2>3, <2>4, <2>7, <2>8 DEF Inv
<1>5. CASE gates' = gates /\ Throw(c)
  BY <1>2, <1>5, ThrowKeeps DEF Inv, Types
<1> QED  BY <1>4, <1>5 DEF RecordGate, Return, x

LEMMA CountKeeps == ASSUME Inv, NEW c \in Calls, Count(c) PROVE Inv'
<1> DEFINE k == call[c]
<1>1. LocalInv(k) /\ k.pc = "count" /\ k.gate \in Gates /\ k.op \in {"close", "mark"}
  BY DEF Inv, Locals, LocalInv, GateFits, Count, At
<1>2. PICK n \in Nat : Set(c, [k EXCEPT !.count = n, !.pc = k.op])
  BY <1>1 DEF Count, Inv, Types
<1> DEFINE x == [k EXCEPT !.count = n, !.pc = k.op]
<1>3. LocalInv(x) /\ x.op = k.op /\ x.gate = k.gate /\ x.pc = k.op
  <2>1. x \in Call  BY <1>1 DEF LocalInv, Call, Pc
  <2>2. GateFits(x) /\ StepFits(x)  BY <1>1 DEF LocalInv, Call, GateFits, StepFits
  <2>3. RowsFit(x)  BY <1>1 DEF LocalInv, Call, RowsFit, HasFailed
  <2> QED  BY <1>1, <2>1, <2>2, <2>3 DEF LocalInv, Call
<1>4. UNCHANGED <<live, ledger, started, rows>>  BY DEF Count, Fixed
<1> HIDE DEF x
<1>5. Locals' /\ GateInv' /\ ContinuedOnce'
  BY <1>1, <1>2, <1>3, <1>4, CallKeeps DEF Opening, rows, x
<1> QED  BY <1>4, <1>5 DEF Inv, Types, rows

\* Only an open gate is closed, and then nobody has closed it before.
LEMMA CloseKeeps == ASSUME Inv, NEW c \in Calls, Close(c) PROVE Inv'
<1> DEFINE k == call[c]
           g == k.gate
           x == Over(k, "returned")
           n == IF k.to = "resolved" THEN k.count + 1 ELSE gates[g].count
<1>1. /\ LocalInv(k) /\ k.pc = "close" /\ k.op = "close" /\ g \in Gates
      /\ k.to \in {"resolved", "abandoned"} /\ k.count \in Nat
  BY DEF Inv, Locals, LocalInv, GateFits, Close, At, Call
<1>2. UNCHANGED <<live, ledger, started, space, bindings, stored>>
  BY DEF Close, Fixed
<1>3. LocalInv(x) /\ x.op = "close" /\ x.gate = g /\ x.pc = "returned"  BY <1>1, OverFits
<1>4. n \in Nat  BY <1>1 DEF Inv, Types
<1> HIDE DEF x, n
<1>5. CASE /\ gates[g].status = "open" /\ Set(c, x)
           /\ gates' = [gates EXCEPT ![g] = [status |-> k.to, count |-> n]]
  <2>1. call \in [Calls -> Call] /\ x \in Call  BY <1>3 DEF Inv, Locals, LocalInv
  <2>2. /\ call' = [call EXCEPT ![c] = x]
        /\ call'[c] = x /\ \A b \in Calls : b # c => call'[b] = call[b]
    BY <1>5, <2>1 DEF Set
  <2>3. Locals'  BY <1>3, <2>1, <2>2 DEF Inv, Locals
  <2>4. gates \in [Gates -> [status : {"absent", "open", "resolved", "abandoned"}, count : Nat]]
    BY DEF Inv, Types
  <2>5. /\ gates' \in [Gates -> [status : {"absent", "open", "resolved", "abandoned"}, count : Nat]]
        /\ gates'[g].status = k.to /\ \A h \in Gates : h # g => gates'[h] = gates[h]
    BY <1>1, <1>4, <1>5, <2>4
  <2>6. Types'  BY <1>2, <2>5 DEF Inv, Types
  <2>7. \A a \in Calls : call[a].op \in {"open", "close"} => call[a].gate \in Gates
    BY DEF Inv, Locals, LocalInv, GateFits
  <2>8. \A a \in Calls : call[a].op = "open" /\ call[a].pc \in Opening => call[a].gate # g
    BY <1>5 DEF Inv, GateInv
  <2>9. \A a \in Calls : call[a].op = "close" /\ call[a].pc = "returned" => call[a].gate # g
    BY <1>5 DEF Inv, GateInv
  <2>10. GateInv'
    <3>1. \A a, b \in Calls :
            (call'[a].op = "open" /\ call'[b].op = "open" /\ call'[a].gate = call'[b].gate) => a = b
      BY <1>1, <1>3, <2>2 DEF Inv, GateInv
    <3>2. \A a \in Calls : (call'[a].op = "open" /\ call'[a].pc \in Opening)
            => gates'[call'[a].gate].status = "absent"
      BY <1>3, <2>2, <2>5, <2>7, <2>8 DEF Inv, GateInv
    <3>3. \A a \in Calls : (call'[a].op = "close" /\ call'[a].pc = "returned")
            => gates'[call'[a].gate].status \notin {"absent", "open"}
      BY <1>1, <1>3, <2>2, <2>5, <2>7, <2>9 DEF Inv, GateInv
    <3> QED  BY <3>1, <3>2, <3>3 DEF GateInv
  <2>11. ContinuedOnce'  BY <1>3, <2>2, <2>9 DEF Inv, ContinuedOnce
  <2> QED  BY <2>3, <2>6, <2>10, <2>11 DEF Inv
<1>6. CASE gates' = gates /\ Throw(c)
  BY <1>2, <1>6, ThrowKeeps DEF Inv, Types
<1> QED  BY <1>5, <1>6 DEF Close, Return, Closable, Open, x, n

\* Marking changes a count, of a gate that is there.
LEMMA MarkKeeps == ASSUME Inv, NEW c \in Calls, Mark(c) PROVE Inv'
<1> DEFINE k == call[c]
           g == k.gate
           x == Over(k, "returned")
           n == k.count + 1
<1>1. LocalInv(k) /\ k.op = "mark" /\ g \in Gates /\ n \in Nat
  BY DEF Inv, Locals, LocalInv, GateFits, Mark, At, Call
<1>2. UNCHANGED <<live, ledger, started, space, bindings, stored>>
  BY DEF Mark, Fixed
<1>3. LocalInv(x) /\ x.op = "mark" /\ x.gate = g /\ x.pc = "returned"  BY <1>1, OverFits
<1> HIDE DEF x, n
<1>4. CASE Set(c, x) /\ gates' \in {gates, [gates EXCEPT ![g].count = n]}
  <2>1. call \in [Calls -> Call] /\ x \in Call  BY <1>3 DEF Inv, Locals, LocalInv
  <2>2. /\ call' = [call EXCEPT ![c] = x]
        /\ call'[c] = x /\ \A b \in Calls : b # c => call'[b] = call[b]
    BY <1>4, <2>1 DEF Set
  <2>3. Locals'  BY <1>3, <2>1, <2>2 DEF Inv, Locals
  <2>4. gates \in [Gates -> [status : {"absent", "open", "resolved", "abandoned"}, count : Nat]]
    BY DEF Inv, Types
  <2>5. /\ gates' \in [Gates -> [status : {"absent", "open", "resolved", "abandoned"}, count : Nat]]
        /\ \A h \in Gates : gates'[h].status = gates[h].status
    BY <1>1, <1>4, <2>4
  <2>6. Types'  BY <1>2, <2>5 DEF Inv, Types
  <2>7. \A a \in Calls : call[a].op \in {"open", "close"} => call[a].gate \in Gates
    BY DEF Inv, Locals, LocalInv, GateFits
  <2>8. GateInv'
    <3>1. \A a, b \in Calls :
            (call'[a].op = "open" /\ call'[b].op = "open" /\ call'[a].gate = call'[b].gate) => a = b
      BY <1>1, <1>3, <2>2 DEF Inv, GateInv
    <3>2. \A a \in Calls : (call'[a].op = "open" /\ call'[a].pc \in Opening)
            => gates'[call'[a].gate].status = "absent"
      BY <1>3, <2>2, <2>5, <2>7 DEF Inv, GateInv
    <3>3. \A a \in Calls : (call'[a].op = "close" /\ call'[a].pc = "returned")
            => gates'[call'[a].gate].status \notin {"absent", "open"}
      BY <1>3, <2>2, <2>5, <2>7 DEF Inv, GateInv
    <3> QED  BY <3>1, <3>2, <3>3 DEF GateInv
  <2>9. ContinuedOnce'  BY <1>3, <2>2 DEF Inv, ContinuedOnce
  <2> QED  BY <2>3, <2>6, <2>8, <2>9 DEF Inv
<1>5. CASE gates' = gates /\ Throw(c)
  BY <1>2, <1>5, ThrowKeeps DEF Inv, Types
<1> QED  BY <1>4, <1>5 DEF Mark, Return, x, n

-----------------------------------------------------------------------------
(* The steps of a propagation. *)

LEMMA PlanTyped ==
  Len(Plan) \in Nat /\ DOMAIN Plan = 1..Len(Plan) /\ \A n \in 1..Len(Plan) : Plan[n].sink \in Sink
<1> DEFINE Step == [sink : Sink, mode : {"plain_readable", "write_only", "smoke_only"},
                   named : BOOLEAN]
<1>1. Plan \in Seq(Step)  BY ProjectSpaceAssumption
<1>2. \A step \in Step : step.sink \in Sink  OBVIOUS
<1> HIDE DEF Step
<1> QED  BY <1>1, <1>2

LEMMA StoreTyped ==
  ASSUME Inv, NEW c \in Calls, NEW status \in Status, Store(c, status)
  PROVE  stored' \in [Calls -> Status] /\ UNCHANGED <<space, bindings, gates>>
BY DEF Inv, Types, Store

LEMMA InsertKeeps == ASSUME Inv, NEW c \in Calls, Insert(c) PROVE Inv'
<1> DEFINE k  == call[c]
           pc == NextStep(0)
           x  == [k EXCEPT !.pc = pc]
<1>1. LocalInv(k) /\ k.pc = "insert" /\ k.results = <<>>
  BY DEF Inv, Locals, LocalInv, StepFits, Insert, At
<1>2. Set(c, x) /\ UNCHANGED <<live, ledger, started>> /\ Store(c, "running")
  BY DEF Insert, Fixed
<1>3. pc \in {"write", "finish"} /\ (pc = "write" => 0 < Len(Plan))
  BY PlanTyped DEF NextStep
<1> HIDE DEF pc
<1>4. /\ x \in Call /\ x.pc = pc /\ x.op = k.op /\ x.gate = k.gate /\ x.results = <<>>
      /\ x.failure = k.failure /\ x.told = k.told
  BY <1>1, <1>3 DEF LocalInv, Call, Pc
<1>5. LocalInv(x)
  <2>1. GateFits(x)  BY <1>1, <1>3, <1>4 DEF LocalInv, GateFits
  <2>2. StepFits(x)  BY <1>3, <1>4 DEF StepFits
  <2>3. RowsFit(x)  BY <1>1, <1>3, <1>4 DEF LocalInv, RowsFit, HasFailed
  <2> QED  BY <1>4, <2>1, <2>2, <2>3 DEF LocalInv
<1>6. stored' \in [Calls -> Status] /\ UNCHANGED <<space, bindings, gates>>
  BY <1>2, StoreTyped DEF Status
<1> HIDE DEF x
<1>7. Locals' /\ GateInv' /\ ContinuedOnce'
  BY <1>2, <1>3, <1>4, <1>5, <1>6, CallKeeps DEF Opening
<1> QED  BY <1>2, <1>6, <1>7 DEF Inv, Types

LEMMA WriteKeeps == ASSUME Inv, NEW c \in Calls, Write(c) PROVE Inv'
<1> DEFINE k == call[c]
           n == Len(k.results) + 1
<1>1. /\ LocalInv(k) /\ k.pc = "write" /\ k.results \in Seq(Rows) /\ Len(k.results) < Len(Plan)
      /\ k.changed \subseteq DOMAIN Plan
  BY DEF Inv, Locals, LocalInv, StepFits, Write, At, Call, Rows
<1>2. n \in 1..Len(Plan) /\ Plan[n].sink \in Sink  BY <1>1, PlanTyped
<1>3. PICK did : /\ Real(did, Plan[n].sink)
                 /\ Set(c, [k EXCEPT !.pc = "judge", !.report = did.report,
                              !.failure = @ \/ did.report.result = "failed",
                              !.changed = IF did.changed THEN @ \cup {n} ELSE @])
  <2>1. PICK did \in Outcomes(Plan[n], live)
                   \cup {Did(Failure(Planned(Plan[n].sink, entry)), FALSE) :
                            entry \in {old[Plan[n].sink] : old \in Ledgers}} :
          Set(c, [k EXCEPT !.pc = "judge", !.report = did.report,
                    !.failure = @ \/ did.report.result = "failed",
                    !.changed = IF did.changed THEN @ \cup {n} ELSE @])
    BY DEF Write
  <2>2. Real(did, Plan[n].sink)
    BY <1>2, <2>1, OutcomesReal, ThrownReal, PlannedTyped DEF Inv, Types
  <2> QED  BY <2>1, <2>2
<1> DEFINE failure == k.failure \/ did.report.result = "failed"
           changed == IF did.changed THEN k.changed \cup {n} ELSE k.changed
           x == [k EXCEPT !.pc = "judge", !.report = did.report, !.failure = failure,
                   !.changed = changed]
<1>4. Set(c, x)  BY <1>3
<1>5. /\ did.report \in Reports /\ failure \in BOOLEAN /\ changed \subseteq DOMAIN Plan
      /\ k.changed \subseteq changed /\ (did.changed => n \in changed)
  BY <1>1, <1>2, <1>3, PlanTyped DEF LocalInv, Call, Real, Truthful
<1> HIDE DEF failure, changed
<1>6. /\ x \in Call /\ x.pc = "judge" /\ x.op = k.op /\ x.gate = k.gate /\ x.told = k.told
      /\ x.results = k.results /\ x.report = did.report /\ x.failure = failure /\ x.changed = changed
  BY <1>1, <1>5 DEF LocalInv, Call, Pc
<1> HIDE DEF x
<1>7. LocalInv(x)
  <2>1. GateFits(x)  BY <1>1, <1>6 DEF LocalInv, GateFits
  <2>2. StepFits(x)  BY <1>1, <1>3, <1>5, <1>6 DEF StepFits, Real
  <2>3. x.failure => k.failure \/ x.report.result = "failed"  BY <1>6 DEF failure
  <2>4. k.failure => HasFailed(k.results)  BY <1>1 DEF LocalInv, RowsFit
  <2>5. RowsFit(x)
    BY <1>1, <1>5, <1>6, <2>3, <2>4 DEF LocalInv, RowsFit
  <2> QED  BY <1>6, <2>1, <2>2, <2>5 DEF LocalInv
<1>8. UNCHANGED <<live, ledger, started, rows>>  BY DEF Write, Fixed
<1>9. Locals' /\ GateInv' /\ ContinuedOnce'
  BY <1>4, <1>6, <1>7, <1>8, CallKeeps DEF Opening, rows
<1> QED  BY <1>8, <1>9 DEF Inv, Types, rows

LEMMA AppendFacts ==
  ASSUME NEW S, NEW s \in Seq(S), NEW e \in S
  PROVE  /\ Append(s, e) \in Seq(S) /\ Len(Append(s, e)) = Len(s) + 1
         /\ DOMAIN Append(s, e) = 1..(Len(s) + 1)
         /\ Append(s, e)[Len(s) + 1] = e /\ \A j \in 1..Len(s) : Append(s, e)[j] = s[j]
OBVIOUS

LEMMA JudgeKeeps == ASSUME Inv, NEW c \in Calls, Judge(c) PROVE Inv'
<1> DEFINE k   == call[c]
           n   == Len(k.results) + 1
           pc  == NextStep(n)
           row == RowOf(Judged(Plan[n].sink, ledger[Plan[n].sink], k.report))
           results == Append(k.results, row)
           x   == [k EXCEPT !.pc = pc, !.report = NoReport, !.results = results]
<1>1. /\ LocalInv(k) /\ k.pc = "judge" /\ k.results \in Seq(Rows) /\ Len(k.results) < Len(Plan)
      /\ Truthful(k.report)
      /\ k.report.live /\ Plan[n].sink \in Writable => n \in k.changed
  BY DEF Inv, Locals, LocalInv, StepFits, Judge, At, Call, Rows
<1>2. n \in 1..Len(Plan) /\ Plan[n].sink \in Sink  BY <1>1, PlanTyped
<1>3. row \in Rows /\ (k.report.result = "failed" => row.result = "failed") /\ (row.wrote => n \in k.changed)
  BY <1>1, <1>2, JudgedTruthful DEF RowOf, Rows, Reports
<1> HIDE DEF row
<1>4. /\ results \in Seq(Rows) /\ Len(results) = n /\ DOMAIN results = 1..n
      /\ results[n] = row /\ \A j \in 1..Len(k.results) : results[j] = k.results[j]
  BY <1>1, <1>3, AppendFacts
<1>5. pc \in {"write", "finish"} /\ (pc = "write" => n < Len(Plan))
  <2>1. Len(k.results) \in Nat /\ n \in 1..Len(Plan) /\ Len(Plan) \in Nat
    BY <1>1, <1>2, PlanTyped
  <2> QED  BY <2>1 DEF NextStep
<1>6. Set(c, x)  BY DEF Judge, row
<1> HIDE DEF pc, results
<1>7. /\ x \in Call /\ x.pc = pc /\ x.op = k.op /\ x.gate = k.gate /\ x.told = k.told
      /\ x.results = results /\ x.failure = k.failure /\ x.changed = k.changed
  BY <1>1, <1>4, <1>5 DEF LocalInv, Call, Pc, Rows
<1> HIDE DEF x
<1>8. LocalInv(x)
  <2>1. GateFits(x)  BY <1>1, <1>5, <1>7 DEF LocalInv, GateFits
  <2>2. StepFits(x)  BY <1>4, <1>5, <1>7 DEF StepFits
  <2>3. DOMAIN k.results = 1..Len(k.results) /\ Len(k.results) \in Nat  BY <1>1
  <2>4. \A j \in DOMAIN results : results[j].wrote => j \in k.changed
    <3> SUFFICES ASSUME NEW j \in 1..n, results[j].wrote PROVE j \in k.changed
      BY <1>4
    <3>1. CASE j = n  BY <1>3, <1>4, <3>1
    <3>2. CASE j \in 1..Len(k.results)
      BY <1>1, <1>4, <2>3, <3>2 DEF LocalInv, RowsFit
    <3> QED  BY <2>3, <3>1, <3>2
  <2>5. k.failure => HasFailed(results)
    <3>1. HasFailed(k.results) => HasFailed(results)
      BY <1>2, <1>4, <2>3 DEF HasFailed
    <3>2. k.report.result = "failed" => HasFailed(results)
      BY <1>2, <1>3, <1>4 DEF HasFailed
    <3> QED  BY <1>1, <3>1, <3>2 DEF LocalInv, RowsFit
  <2>6. RowsFit(x)  BY <1>1, <1>5, <1>7, <2>4, <2>5 DEF LocalInv, RowsFit
  <2> QED  BY <1>7, <2>1, <2>2, <2>6 DEF LocalInv
<1>9. UNCHANGED <<live, ledger, started, rows>>  BY DEF Judge, Fixed
<1>10. Locals' /\ GateInv' /\ ContinuedOnce'
  BY <1>5, <1>6, <1>7, <1>8, <1>9, CallKeeps DEF Opening, rows
<1> QED  BY <1>9, <1>10 DEF Inv, Types, rows

\* A run without a failed row had no failing writer, and is told so.
LEMMA FinishKeeps == ASSUME Inv, NEW c \in Calls, Finish(c) PROVE Inv'
<1> DEFINE k == call[c]
<1>1. LocalInv(k) /\ k.pc = "finish"  BY DEF Inv, Locals, Finish, At
<1>2. PICK status : /\ status \in {"failed", "verify_pending", "succeeded"}
                    /\ HasFailed(k.results) => status = "failed"
                    /\ Store(c, status)
                    /\ Set(c, [Over(k, "returned") EXCEPT !.told = status, !.failure = k.failure])
  <2>1. PICK dry \in BOOLEAN :
          /\ Store(c, Final(k.results, dry))
          /\ Set(c, [Over(k, "returned") EXCEPT !.told = Final(k.results, dry), !.failure = k.failure])
    BY DEF Finish
  <2>2. Final(k.results, dry) \in {"failed", "verify_pending", "succeeded"}
        /\ (HasFailed(k.results) => Final(k.results, dry) = "failed")
    BY DEF Final, HasFailed
  <2> QED  BY <2>1, <2>2
<1> DEFINE y == Over(k, "returned")
           x == [y EXCEPT !.told = status, !.failure = k.failure]
<1>3. /\ LocalInv(y) /\ y.op = k.op /\ y.gate = k.gate /\ y.pc = "returned"
      /\ y.results = <<>>
  BY <1>1, OverFits DEF Over, Idle
<1>4. Set(c, x)  BY <1>2
<1> HIDE DEF y
<1>5. k.failure \in BOOLEAN /\ k.op # "close"  BY <1>1 DEF LocalInv, Call, GateFits
<1>6. /\ x \in Call /\ x.pc = "returned" /\ x.op = k.op /\ x.gate = k.gate /\ x.results = <<>>
      /\ x.told = status /\ x.failure = k.failure
  BY <1>2, <1>3, <1>5 DEF LocalInv, Call, Status
<1> HIDE DEF x
<1>7. k.failure => status = "failed"  BY <1>1, <1>2 DEF LocalInv, RowsFit
<1>8. LocalInv(x)
  <2>1. GateFits(x)  BY <1>3, <1>6 DEF LocalInv, GateFits
  <2>2. StepFits(x) /\ RowsFit(x)  BY <1>6, <1>7 DEF StepFits, RowsFit
  <2> QED  BY <1>6, <2>1, <2>2 DEF LocalInv
<1>9. stored' \in [Calls -> Status] /\ UNCHANGED <<space, bindings, gates>>
  BY <1>2, StoreTyped DEF Status
<1>10. UNCHANGED <<live, ledger, started>>  BY DEF Finish, Fixed
<1>11. Locals' /\ GateInv' /\ ContinuedOnce'
  BY <1>4, <1>5, <1>6, <1>8, <1>9, CallKeeps DEF Opening
<1> QED  BY <1>9, <1>10, <1>11 DEF Inv, Types

-----------------------------------------------------------------------------
(* The verdict, the ledger, a restart; and the specification. *)

LEMMA ReadKeeps ==
  ASSUME Inv, NEW c \in Calls, NEW part \in {"graph", "gates", "runs"}, Read(c, part) PROVE Inv'
<1> DEFINE k == call[c]
<1>1. LocalInv(k) /\ k.pc = "reads"  BY DEF Inv, Locals, Read, At
<1>2. PICK ok \in BOOLEAN :
        LET found == IF ok THEN k.found \cup Finds(part) ELSE k.found
            last  == k.left = {part}
        IN  Set(c, IF last
                   THEN [Over(k, "returned") EXCEPT !.told = Verdict(found),
                           !.clean = k.clean /\ ok, !.missed = k.before \cap Concerns]
                   ELSE [k EXCEPT !.left = @ \ {part}, !.found = found, !.clean = @ /\ ok])
  BY DEF Read
<1> DEFINE found == IF ok THEN k.found \cup Finds(part) ELSE k.found
           clean == k.clean /\ ok
<1>3. found \subseteq {"data", "open_gate", "run", "failed"}
  <2>1. Finds(part) \subseteq {"data", "open_gate", "run", "failed"}  BY DEF Finds
  <2> QED  BY <1>1, <2>1 DEF LocalInv, Call
<1>4. clean \in BOOLEAN /\ k.op # "close" /\ k.before \cap Concerns \subseteq Gates \cup Calls
  BY <1>1, ConcernsTyped DEF LocalInv, Call, GateFits
<1>5. Verdict(found) \in {"null", "open_gate", "propagation_failed", "ready"}  BY DEF Verdict
<1> DEFINE told   == Verdict(found)
           missed == k.before \cap Concerns
           y      == Over(k, "returned")
           last   == [y EXCEPT !.told = told, !.clean = clean, !.missed = missed]
           next   == [k EXCEPT !.left = @ \ {part}, !.found = found, !.clean = clean]
<1>6. Set(c, last) \/ Set(c, next)  BY <1>2
<1>7. UNCHANGED <<live, ledger, started, rows>>  BY DEF Read, Fixed
<1> HIDE DEF found, clean
<1>8. LocalInv(next) /\ next.pc = "reads" /\ next.op = k.op /\ next.gate = k.gate
  <2>1. next \in Call /\ next.pc = "reads" /\ next.op = k.op /\ next.gate = k.gate
        /\ next.to = k.to /\ next.results = k.results /\ next.changed = k.changed
        /\ next.failure = k.failure /\ next.told = k.told
    BY <1>1, <1>3, <1>4 DEF LocalInv, Call, Pc
  <2> HIDE DEF next
  <2>2. GateFits(next) /\ StepFits(next)  BY <1>1, <2>1 DEF LocalInv, GateFits, StepFits
  <2>3. RowsFit(next)  BY <1>1, <2>1 DEF LocalInv, RowsFit
  <2> QED  BY <2>1, <2>2, <2>3 DEF LocalInv
<1>9. LocalInv(last) /\ last.pc = "returned" /\ last.op = k.op /\ last.gate = k.gate
  <2>1. /\ LocalInv(y) /\ y.op = k.op /\ y.gate = k.gate /\ y.pc = "returned"
        /\ y.results = <<>> /\ y.failure = FALSE
    BY <1>1, OverFits DEF Over, Idle
  <2> HIDE DEF y, told, missed
  <2>2. told \in {"null", "open_gate", "propagation_failed", "ready"}  BY <1>5 DEF told
  <2>3. missed \subseteq Gates \cup Calls  BY <1>4 DEF missed
  <2>4. last \in Call /\ last.pc = "returned" /\ last.op = k.op /\ last.gate = k.gate
        /\ last.results = <<>> /\ last.failure = FALSE /\ last.told = told
    BY <1>4, <2>1, <2>2, <2>3 DEF LocalInv, Call
  <2> HIDE DEF last
  <2>5. GateFits(last)  BY <2>1, <2>4 DEF LocalInv, GateFits
  <2>6. StepFits(last) /\ RowsFit(last)  BY <2>2, <2>4 DEF StepFits, RowsFit
  <2> QED  BY <2>4, <2>5, <2>6 DEF LocalInv
<1> HIDE DEF next, last
<1>10. Locals' /\ GateInv' /\ ContinuedOnce'
  BY <1>4, <1>6, <1>7, <1>8, <1>9, CallKeeps DEF Opening, rows
<1> QED  BY <1>7, <1>10 DEF Inv, Types, rows

LEMMA QualifyKeeps == ASSUME Inv, Qualify PROVE Inv'
BY DEF Inv, Types, Locals, GateInv, ContinuedOnce, Qualify, rows

LEMMA CrashKeeps == ASSUME Inv, Crash PROVE Inv'
<1>1. \A c \in Calls : LocalInv(call[c])  BY DEF Inv, Locals
<1>2. \A c \in Calls : call'[c] = IF call[c].pc \in Ended THEN call[c] ELSE Over(call[c], "lost")
  BY DEF Crash
<1>3. \A c \in Calls : /\ LocalInv(call'[c]) /\ call'[c].op = call[c].op /\ call'[c].gate = call[c].gate
                      /\ call'[c].pc \in {call[c].pc, "lost"}
  BY <1>1, <1>2, OverFits
<1>4. call' \in [Calls -> Call]
  BY <1>3 DEF Crash, LocalInv
<1>5. UNCHANGED <<live, ledger, rows, started>>  BY DEF Crash
<1>6. Locals'  BY <1>3, <1>4 DEF Locals
<1>7. GateInv'  BY <1>3, <1>5 DEF Inv, GateInv, Opening, rows
<1>8. ContinuedOnce'  BY <1>3 DEF Inv, ContinuedOnce
<1> QED  BY <1>5, <1>6, <1>7, <1>8 DEF Inv, Types, rows

LEMMA InitGivesInv == Init => Inv
<1> SUFFICES ASSUME Init PROVE Inv  OBVIOUS
<1>1. \A c \in Calls : call[c] = Idle  BY DEF Init
<1>2. Idle \in Call /\ LocalInv(Idle)  BY IdleFits DEF LocalInv
<1>3. Locals  BY <1>1, <1>2 DEF Init, Locals
<1>4. Types  BY DEF Init, Types, Status
<1>5. Idle.op = "none"  BY DEF Idle
<1>6. GateInv /\ ContinuedOnce  BY <1>1, <1>5 DEF GateInv, ContinuedOnce
<1> QED  BY <1>3, <1>4, <1>6 DEF Inv

LEMMA NextKeepsInv == ASSUME Inv, [Next]_vars PROVE Inv'
<1>1. CASE UNCHANGED vars
  BY <1>1 DEF Inv, Types, Locals, GateInv, ContinuedOnce, vars, rows
<1>2. CASE Next
  <2>1. CASE Qualify  BY <2>1, QualifyKeeps
  <2>2. CASE Crash  BY <2>2, CrashKeeps
  <2>3. ASSUME NEW c \in Calls, Bind(c) \/ \E g \in Gates : OpenGate(c, g)
        PROVE  Inv'
    BY <2>3, BindKeeps, OpenGateKeeps
  <2>4. ASSUME NEW c \in Calls, NEW g \in Gates,
               MarkResumed(c, g) \/ \E to \in {"resolved", "abandoned"} : CloseGate(c, g, to)
        PROVE  Inv'
    BY <2>4, MarkResumedKeeps, CloseGateKeeps
  <2>5. ASSUME NEW c \in Calls,
               Propagate(c) \/ Ready(c) \/ \E part \in {"graph", "gates", "runs"} : Read(c, part)
        PROVE  Inv'
    BY <2>5, PropagateKeeps, ReadyKeeps, ReadKeeps
  <2>6. ASSUME NEW c \in Calls,
               \/ GetSpace(c) \/ Upsert(c) \/ RecordBinding(c) \/ RecordGate(c)
               \/ Count(c) \/ Close(c) \/ Mark(c)
        PROVE  Inv'
    BY <2>6, GetSpaceKeeps, UpsertKeeps, RecordBindingKeeps, RecordGateKeeps, CountKeeps,
       CloseKeeps, MarkKeeps
  <2>7. ASSUME NEW c \in Calls, Insert(c) \/ Write(c) \/ Judge(c) \/ Finish(c)
        PROVE  Inv'
    BY <2>7, InsertKeeps, WriteKeeps, JudgeKeeps, FinishKeeps
  <2> QED  BY <1>2, <2>1, <2>2, <2>3, <2>4, <2>5, <2>6, <2>7 DEF Next
<1> QED  BY <1>1, <1>2

\* The inductive invariant holds whatever calls overlap, database calls fail,
\* ledgers are written and restarts happen.
THEOREM InvHolds == Spec => []Inv
<1>1. Init => Inv  BY InitGivesInv
<1>2. Inv /\ [Next]_vars => Inv'  BY NextKeepsInv
<1> QED  BY <1>1, <1>2, PTL DEF Spec

\* Every row and every local has its shape.
THEOREM Typed == Spec => []TypeOK
BY InvHolds, InvGivesTypeOK, PTL

\* At most one closer of a gate is given its continuation.
THEOREM ContinuesOnce == Spec => []ContinuedOnce
<1>1. Inv => ContinuedOnce  BY DEF Inv
<1> QED  BY <1>1, InvHolds, PTL

\* No run whose writer failed in some step is told as succeeded or pending.
THEOREM HidesNoFailure == Spec => []NoFailureHidden
BY InvHolds, InvGivesNoFailureHidden, PTL

\* No step has a time of writing unless its writer has written.
THEOREM WroteWhatItTells == Spec => []WroteAtIsTrue
BY InvHolds, InvGivesWroteAtIsTrue, PTL
-----------------------------------------------------------------------------
(* A verdict of ready: what every call that reads has found, of what should *)
(* have kept it from that verdict since its start.                          *)

\* The row of a propagation is made by its call, and is failed only when it is over.
StoredFits ==
  \A d \in Calls : /\ call[d].pc \in {"idle", "insert"} => stored[d] = "absent"
                   /\ stored[d] = "failed" => call[d].pc \in {"returned", "lost"}

\* What was of concern when the reads began has a row that cannot start anew.
BeforeFits ==
  \A c \in Calls : At(c, "reads") => \A x \in call[c].before :
    /\ x \in Gates => gates[x].status # "absent"
    /\ x \in Calls => stored[x] = "failed"

\* What is still of concern was found by the read of its table.
FoundFits ==
  \A c \in Calls : At(c, "reads") /\ call[c].clean => \A x \in call[c].before \cap Concerns :
    /\ x \in Gates /\ "gates" \notin call[c].left => "open_gate" \in call[c].found
    /\ x \in Calls /\ "runs" \notin call[c].left => "failed" \in call[c].found

ReadyFits == \A c \in Calls : call[c].told = "ready" => At(c, "returned")

HonestInv == StoredFits /\ BeforeFits /\ FoundFits /\ ReadyFits /\ ReadyIsHonest

LEMMA HonestGivesReady == HonestInv => ReadyIsHonest
BY DEF HonestInv

\* No row goes back: a gate that was opened never opens again, a stored run
\* stays stored with its time, and a failed one stays failed.
Forward ==
  /\ \A g \in Gates : gates[g].status # "absent" =>
       gates'[g].status # "absent" /\ (Open(g)' => Open(g))
  /\ \A d \in Calls : stored[d] # "absent" => stored'[d] # "absent" /\ started'[d] = started[d]
  /\ \A d \in Calls : stored[d] = "failed" => stored'[d] = "failed"

\* So what a call keeps in mind can stop being of concern, and not come back.
LEMMA ConcernsShrink ==
  ASSUME BeforeFits, Forward, NEW c \in Calls, At(c, "reads"),
         NEW x \in call[c].before \cap Concerns'
  PROVE  x \in Concerns
<1>1. CASE x \in Gates /\ Open(x)'
  BY <1>1 DEF BeforeFits, Forward, Concerns
<1>2. CASE x \in Calls /\ Newest(x)'
  <2>1. stored[x] = "failed" /\ stored[x] # "absent"  BY <1>2 DEF BeforeFits
  <2>2. \A d \in Calls : stored[d] # "absent" => started[d] <= started[x]
    BY <1>2, <2>1 DEF Forward, Newest
  <2> QED  BY <1>2, <2>1, <2>2 DEF Newest, Concerns
<1> QED  BY <1>1, <1>2 DEF Concerns

LEMMA BeforeStays ==
  ASSUME BeforeFits, Forward, NEW c \in Calls, At(c, "reads"), NEW x \in call[c].before
  PROVE  /\ x \in Gates => gates'[x].status # "absent"
         /\ x \in Calls => stored'[x] = "failed"
BY DEF BeforeFits, Forward

\* A step of a call that neither reads afterwards nor has the verdict ready.
Quiet(k) == k.pc # "reads" /\ k.told # "ready"

LEMMA QuietKeeps ==
  ASSUME Inv, HonestInv, Forward, NEW c \in Calls, NEW x, Set(c, x), Quiet(x),
         \A d \in Calls \ {c} : stored'[d] = stored[d],
         x.pc \in {"idle", "insert"} => stored'[c] = "absent",
         stored'[c] = "failed" => x.pc \in {"returned", "lost"}
  PROVE  HonestInv'
<1>1. /\ call'[c] = x /\ \A k \in Calls : k # c => call'[k] = call[k]
  BY DEF Inv, Locals, Set
<1>2. StoredFits'  BY <1>1 DEF HonestInv, StoredFits
<1>3. BeforeFits'
  <2> SUFFICES ASSUME NEW k \in Calls, At(k, "reads")', NEW y \in call'[k].before
               PROVE  /\ y \in Gates => gates'[y].status # "absent"
                      /\ y \in Calls => stored'[y] = "failed"
    BY DEF BeforeFits
  <2>1. k # c /\ call'[k] = call[k]  BY <1>1 DEF At, Quiet
  <2> QED  BY <2>1, BeforeStays DEF HonestInv, At
<1>4. FoundFits'
  <2> SUFFICES ASSUME NEW k \in Calls, At(k, "reads")', call'[k].clean,
                      NEW y \in call'[k].before \cap Concerns'
               PROVE  /\ y \in Gates /\ "gates" \notin call'[k].left => "open_gate" \in call'[k].found
                      /\ y \in Calls /\ "runs" \notin call'[k].left => "failed" \in call'[k].found
    BY DEF FoundFits
  <2>1. k # c /\ call'[k] = call[k]  BY <1>1 DEF At, Quiet
  <2>2. At(k, "reads") /\ call[k].clean /\ y \in call[k].before \cap Concerns
    BY <2>1, ConcernsShrink DEF HonestInv, At
  <2> QED  BY <2>1, <2>2 DEF HonestInv, FoundFits
<1>5. ReadyFits'  BY <1>1 DEF HonestInv, ReadyFits, At, Quiet
<1>6. ReadyIsHonest'  BY <1>1 DEF HonestInv, ReadyIsHonest, Quiet
<1> QED  BY <1>2, <1>3, <1>4, <1>5, <1>6 DEF HonestInv

\* The same for a step that writes no row of a propagation.
LEMMA GateStepKeeps ==
  ASSUME Inv, HonestInv, NEW c \in Calls, NEW x, Set(c, x), Quiet(x),
         UNCHANGED <<stored, started>>,
         \A g \in Gates : gates[g].status # "absent" =>
           gates'[g].status # "absent" /\ (Open(g)' => Open(g)),
         x.pc \notin {"idle", "insert"}, call[c].pc \notin {"returned", "lost"}
  PROVE  HonestInv'
<1>1. Forward  BY DEF Forward
<1>2. stored[c] # "failed"  BY DEF HonestInv, StoredFits
<1> QED  BY <1>1, <1>2, QuietKeeps

\* A call under way has no verdict yet.
LEMMA UnderWay ==
  ASSUME HonestInv, NEW c \in Calls, NEW pc, At(c, pc), pc # "returned"
  PROVE  call[c].told # "ready"
BY DEF HonestInv, ReadyFits, At

LEMMA OverIsQuiet ==
  ASSUME NEW k, NEW pc \in {"returned", "lost"}
  PROVE  /\ Quiet(Over(k, pc)) /\ Over(k, pc).pc = pc /\ Over(k, pc).told = "none"
         /\ Over(k, pc).missed = {} /\ Over(k, pc).op = k.op /\ Over(k, pc).gate = k.gate
BY DEF Over, Idle, Quiet

LEMMA BeginHonest ==
  ASSUME Inv, HonestInv, NEW c \in Calls, NEW x, Begin(c, x), UNCHANGED started,
         Quiet(x), x.pc \notin {"idle", "insert"}
  PROVE  HonestInv'
<1>1. Set(c, x) /\ call[c].pc = "idle" /\ UNCHANGED <<gates, stored>>
  BY DEF Begin, At, rows
<1> QED  BY <1>1, GateStepKeeps DEF Open

LEMMA BindHonest == ASSUME Inv, HonestInv, NEW c \in Calls, Bind(c) PROVE HonestInv'
<1>1. PICK x : x = [Idle EXCEPT !.pc = "space", !.op = "bind"]  OBVIOUS
<1>2. Quiet(x) /\ x.pc = "space"  BY <1>1 DEF Quiet, Idle
<1> QED  BY <1>1, <1>2, BeginHonest DEF Bind

LEMMA OpenGateHonest ==
  ASSUME Inv, HonestInv, NEW c \in Calls, NEW g \in Gates, OpenGate(c, g) PROVE HonestInv'
<1>1. PICK x : x = [Idle EXCEPT !.pc = "space", !.op = "open", !.gate = g]  OBVIOUS
<1>2. Quiet(x) /\ x.pc = "space"  BY <1>1 DEF Quiet, Idle
<1> QED  BY <1>1, <1>2, BeginHonest DEF OpenGate

LEMMA CloseGateHonest ==
  ASSUME Inv, HonestInv, NEW c \in Calls, NEW g \in Gates, NEW to \in {"resolved", "abandoned"},
         CloseGate(c, g, to)
  PROVE  HonestInv'
<1>1. PICK x : x = [Idle EXCEPT !.op = "close", !.gate = g, !.to = to,
                     !.pc = IF to = "resolved" THEN "count" ELSE "close"]
  OBVIOUS
<1>2. Quiet(x) /\ x.pc \in {"count", "close"}  BY <1>1 DEF Quiet, Idle
<1> QED  BY <1>1, <1>2, BeginHonest DEF CloseGate

LEMMA MarkResumedHonest ==
  ASSUME Inv, HonestInv, NEW c \in Calls, NEW g \in Gates, MarkResumed(c, g) PROVE HonestInv'
<1>1. PICK x : x = [Idle EXCEPT !.pc = "count", !.op = "mark", !.gate = g]  OBVIOUS
<1>2. Quiet(x) /\ x.pc = "count"  BY <1>1 DEF Quiet, Idle
<1> QED  BY <1>1, <1>2, BeginHonest DEF MarkResumed

LEMMA PropagateHonest == ASSUME Inv, HonestInv, NEW c \in Calls, Propagate(c) PROVE HonestInv'
<1>1. PICK x : x = [Idle EXCEPT !.pc = "insert", !.op = "propagate"]  OBVIOUS
<1>2. Quiet(x) /\ x.pc = "insert"  BY <1>1 DEF Quiet, Idle
<1>3. Set(c, x) /\ call[c].pc = "idle" /\ UNCHANGED <<gates, stored>>
  BY <1>1 DEF Propagate, Begin, At, rows
<1>4. stored[c] = "absent"  BY <1>3 DEF HonestInv, StoredFits
<1>5. Forward
  <2>1. \A d \in Calls : stored[d] # "absent" => started'[d] = started[d]
    BY <1>4 DEF Inv, Types, Propagate
  <2> QED  BY <1>3, <2>1 DEF Forward, Open
<1> QED  BY <1>2, <1>3, <1>4, <1>5, QuietKeeps

\* The calls that bind, open, close and mark.
LEMMA GetSpaceHonest == ASSUME Inv, HonestInv, NEW c \in Calls, GetSpace(c) PROVE HonestInv'
<1>1. PICK pc \in {"record", "upsert"} : Set(c, [call[c] EXCEPT !.pc = pc])
  <2>1. PICK there \in {space, FALSE} :
          Set(c, [call[c] EXCEPT !.pc = IF there THEN "record" ELSE "upsert"])
    BY DEF GetSpace
  <2> QED  BY <2>1
<1>2. At(c, "space") /\ UNCHANGED <<gates, stored, started>>  BY DEF GetSpace, Fixed, rows
<1>3. PICK x : x = [call[c] EXCEPT !.pc = pc]  OBVIOUS
<1>4. x.pc = pc /\ x.told = call[c].told  BY <1>3 DEF Inv, Locals, Call
<1>5. Quiet(x)  BY <1>2, <1>4, UnderWay DEF Quiet
<1> QED  BY <1>1, <1>2, <1>3, <1>4, <1>5, GateStepKeeps DEF At, Open

LEMMA UpsertHonest == ASSUME Inv, HonestInv, NEW c \in Calls, Upsert(c) PROVE HonestInv'
<1>1. At(c, "upsert") /\ UNCHANGED <<gates, stored, started>>  BY DEF Upsert, Fixed
<1>2. CASE Throw(c)
  BY <1>1, <1>2, OverIsQuiet, GateStepKeeps DEF Throw, At, Open
<1>3. CASE Set(c, [call[c] EXCEPT !.pc = "record"])
  <2>1. PICK x : x = [call[c] EXCEPT !.pc = "record"]  OBVIOUS
  <2>2. x.pc = "record" /\ x.told = call[c].told  BY <2>1 DEF Inv, Locals, Call
  <2>3. Quiet(x)  BY <1>1, <2>2, UnderWay DEF Quiet
  <2> QED  BY <1>1, <1>3, <2>1, <2>2, <2>3, GateStepKeeps DEF At, Open
<1> QED  BY <1>2, <1>3 DEF Upsert

LEMMA RecordBindingHonest ==
  ASSUME Inv, HonestInv, NEW c \in Calls, RecordBinding(c) PROVE HonestInv'
<1>1. At(c, "record") /\ UNCHANGED <<gates, stored, started>>  BY DEF RecordBinding, Fixed
<1>2. PICK pc \in {"returned", "lost"} : Set(c, Over(call[c], pc))
  BY DEF RecordBinding, Return, Throw
<1> QED  BY <1>1, <1>2, OverIsQuiet, GateStepKeeps DEF At, Open

\* A gate is opened only while its row is absent.
LEMMA RecordGateHonest == ASSUME Inv, HonestInv, NEW c \in Calls, RecordGate(c) PROVE HonestInv'
<1>1. At(c, "record") /\ call[c].op = "open" /\ UNCHANGED <<stored, started>>
  BY DEF RecordGate, Fixed
<1>2. PICK pc \in {"returned", "lost"} : Set(c, Over(call[c], pc))
  BY DEF RecordGate, Return, Throw
<1>3. gates[call[c].gate].status = "absent"  BY <1>1 DEF Inv, GateInv, At, Opening
<1>4. \A g \in Gates : g # call[c].gate => gates'[g] = gates[g]
  BY DEF RecordGate, Inv, Types
<1> QED  BY <1>1, <1>2, <1>3, <1>4, OverIsQuiet, GateStepKeeps DEF At, Open

LEMMA CountHonest == ASSUME Inv, HonestInv, NEW c \in Calls, Count(c) PROVE HonestInv'
<1>1. At(c, "count") /\ UNCHANGED <<gates, stored, started>>  BY DEF Count, Fixed, rows
<1>2. PICK n : Set(c, [call[c] EXCEPT !.count = n, !.pc = call[c].op])  BY DEF Count
<1>3. PICK x : x = [call[c] EXCEPT !.count = n, !.pc = call[c].op]  OBVIOUS
<1>4. x.pc \in {"close", "mark"} /\ x.told = call[c].told
  BY <1>1, <1>3 DEF Inv, Locals, LocalInv, GateFits, Call, At
<1>5. Quiet(x)  BY <1>1, <1>4, UnderWay DEF Quiet
<1> QED  BY <1>1, <1>2, <1>3, <1>4, <1>5, GateStepKeeps DEF At, Open

LEMMA CloseHonest == ASSUME Inv, HonestInv, NEW c \in Calls, Close(c) PROVE HonestInv'
<1>1. At(c, "close") /\ UNCHANGED <<stored, started>>  BY DEF Close, Fixed
<1>2. PICK pc \in {"returned", "lost"} : Set(c, Over(call[c], pc))
  BY DEF Close, Return, Throw
<1>3. call[c].to \in {"resolved", "abandoned"}
  BY <1>1 DEF Inv, Locals, LocalInv, GateFits, At
<1>4. \A g \in Gates : gates'[g] = gates[g] \/ gates'[g].status = call[c].to
  BY DEF Close, Inv, Types
<1> QED  BY <1>1, <1>2, <1>3, <1>4, OverIsQuiet, GateStepKeeps DEF At, Open

LEMMA MarkHonest == ASSUME Inv, HonestInv, NEW c \in Calls, Mark(c) PROVE HonestInv'
<1>1. At(c, "mark") /\ UNCHANGED <<stored, started>>  BY DEF Mark, Fixed
<1>2. PICK pc \in {"returned", "lost"} : Set(c, Over(call[c], pc))
  BY DEF Mark, Return, Throw
<1>3. \A g \in Gates : gates'[g].status = gates[g].status
  BY DEF Mark, Inv, Types
<1> QED  BY <1>1, <1>2, <1>3, OverIsQuiet, GateStepKeeps DEF At, Open

\* The propagations: a row is running before it is failed, and its call over after.
LEMMA StoreGoesForward ==
  ASSUME Inv, HonestInv, NEW c \in Calls, NEW pc, At(c, pc), pc \notin {"returned", "lost"},
         NEW status, status # "absent", Store(c, status), UNCHANGED started
  PROVE  /\ Forward /\ \A d \in Calls \ {c} : stored'[d] = stored[d]
         /\ stored'[c] \in {stored[c], status} /\ stored[c] # "failed"
<1>1. stored[c] # "failed"  BY DEF HonestInv, StoredFits, At
<1>2. \A d \in Calls : stored'[d] = stored[d] \/ (d = c /\ stored'[d] = status)
  BY DEF Store, Inv, Types
<1>3. UNCHANGED gates  BY DEF Store
<1>4. Forward  BY <1>1, <1>2, <1>3 DEF Forward, Open
<1> QED  BY <1>1, <1>2, <1>4

LEMMA InsertHonest == ASSUME Inv, HonestInv, NEW c \in Calls, Insert(c) PROVE HonestInv'
<1>1. At(c, "insert") /\ Store(c, "running") /\ UNCHANGED started  BY DEF Insert, Fixed
<1>2. PICK x : x = [call[c] EXCEPT !.pc = NextStep(0)]  OBVIOUS
<1>3. Set(c, x)  BY <1>2 DEF Insert
<1>4. x.pc \in {"write", "finish"} /\ x.told = call[c].told
  BY <1>2 DEF Inv, Locals, Call, NextStep
<1>5. Quiet(x)  BY <1>1, <1>4, UnderWay DEF Quiet
<1> QED  BY <1>1, <1>3, <1>4, <1>5, StoreGoesForward, QuietKeeps

LEMMA WriteHonest == ASSUME Inv, HonestInv, NEW c \in Calls, Write(c) PROVE HonestInv'
<1>1. At(c, "write") /\ UNCHANGED <<gates, stored, started>>  BY DEF Write, Fixed, rows
<1>2. PICK x : /\ Set(c, x) /\ x.pc = "judge" /\ x.told = call[c].told
  <2>1. PICK did : Set(c, [call[c] EXCEPT !.pc = "judge", !.report = did.report,
                     !.failure = @ \/ did.report.result = "failed",
                     !.changed = IF did.changed THEN @ \cup {Len(call[c].results) + 1} ELSE @])
    BY DEF Write
  <2> DEFINE failure == call[c].failure \/ did.report.result = "failed"
             changed == IF did.changed THEN call[c].changed \cup {Len(call[c].results) + 1}
                        ELSE call[c].changed
  <2>2. Set(c, [call[c] EXCEPT !.pc = "judge", !.report = did.report, !.failure = failure,
                  !.changed = changed])
    BY <2>1
  <2> HIDE DEF failure, changed
  <2>3. PICK y : y = [call[c] EXCEPT !.pc = "judge", !.report = did.report, !.failure = failure,
                       !.changed = changed]
    OBVIOUS
  <2>4. y.pc = "judge" /\ y.told = call[c].told  BY <2>3 DEF Inv, Locals, Call
  <2>5. Set(c, y)  BY <2>2, <2>3
  <2> QED  BY <2>4, <2>5
<1>3. Quiet(x)  BY <1>1, <1>2, UnderWay DEF Quiet
<1> QED  BY <1>1, <1>2, <1>3, GateStepKeeps DEF At, Open

LEMMA JudgeHonest == ASSUME Inv, HonestInv, NEW c \in Calls, Judge(c) PROVE HonestInv'
<1>1. At(c, "judge") /\ UNCHANGED <<gates, stored, started>>  BY DEF Judge, Fixed, rows
<1>2. PICK n, results :
        Set(c, [call[c] EXCEPT !.pc = NextStep(n), !.report = NoReport, !.results = results])
  BY DEF Judge
<1>3. PICK x : x = [call[c] EXCEPT !.pc = NextStep(n), !.report = NoReport, !.results = results]
  OBVIOUS
<1>4. x.pc \in {"write", "finish"} /\ x.told = call[c].told
  BY <1>3 DEF Inv, Locals, Call, NextStep
<1>5. Quiet(x)  BY <1>1, <1>4, UnderWay DEF Quiet
<1> QED  BY <1>1, <1>2, <1>3, <1>4, <1>5, GateStepKeeps DEF At, Open

LEMMA FinishHonest == ASSUME Inv, HonestInv, NEW c \in Calls, Finish(c) PROVE HonestInv'
<1>1. PICK dry \in BOOLEAN :
        LET status == Final(call[c].results, dry)
        IN  /\ Store(c, status)
            /\ Set(c, [Over(call[c], "returned") EXCEPT !.told = status, !.failure = call[c].failure])
  BY DEF Finish
<1>2. PICK status : status = Final(call[c].results, dry)  OBVIOUS
<1>3. status \in {"failed", "verify_pending", "succeeded"}  BY <1>2 DEF Final
<1>4. PICK x : x = [Over(call[c], "returned") EXCEPT !.told = status, !.failure = call[c].failure]
  OBVIOUS
<1>5. x.pc = "returned" /\ x.told = status  BY <1>4 DEF Over, Idle
<1>6. At(c, "finish") /\ Store(c, status) /\ Set(c, x) /\ UNCHANGED started
  BY <1>1, <1>2, <1>4 DEF Finish, Fixed
<1>7. Quiet(x)  BY <1>3, <1>5 DEF Quiet
<1> QED  BY <1>3, <1>5, <1>6, <1>7, StoreGoesForward, QuietKeeps

-----------------------------------------------------------------------------
(* The reads themselves. *)

LEMMA ReadyHonest == ASSUME Inv, HonestInv, NEW c \in Calls, Ready(c) PROVE HonestInv'
<1>1. PICK x : x = [Idle EXCEPT !.pc = "reads", !.op = "ready", !.left = {"graph", "gates", "runs"},
                     !.before = Concerns]
  OBVIOUS
<1>2. /\ Set(c, x) /\ call[c].pc = "idle" /\ UNCHANGED <<gates, stored, started>>
  BY <1>1 DEF Ready, Begin, At, rows
<1>3. /\ x.pc = "reads" /\ x.told = "none" /\ x.before = Concerns
      /\ x.left = {"graph", "gates", "runs"}
  BY <1>1 DEF Idle
<1>4. call'[c] = x /\ \A k \in Calls : k # c => call'[k] = call[k]
  BY <1>2 DEF Inv, Locals, Set
<1>5. \A y : y \in Concerns' <=> y \in Concerns  BY <1>2 DEF Concerns, Open, Newest
<1>6. StoredFits'  BY <1>2, <1>3, <1>4 DEF HonestInv, StoredFits
<1>7. BeforeFits'
  <2>1. \A y \in Concerns : /\ y \in Gates => gates[y].status # "absent"
                            /\ y \in Calls => stored[y] = "failed"
    BY ProjectSpaceAssumption DEF Concerns, Open
  <2> QED  BY <1>2, <1>3, <1>4, <2>1 DEF HonestInv, BeforeFits, At
<1>8. FoundFits'
  <2> SUFFICES ASSUME NEW k \in Calls, At(k, "reads")', call'[k].clean,
                      NEW y \in call'[k].before \cap Concerns'
               PROVE  /\ y \in Gates /\ "gates" \notin call'[k].left => "open_gate" \in call'[k].found
                      /\ y \in Calls /\ "runs" \notin call'[k].left => "failed" \in call'[k].found
    BY DEF FoundFits
  <2>1. CASE k = c  BY <1>3, <1>4, <2>1
  <2>2. CASE k # c
    <3>1. call'[k] = call[k] /\ At(k, "reads") /\ y \in call[k].before \cap Concerns
      BY <1>4, <1>5, <2>2 DEF At
    <3> QED  BY <3>1 DEF HonestInv, FoundFits
  <2> QED  BY <2>1, <2>2
<1>9. ReadyFits' /\ ReadyIsHonest'
  BY <1>3, <1>4 DEF HonestInv, ReadyFits, ReadyIsHonest, At
<1> QED  BY <1>6, <1>7, <1>8, <1>9 DEF HonestInv

\* A read that succeeds finds every concern of its table: an open gate is one
\* of the space's, and the newest run is first among those that are listed.
LEMMA ReadFinds ==
  ASSUME Inv, NEW y \in Concerns
  PROVE  /\ y \in Gates => "open_gate" \in Finds("gates")
         /\ y \in Calls => "failed" \in Finds("runs")
<1>1. ASSUME y \in Gates PROVE "open_gate" \in Finds("gates")
  <2>1. Open(y)  BY <1>1, ProjectSpaceAssumption DEF Concerns
  <2> QED  BY <1>1, <2>1 DEF Finds
<1>2. ASSUME y \in Calls PROVE "failed" \in Finds("runs")
  <2>1. stored[y] = "failed" /\ Newest(y)  BY <1>2, ProjectSpaceAssumption DEF Concerns
  <2>2. {d \in Calls : stored[d] # "absent" /\ started[d] > started[y]} = {}
    BY <1>2, <2>1 DEF Newest, Inv, Types
  <2>3. Listed(y)
    <3>1. PICK later : later = {d \in Calls : stored[d] # "absent" /\ started[d] > started[y]}
      OBVIOUS
    <3>2. Cardinality(later) = 0  BY <2>2, <3>1, FS_EmptySet
    <3>3. 0 < RecentLimit  BY ProjectSpaceAssumption
    <3> QED  BY <2>1, <3>1, <3>2, <3>3 DEF Listed
  <2>4. "failed" \in {"failed" : d \in {e \in Calls : Listed(e) /\ stored[e] = "failed"}}
    BY <1>2, <2>1, <2>3
  <2> QED  BY <2>4 DEF Finds
<1> QED  BY <1>1, <1>2

LEMMA ReadHonest ==
  ASSUME Inv, HonestInv, NEW c \in Calls, NEW part \in {"graph", "gates", "runs"}, Read(c, part)
  PROVE  HonestInv'
<1>1. PICK k : k = call[c]  OBVIOUS
<1>2. /\ k.pc = "reads" /\ part \in k.left /\ k \in Call /\ k.told # "ready"
      /\ UNCHANGED <<gates, stored, started>>
  BY <1>1, UnderWay DEF Read, At, Inv, Locals, Fixed, rows
<1>3. PICK ok \in BOOLEAN :
        LET found == IF ok THEN k.found \cup Finds(part) ELSE k.found
            last  == k.left = {part}
        IN  Set(c, IF last
                   THEN [Over(k, "returned") EXCEPT !.told = Verdict(found),
                           !.clean = k.clean /\ ok, !.missed = k.before \cap Concerns]
                   ELSE [k EXCEPT !.left = @ \ {part}, !.found = found, !.clean = @ /\ ok])
  BY <1>1 DEF Read
<1>4. PICK found : found = IF ok THEN k.found \cup Finds(part) ELSE k.found  OBVIOUS
<1> DEFINE clean == k.clean /\ ok
\* What the call has found with this read, were it without an error.
<1>5. ASSUME clean, NEW y \in k.before \cap Concerns
      PROVE  /\ y \in Gates /\ "gates" \notin k.left \ {part} => "open_gate" \in found
             /\ y \in Calls /\ "runs" \notin k.left \ {part} => "failed" \in found
  <2>1. found = k.found \cup Finds(part) /\ k.clean  BY <1>4, <1>5
  <2>2. /\ y \in Gates /\ "gates" \notin k.left => "open_gate" \in k.found
        /\ y \in Calls /\ "runs" \notin k.left => "failed" \in k.found
    BY <1>1, <1>2, <2>1, <1>5 DEF HonestInv, FoundFits, At
  <2> QED  BY <2>1, <2>2, <1>5, ReadFinds
<1>6. \A y : y \in Concerns' <=> y \in Concerns  BY <1>2 DEF Concerns, Open, Newest
<1>7. CASE k.left = {part}
  <2>1. PICK x : x = [Over(k, "returned") EXCEPT !.told = Verdict(found), !.clean = clean,
                        !.missed = k.before \cap Concerns]
    OBVIOUS
  <2>2. Set(c, x)  BY <1>3, <1>4, <1>7, <2>1
  <2>3. /\ x.pc = "returned" /\ x.told = Verdict(found) /\ x.clean = clean
        /\ x.missed = k.before \cap Concerns
    BY <2>1 DEF Over, Idle
  <2>4. call'[c] = x /\ \A d \in Calls : d # c => call'[d] = call[d]
    BY <2>2 DEF Inv, Locals, Set
  <2>5. x.told = "ready" /\ x.clean => x.missed = {}
    <3> SUFFICES ASSUME clean, NEW y \in k.before \cap Concerns PROVE Verdict(found) # "ready"
      BY <2>3
    <3>1. y \in Gates \cup Calls  BY ConcernsTyped
    <3>2. "open_gate" \in found \/ "failed" \in found  BY <1>5, <1>7, <3>1
    <3> QED  BY <3>2 DEF Verdict
  <2>6. StoredFits'  BY <1>2, <2>3, <2>4 DEF HonestInv, StoredFits
  <2>7. BeforeFits'  BY <1>2, <2>3, <2>4 DEF HonestInv, BeforeFits, At
  <2>8. FoundFits'  BY <1>6, <2>3, <2>4 DEF HonestInv, FoundFits, At
  <2>9. ReadyFits' /\ ReadyIsHonest'
    BY <2>3, <2>4, <2>5 DEF HonestInv, ReadyFits, ReadyIsHonest, At
  <2> QED  BY <2>6, <2>7, <2>8, <2>9 DEF HonestInv
<1>8. CASE k.left # {part}
  <2>1. PICK x : x = [k EXCEPT !.left = @ \ {part}, !.found = found, !.clean = clean]  OBVIOUS
  <2>2. Set(c, x)  BY <1>3, <1>4, <1>8, <2>1
  <2>3. /\ x.pc = "reads" /\ x.told = k.told /\ x.clean = clean /\ x.found = found
        /\ x.left = k.left \ {part} /\ x.before = k.before
    BY <1>2, <2>1 DEF Call
  <2>4. call'[c] = x /\ \A d \in Calls : d # c => call'[d] = call[d]
    BY <2>2 DEF Inv, Locals, Set
  <2>5. StoredFits'  BY <1>1, <1>2, <2>3, <2>4 DEF HonestInv, StoredFits
  <2>6. BeforeFits'  BY <1>1, <1>2, <2>3, <2>4 DEF HonestInv, BeforeFits, At
  <2>7. FoundFits'
    <3> SUFFICES ASSUME NEW d \in Calls, At(d, "reads")', call'[d].clean,
                        NEW y \in call'[d].before \cap Concerns'
                 PROVE  /\ y \in Gates /\ "gates" \notin call'[d].left => "open_gate" \in call'[d].found
                        /\ y \in Calls /\ "runs" \notin call'[d].left => "failed" \in call'[d].found
      BY DEF FoundFits
    <3>1. CASE d = c  BY <1>5, <1>6, <2>3, <2>4, <3>1
    <3>2. CASE d # c
      <4>1. call'[d] = call[d] /\ At(d, "reads") /\ y \in call[d].before \cap Concerns
        BY <1>6, <2>4, <3>2 DEF At
      <4> QED  BY <4>1 DEF HonestInv, FoundFits
    <3> QED  BY <3>1, <3>2
  <2>8. ReadyFits' /\ ReadyIsHonest'
    BY <1>2, <2>3, <2>4 DEF HonestInv, ReadyFits, ReadyIsHonest, At
  <2> QED  BY <2>5, <2>6, <2>7, <2>8 DEF HonestInv
<1> QED  BY <1>7, <1>8

LEMMA QualifyHonest == ASSUME HonestInv, Qualify PROVE HonestInv'
BY DEF HonestInv, StoredFits, BeforeFits, FoundFits, ReadyFits, ReadyIsHonest, At, Concerns,
       Open, Newest, Qualify, rows

LEMMA CrashHonest == ASSUME HonestInv, Crash PROVE HonestInv'
<1>1. \A c \in Calls : \/ call'[c] = call[c] /\ call[c].pc \in Ended
                       \/ /\ call'[c] = Over(call[c], "lost") /\ call[c].pc \notin Ended
  BY DEF Crash
<1>2. UNCHANGED <<gates, stored, started>>  BY DEF Crash, rows
<1>3. \A c \in Calls : call'[c].pc # "reads"  BY <1>1, OverIsQuiet DEF Ended
<1>4. StoredFits'  BY <1>1, <1>2, OverIsQuiet DEF HonestInv, StoredFits
<1>5. BeforeFits' /\ FoundFits'  BY <1>3 DEF BeforeFits, FoundFits, At
<1>6. ReadyFits' /\ ReadyIsHonest'
  BY <1>1, OverIsQuiet DEF HonestInv, ReadyFits, ReadyIsHonest, At
<1> QED  BY <1>4, <1>5, <1>6 DEF HonestInv

LEMMA InitGivesHonest == Init => HonestInv
<1> SUFFICES ASSUME Init PROVE HonestInv  OBVIOUS
<1>1. \A c \in Calls : call[c].pc = "idle" /\ call[c].told = "none" /\ stored[c] = "absent"
  BY DEF Init, Idle
<1> QED
  BY <1>1 DEF HonestInv, StoredFits, BeforeFits, FoundFits, ReadyFits, ReadyIsHonest, At

LEMMA NextKeepsHonest == ASSUME Inv, HonestInv, [Next]_vars PROVE HonestInv'
<1>1. CASE UNCHANGED vars
  BY <1>1 DEF HonestInv, StoredFits, BeforeFits, FoundFits, ReadyFits, ReadyIsHonest, At, Concerns,
              Open, Newest, vars, rows
<1>2. CASE Next
  <2>1. CASE Qualify  BY <2>1, QualifyHonest
  <2>2. CASE Crash  BY <2>2, CrashHonest
  <2>3. ASSUME NEW c \in Calls, Bind(c) \/ \E g \in Gates : OpenGate(c, g)
        PROVE  HonestInv'
    BY <2>3, BindHonest, OpenGateHonest
  <2>4. ASSUME NEW c \in Calls, NEW g \in Gates,
               MarkResumed(c, g) \/ \E to \in {"resolved", "abandoned"} : CloseGate(c, g, to)
        PROVE  HonestInv'
    BY <2>4, MarkResumedHonest, CloseGateHonest
  <2>5. ASSUME NEW c \in Calls,
               Propagate(c) \/ Ready(c) \/ \E part \in {"graph", "gates", "runs"} : Read(c, part)
        PROVE  HonestInv'
    BY <2>5, PropagateHonest, ReadyHonest, ReadHonest
  <2>6. ASSUME NEW c \in Calls,
               \/ GetSpace(c) \/ Upsert(c) \/ RecordBinding(c) \/ RecordGate(c)
               \/ Count(c) \/ Close(c) \/ Mark(c)
        PROVE  HonestInv'
    BY <2>6, GetSpaceHonest, UpsertHonest, RecordBindingHonest, RecordGateHonest, CountHonest,
       CloseHonest, MarkHonest
  <2>7. ASSUME NEW c \in Calls, Insert(c) \/ Write(c) \/ Judge(c) \/ Finish(c)
        PROVE  HonestInv'
    BY <2>7, InsertHonest, WriteHonest, JudgeHonest, FinishHonest
  <2> QED  BY <1>2, <2>1, <2>2, <2>3, <2>4, <2>5, <2>6, <2>7 DEF Next
<1> QED  BY <1>1, <1>2

\* What the reading calls have found, and what they have not lost sight of,
\* whatever is opened, closed, propagated, refused or restarted meanwhile.
THEOREM HonestInvariant == Spec => [](Inv /\ HonestInv)
<1>1. Init => Inv /\ HonestInv  BY InitGivesInv, InitGivesHonest
<1>2. Inv /\ HonestInv /\ [Next]_vars => (Inv /\ HonestInv)'  BY NextKeepsInv, NextKeepsHonest
<1> QED  BY <1>1, <1>2, PTL DEF Spec

\* A verdict of ready from three reads that succeeded overlooks no gate that
\* was open, and no failure of the newest run, before and after all of them.
THEOREM ReadyOverlooksNothing == Spec => []ReadyIsHonest
BY HonestInvariant, HonestGivesReady, PTL
=============================================================================
