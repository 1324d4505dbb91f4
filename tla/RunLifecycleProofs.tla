------------------------- MODULE RunLifecycleProofs -------------------------
(***************************************************************************)
(* What every interleaving of founder's turn, ticks, callbacks, a          *)
(* superseding delegation and crashes preserves, for any packets,          *)
(* dependencies, number of actors and bounds.                              *)
(*                                                                         *)
(* The argument: every writer of packet states writes a copy of the row in *)
(* which it changed one packet.  So it is enough that no copy, held by     *)
(* whomever and however stale, shows more than may be shown (Honest), and  *)
(* that whatever was once done is remembered (everDone, vouched): then it  *)
(* does not matter which write comes last.  And once no copy is older than *)
(* a commit (Known), no copy made later is: the commit stays.              *)
(*                                                                         *)
(* The second half is about actors that do not overlap, for which more     *)
(* holds: there the copy an actor writes back is the row itself (Fresh),   *)
(* so the status is kept up and nothing is handed over or told twice.      *)
(***************************************************************************)
EXTENDS RunLifecycle, TLAPS

\* Nothing in a run is ever skipped.
Live == PacketState \ {"skipped"}
Psm  == [Packet -> Live]

TickFields    == {"pc", "kind", "psm", "kick", "was", "target", "say", "rounds"}
HandlerFields == {"pc", "packet", "word", "at", "psm", "kick", "terms"}
RowFields     == {"psm", "status", "kick", "shown", "told", "bound", "anchor", "terms"}
Kicks         == {"none", "cloud", "local"}
Record        == [at : Stamp, outcome : {"none", "positive", "negative"}]
CallRecord    == [stage : {"none", "bind", "trigger", "wait", "local", "done"},
                  packet : Packet \cup {NoPacket},
                  outcome : Outcome \cup {"none"}]

\* The types of RowOK and TypeOK, with the domains that EXCEPT needs.
RowTyped(r) ==
  /\ DOMAIN r = RowFields
  /\ r.psm \in Psm /\ r.status \in Status /\ r.kick \in Kicks
  /\ r.told \subseteq Milestone
  /\ r.bound \in Packet \cup {NoPacket} /\ r.anchor \in Packet \cup {NoPacket}
  /\ r.terms \in [Packet -> Record]

TickTyped(r) ==
  /\ DOMAIN r = TickFields
  /\ r.pc \in TickPc /\ r.kind \in {"run", "thread"} /\ r.psm \in Psm
  /\ r.kick \in Kicks /\ r.target \in Packet \cup {NoPacket}
  /\ r.say \subseteq Milestone /\ r.rounds \in 0..MaxRounds
  /\ r.pc \in {"mark", "call"} => r.target \in Packet /\ r.rounds < MaxRounds

HandlerTyped(r) ==
  /\ DOMAIN r = HandlerFields
  /\ r.pc \in {"idle", "check", "load", "store", "anchor"}
  /\ r.packet \in Packet \cup {NoPacket} /\ r.word \in Word /\ r.at \in Stamp
  /\ r.psm \in Psm /\ r.kick \in Kicks /\ r.terms \in [Packet -> Record]
  /\ r.pc # "idle" => r.packet \in Cloud

CallTyped(r) ==
  /\ r \in CallRecord
  /\ r.stage \in {"bind", "trigger", "wait"} => r.packet \in Cloud
  /\ r.stage = "local" => r.packet \in Packet \ Cloud

TicksTyped    == DOMAIN tick = Ticks /\ \A t \in Ticks : TickTyped(tick[t])
HandlersTyped == DOMAIN handler = Handlers /\ \A h \in Handlers : HandlerTyped(handler[h])
CallsTyped    == DOMAIN call = Caller /\ call \in [Caller -> CallRecord]
                   /\ \A a \in Caller : CallTyped(call[a])

RestTyped ==
  /\ active \in BOOLEAN
  /\ ledger \in [Packet -> Outcome \cup {"none"}]
  /\ delegate \in {"kick", "call", "done", "dead"}
  /\ inflight \subseteq {"run", "thread"}
  /\ dispatched \in [Packet -> 0..2]
  /\ vouched \subseteq Cloud /\ everDone \subseteq Packet
  /\ sent \in [Milestone -> 0..2]

TypeInv == RowTyped(row) /\ TicksTyped /\ HandlersTyped /\ CallsTyped /\ RestTyped

-----------------------------------------------------------------------------
(* Lemmas about the rules of PacketStates. *)

LEMMA PacketFacts == NoPacket \notin Packet /\ Cloud \subseteq Packet /\ Packet = ToSet(Required)
<1>1. \A i \in DOMAIN Required : Required[i] \in STRING \ {NoPacket}
  BY RunAssumption
<1> QED BY <1>1, RunAssumption DEF Packet, ToSet

LEMMA QueuedTyped == Queued \in Psm
BY DEF Queued, Psm, Live, PacketState

LEMMA OutcomeState ==
  ASSUME NEW o
  PROVE  StateOfOutcome(o) \in Live /\ (StateOfOutcome(o) = "completed" <=> o = "completed")
BY DEF StateOfOutcome, Live, PacketState

LEMMA WordState ==
  ASSUME NEW w
  PROVE  /\ DesiredState(w) \in Live
         /\ DesiredState(w) = "completed" => Bucket(w) = "positive_terminal"
BY DEF DesiredState, Live, PacketState

\* The authority answers with the state at hand, the one asked for, or failed.
LEMMA AuthorityState ==
  ASSUME NEW s \in Live, NEW d \in Live, NEW at \in Stamp, NEW rec \in Record
  PROVE  /\ Authority(s, d, at, rec).state \in {s, d, "failed"}
         /\ Authority(s, d, at, rec).rec \in Record
<1> DEFINE a == Authority(s, d, at, rec)
           Take(x) == [accept |-> TRUE, state |-> x, rec |-> RecordOf(x, at, rec)]
<1>1. a \in {[accept |-> FALSE, state |-> s, rec |-> rec], Take(d), Take(Tie(d))}
  BY DEF Authority
<1>2. \A x \in Live : RecordOf(x, at, rec) \in Record
  BY DEF RecordOf, Record, Polarity, TerminalStates, DoneStates, Live, PacketState
<1>3. Tie(d) = "failed" /\ "failed" \in Live BY DEF Tie, Live, PacketState
<1> HIDE DEF a
<1>4. CASE a = [accept |-> FALSE, state |-> s, rec |-> rec] BY <1>4 DEF a
<1>5. CASE a = Take(d) BY <1>2, <1>5 DEF a
<1>6. CASE a = Take(Tie(d)) BY <1>2, <1>3, <1>6 DEF a
<1> QED BY <1>1, <1>4, <1>5, <1>6

LEMMA RunStatusTyped ==
  ASSUME NEW psm
  PROVE  RunStatus(psm, Required) \in Status
BY DEF RunStatus, Status

\* A run is completed only when each of its packets is.
LEMMA CompletedRun ==
  ASSUME NEW psm \in Psm, RunStatus(psm, Required) = "completed"
  PROVE  \A p \in Packet : psm[p] = "completed"
<1> DEFINE ids    == IF Required = <<>> THEN DOMAIN psm ELSE ToSet(Required)
           states == {psm[p] : p \in ids}
<1>1. states \subseteq DoneStates
  <2>1. ids # {} => (states \subseteq DoneStates \/ RunStatus(psm, Required) # "completed")
    BY DEF RunStatus
  <2>2. ids = {} => RunStatus(psm, Required) # "completed" BY DEF RunStatus
  <2> QED BY <2>1, <2>2
<1>2. ids = Packet BY DEF Packet, Psm
<1> QED BY <1>1, <1>2 DEF DoneStates, Psm, Live

-----------------------------------------------------------------------------
(* Idle actors and single updates. *)

LEMMA IdleTyped == TickTyped(IdleTick) /\ HandlerTyped(IdleHandler) /\ CallTyped(NoCall)
<1>1. TickTyped(IdleTick)
  BY QueuedTyped, RunAssumption
  DEF TickTyped, IdleTick, TickFields, TickPc, Kicks
<1>2. NoRec \in Record BY DEF NoRec, Record, Stamp
<1>3. HandlerTyped(IdleHandler)
  BY <1>2, QueuedTyped
  DEF HandlerTyped, IdleHandler, HandlerFields, Word, Stamp, Kicks
<1>4. CallTyped(NoCall) BY DEF CallTyped, CallRecord, NoCall
<1> QED BY <1>1, <1>3, <1>4

LEMMA TickUpdate ==
  ASSUME TicksTyped, NEW t \in Ticks, NEW r, TickTyped(r), tick' = [tick EXCEPT ![t] = r]
  PROVE  TicksTyped'
<1>1. DOMAIN tick' = Ticks BY DEF TicksTyped
<1>2. \A u \in Ticks : tick'[u] = IF u = t THEN r ELSE tick[u] BY DEF TicksTyped
<1>3. \A u \in Ticks : TickTyped(tick'[u]) BY <1>2 DEF TicksTyped
<1> QED BY <1>1, <1>3 DEF TicksTyped, TickTyped

LEMMA HandlerUpdate ==
  ASSUME HandlersTyped, NEW h \in Handlers, NEW r, HandlerTyped(r),
         handler' = [handler EXCEPT ![h] = r]
  PROVE  HandlersTyped'
<1>1. DOMAIN handler' = Handlers BY DEF HandlersTyped
<1>2. \A u \in Handlers : handler'[u] = IF u = h THEN r ELSE handler[u] BY DEF HandlersTyped
<1>3. \A u \in Handlers : HandlerTyped(handler'[u]) BY <1>2 DEF HandlersTyped
<1> QED BY <1>1, <1>3 DEF HandlersTyped, HandlerTyped

LEMMA CallUpdate ==
  ASSUME CallsTyped, NEW a \in Caller, NEW r, CallTyped(r), call' = [call EXCEPT ![a] = r]
  PROVE  CallsTyped'
<1>1. call' \in [Caller -> CallRecord] BY DEF CallsTyped, CallTyped
<1>2. \A u \in Caller : call'[u] = IF u = a THEN r ELSE call[u] BY DEF CallsTyped
<1>3. \A u \in Caller : CallTyped(call'[u]) BY <1>2 DEF CallsTyped
<1> QED BY <1>1, <1>3 DEF CallsTyped, CallTyped

LEMMA NewCallTyped == ASSUME NEW p \in Packet PROVE CallTyped(NewCall(p))
BY DEF NewCall, CallTyped, CallRecord, Outcome

-----------------------------------------------------------------------------
(* Every step keeps the type. *)

LEMMA TypeInvInit == Init => TypeInv
<1> SUFFICES ASSUME Init PROVE TypeInv OBVIOUS
<1>1. RowTyped(row)
  <2>1. RunStatus(Queued, Required) \in Status BY RunStatusTyped
  <2>2. NoRec \in Record BY DEF NoRec, Record, Stamp
  <2>3. DOMAIN Shell = RowFields BY DEF Shell, RowFields
  <2> QED BY <2>1, <2>2, <2>3, QueuedTyped DEF Init, Shell, RowTyped, Kicks
<1>2. TicksTyped BY IdleTyped DEF Init, TicksTyped
<1>3. HandlersTyped BY IdleTyped DEF Init, HandlersTyped
<1>4. CallsTyped BY IdleTyped DEF Init, CallsTyped, CallTyped
<1>5. RestTyped BY DEF Init, RestTyped
<1> QED BY <1>1, <1>2, <1>3, <1>4, <1>5 DEF TypeInv

\* The row after a patch of its packet states.
LEMMA PsmPatchTyped ==
  ASSUME RowTyped(row), NEW psm \in Psm, NEW shown
  PROVE  /\ RowTyped([row EXCEPT !.psm = psm])
         /\ RowTyped([row EXCEPT !.psm = psm, !.status = RunStatus(psm, Required),
                                 !.shown = shown])
<1>1. RowTyped([row EXCEPT !.psm = psm]) BY DEF RowTyped, RowFields
<1>2. RunStatus(psm, Required) \in Status BY RunStatusTyped
<1> HIDE DEF RunStatus
<1>3. RowTyped([row EXCEPT !.psm = psm, !.status = RunStatus(psm, Required),
                           !.shown = shown])
  BY <1>2 DEF RowTyped, RowFields
<1> QED BY <1>1, <1>3

\* A caller's invocation changes its call record, the ledger and the binding.
LEMMA EndCallTyped ==
  ASSUME TypeInv, NEW a \in Caller, NEW o \in Outcome, call[a].packet \in Packet, EndCall(a, o)
  PROVE  CallsTyped' /\ ledger' \in [Packet -> Outcome \cup {"none"}]
<1> DEFINE r == [call[a] EXCEPT !.stage = "done", !.outcome = o]
<1>1. call[a] \in CallRecord BY DEF TypeInv, CallsTyped
<1>2. CallTyped(r) BY <1>1 DEF CallTyped, CallRecord
<1>3. call' = [call EXCEPT ![a] = r] BY DEF EndCall
<1> HIDE DEF r
<1>4. CallsTyped' BY <1>2, <1>3, CallUpdate DEF TypeInv
<1>5. ledger' \in [Packet -> Outcome \cup {"none"}] BY DEF EndCall, TypeInv, RestTyped
<1> QED BY <1>4, <1>5

LEMMA CallStepTyped ==
  ASSUME TypeInv, NEW a \in Caller, CallStep(a)
  PROVE  TypeInv'
<1>1. CallTyped(call[a]) /\ call[a] \in CallRecord BY DEF TypeInv, CallsTyped
<1>0. TicksTyped' /\ HandlersTyped'
  BY DEF TypeInv, TicksTyped, HandlersTyped, CallStep, Bind, Trigger, StopWaiting, RunLocally
<1>2. ASSUME NEW x \in {"trigger", "wait"}, call[a].packet \in Cloud,
             call' = [call EXCEPT ![a].stage = x]
      PROVE  CallsTyped'
  <2> DEFINE r == [call[a] EXCEPT !.stage = x]
  <2>1. CallTyped(r) BY <1>1, <1>2 DEF CallTyped, CallRecord
  <2>2. call' = [call EXCEPT ![a] = r] BY <1>2
  <2> HIDE DEF r
  <2> QED BY <2>1, <2>2, CallUpdate DEF TypeInv
<1>3. CASE Bind(a)
  <2>1. call[a].packet \in Cloud BY <1>1, <1>3 DEF Bind, CallTyped
  <2>2. CASE SetRow([row EXCEPT !.bound = call[a].packet])
              /\ call' = [call EXCEPT ![a].stage = "trigger"] /\ UNCHANGED ledger
    <3>1. RowTyped(row') BY <2>1, <2>2, PacketFacts DEF TypeInv, RowTyped, RowFields, SetRow
    <3>2. everDone' \subseteq Packet BY <2>2 DEF TypeInv, RestTyped, SetRow
    <3> QED BY <1>0, <1>2, <1>3, <2>1, <2>2, <3>1, <3>2 DEF TypeInv, RestTyped, Bind
  <2>3. CASE EndCall(a, "blocked") /\ KeepRow
    <3>1. CallsTyped' /\ ledger' \in [Packet -> Outcome \cup {"none"}]
      BY <2>1, <2>3, EndCallTyped, PacketFacts DEF Outcome
    <3> QED BY <1>0, <1>3, <2>3, <3>1 DEF TypeInv, RestTyped, Bind, KeepRow
  <2> QED BY <1>3, <2>2, <2>3 DEF Bind
<1>4. CASE Trigger(a)
  <2>1. call[a].packet \in Cloud BY <1>1, <1>4 DEF Trigger, CallTyped
  <2>2. CASE call' = [call EXCEPT ![a].stage = "wait"]
              /\ dispatched' = [dispatched EXCEPT ![call[a].packet] = UpTo2(@)]
              /\ UNCHANGED ledger
    <3>1. dispatched' \in [Packet -> 0..2]
      BY <2>1, <2>2, PacketFacts DEF TypeInv, RestTyped, UpTo2
    <3> QED BY <1>0, <1>2, <1>4, <2>1, <2>2, <3>1 DEF TypeInv, RestTyped, Trigger, KeepRow
  <2>3. CASE (\E o \in {"degraded", "failed"} : EndCall(a, o)) /\ UNCHANGED dispatched
    <3>1. CallsTyped' /\ ledger' \in [Packet -> Outcome \cup {"none"}]
      BY <2>1, <2>3, EndCallTyped, PacketFacts DEF Outcome
    <3> QED BY <1>0, <1>4, <2>3, <3>1 DEF TypeInv, RestTyped, Trigger, KeepRow
  <2> QED BY <1>4, <2>2, <2>3 DEF Trigger
<1>5. CASE StopWaiting(a)
  <2>1. call[a].packet \in Packet BY <1>1, <1>5, PacketFacts DEF StopWaiting, CallTyped
  <2>2. CallsTyped' /\ ledger' \in [Packet -> Outcome \cup {"none"}]
    BY <2>1, <1>5, EndCallTyped DEF StopWaiting, Outcome
  <2> QED BY <1>0, <1>5, <2>2 DEF TypeInv, RestTyped, StopWaiting, KeepRow
<1>6. CASE RunLocally(a)
  <2>1. call[a].packet \in Packet BY <1>1, <1>6 DEF RunLocally, CallTyped
  <2>2. CallsTyped' /\ ledger' \in [Packet -> Outcome \cup {"none"}]
    BY <2>1, <1>6, EndCallTyped DEF RunLocally, Outcome
  <2> QED BY <1>0, <1>6, <2>2 DEF TypeInv, RestTyped, RunLocally, KeepRow
<1> QED BY <1>3, <1>4, <1>5, <1>6 DEF CallStep

LEMMA TurnTyped ==
  ASSUME TypeInv, Kickoff \/ Finalize \/ Supersede
  PROVE  TypeInv'
<1>0. TicksTyped' /\ HandlersTyped'
  BY DEF TypeInv, TicksTyped, HandlersTyped, Kickoff, Finalize, Supersede
<1>d. Delegate \in Caller BY DEF Caller
<1>1. CASE Kickoff
  <2>1. CASE Invocable = {}
    <3> DEFINE r == [call[Delegate] EXCEPT !.stage = "done"]
    <3>1. CallTyped(r) BY <1>d DEF TypeInv, CallsTyped, CallTyped, CallRecord
    <3>2. call' = [call EXCEPT ![Delegate] = r] BY <1>1, <2>1 DEF Kickoff
    <3> HIDE DEF r
    <3> QED BY <1>0, <1>1, <1>d, <3>1, <3>2, CallUpdate DEF TypeInv, RestTyped, Kickoff, KeepRow
  <2>2. CASE Invocable # {}
    <3>1. PICK p \in Packet : call' = [call EXCEPT ![Delegate] = NewCall(p)]
      BY <1>1, <2>2 DEF Kickoff
    <3>2. CallsTyped' BY <1>d, <3>1, NewCallTyped, CallUpdate DEF TypeInv
    <3> QED BY <1>0, <1>1, <3>2 DEF TypeInv, RestTyped, Kickoff, KeepRow
  <2> QED BY <2>1, <2>2
<1>2. CASE Finalize
  <2> DEFINE p   == call[Delegate].packet
             o   == call[Delegate].outcome
             psm == IF p = NoPacket THEN Queued ELSE [Queued EXCEPT ![p] = StateOfOutcome(o)]
  <2>1. p \in Packet \cup {NoPacket} BY <1>d DEF TypeInv, CallsTyped, CallRecord
  <2>2. StateOfOutcome(o) \in Live BY OutcomeState
  <2>3. psm \in Psm BY <2>1, <2>2, QueuedTyped DEF Psm
  <2>4. RunStatus(psm, Required) \in Status BY RunStatusTyped
  <2>5. SetRow(FinalizeRow(row, p, o)) BY <1>2 DEF Finalize
  <2> HIDE DEF p, o
  <2>6. /\ DOMAIN FinalizeRow(row, p, o) = RowFields
        /\ FinalizeRow(row, p, o).psm = psm
        /\ FinalizeRow(row, p, o).status = RunStatus(psm, Required)
        /\ FinalizeRow(row, p, o).kick \in Kicks
        /\ FinalizeRow(row, p, o).told = row.told
        /\ FinalizeRow(row, p, o).bound = row.bound
        /\ FinalizeRow(row, p, o).anchor = row.anchor
        /\ FinalizeRow(row, p, o).terms = row.terms
    <3>1. StarterLane(p, o) \in Kicks BY DEF StarterLane, Kicks
    <3> QED BY <3>1 DEF FinalizeRow, TypeInv, RowTyped, RowFields
  <2>7. RowTyped(row') BY <2>3, <2>4, <2>5, <2>6 DEF SetRow, TypeInv, RowTyped
  <2>8. everDone' \subseteq Packet BY <2>5 DEF SetRow, TypeInv, RestTyped
  <2>9. CallsTyped' BY <1>2, <1>d, IdleTyped, CallUpdate DEF Finalize, TypeInv
  <2> QED BY <1>0, <1>2, <2>7, <2>8, <2>9 DEF TypeInv, RestTyped, Finalize
<1>3. CASE Supersede
  <2>1. CallsTyped' BY <1>3 DEF Supersede, TypeInv, CallsTyped
  <2>2. RowTyped(row')
    BY <1>3 DEF Supersede, SetRow, TypeInv, RowTyped, RowFields, Status
  <2>3. everDone' \subseteq Packet BY <1>3 DEF Supersede, SetRow, TypeInv, RestTyped
  <2> QED BY <1>0, <1>3, <2>1, <2>2, <2>3 DEF Supersede, TypeInv, RestTyped
<1> QED BY <1>1, <1>2, <1>3

\* A tick that only moves, keeping what it holds.
LEMMA TickMoves ==
  ASSUME TypeInv, NEW t \in Ticks, NEW x \in TickPc \ {"mark", "call"},
         tick' = [tick EXCEPT ![t].pc = x]
  PROVE  TicksTyped'
<1> DEFINE r == [tick[t] EXCEPT !.pc = x]
<1>1. TickTyped(r) BY DEF TypeInv, TicksTyped, TickTyped, TickFields
<1>2. tick' = [tick EXCEPT ![t] = r] OBVIOUS
<1> HIDE DEF r
<1> QED BY <1>1, <1>2, TickUpdate DEF TypeInv

LEMMA TickReset ==
  ASSUME TypeInv, NEW t \in Ticks, NEW n \in 0..MaxRounds,
         tick' = [tick EXCEPT ![t] = [IdleTick EXCEPT !.pc = "advance",
                                                      !.kind = tick[t].kind, !.rounds = n]]
  PROVE  TicksTyped'
<1> DEFINE r == [IdleTick EXCEPT !.pc = "advance", !.kind = tick[t].kind, !.rounds = n]
<1>1. TickTyped(IdleTick) /\ tick[t].kind \in {"run", "thread"}
  BY IdleTyped DEF TypeInv, TicksTyped, TickTyped
<1>2. TickTyped(r) BY <1>1 DEF TickTyped, TickFields, TickPc
<1>3. tick' = [tick EXCEPT ![t] = r] OBVIOUS
<1> HIDE DEF r
<1> QED BY <1>2, <1>3, TickUpdate DEF TypeInv

LEMMA TickStepTyped ==
  ASSUME TypeInv, NEW t \in Ticks,
         \/ BeginDirect(t) \/ TickStep(t)
         \/ \E kind \in {"run", "thread"} : BeginPeriodic(t, kind)
  PROVE  TypeInv'
<1>t. TickTyped(tick[t]) BY DEF TypeInv, TicksTyped
<1>0. HandlersTyped'
  BY DEF TypeInv, HandlersTyped, TickStep, BeginDirect, BeginPeriodic, Lease, Leave, Enter,
         ReadForReconcile, Reconcile, Advance, AdvanceNothing, Mark, Finish, Report,
         SendSucceeds, SendFails, Flag
<1>1. ASSUME NEW kind \in {"run", "thread"}, BeginPeriodic(t, kind) PROVE TypeInv'
  <2> DEFINE r == [tick[t] EXCEPT !.pc = "enter", !.kind = kind]
  <2>1. TickTyped(r) BY <1>t DEF TickTyped, TickFields, TickPc
  <2>2. tick' = [tick EXCEPT ![t] = r] BY <1>1 DEF BeginPeriodic
  <2> HIDE DEF r
  <2>3. TicksTyped' BY <2>1, <2>2, TickUpdate DEF TypeInv
  <2> QED BY <1>0, <1>1, <2>3 DEF BeginPeriodic, TypeInv, CallsTyped, RestTyped, KeepRow
<1>2. CASE BeginDirect(t)
  <2> DEFINE r == [tick[t] EXCEPT !.pc = "lease", !.kind = "run"]
  <2>1. TickTyped(r) BY <1>t DEF TickTyped, TickFields, TickPc
  <2>2. tick' = [tick EXCEPT ![t] = r] BY <1>2 DEF BeginDirect
  <2> HIDE DEF r
  <2>3. TicksTyped' BY <2>1, <2>2, TickUpdate DEF TypeInv
  <2> QED BY <1>0, <1>2, <2>3 DEF BeginDirect, TypeInv, CallsTyped, RestTyped, KeepRow
<1>3. CASE Lease(t)
  <2>1. CASE tick' = [tick EXCEPT ![t].pc = "enter"]
    <3>1. "enter" \in TickPc \ {"mark", "call"} BY DEF TickPc
    <3>2. TicksTyped' BY <2>1, <3>1, TickMoves
    <3> QED BY <1>0, <1>3, <3>2 DEF Lease, TypeInv, CallsTyped, RestTyped, KeepRow
  <2>2. CASE tick' = [tick EXCEPT ![t] = IdleTick]
    <3>1. TicksTyped' BY <2>2, IdleTyped, TickUpdate DEF TypeInv
    <3> QED BY <1>0, <1>3, <3>1 DEF Lease, TypeInv, CallsTyped, RestTyped, KeepRow
  <2> QED BY <1>3, <2>1, <2>2 DEF Lease
<1>4. CASE Leave(t)
  <2>1. TicksTyped' BY <1>4, IdleTyped, TickUpdate DEF Leave, TypeInv
  <2> QED BY <1>0, <1>4, <2>1 DEF Leave, TypeInv, CallsTyped, RestTyped, KeepRow
<1>5. CASE Enter(t)
  <2>1. TicksTyped' BY <1>5, TickMoves DEF Enter, TickPc
  <2> QED BY <1>0, <1>5, <2>1 DEF Enter, TypeInv, CallsTyped, RestTyped, KeepRow
<1>6. CASE ReadForReconcile(t)
  <2> DEFINE r == [tick[t] EXCEPT !.pc = "write", !.psm = row.psm, !.kick = row.kick,
                                  !.was = <<row.status, row.shown>>]
  <2>1. TickTyped(r) BY <1>t DEF TickTyped, TickFields, TickPc, TypeInv, RowTyped
  <2>2. tick' = [tick EXCEPT ![t] = r] BY <1>6 DEF ReadForReconcile
  <2> HIDE DEF r
  <2>3. TicksTyped' BY <2>1, <2>2, TickUpdate DEF TypeInv
  <2> QED BY <1>0, <1>6, <2>3 DEF ReadForReconcile, TypeInv, CallsTyped, RestTyped, KeepRow
<1>7. CASE Reconcile(t)
  <2> DEFINE psm == Reconciled(tick[t].psm)
             shown == Shown(psm, tick[t].kick)
  <2>1. psm \in Psm
    BY <1>t, OutcomeState DEF Reconciled, TickTyped, Psm
  <2>2. \/ SetRow([row EXCEPT !.psm = psm, !.status = RunStatus(psm, Required),
                              !.shown = shown])
        \/ KeepRow
    BY <1>7 DEF Reconcile
  <2>3. 0 \in 0..MaxRounds BY RunAssumption
  <2>4. TickTyped([IdleTick EXCEPT !.pc = "advance", !.kind = tick[t].kind])
    BY <1>t, IdleTyped DEF TickTyped, TickFields, TickPc
  <2>5. TicksTyped' BY <1>7, <2>4, TickUpdate DEF Reconcile, TypeInv
  <2> HIDE DEF psm, shown
  <2>6. RowTyped(row')
    <3>1. RowTyped(row) BY DEF TypeInv
    <3>2. RowTyped([row EXCEPT !.psm = psm, !.status = RunStatus(psm, Required),
                               !.shown = shown])
      BY <2>1, <3>1, PsmPatchTyped
    <3> QED BY <2>2, <3>1, <3>2 DEF SetRow, KeepRow
  <2>7. everDone' \subseteq Packet BY <2>2 DEF SetRow, KeepRow, TypeInv, RestTyped
  <2> QED BY <1>0, <1>7, <2>5, <2>6, <2>7 DEF Reconcile, TypeInv, CallsTyped, RestTyped
<1>8. CASE Advance(t)
  <2>1. PICK p \in Packet :
          tick' = [tick EXCEPT ![t].pc = "mark", ![t].target = p,
                               ![t].psm = [row.psm EXCEPT ![p] = "running"],
                               ![t].kick = row.kick]
    BY <1>8 DEF Advance
  <2> DEFINE r == [tick[t] EXCEPT !.pc = "mark", !.target = p,
                                  !.psm = [row.psm EXCEPT ![p] = "running"],
                                  !.kick = row.kick]
  <2>2. [row.psm EXCEPT ![p] = "running"] \in Psm
    BY DEF TypeInv, RowTyped, Psm, Live, PacketState
  <2>3. TickTyped(r)
    BY <1>8, <1>t, <2>2 DEF Advance, TickTyped, TickFields, TickPc, TypeInv, RowTyped
  <2>4. tick' = [tick EXCEPT ![t] = r] BY <2>1
  <2> HIDE DEF r
  <2>5. TicksTyped' BY <2>3, <2>4, TickUpdate DEF TypeInv
  <2> QED BY <1>0, <1>8, <2>5 DEF Advance, TypeInv, CallsTyped, RestTyped, KeepRow
<1>9. CASE AdvanceNothing(t)
  <2> DEFINE r == [tick[t] EXCEPT !.pc = "report", !.rounds = 0]
  <2>1. TickTyped(r) BY <1>t, RunAssumption DEF TickTyped, TickFields, TickPc
  <2>2. tick' = [tick EXCEPT ![t] = r] BY <1>9 DEF AdvanceNothing
  <2> HIDE DEF r
  <2>3. TicksTyped' BY <2>1, <2>2, TickUpdate DEF TypeInv
  <2> QED BY <1>0, <1>9, <2>3 DEF AdvanceNothing, TypeInv, CallsTyped, RestTyped, KeepRow
<1>10. CASE Mark(t)
  <2> DEFINE r == [tick[t] EXCEPT !.pc = "call"]
  <2>1. TickTyped(r) /\ tick[t].psm \in Psm /\ tick[t].target \in Packet
    BY <1>10, <1>t DEF Mark, At, TickTyped, TickFields, TickPc
  <2>2. tick' = [tick EXCEPT ![t] = r] BY <1>10 DEF Mark
  <2> HIDE DEF r
  <2>3. TicksTyped' BY <2>1, <2>2, TickUpdate DEF TypeInv
  <2>4. RowTyped(row') BY <1>10, <2>1, PsmPatchTyped DEF Mark, SetRow, TypeInv
  <2>5. everDone' \subseteq Packet BY <1>10 DEF Mark, SetRow, TypeInv, RestTyped
  <2>6. CallsTyped' BY <1>10, <2>1, NewCallTyped, CallUpdate DEF Mark, TypeInv, Caller
  <2> QED BY <1>0, <1>10, <2>3, <2>4, <2>5, <2>6 DEF Mark, TypeInv, RestTyped
<1>11. CASE Finish(t)
  <2> DEFINE psm == [tick[t].psm EXCEPT ![tick[t].target] = StateOfOutcome(call[t].outcome)]
             shown == Shown(psm, tick[t].kick)
  <2>1. psm \in Psm BY <1>t, OutcomeState DEF TickTyped, Psm
  <2>2. SetRow([row EXCEPT !.psm = psm, !.status = RunStatus(psm, Required),
                           !.shown = shown])
    BY <1>11 DEF Finish
  <2>3. tick[t].rounds + 1 \in 0..MaxRounds
    BY <1>11, <1>t, RunAssumption DEF Finish, At, TickTyped
  <2>4. TicksTyped' BY <1>11, <2>3, TickReset DEF Finish
  <2> HIDE DEF psm, shown
  <2>5. RowTyped(row') BY <2>1, <2>2, PsmPatchTyped DEF SetRow, TypeInv
  <2>6. everDone' \subseteq Packet BY <2>2 DEF SetRow, TypeInv, RestTyped
  <2>7. CallsTyped' BY <1>11, IdleTyped, CallUpdate DEF Finish, TypeInv, Caller
  <2> QED BY <1>0, <1>11, <2>4, <2>5, <2>6, <2>7 DEF Finish, TypeInv, RestTyped
<1>12. CASE Report(t)
  <2>1. PICK m \in Messages(row) :
          tick' = [tick EXCEPT ![t].pc = IF m = {} THEN "leave" ELSE "send", ![t].say = m]
    BY <1>12 DEF Report
  <2>2. m \subseteq Milestone BY <2>1 DEF Messages, Milestone
  <2> DEFINE r == [tick[t] EXCEPT !.pc = IF m = {} THEN "leave" ELSE "send", !.say = m]
  <2>3. TickTyped(r) BY <1>t, <2>2 DEF TickTyped, TickFields, TickPc
  <2>4. tick' = [tick EXCEPT ![t] = r] BY <2>1
  <2> HIDE DEF r
  <2>5. TicksTyped' BY <2>3, <2>4, TickUpdate DEF TypeInv
  <2> QED BY <1>0, <1>12, <2>5 DEF Report, TypeInv, CallsTyped, RestTyped, KeepRow
<1>13. CASE SendSucceeds(t)
  <2>1. TicksTyped' BY <1>13, TickMoves DEF SendSucceeds, TickPc
  <2>2. sent' \in [Milestone -> 0..2] BY <1>13 DEF SendSucceeds, UpTo2, TypeInv, RestTyped
  <2> QED BY <1>0, <1>13, <2>1, <2>2 DEF SendSucceeds, TypeInv, CallsTyped, RestTyped, KeepRow
<1>14. CASE SendFails(t) \/ Flag(t)
  <2> DEFINE r == [tick[t] EXCEPT !.pc = "leave", !.say = {}]
  <2>1. TickTyped(r) BY <1>t DEF TickTyped, TickFields, TickPc
  <2>2. tick' = [tick EXCEPT ![t] = r] BY <1>14 DEF SendFails, Flag
  <2> HIDE DEF r
  <2>3. TicksTyped' BY <2>1, <2>2, TickUpdate DEF TypeInv
  <2>4. CASE SendFails(t)
    BY <1>0, <2>3, <2>4 DEF SendFails, TypeInv, CallsTyped, RestTyped, KeepRow
  <2>5. CASE Flag(t)
    <3>1. RowTyped(row')
      BY <1>t, <2>5 DEF Flag, SetRow, TypeInv, RowTyped, RowFields, TickTyped
    <3>2. everDone' \subseteq Packet BY <2>5 DEF Flag, SetRow, TypeInv, RestTyped
    <3> QED BY <1>0, <2>3, <2>5, <3>1, <3>2 DEF Flag, TypeInv, CallsTyped, RestTyped
  <2> QED BY <1>14, <2>4, <2>5
<1> QED BY <1>1, <1>2, <1>3, <1>4, <1>5, <1>6, <1>7, <1>8, <1>9, <1>10, <1>11, <1>12,
           <1>13, <1>14 DEF TickStep

LEMMA HandlerStepTyped ==
  ASSUME TypeInv, NEW h \in Handlers,
         \/ HandlerStep(h)
         \/ \E p \in Cloud, word \in Word, at \in Time : Receive(h, p, word, at)
  PROVE  TypeInv'
<1>h. HandlerTyped(handler[h]) BY DEF TypeInv, HandlersTyped
<1>0. TicksTyped' /\ CallsTyped'
  BY DEF TypeInv, TicksTyped, CallsTyped, HandlerStep, Intake, Load, Store, Anchor, Receive
<1>1. ASSUME NEW p \in Cloud, NEW word \in Word, NEW at \in Time, Receive(h, p, word, at)
      PROVE  TypeInv'
  <2> DEFINE r == [IdleHandler EXCEPT !.pc = "check", !.packet = p, !.word = word, !.at = at]
  <2>1. HandlerTyped(r) BY IdleTyped, PacketFacts DEF HandlerTyped, HandlerFields, Stamp
  <2>2. handler' = [handler EXCEPT ![h] = r] BY <1>1 DEF Receive
  <2> HIDE DEF r
  <2>3. HandlersTyped' BY <2>1, <2>2, HandlerUpdate DEF TypeInv
  <2> QED BY <1>0, <1>1, <2>3 DEF Receive, TypeInv, RestTyped, KeepRow
<1>2. CASE Intake(h)
  <2> DEFINE r == [handler[h] EXCEPT !.pc = "load"]
  <2>1. HandlerTyped(r) BY <1>2, <1>h DEF Intake, HandlerTyped, HandlerFields
  <2>2. handler' = [handler EXCEPT ![h] = IdleHandler] \/ handler' = [handler EXCEPT ![h] = r]
    BY <1>2 DEF Intake
  <2> HIDE DEF r
  <2>3. HandlersTyped' BY <2>1, <2>2, IdleTyped, HandlerUpdate DEF TypeInv
  <2> QED BY <1>0, <1>2, <2>3 DEF Intake, TypeInv, RestTyped, KeepRow
<1>3. CASE Load(h)
  <2> DEFINE r == [handler[h] EXCEPT !.pc = "store", !.psm = row.psm, !.kick = row.kick,
                                     !.terms = row.terms]
  <2>1. HandlerTyped(r)
    BY <1>3, <1>h DEF Load, HandlerTyped, HandlerFields, TypeInv, RowTyped
  <2>2. handler' = [handler EXCEPT ![h] = r] BY <1>3 DEF Load
  <2> HIDE DEF r
  <2>3. HandlersTyped' BY <2>1, <2>2, HandlerUpdate DEF TypeInv
  <2> QED BY <1>0, <1>3, <2>3 DEF Load, TypeInv, RestTyped, KeepRow
<1>4. CASE Store(h)
  <2> DEFINE e == handler[h]
             answer == Authority(e.psm[e.packet], DesiredState(e.word), e.at,
                                 e.terms[e.packet])
             psm    == [e.psm EXCEPT ![e.packet] = answer.state]
             terms  == [e.terms EXCEPT ![e.packet] = answer.rec]
             shown  == Shown(psm, e.kick)
  <2>1. e.packet \in Cloud /\ e.packet \in Packet
    BY <1>4, <1>h, PacketFacts DEF Store, HandlerTyped
  <2>2. /\ e.psm[e.packet] \in Live /\ e.terms[e.packet] \in Record
        /\ DesiredState(e.word) \in Live /\ e.at \in Stamp
    BY <1>h, <2>1, WordState DEF HandlerTyped, Psm
  <2>3. answer.state \in Live /\ answer.rec \in Record
    BY <2>2, AuthorityState DEF Live, PacketState
  <2>4. psm \in Psm /\ terms \in [Packet -> Record]
    BY <1>h, <2>3 DEF HandlerTyped, Psm
  <2>5. \/ SetRow([row EXCEPT !.psm = psm, !.status = RunStatus(psm, Required),
                              !.shown = shown, !.terms = terms])
        \/ KeepRow
    BY <1>4 DEF Store
  <2>6. RunStatus(psm, Required) \in Status BY RunStatusTyped
  <2>7. \/ handler' = [handler EXCEPT ![h] = [IdleHandler EXCEPT !.pc = "anchor",
                                                                 !.packet = e.packet]]
        \/ handler' = [handler EXCEPT ![h] = IdleHandler]
    BY <1>4 DEF Store
  <2>8. HandlerTyped([IdleHandler EXCEPT !.pc = "anchor", !.packet = e.packet])
    BY <2>1, IdleTyped DEF HandlerTyped, HandlerFields
  <2>9. HandlersTyped' BY <2>7, <2>8, IdleTyped, HandlerUpdate DEF TypeInv
  <2> HIDE DEF psm, terms, shown
  <2>10. RowTyped(row')
    BY <2>4, <2>5, <2>6 DEF SetRow, KeepRow, TypeInv, RowTyped, RowFields
  <2>11. everDone' \subseteq Packet BY <2>5 DEF SetRow, KeepRow, TypeInv, RestTyped
  <2> QED BY <1>0, <1>4, <2>9, <2>10, <2>11 DEF Store, TypeInv, RestTyped
<1>5. CASE Anchor(h)
  <2>1. RowTyped(row')
    BY <1>5, <1>h DEF Anchor, SetRow, TypeInv, RowTyped, RowFields, HandlerTyped
  <2>2. everDone' \subseteq Packet BY <1>5 DEF Anchor, SetRow, TypeInv, RestTyped
  <2>3. HandlersTyped' BY <1>5, IdleTyped, HandlerUpdate DEF Anchor, TypeInv
  <2> QED BY <1>0, <1>5, <2>1, <2>2, <2>3 DEF Anchor, TypeInv, RestTyped
<1> QED BY <1>1, <1>2, <1>3, <1>4, <1>5 DEF HandlerStep

LEMMA TypeInvStep == TypeInv /\ [Next]_vars => TypeInv'
<1> SUFFICES ASSUME TypeInv, [Next]_vars PROVE TypeInv' OBVIOUS
<1>1. CASE Crash
  <2>1. TicksTyped' BY <1>1, IdleTyped DEF Crash, TicksTyped
  <2>2. HandlersTyped' BY <1>1, IdleTyped DEF Crash, HandlersTyped
  <2>3. CallsTyped' BY <1>1, IdleTyped DEF Crash, CallsTyped, CallTyped
  <2> QED BY <1>1, <2>1, <2>2, <2>3 DEF Crash, TypeInv, RestTyped, KeepRow
<1>2. CASE UNCHANGED vars
  BY <1>2 DEF vars, TypeInv, TicksTyped, HandlersTyped, CallsTyped, RestTyped
<1> QED BY <1>1, <1>2, TurnTyped, CallStepTyped, TickStepTyped, HandlerStepTyped DEF Next

\* The row, the ledger and everything the actors hold keep their types.
THEOREM LifecycleTypeCorrect == Spec => []TypeOK
<1>1. TypeInv => TypeOK
  BY DEF TypeInv, RowTyped, TicksTyped, TickTyped, HandlersTyped, HandlerTyped, CallsTyped,
         RestTyped, TypeOK, RowOK, CallRecord, Record, Kicks, Psm, Live
<1> QED BY <1>1, TypeInvInit, TypeInvStep, PTL DEF Spec

-----------------------------------------------------------------------------
(* No copy of the packet states shows a cloud packet completed before the  *)
(* provider said so, and everything that was done is remembered.           *)

Honest(psm, said) == \A p \in Cloud : psm[p] = "completed" => p \in said

Earned == Packet \subseteq everDone /\ Cloud \subseteq vouched

RowGood ==
  /\ Honest(row.psm, vouched)
  /\ \A p \in Packet : row.psm[p] \in DoneStates => p \in everDone
  /\ row.status = "completed" => Earned

\* A tick that says "completed", and one that invokes a packet.
TickGood(t) ==
  /\ Honest(tick[t].psm, vouched)
  /\ "completed" \in tick[t].say => Earned
  /\ tick[t].pc \in {"mark", "call"} => Deps[tick[t].target] \subseteq everDone
  /\ tick[t].pc = "call" => call[t].packet = tick[t].target

HandlerGood(h) ==
  /\ Honest(handler[h].psm, vouched)
  /\ Bucket(handler[h].word) = "positive_terminal" => handler[h].packet \in vouched

\* The cloud agent accepts, it never reports a result by itself.
CallsGood ==
  /\ \A a \in Caller : call[a].packet \in Cloud => call[a].outcome # "completed"
  /\ \A p \in Cloud : ledger[p] # "completed"

Good ==
  /\ RowGood
  /\ \A t \in Ticks : TickGood(t)
  /\ \A h \in Handlers : HandlerGood(h)
  /\ CallsGood
  /\ sent["completed"] > 0 => Earned

LifecycleInv == TypeInv /\ Good

LEMMA QueuedHonest == Honest(Queued, vouched)
BY PacketFacts DEF Honest, Queued

LEMMA GoodInit == Init => Good
<1> SUFFICES ASSUME Init PROVE Good OBVIOUS
<1>q. \A p \in Packet : Queued[p] = "queued" BY DEF Queued
<1>1. RowGood
  <2>1. row.psm = Queued /\ row.status = RunStatus(Queued, Required) BY DEF Init, Shell
  <2>2. RunStatus(Queued, Required) # "completed"
    <3>1. CASE Packet = {}
      BY <3>1 DEF RunStatus, Packet, ToSet, Queued
    <3>2. CASE Packet # {} BY <1>q, <3>2, QueuedTyped, CompletedRun
    <3> QED BY <3>1, <3>2
  <2> QED BY <1>q, <2>1, <2>2, QueuedHonest DEF RowGood, DoneStates
<1>2. \A t \in Ticks : TickGood(t) BY QueuedHonest DEF Init, TickGood, IdleTick
<1>3. \A h \in Handlers : HandlerGood(h)
  <2>1. Bucket("running") # "positive_terminal" BY DEF Bucket, NonTerminalWords, PositiveWords
  <2> QED BY <2>1, QueuedHonest DEF Init, HandlerGood, IdleHandler
<1>4. CallsGood BY PacketFacts DEF Init, CallsGood, NoCall
<1>5. sent["completed"] = 0 BY DEF Init, Milestone
<1> QED BY <1>1, <1>2, <1>3, <1>4, <1>5 DEF Good

\* What was done and what was vouched for is never forgotten.
LEMMA Monotone == TypeInv /\ [Next]_vars => everDone \subseteq everDone' /\ vouched \subseteq vouched'
<1> SUFFICES ASSUME TypeInv, [Next]_vars PROVE everDone \subseteq everDone' /\ vouched \subseteq vouched'
  OBVIOUS
<1>1. vouched \subseteq vouched'
  BY DEF Next, vars, Kickoff, Finalize, Supersede, Crash, CallStep, Bind, Trigger, StopWaiting,
         RunLocally, BeginDirect, BeginPeriodic, TickStep, Lease, Leave, Enter,
         ReadForReconcile, Reconcile, Advance, AdvanceNothing, Mark, Finish, Report,
         SendSucceeds, SendFails, Flag, HandlerStep, Intake, Load, Store, Anchor, Receive
<1>2. everDone \subseteq everDone'
  <2>1. (KeepRow \/ \E new : SetRow(new)) => everDone \subseteq everDone' BY DEF KeepRow, SetRow
  <2>2. CASE UNCHANGED vars BY <2>2 DEF vars
  <2>3. CASE Kickoff \/ Finalize \/ Supersede \/ Crash
    BY <2>1, <2>3 DEF Kickoff, Finalize, Supersede, Crash
  <2>4. ASSUME NEW a \in Caller, CallStep(a) PROVE everDone \subseteq everDone'
    BY <2>1, <2>4 DEF CallStep, Bind, Trigger, StopWaiting, RunLocally
  <2>5. ASSUME NEW t \in Ticks, BeginDirect(t) \/ \E kind \in {"run", "thread"} : BeginPeriodic(t, kind)
        PROVE  everDone \subseteq everDone'
    BY <2>1, <2>5 DEF BeginDirect, BeginPeriodic
  <2>6. ASSUME NEW t \in Ticks, TickStep(t) PROVE everDone \subseteq everDone'
    BY <2>1, <2>6 DEF TickStep, Lease, Leave, Enter, ReadForReconcile, Reconcile, Advance,
                      AdvanceNothing, Mark, Finish, Report, SendSucceeds, SendFails, Flag
  <2>7. ASSUME NEW h \in Handlers,
               \/ HandlerStep(h)
               \/ \E p \in Cloud, word \in Word, at \in Time : Receive(h, p, word, at)
        PROVE  everDone \subseteq everDone'
    BY <2>1, <2>7 DEF HandlerStep, Intake, Load, Store, Anchor, Receive
  <2> QED BY <2>2, <2>3, <2>4, <2>5, <2>6, <2>7 DEF Next
<1> QED BY <1>1, <1>2

\* A write of an honest copy leaves a good row, with the old status or with
\* the one the copy calls for.
LEMMA RowWritten ==
  ASSUME TypeInv, RowGood, everDone \subseteq everDone', vouched \subseteq vouched',
         NEW new, SetRow(new), new.psm \in Psm, Honest(new.psm, vouched),
         new.status \in {row.status, RunStatus(new.psm, Required), "canceled"}
  PROVE  RowGood'
<1>1. row' = new BY DEF SetRow
<1>2. Honest(row'.psm, vouched') BY <1>1 DEF Honest
<1>3. \A p \in Packet : row'.psm[p] \in DoneStates => p \in everDone' BY <1>1 DEF SetRow
<1>4. ASSUME row'.status = "completed" PROVE Earned'
  <2>1. CASE row'.status = row.status
    BY <1>4, <2>1 DEF RowGood, Earned
  <2>2. CASE RunStatus(new.psm, Required) = "completed"
    <3>1. \A p \in Packet : new.psm[p] = "completed" BY <2>2, CompletedRun
    <3>2. Packet \subseteq everDone' BY <1>1, <1>3, <3>1 DEF DoneStates
    <3>3. Cloud \subseteq vouched' BY <3>1, PacketFacts DEF Honest
    <3> QED BY <3>2, <3>3 DEF Earned
  <2> QED BY <1>1, <1>4, <2>1, <2>2
<1> QED BY <1>2, <1>3, <1>4 DEF RowGood

LEMMA RowKept ==
  ASSUME RowGood, KeepRow, everDone \subseteq everDone', vouched \subseteq vouched'
  PROVE  RowGood'
BY DEF RowGood, KeepRow, Honest, Earned

\* Actors that a step does not touch stay good.
LEMMA TickKept ==
  ASSUME NEW t \in Ticks, TickGood(t), UNCHANGED tick[t], call'[t].packet = call[t].packet,
         everDone \subseteq everDone', vouched \subseteq vouched'
  PROVE  TickGood(t)'
BY DEF TickGood, Honest, Earned

LEMMA HandlersKept ==
  ASSUME \A h \in Handlers : HandlerGood(h), UNCHANGED handler, vouched \subseteq vouched'
  PROVE  \A h \in Handlers : HandlerGood(h)'
BY DEF HandlerGood, Honest

-----------------------------------------------------------------------------
(* The steps. *)

Onward == everDone \subseteq everDone' /\ vouched \subseteq vouched'

\* An invocation changes its own record and the ledger; its packet stays, and
\* a cloud packet is never given the outcome "completed".
LEMMA CallStepGood ==
  ASSUME TypeInv, Good, Onward, NEW a \in Caller, CallStep(a)
  PROVE  Good'
<1>c. /\ CallTyped(call[a]) /\ DOMAIN call[a] = {"stage", "packet", "outcome"}
      /\ DOMAIN call = Caller /\ DOMAIN ledger = Packet
  BY DEF TypeInv, CallsTyped, CallRecord, RestTyped
<1>1. /\ UNCHANGED <<tick, handler, sent, vouched>>
      /\ \A b \in Caller : call'[b].packet = call[b].packet
  <2>1. UNCHANGED <<tick, handler, sent, vouched>>
    BY DEF CallStep, Bind, Trigger, StopWaiting, RunLocally
  <2>2. \/ \E x : call' = [call EXCEPT ![a].stage = x]
        \/ \E o : EndCall(a, o)
    BY DEF CallStep, Bind, Trigger, StopWaiting, RunLocally
  <2>3. ASSUME NEW x, call' = [call EXCEPT ![a].stage = x]
        PROVE  \A b \in Caller : call'[b].packet = call[b].packet
    BY <1>c, <2>3
  <2>4. ASSUME NEW o, EndCall(a, o)
        PROVE  \A b \in Caller : call'[b].packet = call[b].packet
    <3>1. call' = [call EXCEPT ![a] = [call[a] EXCEPT !.stage = "done", !.outcome = o]]
      BY <2>4 DEF EndCall
    <3> QED BY <1>c, <3>1
  <2> QED BY <2>1, <2>2, <2>3, <2>4
<1>2. RowGood'
  <2>1. CASE KeepRow BY <2>1, RowKept DEF Good, Onward
  <2>2. CASE SetRow([row EXCEPT !.bound = call[a].packet])
    <3> DEFINE new == [row EXCEPT !.bound = call[a].packet]
    <3>1. new.psm = row.psm /\ new.status = row.status BY DEF TypeInv, RowTyped, RowFields
    <3>2. SetRow(new) BY <2>2
    <3>3. row.psm \in Psm /\ Honest(row.psm, vouched) BY DEF TypeInv, RowTyped, Good, RowGood
    <3> HIDE DEF new
    <3> QED BY <3>1, <3>2, <3>3, RowWritten DEF Good, Onward
  <2> QED BY <2>1, <2>2 DEF CallStep, Bind, Trigger, StopWaiting, RunLocally
<1>3. ASSUME NEW o \in Outcome, EndCall(a, o), call[a].packet \in Cloud => o # "completed"
      PROVE  CallsGood'
  <2>1. \A b \in Caller : call'[b].outcome = IF b = a THEN o ELSE call[b].outcome
    BY <1>3, <1>c DEF EndCall
  <2>2. \A p \in Packet : ledger'[p] = IF p = call[a].packet THEN o ELSE ledger[p]
    BY <1>3, <1>c DEF EndCall
  <2> QED BY <1>1, <1>3, <2>1, <2>2, PacketFacts DEF CallsGood, Good
<1>4. CallsGood'
  <2>1. ASSUME UNCHANGED ledger, NEW x, call' = [call EXCEPT ![a].stage = x] PROVE CallsGood'
    <3>1. \A b \in Caller : call'[b].outcome = call[b].outcome BY <1>c, <2>1
    <3> QED BY <1>1, <2>1, <3>1 DEF CallsGood, Good
  <2>2. CASE Bind(a)
    BY <1>3, <2>1, <2>2 DEF Bind, Outcome
  <2>3. CASE Trigger(a)
    BY <1>3, <2>1, <2>3 DEF Trigger, Outcome
  <2>4. CASE StopWaiting(a)
    BY <1>3, <2>4 DEF StopWaiting, Outcome
  <2>5. CASE RunLocally(a)
    <3>1. call[a].packet \notin Cloud BY <1>c, <2>5 DEF RunLocally, CallTyped
    <3> QED BY <1>3, <2>5, <3>1 DEF RunLocally, Outcome
  <2> QED BY <2>2, <2>3, <2>4, <2>5 DEF CallStep
<1>5. \A t \in Ticks : TickGood(t)'
  BY <1>1, TickKept DEF Good, Onward, Caller
<1>6. \A h \in Handlers : HandlerGood(h)' BY <1>1, HandlersKept DEF Good, Onward
<1> QED BY <1>1, <1>2, <1>4, <1>5, <1>6 DEF Good, Onward, Earned

LEMMA TurnGood ==
  ASSUME TypeInv, Good, Onward, Kickoff \/ Finalize \/ Supersede
  PROVE  Good'
<1>1. /\ UNCHANGED <<tick, handler, sent, vouched, ledger>>
      /\ \A t \in Ticks : call'[t] = call[t]
  BY RunAssumption DEF Kickoff, Finalize, Supersede, TypeInv, CallsTyped, Caller
<1>2. \A t \in Ticks : TickGood(t)' BY <1>1, TickKept DEF Good, Onward
<1>3. \A h \in Handlers : HandlerGood(h)' BY <1>1, HandlersKept DEF Good, Onward
<1>d. Delegate \in Caller /\ DOMAIN call = Caller /\ call[Delegate] \in CallRecord
  BY DEF Caller, TypeInv, CallsTyped
<1>4. CallsGood'
  <2>1. call'[Delegate].packet \in Cloud => call'[Delegate].outcome # "completed"
    <3>1. CASE Kickoff
      <4>1. CASE call' = [call EXCEPT ![Delegate].stage = "done"]
        BY <1>d, <4>1 DEF Good, CallsGood, CallRecord
      <4>2. CASE \E p \in Packet : call' = [call EXCEPT ![Delegate] = NewCall(p)]
        BY <1>d, <4>2 DEF NewCall
      <4> QED BY <3>1, <4>1, <4>2 DEF Kickoff
    <3>2. CASE Finalize BY <1>d, <3>2, PacketFacts DEF Finalize, NoCall
    <3>3. CASE Supersede BY <1>d, <3>3 DEF Supersede, Good, CallsGood
    <3> QED BY <3>1, <3>2, <3>3
  <2> QED BY <1>1, <2>1 DEF Good, CallsGood, Caller
<1>5. RowGood'
  <2>1. CASE Kickoff BY <2>1, RowKept DEF Kickoff, Good, Onward
  <2>2. CASE Finalize
    <3> DEFINE p   == call[Delegate].packet
               o   == call[Delegate].outcome
               psm == IF p = NoPacket THEN Queued
                      ELSE [Queued EXCEPT ![p] = StateOfOutcome(o)]
               new == FinalizeRow(row, p, o)
    <3>1. p \in Packet \cup {NoPacket} BY <1>d DEF CallRecord
    <3>2. psm \in Psm BY <3>1, OutcomeState, QueuedTyped DEF Psm
    <3>3. Honest(psm, vouched)
      <4>1. p \in Cloud => StateOfOutcome(o) # "completed"
        BY <1>d, OutcomeState DEF Good, CallsGood
      <4> HIDE DEF p, o
      <4> QED BY <4>1, QueuedHonest, PacketFacts DEF Honest, Queued
    <3>4. SetRow(new) BY <2>2 DEF Finalize
    <3> HIDE DEF p, o
    <3>5. new.psm = psm /\ new.status = RunStatus(psm, Required)
      BY DEF FinalizeRow, TypeInv, RowTyped, RowFields
    <3> HIDE DEF new, psm
    <3> QED BY <3>2, <3>3, <3>4, <3>5, RowWritten DEF Good, Onward
  <2>3. CASE Supersede
    <3>1. PICK new \in {row, [row EXCEPT !.status = "canceled"]} : SetRow(new)
      BY <2>3 DEF Supersede
    <3>2. new.psm = row.psm /\ new.status \in {row.status, "canceled"}
      BY DEF TypeInv, RowTyped, RowFields
    <3>3. row.psm \in Psm /\ Honest(row.psm, vouched) BY DEF TypeInv, RowTyped, Good, RowGood
    <3> QED BY <3>1, <3>2, <3>3, RowWritten DEF Good, Onward
  <2> QED BY <2>1, <2>2, <2>3
<1> QED BY <1>1, <1>2, <1>3, <1>4, <1>5 DEF Good, Onward, Earned

\* A callback stores the copy it loaded with its packet moved as the authority
\* says: completed only when it was so before or the provider says so.
LEMMA HandlerStepGood ==
  ASSUME TypeInv, Good, Onward, NEW h \in Handlers,
         \/ HandlerStep(h)
         \/ \E p \in Cloud, word \in Word, at \in Time : Receive(h, p, word, at)
  PROVE  Good'
<1>h. HandlerTyped(handler[h]) /\ DOMAIN handler = Handlers /\ HandlerGood(h)
  BY DEF TypeInv, HandlersTyped, Good
<1>1. UNCHANGED <<tick, call, ledger, sent>>
  BY DEF HandlerStep, Intake, Load, Store, Anchor, Receive
<1>2. \A t \in Ticks : TickGood(t)' BY <1>1, TickKept DEF Good, Onward
<1>3. CallsGood' BY <1>1 DEF Good, CallsGood
<1>r. Bucket("running") # "positive_terminal" BY DEF Bucket, NonTerminalWords, PositiveWords
\* Only h moves, to a record r.
<1>4. ASSUME NEW r, handler' = [handler EXCEPT ![h] = r], Honest(r.psm, vouched'),
             Bucket(r.word) = "positive_terminal" => r.packet \in vouched'
      PROVE  \A g \in Handlers : HandlerGood(g)'
  <2>1. \A g \in Handlers : handler'[g] = IF g = h THEN r ELSE handler[g] BY <1>4, <1>h
  <2>2. ASSUME NEW g \in Handlers, g # h PROVE HandlerGood(g)'
    BY <2>1, <2>2 DEF Good, HandlerGood, Honest, Onward
  <2>3. HandlerGood(h)' BY <1>4, <2>1 DEF HandlerGood
  <2> QED BY <2>2, <2>3
<1>i. Honest(IdleHandler.psm, vouched') /\ IdleHandler.word = "running"
      /\ DOMAIN IdleHandler = HandlerFields
  BY PacketFacts DEF IdleHandler, Honest, Queued, HandlerFields
<1>5. ASSUME NEW p \in Cloud, NEW word \in Word, NEW at \in Time, Receive(h, p, word, at)
      PROVE  RowGood' /\ \A g \in Handlers : HandlerGood(g)'
  <2> DEFINE r == [IdleHandler EXCEPT !.pc = "check", !.packet = p, !.word = word, !.at = at]
  <2>1. r.psm = IdleHandler.psm /\ r.word = word /\ r.packet = p
    BY <1>i DEF HandlerFields
  <2>2. handler' = [handler EXCEPT ![h] = r] BY <1>5 DEF Receive
  <2>3. Bucket(word) = "positive_terminal" => p \in vouched' BY <1>5 DEF Receive
  <2> HIDE DEF r
  <2>4. \A g \in Handlers : HandlerGood(g)' BY <1>4, <1>i, <2>1, <2>2, <2>3
  <2> QED BY <1>5, <2>4, RowKept DEF Receive, Good, Onward
<1>6. CASE Intake(h)
  <2> DEFINE r == [handler[h] EXCEPT !.pc = "load"]
  <2>1. r.psm = handler[h].psm /\ r.word = handler[h].word /\ r.packet = handler[h].packet
    BY <1>h DEF HandlerTyped, HandlerFields
  <2>2. handler' = [handler EXCEPT ![h] = IdleHandler] \/ handler' = [handler EXCEPT ![h] = r]
    BY <1>6 DEF Intake
  <2>3. Honest(handler[h].psm, vouched') BY <1>h DEF HandlerGood, Honest, Onward
  <2> HIDE DEF r
  <2>4. ASSUME handler' = [handler EXCEPT ![h] = IdleHandler]
        PROVE  \A g \in Handlers : HandlerGood(g)'
    BY <1>4, <1>i, <1>r, <2>4
  <2>5. ASSUME handler' = [handler EXCEPT ![h] = r]
        PROVE  \A g \in Handlers : HandlerGood(g)'
    <3>1. Bucket(r.word) = "positive_terminal" => r.packet \in vouched'
      BY <1>h, <2>1 DEF HandlerGood, Onward
    <3>2. Honest(r.psm, vouched') BY <2>1, <2>3 DEF Honest
    <3> QED BY <1>4, <2>5, <3>1, <3>2
  <2>6. RowGood' BY <1>6, RowKept DEF Intake, Good, Onward
  <2> QED BY <1>1, <1>2, <1>3, <2>2, <2>4, <2>5, <2>6 DEF Good, Onward, Earned
<1>7. CASE Load(h)
  <2> DEFINE r == [handler[h] EXCEPT !.pc = "store", !.psm = row.psm, !.kick = row.kick,
                                     !.terms = row.terms]
  <2>1. r.psm = row.psm /\ r.word = handler[h].word /\ r.packet = handler[h].packet
    BY <1>h DEF HandlerTyped, HandlerFields
  <2>2. handler' = [handler EXCEPT ![h] = r] BY <1>7 DEF Load
  <2>3. Honest(row.psm, vouched') /\ row' = row
    BY <1>7 DEF Load, KeepRow, Good, RowGood, Honest, Onward
  <2> HIDE DEF r
  <2>4. Bucket(r.word) = "positive_terminal" => r.packet \in vouched'
    BY <1>h, <2>1 DEF HandlerGood, Onward
  <2>5. Honest(r.psm, vouched') BY <2>1, <2>3 DEF Honest
  <2>6. \A g \in Handlers : HandlerGood(g)' BY <1>4, <2>2, <2>4, <2>5
  <2>7. RowGood' BY <1>7, RowKept DEF Load, Good, Onward
  <2> QED BY <1>1, <1>2, <1>3, <2>6, <2>7 DEF Good, Onward, Earned
<1>8. CASE Store(h)
  <2> DEFINE e == handler[h]
             answer == Authority(e.psm[e.packet], DesiredState(e.word), e.at,
                                 e.terms[e.packet])
             psm    == [e.psm EXCEPT ![e.packet] = answer.state]
             terms  == [e.terms EXCEPT ![e.packet] = answer.rec]
             shown  == Shown(psm, e.kick)
             new    == [row EXCEPT !.psm = psm, !.status = RunStatus(psm, Required),
                                   !.shown = shown, !.terms = terms]
             r      == [IdleHandler EXCEPT !.pc = "anchor", !.packet = e.packet]
  <2>1. e.packet \in Cloud /\ e.packet \in Packet
    BY <1>8, <1>h, PacketFacts DEF Store, HandlerTyped
  <2>2. /\ e.psm[e.packet] \in Live /\ e.terms[e.packet] \in Record
        /\ DesiredState(e.word) \in Live /\ e.at \in Stamp
    BY <1>h, <2>1, WordState DEF HandlerTyped, Psm
  <2>3. answer.state \in {e.psm[e.packet], DesiredState(e.word), "failed"}
        /\ answer.state \in Live
    BY <2>2, AuthorityState DEF Live, PacketState
  <2>4. answer.state = "completed" => e.packet \in vouched
    <3>1. e.psm[e.packet] = "completed" => e.packet \in vouched
      BY <1>h, <2>1 DEF HandlerGood, Honest
    <3>2. DesiredState(e.word) = "completed" => e.packet \in vouched
      BY <1>h, WordState DEF HandlerGood
    <3> HIDE DEF answer, e
    <3> QED BY <2>3, <3>1, <3>2
  <2> HIDE DEF answer
  <2>5. psm \in Psm /\ Honest(psm, vouched)
    BY <1>h, <2>3, <2>4, PacketFacts DEF HandlerGood, Honest, HandlerTyped, Psm
  <2>6. SetRow(new) \/ KeepRow BY <1>8 DEF Store, answer
  <2>7. handler' = [handler EXCEPT ![h] = r] \/ handler' = [handler EXCEPT ![h] = IdleHandler]
    BY <1>8 DEF Store
  <2>8. r.psm = IdleHandler.psm /\ r.word = IdleHandler.word
    BY <1>i DEF HandlerFields
  <2> HIDE DEF psm, terms, shown, r, e
  <2>9. new.psm = psm /\ new.status = RunStatus(psm, Required)
    BY DEF TypeInv, RowTyped, RowFields
  <2> HIDE DEF new
  <2>10. RowGood' BY <2>5, <2>6, <2>9, RowWritten, RowKept DEF Good, Onward
  <2>11. Honest(r.psm, vouched') BY <1>i, <2>8 DEF Honest
  <2>12. \A g \in Handlers : HandlerGood(g)' BY <1>4, <1>i, <1>r, <2>7, <2>8, <2>11
  <2> QED BY <1>1, <1>2, <1>3, <2>10, <2>12 DEF Good, Onward, Earned
<1>9. CASE Anchor(h)
  <2> DEFINE new == [row EXCEPT !.anchor = handler[h].packet]
  <2>1. new.psm = row.psm /\ new.status = row.status BY DEF TypeInv, RowTyped, RowFields
  <2>2. SetRow(new) /\ handler' = [handler EXCEPT ![h] = IdleHandler] BY <1>9 DEF Anchor
  <2>3. row.psm \in Psm /\ Honest(row.psm, vouched) BY DEF TypeInv, RowTyped, Good, RowGood
  <2> HIDE DEF new
  <2>4. RowGood' BY <2>1, <2>2, <2>3, RowWritten DEF Good, Onward
  <2>5. \A g \in Handlers : HandlerGood(g)' BY <1>4, <1>i, <1>r, <2>2
  <2> QED BY <1>1, <1>2, <1>3, <2>4, <2>5 DEF Good, Onward, Earned
<1>10. CASE \E p \in Cloud, word \in Word, at \in Time : Receive(h, p, word, at)
  BY <1>1, <1>2, <1>3, <1>5, <1>10 DEF Good, Onward, Earned
<1> QED BY <1>6, <1>7, <1>8, <1>9, <1>10 DEF HandlerStep

-----------------------------------------------------------------------------
(* Ticks. *)

\* Only t moves, to a record r; no other tick's invocation changes its packet.
LEMMA TickGoes ==
  ASSUME TypeInv, Good, Onward, NEW t \in Ticks, NEW r,
         tick' = [tick EXCEPT ![t] = r],
         \A u \in Ticks : u # t => call'[u].packet = call[u].packet,
         Honest(r.psm, vouched'),
         "completed" \in r.say => Earned',
         r.pc \in {"mark", "call"} => Deps[r.target] \subseteq everDone',
         r.pc = "call" => call'[t].packet = r.target
  PROVE  \A u \in Ticks : TickGood(u)'
<1>1. \A u \in Ticks : tick'[u] = IF u = t THEN r ELSE tick[u] BY DEF TypeInv, TicksTyped
<1>2. ASSUME NEW u \in Ticks, u # t PROVE TickGood(u)'
  BY <1>1, <1>2, TickKept DEF Good, Onward
<1>3. TickGood(t)' BY <1>1 DEF TickGood
<1> QED BY <1>2, <1>3

\* t goes on to x and keeps what it holds.
LEMMA TickPasses ==
  ASSUME TypeInv, Good, Onward, NEW t \in Ticks, NEW x \in {"enter", "reconcile", "flag"},
         tick' = [tick EXCEPT ![t].pc = x], UNCHANGED call
  PROVE  \A u \in Ticks : TickGood(u)'
<1> DEFINE r == [tick[t] EXCEPT !.pc = x]
<1>1. /\ r.pc = x /\ r.psm = tick[t].psm /\ r.say = tick[t].say
  BY DEF TypeInv, TicksTyped, TickTyped, TickFields
<1>2. tick' = [tick EXCEPT ![t] = r] OBVIOUS
<1> HIDE DEF r
<1>3. Honest(r.psm, vouched') BY <1>1 DEF Good, TickGood, Honest, Onward
<1>4. "completed" \in r.say => Earned' BY <1>1 DEF Good, TickGood, Earned, Onward
<1> QED BY <1>1, <1>2, <1>3, <1>4, TickGoes

\* t holds nothing any more.
LEMMA TickRests ==
  ASSUME TypeInv, Good, Onward, NEW t \in Ticks, NEW r,
         tick' = [tick EXCEPT ![t] = r],
         r.pc \notin {"mark", "call"}, r.psm = Queued, r.say = {},
         \A u \in Ticks : u # t => call'[u].packet = call[u].packet
  PROVE  \A u \in Ticks : TickGood(u)'
<1>1. Honest(r.psm, vouched') BY PacketFacts DEF Honest, Queued
<1> QED BY <1>1, TickGoes

LEMMA Resets ==
  ASSUME NEW k, NEW n
  PROVE  LET r == [IdleTick EXCEPT !.pc = "advance", !.kind = k, !.rounds = n]
             q == [IdleTick EXCEPT !.pc = "advance", !.kind = k]
         IN  /\ r.pc = "advance" /\ r.psm = Queued /\ r.say = {}
             /\ q.pc = "advance" /\ q.psm = Queued /\ q.say = {}
BY DEF IdleTick

\* Ticks write the row in Reconcile, Mark, Finish and Flag only.
LEMMA TickStepGood ==
  ASSUME TypeInv, Good, Onward, NEW t \in Ticks,
         \/ BeginDirect(t) \/ TickStep(t)
         \/ \E kind \in {"run", "thread"} : BeginPeriodic(t, kind)
  PROVE  Good'
<1>t. TickTyped(tick[t]) /\ DOMAIN tick[t] = TickFields /\ TickGood(t)
  BY DEF TypeInv, TicksTyped, TickTyped, Good
<1>r. row.psm \in Psm /\ Honest(row.psm, vouched) /\ DOMAIN row = RowFields
  BY DEF TypeInv, RowTyped, Good, RowGood
<1>0. UNCHANGED handler
  BY DEF TickStep, BeginDirect, BeginPeriodic, Lease, Leave, Enter,
         ReadForReconcile, Reconcile, Advance, AdvanceNothing, Mark, Finish, Report,
         SendSucceeds, SendFails, Flag
<1>h. \A h \in Handlers : HandlerGood(h)' BY <1>0, HandlersKept DEF Good, Onward
\* What is left to show of a step that touches nothing but ticks.
<1>q. ASSUME KeepRow, UNCHANGED <<call, ledger, sent>>, \A u \in Ticks : TickGood(u)'
      PROVE  Good'
  <2>1. RowGood' BY <1>q, RowKept DEF Good, Onward
  <2>2. CallsGood' BY <1>q DEF Good, CallsGood
  <2> QED BY <1>h, <1>q, <2>1, <2>2 DEF Good, Earned, Onward
<1>1. ASSUME NEW kind \in {"run", "thread"}, BeginPeriodic(t, kind) PROVE Good'
  <2> DEFINE r == [tick[t] EXCEPT !.pc = "enter", !.kind = kind]
  <2>1. r.pc = "enter" /\ r.psm = tick[t].psm /\ r.say = tick[t].say
    BY <1>t DEF TickFields
  <2>2. tick' = [tick EXCEPT ![t] = r] BY <1>1 DEF BeginPeriodic
  <2> HIDE DEF r
  <2>3. Honest(r.psm, vouched') BY <1>t, <2>1 DEF TickGood, Honest, Onward
  <2>4. "completed" \in r.say => Earned' BY <1>t, <2>1 DEF TickGood, Earned, Onward
  <2>5. \A u \in Ticks : TickGood(u)'
    BY <1>1, <2>1, <2>2, <2>3, <2>4, TickGoes DEF BeginPeriodic
  <2> QED BY <1>1, <1>q, <2>5 DEF BeginPeriodic
<1>2. CASE BeginDirect(t)
  <2> DEFINE r == [tick[t] EXCEPT !.pc = "lease", !.kind = "run"]
  <2>1. r.pc = "lease" /\ r.psm = tick[t].psm /\ r.say = tick[t].say
    BY <1>t DEF TickFields
  <2>2. tick' = [tick EXCEPT ![t] = r] BY <1>2 DEF BeginDirect
  <2> HIDE DEF r
  <2>3. Honest(r.psm, vouched') BY <1>t, <2>1 DEF TickGood, Honest, Onward
  <2>4. "completed" \in r.say => Earned' BY <1>t, <2>1 DEF TickGood, Earned, Onward
  <2>5. \A u \in Ticks : TickGood(u)'
    BY <1>2, <2>1, <2>2, <2>3, <2>4, TickGoes DEF BeginDirect
  <2> QED BY <1>2, <1>q, <2>5 DEF BeginDirect
<1>i. IdleTick.pc = "idle" /\ IdleTick.psm = Queued /\ IdleTick.say = {} BY DEF IdleTick
<1>3. CASE Lease(t)
  <2>1. ASSUME tick' = [tick EXCEPT ![t].pc = "enter"]
        PROVE  \A u \in Ticks : TickGood(u)'
    BY <1>3, <2>1, TickPasses DEF Lease
  <2>2. ASSUME tick' = [tick EXCEPT ![t] = IdleTick]
        PROVE  \A u \in Ticks : TickGood(u)'
    BY <1>3, <1>i, <2>2, TickRests DEF Lease
  <2> QED BY <1>3, <1>q, <2>1, <2>2 DEF Lease
<1>4. CASE Leave(t)
  <2>1. \A u \in Ticks : TickGood(u)' BY <1>4, <1>i, TickRests DEF Leave
  <2> QED BY <1>4, <1>q, <2>1 DEF Leave
<1>5. CASE Enter(t)
  <2>1. \A u \in Ticks : TickGood(u)' BY <1>5, TickPasses DEF Enter
  <2> QED BY <1>5, <1>q, <2>1 DEF Enter
<1>6. CASE ReadForReconcile(t)
  <2> DEFINE r == [tick[t] EXCEPT !.pc = "write", !.psm = row.psm, !.kick = row.kick,
                                  !.was = <<row.status, row.shown>>]
  <2>1. r.pc = "write" /\ r.psm = row.psm /\ r.say = tick[t].say BY <1>t DEF TickFields
  <2>2. tick' = [tick EXCEPT ![t] = r] BY <1>6 DEF ReadForReconcile
  <2> HIDE DEF r
  <2>3. Honest(r.psm, vouched') BY <1>r, <2>1 DEF Honest, Onward
  <2>4. "completed" \in r.say => Earned' BY <1>t, <2>1 DEF TickGood, Earned, Onward
  <2>5. \A u \in Ticks : TickGood(u)'
    BY <1>6, <2>1, <2>2, <2>3, <2>4, TickGoes DEF ReadForReconcile
  <2> QED BY <1>6, <1>q, <2>5 DEF ReadForReconcile
\* A ledger entry of a cloud packet is never "completed".
<1>7. CASE Reconcile(t)
  <2> DEFINE psm   == Reconciled(tick[t].psm)
             shown == Shown(psm, tick[t].kick)
             new   == [row EXCEPT !.psm = psm, !.status = RunStatus(psm, Required),
                                  !.shown = shown]
             r     == [IdleTick EXCEPT !.pc = "advance", !.kind = tick[t].kind]
  <2>1. psm \in Psm BY <1>t, OutcomeState DEF Reconciled, TickTyped, Psm
  <2>2. Honest(psm, vouched)
    <3>1. ASSUME NEW p \in Cloud, psm[p] = "completed" PROVE p \in vouched
      <4>1. psm[p] = IF tick[t].psm[p] \in TerminalStates \/ ledger[p] = "none"
                     THEN tick[t].psm[p] ELSE StateOfOutcome(ledger[p])
        BY PacketFacts DEF Reconciled
      <4>2. StateOfOutcome(ledger[p]) # "completed"
        BY OutcomeState DEF Good, CallsGood
      <4>3. tick[t].psm[p] = "completed" BY <3>1, <4>1, <4>2
      <4> QED BY <1>t, <4>3 DEF TickGood, Honest
    <3> QED BY <3>1 DEF Honest
  <2>3. SetRow(new) \/ KeepRow BY <1>7 DEF Reconcile
  <2>4. tick' = [tick EXCEPT ![t] = r] BY <1>7 DEF Reconcile
  <2>5. r.pc = "advance" /\ r.psm = Queued /\ r.say = {} BY Resets
  <2> HIDE DEF psm, shown, r
  <2>6. new.psm = psm /\ new.status = RunStatus(psm, Required) BY <1>r DEF RowFields
  <2> HIDE DEF new
  <2>7. RowGood' BY <2>1, <2>2, <2>3, <2>6, RowWritten, RowKept DEF Good, Onward
  <2>8. \A u \in Ticks : TickGood(u)' BY <1>7, <2>4, <2>5, TickRests DEF Reconcile
  <2>9. CallsGood' BY <1>7 DEF Reconcile, Good, CallsGood
  <2> QED BY <1>h, <1>7, <2>7, <2>8, <2>9 DEF Good, Earned, Onward, Reconcile
\* The packet taken is runnable: what it depends on is done in the row.
<1>8. CASE Advance(t)
  <2>1. PICK p \in Packet :
          /\ IsNext(p)
          /\ tick' = [tick EXCEPT ![t].pc = "mark", ![t].target = p,
                                  ![t].psm = [row.psm EXCEPT ![p] = "running"],
                                  ![t].kick = row.kick]
    BY <1>8 DEF Advance
  <2> DEFINE copy == [row.psm EXCEPT ![p] = "running"]
             r == [tick[t] EXCEPT !.pc = "mark", !.target = p, !.psm = copy, !.kick = row.kick]
  <2>2. \A d \in Deps[p] : row.psm[d] \in DoneStates
    BY <2>1 DEF IsNext, NextRunnable, Runnable
  <2>3. Deps[p] \subseteq everDone
    <3>1. Deps[p] \subseteq Packet BY RunAssumption
    <3> QED BY <2>2, <3>1 DEF Good, RowGood
  <2>4. Honest(copy, vouched') BY <1>r, PacketFacts DEF Honest, Onward, Psm
  <2>5. tick' = [tick EXCEPT ![t] = r] BY <2>1
  <2> HIDE DEF copy
  <2>6. r.pc = "mark" /\ r.psm = copy /\ r.say = tick[t].say /\ r.target = p
    BY <1>t DEF TickFields
  <2> HIDE DEF r
  <2>7. "completed" \in r.say => Earned' BY <1>t, <2>6 DEF TickGood, Earned, Onward
  <2>8. Honest(r.psm, vouched') BY <2>4, <2>6
  <2>9. Deps[r.target] \subseteq everDone' BY <2>3, <2>6 DEF Onward
  <2>10. \A u \in Ticks : TickGood(u)'
    BY <1>8, <2>5, <2>6, <2>7, <2>8, <2>9, TickGoes DEF Advance
  <2> QED BY <1>8, <1>q, <2>10 DEF Advance
<1>9. CASE AdvanceNothing(t)
  <2> DEFINE r == [tick[t] EXCEPT !.pc = "report", !.rounds = 0]
  <2>1. r.pc = "report" /\ r.psm = tick[t].psm /\ r.say = tick[t].say
    BY <1>t DEF TickFields
  <2>2. tick' = [tick EXCEPT ![t] = r] BY <1>9 DEF AdvanceNothing
  <2> HIDE DEF r
  <2>3. Honest(r.psm, vouched') BY <1>t, <2>1 DEF TickGood, Honest, Onward
  <2>4. "completed" \in r.say => Earned' BY <1>t, <2>1 DEF TickGood, Earned, Onward
  <2>5. \A u \in Ticks : TickGood(u)'
    BY <1>9, <2>1, <2>2, <2>3, <2>4, TickGoes DEF AdvanceNothing
  <2> QED BY <1>9, <1>q, <2>5 DEF AdvanceNothing
<1>c. DOMAIN call = Caller /\ t \in Caller BY DEF TypeInv, CallsTyped, Caller
<1>10. CASE Mark(t)
  <2> DEFINE r   == [tick[t] EXCEPT !.pc = "call"]
             new == [row EXCEPT !.psm = tick[t].psm]
  <2>1. r.pc = "call" /\ r.psm = tick[t].psm /\ r.say = tick[t].say
          /\ r.target = tick[t].target
    BY <1>t DEF TickFields
  <2>2. tick' = [tick EXCEPT ![t] = r] /\ SetRow(new) BY <1>10 DEF Mark
  <2>3. new.psm = tick[t].psm /\ new.status = row.status BY <1>r DEF RowFields
  <2> HIDE DEF r, new
  <2>4. tick[t].psm \in Psm /\ Honest(tick[t].psm, vouched) BY <1>t DEF TickTyped, TickGood
  <2>5. RowGood' BY <2>2, <2>3, <2>4, RowWritten DEF Good, Onward
  <2>6. \A a \in Caller : call'[a] = IF a = t THEN NewCall(tick[t].target) ELSE call[a]
    BY <1>10, <1>c DEF Mark
  <2>7. NewCall(tick[t].target).packet = tick[t].target
          /\ NewCall(tick[t].target).outcome # "completed"
    BY DEF NewCall
  <2>8. CallsGood' BY <1>10, <2>6, <2>7 DEF Mark, Good, CallsGood
  <2>9. Honest(r.psm, vouched') BY <1>t, <2>1 DEF TickGood, Honest, Onward
  <2>10. "completed" \in r.say => Earned' BY <1>t, <2>1 DEF TickGood, Earned, Onward
  <2>11. Deps[r.target] \subseteq everDone'
    BY <1>10, <1>t, <2>1 DEF Mark, At, TickGood, Onward
  <2>12. /\ call'[t].packet = r.target
         /\ \A u \in Ticks : u # t => call'[u].packet = call[u].packet
    BY <1>c, <2>1, <2>6, <2>7 DEF Caller
  <2>13. \A u \in Ticks : TickGood(u)'
    BY <2>1, <2>2, <2>9, <2>10, <2>11, <2>12, TickGoes
  <2> QED BY <1>h, <1>10, <2>5, <2>8, <2>13 DEF Mark, Good, Earned, Onward
\* The invocation was of the target; if that is a cloud packet it has not
\* come back completed.
<1>11. CASE Finish(t)
  <2> DEFINE o     == StateOfOutcome(call[t].outcome)
             psm   == [tick[t].psm EXCEPT ![tick[t].target] = o]
             shown == Shown(psm, tick[t].kick)
             new   == [row EXCEPT !.psm = psm, !.status = RunStatus(psm, Required),
                                  !.shown = shown]
             r     == [IdleTick EXCEPT !.pc = "advance", !.kind = tick[t].kind,
                                       !.rounds = tick[t].rounds + 1]
  <2>1. psm \in Psm BY <1>t, OutcomeState DEF TickTyped, Psm
  <2>2. tick[t].target \in Cloud => o # "completed"
    <3>1. call[t].packet = tick[t].target BY <1>t, <1>11 DEF Finish, At, TickGood
    <3> QED BY <1>c, <3>1, OutcomeState DEF Good, CallsGood
  <2> HIDE DEF o
  <2>3. Honest(psm, vouched)
    BY <1>t, <2>2, PacketFacts DEF TickGood, Honest, TickTyped, Psm
  <2>4. SetRow(new) BY <1>11 DEF Finish, o
  <2>5. tick' = [tick EXCEPT ![t] = r] BY <1>11 DEF Finish
  <2>6. r.pc = "advance" /\ r.psm = Queued /\ r.say = {} BY Resets
  <2> HIDE DEF psm, shown, r
  <2>7. new.psm = psm /\ new.status = RunStatus(psm, Required) BY <1>r DEF RowFields
  <2> HIDE DEF new
  <2>8. RowGood' BY <2>1, <2>3, <2>4, <2>7, RowWritten DEF Good, Onward
  <2>9. \A a \in Caller : call'[a] = IF a = t THEN NoCall ELSE call[a]
    BY <1>11, <1>c DEF Finish
  <2>10. CallsGood'
    <3>1. NoCall.packet \notin Cloud BY PacketFacts DEF NoCall
    <3> QED BY <1>11, <2>9, <3>1 DEF Finish, Good, CallsGood
  <2>11. \A u \in Ticks : TickGood(u)' BY <2>5, <2>6, <2>9, TickRests DEF Caller
  <2> QED BY <1>h, <1>11, <2>8, <2>10, <2>11 DEF Finish, Good, Earned, Onward
\* Only a completed run is told completed.
<1>12. CASE Report(t)
  <2>1. PICK m \in Messages(row) :
          tick' = [tick EXCEPT ![t].pc = IF m = {} THEN "leave" ELSE "send", ![t].say = m]
    BY <1>12 DEF Report
  <2>2. "completed" \in m => row.status = "completed" BY <2>1 DEF Messages
  <2> DEFINE r == [tick[t] EXCEPT !.pc = IF m = {} THEN "leave" ELSE "send", !.say = m]
  <2>3. r.pc \in {"leave", "send"} /\ r.psm = tick[t].psm /\ r.say = m
    BY <1>t DEF TickFields
  <2>4. tick' = [tick EXCEPT ![t] = r] BY <2>1
  <2> HIDE DEF r
  <2>5. Honest(r.psm, vouched') BY <1>t, <2>3 DEF TickGood, Honest, Onward
  <2>6. "completed" \in r.say => Earned'
    BY <2>2, <2>3 DEF Good, RowGood, Earned, Onward
  <2>7. \A u \in Ticks : TickGood(u)'
    BY <1>12, <2>3, <2>4, <2>5, <2>6, TickGoes DEF Report
  <2> QED BY <1>12, <1>q, <2>7 DEF Report
<1>13. CASE SendSucceeds(t)
  <2>1. \A u \in Ticks : TickGood(u)' BY <1>13, TickPasses DEF SendSucceeds
  <2>2. RowGood' BY <1>13, RowKept DEF SendSucceeds, Good, Onward
  <2>3. CallsGood' BY <1>13 DEF SendSucceeds, Good, CallsGood
  <2>4. sent'["completed"] > 0 => "completed" \in tick[t].say \/ sent["completed"] > 0
    BY <1>13 DEF SendSucceeds, Milestone
  <2>5. sent'["completed"] > 0 => Earned'
    BY <1>t, <2>4 DEF TickGood, Good, Earned, Onward
  <2> QED BY <1>h, <2>1, <2>2, <2>3, <2>5 DEF Good
<1>14. CASE SendFails(t) \/ Flag(t)
  <2> DEFINE r   == [tick[t] EXCEPT !.pc = "leave", !.say = {}]
             new == [row EXCEPT !.told = @ \cup tick[t].say]
  <2>1. r.pc = "leave" /\ r.psm = tick[t].psm /\ r.say = {} BY <1>t DEF TickFields
  <2>2. tick' = [tick EXCEPT ![t] = r] BY <1>14 DEF SendFails, Flag
  <2> HIDE DEF r
  <2>3. Honest(r.psm, vouched') BY <1>t, <2>1 DEF TickGood, Honest, Onward
  <2>4. UNCHANGED call BY <1>14 DEF SendFails, Flag
  <2>5. \A u \in Ticks : TickGood(u)' BY <2>1, <2>2, <2>3, <2>4, TickGoes
  <2>6. SetRow(new) \/ KeepRow BY <1>14 DEF SendFails, Flag
  <2>7. new.psm = row.psm /\ new.status = row.status BY <1>r DEF RowFields
  <2> HIDE DEF new
  <2>8. RowGood' BY <1>r, <2>6, <2>7, RowWritten, RowKept DEF Good, Onward
  <2>9. CallsGood' BY <1>14 DEF SendFails, Flag, Good, CallsGood
  <2>10. UNCHANGED sent BY <1>14 DEF SendFails, Flag
  <2> QED BY <1>h, <2>5, <2>8, <2>9, <2>10 DEF Good, Earned, Onward
<1> QED BY <1>1, <1>2, <1>3, <1>4, <1>5, <1>6, <1>7, <1>8, <1>9, <1>10, <1>11, <1>12,
           <1>13, <1>14 DEF TickStep

\* A crash leaves the row, and copies that show nothing.
LEMMA CrashGood == ASSUME TypeInv, Good, Onward, Crash PROVE Good'
<1>1. RowGood' BY RowKept DEF Crash, Good, Onward
<1>2. \A t \in Ticks : TickGood(t)'
  <2>1. \A t \in Ticks : tick'[t] = IdleTick BY DEF Crash
  <2>2. Honest(Queued, vouched') BY PacketFacts DEF Honest, Queued
  <2> QED BY <2>1, <2>2 DEF TickGood, IdleTick
<1>3. \A h \in Handlers : HandlerGood(h)'
  <2>1. \A h \in Handlers : handler'[h] = IdleHandler BY DEF Crash
  <2>2. Bucket("running") # "positive_terminal" BY DEF Bucket, NonTerminalWords, PositiveWords
  <2>3. Honest(Queued, vouched') BY PacketFacts DEF Honest, Queued
  <2> QED BY <2>1, <2>2, <2>3 DEF HandlerGood, IdleHandler
<1>4. CallsGood' BY PacketFacts DEF Crash, Good, CallsGood, NoCall
<1> QED BY <1>1, <1>2, <1>3, <1>4 DEF Crash, Good, Earned, Onward

LEMMA LifecycleInvStep == LifecycleInv /\ [Next]_vars => LifecycleInv'
<1> SUFFICES ASSUME TypeInv, Good, [Next]_vars PROVE TypeInv' /\ Good' BY DEF LifecycleInv
<1>1. TypeInv' BY TypeInvStep
<1>2. Onward BY Monotone DEF Onward
<1>3. Good'
  <2>1. CASE UNCHANGED vars
    <3>1. RowGood' BY <2>1, <1>2, RowKept DEF vars, KeepRow, Good, Onward
    <3>2. \A t \in Ticks : TickGood(t)' BY <2>1, <1>2, TickKept DEF vars, Good, Onward
    <3>3. \A h \in Handlers : HandlerGood(h)' BY <2>1, <1>2, HandlersKept DEF vars, Good, Onward
    <3>4. CallsGood' BY <2>1 DEF vars, Good, CallsGood
    <3> QED BY <2>1, <3>1, <3>2, <3>3, <3>4 DEF vars, Good, Earned
  <2> QED BY <1>2, <2>1, CrashGood, TurnGood, CallStepGood, TickStepGood, HandlerStepGood DEF Next
<1> QED BY <1>1, <1>3

-----------------------------------------------------------------------------
\* No copy of the packet states, held by whomever and however stale, shows a
\* completion nobody vouched for (executionRunStore.js, cursorReceiveCommit.js).
THEOREM LifecycleInvariant == Spec => []LifecycleInv
<1>1. Init => LifecycleInv BY TypeInvInit, GoodInit DEF LifecycleInv
<1> QED BY <1>1, LifecycleInvStep, PTL DEF Spec

\* Whatever copies are written back, no row shows a cloud packet completed
\* before a positive callback for it arrived.
THEOREM CompletionNeedsVouching == Spec => []CompletionIsVouched
<1>1. LifecycleInv => CompletionIsVouched
  BY DEF LifecycleInv, Good, RowGood, Honest, CompletionIsVouched
<1> QED BY <1>1, LifecycleInvariant, PTL

\* Ticks invoke packets only after what these depend on was done.
THEOREM DependenciesComeFirst == Spec => []DependenciesFirst
<1>1. LifecycleInv => DependenciesFirst
  BY DEF LifecycleInv, Good, TickGood, DependenciesFirst
<1> QED BY <1>1, LifecycleInvariant, PTL

\* The founder hears "completed" only of a run all of whose packets were done.
THEOREM CompletionIsEarned == Spec => []CompletedIsEarned
<1>1. LifecycleInv => CompletedIsEarned
  BY DEF LifecycleInv, Good, Earned, CompletedIsEarned
<1> QED BY <1>1, LifecycleInvariant, PTL
-----------------------------------------------------------------------------
(* What each step changes, field by field. *)

LEMMA TickFrame ==
  ASSUME TypeInv, NEW t \in Ticks, TickStep(t)
  PROVE  /\ \A u \in Ticks : u # t => tick'[u] = tick[u]
         /\ UNCHANGED <<active, delegate, handler, received, crashes, dispatched, vouched,
                        ledger>>
         /\ tick[t].pc # "idle"
<1>1. UNCHANGED <<active, delegate, handler, received, crashes, dispatched, vouched, ledger>>
  BY DEF TickStep, Lease, Leave, Enter, ReadForReconcile, Reconcile, Advance, AdvanceNothing,
         Mark, Finish, Report, SendSucceeds, SendFails, Flag
<1>2. tick[t].pc # "idle"
  BY DEF TickStep, Lease, Leave, Enter, ReadForReconcile, Reconcile, Advance, AdvanceNothing,
         Mark, Finish, Report, SendSucceeds, SendFails, Flag, At
<1>3. \A u \in Ticks : u # t => tick'[u] = tick[u]
  BY DEF TickStep, Lease, Leave, Enter, ReadForReconcile, Reconcile, Advance, AdvanceNothing,
         Mark, Finish, Report, SendSucceeds, SendFails, Flag, TypeInv, TicksTyped
<1> QED BY <1>1, <1>2, <1>3

\* From where a tick goes where, and what it then holds.
LEMMA TickTable ==
  ASSUME TypeInv, NEW t \in Ticks
  PROVE  /\ Lease(t) => tick[t].pc = "lease" /\ tick'[t].pc \in {"enter", "idle"}
         /\ Leave(t) => tick[t].pc \in {"leave", "enter", "reconcile", "advance", "report"}
                        /\ tick'[t].pc = "idle"
         /\ Enter(t) => tick[t].pc = "enter" /\ tick'[t].pc = "reconcile"
         /\ ReadForReconcile(t) => /\ tick[t].pc = "reconcile" /\ tick'[t].pc = "write"
                                   /\ tick'[t].psm = row.psm
         /\ Reconcile(t) => tick[t].pc = "write" /\ tick'[t].pc = "advance"
         /\ Advance(t) => /\ tick[t].pc = "advance" /\ tick'[t].pc = "mark"
                          /\ tick'[t].target \in Packet /\ IsNext(tick'[t].target)
                          /\ tick'[t].psm = [row.psm EXCEPT ![tick'[t].target] = "running"]
                          /\ row.status \notin {"blocked", "failed", "review_required"}
         /\ AdvanceNothing(t) => tick[t].pc = "advance" /\ tick'[t].pc = "report"
         /\ Mark(t) => /\ tick[t].pc = "mark" /\ tick'[t].pc = "call"
                       /\ tick'[t].psm = tick[t].psm /\ tick'[t].target = tick[t].target
         /\ Finish(t) => tick[t].pc = "call" /\ tick'[t].pc = "advance"
         /\ Report(t) => /\ tick[t].pc = "report" /\ tick'[t].pc \in {"leave", "send"}
                         /\ tick'[t].say \in Messages(row)
                         /\ tick'[t].pc = "send" => tick'[t].say # {}
         /\ SendSucceeds(t) => /\ tick[t].pc = "send" /\ tick'[t].pc = "flag"
                               /\ tick'[t].say = tick[t].say
         /\ SendFails(t) => tick[t].pc = "send" /\ tick'[t].pc = "leave"
         /\ Flag(t) => tick[t].pc = "flag" /\ tick'[t].pc = "leave"
<1>t. DOMAIN tick = Ticks /\ DOMAIN tick[t] = TickFields BY DEF TypeInv, TicksTyped, TickTyped
<1>i. IdleTick.pc = "idle" BY DEF IdleTick
<1>1. /\ Lease(t) => tick[t].pc = "lease" /\ tick'[t].pc \in {"enter", "idle"}
      /\ Leave(t) => tick[t].pc \in {"leave", "enter", "reconcile", "advance", "report"}
                     /\ tick'[t].pc = "idle"
      /\ Enter(t) => tick[t].pc = "enter" /\ tick'[t].pc = "reconcile"
  BY <1>t, <1>i DEF Lease, Leave, Enter, At, TickFields
<1>2. ReadForReconcile(t) => /\ tick[t].pc = "reconcile" /\ tick'[t].pc = "write"
                             /\ tick'[t].psm = row.psm
  BY <1>t DEF ReadForReconcile, At, TickFields
<1>3. /\ Reconcile(t) => tick[t].pc = "write" /\ tick'[t].pc = "advance"
      /\ Finish(t) => tick[t].pc = "call" /\ tick'[t].pc = "advance"
  <2>1. ASSUME Reconcile(t) PROVE tick[t].pc = "write" /\ tick'[t].pc = "advance"
    BY <1>t, <2>1, Resets DEF Reconcile, At
  <2>2. ASSUME Finish(t) PROVE tick[t].pc = "call" /\ tick'[t].pc = "advance"
    BY <1>t, <2>2, Resets DEF Finish, At
  <2> QED BY <2>1, <2>2
<1>4. Advance(t) => /\ tick[t].pc = "advance" /\ tick'[t].pc = "mark"
                    /\ tick'[t].target \in Packet /\ IsNext(tick'[t].target)
                    /\ tick'[t].psm = [row.psm EXCEPT ![tick'[t].target] = "running"]
                    /\ row.status \notin {"blocked", "failed", "review_required"}
  <2> SUFFICES ASSUME Advance(t)
               PROVE  /\ tick[t].pc = "advance" /\ tick'[t].pc = "mark"
                      /\ tick'[t].target \in Packet /\ IsNext(tick'[t].target)
                      /\ tick'[t].psm = [row.psm EXCEPT ![tick'[t].target] = "running"]
                      /\ row.status \notin {"blocked", "failed", "review_required"}
    OBVIOUS
  <2>1. PICK p \in Packet :
          /\ IsNext(p)
          /\ tick' = [tick EXCEPT ![t].pc = "mark", ![t].target = p,
                                  ![t].psm = [row.psm EXCEPT ![p] = "running"],
                                  ![t].kick = row.kick]
    BY DEF Advance
  <2> DEFINE copy == [row.psm EXCEPT ![p] = "running"]
  <2> HIDE DEF copy
  <2>2. tick'[t].pc = "mark" /\ tick'[t].target = p /\ tick'[t].psm = copy
    BY <1>t, <2>1 DEF TickFields, copy
  <2>3. tick[t].pc = "advance" /\ row.status \notin {"blocked", "failed", "review_required"}
    BY DEF Advance, At, OnHold
  <2> QED BY <2>1, <2>2, <2>3 DEF copy
<1>5. /\ AdvanceNothing(t) => tick[t].pc = "advance" /\ tick'[t].pc = "report"
      /\ Mark(t) => /\ tick[t].pc = "mark" /\ tick'[t].pc = "call"
                    /\ tick'[t].psm = tick[t].psm /\ tick'[t].target = tick[t].target
  BY <1>t DEF AdvanceNothing, Mark, At, TickFields
<1>6. Report(t) => /\ tick[t].pc = "report" /\ tick'[t].pc \in {"leave", "send"}
                   /\ tick'[t].say \in Messages(row)
                   /\ tick'[t].pc = "send" => tick'[t].say # {}
  <2> SUFFICES ASSUME Report(t)
               PROVE  /\ tick[t].pc = "report" /\ tick'[t].pc \in {"leave", "send"}
                      /\ tick'[t].say \in Messages(row)
                      /\ tick'[t].pc = "send" => tick'[t].say # {}
    OBVIOUS
  <2>1. PICK m \in Messages(row) :
          tick' = [tick EXCEPT ![t].pc = IF m = {} THEN "leave" ELSE "send", ![t].say = m]
    BY DEF Report
  <2>2. tick'[t].say = m /\ tick'[t].pc = IF m = {} THEN "leave" ELSE "send"
    BY <1>t, <2>1 DEF TickFields
  <2> QED BY <2>2 DEF Report, At
<1>7. /\ SendSucceeds(t) => /\ tick[t].pc = "send" /\ tick'[t].pc = "flag"
                            /\ tick'[t].say = tick[t].say
      /\ SendFails(t) => tick[t].pc = "send" /\ tick'[t].pc = "leave"
      /\ Flag(t) => tick[t].pc = "flag" /\ tick'[t].pc = "leave"
  BY <1>t DEF SendSucceeds, SendFails, Flag, At, TickFields
<1> QED BY <1>1, <1>2, <1>3, <1>4, <1>5, <1>6, <1>7

\* What a tick writes in the row.
LEMMA TickRow ==
  ASSUME TypeInv, NEW t \in Ticks, TickStep(t)
  PROVE  /\ row'.kick = row.kick /\ row'.anchor = row.anchor /\ row'.terms = row.terms
         /\ ~Flag(t) => row'.told = row.told
         /\ ~Reconcile(t) /\ ~Mark(t) /\ ~Finish(t) =>
              row'.psm = row.psm /\ row'.status = row.status
         /\ Reconcile(t) => LET psm == Reconciled(tick[t].psm) IN
              \/ row'.psm = psm /\ row'.status = RunStatus(psm, Required)
              \/ psm = tick[t].psm /\ row' = row
         /\ Mark(t) => row'.psm = tick[t].psm /\ row'.status = row.status
         /\ Finish(t) =>
              LET psm == [tick[t].psm EXCEPT ![tick[t].target] = StateOfOutcome(call[t].outcome)]
              IN  row'.psm = psm /\ row'.status = RunStatus(psm, Required)
         /\ Flag(t) => row'.told = row.told \cup tick[t].say
<1>r. DOMAIN row = RowFields BY DEF TypeInv, RowTyped
<1>p. \A psm, status, shown :
        LET new == [row EXCEPT !.psm = psm, !.status = status, !.shown = shown]
        IN  /\ new.psm = psm /\ new.status = status /\ new.kick = row.kick
            /\ new.anchor = row.anchor /\ new.terms = row.terms /\ new.told = row.told
  BY <1>r DEF RowFields
<1>1. CASE Reconcile(t)
  <2> DEFINE psm   == Reconciled(tick[t].psm)
             shown == Shown(psm, tick[t].kick)
             status == RunStatus(psm, Required)
             new   == [row EXCEPT !.psm = psm, !.status = status, !.shown = shown]
  <2>1. row' = new \/ (psm = tick[t].psm /\ row' = row)
    BY <1>1 DEF Reconcile, SetRow, KeepRow
  <2>2. new.psm = psm /\ new.status = status /\ new.kick = row.kick
        /\ new.anchor = row.anchor /\ new.terms = row.terms /\ new.told = row.told
    BY <1>p
  <2>3. ~Mark(t) /\ ~Finish(t) /\ ~Flag(t) BY <1>1 DEF Reconcile, Mark, Finish, Flag, At
  <2> HIDE DEF psm, shown, status, new
  <2>4. /\ row'.kick = row.kick /\ row'.anchor = row.anchor /\ row'.terms = row.terms
        /\ row'.told = row.told
        /\ \/ row'.psm = psm /\ row'.status = status
           \/ psm = tick[t].psm /\ row' = row
    BY <2>1, <2>2
  <2> QED BY <1>1, <2>3, <2>4 DEF psm, status
<1>2. CASE Mark(t)
  <2>1. row' = [row EXCEPT !.psm = tick[t].psm] BY <1>2 DEF Mark, SetRow
  <2>2. ~Reconcile(t) /\ ~Finish(t) /\ ~Flag(t) BY <1>2 DEF Reconcile, Mark, Finish, Flag, At
  <2> QED BY <1>r, <1>2, <2>1, <2>2 DEF RowFields
<1>3. CASE Finish(t)
  <2> DEFINE psm   == [tick[t].psm EXCEPT ![tick[t].target] = StateOfOutcome(call[t].outcome)]
             shown == Shown(psm, tick[t].kick)
             status == RunStatus(psm, Required)
             new   == [row EXCEPT !.psm = psm, !.status = status, !.shown = shown]
  <2>1. row' = new BY <1>3 DEF Finish, SetRow
  <2>2. new.psm = psm /\ new.status = status /\ new.kick = row.kick
        /\ new.anchor = row.anchor /\ new.terms = row.terms /\ new.told = row.told
    BY <1>p
  <2>3. ~Reconcile(t) /\ ~Mark(t) /\ ~Flag(t) BY <1>3 DEF Reconcile, Mark, Finish, Flag, At
  <2> HIDE DEF psm, shown, status, new
  <2>4. /\ row'.kick = row.kick /\ row'.anchor = row.anchor /\ row'.terms = row.terms
        /\ row'.told = row.told /\ row'.psm = psm /\ row'.status = status
    BY <2>1, <2>2
  <2> QED BY <1>3, <2>3, <2>4 DEF psm, status
<1>4. CASE Flag(t)
  <2>1. row' = [row EXCEPT !.told = @ \cup tick[t].say] BY <1>4 DEF Flag, SetRow
  <2>2. ~Reconcile(t) /\ ~Mark(t) /\ ~Finish(t) BY <1>4 DEF Reconcile, Mark, Finish, Flag, At
  <2> QED BY <1>r, <1>4, <2>1, <2>2 DEF RowFields
<1>5. CASE ~Reconcile(t) /\ ~Mark(t) /\ ~Finish(t) /\ ~Flag(t)
  <2>1. row' = row
    BY <1>5 DEF TickStep, Lease, Leave, Enter, ReadForReconcile, Advance, AdvanceNothing,
                Report, SendSucceeds, SendFails, KeepRow
  <2> QED BY <1>5, <2>1
<1> QED BY <1>1, <1>2, <1>3, <1>4, <1>5

\* Calls and messages: only Mark and Finish touch the call of a tick, only
\* SendSucceeds is heard.
LEMMA TickCall ==
  ASSUME TypeInv, NEW t \in Ticks, TickStep(t)
  PROVE  /\ \A a \in Caller : a # t => call'[a] = call[a]
         /\ ~Mark(t) /\ ~Finish(t) => call'[t] = call[t]
         /\ Mark(t) => call'[t] = NewCall(tick[t].target)
         /\ Finish(t) => call[t].stage = "done" /\ call'[t] = NoCall
         /\ ~SendSucceeds(t) => sent' = sent
<1>c. DOMAIN call = Caller /\ t \in Caller BY DEF TypeInv, CallsTyped, Caller
<1>1. CASE Mark(t)
  BY <1>c, <1>1 DEF Mark, Finish, At
<1>2. CASE Finish(t)
  BY <1>c, <1>2 DEF Mark, Finish, At
<1>3. CASE ~Mark(t) /\ ~Finish(t)
  BY <1>3 DEF TickStep, Lease, Leave, Enter, ReadForReconcile, Reconcile, Advance, AdvanceNothing,
              Report, SendSucceeds, SendFails, Flag
<1>4. ~SendSucceeds(t) => sent' = sent
  BY DEF TickStep, Lease, Leave, Enter, ReadForReconcile, Reconcile, Advance, AdvanceNothing,
         Mark, Finish, Report, SendFails, Flag
<1> QED BY <1>1, <1>2, <1>3, <1>4

\* The founder's turn and the delegation that supersedes it.
LEMMA TurnTable ==
  ASSUME TypeInv
  PROVE  /\ Kickoff => /\ delegate = "kick" /\ delegate' = "call"
                       /\ UNCHANGED <<row, ledger, tick, handler, crashes, dispatched, sent>>
                       /\ \A a \in Caller : a # Delegate => call'[a] = call[a]
                       /\ \/ call'[Delegate].stage = "done"
                          \/ \E p \in Packet : call'[Delegate] = NewCall(p)
         /\ Finalize => /\ delegate = "call" /\ delegate' = "done"
                        /\ UNCHANGED <<ledger, tick, handler, crashes, dispatched, sent>>
                        /\ \A a \in Caller : a # Delegate => call'[a] = call[a]
                        /\ call[Delegate].stage = "done" /\ call'[Delegate] = NoCall
                        /\ row'.status = RunStatus(row'.psm, Required)
                        /\ row'.told = row.told /\ row'.terms = row.terms
         /\ Supersede => /\ Overlap \/ Resting
                         /\ UNCHANGED <<ledger, delegate, call, tick, handler, crashes,
                                        dispatched, sent>>
                         /\ row'.status \in {row.status, "canceled"} /\ row'.psm = row.psm
                         /\ row'.told = row.told /\ row'.terms = row.terms
                         /\ row'.kick = row.kick /\ row'.anchor = row.anchor
<1>r. DOMAIN row = RowFields BY DEF TypeInv, RowTyped
<1>c. DOMAIN call = Caller /\ Delegate \in Caller /\ call[Delegate] \in CallRecord
  BY DEF TypeInv, CallsTyped, Caller
<1>1. ASSUME Kickoff
      PROVE  /\ delegate = "kick" /\ delegate' = "call"
             /\ UNCHANGED <<row, ledger, tick, handler, crashes, dispatched, sent>>
             /\ \A a \in Caller : a # Delegate => call'[a] = call[a]
             /\ \/ call'[Delegate].stage = "done"
                \/ \E p \in Packet : call'[Delegate] = NewCall(p)
  <2>1. \/ call' = [call EXCEPT ![Delegate] = [call[Delegate] EXCEPT !.stage = "done"]]
        \/ \E p \in Packet : call' = [call EXCEPT ![Delegate] = NewCall(p)]
    BY <1>1 DEF Kickoff
  <2>2. CASE call' = [call EXCEPT ![Delegate] = [call[Delegate] EXCEPT !.stage = "done"]]
    BY <1>1, <1>c, <2>2 DEF Kickoff, KeepRow, CallRecord
  <2>3. CASE \E p \in Packet : call' = [call EXCEPT ![Delegate] = NewCall(p)]
    BY <1>1, <1>c, <2>3 DEF Kickoff, KeepRow
  <2> QED BY <2>1, <2>2, <2>3
<1>2. ASSUME Finalize
      PROVE  /\ delegate = "call" /\ delegate' = "done"
             /\ UNCHANGED <<ledger, tick, handler, crashes, dispatched, sent>>
             /\ \A a \in Caller : a # Delegate => call'[a] = call[a]
             /\ call[Delegate].stage = "done" /\ call'[Delegate] = NoCall
             /\ row'.status = RunStatus(row'.psm, Required)
             /\ row'.told = row.told /\ row'.terms = row.terms
  <2> DEFINE p   == call[Delegate].packet
             o   == call[Delegate].outcome
  <2>1. row' = FinalizeRow(row, p, o) BY <1>2 DEF Finalize, SetRow
  <2> HIDE DEF p, o
  <2>2. /\ FinalizeRow(row, p, o).status = RunStatus(FinalizeRow(row, p, o).psm, Required)
        /\ FinalizeRow(row, p, o).told = row.told /\ FinalizeRow(row, p, o).terms = row.terms
    BY <1>r DEF FinalizeRow, RowFields
  <2> QED BY <1>2, <1>c, <2>1, <2>2 DEF Finalize
<1>3. ASSUME Supersede
      PROVE  /\ Overlap \/ Resting
             /\ UNCHANGED <<ledger, delegate, call, tick, handler, crashes, dispatched, sent>>
             /\ row'.status \in {row.status, "canceled"} /\ row'.psm = row.psm
             /\ row'.told = row.told /\ row'.terms = row.terms
             /\ row'.kick = row.kick /\ row'.anchor = row.anchor
  <2>1. row' = row \/ row' = [row EXCEPT !.status = "canceled"]
    BY <1>3 DEF Supersede, SetRow
  <2> QED BY <1>3, <1>r, <2>1 DEF Supersede, MayStart, RowFields
<1> QED BY <1>1, <1>2, <1>3

LEMMA CallTable ==
  ASSUME TypeInv, NEW a \in Caller, CallStep(a)
  PROVE  /\ UNCHANGED <<delegate, tick, handler, sent, crashes>>
         /\ \A b \in Caller : b # a => call'[b] = call[b]
         /\ call[a].stage \in {"bind", "trigger", "wait", "local"}
         /\ call[a].packet \in Packet /\ call'[a].packet = call[a].packet
         /\ row'.psm = row.psm /\ row'.status = row.status /\ row'.kick = row.kick
         /\ row'.told = row.told /\ row'.anchor = row.anchor /\ row'.terms = row.terms
         /\ \/ /\ call[a].stage = "bind" /\ call'[a].stage = "trigger"
               /\ UNCHANGED <<ledger, dispatched>>
            \/ /\ call[a].stage = "trigger" /\ call'[a].stage = "wait"
               /\ UNCHANGED ledger
               /\ dispatched' = [dispatched EXCEPT ![call[a].packet] = UpTo2(@)]
            \/ /\ call'[a].stage = "done" /\ UNCHANGED dispatched
               /\ \E o \in Outcome : ledger' = [ledger EXCEPT ![call[a].packet] = o]
<1>r. DOMAIN row = RowFields BY DEF TypeInv, RowTyped
<1>c. DOMAIN call = Caller /\ CallTyped(call[a]) /\ DOMAIN call[a] = {"stage", "packet", "outcome"}
  BY DEF TypeInv, CallsTyped, CallRecord
<1>1. UNCHANGED <<delegate, tick, handler, sent, crashes>>
      /\ call[a].stage \in {"bind", "trigger", "wait", "local"}
  BY DEF CallStep, Bind, Trigger, StopWaiting, RunLocally
<1>2. call[a].packet \in Packet BY <1>1, <1>c, PacketFacts DEF CallTyped
<1>3. row'.psm = row.psm /\ row'.status = row.status /\ row'.kick = row.kick
      /\ row'.told = row.told /\ row'.anchor = row.anchor /\ row'.terms = row.terms
  <2>1. row' = row \/ row' = [row EXCEPT !.bound = call[a].packet]
    BY DEF CallStep, Bind, Trigger, StopWaiting, RunLocally, KeepRow, SetRow
  <2> QED BY <1>r, <2>1 DEF RowFields
<1>4. ASSUME NEW o, EndCall(a, o)
      PROVE  /\ \A b \in Caller : b # a => call'[b] = call[b]
             /\ call'[a].packet = call[a].packet /\ call'[a].stage = "done"
             /\ ledger' = [ledger EXCEPT ![call[a].packet] = o]
  BY <1>4, <1>c DEF EndCall
<1>5. ASSUME NEW x, call' = [call EXCEPT ![a].stage = x]
      PROVE  /\ \A b \in Caller : b # a => call'[b] = call[b]
             /\ call'[a].packet = call[a].packet /\ call'[a].stage = x
  BY <1>5, <1>c
<1>6. CASE Bind(a)
  <2>1. CASE call' = [call EXCEPT ![a].stage = "trigger"] /\ UNCHANGED ledger
    BY <1>1, <1>2, <1>3, <1>5, <1>6, <2>1 DEF Bind
  <2>2. CASE EndCall(a, "blocked")
    BY <1>1, <1>2, <1>3, <1>4, <1>6, <2>2 DEF Bind, Outcome
  <2> QED BY <1>6, <2>1, <2>2 DEF Bind
<1>7. CASE Trigger(a)
  <2>1. CASE /\ call' = [call EXCEPT ![a].stage = "wait"]
             /\ dispatched' = [dispatched EXCEPT ![call[a].packet] = UpTo2(@)]
             /\ UNCHANGED ledger
    BY <1>1, <1>2, <1>3, <1>5, <1>7, <2>1 DEF Trigger
  <2>2. CASE (\E o \in {"degraded", "failed"} : EndCall(a, o)) /\ UNCHANGED dispatched
    BY <1>1, <1>2, <1>3, <1>4, <2>2 DEF Outcome
  <2> QED BY <1>7, <2>1, <2>2 DEF Trigger
<1>8. CASE StopWaiting(a)
  BY <1>1, <1>2, <1>3, <1>4, <1>8 DEF StopWaiting, Outcome
<1>9. CASE RunLocally(a)
  BY <1>1, <1>2, <1>3, <1>4, <1>9 DEF RunLocally, Outcome
<1> QED BY <1>6, <1>7, <1>8, <1>9 DEF CallStep

\* The beginning of a tick and of a callback's handling.
Begin(t) == BeginDirect(t) \/ \E kind \in {"run", "thread"} : BeginPeriodic(t, kind)
Arrive(h) == \E p \in Cloud, word \in Word, at \in Time : Receive(h, p, word, at)

LEMMA BeginTable ==
  ASSUME TypeInv, NEW t \in Ticks, Begin(t)
  PROVE  /\ Overlap \/ Resting
         /\ UNCHANGED <<row, delegate, call, ledger, handler, crashes, dispatched, sent>>
         /\ \A u \in Ticks : u # t => tick'[u] = tick[u]
         /\ tick'[t].pc \in {"enter", "lease"}
<1>t. DOMAIN tick = Ticks /\ DOMAIN tick[t] = TickFields BY DEF TypeInv, TicksTyped, TickTyped
<1>1. CASE BeginDirect(t)
  BY <1>1, <1>t DEF BeginDirect, MayStart, KeepRow, TickFields
<1>2. ASSUME NEW kind \in {"run", "thread"}, BeginPeriodic(t, kind)
      PROVE  /\ Overlap \/ Resting
             /\ UNCHANGED <<row, delegate, call, ledger, handler, crashes, dispatched, sent>>
             /\ \A u \in Ticks : u # t => tick'[u] = tick[u]
             /\ tick'[t].pc \in {"enter", "lease"}
  BY <1>2, <1>t DEF BeginPeriodic, MayStart, KeepRow, TickFields
<1> QED BY <1>1, <1>2 DEF Begin

LEMMA ArriveTable ==
  ASSUME TypeInv, NEW h \in Handlers, Arrive(h)
  PROVE  /\ Overlap \/ Resting
         /\ UNCHANGED <<row, delegate, call, ledger, tick, crashes, dispatched, sent>>
         /\ \A g \in Handlers : g # h => handler'[g] = handler[g]
         /\ handler'[h].pc = "check"
<1>h. DOMAIN handler = Handlers BY DEF TypeInv, HandlersTyped
<1>1. PICK p \in Cloud, word \in Word, at \in Time : Receive(h, p, word, at) BY DEF Arrive
<1>2. [IdleHandler EXCEPT !.pc = "check", !.packet = p, !.word = word, !.at = at].pc = "check"
  BY DEF IdleHandler
<1> QED BY <1>h, <1>1, <1>2 DEF Receive, MayStart, KeepRow

LEMMA HandlerTable ==
  ASSUME TypeInv, NEW h \in Handlers, HandlerStep(h)
  PROVE  /\ UNCHANGED <<delegate, call, ledger, tick, crashes, dispatched, sent>>
         /\ \A g \in Handlers : g # h => handler'[g] = handler[g]
         /\ handler[h].pc # "idle"
         /\ row'.told = row.told /\ row'.kick = row.kick
         /\ ~Store(h) => /\ row'.psm = row.psm /\ row'.status = row.status
                         /\ row'.terms = row.terms
         /\ ~Anchor(h) => row'.anchor = row.anchor
         /\ Anchor(h) => row'.anchor \in Packet
         /\ handler'[h].pc = "store" => /\ handler'[h].psm = row.psm /\ row' = row
                                        /\ handler'[h].terms = row.terms
<1>r. DOMAIN row = RowFields BY DEF TypeInv, RowTyped
<1>h. /\ DOMAIN handler = Handlers /\ HandlerTyped(handler[h])
      /\ DOMAIN handler[h] = HandlerFields
  BY DEF TypeInv, HandlersTyped, HandlerTyped
<1>i. IdleHandler.pc = "idle" BY DEF IdleHandler
<1>1. /\ UNCHANGED <<delegate, call, ledger, tick, crashes, dispatched, sent>>
      /\ handler[h].pc # "idle"
      /\ \A g \in Handlers : g # h => handler'[g] = handler[g]
  BY <1>h DEF HandlerStep, Intake, Load, Store, Anchor
<1>2. CASE Intake(h)
  <2>1. handler'[h].pc # "store" BY <1>2, <1>h, <1>i DEF Intake, HandlerFields
  <2>2. row' = row BY <1>2 DEF Intake, KeepRow
  <2>3. ~Store(h) /\ ~Anchor(h) BY <1>2 DEF Intake, Store, Anchor
  <2> QED BY <1>1, <2>1, <2>2, <2>3
<1>3. CASE Load(h)
  <2>1. handler'[h].psm = row.psm /\ handler'[h].terms = row.terms
    BY <1>3, <1>h DEF Load, HandlerFields
  <2>2. row' = row BY <1>3 DEF Load, KeepRow
  <2>3. ~Store(h) /\ ~Anchor(h) BY <1>3 DEF Load, Store, Anchor
  <2> QED BY <1>1, <2>1, <2>2, <2>3
<1>4. CASE Store(h)
  <2> DEFINE e == handler[h]
             answer == Authority(e.psm[e.packet], DesiredState(e.word), e.at,
                                 e.terms[e.packet])
             psm    == [e.psm EXCEPT ![e.packet] = answer.state]
             trm    == [e.terms EXCEPT ![e.packet] = answer.rec]
             shown  == Shown(psm, e.kick)
             status == RunStatus(psm, Required)
             r      == [IdleHandler EXCEPT !.pc = "anchor", !.packet = e.packet]
  <2>1. row' = row \/ row' = [row EXCEPT !.psm = psm, !.status = status, !.shown = shown,
                                         !.terms = trm]
    BY <1>4 DEF Store, SetRow, KeepRow
  <2>2. handler'[h] \in {r, IdleHandler} BY <1>4, <1>h DEF Store
  <2>3. r.pc = "anchor" BY DEF IdleHandler
  <2> HIDE DEF psm, trm, shown, status, r
  <2>4. row'.told = row.told /\ row'.kick = row.kick /\ row'.anchor = row.anchor
    BY <1>r, <2>1 DEF RowFields
  <2>5. ~Anchor(h) BY <1>4 DEF Store, Anchor
  <2>6. handler'[h].pc # "store" BY <1>i, <2>2, <2>3
  <2> QED BY <1>1, <1>4, <2>4, <2>5, <2>6
<1>5. CASE Anchor(h)
  <2>1. row' = [row EXCEPT !.anchor = handler[h].packet] BY <1>5 DEF Anchor, SetRow
  <2>2. handler[h].packet \in Packet BY <1>5, <1>h, PacketFacts DEF Anchor, HandlerTyped
  <2>3. handler'[h] = IdleHandler BY <1>5, <1>h DEF Anchor
  <2> QED BY <1>r, <1>1, <1>5, <1>i, <2>1, <2>2, <2>3 DEF RowFields, Anchor, Store
<1> QED BY <1>2, <1>3, <1>4, <1>5 DEF HandlerStep

\* What a callback's handler stores.
LEMMA StoreTable ==
  ASSUME TypeInv, NEW h \in Handlers, Store(h)
  PROVE  LET e == handler[h]
             a == Authority(e.psm[e.packet], DesiredState(e.word), e.at, e.terms[e.packet])
         IN  \/ row' = row
             \/ /\ row'.psm = [e.psm EXCEPT ![e.packet] = a.state]
                /\ row'.terms = [e.terms EXCEPT ![e.packet] = a.rec]
                /\ row'.status = RunStatus(row'.psm, Required)
<1> DEFINE e      == handler[h]
           a      == Authority(e.psm[e.packet], DesiredState(e.word), e.at, e.terms[e.packet])
           psm    == [e.psm EXCEPT ![e.packet] = a.state]
           trm    == [e.terms EXCEPT ![e.packet] = a.rec]
           shown  == Shown(psm, e.kick)
           status == RunStatus(psm, Required)
<1>r. DOMAIN row = RowFields BY DEF TypeInv, RowTyped
<1>1. row' = row \/ row' = [row EXCEPT !.psm = psm, !.status = status, !.shown = shown,
                                       !.terms = trm]
  BY DEF Store, SetRow, KeepRow
<1> HIDE DEF psm, trm, shown, status
<1>2. row' = row \/ (row'.psm = psm /\ row'.terms = trm /\ row'.status = status)
  BY <1>r, <1>1 DEF RowFields
<1> QED BY <1>2 DEF psm, trm, status

LEMMA CrashTable ==
  ASSUME Crash
  PROVE  /\ UNCHANGED <<row, ledger, dispatched, sent>>
         /\ crashes' = crashes + 1
         /\ delegate' \in {"done", "dead"}
         /\ \A a \in Caller : call'[a] = NoCall
         /\ \A t \in Ticks : tick'[t] = IdleTick
         /\ \A h \in Handlers : handler'[h] = IdleHandler
BY DEF Crash, KeepRow

LEMMA NextSplit ==
  ASSUME [Next]_vars
  PROVE  \/ Kickoff \/ Finalize \/ Supersede \/ Crash
         \/ \E a \in Caller : CallStep(a)
         \/ \E t \in Ticks : Begin(t) \/ TickStep(t)
         \/ \E h \in Handlers : HandlerStep(h) \/ Arrive(h)
         \/ UNCHANGED vars
BY DEF Next, Begin, Arrive

LEMMA IdlePcs == IdleTick.pc = "idle" /\ IdleHandler.pc = "idle" /\ NoCall.stage = "none"
BY DEF IdleTick, IdleHandler, NoCall

-----------------------------------------------------------------------------
(* What a callback committed, under every interleaving. *)

TickKnows(t, p) ==
  /\ tick[t].pc \in {"write", "mark", "call"} => tick[t].psm[p] = row.psm[p]
  /\ tick[t].pc \in {"mark", "call"} => tick[t].target # p

HandlerKnows(h, p) ==
  handler[h].pc = "store" => handler[h].psm[p] = row.psm[p] /\ handler[h].terms[p] = row.terms[p]

CommitKept(p) ==
  /\ Committed(p)'
  /\ \/ Known(p)' /\ UNCHANGED <<row.psm[p], row.terms[p]>>
     \/ \E h \in Handlers : Decides(h, p)

\* The authority leaves a committed packet committed, whatever is asked for.
LEMMA AuthorityKeepsCommit ==
  ASSUME NEW s \in TerminalStates, NEW d, NEW at, NEW rec, rec.outcome = Polarity(s)
  PROVE  LET a == Authority(s, d, at, rec)
         IN  a.state \in TerminalStates /\ a.rec.outcome = Polarity(a.state)
<1> DEFINE a == Authority(s, d, at, rec)
           Take(x) == [accept |-> TRUE, state |-> x, rec |-> RecordOf(x, at, rec)]
<1>1. \/ a = [accept |-> FALSE, state |-> s, rec |-> rec]
      \/ d \in TerminalStates /\ a = Take(d)
      \/ a = Take("failed")
  BY DEF Authority, Uncontested, Tie
<1>2. \A x \in TerminalStates : RecordOf(x, at, rec).outcome = Polarity(x) BY DEF RecordOf
<1>3. "failed" \in TerminalStates BY DEF TerminalStates
<1> HIDE DEF a
<1>4. CASE a = [accept |-> FALSE, state |-> s, rec |-> rec] BY <1>4 DEF a
<1>5. CASE d \in TerminalStates /\ a = Take(d) BY <1>2, <1>5 DEF a
<1>6. CASE a = Take("failed") BY <1>2, <1>3, <1>6 DEF a
<1> QED BY <1>1, <1>4, <1>5, <1>6

LEMMA KnownStep ==
  ASSUME TypeInv, TypeInv', [Next]_vars, NEW p \in Packet, Committed(p), Known(p)
  PROVE  CommitKept(p)
<1>k. /\ delegate \in {"done", "dead"}
      /\ \A t \in Ticks : TickKnows(t, p)
      /\ \A h \in Handlers : HandlerKnows(h, p)
  BY DEF Known, TickKnows, HandlerKnows
<1>t. row.psm \in Psm /\ row'.psm \in Psm BY DEF TypeInv, RowTyped
<1>q. ASSUME row'.psm[p] = row.psm[p], row'.terms[p] = row.terms[p],
             delegate' \in {"done", "dead"},
             \A t \in Ticks : TickKnows(t, p)',
             \A h \in Handlers : HandlerKnows(h, p)'
      PROVE  CommitKept(p)
  <2>1. Known(p)' BY <1>q DEF Known, TickKnows, HandlerKnows
  <2>2. Committed(p)' BY <1>q DEF Committed
  <2> QED BY <1>q, <2>1, <2>2 DEF CommitKept
\* A step that leaves ticks and handlers alone.
<1>s. ASSUME row'.psm = row.psm, row'.terms = row.terms, UNCHANGED <<delegate, tick, handler>>
      PROVE  CommitKept(p)
  BY <1>k, <1>q, <1>s DEF TickKnows, HandlerKnows
<1>1. ~Kickoff /\ ~Finalize BY <1>k DEF Kickoff, Finalize
<1>2. CASE Supersede BY <1>2, <1>s, TurnTable
<1>3. CASE Crash
  BY <1>3, <1>q, CrashTable, IdlePcs DEF TickKnows, HandlerKnows
<1>4. ASSUME NEW a \in Caller, CallStep(a) PROVE CommitKept(p) BY <1>4, <1>s, CallTable
<1>5. ASSUME NEW t \in Ticks, Begin(t) PROVE CommitKept(p)
  BY <1>5, <1>k, <1>q, BeginTable DEF TickKnows, HandlerKnows
<1>6. ASSUME NEW t \in Ticks, TickStep(t) PROVE CommitKept(p)
  <2>0. TickKnows(t, p) BY <1>k
  <2>1. row'.terms = row.terms /\ UNCHANGED <<delegate, handler>>
        /\ \A u \in Ticks : u # t => tick'[u] = tick[u]
    BY <1>6, TickRow, TickFrame
  <2>2. row'.psm[p] = row.psm[p]
    <3>1. CASE Reconcile(t)
      <4>1. tick[t].psm[p] = row.psm[p] BY <2>0, <3>1, TickTable DEF TickKnows
      <4>2. row'.psm = Reconciled(tick[t].psm) \/ row' = row BY <1>6, <3>1, TickRow
      <4>3. Reconciled(tick[t].psm)[p] = tick[t].psm[p]
        BY <4>1 DEF Reconciled, Committed
      <4> QED BY <4>1, <4>2, <4>3
    <3>2. CASE Mark(t)
      BY <1>6, <2>0, <3>2, TickTable, TickRow DEF TickKnows
    <3>3. CASE Finish(t)
      <4>1. tick[t].psm[p] = row.psm[p] /\ tick[t].target # p
        BY <2>0, <3>3, TickTable DEF TickKnows
      <4>2. tick[t].psm \in Psm BY DEF TypeInv, TicksTyped, TickTyped
      <4> QED BY <1>6, <3>3, <4>1, <4>2, TickRow DEF Psm
    <3>4. CASE ~Reconcile(t) /\ ~Mark(t) /\ ~Finish(t) BY <1>6, <3>4, TickRow
    <3> QED BY <3>1, <3>2, <3>3, <3>4
  <2>3. TickKnows(t, p)'
    <3>1. CASE ReadForReconcile(t) BY <2>2, <3>1, TickTable DEF TickKnows
    <3>2. CASE Advance(t)
      <4>1. /\ tick'[t].target \in Packet
            /\ tick'[t].psm = [row.psm EXCEPT ![tick'[t].target] = "running"]
            /\ IsNext(tick'[t].target)
        BY <3>2, TickTable
      <4>2. row.psm[tick'[t].target] \in {"queued", "ready"}
        BY <4>1 DEF IsNext, NextRunnable, Runnable
      <4>3. tick'[t].target # p BY <4>2 DEF Committed, TerminalStates, DoneStates
      <4>4. tick'[t].psm[p] = row.psm[p] BY <1>t, <4>1, <4>3 DEF Psm
      <4> QED BY <2>2, <4>3, <4>4 DEF TickKnows
    <3>3. CASE Mark(t) BY <2>0, <2>2, <3>3, TickTable DEF TickKnows
    <3>4. CASE ~ReadForReconcile(t) /\ ~Advance(t) /\ ~Mark(t)
      <4>1. tick'[t].pc \notin {"write", "mark", "call"}
        BY <1>6, <3>4, TickTable DEF TickStep
      <4> QED BY <4>1 DEF TickKnows
    <3> QED BY <3>1, <3>2, <3>3, <3>4
  <2>4. \A u \in Ticks : TickKnows(u, p)'
    BY <1>k, <2>1, <2>2, <2>3 DEF TickKnows
  <2>5. \A h \in Handlers : HandlerKnows(h, p)'
    BY <1>k, <2>1, <2>2 DEF HandlerKnows
  <2> QED BY <1>k, <1>q, <2>1, <2>2, <2>4, <2>5
<1>7. ASSUME NEW h \in Handlers, HandlerStep(h) PROVE CommitKept(p)
  <2>1. /\ UNCHANGED <<delegate, tick>>
        /\ \A g \in Handlers : g # h => handler'[g] = handler[g]
    BY <1>7, HandlerTable
  <2>2. HandlerKnows(h, p)' BY <1>7, HandlerTable DEF HandlerKnows
  <2>3. ASSUME row'.psm[p] = row.psm[p], row'.terms[p] = row.terms[p] PROVE CommitKept(p)
    <3>1. \A g \in Handlers : HandlerKnows(g, p)'
      BY <1>k, <2>1, <2>2, <2>3 DEF HandlerKnows
    <3>2. \A t \in Ticks : TickKnows(t, p)' BY <1>k, <2>1, <2>3 DEF TickKnows
    <3> QED BY <1>k, <1>q, <2>1, <2>3, <3>1, <3>2
  <2>4. CASE ~Store(h) BY <1>7, <2>3, <2>4, HandlerTable
  <2>5. CASE Store(h)
    <3> DEFINE e == handler[h]
               a == Authority(e.psm[e.packet], DesiredState(e.word), e.at, e.terms[e.packet])
    <3>1. e.psm[p] = row.psm[p] /\ e.terms[p] = row.terms[p]
      BY <1>k, <2>5 DEF Store, HandlerKnows
    <3>2. e.packet \in Packet /\ e.psm \in Psm /\ e.terms \in [Packet -> Record]
      BY <2>5, PacketFacts DEF Store, TypeInv, HandlersTyped, HandlerTyped
    <3>3. \/ row' = row
          \/ /\ row'.psm = [e.psm EXCEPT ![e.packet] = a.state]
             /\ row'.terms = [e.terms EXCEPT ![e.packet] = a.rec]
      BY <2>5, StoreTable
    <3>4. e.packet = p => a.state \in TerminalStates /\ a.rec.outcome = Polarity(a.state)
      <4> SUFFICES ASSUME e.packet = p
                   PROVE  a.state \in TerminalStates /\ a.rec.outcome = Polarity(a.state)
        OBVIOUS
      <4>1. e.psm[p] \in TerminalStates /\ e.terms[p].outcome = Polarity(e.psm[p])
        BY <3>1 DEF Committed
      <4> QED BY <4>1, AuthorityKeepsCommit
    <3>5. handler'[h].pc # "store" /\ e.pc = "store"
      <4>1. DOMAIN handler = Handlers BY DEF TypeInv, HandlersTyped
      <4>2. \/ handler'[h] = IdleHandler
            \/ handler'[h] = [IdleHandler EXCEPT !.pc = "anchor", !.packet = e.packet]
        BY <2>5, <4>1 DEF Store
      <4>3. [IdleHandler EXCEPT !.pc = "anchor", !.packet = e.packet].pc = "anchor"
        BY DEF IdleHandler
      <4> QED BY <2>5, <4>2, <4>3, IdlePcs DEF Store
    <3> HIDE DEF a
    <3>6. CASE row' = row BY <2>3, <3>6
    <3>7. CASE e.packet # p /\ row' # row
      <4>1. row'.psm[p] = row.psm[p] /\ row'.terms[p] = row.terms[p]
        BY <3>1, <3>2, <3>3, <3>7 DEF Psm
      <4> QED BY <2>3, <4>1
    <3>8. CASE e.packet = p /\ row' # row
      <4>1. row'.psm[p] = a.state /\ row'.terms[p] = a.rec
        BY <3>2, <3>3, <3>8 DEF Psm
      <4>2. Committed(p)' BY <3>4, <3>8, <4>1 DEF Committed
      <4>3. Decides(h, p) BY <3>5, <3>8 DEF Decides
      <4> QED BY <4>2, <4>3 DEF CommitKept
    <3> QED BY <3>6, <3>7, <3>8
  <2> QED BY <2>4, <2>5
<1>8. ASSUME NEW h \in Handlers, Arrive(h) PROVE CommitKept(p)
  BY <1>8, <1>k, <1>q, ArriveTable DEF TickKnows, HandlerKnows
<1>9. CASE UNCHANGED vars BY <1>9, <1>s DEF vars
<1> QED BY <1>1, <1>2, <1>3, <1>4, <1>5, <1>6, <1>7, <1>8, <1>9, NextSplit

\* Once the founder's turn is over and every copy of a committed packet in
\* progress is as new as the row, only a further callback of the packet itself
\* moves it, and leaves it committed: in any interleaving of ticks, callbacks,
\* later delegations and crashes.
THEOREM KnownCommitsAreKept == Spec => KnownCommitsStay
<1>1. LifecycleInv => TypeInv BY DEF LifecycleInv
<1>2. TypeInv /\ TypeInv' /\ [Next]_vars =>
        [\A p \in Packet : Committed(p) /\ Known(p) =>
           /\ Committed(p)'
           /\ \/ Known(p)' /\ UNCHANGED <<row.psm[p], row.terms[p]>>
              \/ \E h \in Handlers : Decides(h, p)]_vars
  BY KnownStep DEF CommitKept
<1> QED BY <1>1, <1>2, LifecycleInvariant, PTL DEF Spec, KnownCommitsStay

-----------------------------------------------------------------------------
(* Actors that do not overlap.  Each of them finds the row as it left it,  *)
(* so what holds between two of its steps is a matter of its own steps.    *)

TicksIdle    == \A t \in Ticks : tick[t].pc = "idle"
HandlersIdle == \A h \in Handlers : handler[h].pc = "idle"

\* At most one actor is at work, and only an actor in its call has a call.
Alone ==
  /\ delegate \in {"kick", "call"} => TicksIdle /\ HandlersIdle
  /\ \A t \in Ticks : tick[t].pc # "idle" =>
       /\ \A u \in Ticks : u # t => tick[u].pc = "idle"
       /\ HandlersIdle
  /\ \A h \in Handlers : handler[h].pc # "idle" =>
       \A g \in Handlers : g # h => handler[g].pc = "idle"
  /\ \A t \in Ticks : call[t].stage # "none" => tick[t].pc = "call"
  /\ call[Delegate].stage # "none" => delegate = "call"

\* The copy an actor will write back is the row, but for the packet it is for.
TickFresh(t) ==
  /\ tick[t].pc = "write" => tick[t].psm = row.psm
  /\ tick[t].pc = "mark" =>
       /\ row.psm[tick[t].target] \in {"queued", "ready"}
       /\ tick[t].psm = [row.psm EXCEPT ![tick[t].target] = "running"]
  /\ tick[t].pc = "call" =>
       /\ row.psm[tick[t].target] = "running"
       /\ tick[t].psm = row.psm

HandlerFresh(h) ==
  handler[h].pc = "store" => handler[h].psm = row.psm /\ handler[h].terms = row.terms

Fresh == (\A t \in Ticks : TickFresh(t)) /\ (\A h \in Handlers : HandlerFresh(h))

\* The status is kept up with the packets at every moment.
StatusKept == row.status \in {RunStatus(row.psm, Required), "canceled"}

\* A packet that was handed over and not called back has an outcome in the
\* ledger, is waited for, or was lost in a crash; only packets without an
\* outcome are invoked, as a tick reconciles before it advances.
Waited(p) == \E a \in Caller : call[a].stage = "wait" /\ call[a].packet = p

HandedOnce ==
  /\ \A p \in Packet : dispatched[p] <= 1 + crashes
  /\ \A p \in Packet : ledger[p] = "none" /\ ~Waited(p) => dispatched[p] <= crashes
  /\ \A a \in Caller : call[a].stage \in {"bind", "trigger", "wait", "local"} =>
                         ledger[call[a].packet] = "none"
  /\ delegate = "kick" => \A p \in Packet : ledger[p] = "none"
  /\ \A t \in Ticks : tick[t].pc \in {"advance", "mark", "call"} =>
       \A p \in Packet : ledger[p] # "none" => row.psm[p] \notin {"queued", "ready"}

\* A milestone that is neither marked nor about to be marked was sent in a
\* crashed attempt only; nothing was told before "started" of a started run.
Marking(m) == \E t \in Ticks : tick[t].pc = "flag" /\ m \in tick[t].say

ToldKept ==
  /\ \A m \in Milestone : sent[m] <= 1 + crashes
  /\ \A m \in Milestone : m \notin row.told /\ ~Marking(m) => sent[m] <= crashes
  /\ row.kick # "none" /\ "started" \notin row.told => row.told = {}
  /\ \A t \in Ticks : tick[t].pc = "send" => tick[t].say \cap row.told = {}
  /\ \A t \in Ticks : tick[t].pc \in {"send", "flag"} /\ row.kick # "none" =>
                        "started" \in tick[t].say \cup row.told
  /\ delegate \in {"kick", "call"} => row.told = {}

\* The end of a run started in the cloud is told after its closure.
AnchorKept ==
  /\ sent["completed"] > 0 /\ row.kick = "cloud" => row.anchor # NoPacket
  /\ \A t \in Ticks : /\ tick[t].pc = "send" /\ "completed" \in tick[t].say
                      /\ row.kick = "cloud"
                      => row.anchor # NoPacket
  /\ delegate \in {"kick", "call"} => sent["completed"] = 0

SerialInv ==
  /\ crashes \in Nat
  /\ Alone /\ Fresh /\ StatusKept /\ HandedOnce /\ ToldKept /\ AnchorKept

-----------------------------------------------------------------------------
(* One actor at a time. *)

LEMMA AloneStep ==
  ASSUME TypeInv, ~Overlap, Alone, [Next]_vars
  PROVE  Alone'
<1>d. Delegate \notin Ticks /\ Delegate \in Caller /\ Ticks \subseteq Caller
  BY RunAssumption DEF Caller
<1>1. CASE Kickoff
  BY <1>1, <1>d, TurnTable DEF Alone, TicksIdle, HandlersIdle
<1>2. CASE Finalize
  BY <1>2, <1>d, TurnTable, IdlePcs DEF Alone, TicksIdle, HandlersIdle
<1>3. CASE Supersede
  BY <1>3, TurnTable DEF Alone, TicksIdle, HandlersIdle
<1>4. CASE Crash
  BY <1>4, <1>d, CrashTable, IdlePcs DEF Alone, TicksIdle, HandlersIdle
<1>5. ASSUME NEW a \in Caller, CallStep(a) PROVE Alone'
  <2>1. \A b \in Caller : call'[b].stage # "none" => call[b].stage # "none"
    BY <1>5, CallTable
  <2>2. UNCHANGED <<delegate, tick, handler>> BY <1>5, CallTable
  <2> QED BY <1>d, <2>1, <2>2 DEF Alone, TicksIdle, HandlersIdle
<1>6. ASSUME NEW t \in Ticks, Begin(t) PROVE Alone'
  <2>1. /\ Resting /\ UNCHANGED <<delegate, call, handler>>
        /\ \A u \in Ticks : u # t => tick'[u] = tick[u]
    BY <1>6, BeginTable
  <2>2. delegate \notin {"kick", "call"} /\ TicksIdle /\ HandlersIdle
    BY <2>1 DEF Resting, TicksIdle, HandlersIdle
  <2>3. \A u \in Ticks : u # t => tick'[u].pc = "idle" BY <2>1, <2>2 DEF TicksIdle
  <2>4. HandlersIdle' BY <2>1, <2>2 DEF HandlersIdle
  <2>5. \A u \in Ticks : call'[u].stage = "none" BY <2>1, <2>2 DEF Alone, TicksIdle
  <2> QED BY <2>1, <2>2, <2>3, <2>4, <2>5 DEF Alone, HandlersIdle
<1>7. ASSUME NEW t \in Ticks, TickStep(t) PROVE Alone'
  <2>1. /\ tick[t].pc # "idle" /\ UNCHANGED <<delegate, handler>>
        /\ \A u \in Ticks : u # t => tick'[u] = tick[u]
    BY <1>7, TickFrame
  <2>2. /\ delegate \notin {"kick", "call"} /\ HandlersIdle
        /\ \A u \in Ticks : u # t => tick[u].pc = "idle"
    BY <2>1 DEF Alone, TicksIdle
  <2>3. HandlersIdle' BY <2>1, <2>2 DEF HandlersIdle
  <2>4. \A u \in Ticks : u # t => tick'[u].pc = "idle" BY <2>1, <2>2
  <2>5. \A u \in Ticks : call'[u].stage # "none" => tick'[u].pc = "call"
    <3>1. \A u \in Ticks : u # t => call'[u].stage = "none"
      BY <1>7, <2>2, <1>d, TickCall DEF Alone
    <3>2. CASE Mark(t) BY <3>1, <3>2, TickTable
    <3>3. CASE Finish(t) BY <1>7, <3>1, <3>3, TickCall, IdlePcs
    <3>4. CASE ~Mark(t) /\ ~Finish(t)
      <4>1. tick[t].pc # "call" BY <1>7, <3>4, TickTable DEF TickStep
      <4> QED BY <1>7, <3>1, <3>4, <4>1, TickCall DEF Alone
    <3> QED BY <3>2, <3>3, <3>4
  <2>6. call'[Delegate] = call[Delegate] BY <1>7, <1>d, TickCall
  <2> QED BY <2>1, <2>2, <2>3, <2>4, <2>5, <2>6 DEF Alone, HandlersIdle
<1>8. ASSUME NEW h \in Handlers, HandlerStep(h) \/ Arrive(h) PROVE Alone'
  <2>1. /\ UNCHANGED <<delegate, call, tick>>
        /\ \A g \in Handlers : g # h => handler'[g] = handler[g]
        /\ handler[h].pc # "idle" \/ Resting
    BY <1>8, HandlerTable, ArriveTable
  <2>2. /\ TicksIdle /\ delegate \notin {"kick", "call"}
        /\ \A g \in Handlers : g # h => handler[g].pc = "idle"
    BY <2>1 DEF Alone, Resting, TicksIdle, HandlersIdle
  <2>3. TicksIdle' BY <2>1, <2>2 DEF TicksIdle
  <2>4. \A g \in Handlers : g # h => handler'[g].pc = "idle" BY <2>1, <2>2
  <2> QED BY <2>1, <2>2, <2>3, <2>4 DEF Alone, TicksIdle
<1>9. CASE UNCHANGED vars
  BY <1>9 DEF vars, Alone, TicksIdle, HandlersIdle
<1> QED BY <1>1, <1>2, <1>3, <1>4, <1>5, <1>6, <1>7, <1>8, <1>9, NextSplit

\* While a tick or a handler is at work nobody else moves the row.
LEMMA TickIsAlone ==
  ASSUME TypeInv, Alone, NEW t \in Ticks, TickStep(t)
  PROVE  /\ delegate \notin {"kick", "call"} /\ HandlersIdle
         /\ \A u \in Ticks : u # t => tick[u].pc = "idle" /\ tick'[u].pc = "idle"
BY TickFrame DEF Alone, TicksIdle

LEMMA HandlerIsAlone ==
  ASSUME TypeInv, Alone, NEW h \in Handlers, HandlerStep(h)
  PROVE  /\ delegate \notin {"kick", "call"} /\ TicksIdle
         /\ \A g \in Handlers : g # h => handler[g].pc = "idle" /\ handler'[g].pc = "idle"
BY HandlerTable DEF Alone, TicksIdle, HandlersIdle

LEMMA CallerIsAlone ==
  ASSUME TypeInv, Alone, NEW a \in Caller, CallStep(a)
  PROVE  /\ HandlersIdle
         /\ a \in Ticks => tick[a].pc = "call"
         /\ a = Delegate => delegate = "call" /\ TicksIdle
         /\ \A b \in Caller : b # a => call[b].stage = "none"
<1>d. Delegate \notin Ticks /\ Delegate \in Caller /\ Caller = Ticks \cup {Delegate}
  BY RunAssumption DEF Caller
<1>1. call[a].stage # "none" BY CallTable
<1>2. CASE a = Delegate BY <1>1, <1>2, <1>d DEF Alone, TicksIdle
<1>3. CASE a \in Ticks BY <1>1, <1>3, <1>d DEF Alone, TicksIdle
<1> QED BY <1>d, <1>2, <1>3

LEMMA FreshStep ==
  ASSUME TypeInv, ~Overlap, Alone, Fresh, [Next]_vars
  PROVE  Fresh'
<1>d. Delegate \notin Ticks BY RunAssumption
<1>1. ASSUME UNCHANGED <<tick, handler>>, row'.psm = row.psm, row'.terms = row.terms
      PROVE  Fresh'
  BY <1>1 DEF Fresh, TickFresh, HandlerFresh
<1>2. ASSUME TicksIdle', HandlersIdle' PROVE Fresh'
  BY <1>2 DEF Fresh, TickFresh, HandlerFresh, TicksIdle, HandlersIdle
<1>3. CASE Kickoff BY <1>1, <1>3, TurnTable
<1>4. CASE Finalize
  <2>1. TicksIdle /\ HandlersIdle BY <1>4, TurnTable DEF Alone
  <2>2. TicksIdle' /\ HandlersIdle' BY <1>4, <2>1, TurnTable DEF TicksIdle, HandlersIdle
  <2> QED BY <1>2, <2>2
<1>5. CASE Supersede BY <1>1, <1>5, TurnTable
<1>6. CASE Crash BY <1>2, <1>6, CrashTable, IdlePcs DEF TicksIdle, HandlersIdle
<1>7. ASSUME NEW a \in Caller, CallStep(a) PROVE Fresh'
  BY <1>1, <1>7, CallTable
<1>8. ASSUME NEW t \in Ticks, Begin(t) PROVE Fresh'
  BY <1>8, BeginTable DEF Fresh, TickFresh, HandlerFresh
<1>9. ASSUME NEW t \in Ticks, TickStep(t) PROVE Fresh'
  <2>1. \A h \in Handlers : HandlerFresh(h)'
    BY <1>9, TickIsAlone, TickFrame DEF HandlersIdle, HandlerFresh
  <2>2. \A u \in Ticks : u # t => TickFresh(u)'
    BY <1>9, TickIsAlone DEF TickFresh
  <2>3. TickFresh(t)'
    <3>1. CASE ReadForReconcile(t)
      <4>1. row' = row BY <3>1 DEF ReadForReconcile, KeepRow
      <4> QED BY <3>1, <4>1, TickTable DEF TickFresh
    <3>2. CASE Advance(t)
      <4>1. row' = row BY <3>2 DEF Advance, KeepRow
      <4>2. row.psm[tick'[t].target] \in {"queued", "ready"}
        BY <3>2, TickTable DEF IsNext, NextRunnable, Runnable
      <4> QED BY <3>2, <4>1, <4>2, TickTable DEF TickFresh
    <3>3. CASE Mark(t)
      <4>1. row'.psm = tick[t].psm /\ tick'[t].psm = tick[t].psm
            /\ tick'[t].target = tick[t].target /\ tick[t].pc = "mark" /\ tick'[t].pc = "call"
        BY <1>9, <3>3, TickRow, TickTable
      <4>2. tick[t].psm = [row.psm EXCEPT ![tick[t].target] = "running"]
        BY <4>1 DEF Fresh, TickFresh
      <4>3. tick[t].target \in Packet /\ row.psm \in Psm
        BY <4>1 DEF TypeInv, TicksTyped, TickTyped, RowTyped
      <4>4. tick[t].psm[tick[t].target] = "running" BY <4>2, <4>3 DEF Psm
      <4> QED BY <4>1, <4>4 DEF TickFresh
    <3>4. CASE ~ReadForReconcile(t) /\ ~Advance(t) /\ ~Mark(t)
      <4>1. tick'[t].pc \notin {"write", "mark", "call"}
        BY <1>9, <3>4, TickTable DEF TickStep
      <4> QED BY <4>1 DEF TickFresh
    <3> QED BY <3>1, <3>2, <3>3, <3>4
  <2> QED BY <2>1, <2>2, <2>3 DEF Fresh
<1>10. ASSUME NEW h \in Handlers, HandlerStep(h) PROVE Fresh'
  <2>1. \A t \in Ticks : TickFresh(t)'
    BY <1>10, HandlerIsAlone, HandlerTable DEF TicksIdle, TickFresh
  <2>2. \A g \in Handlers : g # h => HandlerFresh(g)'
    BY <1>10, HandlerIsAlone DEF HandlerFresh
  <2>3. HandlerFresh(h)' BY <1>10, HandlerTable DEF HandlerFresh
  <2> QED BY <2>1, <2>2, <2>3 DEF Fresh
<1>11. ASSUME NEW h \in Handlers, Arrive(h) PROVE Fresh'
  BY <1>11, ArriveTable DEF Fresh, TickFresh, HandlerFresh
<1>12. CASE UNCHANGED vars BY <1>1, <1>12 DEF vars
<1> QED BY <1>3, <1>4, <1>5, <1>6, <1>7, <1>8, <1>9, <1>10, <1>11, <1>12, NextSplit

-----------------------------------------------------------------------------
(* The status. *)

\* The run's status, packet by packet.
LEMMA StatusOfPackets ==
  ASSUME NEW psm \in Psm
  PROVE  RunStatus(psm, Required) =
           IF Packet = {} THEN "running"
           ELSE IF \A p \in Packet : psm[p] \in DoneStates THEN "completed"
           ELSE IF \E p \in Packet : psm[p] = "failed" THEN "failed"
           ELSE IF \E p \in Packet : psm[p] = "review_required" THEN "review_required"
           ELSE IF \E p \in Packet : psm[p] = "blocked" THEN "blocked"
           ELSE "running"
<1> DEFINE ids    == IF Required = <<>> THEN DOMAIN psm ELSE ToSet(Required)
           states == {psm[p] : p \in ids}
<1>1. ids = Packet BY DEF Packet, Psm
<1>2. RunStatus(psm, Required) =
        IF ids = {} THEN "running"
        ELSE IF states \subseteq DoneStates THEN "completed"
        ELSE IF "failed" \in states THEN "failed"
        ELSE IF "review_required" \in states THEN "review_required"
        ELSE IF "blocked" \in states THEN "blocked"
        ELSE "running"
  BY DEF RunStatus
<1> HIDE DEF ids
<1>3. /\ states \subseteq DoneStates <=> \A p \in Packet : psm[p] \in DoneStates
      /\ \A s : s \in states <=> \E p \in Packet : psm[p] = s
  BY <1>1
<1> HIDE DEF states
<1> QED BY <1>1, <1>2, <1>3

\* Handing a packet over does not move the status.
LEMMA HandingKeepsStatus ==
  ASSUME NEW psm \in Psm, NEW p \in Packet, psm[p] \in {"queued", "ready"}
  PROVE  RunStatus([psm EXCEPT ![p] = "running"], Required) = RunStatus(psm, Required)
<1> DEFINE new == [psm EXCEPT ![p] = "running"]
<1>1. new \in Psm BY DEF Psm, Live, PacketState
<1>2. \A q \in Packet : new[q] = IF q = p THEN "running" ELSE psm[q] BY DEF Psm
<1> HIDE DEF new
<1>3. /\ ~(\A q \in Packet : new[q] \in DoneStates) /\ ~(\A q \in Packet : psm[q] \in DoneStates)
      /\ (\E q \in Packet : new[q] = "failed") <=> (\E q \in Packet : psm[q] = "failed")
      /\ (\E q \in Packet : new[q] = "review_required")
           <=> (\E q \in Packet : psm[q] = "review_required")
      /\ (\E q \in Packet : new[q] = "blocked") <=> (\E q \in Packet : psm[q] = "blocked")
  BY <1>2 DEF DoneStates
<1>4. RunStatus(new, Required) = RunStatus(psm, Required)
  BY <1>1, <1>3, StatusOfPackets
<1> QED BY <1>4 DEF new

LEMMA StatusStep ==
  ASSUME TypeInv, ~Overlap, Alone, Fresh, StatusKept, [Next]_vars
  PROVE  StatusKept'
<1>1. ASSUME row'.psm = row.psm, row'.status = row.status PROVE StatusKept'
  BY <1>1 DEF StatusKept
<1>2. ASSUME row'.status = RunStatus(row'.psm, Required) PROVE StatusKept'
  BY <1>2 DEF StatusKept
<1>3. CASE Kickoff BY <1>1, <1>3, TurnTable
<1>4. CASE Finalize BY <1>2, <1>4, TurnTable
<1>5. CASE Supersede BY <1>5, TurnTable DEF StatusKept
<1>6. CASE Crash BY <1>1, <1>6, CrashTable
<1>7. ASSUME NEW a \in Caller, CallStep(a) PROVE StatusKept' BY <1>1, <1>7, CallTable
<1>8. ASSUME NEW t \in Ticks, Begin(t) PROVE StatusKept' BY <1>1, <1>8, BeginTable
<1>9. ASSUME NEW t \in Ticks, TickStep(t) PROVE StatusKept'
  <2>1. CASE Mark(t)
    <3>1. tick[t].pc = "mark" BY <2>1, TickTable
    <3>2. /\ row.psm[tick[t].target] \in {"queued", "ready"}
          /\ tick[t].psm = [row.psm EXCEPT ![tick[t].target] = "running"]
      BY <3>1 DEF Fresh, TickFresh
    <3>3. tick[t].target \in Packet /\ row.psm \in Psm
      BY <3>1 DEF TypeInv, TicksTyped, TickTyped, RowTyped
    <3>4. RunStatus(tick[t].psm, Required) = RunStatus(row.psm, Required)
      BY <3>2, <3>3, HandingKeepsStatus
    <3> QED BY <1>9, <2>1, <3>4, TickRow DEF StatusKept
  <2>2. CASE Reconcile(t)
    <3> DEFINE psm == Reconciled(tick[t].psm)
    <3>1. \/ row'.psm = psm /\ row'.status = RunStatus(psm, Required)
          \/ row' = row
      BY <1>9, <2>2, TickRow
    <3> HIDE DEF psm
    <3> QED BY <1>1, <1>2, <3>1
  <2>3. CASE Finish(t)
    <3> DEFINE psm == [tick[t].psm EXCEPT ![tick[t].target] = StateOfOutcome(call[t].outcome)]
    <3>1. row'.psm = psm /\ row'.status = RunStatus(psm, Required)
      BY <1>9, <2>3, TickRow
    <3> HIDE DEF psm
    <3> QED BY <1>2, <3>1
  <2>4. CASE ~Mark(t) /\ ~Reconcile(t) /\ ~Finish(t)
    BY <1>1, <1>9, <2>4, TickRow
  <2> QED BY <2>1, <2>2, <2>3, <2>4
<1>10. ASSUME NEW h \in Handlers, HandlerStep(h) PROVE StatusKept'
  <2>1. CASE Store(h) BY <1>1, <1>2, <2>1, StoreTable
  <2>2. CASE ~Store(h) BY <1>1, <1>10, <2>2, HandlerTable
  <2> QED BY <2>1, <2>2
<1>11. ASSUME NEW h \in Handlers, Arrive(h) PROVE StatusKept' BY <1>1, <1>11, ArriveTable
<1>12. CASE UNCHANGED vars BY <1>1, <1>12 DEF vars
<1> QED BY <1>3, <1>4, <1>5, <1>6, <1>7, <1>8, <1>9, <1>10, <1>11, <1>12, NextSplit

-----------------------------------------------------------------------------
(* Handing over. *)

LEMMA OutcomeIsNoStart ==
  ASSUME NEW o
  PROVE  StateOfOutcome(o) \notin {"queued", "ready"}
BY DEF StateOfOutcome

LEMMA NewCallFacts ==
  ASSUME NEW p
  PROVE  NewCall(p).stage \in {"done", "bind", "local"} /\ NewCall(p).packet = p
BY DEF NewCall

LEMMA HandedStep ==
  ASSUME LifecycleInv, ~Overlap, Alone, Fresh, HandedOnce, crashes \in Nat, [Next]_vars
  PROVE  HandedOnce'
<1>t. TypeInv BY DEF LifecycleInv
<1>d. Delegate \notin Ticks /\ Delegate \in Caller /\ Ticks \subseteq Caller
  BY RunAssumption DEF Caller
<1>n. \A p \in Packet : dispatched[p] \in 0..2 BY <1>t DEF TypeInv, RestTyped
\* Nothing that matters here changes but the calls, and no call is waiting.
<1>1. ASSUME UNCHANGED <<ledger, dispatched, crashes>>,
             \A p \in Packet : Waited(p) => Waited(p)',
             \A a \in Caller : call'[a].stage \in {"bind", "trigger", "wait", "local"} =>
                                 ledger[call'[a].packet] = "none",
             delegate' = "kick" => delegate = "kick",
             \A t \in Ticks : tick'[t].pc \in {"advance", "mark", "call"} =>
               \A p \in Packet : ledger[p] # "none" => row'.psm[p] \notin {"queued", "ready"}
      PROVE  HandedOnce'
  BY <1>1 DEF HandedOnce
<1>2. ASSUME UNCHANGED call, delegate' = "kick" => delegate = "kick",
             UNCHANGED <<ledger, dispatched, crashes>>,
             \A t \in Ticks : tick'[t].pc \in {"advance", "mark", "call"} =>
               \A p \in Packet : ledger[p] # "none" => row'.psm[p] \notin {"queued", "ready"}
      PROVE  HandedOnce'
  BY <1>2 DEF HandedOnce, Waited
<1>3. CASE Kickoff
  <2>1. delegate = "kick" /\ TicksIdle /\ call[Delegate].stage = "none"
    BY <1>3, <1>t, TurnTable DEF Alone
  <2>2. \A p \in Packet : ledger[p] = "none" BY <2>1 DEF HandedOnce
  <2>3. /\ \A a \in Caller : a # Delegate => call'[a] = call[a]
        /\ \/ call'[Delegate].stage = "done"
           \/ \E p \in Packet : call'[Delegate] = NewCall(p)
        /\ UNCHANGED <<row, ledger, tick, crashes, dispatched>>
        /\ delegate' = "call"
    BY <1>3, <1>t, TurnTable
  <2>4. \A p \in Packet : Waited(p) => Waited(p)' BY <2>1, <2>3 DEF Waited
  <2>5. \A a \in Caller : call'[a].stage \in {"bind", "trigger", "wait", "local"} =>
                            ledger[call'[a].packet] = "none"
    BY <2>2, <2>3, NewCallFacts DEF HandedOnce
  <2> QED BY <1>1, <2>1, <2>3, <2>4, <2>5 DEF TicksIdle
<1>4. CASE Finalize
  <2>1. /\ delegate = "call" /\ delegate' = "done" /\ call[Delegate].stage = "done"
        /\ call'[Delegate] = NoCall /\ \A a \in Caller : a # Delegate => call'[a] = call[a]
        /\ UNCHANGED <<ledger, tick, crashes, dispatched>>
    BY <1>4, <1>t, TurnTable
  <2>2. TicksIdle BY <2>1 DEF Alone
  <2>3. \A p \in Packet : Waited(p) => Waited(p)' BY <2>1 DEF Waited
  <2>4. \A a \in Caller : call'[a].stage \in {"bind", "trigger", "wait", "local"} =>
                            ledger[call'[a].packet] = "none"
    BY <2>1, IdlePcs DEF HandedOnce
  <2> QED BY <1>1, <2>1, <2>2, <2>3, <2>4 DEF TicksIdle
<1>5. CASE Supersede BY <1>2, <1>5, <1>t, TurnTable DEF HandedOnce
<1>6. CASE Crash
  <2>1. /\ UNCHANGED <<row, ledger, dispatched>> /\ crashes' = crashes + 1
        /\ delegate' \in {"done", "dead"}
        /\ \A a \in Caller : call'[a].stage = "none"
        /\ \A t \in Ticks : tick'[t].pc = "idle"
    BY <1>6, CrashTable, IdlePcs
  <2>2. \A p \in Packet : dispatched[p] <= crashes' /\ dispatched[p] <= 1 + crashes'
    BY <1>n, <2>1 DEF HandedOnce
  <2> QED BY <2>1, <2>2 DEF HandedOnce
<1>7. ASSUME NEW a \in Caller, CallStep(a) PROVE HandedOnce'
  <2> DEFINE p0 == call[a].packet
  <2>1. /\ UNCHANGED <<delegate, tick, crashes>> /\ row'.psm = row.psm
        /\ \A b \in Caller : b # a => call'[b] = call[b]
        /\ call[a].stage \in {"bind", "trigger", "wait", "local"}
        /\ p0 \in Packet /\ call'[a].packet = p0
    BY <1>7, <1>t, CallTable
  <2>2. \A b \in Caller : b # a => call[b].stage = "none" /\ call'[b].stage = "none"
    BY <1>7, <1>t, <2>1, CallerIsAlone
  <2>3. ledger[p0] = "none" BY <2>1 DEF HandedOnce
  <2>4. \A p \in Packet : /\ Waited(p) <=> call[a].stage = "wait" /\ p = p0
                          /\ Waited(p)' <=> call'[a].stage = "wait" /\ p = p0
    BY <2>1, <2>2 DEF Waited
  <2>5. delegate # "kick"
    BY <1>7, <1>t, <1>d, CallerIsAlone DEF Alone, TicksIdle, Caller
  <2>6. CASE /\ call[a].stage = "bind" /\ call'[a].stage = "trigger"
             /\ UNCHANGED <<ledger, dispatched>>
    BY <2>1, <2>2, <2>3, <2>4, <2>5, <2>6 DEF HandedOnce
  <2>7. CASE /\ call[a].stage = "trigger" /\ call'[a].stage = "wait"
             /\ UNCHANGED ledger
             /\ dispatched' = [dispatched EXCEPT ![call[a].packet] = UpTo2(@)]
    <3>1. \A p \in Packet : ledger[p] = "none" => dispatched[p] <= crashes
      BY <2>4, <2>7 DEF HandedOnce
    <3>2. \A p \in Packet : dispatched'[p] = IF p = p0 THEN UpTo2(dispatched[p]) ELSE dispatched[p]
      BY <1>t, <2>7 DEF TypeInv, RestTyped
    <3>3. UpTo2(dispatched[p0]) <= 1 + crashes
      BY <1>n, <2>1, <2>3, <3>1 DEF UpTo2
    <3>4. \A p \in Packet : dispatched'[p] <= 1 + crashes' BY <2>1, <3>2, <3>3 DEF HandedOnce
    <3>5. \A p \in Packet : ledger'[p] = "none" /\ ~Waited(p)' => dispatched'[p] <= crashes'
      BY <2>1, <2>4, <2>7, <3>1, <3>2
    <3> QED BY <2>1, <2>2, <2>3, <2>5, <2>7, <3>4, <3>5 DEF HandedOnce
  <2>8. CASE /\ call'[a].stage = "done" /\ UNCHANGED dispatched
             /\ \E o \in Outcome : ledger' = [ledger EXCEPT ![call[a].packet] = o]
    <3>1. PICK o \in Outcome : ledger' = [ledger EXCEPT ![p0] = o] BY <2>8
    <3>2. o # "none" BY DEF Outcome
    <3>3. \A p \in Packet : ledger'[p] = IF p = p0 THEN o ELSE ledger[p]
      BY <1>t, <3>1 DEF TypeInv, RestTyped
    <3>4. \A p \in Packet : dispatched'[p] <= 1 + crashes' BY <2>1, <2>8 DEF HandedOnce
    <3>5. \A p \in Packet : ledger'[p] = "none" /\ ~Waited(p)' => dispatched'[p] <= crashes'
      BY <2>1, <2>4, <2>8, <3>2, <3>3 DEF HandedOnce
    <3>6. ASSUME NEW t \in Ticks, tick'[t].pc \in {"advance", "mark", "call"},
                 NEW p \in Packet, ledger'[p] # "none"
          PROVE  row'.psm[p] \notin {"queued", "ready"}
      <4>1. CASE p # p0 BY <2>1, <3>3, <3>6, <4>1 DEF HandedOnce
      <4>2. CASE p = p0
        <5>1. a = t /\ tick[t].pc = "call"
          BY <1>7, <1>d, <1>t, <2>1, <3>6, CallerIsAlone DEF Alone, TicksIdle, Caller
        <5>2. row.psm[tick[t].target] = "running" BY <5>1 DEF Fresh, TickFresh
        <5>3. p0 = tick[t].target BY <5>1 DEF LifecycleInv, Good, TickGood
        <5> QED BY <2>1, <4>2, <5>2, <5>3
      <4> QED BY <4>1, <4>2
    <3> QED BY <2>1, <2>2, <2>5, <2>8, <3>4, <3>5, <3>6 DEF HandedOnce
  <2> QED BY <1>7, <1>t, <2>6, <2>7, <2>8, CallTable
<1>8. ASSUME NEW t \in Ticks, Begin(t) PROVE HandedOnce'
  BY <1>2, <1>8, <1>t, BeginTable DEF HandedOnce
<1>9. ASSUME NEW t \in Ticks, TickStep(t) PROVE HandedOnce'
  <2>0. /\ UNCHANGED <<delegate, crashes, dispatched, ledger>>
        /\ \A u \in Ticks : u # t => tick'[u].pc = "idle"
    BY <1>9, <1>t, TickFrame, TickIsAlone
  <2>1. \A a \in Caller : a # t => call'[a] = call[a] BY <1>9, <1>t, TickCall
  <2>2. CASE Mark(t)
    <3>1. /\ tick[t].pc = "mark" /\ call'[t] = NewCall(tick[t].target)
          /\ row'.psm = tick[t].psm
      BY <1>9, <1>t, <2>2, TickTable, TickCall, TickRow
    <3>2. /\ row.psm[tick[t].target] \in {"queued", "ready"} /\ tick[t].target \in Packet
          /\ tick[t].psm = [row.psm EXCEPT ![tick[t].target] = "running"]
          /\ row.psm \in Psm
      BY <1>t, <3>1 DEF Fresh, TickFresh, TypeInv, TicksTyped, TickTyped, RowTyped
    <3>3. ledger[tick[t].target] = "none" BY <3>1, <3>2 DEF HandedOnce
    <3>4. call[t].stage = "none" BY <3>1 DEF Alone
    <3>5. \A p \in Packet : Waited(p) => Waited(p)' BY <1>d, <2>1, <3>4 DEF Waited
    <3>6. \A p \in Packet : ledger[p] # "none" => row'.psm[p] \notin {"queued", "ready"}
      BY <3>1, <3>2 DEF HandedOnce, Psm
    <3>7. \A a \in Caller : call'[a].stage \in {"bind", "trigger", "wait", "local"} =>
                              ledger[call'[a].packet] = "none"
      BY <2>1, <3>1, <3>3, NewCallFacts DEF HandedOnce
    <3> QED BY <1>1, <2>0, <3>5, <3>6, <3>7
  <2>3. CASE Finish(t)
    <3>1. /\ tick[t].pc = "call" /\ call[t].stage = "done" /\ call'[t] = NoCall
          /\ row'.psm = [tick[t].psm EXCEPT ![tick[t].target] = StateOfOutcome(call[t].outcome)]
      BY <1>9, <1>t, <2>3, TickTable, TickCall, TickRow
    <3>2. tick[t].psm = row.psm /\ row.psm \in Psm
      BY <1>t, <3>1 DEF Fresh, TickFresh, TypeInv, RowTyped
    <3>3. \A p \in Packet : Waited(p) => Waited(p)' BY <1>d, <2>1, <3>1 DEF Waited
    <3>4. \A p \in Packet : ledger[p] # "none" => row'.psm[p] \notin {"queued", "ready"}
      BY <3>1, <3>2, OutcomeIsNoStart DEF HandedOnce, Psm
    <3>5. \A a \in Caller : call'[a].stage \in {"bind", "trigger", "wait", "local"} =>
                              ledger[call'[a].packet] = "none"
      BY <2>1, <3>1, IdlePcs DEF HandedOnce
    <3> QED BY <1>1, <2>0, <3>3, <3>4, <3>5
  <2>4. CASE ~Mark(t) /\ ~Finish(t)
    <3>1. UNCHANGED call
      <4>1. call' = call
        BY <1>9, <2>4 DEF TickStep, Lease, Leave, Enter, ReadForReconcile, Reconcile, Advance,
                          AdvanceNothing, Report, SendSucceeds, SendFails, Flag
      <4> QED BY <4>1
    <3>2. CASE Reconcile(t)
      <4>1. tick[t].psm = row.psm BY <1>t, <3>2, TickTable DEF Fresh, TickFresh
      <4>2. row'.psm = Reconciled(row.psm) BY <1>9, <1>t, <3>2, <4>1, TickRow
      <4>3. \A p \in Packet : ledger[p] # "none" => row'.psm[p] \notin {"queued", "ready"}
        BY <4>2, OutcomeIsNoStart DEF Reconciled, TerminalStates, DoneStates
      <4> QED BY <1>2, <2>0, <3>1, <4>3
    <3>3. CASE Advance(t)
      <4>1. row' = row BY <3>3 DEF Advance, KeepRow
      <4>2. \A p \in Packet : ledger[p] # "none" => row'.psm[p] \notin {"queued", "ready"}
        BY <1>t, <3>3, <4>1, TickTable DEF HandedOnce
      <4> QED BY <1>2, <2>0, <3>1, <4>2
    <3>4. CASE ~Reconcile(t) /\ ~Advance(t)
      <4>1. tick'[t].pc \notin {"advance", "mark", "call"}
        BY <1>9, <1>t, <2>4, <3>4, TickTable DEF TickStep
      <4> QED BY <1>2, <2>0, <3>1, <4>1
    <3> QED BY <3>2, <3>3, <3>4
  <2> QED BY <2>2, <2>3, <2>4
<1>10. ASSUME NEW h \in Handlers, HandlerStep(h) PROVE HandedOnce'
  <2>1. UNCHANGED <<delegate, call, ledger, tick, crashes, dispatched>> /\ TicksIdle
    BY <1>10, <1>t, HandlerTable, HandlerIsAlone
  <2> QED BY <1>2, <2>1 DEF TicksIdle
<1>11. ASSUME NEW h \in Handlers, Arrive(h) PROVE HandedOnce'
  BY <1>2, <1>11, <1>t, ArriveTable DEF HandedOnce
<1>12. CASE UNCHANGED vars BY <1>2, <1>12 DEF vars, HandedOnce
<1> QED BY <1>3, <1>4, <1>5, <1>6, <1>7, <1>8, <1>9, <1>10, <1>11, <1>12, NextSplit

-----------------------------------------------------------------------------
(* What the founder is told. *)

LEMMA MessageFacts ==
  ASSUME TypeInv, NEW m \in Messages(row),
         row.kick # "none" /\ "started" \notin row.told => row.told = {}
  PROVE  /\ m \cap row.told = {}
         /\ row.kick # "none" /\ m # {} => "started" \in m \cup row.told
         /\ "completed" \in m /\ row.kick = "cloud" => Closed(row)
<1> DEFINE ends == row.status \in {"completed", "blocked", "failed", "review_required"}
<1>1. CASE Kicked(row.kick) /\ "started" \notin row.told
  <2>1. m = {"started"} \/ (m = {"started", row.status} /\ row.kick # "cloud")
    BY <1>1 DEF Messages
  <2> QED BY <1>1, <2>1 DEF Kicked
<1>2. CASE ~(Kicked(row.kick) /\ "started" \notin row.told)
  <2>1. CASE ~(ends /\ row.status \notin row.told)
    <3>1. m = {} BY <1>2, <2>1 DEF Messages
    <3> QED BY <3>1
  <2>2. CASE ends /\ row.status \notin row.told
    <3>1. \/ m = {}
          \/ m = {"blocked"} /\ row.status = "blocked"
          \/ m = {"review_required"} /\ row.status = "review_required"
          \/ m = {"completed"} /\ row.status = "completed" /\ row.kick = "cloud" /\ Closed(row)
          \/ m = {row.status} /\ ~(row.status = "completed" /\ row.kick = "cloud")
      BY <1>2, <2>2 DEF Messages
    <3> QED BY <1>2, <2>2, <3>1 DEF Kicked
  <2> QED BY <2>1, <2>2
<1> QED BY <1>1, <1>2

\* What a step of a tick makes of its messages.
LEMMA SayTable ==
  ASSUME TypeInv, NEW t \in Ticks, TickStep(t)
  PROVE  /\ tick[t].pc = "flag" => Flag(t)
         /\ tick[t].pc = "send" => SendSucceeds(t) \/ SendFails(t)
         /\ tick'[t].pc = "flag" => SendSucceeds(t)
         /\ tick'[t].pc = "send" => Report(t)
BY TickTable DEF TickStep

LEMMA SentTable ==
  ASSUME TypeInv, NEW t \in Ticks, SendSucceeds(t)
  PROVE  \A m \in Milestone :
           sent'[m] = IF m \in tick[t].say THEN UpTo2(sent[m]) ELSE sent[m]
BY DEF SendSucceeds

LEMMA ToldStep ==
  ASSUME TypeInv, ~Overlap, Alone, ToldKept, crashes \in Nat, [Next]_vars
  PROVE  ToldKept'
<1>n. \A m \in Milestone : sent[m] \in 0..2 BY DEF TypeInv, RestTyped
\* Neither messages nor marks are touched, and the ticks that hold some rest.
<1>1. ASSUME UNCHANGED <<sent, crashes>>, row'.told = row.told,
             row'.kick = row.kick \/ row.told = {},
             \A t \in Ticks : /\ tick'[t].pc \in {"send", "flag"} =>
                                   tick'[t] = tick[t] /\ row'.kick = row.kick
                              /\ tick[t].pc = "flag" => tick'[t] = tick[t],
             delegate' \in {"kick", "call"} => delegate \in {"kick", "call"}
      PROVE  ToldKept'
  <2>1. \A m \in Milestone : Marking(m) <=> Marking(m)' BY <1>1 DEF Marking
  <2> QED BY <1>1, <2>1 DEF ToldKept
<1>2. ASSUME TicksIdle, TicksIdle', UNCHANGED <<sent, crashes>>, row'.told = row.told,
             row'.kick = row.kick \/ row.told = {},
             delegate' \in {"kick", "call"} => delegate \in {"kick", "call"}
      PROVE  ToldKept'
  BY <1>1, <1>2 DEF TicksIdle
<1>3. CASE Kickoff BY <1>1, <1>3, TurnTable
<1>4. CASE Finalize
  <2>1. TicksIdle /\ row.told = {} BY <1>4, TurnTable DEF Alone, ToldKept
  <2>2. UNCHANGED <<sent, crashes, tick>> /\ row'.told = row.told /\ delegate' = "done"
    BY <1>4, TurnTable
  <2>3. TicksIdle' BY <2>1, <2>2 DEF TicksIdle
  <2> QED BY <1>2, <2>1, <2>2, <2>3
<1>5. CASE Supersede BY <1>1, <1>5, TurnTable
<1>6. CASE Crash
  <2>1. /\ UNCHANGED <<row, sent>> /\ crashes' = crashes + 1 /\ delegate' \in {"done", "dead"}
        /\ \A t \in Ticks : tick'[t].pc = "idle"
    BY <1>6, CrashTable, IdlePcs
  <2>2. \A m \in Milestone : sent[m] <= crashes' /\ sent[m] <= 1 + crashes'
    BY <1>n, <2>1 DEF ToldKept
  <2> QED BY <2>1, <2>2 DEF ToldKept
<1>7. ASSUME NEW a \in Caller, CallStep(a) PROVE ToldKept' BY <1>1, <1>7, CallTable
<1>8. ASSUME NEW t \in Ticks, Begin(t) PROVE ToldKept'
  <2>1. TicksIdle BY <1>8, BeginTable DEF Resting, TicksIdle
  <2> QED BY <1>1, <1>8, <2>1, BeginTable DEF TicksIdle
<1>9. ASSUME NEW t \in Ticks, TickStep(t) PROVE ToldKept'
  <2>0. /\ UNCHANGED <<delegate, crashes>> /\ row'.kick = row.kick
        /\ delegate \notin {"kick", "call"}
        /\ \A u \in Ticks : u # t => tick[u].pc = "idle" /\ tick'[u].pc = "idle"
    BY <1>9, TickFrame, TickRow, TickIsAlone
  <2>m. \A m : /\ Marking(m) <=> tick[t].pc = "flag" /\ m \in tick[t].say
               /\ Marking(m)' <=> tick'[t].pc = "flag" /\ m \in tick'[t].say
    BY <2>0 DEF Marking
  <2>1. CASE Report(t)
    <3>1. /\ tick[t].pc = "report" /\ tick'[t].pc \in {"leave", "send"}
          /\ tick'[t].say \in Messages(row) /\ row' = row /\ UNCHANGED sent
          /\ tick'[t].pc = "send" => tick'[t].say # {}
      BY <2>1, TickTable DEF Report, KeepRow
    <3>2. /\ tick'[t].say \cap row.told = {}
          /\ tick'[t].pc = "send" /\ row.kick # "none" =>
               "started" \in tick'[t].say \cup row.told
      BY <3>1, MessageFacts DEF ToldKept
    <3> QED BY <2>0, <2>m, <3>1, <3>2 DEF ToldKept
  <2>2. CASE SendSucceeds(t)
    <3>1. /\ tick[t].pc = "send" /\ tick'[t].pc = "flag" /\ tick'[t].say = tick[t].say
          /\ row' = row
      BY <2>2, TickTable DEF SendSucceeds, KeepRow
    <3>2. ASSUME NEW m \in Milestone, m \in tick[t].say
          PROVE  sent'[m] <= 1 + crashes
      <4>1. m \notin row.told /\ ~Marking(m) BY <2>m, <3>1, <3>2 DEF ToldKept
      <4>2. sent[m] <= crashes BY <4>1 DEF ToldKept
      <4> QED BY <1>n, <2>2, <3>2, <4>2, SentTable DEF UpTo2
    <3>3. \A m \in Milestone : m \notin tick[t].say => sent'[m] = sent[m]
      BY <2>2, SentTable
    <3>4. \A m \in Milestone : sent'[m] <= 1 + crashes' BY <2>0, <3>2, <3>3 DEF ToldKept
    <3>5. \A m \in Milestone : m \notin row'.told /\ ~Marking(m)' => sent'[m] <= crashes'
      BY <2>0, <2>m, <3>1, <3>3 DEF ToldKept
    <3> QED BY <2>0, <3>1, <3>4, <3>5 DEF ToldKept
  <2>3. CASE Flag(t)
    <3>1. /\ tick[t].pc = "flag" /\ tick'[t].pc = "leave" /\ UNCHANGED sent
          /\ row'.told = row.told \cup tick[t].say
      BY <1>9, <2>3, TickTable, TickRow DEF Flag
    <3>2. \A m \in Milestone : m \notin row'.told => sent'[m] <= crashes'
      BY <2>0, <2>m, <3>1 DEF ToldKept
    <3>3. row'.kick # "none" => "started" \in row'.told BY <2>0, <3>1 DEF ToldKept
    <3> QED BY <2>0, <3>1, <3>2, <3>3 DEF ToldKept
  <2>4. CASE ~Report(t) /\ ~SendSucceeds(t) /\ ~Flag(t)
    <3>1. UNCHANGED sent /\ row'.told = row.told BY <1>9, <2>4, TickCall, TickRow
    <3>2. tick'[t].pc \notin {"send", "flag"} /\ tick[t].pc # "flag"
      BY <1>9, <2>4, SayTable
    <3> QED BY <1>1, <2>0, <3>1, <3>2
  <2> QED BY <2>1, <2>2, <2>3, <2>4
<1>10. ASSUME NEW h \in Handlers, HandlerStep(h) PROVE ToldKept'
  <2>1. /\ UNCHANGED <<delegate, tick, crashes, sent>> /\ TicksIdle
        /\ row'.told = row.told /\ row'.kick = row.kick
    BY <1>10, HandlerTable, HandlerIsAlone
  <2> QED BY <1>1, <2>1
<1>11. ASSUME NEW h \in Handlers, Arrive(h) PROVE ToldKept'
  BY <1>1, <1>11, ArriveTable
<1>12. CASE UNCHANGED vars BY <1>1, <1>12 DEF vars
<1> QED BY <1>3, <1>4, <1>5, <1>6, <1>7, <1>8, <1>9, <1>10, <1>11, <1>12, NextSplit

LEMMA AnchorStep ==
  ASSUME TypeInv, ~Overlap, Alone, ToldKept, AnchorKept, [Next]_vars
  PROVE  AnchorKept'
\* The closure stays, nothing is said that was not said, and the lane of the
\* start stays unless nothing was told yet.
<1>1. ASSUME UNCHANGED sent, row'.anchor = row.anchor \/ row'.anchor # NoPacket,
             row'.kick = row.kick,
             \A t \in Ticks : tick'[t].pc = "send" => tick'[t] = tick[t],
             delegate' \in {"kick", "call"} => delegate \in {"kick", "call"}
      PROVE  AnchorKept'
  BY <1>1 DEF AnchorKept
<1>2. CASE Kickoff BY <1>1, <1>2, TurnTable
<1>3. CASE Finalize
  <2>1. /\ TicksIdle /\ sent["completed"] = 0 /\ UNCHANGED <<sent, tick>>
        /\ delegate' = "done"
    BY <1>3, TurnTable DEF Alone, AnchorKept
  <2> QED BY <2>1 DEF AnchorKept, TicksIdle
<1>4. CASE Supersede BY <1>1, <1>4, TurnTable
<1>5. CASE Crash
  <2>1. /\ UNCHANGED <<row, sent>> /\ delegate' \in {"done", "dead"}
        /\ \A t \in Ticks : tick'[t].pc = "idle"
    BY <1>5, CrashTable, IdlePcs
  <2> QED BY <1>1, <2>1
<1>6. ASSUME NEW a \in Caller, CallStep(a) PROVE AnchorKept' BY <1>1, <1>6, CallTable
<1>7. ASSUME NEW t \in Ticks, Begin(t) PROVE AnchorKept' BY <1>1, <1>7, BeginTable
<1>8. ASSUME NEW t \in Ticks, TickStep(t) PROVE AnchorKept'
  <2>0. /\ UNCHANGED delegate /\ row'.kick = row.kick /\ row'.anchor = row.anchor
        /\ delegate \notin {"kick", "call"}
        /\ \A u \in Ticks : u # t => tick[u].pc = "idle" /\ tick'[u].pc = "idle"
    BY <1>8, TickFrame, TickRow, TickIsAlone
  <2>1. CASE Report(t)
    <3>1. "completed" \in tick'[t].say /\ row.kick = "cloud" => Closed(row)
      BY <2>1, TickTable, MessageFacts DEF ToldKept
    <3>2. "completed" \in tick'[t].say /\ row.kick = "cloud" => row.anchor # NoPacket
      BY <3>1 DEF Closed
    <3>3. UNCHANGED sent BY <2>1 DEF Report
    <3> QED BY <2>0, <3>2, <3>3 DEF AnchorKept
  <2>2. CASE SendSucceeds(t)
    <3>1. tick[t].pc = "send" /\ tick'[t].pc = "flag" BY <2>2, TickTable
    <3>2. sent'["completed"] = IF "completed" \in tick[t].say
                               THEN UpTo2(sent["completed"]) ELSE sent["completed"]
      BY <2>2, SentTable DEF Milestone
    <3> QED BY <2>0, <3>1, <3>2 DEF AnchorKept
  <2>3. CASE ~Report(t) /\ ~SendSucceeds(t)
    <3>1. UNCHANGED sent /\ tick'[t].pc # "send" BY <1>8, <2>3, TickCall, SayTable
    <3> QED BY <1>1, <2>0, <3>1
  <2> QED BY <2>1, <2>2, <2>3
<1>9. ASSUME NEW h \in Handlers, HandlerStep(h) PROVE AnchorKept'
  <2>1. row'.anchor = row.anchor \/ row'.anchor # NoPacket BY <1>9, HandlerTable, PacketFacts
  <2> QED BY <1>1, <1>9, <2>1, HandlerTable
<1>10. ASSUME NEW h \in Handlers, Arrive(h) PROVE AnchorKept' BY <1>1, <1>10, ArriveTable
<1>11. CASE UNCHANGED vars BY <1>1, <1>11 DEF vars
<1> QED BY <1>2, <1>3, <1>4, <1>5, <1>6, <1>7, <1>8, <1>9, <1>10, <1>11, NextSplit

-----------------------------------------------------------------------------
LEMMA SerialInit == Init => SerialInv
<1> SUFFICES ASSUME Init PROVE SerialInv OBVIOUS
<1>q. \A p \in Packet : Queued[p] = "queued" BY DEF Queued
<1>1. /\ TicksIdle /\ HandlersIdle /\ \A a \in Caller : call[a].stage = "none"
      /\ delegate = "kick" /\ crashes = 0
  BY IdlePcs DEF Init, TicksIdle, HandlersIdle
<1>r. /\ row.psm = Queued /\ row.status = RunStatus(Queued, Required) /\ row.kick = "none"
      /\ row.told = {} /\ row.terms = [p \in Packet |-> NoRec]
  BY DEF Init, Shell
<1>2. Alone BY <1>1 DEF Alone, Caller, TicksIdle, HandlersIdle
<1>3. Fresh BY <1>1 DEF Fresh, TickFresh, HandlerFresh, TicksIdle, HandlersIdle
<1>4. StatusKept BY <1>r DEF StatusKept
<1>6. HandedOnce BY <1>1 DEF Init, HandedOnce, TicksIdle
<1>7. ToldKept BY <1>1, <1>r DEF Init, ToldKept, TicksIdle
<1>8. AnchorKept BY <1>1, <1>r DEF Init, AnchorKept, TicksIdle, Milestone
<1> QED BY <1>1, <1>2, <1>3, <1>4, <1>6, <1>7, <1>8 DEF SerialInv

LEMMA SerialStep == ASSUME ~Overlap PROVE LifecycleInv /\ SerialInv /\ [Next]_vars => SerialInv'
<1> SUFFICES ASSUME LifecycleInv, SerialInv, [Next]_vars PROVE SerialInv' OBVIOUS
<1>1. TypeInv /\ TypeInv' BY LifecycleInvStep DEF LifecycleInv
<1>2. Alone' BY <1>1, AloneStep DEF SerialInv
<1>3. Fresh' BY <1>1, FreshStep DEF SerialInv
<1>4. StatusKept' BY <1>1, StatusStep DEF SerialInv
<1>6. HandedOnce' BY HandedStep DEF SerialInv
<1>7. ToldKept' BY <1>1, ToldStep DEF SerialInv
<1>8. AnchorKept' BY <1>1, AnchorStep DEF SerialInv
<1>9. crashes' \in Nat
  <2>1. crashes' \in {crashes, crashes + 1}
    BY <1>1, NextSplit, TurnTable, CrashTable, CallTable, BeginTable, TickFrame, HandlerTable,
       ArriveTable
    DEF vars
  <2> QED BY <2>1 DEF SerialInv
<1> QED BY <1>2, <1>3, <1>4, <1>6, <1>7, <1>8, <1>9 DEF SerialInv

\* When actors do not overlap, each finds the row as it left it.
THEOREM SerialInvariant == ASSUME ~Overlap PROVE Spec => []SerialInv
<1>1. LifecycleInv /\ SerialInv /\ [Next]_vars => SerialInv' BY SerialStep
<1> QED BY <1>1, SerialInit, LifecycleInvariant, PTL DEF Spec

\* A packet is handed to the cloud agent once, and once more per crash.
THEOREM HandedOverOnce == ASSUME ~Overlap PROVE Spec => []DispatchedOnce
<1>1. SerialInv => DispatchedOnce BY DEF SerialInv, HandedOnce, DispatchedOnce
<1> QED BY <1>1, SerialInvariant, PTL

\* A milestone reaches the founder once, and once more per crash.
THEOREM MilestonesToldOnce == ASSUME ~Overlap PROVE Spec => []ToldOnce
<1>1. SerialInv => ToldOnce BY DEF SerialInv, ToldKept, ToldOnce
<1> QED BY <1>1, SerialInvariant, PTL

\* The end of a run started in the cloud is not told before its closure.
THEOREM ToldAfterAnchor == ASSUME ~Overlap PROVE Spec => []CompletedAfterAnchor
<1>1. SerialInv => CompletedAfterAnchor BY DEF SerialInv, AnchorKept, CompletedAfterAnchor
<1> QED BY <1>1, SerialInvariant, PTL

\* At rest the status is the one the packets call for.
THEOREM StatusIsKept == ASSUME ~Overlap PROVE Spec => []StatusFits
<1>1. SerialInv => StatusFits BY DEF SerialInv, StatusKept, StatusFits
<1> QED BY <1>1, SerialInvariant, PTL
=============================================================================
