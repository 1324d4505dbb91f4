------------------------ MODULE ReceiveIntakeProofs ------------------------
(***************************************************************************)
(* A callback that names its packet settles no other packet, for any       *)
(* number of runs, packets, callbacks and crashes that interleave at every *)
(* await.  ClaimsStayHome is not inductive: which packet a commit moves    *)
(* was decided several steps before.  The invariant says that every        *)
(* candidate a callback holds is of the callback's own run, and that the   *)
(* one it commits is its own dispatch.                                     *)
(***************************************************************************)
EXTENDS ReceiveIntake, TLAPS

\* The callbacks the theorem is about.
CallbacksNamePacket == \A hints \in Hints : "packet_id" \in hints

AnyPacket   == Packets \cup {NoPacket}
AnyDispatch == Dispatch \cup {NoDispatch}
AnyWord     == Words \cup {""}
Key         == Name \X Dispatch

DispatcherRec == [pc : {"idle", "ledger", "trigger", "record", "anchor"},
                  packet : AnyPacket, anchor : AnyPacket]
HandlerRec ==
  [pc : {"idle", "correlate", "try", "commit", "anchor"}, for : AnyDispatch,
   hints : SUBSET Name, word : AnyWord, try : Seq(Key), hit : AnyDispatch]

RowsTyped ==
  /\ target \in [Runs -> AnyPacket] /\ anchor \in [Runs -> AnyPacket]
  /\ psm \in [Runs -> [Packets -> PacketState]]
DispatchersTyped == dispatcher \in [Runs -> DispatcherRec]
HandlersTyped    == handler \in [Handlers -> HandlerRec]

\* A candidate of a callback for dispatch d: a key of d's run.
OwnKey(d) == {k \in Key : k[2][1] = d[1]}

FitHandler(x) ==
  /\ x.pc # "idle" => /\ x.for \in Dispatch /\ "packet_id" \in x.hints
                      /\ <<x.for, DesiredState(x.word)>> \in said
  /\ x.pc = "try" => x.try \in Seq(OwnKey(x.for))
  /\ x.pc = "commit" => x.hit = x.for

HandlersFit == \A h \in Handlers : FitHandler(handler[h])

IntakeInv ==
  /\ RowsTyped /\ DispatchersTyped /\ HandlersTyped
  /\ HandlersFit /\ ClaimsStayHome

-----------------------------------------------------------------------------
LEMMA StatesTyped ==
  /\ {"queued", "running", "blocked", "review_required"} \subseteq PacketState
  /\ {"queued", "running", "blocked", "review_required"} \cap TerminalStates = {}
BY DEF PacketState, TerminalStates, DoneStates

\* The authority's answer is what the packet was or what the callback asks for:
\* of two contradicting claims of one time one says "failed".
LEMMA AnswerIsAClaim ==
  ASSUME NEW s \in PacketState, NEW word, NEW r
  PROVE  /\ DesiredState(word) \in PacketState
         /\ Authority(s, DesiredState(word), 1, r).state \in {s, DesiredState(word)}
<1> DEFINE d == DesiredState(word)
           a == Authority(s, d, 1, r)
<1>1. d \in PacketState BY DEF DesiredState, PacketState
<1> HIDE DEF d
<1>2. ASSUME NEW x \in TerminalStates, NEW y \in TerminalStates,
             Polarity(x) # Polarity(y)
      PROVE  "failed" \in {x, y}
  BY <1>2 DEF TerminalStates, DoneStates, Polarity
<1>3. \/ a = [accept |-> TRUE, state |-> d, rec |-> RecordOf(d, 1, r)]
      \/ a = [accept |-> FALSE, state |-> s, rec |-> r]
      \/ /\ a = [accept |-> TRUE, state |-> "failed", rec |-> RecordOf("failed", 1, r)]
         /\ {s, d} \subseteq TerminalStates /\ Polarity(s) # Polarity(d)
  BY DEF Authority, Tie
<1> HIDE DEF a
<1>4. a.state \in {s, d} BY <1>2, <1>3
<1> QED BY <1>1, <1>4 DEF a, d

\* Replacing one handler, with the rows of the packets left alone.
LEMMA HandlerKeeps ==
  ASSUME IntakeInv, NEW h \in Handlers, NEW x \in HandlerRec,
         handler' = [handler EXCEPT ![h] = x], FitHandler(x),
         RowsTyped', ClaimsStayHome', UNCHANGED <<dispatcher, said>>
  PROVE  IntakeInv'
<1>1. handler \in [Handlers -> HandlerRec] BY DEF IntakeInv, HandlersTyped
<1>2. HandlersTyped' BY <1>1 DEF HandlersTyped
<1>3. ASSUME NEW k \in Handlers PROVE FitHandler(handler[k])'
  <2>1. handler'[k] = IF k = h THEN x ELSE handler[k] BY <1>1
  <2>2. FitHandler(handler[k]) BY DEF IntakeInv, HandlersFit
  <2>3. FitHandler(handler'[k]) BY <2>1, <2>2
  <2> QED BY <2>3 DEF FitHandler
<1> QED BY <1>2, <1>3 DEF IntakeInv, DispatchersTyped, HandlersFit

LEMMA IdleTyped == IdleDispatcher \in DispatcherRec /\ IdleHandler \in HandlerRec
                   /\ FitHandler(IdleHandler)
<1>1. <<>> \in Seq(Key) OBVIOUS
<1>2. IdleHandler \in HandlerRec
  BY <1>1 DEF IdleHandler, HandlerRec, AnyDispatch, AnyWord, Name
<1>3. IdleDispatcher \in DispatcherRec BY DEF IdleDispatcher, DispatcherRec, AnyPacket
<1> QED BY <1>2, <1>3 DEF FitHandler, IdleHandler

-----------------------------------------------------------------------------
(* The dispatcher writes progress states only. *)

LEMMA ProgressKeeps ==
  ASSUME IntakeInv, NEW r \in Runs, NEW p, NEW v \in PacketState \ TerminalStates,
         psm' = [psm EXCEPT ![r][p] = v], UNCHANGED said
  PROVE  psm' \in [Runs -> [Packets -> PacketState]] /\ ClaimsStayHome'
<1>1. psm \in [Runs -> [Packets -> PacketState]] BY DEF IntakeInv, RowsTyped
<1>2. psm' \in [Runs -> [Packets -> PacketState]] BY <1>1
<1>3. ASSUME NEW d \in Dispatch, psm'[d[1]][d[2]] \in TerminalStates
      PROVE  <<d, psm'[d[1]][d[2]]>> \in said
  <2>1. d[1] \in Runs /\ d[2] \in Packets BY DEF Dispatch
  <2>2. psm'[d[1]][d[2]] \in {psm[d[1]][d[2]], v} BY <1>1, <2>1
  <2>3. psm'[d[1]][d[2]] = psm[d[1]][d[2]] BY <1>3, <2>2
  <2> QED BY <1>3, <2>3 DEF IntakeInv, ClaimsStayHome
<1> QED BY <1>2, <1>3 DEF ClaimsStayHome

LEMMA ClaimsKept ==
  ASSUME IntakeInv, UNCHANGED psm, said \subseteq said'
  PROVE  ClaimsStayHome'
BY DEF IntakeInv, ClaimsStayHome

LEMMA DispatcherKeeps ==
  ASSUME IntakeInv, NEW r \in Runs,
         DispatcherStep(r) \/ \E p \in Packets : Bind(r, p)
  PROVE  IntakeInv'
<1> DEFINE d == dispatcher[r]
<1>1. /\ d \in DispatcherRec /\ dispatcher \in [Runs -> DispatcherRec]
      /\ target \in [Runs -> AnyPacket] /\ anchor \in [Runs -> AnyPacket]
      /\ psm \in [Runs -> [Packets -> PacketState]]
  BY DEF IntakeInv, RowsTyped, DispatchersTyped
<1>2. UNCHANGED <<handler, said>>
  BY DEF DispatcherStep, BindLedger, Trigger, Record, RecordAnchor, Bind
<1>3. SUFFICES RowsTyped' /\ DispatchersTyped' /\ ClaimsStayHome'
  BY <1>2 DEF IntakeInv, HandlersTyped, HandlersFit, FitHandler
<1>4. ASSUME NEW p \in Packets, Bind(r, p)
      PROVE  RowsTyped' /\ DispatchersTyped' /\ ClaimsStayHome'
  <2>1. [pc |-> "ledger", packet |-> p, anchor |-> anchor[r]] \in DispatcherRec
    BY <1>1 DEF DispatcherRec, AnyPacket
  <2>2. DispatchersTyped' BY <1>1, <1>4, <2>1 DEF Bind, DispatchersTyped
  <2>3. psm' = psm \/ psm' = [psm EXCEPT ![r][p] = "blocked"] BY <1>4 DEF Bind
  <2>4. psm' \in [Runs -> [Packets -> PacketState]] /\ ClaimsStayHome'
    BY <1>1, <1>2, <2>3, ClaimsKept, ProgressKeeps, StatesTyped
  <2>5. RowsTyped' BY <1>1, <1>4, <2>4 DEF Bind, RowsTyped
  <2> QED BY <2>2, <2>4, <2>5
<1>5. CASE BindLedger(r)
  <2>1. d.packet \in AnyPacket /\ d.anchor \in AnyPacket BY <1>1 DEF DispatcherRec
  <2>2. [d EXCEPT !.pc = "trigger"] \in DispatcherRec BY <1>1 DEF DispatcherRec
  <2>3. DispatchersTyped' BY <1>1, <1>5, <2>2 DEF BindLedger, DispatchersTyped
  <2>4. RowsTyped' BY <1>1, <1>5, <2>1 DEF BindLedger, RowsTyped
  <2>5. ClaimsStayHome' BY <1>2, <1>5, ClaimsKept DEF BindLedger
  <2> QED BY <2>3, <2>4, <2>5
<1>6. CASE Trigger(r)
  <2>1. [d EXCEPT !.pc = "record"] \in DispatcherRec BY <1>1 DEF DispatcherRec
  <2>2. DispatchersTyped' BY <1>1, <1>6, <2>1, IdleTyped DEF Trigger, DispatchersTyped
  <2>3. \/ psm' = [psm EXCEPT ![r][d.packet] = "running"]
        \/ psm' = [psm EXCEPT ![r][d.packet] = "review_required"]
    BY <1>6 DEF Trigger
  <2>4. psm' \in [Runs -> [Packets -> PacketState]] /\ ClaimsStayHome'
    BY <1>1, <1>2, <2>3, ProgressKeeps, StatesTyped
  <2> QED BY <1>1, <1>6, <2>2, <2>4 DEF Trigger, RowsTyped
<1>7. CASE Record(r)
  <2>1. [d EXCEPT !.pc = "anchor", !.anchor = anchor[r]] \in DispatcherRec
    BY <1>1 DEF DispatcherRec
  <2>2. DispatchersTyped' BY <1>1, <1>7, <2>1 DEF Record, DispatchersTyped
  <2>3. RowsTyped' BY <1>1, <1>7 DEF Record, RowsTyped, rows
  <2>4. ClaimsStayHome' BY <1>2, <1>7, ClaimsKept DEF Record, rows
  <2> QED BY <2>2, <2>3, <2>4
<1>8. CASE RecordAnchor(r)
  <2>1. d.anchor \in AnyPacket BY <1>1 DEF DispatcherRec
  <2>2. DispatchersTyped' BY <1>1, <1>8, IdleTyped DEF RecordAnchor, DispatchersTyped
  <2>3. RowsTyped' BY <1>1, <1>8, <2>1 DEF RecordAnchor, RowsTyped
  <2>4. ClaimsStayHome' BY <1>2, <1>8, ClaimsKept DEF RecordAnchor
  <2> QED BY <2>2, <2>3, <2>4
<1> QED BY <1>4, <1>5, <1>6, <1>7, <1>8 DEF DispatcherStep

-----------------------------------------------------------------------------
(* Callbacks. *)

LEMMA CallbackKeeps ==
  ASSUME CallbacksNamePacket, IntakeInv, NEW h \in Handlers, NEW d \in Dispatch,
         NEW hints \in Hints, NEW word \in Words, Callback(h, d, hints, word)
  PROVE  IntakeInv'
<1> DEFINE x == [IdleHandler EXCEPT !.pc = "correlate", !.for = d, !.hints = hints,
                                    !.word = word]
<1>1. /\ handler' = [handler EXCEPT ![h] = x]
      /\ said' = said \cup {<<d, DesiredState(word)>>}
      /\ UNCHANGED <<rows, dispatcher, triggered>>
  BY DEF Callback
<1>2. hints \in SUBSET Name /\ "packet_id" \in hints
  BY IntakeAssumption DEF CallbacksNamePacket
<1>3. /\ x \in HandlerRec /\ x.pc = "correlate" /\ x.for = d /\ x.hints = hints
      /\ x.word = word
  BY <1>2, IdleTyped DEF HandlerRec, AnyDispatch, AnyWord
<1> HIDE DEF x
<1>4. handler \in [Handlers -> HandlerRec] BY DEF IntakeInv, HandlersTyped
<1>5. ASSUME NEW k \in Handlers PROVE FitHandler(handler[k])'
  <2>1. handler'[k] = IF k = h THEN x ELSE handler[k] BY <1>1, <1>4
  <2>2. FitHandler(handler[k]) BY DEF IntakeInv, HandlersFit
  <2> QED BY <1>1, <1>2, <1>3, <2>1, <2>2 DEF FitHandler
<1>6. RowsTyped' /\ ClaimsStayHome'
  BY <1>1, ClaimsKept DEF IntakeInv, RowsTyped, rows
<1>7. HandlersTyped' BY <1>1, <1>3, <1>4 DEF HandlersTyped
<1> QED BY <1>1, <1>5, <1>6, <1>7 DEF IntakeInv, DispatchersTyped, HandlersFit

LEMMA ShortSeq ==
  ASSUME NEW S, NEW x, NEW c \in BOOLEAN, c => x \in S
  PROVE  (IF c THEN <<x>> ELSE <<>>) \in Seq(S)
OBVIOUS

\* Each candidate is a key of the callback's own run.
LEMMA CandidatesAreOwn ==
  ASSUME IntakeInv, NEW e \in HandlerRec, e.for \in Dispatch
  PROVE  Candidates(e) \in Seq(OwnKey(e.for))
<1> DEFINE own      == OwnKey(e.for)
           accepted == IF HasAccepted(e) THEN <<AcceptedKey(e)>> ELSE <<>>
           request  == IF {"accepted_external_id", "request_id"} \subseteq e.hints
                       THEN <<<<"request_id", e.for>>>> ELSE <<>>
           awaited  == <<"request_id", <<e.for[1], target[e.for[1]]>>>>
           ledger   == IF /\ "run_id" \in e.hints /\ target[e.for[1]] # NoPacket
                          /\ awaited \notin ToSet(accepted \o request)
                       THEN <<awaited>> ELSE <<>>
<1>1. e.for[1] \in Runs /\ target[e.for[1]] \in AnyPacket
  BY DEF Dispatch, IntakeInv, RowsTyped
<1>2. AcceptedKey(e) \in own BY DEF AcceptedKey, OwnKey, Key, Name
<1>3. <<"request_id", e.for>> \in own BY DEF OwnKey, Key, Name
<1>4. target[e.for[1]] # NoPacket => awaited \in own
  BY <1>1 DEF OwnKey, Key, Name, Dispatch, AnyPacket
<1> HIDE DEF own, awaited
<1>5. accepted \in Seq(own)
  <2> HasAccepted(e) \in BOOLEAN BY DEF HasAccepted
  <2> QED BY <1>2, ShortSeq
<1>6. request \in Seq(own) BY <1>3, ShortSeq
<1>7. ledger \in Seq(own) BY <1>4, ShortSeq
<1>8. Candidates(e) = accepted \o request \o ledger BY DEF Candidates, awaited
<1> HIDE DEF accepted, request, ledger
<1>9. Candidates(e) \in Seq(own) BY <1>5, <1>6, <1>7, <1>8
<1> QED BY <1>9 DEF own

LEMMA HeadAndTail ==
  ASSUME NEW S, NEW s \in Seq(S), s # <<>>
  PROVE  Head(s) \in S /\ Tail(s) \in Seq(S)
OBVIOUS

LEMMA HandlerStepKeeps ==
  ASSUME IntakeInv, NEW h \in Handlers, HandlerStep(h)
  PROVE  IntakeInv'
<1> DEFINE e == handler[h]
<1>1. /\ e \in HandlerRec /\ FitHandler(e)
      /\ anchor \in [Runs -> AnyPacket]
      /\ psm \in [Runs -> [Packets -> PacketState]]
  BY DEF IntakeInv, HandlersTyped, HandlersFit, RowsTyped
<1>2. UNCHANGED <<dispatcher, target, said>>
  BY DEF HandlerStep, Correlate, TryNext, NoCandidate, Commit, Anchor, rows
<1>3. ASSUME psm' = psm, anchor' \in [Runs -> AnyPacket]
      PROVE  RowsTyped' /\ ClaimsStayHome'
  BY <1>2, <1>3, ClaimsKept DEF IntakeInv, RowsTyped
<1>4. CASE Correlate(h)
  <2> DEFINE x == [e EXCEPT !.pc = "try", !.try = Candidates(e)]
  <2>1. /\ handler' = [handler EXCEPT ![h] = IF Correlated(e) THEN x ELSE IdleHandler]
        /\ e.pc = "correlate" /\ psm' = psm /\ anchor' = anchor
    BY <1>4 DEF Correlate, rows
  <2> HIDE DEF e
  <2>2. e.for \in Dispatch BY <1>1, <2>1 DEF FitHandler
  <2>3. Candidates(e) \in Seq(OwnKey(e.for)) BY <1>1, <2>2, CandidatesAreOwn
  <2>4. Candidates(e) \in Seq(Key) BY <2>3 DEF OwnKey
  <2>5. /\ x \in HandlerRec /\ x.pc = "try" /\ x.try = Candidates(e)
        /\ x.for = e.for /\ x.hints = e.hints /\ x.word = e.word
    BY <1>1, <2>4 DEF HandlerRec
  <2> HIDE DEF x
  <2>6. FitHandler(x) BY <1>1, <2>1, <2>3, <2>5 DEF FitHandler
  <2>7. RowsTyped' /\ ClaimsStayHome' BY <1>1, <1>3, <2>1
  <2>8. CASE Correlated(e) BY <1>2, <2>1, <2>5, <2>6, <2>7, <2>8, HandlerKeeps
  <2>9. CASE ~Correlated(e) BY <1>2, <2>1, <2>7, <2>9, IdleTyped, HandlerKeeps
  <2> QED BY <2>8, <2>9
<1>5. CASE TryNext(h)
  <2> DEFINE d == Head(e.try)[2]
             x == [e EXCEPT !.try = Tail(e.try)]
             y == [e EXCEPT !.pc = "commit", !.hit = d]
  <2>1. /\ e.pc = "try" /\ e.try # <<>> /\ psm' = psm /\ anchor' = anchor
        /\ \/ handler' = [handler EXCEPT ![h] = x]
           \/ Passes(e) /\ handler' = [handler EXCEPT ![h] = y]
           \/ handler' = [handler EXCEPT ![h] = IdleHandler]
    BY <1>5 DEF TryNext, rows
  <2> HIDE DEF e
  <2>2. e.try \in Seq(OwnKey(e.for)) /\ e.for \in Dispatch /\ "packet_id" \in e.hints
    BY <1>1, <2>1 DEF FitHandler
  <2>3. Head(e.try) \in OwnKey(e.for) /\ Tail(e.try) \in Seq(OwnKey(e.for))
    BY <2>1, <2>2, HeadAndTail
  <2>4. d \in Dispatch /\ d[1] = e.for[1] BY <2>3 DEF OwnKey, Key
  <2>5. Tail(e.try) \in Seq(Key) BY <2>3 DEF OwnKey
  <2>6. Passes(e) => d = e.for
    <3>1. Passes(e) => e.for[2] = d[2] BY <2>2 DEF Passes, SamePacket
    <3> QED BY <2>2, <2>4, <3>1 DEF Dispatch
  <2> HIDE DEF d
  <2>7. /\ x \in HandlerRec /\ x.pc = "try" /\ x.try = Tail(e.try)
        /\ x.for = e.for /\ x.hints = e.hints /\ x.word = e.word
    BY <1>1, <2>1, <2>5 DEF HandlerRec
  <2>8. /\ y \in HandlerRec /\ y.pc = "commit" /\ y.hit = d
        /\ y.for = e.for /\ y.hints = e.hints /\ y.word = e.word
    BY <1>1, <2>4 DEF HandlerRec, AnyDispatch
  <2> HIDE DEF x, y
  <2>9. FitHandler(x) BY <1>1, <2>1, <2>3, <2>7 DEF FitHandler
  <2>10. Passes(e) => FitHandler(y) BY <1>1, <2>1, <2>6, <2>8 DEF FitHandler
  <2>11. RowsTyped' /\ ClaimsStayHome' BY <1>1, <1>3, <2>1
  <2> QED
    BY <1>2, <2>1, <2>7, <2>8, <2>9, <2>10, <2>11, IdleTyped, HandlerKeeps
<1>6. CASE NoCandidate(h)
  <2>1. /\ handler' = [handler EXCEPT ![h] = IdleHandler]
        /\ psm' = psm /\ anchor' = anchor
    BY <1>6 DEF NoCandidate, rows
  <2>2. RowsTyped' /\ ClaimsStayHome' BY <1>1, <1>3, <2>1
  <2> QED BY <1>2, <2>1, <2>2, IdleTyped, HandlerKeeps
<1>7. CASE Commit(h)
  <2> DEFINE d == e.hit
             w == DesiredState(e.word)
             a == Authority(psm[d[1]][d[2]], w, 1, terms[d[1]][d[2]])
             x == [e EXCEPT !.pc = "anchor"]
  <2>1. /\ e.pc = "commit" /\ anchor' = anchor
        /\ psm' = psm \/ psm' = [psm EXCEPT ![d[1]][d[2]] = a.state]
        /\ \/ handler' = [handler EXCEPT ![h] = x]
           \/ handler' = [handler EXCEPT ![h] = IdleHandler]
    BY <1>7 DEF Commit
  <2> HIDE DEF e
  <2>2. /\ d = e.for /\ d \in Dispatch /\ d[1] \in Runs /\ d[2] \in Packets
        /\ <<d, w>> \in said
    BY <1>1, <2>1 DEF FitHandler, Dispatch
  <2>3. psm[d[1]][d[2]] \in PacketState BY <1>1, <2>2
  <2>4. a.state \in PacketState /\ a.state \in {psm[d[1]][d[2]], w}
    BY <2>3, AnswerIsAClaim
  <2> HIDE DEF a, w
  <2>5. psm' \in [Runs -> [Packets -> PacketState]] BY <1>1, <2>1, <2>4
  <2>6. RowsTyped' BY <1>1, <1>2, <2>1, <2>5 DEF IntakeInv, RowsTyped
  <2>7. ASSUME NEW o \in Dispatch, psm'[o[1]][o[2]] \in TerminalStates
        PROVE  <<o, psm'[o[1]][o[2]]>> \in said
    <3>1. o[1] \in Runs /\ o[2] \in Packets /\ o = <<o[1], o[2]>> BY DEF Dispatch
    <3>2. d = <<d[1], d[2]>> BY <2>2 DEF Dispatch
    <3>3. CASE psm'[o[1]][o[2]] = psm[o[1]][o[2]]
      BY <2>7, <3>3 DEF IntakeInv, ClaimsStayHome
    <3>4. CASE psm'[o[1]][o[2]] # psm[o[1]][o[2]]
      <4>1. o[1] = d[1] /\ o[2] = d[2] /\ psm'[o[1]][o[2]] = a.state
        BY <1>1, <2>1, <2>2, <3>1, <3>4
      <4>2. o = d /\ psm'[o[1]][o[2]] = w BY <2>4, <3>1, <3>2, <3>4, <4>1
      <4> QED BY <2>2, <4>2
    <3> QED BY <3>3, <3>4
  <2>8. ClaimsStayHome' BY <1>2, <2>7 DEF ClaimsStayHome
  <2>9. /\ x \in HandlerRec /\ x.pc = "anchor"
        /\ x.for = e.for /\ x.hints = e.hints /\ x.word = e.word
    BY <1>1 DEF HandlerRec
  <2> HIDE DEF x
  <2>10. FitHandler(x) BY <1>1, <2>1, <2>9 DEF FitHandler
  <2> QED BY <1>2, <2>1, <2>6, <2>8, <2>9, <2>10, IdleTyped, HandlerKeeps
<1>8. CASE Anchor(h)
  <2>1. /\ handler' = [handler EXCEPT ![h] = IdleHandler] /\ psm' = psm
        /\ anchor' = [anchor EXCEPT ![e.hit[1]] = e.hit[2]]
    BY <1>8 DEF Anchor
  <2> HIDE DEF e
  <2>2. e.hit[2] \in AnyPacket
    <3>1. e.hit \in AnyDispatch BY <1>1 DEF HandlerRec
    <3>2. NoDispatch[2] = NoPacket BY DEF NoDispatch
    <3> QED BY <3>1, <3>2 DEF AnyDispatch, Dispatch, AnyPacket
  <2>3. anchor' \in [Runs -> AnyPacket] BY <1>1, <2>1, <2>2
  <2>4. RowsTyped' /\ ClaimsStayHome' BY <1>3, <2>1, <2>3
  <2> QED BY <1>2, <2>1, <2>4, IdleTyped, HandlerKeeps
<1> QED BY <1>4, <1>5, <1>6, <1>7, <1>8 DEF HandlerStep

LEMMA CrashKeeps == IntakeInv /\ Crash => IntakeInv'
<1> SUFFICES ASSUME IntakeInv, Crash PROVE IntakeInv' OBVIOUS
<1>1. /\ dispatcher' = [r \in Runs |-> IdleDispatcher]
      /\ handler' = [h \in Handlers |-> IdleHandler]
      /\ UNCHANGED <<rows, said>>
  BY DEF Crash
<1>2. RowsTyped' /\ ClaimsStayHome'
  BY <1>1, ClaimsKept DEF IntakeInv, RowsTyped, rows
<1>3. DispatchersTyped' /\ HandlersTyped'
  BY <1>1, IdleTyped DEF DispatchersTyped, HandlersTyped
<1>4. HandlersFit' BY <1>1 DEF HandlersFit, FitHandler, IdleHandler
<1> QED BY <1>2, <1>3, <1>4 DEF IntakeInv

LEMMA IntakeInit == Init => IntakeInv
<1> SUFFICES ASSUME Init PROVE IntakeInv OBVIOUS
<1>1. NoPacket \in AnyPacket /\ "queued" \in PacketState /\ "queued" \notin TerminalStates
  BY StatesTyped DEF AnyPacket
<1>2. RowsTyped BY <1>1 DEF Init, RowsTyped
<1>3. DispatchersTyped /\ HandlersTyped
  BY IdleTyped DEF Init, DispatchersTyped, HandlersTyped
<1>4. HandlersFit BY DEF Init, HandlersFit, FitHandler, IdleHandler
<1>5. ClaimsStayHome BY <1>1 DEF Init, ClaimsStayHome, Dispatch
<1> QED BY <1>2, <1>3, <1>4, <1>5 DEF IntakeInv

LEMMA IntakeStep ==
  ASSUME CallbacksNamePacket, IntakeInv, [Next]_vars
  PROVE  IntakeInv'
<1>1. ASSUME NEW r \in Runs, DispatcherStep(r) \/ \E p \in Packets : Bind(r, p)
      PROVE  IntakeInv'
  BY <1>1, DispatcherKeeps
<1>2. ASSUME NEW h \in Handlers, HandlerStep(h) PROVE IntakeInv'
  BY <1>2, HandlerStepKeeps
<1>3. ASSUME NEW h \in Handlers, NEW d \in Dispatch, NEW hints \in Hints,
             NEW word \in Words, Callback(h, d, hints, word)
      PROVE  IntakeInv'
  BY <1>3, CallbackKeeps
<1>4. CASE UNCHANGED vars
  BY <1>4 DEF vars, rows, IntakeInv, RowsTyped, DispatchersTyped, HandlersTyped,
              HandlersFit, FitHandler, ClaimsStayHome
<1> QED BY <1>1, <1>2, <1>3, <1>4, CrashKeeps DEF Next

\* As long as each callback names its packet (cursorReceiveCommit.js patches
\* a packet only when keys, correlation and ledger agree), a terminal state of a
\* packet is one that a callback about that very dispatch asked for, whatever
\* runs share its id and whichever candidate the callback was committed under.
THEOREM ClaimsStay ==
  ASSUME CallbacksNamePacket
  PROVE  Spec => []ClaimsStayHome
<1>1. IntakeInv /\ [Next]_vars => IntakeInv' BY IntakeStep
<1>2. IntakeInv => ClaimsStayHome BY DEF IntakeInv
<1> QED BY <1>1, <1>2, IntakeInit, PTL DEF Spec

-----------------------------------------------------------------------------
(* What the store and the actors hold is of this thread: keys of its       *)
(* dispatches, a packet while a tool invocation is under way, and at most  *)
(* the three candidates a callback can have.                               *)

RealDispatcher(x) == x.pc # "idle" => x.packet \in Packets
Real ==
  /\ known \subseteq Key /\ triggered \subseteq Dispatch
  /\ \A r \in Runs : RealDispatcher(dispatcher[r])
  /\ \A h \in Handlers : Len(handler[h].try) \in 0..3

LEMMA RealDispatcherStep ==
  ASSUME IntakeInv, Real, NEW r \in Runs,
         DispatcherStep(r) \/ \E p \in Packets : Bind(r, p)
  PROVE  Real'
<1>1. /\ dispatcher \in [Runs -> DispatcherRec] /\ dispatcher[r] \in DispatcherRec
      /\ RealDispatcher(dispatcher[r])
  BY DEF IntakeInv, DispatchersTyped, Real
<1>2. handler' = handler
  BY DEF DispatcherStep, BindLedger, Trigger, Record, RecordAnchor, Bind
<1>3. ASSUME NEW p \in Packets, NEW id \in Name PROVE <<id, <<r, p>>>> \in Key
  BY DEF Key, Dispatch
<1>4. /\ known' \subseteq Key /\ triggered' \subseteq Dispatch
      /\ \/ dispatcher' = dispatcher
         \/ \E x : RealDispatcher(x) /\ dispatcher' = [dispatcher EXCEPT ![r] = x]
  <2>1. ASSUME NEW p \in Packets, Bind(r, p) PROVE <1>4
    <3>1. \/ known' = known
          \/ known' = known \cup {<<"request_id", <<r, p>>>>}
      BY <2>1 DEF Bind
    <3>2. PICK x : x = [pc |-> "ledger", packet |-> p, anchor |-> anchor[r]] OBVIOUS
    <3>3. dispatcher' = dispatcher \/ dispatcher' = [dispatcher EXCEPT ![r] = x]
      BY <2>1, <3>2 DEF Bind
    <3>4. RealDispatcher(x) BY <3>2 DEF RealDispatcher
    <3>5. triggered' = triggered BY <2>1 DEF Bind
    <3> QED BY <1>3, <3>1, <3>3, <3>4, <3>5 DEF Real, Name
  <2>2. CASE BindLedger(r)
    <3>1. PICK x : x = [dispatcher[r] EXCEPT !.pc = "trigger"] OBVIOUS
    <3>2. /\ dispatcher[r].pc = "ledger" /\ dispatcher' = [dispatcher EXCEPT ![r] = x]
          /\ UNCHANGED <<known, triggered>>
      BY <2>2, <3>1 DEF BindLedger
    <3>3. RealDispatcher(x) BY <1>1, <3>1, <3>2 DEF RealDispatcher, DispatcherRec
    <3> QED BY <3>2, <3>3 DEF Real
  <2>3. CASE Trigger(r)
    <3>1. PICK x : x = [dispatcher[r] EXCEPT !.pc = "record"] OBVIOUS
    <3>2. /\ dispatcher[r].pc = "trigger" /\ known' = known
          /\ dispatcher' \in {[dispatcher EXCEPT ![r] = x],
                              [dispatcher EXCEPT ![r] = IdleDispatcher]}
          /\ triggered' \subseteq triggered \cup {<<r, dispatcher[r].packet>>}
      BY <2>3, <3>1 DEF Trigger
    <3>3. RealDispatcher(x) BY <1>1, <3>1, <3>2 DEF RealDispatcher, DispatcherRec
    <3>4. RealDispatcher(IdleDispatcher) BY DEF RealDispatcher, IdleDispatcher
    <3>5. dispatcher[r].packet \in Packets BY <1>1, <3>2 DEF RealDispatcher
    <3> QED BY <3>2, <3>3, <3>4, <3>5 DEF Real, Dispatch
  <2>4. CASE Record(r)
    <3>1. PICK x : x = [dispatcher[r] EXCEPT !.pc = "anchor", !.anchor = anchor[r]]
      OBVIOUS
    <3>2. /\ dispatcher[r].pc = "record" /\ dispatcher' = [dispatcher EXCEPT ![r] = x]
          /\ triggered' = triggered
      BY <2>4, <3>1 DEF Record
    <3>3. RealDispatcher(x) BY <1>1, <3>1, <3>2 DEF RealDispatcher, DispatcherRec
    <3>4. dispatcher[r].packet \in Packets BY <1>1, <3>2 DEF RealDispatcher
    <3>5. PICK ids \in SUBSET {"external_run_id", "accepted_external_id"} :
            known' = known \cup {<<id, <<r, dispatcher[r].packet>>>> : id \in ids}
      BY <2>4 DEF Record
    <3>6. known' \subseteq Key
      <4>1. ASSUME NEW id \in ids PROVE <<id, <<r, dispatcher[r].packet>>>> \in Key
        BY <1>3, <3>4 DEF Name
      <4> QED BY <3>5, <4>1 DEF Real
    <3> QED BY <3>2, <3>3, <3>6 DEF Real
  <2>5. CASE RecordAnchor(r)
    <3>1. /\ dispatcher' = [dispatcher EXCEPT ![r] = IdleDispatcher]
          /\ UNCHANGED <<known, triggered>>
      BY <2>5 DEF RecordAnchor
    <3>2. RealDispatcher(IdleDispatcher) BY DEF RealDispatcher, IdleDispatcher
    <3> QED BY <3>1, <3>2 DEF Real
  <2> QED BY <2>1, <2>2, <2>3, <2>4, <2>5 DEF DispatcherStep
<1>5. ASSUME NEW q \in Runs PROVE RealDispatcher(dispatcher[q])'
  <2>1. RealDispatcher(dispatcher'[q]) BY <1>1, <1>4 DEF Real
  <2> QED BY <2>1 DEF RealDispatcher
<1> QED BY <1>2, <1>4, <1>5 DEF Real

LEMMA OneAtMost ==
  ASSUME NEW x, NEW c \in BOOLEAN
  PROVE  \E k : (IF c THEN <<x>> ELSE <<>>) \in Seq({k})
                /\ Len(IF c THEN <<x>> ELSE <<>>) \in 0..1
<1>1. (IF c THEN <<x>> ELSE <<>>) \in Seq({x}) BY ShortSeq
<1>2. Len(IF c THEN <<x>> ELSE <<>>) \in 0..1 OBVIOUS
<1> QED BY <1>1, <1>2

LEMMA FewCandidates ==
  ASSUME NEW e PROVE Len(Candidates(e)) \in 0..3
<1> DEFINE a == IF HasAccepted(e) THEN <<AcceptedKey(e)>> ELSE <<>>
           b == IF {"accepted_external_id", "request_id"} \subseteq e.hints
                THEN <<<<"request_id", e.for>>>> ELSE <<>>
           w == <<"request_id", <<e.for[1], target[e.for[1]]>>>>
           c == IF /\ "run_id" \in e.hints /\ target[e.for[1]] # NoPacket
                   /\ w \notin ToSet(a \o b)
                THEN <<w>> ELSE <<>>
<1>1. Candidates(e) = a \o b \o c BY DEF Candidates
<1>2. \E k : a \in Seq({k}) /\ Len(a) \in 0..1
  <2> HasAccepted(e) \in BOOLEAN BY DEF HasAccepted
  <2> QED BY OneAtMost
<1>3. \E k : b \in Seq({k}) /\ Len(b) \in 0..1 BY OneAtMost
<1> HIDE DEF w
<1>4. \E k : c \in Seq({k}) /\ Len(c) \in 0..1 BY OneAtMost
<1> HIDE DEF a, b, c
<1>5. ASSUME NEW i, NEW j, NEW k, a \in Seq({i}), b \in Seq({j}), c \in Seq({k})
      PROVE  Len(a \o b \o c) = Len(a) + Len(b) + Len(c)
  <2>1. a \in Seq({i, j, k}) /\ b \in Seq({i, j, k}) /\ c \in Seq({i, j, k}) BY <1>5
  <2> QED BY <2>1
<1> QED BY <1>1, <1>2, <1>3, <1>4, <1>5

LEMMA RealHandlerStep ==
  ASSUME IntakeInv, Real, NEW h \in Handlers, HandlerStep(h)
  PROVE  Real'
<1>1. /\ handler \in [Handlers -> HandlerRec] /\ handler[h] \in HandlerRec
      /\ Len(handler[h].try) \in 0..3 /\ handler[h].try \in Seq(Key)
  BY DEF IntakeInv, HandlersTyped, Real, HandlerRec
<1>2. UNCHANGED <<known, triggered, dispatcher>>
  BY DEF HandlerStep, Correlate, TryNext, NoCandidate, Commit, Anchor
<1>3. PICK x : handler' = [handler EXCEPT ![h] = x]
              /\ \/ x = IdleHandler
                 \/ \E s \in {"try", "commit", "anchor"} :
                      x = [handler[h] EXCEPT !.pc = s]
                 \/ x = [handler[h] EXCEPT !.pc = "try", !.try = Candidates(handler[h])]
                 \/ /\ handler[h].try # <<>>
                    /\ x = [handler[h] EXCEPT !.try = Tail(handler[h].try)]
                 \/ x = [handler[h] EXCEPT !.pc = "commit",
                                           !.hit = Head(handler[h].try)[2]]
  BY DEF HandlerStep, Correlate, TryNext, NoCandidate, Commit, Anchor
<1>4. Len(IdleHandler.try) \in 0..3
  <2>1. IdleHandler.try = <<>> BY DEF IdleHandler
  <2> QED BY <2>1
<1>5. handler[h].try # <<>> => Len(Tail(handler[h].try)) \in 0..3 BY <1>1
<1>6. Len(x.try) \in 0..3 BY <1>1, <1>3, <1>4, <1>5, FewCandidates DEF HandlerRec
<1> QED BY <1>1, <1>2, <1>3, <1>6 DEF Real, RealDispatcher

LEMMA RealKept ==
  ASSUME CallbacksNamePacket, IntakeInv, Real, [Next]_vars
  PROVE  Real'
<1>1. Len(IdleHandler.try) \in 0..3
  <2>1. IdleHandler.try = <<>> BY DEF IdleHandler
  <2> QED BY <2>1
<1>2. ASSUME NEW h \in Handlers, NEW d \in Dispatch, NEW hints \in Hints,
             NEW word \in Words, Callback(h, d, hints, word)
      PROVE  Real'
  <2>1. PICK x : x = [IdleHandler EXCEPT !.pc = "correlate", !.for = d,
                                         !.hints = hints, !.word = word]
    OBVIOUS
  <2>2. /\ handler' = [handler EXCEPT ![h] = x]
        /\ UNCHANGED <<known, triggered, dispatcher>>
    BY <1>2, <2>1 DEF Callback
  <2>3. x.try = IdleHandler.try BY <2>1, IdleTyped DEF HandlerRec
  <2>4. handler \in [Handlers -> HandlerRec] BY DEF IntakeInv, HandlersTyped
  <2> QED BY <1>1, <2>2, <2>3, <2>4 DEF Real, RealDispatcher
<1>3. CASE Crash
  <2>1. /\ handler' = [h \in Handlers |-> IdleHandler]
        /\ dispatcher' = [r \in Runs |-> IdleDispatcher]
        /\ UNCHANGED <<known, triggered>>
    BY <1>3 DEF Crash
  <2>2. IdleDispatcher.pc = "idle" BY DEF IdleDispatcher
  <2> QED BY <1>1, <2>1, <2>2 DEF Real, RealDispatcher
<1>4. CASE UNCHANGED vars BY <1>4 DEF vars, Real, RealDispatcher
<1> QED BY <1>2, <1>3, <1>4, RealDispatcherStep, RealHandlerStep DEF Next

LEMMA RealAtFirst == Init => Real
<1> SUFFICES ASSUME Init PROVE Real OBVIOUS
<1>1. IdleHandler.try = <<>> /\ IdleDispatcher.pc = "idle"
  BY DEF IdleHandler, IdleDispatcher
<1> QED BY <1>1 DEF Init, Real, RealDispatcher

\* The correlation store, the rows and what the dispatchers and callbacks hold
\* over their awaits keep their types: only keys of real dispatches are stored
\* or tried, and a callback has at most three candidates
\* (receive commit under accepted id, request id and the awaited request).
THEOREM IntakeTypeCorrect ==
  ASSUME CallbacksNamePacket
  PROVE  Spec => []TypeOK
<1>1. (IntakeInv /\ Real) /\ [Next]_vars => (IntakeInv /\ Real)'
  <2> SUFFICES ASSUME IntakeInv, Real, [Next]_vars PROVE IntakeInv' /\ Real'
    OBVIOUS
  <2> QED BY IntakeStep, RealKept
<1>2. ASSUME IntakeInv, Real PROVE TypeOK
  <2>1. RowsTyped /\ DispatchersTyped /\ HandlersTyped BY <1>2 DEF IntakeInv
  <2>2. ASSUME NEW r \in Runs
        PROVE  /\ dispatcher[r].pc \in {"idle", "ledger", "trigger", "record", "anchor"}
               /\ dispatcher[r].packet \in Packets \cup {NoPacket}
               /\ dispatcher[r].anchor \in Packets \cup {NoPacket}
    BY <2>1 DEF DispatchersTyped, DispatcherRec, AnyPacket
  <2>3. ASSUME NEW h \in Handlers
        PROVE  /\ handler[h].pc \in {"idle", "correlate", "try", "commit", "anchor"}
               /\ handler[h].for \in Dispatch \cup {NoDispatch}
               /\ handler[h].hit \in Dispatch \cup {NoDispatch}
               /\ ToSet(handler[h].try) \subseteq Name \X Dispatch
               /\ Len(handler[h].try) <= 3
    <3>1. handler[h] \in HandlerRec /\ Len(handler[h].try) \in 0..3
      BY <1>2, <2>1 DEF HandlersTyped, Real
    <3>2. handler[h].try \in Seq(Key) BY <3>1 DEF HandlerRec
    <3>3. ToSet(handler[h].try) \subseteq Key BY <3>2 DEF ToSet
    <3>4. /\ handler[h].pc \in {"idle", "correlate", "try", "commit", "anchor"}
          /\ handler[h].for \in AnyDispatch /\ handler[h].hit \in AnyDispatch
      BY <3>1 DEF HandlerRec
    <3>5. Len(handler[h].try) <= 3
      <4>1. PICK n \in 0..3 : n = Len(handler[h].try) BY <3>1
      <4>2. n <= 3 OBVIOUS
      <4> QED BY ONLY <4>1, <4>2
    <3> QED BY <3>3, <3>4, <3>5, Zenon DEF AnyDispatch, Key
  <2> QED BY <1>2, <2>1, <2>2, <2>3 DEF Real, RowsTyped, AnyPacket, Key, TypeOK
<1>3. IntakeInv /\ Real => TypeOK BY <1>2
<1> QED BY <1>1, <1>3, IntakeInit, RealAtFirst, PTL DEF Spec
=============================================================================
