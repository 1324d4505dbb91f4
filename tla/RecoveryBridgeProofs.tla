------------------------ MODULE RecoveryBridgeProofs ------------------------
(***************************************************************************)
(* A push sends to review only packets whose files it touched, for any     *)
(* number of runs, packets, callbacks and pushes that overlap at every     *)
(* await, and any crashes.  ReviewIsEarned is not inductive: callbacks and *)
(* pushes write back packet states they read earlier.  The invariant says  *)
(* that no copy held by anybody shows a review that was not earned, and    *)
(* that a push past its test goes on with a dispatch it touched.           *)
(*                                                                         *)
(* A push may undo what the provider settled, if it listed the packet's    *)
(* envelope before; SettledPacketsStay says that this is the only way.     *)
(* The last part is about actors that do not overlap: the row and the      *)
(* memory agree at rest.                                                   *)
(***************************************************************************)
EXTENDS RecoveryBridge, TLAPS

AnyPacket   == Packets \cup {NoPacket}
AnyRun      == Runs \cup {""}
AnyWord     == Words \cup {""}
AnyEnvelope == [packet : AnyPacket, status : EnvelopeStatus \cup {"none"}]
Rec         == [at : Nat, outcome : {"positive", "negative", "none"}]
AnyDispatch == Runs \X AnyPacket

DispatcherRec == [pc : {"idle", "register", "sync"}, copy : AnyEnvelope]
HandlerRec ==
  [pc : {"idle", "mark", "fetch", "sync", "load", "store"}, run : AnyRun,
   packet : AnyPacket, word : AnyWord, copy : AnyEnvelope,
   states : States, terms : [Packets -> Rec]]
PushRec ==
  [pc : {"idle", "rows", "next", "try", "sync", "load", "store"},
   hits : SUBSET AnyDispatch, listed : SUBSET (Runs \X AnyEnvelope),
   run : AnyRun, env : AnyEnvelope, copy : AnyEnvelope, states : States]

RowsTyped ==
  /\ packet \in [Runs -> States] /\ terms \in [Runs -> [Packets -> Rec]]
  /\ bound \in [Runs -> AnyPacket] /\ row \in [Runs -> AnyEnvelope]
  /\ mem \in [Runs -> AnyEnvelope]
  /\ registered \subseteq AnyDispatch
ActorsTyped ==
  /\ dispatcher \in [Runs -> DispatcherRec]
  /\ handler \in [Handlers -> HandlerRec]
  /\ push \in [Pushes -> PushRec]
Typed == RowsTyped /\ ActorsTyped

\* States, read from the row of run r, that show no review but earned ones.
Earned(r, states) ==
  \A p \in Packets : states[p] = "review_required" => <<r, p>> \in pushed

HandlerGood(h) ==
  /\ handler[h].pc # "idle" => handler[h].run \in Runs /\ handler[h].packet \in Packets
  /\ handler[h].pc = "store" => Earned(handler[h].run, handler[h].states)

PushGood(g) ==
  /\ push[g].hits \subseteq pushed
  /\ push[g].pc \in {"try", "sync", "load", "store"} => push[g].run \in Runs
  /\ push[g].pc \in {"sync", "load", "store"} =>
       <<push[g].run, push[g].env.packet>> \in pushed
  /\ push[g].pc = "store" => Earned(push[g].run, push[g].states)

Good ==
  /\ \A r \in Runs : Earned(r, packet[r])
  /\ \A h \in Handlers : HandlerGood(h)
  /\ \A g \in Pushes : PushGood(g)

BridgeInv == Typed /\ Good

-----------------------------------------------------------------------------
LEMMA StatesTyped == "queued" \in PacketState /\ "running" \in PacketState
                     /\ "failed" \in PacketState /\ "review_required" \in PacketState
BY DEF PacketState

LEMMA IdleTyped ==
  /\ NoEnvelope \in AnyEnvelope
  /\ IdleDispatcher \in DispatcherRec
  /\ IdleHandler \in HandlerRec
  /\ IdlePush \in PushRec
<1>1. NoEnvelope \in AnyEnvelope BY DEF NoEnvelope, AnyEnvelope, AnyPacket
<1> DEFINE q == [p \in Packets |-> "queued"]
           n == [p \in Packets |-> NoRec]
<1>2. q \in States BY StatesTyped DEF States
<1>3. NoRec \in Rec BY DEF Rec, NoRec
<1>4. n \in [Packets -> Rec] BY <1>3
<1>5. "" \in AnyRun /\ "" \in AnyWord /\ NoPacket \in AnyPacket
  BY DEF AnyRun, AnyWord, AnyPacket
<1>6. IdleDispatcher \in DispatcherRec BY <1>1 DEF IdleDispatcher, DispatcherRec
<1>7. IdleHandler = [pc |-> "idle", run |-> "", packet |-> NoPacket, word |-> "",
                     copy |-> NoEnvelope, states |-> q, terms |-> n]
  BY DEF IdleHandler
<1>8. IdlePush = [pc |-> "idle", hits |-> {}, listed |-> {}, run |-> "",
                  env |-> NoEnvelope, copy |-> NoEnvelope, states |-> q]
  BY DEF IdlePush
<1> HIDE DEF q, n
<1>9. IdleHandler \in HandlerRec BY <1>1, <1>2, <1>4, <1>5, <1>7 DEF HandlerRec
<1>10. IdlePush \in PushRec BY <1>1, <1>2, <1>5, <1>8 DEF PushRec
<1> QED BY <1>1, <1>6, <1>9, <1>10

LEMMA PatchedTyped ==
  ASSUME NEW e \in AnyEnvelope, NEW s \in EnvelopeStatus
  PROVE  Patched(e, s) \in AnyEnvelope
BY DEF Patched, AnyEnvelope

\* What a callback asks for is never a review nor the queue, and the authority
\* answers with one only for a packet that is there.
LEMMA AnswerTyped ==
  ASSUME NEW s \in PacketState, NEW word, NEW r \in Rec
  PROVE  LET a == Authority(s, DesiredState(word), 1, r)
         IN  /\ a.state \in PacketState /\ a.rec \in Rec
             /\ a.state = "review_required" => s = "review_required"
             /\ a.state = "queued" => s = "queued"
<1> DEFINE d == DesiredState(word)
           a == Authority(s, d, 1, r)
<1>1. d \in PacketState \ {"review_required", "queued"} BY DEF DesiredState, PacketState
<1> HIDE DEF d
<1>2. \A x \in PacketState : RecordOf(x, 1, r) \in Rec
  <2>1. ASSUME NEW x \in PacketState PROVE Polarity(x) \in {"positive", "negative", "none"}
    BY DEF Polarity
  <2> QED BY <2>1 DEF RecordOf, Rec
<1>3. \/ a = [accept |-> TRUE, state |-> d, rec |-> RecordOf(d, 1, r)]
      \/ a = [accept |-> TRUE, state |-> "failed", rec |-> RecordOf("failed", 1, r)]
      \/ a = [accept |-> FALSE, state |-> s, rec |-> r]
  BY DEF Authority, Tie
<1> HIDE DEF a
<1>4. /\ a.state \in PacketState /\ a.rec \in Rec
      /\ a.state = "review_required" => s = "review_required"
      /\ a.state = "queued" => s = "queued"
  BY <1>1, <1>2, <1>3, StatesTyped
<1> QED BY <1>4 DEF a, d

-----------------------------------------------------------------------------
(* Types.  Only the ledger's packet becomes an envelope, so every envelope *)
(* and everything listed or registered names a packet or none.             *)

LEMMA TypedInit == Init => Typed
<1> SUFFICES ASSUME Init PROVE Typed OBVIOUS
<1>1. [p \in Packets |-> "queued"] \in States BY StatesTyped DEF States
<1>2. [p \in Packets |-> NoRec] \in [Packets -> Rec] BY DEF Rec, NoRec
<1>3. NoPacket \in AnyPacket BY DEF AnyPacket
<1>4. RowsTyped BY <1>1, <1>2, <1>3, IdleTyped DEF Init, RowsTyped
<1>5. ActorsTyped BY IdleTyped DEF Init, ActorsTyped
<1> QED BY <1>4, <1>5 DEF Typed

LEMMA DispatcherTyped ==
  ASSUME Typed, NEW r \in Runs,
         DispatcherStep(r) \/ \E p \in Packets : Accept(r, p)
  PROVE  Typed'
<1> USE DEF Typed
<1>1. dispatcher[r] \in DispatcherRec BY DEF ActorsTyped
<1>2. ASSUME NEW p \in Packets, Accept(r, p) PROVE Typed'
  <2>1. packet[r] \in States /\ p \in AnyPacket BY DEF RowsTyped, AnyPacket
  <2>2. [packet[r] EXCEPT ![p] = "running"] \in States
    BY <2>1, StatesTyped DEF States
  <2>3. packet' = [packet EXCEPT ![r] = [packet[r] EXCEPT ![p] = "running"]]
    BY <1>2 DEF Accept
  <2>4. RowsTyped' BY <1>2, <2>1, <2>2, <2>3 DEF Accept, RowsTyped, history
  <2>5. [dispatcher[r] EXCEPT !.pc = "register"] \in DispatcherRec
    BY <1>1 DEF DispatcherRec
  <2>6. ActorsTyped' BY <1>2, <2>5 DEF Accept, ActorsTyped
  <2> QED BY <2>4, <2>6
<1>3. CASE Register(r)
  <2> DEFINE e == [packet |-> bound[r], status |-> "pending_callback"]
  <2>1. e \in AnyEnvelope /\ <<r, bound[r]>> \in AnyDispatch
    BY DEF RowsTyped, AnyEnvelope, EnvelopeStatus, AnyDispatch
  <2>2. /\ mem' = [mem EXCEPT ![r] = e]
        /\ dispatcher' = [dispatcher EXCEPT ![r] = [pc |-> "sync", copy |-> e]]
    BY <1>3 DEF Register
  <2> HIDE DEF e
  <2>3. RowsTyped' BY <1>3, <2>1, <2>2 DEF Register, RowsTyped, durable
  <2>4. [pc |-> "sync", copy |-> e] \in DispatcherRec BY <2>1 DEF DispatcherRec
  <2>5. ActorsTyped' BY <1>3, <2>2, <2>4 DEF Register, ActorsTyped
  <2> QED BY <2>3, <2>5
<1>4. CASE DoNotRegister(r)
  <2>1. RowsTyped'
    BY <1>4 DEF DoNotRegister, KeepRows, RowsTyped, durable, history
  <2>2. ActorsTyped' BY <1>4, IdleTyped DEF DoNotRegister, ActorsTyped
  <2> QED BY <2>1, <2>2
<1>5. CASE SyncRegistered(r)
  <2>1. dispatcher[r].copy \in AnyEnvelope BY <1>1 DEF DispatcherRec
  <2>2. RowsTyped' BY <1>5, <2>1 DEF SyncRegistered, RowsTyped, history
  <2>3. ActorsTyped' BY <1>5, IdleTyped DEF SyncRegistered, ActorsTyped
  <2> QED BY <2>2, <2>3
<1> QED BY <1>2, <1>3, <1>4, <1>5 DEF DispatcherStep

\* Replacing one handler by a well-typed one keeps the actors typed.
LEMMA HandlerReplaced ==
  ASSUME ActorsTyped, NEW h \in Handlers, NEW x \in HandlerRec,
         handler' = [handler EXCEPT ![h] = x], UNCHANGED <<dispatcher, push>>
  PROVE  ActorsTyped'
BY DEF ActorsTyped

LEMMA PushReplaced ==
  ASSUME ActorsTyped, NEW g \in Pushes, NEW x \in PushRec,
         push' = [push EXCEPT ![g] = x], UNCHANGED <<dispatcher, handler>>
  PROVE  ActorsTyped'
BY DEF ActorsTyped

\* What marking an envelope does, in memory and to the handler.
LEMMA MarkedTyped ==
  ASSUME Typed, NEW h \in Handlers, handler[h].run \in Runs, NEW e \in AnyEnvelope,
         MarkObserved(h, e)
  PROVE  /\ mem' \in [Runs -> AnyEnvelope]
         /\ \E x \in HandlerRec :
              /\ handler' = [handler EXCEPT ![h] = x]
              /\ x.pc \in {"load", "sync"}
              /\ x.run = handler[h].run /\ x.packet = handler[h].packet
<1> DEFINE o == Patched(e, "primary_callback_observed")
           y == [handler[h] EXCEPT !.pc = "load"]
           z == [handler[h] EXCEPT !.pc = "sync", !.copy = o]
<1>1. o \in AnyEnvelope BY PatchedTyped DEF EnvelopeStatus
<1>2. handler[h] \in HandlerRec /\ mem \in [Runs -> AnyEnvelope]
  BY DEF Typed, ActorsTyped, RowsTyped
<1>3. \/ handler' = [handler EXCEPT ![h] = y] /\ mem' = mem
      \/ handler' = [handler EXCEPT ![h] = z]
         /\ mem' = [mem EXCEPT ![handler[h].run] = o]
  BY DEF MarkObserved
<1> HIDE DEF o
<1>4. /\ y \in HandlerRec /\ y.pc = "load"
      /\ y.run = handler[h].run /\ y.packet = handler[h].packet
  BY <1>2 DEF HandlerRec
<1>5. /\ z \in HandlerRec /\ z.pc = "sync"
      /\ z.run = handler[h].run /\ z.packet = handler[h].packet
  BY <1>1, <1>2 DEF HandlerRec
<1> HIDE DEF y, z
<1> QED BY <1>1, <1>2, <1>3, <1>4, <1>5

-----------------------------------------------------------------------------
(* The steps of one actor.  Each lemma says what the actor becomes and     *)
(* that the rows stay typed and earned; HandlerKeeps and PushKeeps say why *)
(* that is enough: the set pushed never loses a dispatch.                  *)

FitHandler(x) ==
  /\ x.pc # "idle" => x.run \in Runs /\ x.packet \in Packets
  /\ x.pc = "store" => Earned(x.run, x.states)

FitPush(x) ==
  /\ x.pc \in {"try", "sync", "load", "store"} => x.run \in Runs
  /\ x.pc \in {"sync", "load", "store"} => <<x.run, x.env.packet>> \in pushed
  /\ x.pc = "store" => Earned(x.run, x.states)

RowsEarned == \A r \in Runs : Earned(r, packet[r])

LEMMA Fits ==
  /\ \A h \in Handlers : HandlerGood(h) <=> FitHandler(handler[h])
  /\ \A g \in Pushes : 
       PushGood(g) <=> push[g].hits \subseteq pushed /\ FitPush(push[g])
BY DEF HandlerGood, PushGood, FitHandler, FitPush

LEMMA EarnedStays ==
  ASSUME pushed \subseteq pushed'
  PROVE  /\ \A r, states : Earned(r, states) => Earned(r, states)'
         /\ \A h \in Handlers : HandlerGood(h) /\ handler'[h] = handler[h] => HandlerGood(h)'
         /\ \A g \in Pushes : PushGood(g) /\ push'[g] = push[g] => PushGood(g)'
BY DEF Earned, HandlerGood, PushGood

LEMMA HandlerKeeps ==
  ASSUME BridgeInv, NEW h \in Handlers, NEW x \in HandlerRec,
         handler' = [handler EXCEPT ![h] = x], FitHandler(x),
         UNCHANGED <<dispatcher, push, pushed>>, RowsTyped', RowsEarned'
  PROVE  BridgeInv'
<1>1. ActorsTyped' BY HandlerReplaced DEF BridgeInv, Typed
<1>2. ASSUME NEW k \in Handlers PROVE HandlerGood(k)'
  <2>1. handler \in [Handlers -> HandlerRec] BY DEF BridgeInv, Typed, ActorsTyped
  <2>2. CASE k = h
    <3>1. handler'[k] = x BY <2>1, <2>2
    <3> QED BY <3>1 DEF FitHandler, HandlerGood, Earned
  <2>3. CASE k # h
    <3>1. handler'[k] = handler[k] BY <2>1, <2>3
    <3> QED BY <3>1, EarnedStays DEF BridgeInv, Good
  <2> QED BY <2>2, <2>3
<1>3. ASSUME NEW g \in Pushes PROVE PushGood(g)'
  BY EarnedStays DEF BridgeInv, Good
<1> QED BY <1>1, <1>2, <1>3 DEF BridgeInv, Typed, Good, RowsEarned

LEMMA PushKeeps ==
  ASSUME BridgeInv, NEW g \in Pushes, NEW x \in PushRec,
         push' = [push EXCEPT ![g] = x], FitPush(x), x.hits \subseteq pushed',
         pushed \subseteq pushed',
         UNCHANGED <<dispatcher, handler>>, RowsTyped', RowsEarned'
  PROVE  BridgeInv'
<1>1. ActorsTyped' BY PushReplaced DEF BridgeInv, Typed
<1>2. ASSUME NEW k \in Pushes PROVE PushGood(k)'
  <2>1. push \in [Pushes -> PushRec] BY DEF BridgeInv, Typed, ActorsTyped
  <2>2. CASE k = g
    <3>1. push'[k] = x BY <2>1, <2>2
    <3> QED BY <3>1 DEF FitPush, PushGood, Earned
  <2>3. CASE k # g
    <3>1. push'[k] = push[k] BY <2>1, <2>3
    <3> QED BY <3>1, EarnedStays DEF BridgeInv, Good
  <2> QED BY <2>2, <2>3
<1>3. ASSUME NEW h \in Handlers PROVE HandlerGood(h)'
  BY EarnedStays DEF BridgeInv, Good
<1> QED BY <1>1, <1>2, <1>3 DEF BridgeInv, Typed, Good, RowsEarned

LEMMA DispatcherKeeps ==
  ASSUME BridgeInv, NEW r \in Runs,
         DispatcherStep(r) \/ \E p \in Packets : Accept(r, p)
  PROVE  BridgeInv'
<1>1. Typed' BY DispatcherTyped DEF BridgeInv
<1>2. UNCHANGED <<handler, push, pushed>>
  BY DEF DispatcherStep, Register, DoNotRegister, SyncRegistered, Accept, KeepRows,
         history
<1>3. ASSUME NEW q \in Runs PROVE Earned(q, packet[q])'
  <2>1. Earned(q, packet[q]) /\ packet \in [Runs -> States]
    BY DEF BridgeInv, Typed, RowsTyped, Good
  <2>2. CASE packet' = packet BY <1>2, <2>1, <2>2 DEF Earned
  <2>3. ASSUME NEW p \in Packets, Accept(r, p) PROVE Earned(q, packet[q])'
    <3>1. packet' = [packet EXCEPT ![r][p] = "running"] BY <2>3 DEF Accept
    <3>2. \A o \in Packets : packet'[q][o] \in {packet[q][o], "running"}
      BY <2>1, <3>1 DEF States
    <3> QED BY <1>2, <2>1, <3>2 DEF Earned
  <2> QED
    BY <2>2, <2>3 DEF DispatcherStep, Register, DoNotRegister, SyncRegistered,
                      KeepRows, durable
<1>4. \A h \in Handlers : HandlerGood(h)' BY <1>2, EarnedStays DEF BridgeInv, Good
<1>5. \A g \in Pushes : PushGood(g)' BY <1>2, EarnedStays DEF BridgeInv, Good
<1> QED BY <1>1, <1>3, <1>4, <1>5 DEF BridgeInv, Good

LEMMA CallbackKeeps ==
  ASSUME BridgeInv, NEW h \in Handlers, NEW r \in Runs, NEW p \in Packets,
         NEW word \in Words, Callback(h, r, p, word)
  PROVE  BridgeInv'
<1> DEFINE x == [IdleHandler EXCEPT !.pc = "mark", !.run = r, !.packet = p,
                                    !.word = word]
<1>1. handler' = [handler EXCEPT ![h] = x] BY DEF Callback
<1>2. x \in HandlerRec /\ x.pc = "mark" /\ x.run = r /\ x.packet = p
  BY IdleTyped DEF HandlerRec, AnyRun, AnyWord, AnyPacket
<1> HIDE DEF x
<1>3. FitHandler(x) BY <1>2 DEF FitHandler
<1>4. UNCHANGED <<dispatcher, push, pushed, mem, durable, registered>>
  BY DEF Callback, history
<1>5. RowsTyped' /\ RowsEarned'
  BY <1>4 DEF RowsTyped, RowsEarned, Earned, BridgeInv, Typed, Good, durable
<1> QED BY <1>1, <1>2, <1>3, <1>4, <1>5, HandlerKeeps

\* Rows nobody writes stay as good as they were.
LEMMA RowsKept ==
  ASSUME BridgeInv, mem' \in [Runs -> AnyEnvelope], row' \in [Runs -> AnyEnvelope],
         UNCHANGED <<packet, terms, bound, history>>
  PROVE  RowsTyped' /\ RowsEarned'
BY DEF RowsTyped, RowsEarned, Earned, BridgeInv, Typed, Good, history

LEMMA MarkKeeps ==
  ASSUME BridgeInv, NEW h \in Handlers, Mark(h) \/ Fetch(h)
  PROVE  BridgeInv'
<1>1. /\ handler[h] \in HandlerRec /\ Typed
      /\ mem \in [Runs -> AnyEnvelope] /\ row \in [Runs -> AnyEnvelope]
  BY DEF BridgeInv, Typed, ActorsTyped, RowsTyped
<1>2. handler[h].run \in Runs /\ handler[h].packet \in Packets
  BY DEF BridgeInv, Good, HandlerGood, Mark, Fetch
<1>3. UNCHANGED <<dispatcher, push, durable, history>> BY DEF Mark, Fetch, KeepRows
<1>4. CASE Mark(h) /\ mem[handler[h].run] = NoEnvelope
  <2> DEFINE x == [handler[h] EXCEPT !.pc = "fetch"]
  <2>1. handler' = [handler EXCEPT ![h] = x] /\ mem' = mem BY <1>4 DEF Mark
  <2>2. /\ x \in HandlerRec /\ x.pc = "fetch"
        /\ x.run = handler[h].run /\ x.packet = handler[h].packet
    BY <1>1 DEF HandlerRec
  <2> HIDE DEF x
  <2>3. FitHandler(x) BY <1>2, <2>2 DEF FitHandler
  <2>4. RowsTyped' /\ RowsEarned' BY <1>1, <1>3, <2>1, RowsKept DEF durable
  <2> QED BY <1>3, <2>1, <2>2, <2>3, <2>4, HandlerKeeps DEF history
<1>5. ASSUME NEW e \in AnyEnvelope, MarkObserved(h, e) PROVE BridgeInv'
  <2>1. mem' \in [Runs -> AnyEnvelope] BY <1>1, <1>2, <1>5, MarkedTyped
  <2>2. PICK x \in HandlerRec :
          /\ handler' = [handler EXCEPT ![h] = x]
          /\ x.pc \in {"load", "sync"}
          /\ x.run = handler[h].run /\ x.packet = handler[h].packet
    BY <1>1, <1>2, <1>5, MarkedTyped
  <2>3. FitHandler(x) BY <1>2, <2>2 DEF FitHandler
  <2>4. RowsTyped' /\ RowsEarned' BY <1>1, <1>3, <2>1, RowsKept DEF durable
  <2> QED BY <1>3, <2>2, <2>3, <2>4, HandlerKeeps DEF history
<1>6. mem[handler[h].run] \in AnyEnvelope /\ row[handler[h].run] \in AnyEnvelope
  BY <1>1, <1>2
<1> QED BY <1>4, <1>5, <1>6 DEF Mark, Fetch

LEMMA HandlerStepKeeps ==
  ASSUME BridgeInv, NEW h \in Handlers, HandlerStep(h)
  PROVE  BridgeInv'
<1> DEFINE e == handler[h]
<1>1. /\ e \in HandlerRec /\ FitHandler(e)
      /\ packet \in [Runs -> States] /\ terms \in [Runs -> [Packets -> Rec]]
      /\ row \in [Runs -> AnyEnvelope] /\ mem \in [Runs -> AnyEnvelope]
  BY Fits DEF BridgeInv, Good, Typed, ActorsTyped, RowsTyped
<1>2. FitHandler(IdleHandler) BY DEF FitHandler, IdleHandler
<1>3. CASE SyncObserved(h)
  <2> DEFINE x == [e EXCEPT !.pc = "load"]
  <2>1. /\ handler' = [handler EXCEPT ![h] = x]
        /\ row' = [row EXCEPT ![e.run] = e.copy]
        /\ UNCHANGED <<packet, terms, bound, mem, history, dispatcher, push>>
        /\ e.pc = "sync"
    BY <1>3 DEF SyncObserved
  <2> HIDE DEF e
  <2>2. /\ x \in HandlerRec /\ x.pc = "load"
        /\ x.run = e.run /\ x.packet = e.packet
    BY <1>1 DEF HandlerRec
  <2> HIDE DEF x
  <2>3. FitHandler(x) BY <1>1, <2>1, <2>2 DEF FitHandler
  <2>4. row' \in [Runs -> AnyEnvelope] BY <1>1, <2>1 DEF HandlerRec
  <2>5. mem' \in [Runs -> AnyEnvelope] BY <1>1, <2>1
  <2>6. RowsTyped' /\ RowsEarned' BY <2>1, <2>4, <2>5, RowsKept
  <2> QED BY <2>1, <2>2, <2>3, <2>6, HandlerKeeps DEF history
<1>4. CASE Load(h)
  <2> DEFINE y == [e EXCEPT !.pc = "store", !.states = packet[e.run],
                            !.terms = terms[e.run]]
             x == IF bound[e.run] # e.packet THEN IdleHandler ELSE y
  <2>1. /\ handler' = [handler EXCEPT ![h] = x]
        /\ UNCHANGED <<durable, mem, history, dispatcher, push>>
        /\ e.pc = "load"
    BY <1>4 DEF Load, KeepRows
  <2> HIDE DEF e
  <2>2. e.run \in Runs /\ e.packet \in Packets BY <1>1, <2>1 DEF FitHandler
  <2>3. /\ y \in HandlerRec /\ y.pc = "store" /\ y.states = packet[e.run]
        /\ y.run = e.run /\ y.packet = e.packet
    BY <1>1, <2>2 DEF HandlerRec
  <2> HIDE DEF y
  <2>4. FitHandler(y)
    BY <2>2, <2>3 DEF FitHandler, BridgeInv, Good
  <2>5. x \in HandlerRec /\ FitHandler(x) BY <1>2, <2>3, <2>4, IdleTyped
  <2> HIDE DEF x
  <2>6. RowsTyped' /\ RowsEarned' BY <1>1, <2>1, RowsKept DEF durable
  <2> QED BY <2>1, <2>5, <2>6, HandlerKeeps DEF history
<1>5. CASE Store(h)
  <2> DEFINE a == Authority(e.states[e.packet], DesiredState(e.word), 1,
                            e.terms[e.packet])
             ps == [e.states EXCEPT ![e.packet] = a.state]
             ts == [e.terms EXCEPT ![e.packet] = a.rec]
  <2>1. /\ handler' = [handler EXCEPT ![h] = IdleHandler]
        /\ UNCHANGED <<bound, row, mem, history, dispatcher, push>>
        /\ e.pc = "store"
        /\ \/ packet' = [packet EXCEPT ![e.run] = ps]
              /\ terms' = [terms EXCEPT ![e.run] = ts]
           \/ UNCHANGED <<packet, terms>>
    BY <1>5 DEF Store
  <2> HIDE DEF e
  <2>2. /\ e.run \in Runs /\ e.packet \in Packets /\ Earned(e.run, e.states)
        /\ e.states \in States /\ e.terms \in [Packets -> Rec]
    BY <1>1, <2>1 DEF FitHandler, HandlerRec
  <2>3. e.states[e.packet] \in PacketState /\ e.terms[e.packet] \in Rec
    BY <2>2 DEF States
  <2>4. /\ a.state \in PacketState /\ a.rec \in Rec
        /\ a.state = "review_required" => e.states[e.packet] = "review_required"
    BY <2>3, AnswerTyped
  <2> HIDE DEF a
  <2>5. ps \in States /\ ts \in [Packets -> Rec] /\ Earned(e.run, ps)
    BY <2>2, <2>4 DEF States, Earned
  <2> HIDE DEF ps, ts
  <2>6. packet' \in [Runs -> States] /\ terms' \in [Runs -> [Packets -> Rec]]
    BY <1>1, <2>1, <2>2, <2>5
  <2>7. RowsTyped' BY <2>1, <2>6 DEF RowsTyped, BridgeInv, Typed, history
  <2>8. ASSUME NEW q \in Runs PROVE Earned(q, packet[q])'
    <3>1. packet'[q] = packet[q] \/ (q = e.run /\ packet'[q] = ps)
      BY <1>1, <2>1
    <3>2. Earned(q, packet[q]) BY DEF BridgeInv, Good
    <3>3. Earned(q, packet'[q]) BY <2>5, <3>1, <3>2
    <3> QED BY <2>1, <3>3 DEF Earned, history
  <2>9. RowsEarned' BY <2>8 DEF RowsEarned
  <2> QED BY <1>2, <2>1, <2>7, <2>9, IdleTyped, HandlerKeeps DEF history
<1> QED BY <1>3, <1>4, <1>5, MarkKeeps DEF HandlerStep

LEMMA PushStartKeeps ==
  ASSUME BridgeInv, NEW g \in Pushes, NEW hits \in SUBSET registered, Push(g, hits)
  PROVE  BridgeInv'
<1> DEFINE l == {<<r, mem[r]>> : r \in {s \in Runs : Pending(mem[s])}}
           x == [IdlePush EXCEPT !.pc = "rows", !.hits = hits, !.listed = l]
<1>1. /\ push' = [push EXCEPT ![g] = x]
      /\ pushed' = pushed \cup hits
      /\ UNCHANGED <<durable, mem, dispatcher, handler, registered>>
  BY DEF Push
<1>2. mem \in [Runs -> AnyEnvelope] /\ hits \subseteq AnyDispatch
  BY DEF BridgeInv, Typed, RowsTyped
<1>3. l \subseteq Runs \X AnyEnvelope BY <1>2
<1> HIDE DEF l
<1>4. x \in PushRec /\ x.pc = "rows" /\ x.hits = hits
  BY <1>2, <1>3, IdleTyped DEF PushRec
<1> HIDE DEF x
<1>5. FitPush(x) BY <1>4 DEF FitPush
<1>6. RowsTyped' /\ RowsEarned'
  BY <1>1 DEF RowsTyped, RowsEarned, Earned, BridgeInv, Typed, Good, durable
<1> QED BY <1>1, <1>4, <1>5, <1>6, PushKeeps

\* Listing, taking, testing: the rows and the set pushed stay.
LEMMA PushLooks ==
  ASSUME BridgeInv, NEW g \in Pushes,
         \/ ListRows(g) \/ GiveUp(g) \/ Try(g) \/ LoadForReview(g)
         \/ \E r \in Runs : Take(g, r)
  PROVE  BridgeInv'
<1> DEFINE e == push[g]
<1>1. /\ e \in PushRec /\ FitPush(e) /\ e.hits \subseteq pushed
      /\ packet \in [Runs -> States] /\ row \in [Runs -> AnyEnvelope]
      /\ mem \in [Runs -> AnyEnvelope]
  BY Fits DEF BridgeInv, Good, Typed, ActorsTyped, RowsTyped
<1>2. UNCHANGED <<dispatcher, handler, durable, history>>
  BY DEF ListRows, GiveUp, Try, LoadForReview, Take, KeepRows
<1>3. SUFFICES /\ mem' \in [Runs -> AnyEnvelope]
               /\ \E x \in PushRec : /\ push' = [push EXCEPT ![g] = x]
                                     /\ FitPush(x) /\ x.hits \subseteq pushed
  <2>1. RowsTyped' /\ RowsEarned' BY <1>1, <1>2, <1>3, RowsKept DEF durable
  <2> QED BY <1>2, <1>3, <2>1, PushKeeps DEF history
<1>4. CASE ListRows(g)
  <2> DEFINE known == {y[1] : y \in e.listed}
             l == e.listed \cup {<<r, row[r]>> : r \in {s \in Runs \ known : Pending(row[s])}}
             x == [e EXCEPT !.pc = "next", !.listed = l]
  <2>1. push' = [push EXCEPT ![g] = x] /\ mem' = mem BY <1>4 DEF ListRows
  <2> HIDE DEF e
  <2>2. l \subseteq Runs \X AnyEnvelope BY <1>1 DEF PushRec
  <2> HIDE DEF l
  <2>3. x \in PushRec /\ x.pc = "next" /\ x.hits = e.hits BY <1>1, <2>2 DEF PushRec
  <2> HIDE DEF x
  <2> QED BY <1>1, <2>1, <2>3 DEF FitPush
<1>5. CASE GiveUp(g)
  <2>1. push' = [push EXCEPT ![g] = IdlePush] /\ mem' = mem BY <1>5 DEF GiveUp
  <2>2. FitPush(IdlePush) /\ IdlePush.hits \subseteq pushed BY DEF FitPush, IdlePush
  <2> QED BY <1>1, <2>1, <2>2, IdleTyped
<1>6. CASE Try(g)
  <2> DEFINE o == Patched(mem[e.run], "recovered_github_secondary")
             x == [e EXCEPT !.pc = "sync", !.copy = o]
             y == [e EXCEPT !.pc = "next"]
  <2>1. /\ e.pc = "try"
        /\ \/ /\ <<e.run, e.env.packet>> \in e.hits
              /\ mem' = [mem EXCEPT ![e.run] = o]
              /\ push' = [push EXCEPT ![g] = x]
           \/ push' = [push EXCEPT ![g] = y] /\ mem' = mem
    BY <1>6 DEF Try, Matches
  <2> HIDE DEF e
  <2>2. e.run \in Runs BY <1>1, <2>1 DEF FitPush
  <2>3. o \in AnyEnvelope BY <1>1, <2>2, PatchedTyped DEF EnvelopeStatus
  <2> HIDE DEF o
  <2>4. /\ x \in PushRec /\ x.pc = "sync" /\ x.hits = e.hits
        /\ x.run = e.run /\ x.env = e.env
    BY <1>1, <2>3 DEF PushRec
  <2>5. y \in PushRec /\ y.pc = "next" /\ y.hits = e.hits
    BY <1>1 DEF PushRec
  <2> HIDE DEF x, y
  <2>6. FitPush(y) BY <2>5 DEF FitPush
  <2>7. <<e.run, e.env.packet>> \in e.hits => FitPush(x)
    BY <1>1, <2>2, <2>4 DEF FitPush
  <2> QED BY <1>1, <2>1, <2>2, <2>3, <2>4, <2>5, <2>6, <2>7
<1>7. CASE LoadForReview(g)
  <2> DEFINE x == [e EXCEPT !.pc = "store", !.states = packet[e.run]]
  <2>1. push' = [push EXCEPT ![g] = x] /\ mem' = mem /\ e.pc = "load"
    BY <1>7 DEF LoadForReview
  <2> HIDE DEF e
  <2>2. e.run \in Runs /\ <<e.run, e.env.packet>> \in pushed
    BY <1>1, <2>1 DEF FitPush
  <2>3. /\ x \in PushRec /\ x.pc = "store" /\ x.hits = e.hits
        /\ x.run = e.run /\ x.env = e.env /\ x.states = packet[e.run]
    BY <1>1, <2>2 DEF PushRec
  <2> HIDE DEF x
  <2>4. FitPush(x) BY <2>2, <2>3 DEF FitPush, BridgeInv, Good
  <2> QED BY <1>1, <2>1, <2>3, <2>4
<1>8. ASSUME NEW r \in Runs, Take(g, r)
      PROVE  /\ mem' \in [Runs -> AnyEnvelope]
             /\ \E x \in PushRec : /\ push' = [push EXCEPT ![g] = x]
                                   /\ FitPush(x) /\ x.hits \subseteq pushed
  <2>1. PICK y \in e.listed :
          /\ mem' = [mem EXCEPT ![r] = y[2]]
          /\ push' = [push EXCEPT ![g] =
               [@ EXCEPT !.pc = "try", !.run = r, !.env = y[2],
                         !.listed = push[g].listed \ {y}]]
    BY <1>8 DEF Take
  <2> DEFINE x == [e EXCEPT !.pc = "try", !.run = r, !.env = y[2],
                            !.listed = e.listed \ {y}]
  <2>2. push' = [push EXCEPT ![g] = x] BY <2>1
  <2> HIDE DEF e
  <2>3. y[2] \in AnyEnvelope BY <1>1 DEF PushRec
  <2>4. x \in PushRec /\ x.pc = "try" /\ x.run = r /\ x.hits = e.hits
    BY <1>1, <2>3 DEF PushRec, AnyRun
  <2> HIDE DEF x
  <2>5. FitPush(x) BY <2>4 DEF FitPush
  <2> QED BY <1>1, <2>1, <2>2, <2>3, <2>4, <2>5
<1> QED BY <1>4, <1>5, <1>6, <1>7, <1>8

\* The dispatch a push goes on with is one it touched, and the states it
\* writes back show no other review.
LEMMA PushWrites ==
  ASSUME BridgeInv, NEW g \in Pushes, SyncRecovered(g) \/ Review(g)
  PROVE  BridgeInv'
<1> DEFINE e == push[g]
<1>1. /\ e \in PushRec /\ FitPush(e) /\ e.hits \subseteq pushed
      /\ packet \in [Runs -> States] /\ row \in [Runs -> AnyEnvelope]
      /\ mem \in [Runs -> AnyEnvelope]
  BY Fits DEF BridgeInv, Good, Typed, ActorsTyped, RowsTyped
<1>2. CASE SyncRecovered(g)
  <2> DEFINE x == [e EXCEPT !.pc = "load"]
  <2>1. /\ e.pc = "sync" /\ row' = [row EXCEPT ![e.run] = e.copy]
        /\ push' = [push EXCEPT ![g] = x]
        /\ UNCHANGED <<packet, terms, bound, mem, dispatcher, handler, history>>
    BY <1>2 DEF SyncRecovered
  <2> HIDE DEF e
  <2>2. /\ x \in PushRec /\ x.pc = "load" /\ x.hits = e.hits
        /\ x.run = e.run /\ x.env = e.env
    BY <1>1 DEF PushRec
  <2> HIDE DEF x
  <2>3. FitPush(x) BY <1>1, <2>1, <2>2 DEF FitPush
  <2>4. row' \in [Runs -> AnyEnvelope] BY <1>1, <2>1 DEF PushRec
  <2>5. mem' \in [Runs -> AnyEnvelope] BY <1>1, <2>1
  <2>6. RowsTyped' /\ RowsEarned' BY <2>1, <2>4, <2>5, RowsKept
  <2> QED BY <1>1, <2>1, <2>2, <2>3, <2>6, PushKeeps DEF history
<1>3. CASE Review(g)
  <2> DEFINE ps == [e.states EXCEPT ![e.env.packet] = "review_required"]
  <2>1. /\ e.pc = "store" /\ packet' = [packet EXCEPT ![e.run] = ps]
        /\ push' = [push EXCEPT ![g] = IdlePush]
        /\ UNCHANGED <<terms, bound, row, mem, dispatcher, handler, history>>
    BY <1>3 DEF Review
  <2> HIDE DEF e
  <2>2. /\ e.run \in Runs /\ <<e.run, e.env.packet>> \in pushed
        /\ Earned(e.run, e.states) /\ e.states \in States
    BY <1>1, <2>1 DEF FitPush, PushRec
  <2>3. ps \in States /\ Earned(e.run, ps)
    BY <2>2, StatesTyped DEF States, Earned
  <2> HIDE DEF ps
  <2>4. packet' \in [Runs -> States] BY <1>1, <2>1, <2>2, <2>3
  <2>5. RowsTyped' BY <2>1, <2>4 DEF RowsTyped, BridgeInv, Typed, history
  <2>6. ASSUME NEW q \in Runs PROVE Earned(q, packet[q])'
    <3>1. packet'[q] = packet[q] \/ (q = e.run /\ packet'[q] = ps) BY <1>1, <2>1
    <3>2. Earned(q, packet[q]) BY DEF BridgeInv, Good
    <3>3. Earned(q, packet'[q]) BY <2>3, <3>1, <3>2
    <3> QED BY <2>1, <3>3 DEF Earned, history
  <2>7. RowsEarned' BY <2>6 DEF RowsEarned
  <2>8. FitPush(IdlePush) /\ IdlePush.hits \subseteq pushed BY DEF FitPush, IdlePush
  <2> QED BY <2>1, <2>5, <2>7, <2>8, IdleTyped, PushKeeps DEF history
<1> QED BY <1>2, <1>3

LEMMA CrashKeeps == BridgeInv /\ Crash => BridgeInv'
<1> SUFFICES ASSUME BridgeInv, Crash PROVE BridgeInv' OBVIOUS
<1>1. mem' \in [Runs -> AnyEnvelope] /\ row' \in [Runs -> AnyEnvelope]
  BY IdleTyped DEF Crash, durable, BridgeInv, Typed, RowsTyped
<1>2. RowsTyped' /\ RowsEarned' BY <1>1, RowsKept DEF Crash, durable
<1>3. ActorsTyped' BY IdleTyped DEF Crash, ActorsTyped
<1>4. ASSUME NEW h \in Handlers PROVE HandlerGood(h)'
  BY DEF Crash, HandlerGood, IdleHandler
<1>5. ASSUME NEW g \in Pushes PROVE PushGood(g)'
  BY DEF Crash, PushGood, IdlePush
<1> QED BY <1>2, <1>3, <1>4, <1>5 DEF BridgeInv, Typed, Good, RowsEarned

LEMMA BridgeInit == Init => BridgeInv
<1> SUFFICES ASSUME Init PROVE BridgeInv OBVIOUS
<1>1. Typed BY TypedInit
<1>2. \A r \in Runs : Earned(r, packet[r]) BY DEF Init, Earned
<1>3. \A h \in Handlers : HandlerGood(h) BY DEF Init, HandlerGood, IdleHandler
<1>4. \A g \in Pushes : PushGood(g) BY DEF Init, PushGood, IdlePush
<1> QED BY <1>1, <1>2, <1>3, <1>4 DEF BridgeInv, Good

LEMMA BridgeStep == BridgeInv /\ [Next]_vars => BridgeInv'
<1> SUFFICES ASSUME BridgeInv, [Next]_vars PROVE BridgeInv' OBVIOUS
<1>1. ASSUME NEW r \in Runs, DispatcherStep(r) \/ \E p \in Packets : Accept(r, p)
      PROVE  BridgeInv'
  BY <1>1, DispatcherKeeps
<1>2. ASSUME NEW h \in Handlers, HandlerStep(h) PROVE BridgeInv'
  BY <1>2, HandlerStepKeeps
<1>3. ASSUME NEW h \in Handlers, NEW r \in Runs, NEW p \in Packets,
             NEW word \in Words, Callback(h, r, p, word)
      PROVE  BridgeInv'
  BY <1>3, CallbackKeeps
<1>4. ASSUME NEW g \in Pushes, PushStep(g) PROVE BridgeInv'
  BY <1>4, PushLooks, PushWrites DEF PushStep
<1>5. ASSUME NEW g \in Pushes, NEW hits \in SUBSET registered, Push(g, hits)
      PROVE  BridgeInv'
  BY <1>5, PushStartKeeps
<1>6. CASE UNCHANGED vars
  BY <1>6 DEF vars, BridgeInv, Typed, RowsTyped, ActorsTyped, Good, Earned,
              HandlerGood, PushGood
<1> QED BY <1>1, <1>2, <1>3, <1>4, <1>5, <1>6, CrashKeeps DEF Next, Step

\* No push past its test goes on with a dispatch it did not touch, and no stale
\* copy shows a review that was not earned (resultRecoveryBridge.js).
THEOREM BridgeInvariant == Spec => []BridgeInv
BY BridgeInit, BridgeStep, PTL DEF Spec

\* A packet goes to review only for a push that touched its own files
\* (pendingRecoveryEnvelope.js), for any number of overlapping callbacks and
\* pushes, stale copies of envelopes and of packet states, and crashes.
THEOREM ReviewsAreEarned == Spec => []ReviewIsEarned
<1>1. BridgeInv => ReviewIsEarned BY DEF BridgeInv, Good, Earned, ReviewIsEarned
<1> QED BY <1>1, BridgeInvariant, PTL

-----------------------------------------------------------------------------
(* A packet past the queue that no pending envelope offers to a push stays *)
(* so: only a dispatch makes a pending envelope, of a queued packet, and   *)
(* whoever holds a copy of the states holds one that is past the queue.    *)

SettledRows(r, p) ==
  /\ Past(packet[r], p) /\ ~Offers(row[r], p) /\ ~Offers(mem[r], p)
SettledDispatcher(r, p) ==
  /\ dispatcher[r].pc = "register" => bound[r] # p
  /\ dispatcher[r].pc = "sync" => ~Offers(dispatcher[r].copy, p)
SettledHandler(x, r, p) ==
  x.run = r => /\ x.pc = "sync" => ~Offers(x.copy, p)
               /\ x.pc = "store" => Past(x.states, p)
SettledPush(x, r, p) ==
  /\ \A y \in x.listed : y[1] = r => y[2].packet # p
  /\ x.run = r => /\ x.pc \in {"try", "sync", "load", "store"} => x.env.packet # p
                  /\ x.pc = "sync" => ~Offers(x.copy, p)
                  /\ x.pc = "store" => Past(x.states, p)

LEMMA SettledParts ==
  ASSUME NEW r \in Runs, NEW p \in Packets
  PROVE  Settled(r, p) <=> /\ SettledRows(r, p) /\ SettledDispatcher(r, p)
                           /\ \A h \in Handlers : SettledHandler(handler[h], r, p)
                           /\ \A g \in Pushes : SettledPush(push[g], r, p)
BY DEF Settled, SettledRows, SettledDispatcher, SettledHandler, SettledPush

LEMMA NotOffered ==
  ASSUME NEW e \in AnyEnvelope, NEW p, NEW s \in {"primary_callback_observed",
                                                  "recovered_github_secondary"}
  PROVE  ~Offers(Patched(e, s), p) /\ ~Offers(NoEnvelope, p)
BY DEF Offers, Pending, Patched, AnyEnvelope, NoEnvelope

\* What an actor at rest holds.
LEMMA IdleSettled ==
  ASSUME NEW r, NEW p
  PROVE  SettledHandler(IdleHandler, r, p) /\ SettledPush(IdlePush, r, p)
<1>1. IdleHandler.pc = "idle" BY DEF IdleHandler
<1>2. IdlePush.pc = "idle" /\ IdlePush.listed = {} BY DEF IdlePush
<1> QED BY <1>1, <1>2 DEF SettledHandler, SettledPush

LEMMA SettledDispatch ==
  ASSUME BridgeInv, NEW r \in Runs, NEW p \in Packets, Settled(r, p), NEW q \in Runs,
         DispatcherStep(q) \/ \E o \in Packets : Accept(q, o)
  PROVE  Settled(r, p)'
<1>1. /\ packet \in [Runs -> States] /\ bound \in [Runs -> AnyPacket]
      /\ row \in [Runs -> AnyEnvelope] /\ mem \in [Runs -> AnyEnvelope]
      /\ dispatcher \in [Runs -> DispatcherRec]
  BY DEF BridgeInv, Typed, RowsTyped, ActorsTyped
<1>2. UNCHANGED <<handler, push>>
  BY DEF DispatcherStep, Register, DoNotRegister, SyncRegistered, Accept
<1>3. SettledRows(r, p) /\ SettledDispatcher(r, p) BY SettledParts
<1>4. SUFFICES SettledRows(r, p)' /\ SettledDispatcher(r, p)'
  <2>1. /\ \A h \in Handlers : SettledHandler(handler[h], r, p)'
        /\ \A g \in Pushes : SettledPush(push[g], r, p)'
    BY <1>2, SettledParts DEF SettledHandler, SettledPush, Offers, Past, Pending
  <2> QED BY <1>4, <2>1 DEF Settled, SettledRows, SettledDispatcher, SettledHandler, SettledPush
<1>5. ASSUME NEW o \in Packets, Accept(q, o)
      PROVE  SettledRows(r, p)' /\ SettledDispatcher(r, p)'
  <2>1. /\ packet[q][o] = "queued" /\ UNCHANGED <<row, mem>>
        /\ packet' = [packet EXCEPT ![q][o] = "running"]
        /\ bound' = [bound EXCEPT ![q] = o]
        /\ dispatcher' = [dispatcher EXCEPT ![q].pc = "register"]
    BY <1>5 DEF Accept
  <2>2. q # r \/ o # p BY <1>3, <2>1 DEF SettledRows, Past
  <2>3. packet'[r][p] = packet[r][p] BY <1>1, <2>1, <2>2 DEF States
  <2>4. SettledRows(r, p)' BY <1>3, <2>1, <2>3 DEF SettledRows, Past, Offers, Pending
  <2>5. CASE q = r
    <3>1. dispatcher'[r].pc = "register" /\ bound'[r] = o
      BY <1>1, <2>1, <2>5 DEF DispatcherRec
    <3> QED BY <2>2, <2>4, <2>5, <3>1 DEF SettledDispatcher
  <2>6. CASE q # r
    <3>1. dispatcher'[r] = dispatcher[r] /\ bound'[r] = bound[r] BY <1>1, <2>1, <2>6
    <3> QED BY <1>3, <2>4, <3>1 DEF SettledDispatcher
  <2> QED BY <2>5, <2>6
<1>6. CASE q # r /\ DispatcherStep(q)
  <2>1. /\ dispatcher'[r] = dispatcher[r] /\ mem'[r] = mem[r] /\ row'[r] = row[r]
        /\ UNCHANGED <<packet, bound>>
    BY <1>1, <1>6 DEF DispatcherStep, Register, DoNotRegister, SyncRegistered, KeepRows, durable
  <2> QED BY <1>3, <2>1 DEF SettledRows, SettledDispatcher, Past, Offers, Pending
<1>7. CASE q = r /\ Register(r)
  <2>1. PICK e : e = [packet |-> bound[r], status |-> "pending_callback"] OBVIOUS
  <2>2. /\ dispatcher[r].pc = "register" /\ UNCHANGED <<packet, bound, row>>
        /\ mem' = [mem EXCEPT ![r] = e]
        /\ dispatcher' = [dispatcher EXCEPT ![r] = [pc |-> "sync", copy |-> e]]
    BY <1>7, <2>1 DEF Register, durable
  <2>3. ~Offers(e, p) BY <1>3, <2>1, <2>2 DEF SettledDispatcher, Offers
  <2>4. mem'[r] = e /\ dispatcher'[r] = [pc |-> "sync", copy |-> e] BY <1>1, <2>2
  <2> QED BY <1>3, <2>2, <2>3, <2>4 DEF SettledRows, SettledDispatcher, Past, Offers, Pending
<1>8. CASE q = r /\ DoNotRegister(r)
  <2>1. dispatcher'[r].pc = "idle" BY <1>1, <1>8 DEF DoNotRegister, IdleDispatcher
  <2>2. UNCHANGED <<packet, row, mem>> BY <1>8 DEF DoNotRegister, KeepRows, durable
  <2> QED BY <1>3, <2>1, <2>2 DEF SettledRows, SettledDispatcher, Past, Offers, Pending
<1>9. CASE q = r /\ SyncRegistered(r)
  <2>1. dispatcher'[r].pc = "idle" BY <1>1, <1>9 DEF SyncRegistered, IdleDispatcher
  <2>2. /\ UNCHANGED <<packet, mem>> /\ dispatcher[r].pc = "sync"
        /\ row'[r] = dispatcher[r].copy
    BY <1>1, <1>9 DEF SyncRegistered
  <2> QED BY <1>3, <2>1, <2>2 DEF SettledRows, SettledDispatcher, Past, Offers, Pending
<1> QED BY <1>5, <1>6, <1>7, <1>8, <1>9 DEF DispatcherStep

\* It is enough to look at the rows and at the actor that took the step.
LEMMA SettledByHandler ==
  ASSUME BridgeInv, NEW r \in Runs, NEW p \in Packets, Settled(r, p), NEW h \in Handlers,
         NEW x, handler' = [handler EXCEPT ![h] = x], SettledHandler(x, r, p),
         UNCHANGED <<dispatcher, push, bound>>, SettledRows(r, p)'
  PROVE  Settled(r, p)'
<1>1. handler \in [Handlers -> HandlerRec] BY DEF BridgeInv, Typed, ActorsTyped
<1>2. \A k \in Handlers : handler'[k] = IF k = h THEN x ELSE handler[k] BY <1>1
<1>3. /\ SettledDispatcher(r, p)
      /\ \A k \in Handlers : SettledHandler(handler[k], r, p)
      /\ \A g \in Pushes : SettledPush(push[g], r, p)
  BY SettledParts
<1>4. \A k \in Handlers : SettledHandler(handler'[k], r, p) BY <1>2, <1>3
<1> QED BY <1>3, <1>4 DEF Settled, SettledRows, SettledDispatcher, SettledHandler, SettledPush,
                         Offers, Past, Pending

LEMMA SettledByPush ==
  ASSUME BridgeInv, NEW r \in Runs, NEW p \in Packets, Settled(r, p), NEW g \in Pushes,
         NEW x, push' = [push EXCEPT ![g] = x], SettledPush(x, r, p),
         UNCHANGED <<dispatcher, handler, bound>>, SettledRows(r, p)'
  PROVE  Settled(r, p)'
<1>1. push \in [Pushes -> PushRec] BY DEF BridgeInv, Typed, ActorsTyped
<1>2. \A k \in Pushes : push'[k] = IF k = g THEN x ELSE push[k] BY <1>1
<1>3. /\ SettledDispatcher(r, p)
      /\ \A h \in Handlers : SettledHandler(handler[h], r, p)
      /\ \A k \in Pushes : SettledPush(push[k], r, p)
  BY SettledParts
<1>4. \A k \in Pushes : SettledPush(push'[k], r, p) BY <1>2, <1>3
<1> QED BY <1>3, <1>4 DEF Settled, SettledRows, SettledDispatcher, SettledHandler, SettledPush,
                         Offers, Past, Pending

LEMMA SettledHandlerStep ==
  ASSUME BridgeInv, NEW r \in Runs, NEW p \in Packets, Settled(r, p), NEW h \in Handlers,
         HandlerStep(h)
  PROVE  Settled(r, p)'
<1>a. PICK e : e = handler[h] OBVIOUS
<1>1. /\ e \in HandlerRec /\ handler \in [Handlers -> HandlerRec]
      /\ packet \in [Runs -> States] /\ row \in [Runs -> AnyEnvelope]
      /\ mem \in [Runs -> AnyEnvelope]
      /\ e.pc # "idle" => e.run \in Runs /\ e.packet \in Packets
  BY <1>a DEF BridgeInv, Typed, RowsTyped, ActorsTyped, Good, HandlerGood
<1>2. UNCHANGED <<dispatcher, push, bound>>
  BY DEF HandlerStep, Mark, Fetch, SyncObserved, Load, Store, KeepRows, durable
<1>3. SettledRows(r, p) /\ SettledHandler(e, r, p) BY <1>a, SettledParts
<1>4. UNCHANGED <<packet, row, mem>> => SettledRows(r, p)'
  BY <1>3 DEF SettledRows, Past, Offers, Pending
<1>5. ASSUME NEW d \in AnyEnvelope, MarkObserved(h, d), e.pc # "idle", UNCHANGED <<packet, row>>
      PROVE  Settled(r, p)'
  <2>1. CASE d = NoEnvelope
    <3>1. PICK x : x = [e EXCEPT !.pc = "load"] OBVIOUS
    <3>2. handler' = [handler EXCEPT ![h] = x] /\ mem' = mem
      BY <1>5, <1>a, <2>1, <3>1 DEF MarkObserved
    <3>3. x.pc = "load" BY <1>1, <3>1 DEF HandlerRec
    <3>4. SettledHandler(x, r, p) BY <3>3 DEF SettledHandler
    <3> QED BY <1>2, <1>4, <1>5, <3>2, <3>4, SettledByHandler
  <2>2. CASE d # NoEnvelope
    <3>1. PICK o : o = Patched(d, "primary_callback_observed") OBVIOUS
    <3>2. PICK x : x = [e EXCEPT !.pc = "sync", !.copy = o] OBVIOUS
    <3>3. /\ handler' = [handler EXCEPT ![h] = x]
          /\ mem' = [mem EXCEPT ![e.run] = o]
      BY <1>5, <1>a, <2>2, <3>1, <3>2 DEF MarkObserved
    <3>4. x.pc = "sync" /\ x.copy = o BY <1>1, <3>2 DEF HandlerRec
    <3>5. ~Offers(o, p) BY <3>1, NotOffered
    <3>6. SettledHandler(x, r, p) BY <3>4, <3>5 DEF SettledHandler
    <3>7. mem'[r] = mem[r] \/ mem'[r] = o BY <1>1, <1>5, <3>3
    <3>8. SettledRows(r, p)' BY <1>3, <1>5, <3>5, <3>7 DEF SettledRows, Past, Offers, Pending
    <3> QED BY <1>2, <3>3, <3>6, <3>8, SettledByHandler
  <2> QED BY <2>1, <2>2
<1>6. CASE Mark(h) \/ Fetch(h)
  <2>1. e.pc # "idle" /\ UNCHANGED <<packet, row>>
    BY <1>6, <1>a DEF Mark, Fetch, KeepRows, durable
  <2>2. mem[e.run] \in AnyEnvelope /\ row[e.run] \in AnyEnvelope BY <1>1, <2>1
  <2>3. CASE MarkObserved(h, mem[e.run]) \/ MarkObserved(h, row[e.run])
    BY <1>5, <2>1, <2>2, <2>3
  <2>4. CASE handler' = [handler EXCEPT ![h].pc = "fetch"] /\ mem' = mem
    <3>1. PICK x : x = [e EXCEPT !.pc = "fetch"] OBVIOUS
    <3>2. handler' = [handler EXCEPT ![h] = x] BY <1>a, <2>4, <3>1
    <3>3. x.pc = "fetch" BY <1>1, <3>1 DEF HandlerRec
    <3>4. SettledHandler(x, r, p) BY <3>3 DEF SettledHandler
    <3> QED BY <1>2, <1>4, <2>1, <2>4, <3>2, <3>4, SettledByHandler
  <2> QED BY <1>6, <1>a, <2>3, <2>4 DEF Mark, Fetch
<1>7. CASE SyncObserved(h)
  <2>1. PICK x : x = [e EXCEPT !.pc = "load"] OBVIOUS
  <2>2. /\ handler' = [handler EXCEPT ![h] = x] /\ e.pc = "sync"
        /\ row' = [row EXCEPT ![e.run] = e.copy] /\ UNCHANGED <<packet, mem>>
    BY <1>7, <1>a, <2>1 DEF SyncObserved
  <2>3. x.pc = "load" BY <1>1, <2>1 DEF HandlerRec
  <2>4. SettledHandler(x, r, p) BY <2>3 DEF SettledHandler
  <2>5. row'[r] = row[r] \/ (e.run = r /\ row'[r] = e.copy) BY <1>1, <2>2
  <2>6. SettledRows(r, p)'
    BY <1>3, <2>2, <2>5 DEF SettledRows, SettledHandler, Past, Offers, Pending
  <2> QED BY <1>2, <2>2, <2>4, <2>6, SettledByHandler
<1>8. CASE Load(h)
  <2>1. PICK y : y = [e EXCEPT !.pc = "store", !.states = packet[e.run], !.terms = terms[e.run]]
    OBVIOUS
  <2>2. PICK x : x = IF bound[e.run] # e.packet THEN IdleHandler ELSE y OBVIOUS
  <2>3. /\ handler' = [handler EXCEPT ![h] = x] /\ UNCHANGED <<packet, row, mem>>
    BY <1>8, <1>a, <2>1, <2>2 DEF Load, KeepRows, durable
  <2>4. y.pc = "store" /\ y.run = e.run /\ y.states = packet[e.run]
    BY <1>1, <2>1 DEF HandlerRec
  <2>5. SettledHandler(y, r, p) BY <1>3, <2>4 DEF SettledHandler, SettledRows
  <2>6. SettledHandler(x, r, p) BY <2>2, <2>5, IdleSettled
  <2> QED BY <1>2, <1>4, <2>3, <2>6, SettledByHandler
<1>9. CASE Store(h)
  <2>1. PICK a : a = Authority(e.states[e.packet], DesiredState(e.word), 1, e.terms[e.packet])
    OBVIOUS
  <2>2. /\ handler' = [handler EXCEPT ![h] = IdleHandler] /\ e.pc = "store"
        /\ UNCHANGED <<row, mem>>
        /\ \/ packet' = packet
           \/ packet' = [packet EXCEPT ![e.run] = [e.states EXCEPT ![e.packet] = a.state]]
    BY <1>9, <1>a, <2>1 DEF Store
  <2>3. /\ e.run \in Runs /\ e.packet \in Packets /\ e.states \in States
        /\ e.terms \in [Packets -> Rec]
    BY <1>1, <2>2 DEF HandlerRec
  <2>4. e.states[e.packet] \in PacketState /\ e.terms[e.packet] \in Rec BY <2>3 DEF States
  <2>5. a.state \in {"queued", "review_required"} => e.states[e.packet] = a.state
    BY <2>1, <2>4, AnswerTyped
  <2>6. Past(packet'[r], p)
    <3>1. CASE packet' = packet \/ e.run # r
      BY <1>1, <1>3, <2>2, <2>3, <3>1 DEF SettledRows
    <3>2. CASE packet' # packet /\ e.run = r
      <4>1. packet'[r] = [e.states EXCEPT ![e.packet] = a.state] BY <1>1, <2>2, <3>2
      <4>2. Past(e.states, p) BY <1>3, <2>2, <3>2 DEF SettledHandler
      <4>3. packet'[r][p] = IF p = e.packet THEN a.state ELSE e.states[p]
        BY <2>3, <4>1 DEF States
      <4> QED BY <2>5, <4>2, <4>3 DEF Past
    <3> QED BY <3>1, <3>2
  <2>7. SettledRows(r, p)' BY <1>3, <2>2, <2>6 DEF SettledRows, Past, Offers, Pending
  <2> QED BY <1>2, <2>2, <2>7, IdleSettled, SettledByHandler
<1> QED BY <1>6, <1>7, <1>8, <1>9 DEF HandlerStep

LEMMA SettledPushStep ==
  ASSUME BridgeInv, NEW r \in Runs, NEW p \in Packets, Settled(r, p), NEW g \in Pushes,
         PushStep(g)
  PROVE  Settled(r, p)'
<1>a. PICK e : e = push[g] OBVIOUS
<1>1. /\ e \in PushRec /\ push \in [Pushes -> PushRec]
      /\ packet \in [Runs -> States] /\ row \in [Runs -> AnyEnvelope]
      /\ mem \in [Runs -> AnyEnvelope]
      /\ e.pc \in {"try", "sync", "load", "store"} => e.run \in Runs
  BY <1>a DEF BridgeInv, Typed, RowsTyped, ActorsTyped, Good, PushGood
<1>2. UNCHANGED <<dispatcher, handler, bound>>
  BY DEF PushStep, ListRows, GiveUp, Try, SyncRecovered, LoadForReview, Review, Take, KeepRows,
         durable
<1>3. SettledRows(r, p) /\ SettledPush(e, r, p) BY <1>a, SettledParts
<1>4. UNCHANGED <<packet, row, mem>> => SettledRows(r, p)'
  BY <1>3 DEF SettledRows, Past, Offers, Pending
<1>5. CASE ListRows(g)
  <2>1. PICK l : l = e.listed \cup
                     {<<s, row[s]>> : s \in {s \in Runs \ {y[1] : y \in e.listed} : Pending(row[s])}}
    OBVIOUS
  <2>2. PICK x : x = [e EXCEPT !.pc = "next", !.listed = l] OBVIOUS
  <2>3. push' = [push EXCEPT ![g] = x] /\ UNCHANGED <<packet, row, mem>>
    BY <1>5, <1>a, <2>1, <2>2 DEF ListRows, KeepRows, durable
  <2>4. x.pc = "next" /\ x.listed = l BY <1>1, <2>2 DEF PushRec
  <2>5. \A y \in l : y[1] = r => y[2].packet # p
    BY <1>3, <2>1 DEF SettledPush, SettledRows, Offers
  <2>6. SettledPush(x, r, p) BY <2>4, <2>5 DEF SettledPush
  <2> QED BY <1>2, <1>4, <2>3, <2>6, SettledByPush
<1>6. CASE GiveUp(g)
  <2>1. push' = [push EXCEPT ![g] = IdlePush] /\ UNCHANGED <<packet, row, mem>>
    BY <1>6 DEF GiveUp, KeepRows, durable
  <2> QED BY <1>2, <1>4, <2>1, IdleSettled, SettledByPush
<1>7. ASSUME NEW q \in Runs, Take(g, q) PROVE Settled(r, p)'
  <2>1. PICK y \in e.listed :
          /\ y[1] = q /\ mem' = [mem EXCEPT ![q] = y[2]]
          /\ push' = [push EXCEPT ![g] =
               [e EXCEPT !.pc = "try", !.run = q, !.env = y[2], !.listed = e.listed \ {y}]]
    BY <1>7, <1>a DEF Take
  <2>2. PICK x : x = [e EXCEPT !.pc = "try", !.run = q, !.env = y[2],
                               !.listed = e.listed \ {y}]
    OBVIOUS
  <2>3. push' = [push EXCEPT ![g] = x] /\ UNCHANGED <<packet, row>>
    BY <1>7, <2>1, <2>2 DEF Take, KeepRows, durable
  <2>4. x.pc = "try" /\ x.run = q /\ x.env = y[2] /\ x.listed = e.listed \ {y}
    BY <1>1, <2>2 DEF PushRec
  <2>5. q = r => y[2].packet # p BY <1>3, <2>1 DEF SettledPush
  <2>6. SettledPush(x, r, p) BY <1>3, <2>4, <2>5 DEF SettledPush
  <2>7. mem'[r] = mem[r] \/ (q = r /\ mem'[r] = y[2]) BY <1>1, <2>1
  <2>8. SettledRows(r, p)'
    BY <1>3, <2>3, <2>5, <2>7 DEF SettledRows, Past, Offers, Pending
  <2> QED BY <1>2, <2>3, <2>6, <2>8, SettledByPush
<1>8. CASE Try(g)
  <2>1. PICK o : o = Patched(mem[e.run], "recovered_github_secondary") OBVIOUS
  <2>2. PICK x : x = [e EXCEPT !.pc = "sync", !.copy = o] OBVIOUS
  <2>3. PICK y : y = [e EXCEPT !.pc = "next"] OBVIOUS
  <2>4. /\ e.pc = "try" /\ UNCHANGED <<packet, row>>
        /\ \/ mem' = [mem EXCEPT ![e.run] = o] /\ push' = [push EXCEPT ![g] = x]
           \/ mem' = mem /\ push' = [push EXCEPT ![g] = y]
    BY <1>8, <1>a, <2>1, <2>2, <2>3 DEF Try, KeepRows, durable
  <2>5. /\ x.pc = "sync" /\ x.run = e.run /\ x.env = e.env /\ x.listed = e.listed
        /\ x.copy = o /\ y.pc = "next" /\ y.listed = e.listed
    BY <1>1, <2>2, <2>3 DEF PushRec
  <2>6. ~Offers(o, p) BY <1>1, <2>1, <2>4, NotOffered
  <2>7. SettledPush(x, r, p) /\ SettledPush(y, r, p)
    BY <1>3, <2>4, <2>5, <2>6 DEF SettledPush
  <2>8. mem'[r] = mem[r] \/ mem'[r] = o BY <1>1, <2>4
  <2>9. SettledRows(r, p)' BY <1>3, <2>4, <2>6, <2>8 DEF SettledRows, Past, Offers, Pending
  <2> QED BY <1>2, <2>4, <2>7, <2>9, SettledByPush
<1>9. CASE SyncRecovered(g)
  <2>1. PICK x : x = [e EXCEPT !.pc = "load"] OBVIOUS
  <2>2. /\ push' = [push EXCEPT ![g] = x] /\ e.pc = "sync"
        /\ row' = [row EXCEPT ![e.run] = e.copy] /\ UNCHANGED <<packet, mem>>
    BY <1>9, <1>a, <2>1 DEF SyncRecovered
  <2>3. x.pc = "load" /\ x.run = e.run /\ x.env = e.env /\ x.listed = e.listed
    BY <1>1, <2>1 DEF PushRec
  <2>4. SettledPush(x, r, p) BY <1>3, <2>2, <2>3 DEF SettledPush
  <2>5. row'[r] = row[r] \/ (e.run = r /\ row'[r] = e.copy) BY <1>1, <2>2
  <2>6. SettledRows(r, p)'
    BY <1>3, <2>2, <2>5 DEF SettledRows, SettledPush, Past, Offers, Pending
  <2> QED BY <1>2, <2>2, <2>4, <2>6, SettledByPush
<1>10. CASE LoadForReview(g)
  <2>1. PICK x : x = [e EXCEPT !.pc = "store", !.states = packet[e.run]] OBVIOUS
  <2>2. /\ push' = [push EXCEPT ![g] = x] /\ e.pc = "load"
        /\ UNCHANGED <<packet, row, mem>>
    BY <1>10, <1>a, <2>1 DEF LoadForReview, KeepRows, durable
  <2>3. /\ x.pc = "store" /\ x.run = e.run /\ x.env = e.env /\ x.listed = e.listed
        /\ x.states = packet[e.run]
    BY <1>1, <2>1 DEF PushRec
  <2>4. SettledPush(x, r, p) BY <1>3, <2>2, <2>3 DEF SettledPush, SettledRows
  <2> QED BY <1>2, <1>4, <2>2, <2>4, SettledByPush
<1>11. CASE Review(g)
  <2>1. /\ push' = [push EXCEPT ![g] = IdlePush] /\ e.pc = "store"
        /\ packet' = [packet EXCEPT ![e.run] =
                        [e.states EXCEPT ![e.env.packet] = "review_required"]]
        /\ UNCHANGED <<row, mem>>
    BY <1>11, <1>a DEF Review
  <2>2. e.run \in Runs /\ e.states \in States BY <1>1, <2>1 DEF PushRec
  <2>3. Past(packet'[r], p)
    <3>1. CASE e.run # r BY <1>1, <1>3, <2>1, <3>1 DEF SettledRows
    <3>2. CASE e.run = r
      <4>1. packet'[r] = [e.states EXCEPT ![e.env.packet] = "review_required"]
        BY <1>1, <2>1, <3>2
      <4>2. Past(e.states, p) /\ e.env.packet # p BY <1>3, <2>1, <3>2 DEF SettledPush
      <4>3. packet'[r][p] = e.states[p] BY <2>2, <4>1, <4>2 DEF States
      <4> QED BY <4>2, <4>3 DEF Past
    <3> QED BY <3>1, <3>2
  <2>4. SettledRows(r, p)' BY <1>3, <2>1, <2>3 DEF SettledRows, Past, Offers, Pending
  <2> QED BY <1>2, <2>1, <2>4, IdleSettled, SettledByPush
<1> QED BY <1>5, <1>6, <1>7, <1>8, <1>9, <1>10, <1>11 DEF PushStep

LEMMA SettledStep ==
  ASSUME BridgeInv, [Next]_vars, NEW r \in Runs, NEW p \in Packets, Settled(r, p)
  PROVE  Settled(r, p)'
<1>1. SettledRows(r, p) BY SettledParts
<1>2. ASSUME NEW h \in Handlers, NEW q \in Runs, NEW o \in Packets, NEW word \in Words,
             Callback(h, q, o, word)
      PROVE  Settled(r, p)'
  <2>1. PICK x : x = [IdleHandler EXCEPT !.pc = "mark", !.run = q, !.packet = o, !.word = word]
    OBVIOUS
  <2>2. handler' = [handler EXCEPT ![h] = x] /\ UNCHANGED <<durable, mem, dispatcher, push>>
    BY <1>2, <2>1 DEF Callback
  <2>3. x.pc = "mark" BY <2>1 DEF IdleHandler
  <2>4. SettledHandler(x, r, p) BY <2>3 DEF SettledHandler
  <2>5. SettledRows(r, p)' BY <1>1, <2>2 DEF durable, SettledRows, Past, Offers, Pending
  <2> QED BY <2>2, <2>4, <2>5, SettledByHandler DEF durable
<1>3. ASSUME NEW g \in Pushes, NEW hits \in SUBSET registered, Push(g, hits)
      PROVE  Settled(r, p)'
  <2>1. PICK l : l = {<<q, mem[q]>> : q \in {s \in Runs : Pending(mem[s])}} OBVIOUS
  <2>2. PICK x : x = [IdlePush EXCEPT !.pc = "rows", !.hits = hits, !.listed = l] OBVIOUS
  <2>3. push' = [push EXCEPT ![g] = x] /\ UNCHANGED <<durable, mem, dispatcher, handler>>
    BY <1>3, <2>1, <2>2 DEF Push
  <2>4. x.pc = "rows" /\ x.listed = l BY <2>2 DEF IdlePush
  <2>5. \A y \in l : y[1] = r => y[2].packet # p BY <1>1, <2>1 DEF SettledRows, Offers
  <2>6. SettledPush(x, r, p) BY <2>4, <2>5 DEF SettledPush
  <2>7. SettledRows(r, p)' BY <1>1, <2>3 DEF durable, SettledRows, Past, Offers, Pending
  <2> QED BY <2>3, <2>6, <2>7, SettledByPush DEF durable
<1>4. CASE Crash
  <2>1. /\ UNCHANGED durable /\ mem'[r] = NoEnvelope /\ dispatcher'[r].pc = "idle"
        /\ \A h \in Handlers : handler'[h] = IdleHandler
        /\ \A g \in Pushes : push'[g] = IdlePush
    BY <1>4 DEF Crash, IdleDispatcher
  <2>2. ~Offers(NoEnvelope, p) BY DEF Offers, Pending, NoEnvelope
  <2>3. SettledRows(r, p)' BY <1>1, <2>1, <2>2 DEF durable, SettledRows, Past, Offers, Pending
  <2>4. /\ \A h \in Handlers : SettledHandler(handler'[h], r, p)
        /\ \A g \in Pushes : SettledPush(push'[g], r, p)
    BY <2>1, IdleSettled
  <2> QED BY <2>1, <2>3, <2>4 DEF Settled, SettledRows, SettledHandler, SettledPush,
                                  Offers, Past, Pending
<1>5. CASE UNCHANGED vars
  BY <1>5 DEF vars, Settled, Offers, Past, Pending
<1> QED BY <1>2, <1>3, <1>4, <1>5, SettledDispatch, SettledHandlerStep,
           SettledPushStep DEF Next, Step

\* Once no pending envelope of a packet is left with anybody, no push, callback,
\* dispatch or crash sends the packet back to review or to the queue
\* (resultRecoveryBridge.js), for any runs, packets, callbacks and pushes that
\* overlap at every await.
THEOREM SettledPacketsStay == Spec => SettledStays
<1>1. BridgeInv /\ [Next]_vars =>
        [\A r \in Runs, p \in Packets : Settled(r, p) => Settled(r, p)']_vars
  BY SettledStep
<1> QED BY <1>1, BridgeInvariant, PTL DEF Spec, SettledStays

-----------------------------------------------------------------------------
(* Every envelope is a real one or none.  A push that is about to mark the *)
(* envelope of a run relies on one being in memory: it has put it there,   *)
(* and nothing but a crash, which ends the push, takes it away.            *)

FitDispatch(r, x) == x.copy \in MaybeEnvelope /\ (x.pc = "register" => bound[r] \in Packets)
RealPush(x) ==
  /\ x.listed \subseteq Runs \X Envelope /\ x.env \in MaybeEnvelope /\ x.copy \in MaybeEnvelope
  /\ x.pc = "try" => mem[x.run] \in Envelope

RealRows ==
  /\ row \in [Runs -> MaybeEnvelope] /\ mem \in [Runs -> MaybeEnvelope]
  /\ registered \subseteq Dispatch /\ pushed \subseteq Dispatch
RealActors ==
  /\ \A r \in Runs : FitDispatch(r, dispatcher[r])
  /\ \A h \in Handlers : handler[h].copy \in MaybeEnvelope
  /\ \A g \in Pushes : RealPush(push[g])
RealInv == BridgeInv /\ RealRows /\ RealActors

\* What an actor at rest holds.
LEMMA IdleFields ==
  /\ IdleDispatcher.copy = NoEnvelope /\ IdleDispatcher.pc = "idle"
  /\ IdleHandler.copy = NoEnvelope
  /\ IdlePush.pc = "idle" /\ IdlePush.listed = {}
  /\ IdlePush.env = NoEnvelope /\ IdlePush.copy = NoEnvelope
<1>1. PICK none : none = "" OBVIOUS
<1>2. IdleHandler = [pc |-> "idle", run |-> none, packet |-> NoPacket, word |-> none,
                     copy |-> NoEnvelope, states |-> [p \in Packets |-> "queued"],
                     terms |-> [p \in Packets |-> NoRec]]
  BY ONLY <1>1, Zenon DEF IdleHandler
<1>3. IdlePush = [pc |-> "idle", hits |-> {}, listed |-> {}, run |-> none,
                  env |-> NoEnvelope, copy |-> NoEnvelope,
                  states |-> [p \in Packets |-> "queued"]]
  BY ONLY <1>1, Zenon DEF IdlePush
<1> HIDE <1>1
<1>4. IdleHandler.copy = NoEnvelope BY <1>2
<1>5. /\ IdlePush.pc = "idle" /\ IdlePush.listed = {}
      /\ IdlePush.env = NoEnvelope /\ IdlePush.copy = NoEnvelope
  BY <1>3
<1> QED BY <1>4, <1>5 DEF IdleDispatcher

LEMMA Marked ==
  /\ \A e \in Envelope, s \in EnvelopeStatus : Patched(e, s) \in Envelope
  /\ \A e \in MaybeEnvelope : e # NoEnvelope => e \in Envelope
  /\ \A e \in MaybeEnvelope : Pending(e) => e \in Envelope
  /\ Envelope \subseteq MaybeEnvelope /\ NoEnvelope \in MaybeEnvelope
BY DEF Patched, Envelope, MaybeEnvelope, NoEnvelope, Pending

\* What the others hold stays real as long as no envelope leaves the memory.
LEMMA OthersStayReal ==
  ASSUME RealInv, \A r \in Runs : mem[r] \in Envelope => mem'[r] \in Envelope,
         NEW g \in Pushes, push'[g] = push[g]
  PROVE  RealPush(push[g])'
<1>1. RealPush(push[g]) /\ (push[g].pc = "try" => push[g].run \in Runs)
  BY DEF RealInv, RealActors, BridgeInv, Good, PushGood
<1> QED BY <1>1 DEF RealPush

LEMMA RealDispatcher ==
  ASSUME RealInv, BridgeInv', NEW r \in Runs,
         DispatcherStep(r) \/ \E p \in Packets : Accept(r, p)
  PROVE  RealInv'
<1>1. /\ dispatcher \in [Runs -> DispatcherRec] /\ bound \in [Runs -> AnyPacket]
      /\ mem \in [Runs -> MaybeEnvelope] /\ row \in [Runs -> MaybeEnvelope]
      /\ registered \subseteq Dispatch /\ pushed \subseteq Dispatch
      /\ FitDispatch(r, dispatcher[r])
  BY DEF RealInv, RealRows, RealActors, BridgeInv, Typed, RowsTyped, ActorsTyped
<1>2. UNCHANGED <<handler, push, pushed>>
  BY DEF DispatcherStep, Register, DoNotRegister, SyncRegistered, Accept, KeepRows,
         history
<1> DEFINE e == [packet |-> bound[r], status |-> "pending_callback"]
<1>3. bound[r] \in Packets => e \in Envelope BY DEF Envelope, EnvelopeStatus
<1>4. \/ UNCHANGED <<mem, registered>>
      \/ bound[r] \in Packets /\ mem' = [mem EXCEPT ![r] = e]
         /\ registered' = registered \cup {<<r, bound[r]>>}
  BY <1>1 DEF DispatcherStep, Register, DoNotRegister, SyncRegistered, Accept,
              KeepRows, history, FitDispatch
<1>5. \/ row' = row \/ row' = [row EXCEPT ![r] = dispatcher[r].copy]
  BY DEF DispatcherStep, Register, DoNotRegister, SyncRegistered, Accept, KeepRows, durable
<1> HIDE DEF e
<1>6. mem' \in [Runs -> MaybeEnvelope] /\ registered' \subseteq Dispatch
  BY <1>1, <1>3, <1>4, Marked DEF Dispatch
<1>7. row' \in [Runs -> MaybeEnvelope] BY <1>1, <1>5 DEF FitDispatch
<1>8. \A q \in Runs : mem[q] \in Envelope => mem'[q] \in Envelope
  BY <1>1, <1>3, <1>4
<1>9. \A g \in Pushes : RealPush(push[g])' BY <1>2, <1>8, OthersStayReal
<1>10. ASSUME NEW q \in Runs PROVE FitDispatch(q, dispatcher[q])'
  <2>1. FitDispatch(q, dispatcher[q]) BY DEF RealInv, RealActors
  <2>2. CASE q # r
    <3>1. dispatcher'[q] = dispatcher[q] /\ bound'[q] = bound[q]
      BY <1>1, <2>2 DEF DispatcherStep, Register, DoNotRegister, SyncRegistered,
                        Accept, KeepRows, durable
    <3> QED BY <2>1, <3>1 DEF FitDispatch
  <2>3. ASSUME q = r, NEW p \in Packets, Accept(r, p) PROVE FitDispatch(q, dispatcher[q])'
    <3>1. dispatcher'[r] = [dispatcher[r] EXCEPT !.pc = "register"] /\ bound'[r] = p
      BY <1>1, <2>3 DEF Accept
    <3>2. dispatcher'[r].copy = dispatcher[r].copy BY <1>1, <3>1 DEF DispatcherRec
    <3> QED BY <2>1, <2>3, <3>1, <3>2 DEF FitDispatch
  <2>4. ASSUME q = r, Register(r) PROVE FitDispatch(q, dispatcher[q])'
    <3>1. dispatcher'[r] = [pc |-> "sync", copy |-> e] /\ dispatcher[r].pc = "register"
      BY <1>1, <2>4 DEF Register, e
    <3>2. e \in MaybeEnvelope BY <1>1, <1>3, <3>1, Marked DEF FitDispatch
    <3> QED BY <2>4, <3>1, <3>2 DEF FitDispatch
  <2>5. ASSUME q = r, DoNotRegister(r) \/ SyncRegistered(r)
        PROVE  FitDispatch(q, dispatcher[q])'
    <3>1. dispatcher'[r] = IdleDispatcher
      BY <1>1, <2>5 DEF DoNotRegister, SyncRegistered
    <3> QED BY <2>5, <3>1, Marked DEF FitDispatch, IdleDispatcher
  <2> QED BY <2>2, <2>3, <2>4, <2>5 DEF DispatcherStep
<1>11. \A h \in Handlers : handler'[h].copy \in MaybeEnvelope
  BY <1>2 DEF RealInv, RealActors
<1> QED BY <1>1, <1>2, <1>6, <1>7, <1>9, <1>10, <1>11 DEF RealInv, RealRows, RealActors

LEMMA RealHandler ==
  ASSUME RealInv, BridgeInv', NEW h \in Handlers, HandlerStep(h)
  PROVE  RealInv'
<1> DEFINE r == handler[h].run
<1>1. /\ handler \in [Handlers -> HandlerRec] /\ mem \in [Runs -> MaybeEnvelope]
      /\ row \in [Runs -> MaybeEnvelope] /\ handler[h].copy \in MaybeEnvelope
      /\ handler[h].pc # "idle" => r \in Runs
  BY DEF RealInv, RealRows, RealActors, BridgeInv, Typed, ActorsTyped, Good, HandlerGood
<1>2. handler[h].pc # "idle"
  BY DEF HandlerStep, Mark, Fetch, SyncObserved, Load, Store
<1>3. UNCHANGED <<dispatcher, push, bound, registered, pushed>>
  BY DEF HandlerStep, Mark, Fetch, SyncObserved, Load, Store, KeepRows, durable, history
<1>4. row' = row \/ row' = [row EXCEPT ![r] = handler[h].copy]
  BY DEF HandlerStep, Mark, Fetch, SyncObserved, Load, Store, KeepRows, durable
<1>5. row' \in [Runs -> MaybeEnvelope] BY <1>1, <1>2, <1>4
<1>6. \E c \in MaybeEnvelope :
        /\ handler'[h].copy = c
        /\ mem' = mem \/ (c \in Envelope /\ mem' = [mem EXCEPT ![r] = c])
  <2>1. ASSUME NEW e \in MaybeEnvelope, MarkObserved(h, e)
        PROVE  \E c \in MaybeEnvelope :
                 /\ handler'[h].copy = c
                 /\ mem' = mem \/ (c \in Envelope /\ mem' = [mem EXCEPT ![r] = c])
    <3>1. CASE e = NoEnvelope
      <4>1. handler' = [handler EXCEPT ![h].pc = "load"] /\ mem' = mem
        BY <2>1, <3>1 DEF MarkObserved
      <4>2. handler'[h].copy = handler[h].copy BY <1>1, <4>1 DEF HandlerRec
      <4> QED BY <1>1, <4>1, <4>2
    <3>2. CASE e # NoEnvelope
      <4>1. PICK o : o = Patched(e, "primary_callback_observed") OBVIOUS
      <4>2. o \in Envelope BY <3>2, <4>1, Marked DEF EnvelopeStatus
      <4>3. /\ mem' = [mem EXCEPT ![r] = o]
            /\ handler' = [handler EXCEPT ![h] = [@ EXCEPT !.pc = "sync", !.copy = o]]
        BY <2>1, <3>2, <4>1 DEF MarkObserved
      <4>4. handler'[h].copy = o BY <1>1, <4>3 DEF HandlerRec
      <4> QED BY <4>2, <4>3, <4>4, Marked
    <3> QED BY <3>1, <3>2
  <2>2. CASE Mark(h)
    <3>1. CASE mem[r] = NoEnvelope
      <4>1. handler' = [handler EXCEPT ![h].pc = "fetch"] /\ mem' = mem
        BY <2>2, <3>1 DEF Mark
      <4>2. handler'[h].copy = handler[h].copy BY <1>1, <4>1 DEF HandlerRec
      <4> QED BY <1>1, <4>1, <4>2
    <3>2. CASE mem[r] # NoEnvelope
      <4>1. MarkObserved(h, mem[r]) BY <2>2, <3>2 DEF Mark
      <4> QED BY <1>1, <1>2, <2>1, <4>1
    <3> QED BY <3>1, <3>2
  <2>3. CASE Fetch(h)
    <3>1. MarkObserved(h, row[r]) BY <2>3 DEF Fetch
    <3> QED BY <1>1, <1>2, <2>1, <3>1
  <2>4. CASE SyncObserved(h) \/ Load(h) \/ Store(h)
    <3>1. mem' = mem BY <2>4 DEF SyncObserved, Load, Store
    <3>2. \/ handler' = [handler EXCEPT ![h] = IdleHandler]
          \/ handler' = [handler EXCEPT ![h] = [@ EXCEPT !.pc = "load"]]
          \/ handler' = [handler EXCEPT ![h] = [@ EXCEPT !.pc = "store",
               !.states = packet[r], !.terms = terms[r]]]
      BY <2>4 DEF SyncObserved, Load, Store
    <3>3. handler'[h].copy \in {handler[h].copy, NoEnvelope}
      BY <1>1, <3>2, IdleFields DEF HandlerRec
    <3> QED BY <1>1, <3>1, <3>3, Marked
  <2> QED BY <2>2, <2>3, <2>4 DEF HandlerStep
<1>7. \A k \in Handlers : handler'[k].copy \in MaybeEnvelope
  <2>1. ASSUME NEW k \in Handlers, k # h PROVE handler'[k] = handler[k]
    BY <1>1, <2>1 DEF HandlerStep, Mark, Fetch, SyncObserved, Load, Store, MarkObserved
  <2> QED BY <1>6, <2>1 DEF RealInv, RealActors
<1>8. /\ mem' \in [Runs -> MaybeEnvelope]
      /\ \A q \in Runs : mem[q] \in Envelope => mem'[q] \in Envelope
  BY <1>1, <1>2, <1>6, Marked
<1>9. \A g \in Pushes : RealPush(push[g])' BY <1>3, <1>8, OthersStayReal
<1>10. \A q \in Runs : FitDispatch(q, dispatcher[q])'
  BY <1>3 DEF RealInv, RealActors, FitDispatch
<1> QED BY <1>3, <1>5, <1>7, <1>8, <1>9, <1>10 DEF RealInv, RealRows, RealActors

\* Replacing one push by a real one.
LEMMA RealPushKeeps ==
  ASSUME RealInv, BridgeInv', NEW g \in Pushes, NEW x,
         push' = [push EXCEPT ![g] = x], RealPush(x)',
         UNCHANGED <<dispatcher, handler, bound>>, RealRows',
         \A q \in Runs : mem[q] \in Envelope => mem'[q] \in Envelope
  PROVE  RealInv'
<1>1. push \in [Pushes -> PushRec] BY DEF RealInv, BridgeInv, Typed, ActorsTyped
<1>2. ASSUME NEW k \in Pushes PROVE RealPush(push[k])'
  <2>1. CASE k = g
    <3>1. push'[k] = x BY <1>1, <2>1
    <3> QED BY <3>1 DEF RealPush
  <2>2. CASE k # g
    <3>1. push'[k] = push[k] BY <1>1, <2>2
    <3> QED BY <3>1, OthersStayReal
  <2> QED BY <2>1, <2>2
<1> QED BY <1>2 DEF RealInv, RealActors, FitDispatch

LEMMA RealPushStep ==
  ASSUME RealInv, BridgeInv', NEW g \in Pushes, PushStep(g)
  PROVE  RealInv'
<1> DEFINE e == push[g]
<1>1. /\ e \in PushRec /\ RealPush(e) /\ FitPush(e)
      /\ row \in [Runs -> MaybeEnvelope] /\ mem \in [Runs -> MaybeEnvelope]
      /\ registered \subseteq Dispatch /\ pushed \subseteq Dispatch
  BY Fits DEF RealInv, RealRows, RealActors, BridgeInv, Good, Typed, ActorsTyped
<1>2. UNCHANGED <<dispatcher, handler, bound, registered, pushed>>
  <2>1. UNCHANGED <<dispatcher, handler>>
    BY DEF PushStep, ListRows, GiveUp, Try, SyncRecovered, LoadForReview, Review, Take
  <2>2. UNCHANGED <<bound, history>>
    <3>1. ListRows(g) \/ GiveUp(g) \/ Try(g) \/ LoadForReview(g)
            \/ (\E r \in Runs : Take(g, r)) => KeepRows
      BY DEF ListRows, GiveUp, Try, LoadForReview, Take
    <3>2. SyncRecovered(g) \/ Review(g) => UNCHANGED <<bound, history>>
      BY DEF SyncRecovered, Review
    <3> QED BY <3>1, <3>2 DEF PushStep, KeepRows, durable
  <2> QED BY <2>1, <2>2 DEF history
<1>3. CASE ListRows(g)
  <2> DEFINE known == {y[1] : y \in e.listed}
  <2>a. PICK l : l = e.listed \cup {<<r, row[r]>> : r \in {s \in Runs \ known : Pending(row[s])}}
    OBVIOUS
  <2>b. PICK x : x = [e EXCEPT !.pc = "next", !.listed = l] OBVIOUS
  <2>1. push' = [push EXCEPT ![g] = x] /\ mem' = mem /\ row' = row
    BY <1>3, <2>a, <2>b DEF ListRows, KeepRows, durable
  <2> HIDE DEF e
  <2>2. l \subseteq Runs \X Envelope BY <1>1, <2>a, Marked DEF RealPush
  <2>3. x.pc = "next" /\ x.listed = l /\ x.env = e.env /\ x.copy = e.copy
    BY <1>1, <2>b DEF PushRec
  <2>4. RealPush(x)' BY <1>1, <2>2, <2>3 DEF RealPush
  <2>5. RealRows' BY <1>1, <1>2, <2>1 DEF RealRows
  <2> QED BY <1>2, <2>1, <2>4, <2>5, RealPushKeeps
<1>4. CASE GiveUp(g) \/ Review(g)
  <2>1. push' = [push EXCEPT ![g] = IdlePush] /\ mem' = mem /\ row' = row
    BY <1>4 DEF GiveUp, Review, KeepRows, durable
  <2>2. PICK x : x = IdlePush OBVIOUS
  <2>3. RealPush(x)' BY <2>2, Marked, IdleFields DEF RealPush
  <2>4. RealRows' BY <1>1, <1>2, <2>1 DEF RealRows
  <2> QED BY <1>2, <2>1, <2>2, <2>3, <2>4, RealPushKeeps
<1>5. CASE Try(g)
  <2>a. PICK o : o = Patched(mem[e.run], "recovered_github_secondary") OBVIOUS
  <2>b. PICK x : x = [e EXCEPT !.pc = "sync", !.copy = o] OBVIOUS
  <2>c. PICK y : y = [e EXCEPT !.pc = "next"] OBVIOUS
  <2>1. /\ e.pc = "try" /\ row' = row
        /\ \/ mem' = [mem EXCEPT ![e.run] = o] /\ push' = [push EXCEPT ![g] = x]
           \/ push' = [push EXCEPT ![g] = y] /\ mem' = mem
    BY <1>5, <2>a, <2>b, <2>c DEF Try, KeepRows, durable
  <2> HIDE DEF e
  <2>2. e.run \in Runs /\ mem[e.run] \in Envelope
    BY <1>1, <2>1 DEF FitPush, RealPush
  <2>3. o \in Envelope BY <2>2, <2>a, Marked DEF EnvelopeStatus
  <2>4. /\ x.pc = "sync" /\ x.listed = e.listed /\ x.env = e.env /\ x.copy = o
        /\ y.pc = "next" /\ y.listed = e.listed /\ y.env = e.env /\ y.copy = e.copy
    BY <1>1, <2>b, <2>c DEF PushRec
  <2>5. RealPush(x)' /\ RealPush(y)' BY <1>1, <2>3, <2>4, Marked DEF RealPush
  <2>6. /\ mem' \in [Runs -> MaybeEnvelope]
        /\ \A q \in Runs : mem[q] \in Envelope => mem'[q] \in Envelope
    BY <1>1, <2>1, <2>3, Marked
  <2>7. RealRows' BY <1>1, <1>2, <2>1, <2>6 DEF RealRows
  <2> QED BY <1>2, <2>1, <2>5, <2>6, <2>7, RealPushKeeps
<1>6. CASE SyncRecovered(g)
  <2>a. PICK x : x = [e EXCEPT !.pc = "load"] OBVIOUS
  <2>1. /\ e.pc = "sync" /\ row' = [row EXCEPT ![e.run] = e.copy]
        /\ push' = [push EXCEPT ![g] = x] /\ mem' = mem
    BY <1>6, <2>a DEF SyncRecovered
  <2> HIDE DEF e
  <2>2. x.pc = "load" /\ x.listed = e.listed /\ x.env = e.env /\ x.copy = e.copy
    BY <1>1, <2>a DEF PushRec
  <2>3. RealPush(x)' BY <1>1, <2>2 DEF RealPush
  <2>4. RealRows' BY <1>1, <1>2, <2>1 DEF RealRows, RealPush
  <2> QED BY <1>2, <2>1, <2>3, <2>4, RealPushKeeps
<1>7. CASE LoadForReview(g)
  <2>a. PICK x : x = [e EXCEPT !.pc = "store", !.states = packet[e.run]] OBVIOUS
  <2>1. push' = [push EXCEPT ![g] = x] /\ mem' = mem /\ row' = row
    BY <1>7, <2>a DEF LoadForReview, KeepRows, durable
  <2> HIDE DEF e
  <2>2. x.pc = "store" /\ x.listed = e.listed /\ x.env = e.env /\ x.copy = e.copy
    BY <1>1, <2>a DEF PushRec
  <2>3. RealPush(x)' BY <1>1, <2>2 DEF RealPush
  <2>4. RealRows' BY <1>1, <1>2, <2>1 DEF RealRows
  <2> QED BY <1>2, <2>1, <2>3, <2>4, RealPushKeeps
<1>8. ASSUME NEW r \in Runs, Take(g, r) PROVE RealInv'
  <2>1. PICK y \in e.listed :
          /\ y[1] = r /\ mem' = [mem EXCEPT ![r] = y[2]]
          /\ push' = [push EXCEPT ![g] =
               [@ EXCEPT !.pc = "try", !.run = r, !.env = y[2],
                         !.listed = push[g].listed \ {y}]]
    BY <1>8, Zenon DEF Take
  <2>a. PICK x : x = [e EXCEPT !.pc = "try", !.run = r, !.env = y[2],
                               !.listed = e.listed \ {y}]
    OBVIOUS
  <2>2. push' = [push EXCEPT ![g] = x] BY <2>1, <2>a
  <2>3. row' = row BY <1>8 DEF Take, KeepRows, durable
  <2> HIDE DEF e
  <2>4. y[2] \in Envelope BY <1>1 DEF RealPush
  <2>5. /\ x.pc = "try" /\ x.run = r /\ x.env = y[2] /\ x.copy = e.copy
        /\ x.listed = e.listed \ {y}
    BY <1>1, <2>a DEF PushRec
  <2>6. /\ mem' \in [Runs -> MaybeEnvelope] /\ mem'[r] \in Envelope
        /\ \A q \in Runs : mem[q] \in Envelope => mem'[q] \in Envelope
    BY <1>1, <2>1, <2>4, Marked
  <2>7. RealPush(x)' BY <1>1, <2>4, <2>5, <2>6, Marked DEF RealPush
  <2>8. RealRows' BY <1>1, <1>2, <2>3, <2>6 DEF RealRows
  <2> QED BY <1>2, <2>2, <2>6, <2>7, <2>8, RealPushKeeps
<1> QED BY <1>3, <1>4, <1>5, <1>6, <1>7, <1>8 DEF PushStep

LEMMA RealPushStart ==
  ASSUME RealInv, BridgeInv', NEW g \in Pushes, NEW hits \in SUBSET registered,
         Push(g, hits)
  PROVE  RealInv'
<1>a. PICK l : l = {<<r, mem[r]>> : r \in {s \in Runs : Pending(mem[s])}} OBVIOUS
<1>b. PICK x : x = [IdlePush EXCEPT !.pc = "rows", !.hits = hits, !.listed = l] OBVIOUS
<1>1. /\ push' = [push EXCEPT ![g] = x] /\ pushed' = pushed \cup hits
      /\ UNCHANGED <<bound, row, mem, dispatcher, handler, registered>>
  BY <1>a, <1>b DEF Push, durable
<1>2. l \subseteq Runs \X Envelope BY <1>a, Marked DEF RealInv, RealRows
<1>3. x.pc = "rows" /\ x.listed = l /\ x.env = NoEnvelope /\ x.copy = NoEnvelope
  BY <1>b DEF IdlePush
<1>4. RealPush(x)' BY <1>2, <1>3, Marked DEF RealPush
<1>5. RealRows' BY <1>1 DEF RealInv, RealRows
<1> QED BY <1>1, <1>4, <1>5, RealPushKeeps

LEMMA RealStep == RealInv /\ [Next]_vars => RealInv'
<1> SUFFICES ASSUME RealInv, [Next]_vars PROVE RealInv' OBVIOUS
<1>1. BridgeInv' BY BridgeStep DEF RealInv
<1>2. ASSUME NEW h \in Handlers, NEW r \in Runs, NEW p \in Packets,
             NEW word \in Words, Callback(h, r, p, word)
      PROVE  RealInv'
  <2>a. PICK x : x = [IdleHandler EXCEPT !.pc = "mark", !.run = r, !.packet = p, !.word = word]
    OBVIOUS
  <2>1. /\ handler' = [handler EXCEPT ![h] = x]
        /\ UNCHANGED <<durable, mem, dispatcher, push, history>>
    BY <1>2, <2>a DEF Callback
  <2>2. x.copy = NoEnvelope BY <2>a DEF IdleHandler
  <2>3. \A k \in Handlers : handler'[k].copy \in MaybeEnvelope
    BY <2>1, <2>2, Marked DEF RealInv, RealActors, BridgeInv, Typed, ActorsTyped
  <2> QED BY <1>1, <2>1, <2>3 DEF RealInv, RealRows, RealActors, FitDispatch, RealPush,
                                  durable, history
<1>3. CASE Crash
  <2>1. RealRows' BY <1>3, Marked DEF Crash, RealInv, RealRows, durable, history
  <2>2. RealActors'
    BY <1>3, Marked, IdleFields DEF Crash, RealActors, FitDispatch, RealPush
  <2> QED BY <1>1, <2>1, <2>2 DEF RealInv
<1>4. CASE UNCHANGED vars
  BY <1>1, <1>4 DEF vars, RealInv, RealRows, RealActors, FitDispatch, RealPush
<1> QED BY <1>1, <1>2, <1>3, <1>4, RealDispatcher, RealHandler, RealPushStep,
           RealPushStart DEF Next, Step

LEMMA RealInit == Init => RealInv
<1> SUFFICES ASSUME Init PROVE RealInv OBVIOUS
<1>1. RealRows BY Marked DEF Init, RealRows
<1>2. RealActors
  BY Marked, IdleFields DEF Init, RealActors, FitDispatch, RealPush
<1> QED BY <1>1, <1>2, BridgeInit DEF RealInv

\* The rows, the memory and whatever actors hold over their awaits keep their
\* types: an envelope is a whole one or none (pendingRecoveryEnvelope.js), for
\* any runs, packets, callbacks and pushes that overlap, and any crashes.
THEOREM BridgeTypeCorrect == Spec => []TypeOK
<1> DEFINE Chosen == overlap \in BOOLEAN
<1>1. ASSUME RealInv, Chosen PROVE TypeOK
  <2>1. RowsTyped /\ ActorsTyped /\ RealRows /\ RealActors
    BY <1>1 DEF RealInv, BridgeInv, Typed
  <2>2. packet \in [Runs -> States] /\ bound \in [Runs -> Packets \cup {NoPacket}]
    BY <2>1 DEF RowsTyped, AnyPacket
  <2>3. ASSUME NEW r \in Runs
        PROVE  /\ dispatcher[r].pc \in {"idle", "register", "sync"}
               /\ dispatcher[r].copy \in MaybeEnvelope
    BY <2>1 DEF ActorsTyped, DispatcherRec, RealActors, FitDispatch
  <2>4. ASSUME NEW h \in Handlers
        PROVE  /\ handler[h].pc \in {"idle", "mark", "fetch", "sync", "load", "store"}
               /\ handler[h].copy \in MaybeEnvelope
               /\ handler[h].states \in States
    BY <2>1 DEF ActorsTyped, HandlerRec, RealActors
  <2>5. ASSUME NEW g \in Pushes
        PROVE  /\ push[g].pc \in {"idle", "rows", "next", "try", "sync", "load", "store"}
               /\ push[g].listed \subseteq Runs \X Envelope
               /\ push[g].env \in MaybeEnvelope
               /\ push[g].copy \in MaybeEnvelope
               /\ push[g].states \in States
    BY <2>1 DEF ActorsTyped, PushRec, RealActors, RealPush
  <2> QED BY <1>1, <2>1, <2>2, <2>3, <2>4, <2>5 DEF RealRows, TypeOK
<1>2. Init => RealInv /\ Chosen BY RealInit DEF Init
<1>3. Chosen /\ [Next]_vars => Chosen' BY DEF Next, vars
<1> QED BY <1>1, <1>2, <1>3, RealStep, PTL DEF Spec
-----------------------------------------------------------------------------
(* Actors that do not overlap.  The row and the memory differ only while   *)
(* the one actor at work is about to copy the memory to the row, and an    *)
(* envelope that waits is of a packet that is not completed: a callback    *)
(* marks the envelope of its run before it commits anything.               *)

OnlyDispatcher(r) ==
  /\ \A s \in Runs : s # r => dispatcher[s].pc = "idle"
  /\ \A h \in Handlers : handler[h].pc = "idle"
  /\ \A g \in Pushes : push[g].pc = "idle"
OnlyHandler(h) ==
  /\ \A r \in Runs : dispatcher[r].pc = "idle"
  /\ \A k \in Handlers : k # h => handler[k].pc = "idle"
  /\ \A g \in Pushes : push[g].pc = "idle"
OnlyPush(g) ==
  /\ \A r \in Runs : dispatcher[r].pc = "idle"
  /\ \A h \in Handlers : handler[h].pc = "idle"
  /\ \A k \in Pushes : k # g => push[k].pc = "idle"

\* At most one actor is at work.
Alone ==
  /\ \A r \in Runs : dispatcher[r].pc # "idle" => OnlyDispatcher(r)
  /\ \A h \in Handlers : handler[h].pc # "idle" => OnlyHandler(h)
  /\ \A g \in Pushes : push[g].pc # "idle" => OnlyPush(g)

\* An envelope of run r that waits is of a packet that is not completed.
Honest(r, e) == Pending(e) => packet[r][e.packet] # "completed"

DispatcherCalm(r) ==
  /\ dispatcher[r].pc # "idle" => packet[r][bound[r]] = "running"
  /\ dispatcher[r].pc = "sync" => dispatcher[r].copy = mem[r]

\* A callback commits only after the envelope of its run is marked everywhere.
HandlerCalm(h) ==
  LET e == handler[h]
  IN  /\ e.pc = "fetch" => mem[e.run] = NoEnvelope
      /\ e.pc = "sync" => e.copy = mem[e.run] /\ ~Pending(mem[e.run])
      /\ e.pc \in {"load", "store"} => ~Pending(mem[e.run]) /\ ~Pending(row[e.run])
      /\ e.pc = "store" => e.states = packet[e.run]

\* What a push has listed is still on the row until the push settles one.
PushCalm(g) ==
  LET e == push[g]
  IN  /\ e.pc \in {"rows", "next", "try"} =>
           \A x \in e.listed : Pending(x[2]) /\ row[x[1]] = x[2]
      /\ e.pc = "try" => /\ Pending(e.env) /\ row[e.run] = e.env
                         /\ mem[e.run] = e.env
      /\ e.pc = "sync" => e.copy = mem[e.run] /\ ~Pending(mem[e.run])
      /\ e.pc \in {"sync", "load", "store"} =>
           packet[e.run][e.env.packet] # "completed"
      /\ e.pc = "store" => e.states = packet[e.run]

Calm ==
  /\ \A r \in Runs : Honest(r, row[r]) /\ Honest(r, mem[r]) /\ DispatcherCalm(r)
  /\ \A h \in Handlers : HandlerCalm(h)
  /\ \A g \in Pushes : PushCalm(g)

\* Somebody is about to copy the memory of run r to the row.
Copying(r) ==
  \/ dispatcher[r].pc = "sync"
  \/ \E h \in Handlers : handler[h].pc = "sync" /\ handler[h].run = r
  \/ \E g \in Pushes : push[g].pc = "sync" /\ push[g].run = r

Matched == \A r \in Runs : mem[r] = NoEnvelope \/ row[r] = mem[r] \/ Copying(r)

SerialInv == Alone /\ Calm /\ Matched

-----------------------------------------------------------------------------
(* The one actor at work. *)

\* An actor that begins finds the others at rest, and one that goes on is
\* the only one at work; its step leaves the others alone.
LEMMA OnlyOne ==
  ASSUME BridgeInv, Alone, ~overlap
  PROVE  /\ \A r \in Runs :
              DispatcherStep(r) \/ (\E p \in Packets : Accept(r, p)) =>
                /\ OnlyDispatcher(r) /\ OnlyDispatcher(r)'
                /\ UNCHANGED <<handler, push>>
         /\ \A h \in Handlers :
              HandlerStep(h) \/ (\E r \in Runs, p \in Packets, word \in Words :
                                   Callback(h, r, p, word)) =>
                /\ OnlyHandler(h) /\ OnlyHandler(h)'
                /\ UNCHANGED <<dispatcher, push>>
         /\ \A g \in Pushes :
              PushStep(g) \/ (\E hits \in SUBSET registered : Push(g, hits)) =>
                /\ OnlyPush(g) /\ OnlyPush(g)'
                /\ UNCHANGED <<dispatcher, handler>>
<1>1. ASSUME NEW r \in Runs,
             DispatcherStep(r) \/ (\E p \in Packets : Accept(r, p))
      PROVE  /\ OnlyDispatcher(r) /\ OnlyDispatcher(r)'
             /\ UNCHANGED <<handler, push>>
  <2>1. /\ UNCHANGED <<handler, push>>
        /\ dispatcher[r].pc # "idle" \/ Resting
        /\ \A s \in Runs : s # r => dispatcher'[s] = dispatcher[s]
    BY <1>1 DEF DispatcherStep, Accept, Register, DoNotRegister, SyncRegistered,
                MayStart, BridgeInv, Typed, ActorsTyped
  <2>2. OnlyDispatcher(r) BY <2>1 DEF Alone, OnlyDispatcher, Resting
  <2> QED BY <2>1, <2>2 DEF OnlyDispatcher
<1>2. ASSUME NEW h \in Handlers,
             HandlerStep(h) \/ (\E r \in Runs, p \in Packets, word \in Words :
                                  Callback(h, r, p, word))
      PROVE  /\ OnlyHandler(h) /\ OnlyHandler(h)'
             /\ UNCHANGED <<dispatcher, push>>
  <2>1. /\ UNCHANGED <<dispatcher, push>>
        /\ handler[h].pc # "idle" \/ Resting
        /\ \A k \in Handlers : k # h => handler'[k] = handler[k]
    <3>1. CASE Mark(h) \/ Fetch(h)
      BY <3>1 DEF Mark, Fetch, MarkObserved, BridgeInv, Typed, ActorsTyped
    <3>2. CASE SyncObserved(h) \/ Load(h) \/ Store(h)
      BY <3>2 DEF SyncObserved, Load, Store, BridgeInv, Typed, ActorsTyped
    <3>3. ASSUME NEW r \in Runs, NEW p \in Packets, NEW word \in Words,
                 Callback(h, r, p, word)
          PROVE  /\ UNCHANGED <<dispatcher, push>>
                 /\ handler[h].pc # "idle" \/ Resting
                 /\ \A k \in Handlers : k # h => handler'[k] = handler[k]
      BY <3>3 DEF Callback, MayStart, BridgeInv, Typed, ActorsTyped
    <3> QED BY <1>2, <3>1, <3>2, <3>3 DEF HandlerStep
  <2>2. OnlyHandler(h) BY <2>1 DEF Alone, OnlyHandler, Resting
  <2> QED BY <2>1, <2>2 DEF OnlyHandler
<1>3. ASSUME NEW g \in Pushes,
             PushStep(g) \/ (\E hits \in SUBSET registered : Push(g, hits))
      PROVE  /\ OnlyPush(g) /\ OnlyPush(g)'
             /\ UNCHANGED <<dispatcher, handler>>
  <2>1. /\ UNCHANGED <<dispatcher, handler>>
        /\ push[g].pc # "idle" \/ Resting
        /\ \A k \in Pushes : k # g => push'[k] = push[k]
    <3>1. CASE ListRows(g) \/ GiveUp(g) \/ Try(g)
      BY <3>1 DEF ListRows, GiveUp, Try, BridgeInv, Typed, ActorsTyped
    <3>2. CASE SyncRecovered(g) \/ LoadForReview(g) \/ Review(g)
      BY <3>2 DEF SyncRecovered, LoadForReview, Review, BridgeInv, Typed, ActorsTyped
    <3>3. ASSUME NEW r \in Runs, Take(g, r)
          PROVE  /\ UNCHANGED <<dispatcher, handler>>
                 /\ push[g].pc # "idle" \/ Resting
                 /\ \A k \in Pushes : k # g => push'[k] = push[k]
      BY <3>3 DEF Take, BridgeInv, Typed, ActorsTyped
    <3>4. ASSUME NEW hits \in SUBSET registered, Push(g, hits)
          PROVE  /\ UNCHANGED <<dispatcher, handler>>
                 /\ push[g].pc # "idle" \/ Resting
                 /\ \A k \in Pushes : k # g => push'[k] = push[k]
      BY <3>4 DEF Push, MayStart, BridgeInv, Typed, ActorsTyped
    <3> QED BY <1>3, <3>1, <3>2, <3>3, <3>4 DEF PushStep
  <2>2. OnlyPush(g) BY <2>1 DEF Alone, OnlyPush, Resting
  <2> QED BY <2>1, <2>2 DEF OnlyPush
<1> QED BY <1>1, <1>2, <1>3

LEMMA AloneStep == BridgeInv /\ Alone /\ ~overlap /\ [Next]_vars => Alone'
<1> SUFFICES ASSUME BridgeInv, Alone, ~overlap, [Next]_vars PROVE Alone' OBVIOUS
<1>1. ASSUME NEW h \in Handlers, OnlyHandler(h)' PROVE Alone'
  BY <1>1 DEF OnlyHandler, Alone
<1>2. ASSUME NEW g \in Pushes, OnlyPush(g)' PROVE Alone'
  BY <1>2 DEF OnlyPush, Alone
<1>3. ASSUME NEW r \in Runs, OnlyDispatcher(r)' PROVE Alone'
  BY <1>3 DEF OnlyDispatcher, Alone
<1>4. CASE Crash
  BY <1>4, IdleFields DEF Crash, Alone, IdleHandler
<1>5. CASE UNCHANGED vars
  BY <1>5 DEF vars, Alone, OnlyDispatcher, OnlyHandler, OnlyPush
<1> QED BY <1>1, <1>2, <1>3, <1>4, <1>5, OnlyOne DEF Next, Step

\* What the actors at rest promise is nothing.
LEMMA IdleCalm ==
  /\ \A r \in Runs : dispatcher'[r].pc = "idle" => DispatcherCalm(r)'
  /\ \A h \in Handlers : handler'[h].pc = "idle" => HandlerCalm(h)'
  /\ \A g \in Pushes : push'[g].pc = "idle" => PushCalm(g)'
BY DEF DispatcherCalm, HandlerCalm, PushCalm

\* An envelope that waits stays honest as long as its packet is not completed.
LEMMA HonestKept ==
  ASSUME NEW r, NEW e, Honest(r, e),
         Pending(e) => packet'[r][e.packet] \in {packet[r][e.packet], "running",
                                                 "review_required"}
  PROVE  Honest(r, e)'
BY DEF Honest

LEMMA DispatcherSerial ==
  ASSUME SerialInv, RealInv, NEW r \in Runs, OnlyDispatcher(r), OnlyDispatcher(r)',
         UNCHANGED <<handler, push>>,
         DispatcherStep(r) \/ \E p \in Packets : Accept(r, p)
  PROVE  Calm' /\ Matched'
<1>1. /\ dispatcher \in [Runs -> DispatcherRec] /\ packet \in [Runs -> States]
      /\ bound \in [Runs -> AnyPacket]
      /\ mem \in [Runs -> MaybeEnvelope] /\ row \in [Runs -> MaybeEnvelope]
      /\ dispatcher[r].pc = "register" => bound[r] \in Packets
  BY DEF RealInv, BridgeInv, Typed, RowsTyped, ActorsTyped, RealRows, RealActors,
         FitDispatch
<1>2. \A q \in Runs : Copying(q) => q = r /\ dispatcher[r].pc = "sync"
  BY DEF Copying, OnlyDispatcher
<1>3. \A q \in Runs : \/ mem[q] = NoEnvelope \/ row[q] = mem[q]
                      \/ q = r /\ dispatcher[r].pc = "sync"
  BY <1>2 DEF SerialInv, Matched
<1>4. /\ \A q \in Runs : Honest(q, row[q]) /\ Honest(q, mem[q])
      /\ DispatcherCalm(r)
  BY DEF SerialInv, Calm
<1> DEFINE Kept == /\ \A q \in Runs : Honest(q, row[q])' /\ Honest(q, mem[q])'
                   /\ DispatcherCalm(r)'
                   /\ Matched'
<1>5. Kept => Calm' /\ Matched' BY IdleCalm DEF OnlyDispatcher, Calm
<1>6. ASSUME NEW p \in Packets, Accept(r, p) PROVE Kept
  <2>1. /\ dispatcher[r].pc = "idle" /\ dispatcher'[r].pc = "register"
        /\ bound'[r] = p /\ UNCHANGED <<row, mem>>
    BY <1>1, <1>6 DEF Accept, DispatcherRec
  <2>2. packet' = [packet EXCEPT ![r][p] = "running"] BY <1>6 DEF Accept
  <2>3. \A q \in Runs, o \in Packets : packet'[q][o] \in {packet[q][o], "running"}
    BY <1>1, <2>2 DEF States
  <2>4. packet'[r][p] = "running" BY <1>1, <2>2 DEF States
  <2>5. DispatcherCalm(r)' BY <2>1, <2>4 DEF DispatcherCalm
  <2>6. ASSUME NEW q \in Runs, NEW e \in MaybeEnvelope, Honest(q, e)
        PROVE  Honest(q, e)'
    <3>1. Pending(e) => e.packet \in Packets BY Marked DEF Envelope
    <3> QED BY <2>3, <2>6, <3>1, HonestKept
  <2>7. \A q \in Runs : Honest(q, row[q])' /\ Honest(q, mem[q])'
    BY <1>1, <1>4, <2>1, <2>6
  <2>8. Matched' BY <1>3, <2>1 DEF Matched
  <2> QED BY <2>5, <2>7, <2>8
<1>7. ASSUME Register(r) PROVE Kept
  <2>a. PICK e : e = [packet |-> bound[r], status |-> "pending_callback"] OBVIOUS
  <2>1. /\ mem' = [mem EXCEPT ![r] = e] /\ UNCHANGED <<packet, bound, row>>
        /\ dispatcher' = [dispatcher EXCEPT ![r] = [pc |-> "sync", copy |-> e]]
        /\ dispatcher[r].pc = "register"
    BY <1>7, <2>a DEF Register, durable
  <2>2. packet[r][e.packet] = "running" BY <1>4, <2>1, <2>a DEF DispatcherCalm
  <2>3. /\ dispatcher'[r].pc = "sync" /\ dispatcher'[r].copy = e /\ mem'[r] = e
        /\ \A q \in Runs : q # r => mem'[q] = mem[q]
    BY <1>1, <2>1
  <2>4. Honest(r, e)' BY <2>1, <2>2 DEF Honest
  <2>5. \A q \in Runs : Honest(q, row[q])' /\ Honest(q, mem[q])'
    BY <1>4, <2>1, <2>3, <2>4 DEF Honest
  <2>6. DispatcherCalm(r)' BY <1>4, <2>1, <2>3 DEF DispatcherCalm
  <2>7. Matched' BY <1>3, <2>1, <2>3 DEF Matched, Copying
  <2> QED BY <2>5, <2>6, <2>7
<1>8. ASSUME DoNotRegister(r) PROVE Kept
  <2>1. /\ UNCHANGED <<packet, bound, row, mem>> /\ dispatcher[r].pc = "register"
        /\ dispatcher'[r].pc = "idle"
    BY <1>1, <1>8, IdleFields DEF DoNotRegister, KeepRows, durable
  <2>2. Matched' BY <1>3, <2>1 DEF Matched
  <2> QED BY <1>4, <2>1, <2>2 DEF Honest, DispatcherCalm
<1>9. ASSUME SyncRegistered(r) PROVE Kept
  <2>1. /\ UNCHANGED <<packet, bound, mem>> /\ dispatcher[r].pc = "sync"
        /\ row' = [row EXCEPT ![r] = mem[r]] /\ dispatcher'[r].pc = "idle"
    BY <1>1, <1>4, <1>9, IdleFields DEF SyncRegistered, DispatcherCalm
  <2>2. \A q \in Runs : row'[q] = IF q = r THEN mem[q] ELSE row[q] BY <1>1, <2>1
  <2>3. Matched' BY <1>3, <2>1, <2>2 DEF Matched
  <2>4. \A q \in Runs : Honest(q, row[q])' /\ Honest(q, mem[q])'
    BY <1>4, <2>1, <2>2 DEF Honest
  <2> QED BY <2>1, <2>3, <2>4 DEF DispatcherCalm
<1> HIDE DEF Kept
<1> QED BY <1>5, <1>6, <1>7, <1>8, <1>9 DEF DispatcherStep

LEMMA HandlerSerial ==
  ASSUME SerialInv, RealInv, NEW h \in Handlers, OnlyHandler(h), OnlyHandler(h)',
         UNCHANGED <<dispatcher, push>>,
         \/ HandlerStep(h)
         \/ \E r \in Runs, p \in Packets, word \in Words : Callback(h, r, p, word)
  PROVE  Calm' /\ Matched'
<1>a. PICK e : e = handler[h] OBVIOUS
<1>b. PICK x : x = handler'[h] OBVIOUS
<1>1. /\ handler \in [Handlers -> HandlerRec] /\ e \in HandlerRec
      /\ packet \in [Runs -> States]
      /\ mem \in [Runs -> MaybeEnvelope] /\ row \in [Runs -> MaybeEnvelope]
      /\ e.pc # "idle" => e.run \in Runs
  BY <1>a DEF RealInv, BridgeInv, Typed, RowsTyped, ActorsTyped, RealRows, Good,
              HandlerGood
<1>2. \A q \in Runs : Copying(q) => q = e.run /\ e.pc = "sync"
  BY <1>a DEF Copying, OnlyHandler
<1>3. \A q \in Runs : \/ mem[q] = NoEnvelope \/ row[q] = mem[q]
                      \/ q = e.run /\ e.pc = "sync"
  BY <1>2 DEF SerialInv, Matched
<1>4. \A q \in Runs : Honest(q, row[q]) /\ Honest(q, mem[q])
  BY DEF SerialInv, Calm
<1>5. /\ e.pc = "fetch" => mem[e.run] = NoEnvelope
      /\ e.pc = "sync" => e.copy = mem[e.run] /\ ~Pending(mem[e.run])
      /\ e.pc \in {"load", "store"} => ~Pending(mem[e.run]) /\ ~Pending(row[e.run])
      /\ e.pc = "store" => e.states = packet[e.run]
  BY <1>a DEF SerialInv, Calm, HandlerCalm
<1> DEFINE Kept == /\ \A q \in Runs : Honest(q, row[q])' /\ Honest(q, mem[q])'
                   /\ HandlerCalm(h)'
                   /\ Matched'
<1>6. Kept => Calm' /\ Matched' BY IdleCalm DEF OnlyHandler, Calm
<1>7. ~Pending(NoEnvelope) BY DEF Pending, NoEnvelope
<1>8. ASSUME NEW d \in MaybeEnvelope, MarkObserved(h, d), e.pc # "idle",
             UNCHANGED durable,
             d = NoEnvelope => mem[e.run] = NoEnvelope /\ ~Pending(row[e.run]),
             e.pc # "sync"
      PROVE  Kept
  <2>1. CASE d = NoEnvelope
    <3>1. handler' = [handler EXCEPT ![h].pc = "load"] /\ UNCHANGED mem
      BY <1>8, <2>1 DEF MarkObserved
    <3>2. x.pc = "load" /\ x.run = e.run BY <1>1, <1>a, <1>b, <3>1 DEF HandlerRec
    <3>3. UNCHANGED <<packet, row>> BY <1>8 DEF durable
    <3>4. HandlerCalm(h)'
      BY <1>7, <1>8, <1>b, <2>1, <3>1, <3>2, <3>3 DEF HandlerCalm
    <3>5. Matched' BY <1>3, <1>8, <3>1, <3>3 DEF Matched
    <3> QED BY <1>4, <3>1, <3>3, <3>4, <3>5 DEF Honest
  <2>2. CASE d # NoEnvelope
    <3>a. PICK o : o = Patched(d, "primary_callback_observed") OBVIOUS
    <3>1. /\ mem' = [mem EXCEPT ![e.run] = o]
          /\ handler' = [handler EXCEPT ![h] = [e EXCEPT !.pc = "sync", !.copy = o]]
      BY <1>8, <1>a, <2>2, <3>a DEF MarkObserved
    <3>2. x.pc = "sync" /\ x.run = e.run /\ x.copy = o
      BY <1>1, <1>a, <1>b, <3>1 DEF HandlerRec
    <3>3. ~Pending(o)
      <4>1. d \in Envelope BY <2>2, Marked
      <4> QED BY <4>1, <3>a DEF Patched, Pending, Envelope
    <3>4. UNCHANGED <<packet, row>> BY <1>8 DEF durable
    <3>5. /\ mem'[e.run] = o
          /\ \A q \in Runs : q # e.run => mem'[q] = mem[q]
      BY <1>1, <1>8, <3>1
    <3>6. HandlerCalm(h)' BY <1>b, <3>2, <3>3, <3>5 DEF HandlerCalm
    <3>7. Matched'
      <4>1. ASSUME NEW q \in Runs, q = e.run PROVE Copying(q)'
        BY <1>b, <3>2, <4>1 DEF Copying
      <4> QED BY <1>3, <1>8, <3>4, <3>5, <4>1 DEF Matched
    <3>8. \A q \in Runs : Honest(q, row[q])' /\ Honest(q, mem[q])'
      BY <1>4, <3>3, <3>4, <3>5 DEF Honest
    <3> QED BY <3>6, <3>7, <3>8
  <2> QED BY <2>1, <2>2
<1>9. ASSUME Mark(h) PROVE Kept
  <2>1. CASE mem[e.run] = NoEnvelope
    <3>1. /\ handler' = [handler EXCEPT ![h].pc = "fetch"]
          /\ e.pc = "mark" /\ UNCHANGED <<packet, row, mem>>
      BY <1>9, <1>a, <2>1 DEF Mark, KeepRows, durable
    <3>2. x.pc = "fetch" /\ x.run = e.run BY <1>1, <1>a, <1>b, <3>1 DEF HandlerRec
    <3>3. HandlerCalm(h)' BY <1>b, <2>1, <3>1, <3>2 DEF HandlerCalm
    <3>4. Matched' BY <1>3, <3>1 DEF Matched
    <3> QED BY <1>4, <3>1, <3>3, <3>4 DEF Honest
  <2>2. CASE mem[e.run] # NoEnvelope
    <3>1. MarkObserved(h, mem[e.run]) /\ e.pc = "mark" /\ UNCHANGED durable
      BY <1>9, <1>a, <2>2 DEF Mark, KeepRows
    <3>2. mem[e.run] \in MaybeEnvelope BY <1>1, <3>1
    <3> HIDE DEF Kept
    <3> QED BY <1>8, <2>2, <3>1, <3>2
  <2> QED BY <2>1, <2>2
<1>10. ASSUME Fetch(h) PROVE Kept
  <2>1. MarkObserved(h, row[e.run]) /\ e.pc = "fetch" /\ UNCHANGED durable
    BY <1>10, <1>a DEF Fetch, KeepRows
  <2>2. row[e.run] \in MaybeEnvelope BY <1>1, <2>1
  <2> HIDE DEF Kept
  <2> QED BY <1>5, <1>7, <1>8, <2>1, <2>2
<1>11. ASSUME SyncObserved(h) PROVE Kept
  <2>1. /\ e.pc = "sync" /\ row' = [row EXCEPT ![e.run] = mem[e.run]]
        /\ handler' = [handler EXCEPT ![h].pc = "load"] /\ UNCHANGED <<packet, mem>>
    BY <1>5, <1>11, <1>a DEF SyncObserved
  <2>2. x.pc = "load" /\ x.run = e.run BY <1>1, <1>a, <1>b, <2>1 DEF HandlerRec
  <2>3. \A q \in Runs : row'[q] = IF q = e.run THEN mem[q] ELSE row[q] BY <1>1, <2>1
  <2>4. HandlerCalm(h)' BY <1>1, <1>5, <1>b, <2>1, <2>2, <2>3 DEF HandlerCalm
  <2>5. Matched' BY <1>3, <2>1, <2>3 DEF Matched
  <2>6. \A q \in Runs : Honest(q, row[q])' /\ Honest(q, mem[q])'
    BY <1>4, <2>1, <2>3 DEF Honest
  <2> QED BY <2>4, <2>5, <2>6
<1>12. ASSUME Load(h) PROVE Kept
  <2>1. /\ e.pc = "load" /\ UNCHANGED <<packet, row, mem>>
        /\ handler' = [handler EXCEPT ![h] =
             IF bound[e.run] # e.packet THEN IdleHandler
             ELSE [e EXCEPT !.pc = "store", !.states = packet[e.run],
                            !.terms = terms[e.run]]]
    BY <1>12, <1>a DEF Load, KeepRows, durable
  <2>2. x.pc = "idle" \/ (x.pc = "store" /\ x.run = e.run /\ x.states = packet[e.run])
    <3>1. IdleHandler.pc = "idle" BY DEF IdleHandler
    <3> QED BY <1>1, <1>b, <2>1, <3>1 DEF HandlerRec
  <2>3. HandlerCalm(h)' BY <1>5, <1>b, <2>1, <2>2 DEF HandlerCalm
  <2>4. Matched' BY <1>3, <2>1 DEF Matched
  <2> QED BY <1>4, <2>1, <2>3, <2>4 DEF Honest
<1>13. ASSUME Store(h) PROVE Kept
  <2>1. /\ e.pc = "store" /\ UNCHANGED <<row, mem>>
        /\ \A q \in Runs : q # e.run => packet'[q] = packet[q]
        /\ handler' = [handler EXCEPT ![h] = IdleHandler]
    BY <1>1, <1>13, <1>a DEF Store
  <2>2. x.pc = "idle"
    <3>1. IdleHandler.pc = "idle" BY DEF IdleHandler
    <3> QED BY <1>1, <1>b, <2>1, <3>1
  <2>3. HandlerCalm(h)' BY <1>b, <2>2 DEF HandlerCalm
  <2>4. Matched' BY <1>3, <2>1 DEF Matched
  <2>5. \A q \in Runs : Honest(q, row[q])' /\ Honest(q, mem[q])'
    BY <1>4, <1>5, <2>1 DEF Honest
  <2> QED BY <2>3, <2>4, <2>5
<1>14. ASSUME NEW r \in Runs, NEW p \in Packets, NEW word \in Words,
              Callback(h, r, p, word)
       PROVE  Kept
  <2>1. /\ e.pc = "idle" /\ UNCHANGED <<packet, row, mem>>
        /\ handler' = [handler EXCEPT ![h] = [IdleHandler EXCEPT
             !.pc = "mark", !.run = r, !.packet = p, !.word = word]]
    BY <1>14, <1>a DEF Callback, durable
  <2>2. x.pc = "mark"
    <3>1. [IdleHandler EXCEPT !.pc = "mark", !.run = r, !.packet = p,
                              !.word = word].pc = "mark"
      BY DEF IdleHandler
    <3> QED BY <1>1, <1>b, <2>1, <3>1
  <2>3. HandlerCalm(h)' BY <1>b, <2>2 DEF HandlerCalm
  <2>4. Matched' BY <1>3, <2>1 DEF Matched
  <2> QED BY <1>4, <2>1, <2>3, <2>4 DEF Honest
<1> HIDE DEF Kept
<1> QED BY <1>6, <1>9, <1>10, <1>11, <1>12, <1>13, <1>14 DEF HandlerStep

LEMMA PushSerial ==
  ASSUME SerialInv, RealInv, NEW g \in Pushes, OnlyPush(g), OnlyPush(g)',
         UNCHANGED <<dispatcher, handler>>,
         PushStep(g) \/ \E hits \in SUBSET registered : Push(g, hits)
  PROVE  Calm' /\ Matched'
<1>a. PICK e : e = push[g] OBVIOUS
<1>b. PICK x : x = push'[g] OBVIOUS
<1>1. /\ push \in [Pushes -> PushRec] /\ e \in PushRec /\ RealPush(e)
      /\ packet \in [Runs -> States]
      /\ mem \in [Runs -> MaybeEnvelope] /\ row \in [Runs -> MaybeEnvelope]
      /\ e.pc \in {"try", "sync", "load", "store"} => e.run \in Runs
  BY <1>a DEF RealInv, BridgeInv, Typed, RowsTyped, ActorsTyped, RealRows, RealActors,
              Good, PushGood
<1>2. \A q \in Runs : Copying(q) => q = e.run /\ e.pc = "sync"
  BY <1>a DEF Copying, OnlyPush
<1>3. \A q \in Runs : \/ mem[q] = NoEnvelope \/ row[q] = mem[q]
                      \/ q = e.run /\ e.pc = "sync"
  BY <1>2 DEF SerialInv, Matched
<1>4. \A q \in Runs : Honest(q, row[q]) /\ Honest(q, mem[q])
  BY DEF SerialInv, Calm
<1>5. /\ e.pc \in {"rows", "next", "try"} =>
           \A y \in e.listed : Pending(y[2]) /\ row[y[1]] = y[2]
      /\ e.pc = "try" => /\ Pending(e.env) /\ row[e.run] = e.env
                         /\ mem[e.run] = e.env
      /\ e.pc = "sync" => e.copy = mem[e.run] /\ ~Pending(mem[e.run])
      /\ e.pc \in {"sync", "load", "store"} =>
           packet[e.run][e.env.packet] # "completed"
      /\ e.pc = "store" => e.states = packet[e.run]
  BY <1>a DEF SerialInv, Calm, PushCalm
<1> DEFINE Kept == /\ \A q \in Runs : Honest(q, row[q])' /\ Honest(q, mem[q])'
                   /\ PushCalm(g)'
                   /\ Matched'
<1>6. Kept => Calm' /\ Matched' BY IdleCalm DEF OnlyPush, Calm
<1>7. ~Pending(NoEnvelope) BY DEF Pending, NoEnvelope
<1>8. ASSUME NEW hits \in SUBSET registered, Push(g, hits) PROVE Kept
  <2>a. PICK l : l = {<<r, mem[r]>> : r \in {s \in Runs : Pending(mem[s])}} OBVIOUS
  <2>1. /\ e.pc = "idle" /\ UNCHANGED <<packet, row, mem>>
        /\ push' = [push EXCEPT ![g] = [IdlePush EXCEPT
             !.pc = "rows", !.hits = hits, !.listed = l]]
    BY <1>8, <1>a, <2>a DEF Push, durable
  <2>2. x.pc = "rows" /\ x.listed = l
    <3>1. PICK y : y = [IdlePush EXCEPT !.pc = "rows", !.hits = hits, !.listed = l]
      OBVIOUS
    <3>2. y.pc = "rows" /\ y.listed = l BY <3>1 DEF IdlePush
    <3> QED BY <1>1, <1>b, <2>1, <3>1, <3>2
  <2>3. \A y \in l : Pending(y[2]) /\ row[y[1]] = y[2] BY <1>3, <1>7, <2>1, <2>a
  <2>4. PushCalm(g)' BY <1>b, <2>1, <2>2, <2>3 DEF PushCalm
  <2>5. Matched' BY <1>3, <2>1 DEF Matched
  <2> QED BY <1>4, <2>1, <2>4, <2>5 DEF Honest
<1>9. ASSUME ListRows(g) PROVE Kept
  <2> DEFINE known == {y[1] : y \in e.listed}
  <2>a. PICK l : l = e.listed \cup {<<r, row[r]>> : r \in {s \in Runs \ known : Pending(row[s])}}
    OBVIOUS
  <2>1. /\ e.pc = "rows" /\ UNCHANGED <<packet, row, mem>>
        /\ push' = [push EXCEPT ![g] = [e EXCEPT !.pc = "next", !.listed = l]]
    BY <1>9, <1>a, <2>a DEF ListRows, KeepRows, durable
  <2>2. x.pc = "next" /\ x.listed = l BY <1>1, <1>b, <2>1 DEF PushRec
  <2>3. \A y \in l : Pending(y[2]) /\ row[y[1]] = y[2] BY <1>5, <2>1, <2>a
  <2>4. PushCalm(g)' BY <1>b, <2>1, <2>2, <2>3 DEF PushCalm
  <2>5. Matched' BY <1>3, <2>1 DEF Matched
  <2> QED BY <1>4, <2>1, <2>4, <2>5 DEF Honest
<1>10. ASSUME GiveUp(g) PROVE Kept
  <2>1. /\ e.pc = "next" /\ UNCHANGED <<packet, row, mem>> /\ x.pc = "idle"
    BY <1>1, <1>10, <1>a, <1>b, IdleFields DEF GiveUp, KeepRows, durable
  <2>2. PushCalm(g)' BY <1>b, <2>1 DEF PushCalm
  <2>3. Matched' BY <1>3, <2>1 DEF Matched
  <2> QED BY <1>4, <2>1, <2>2, <2>3 DEF Honest
<1>11. ASSUME NEW r \in Runs, Take(g, r) PROVE Kept
  <2>1. PICK y \in e.listed :
          /\ y[1] = r /\ mem' = [mem EXCEPT ![r] = y[2]]
          /\ push' = [push EXCEPT ![g] =
               [e EXCEPT !.pc = "try", !.run = r, !.env = y[2],
                         !.listed = e.listed \ {y}]]
    BY <1>11, <1>a DEF Take
  <2>2. e.pc = "next" /\ UNCHANGED <<packet, row>>
    BY <1>11, <1>a DEF Take, KeepRows, durable
  <2>3. /\ x.pc = "try" /\ x.run = r /\ x.env = y[2]
        /\ x.listed = e.listed \ {y}
    BY <1>1, <1>b, <2>1 DEF PushRec
  <2>4. Pending(y[2]) /\ row[r] = y[2] BY <1>5, <2>1, <2>2
  <2>5. mem'[r] = row[r] /\ \A q \in Runs : q # r => mem'[q] = mem[q]
    BY <1>1, <2>1, <2>4
  <2>6. PushCalm(g)' BY <1>5, <1>b, <2>2, <2>3, <2>4, <2>5 DEF PushCalm
  <2>7. Matched' BY <1>3, <2>2, <2>5 DEF Matched
  <2>8. \A q \in Runs : Honest(q, row[q])' /\ Honest(q, mem[q])'
    BY <1>4, <2>2, <2>5 DEF Honest
  <2> QED BY <2>6, <2>7, <2>8
<1>12. ASSUME Try(g) PROVE Kept
  <2>1. e.pc = "try" /\ UNCHANGED <<packet, row>>
    BY <1>12, <1>a DEF Try, KeepRows, durable
  <2>2. CASE Matches(g)
    <3>a. PICK o : o = Patched(mem[e.run], "recovered_github_secondary") OBVIOUS
    <3>1. /\ mem' = [mem EXCEPT ![e.run] = o]
          /\ push' = [push EXCEPT ![g] = [e EXCEPT !.pc = "sync", !.copy = o]]
      BY <1>12, <1>a, <2>2, <3>a DEF Try
    <3>2. x.pc = "sync" /\ x.run = e.run /\ x.copy = o /\ x.env = e.env
      BY <1>1, <1>b, <3>1 DEF PushRec
    <3>3. ~Pending(o)
      <4>1. mem[e.run] \in Envelope BY <1>1, <1>5, <2>1, Marked
      <4> QED BY <4>1, <3>a DEF Patched, Pending, Envelope
    <3>4. packet[e.run][e.env.packet] # "completed"
      BY <1>1, <1>4, <1>5, <2>1 DEF Honest
    <3>5. mem'[e.run] = o /\ \A q \in Runs : q # e.run => mem'[q] = mem[q]
      BY <1>1, <2>1, <3>1
    <3>6. PushCalm(g)' BY <1>b, <2>1, <3>2, <3>3, <3>4, <3>5 DEF PushCalm
    <3>7. Matched'
      <4>1. ASSUME NEW q \in Runs, q = e.run PROVE Copying(q)'
        BY <1>b, <3>2, <4>1 DEF Copying
      <4> QED BY <1>3, <2>1, <3>5, <4>1 DEF Matched
    <3>8. \A q \in Runs : Honest(q, row[q])' /\ Honest(q, mem[q])'
      BY <1>4, <2>1, <3>3, <3>5 DEF Honest
    <3> QED BY <3>6, <3>7, <3>8
  <2>3. CASE ~Matches(g)
    <3>1. push' = [push EXCEPT ![g].pc = "next"] /\ UNCHANGED mem
      BY <1>12, <2>3 DEF Try
    <3>2. x.pc = "next" /\ x.listed = e.listed BY <1>1, <1>a, <1>b, <3>1 DEF PushRec
    <3>3. PushCalm(g)' BY <1>5, <1>b, <2>1, <3>2 DEF PushCalm
    <3>4. Matched' BY <1>3, <2>1, <3>1 DEF Matched
    <3> QED BY <1>4, <2>1, <3>1, <3>3, <3>4 DEF Honest
  <2> QED BY <2>2, <2>3
<1>13. ASSUME SyncRecovered(g) PROVE Kept
  <2>1. /\ e.pc = "sync" /\ row' = [row EXCEPT ![e.run] = mem[e.run]]
        /\ push' = [push EXCEPT ![g].pc = "load"] /\ UNCHANGED <<packet, mem>>
    BY <1>5, <1>13, <1>a DEF SyncRecovered
  <2>2. x.pc = "load" /\ x.run = e.run /\ x.env = e.env
    BY <1>1, <1>a, <1>b, <2>1 DEF PushRec
  <2>3. \A q \in Runs : row'[q] = IF q = e.run THEN mem[q] ELSE row[q] BY <1>1, <2>1
  <2>4. PushCalm(g)' BY <1>5, <1>b, <2>1, <2>2 DEF PushCalm
  <2>5. Matched' BY <1>3, <2>1, <2>3 DEF Matched
  <2>6. \A q \in Runs : Honest(q, row[q])' /\ Honest(q, mem[q])'
    BY <1>4, <2>1, <2>3 DEF Honest
  <2> QED BY <2>4, <2>5, <2>6
<1>14. ASSUME LoadForReview(g) PROVE Kept
  <2>1. /\ e.pc = "load" /\ UNCHANGED <<packet, row, mem>>
        /\ push' = [push EXCEPT ![g] = [e EXCEPT !.pc = "store", !.states = packet[e.run]]]
    BY <1>14, <1>a DEF LoadForReview, KeepRows, durable
  <2>2. x.pc = "store" /\ x.run = e.run /\ x.env = e.env /\ x.states = packet[e.run]
    BY <1>1, <1>b, <2>1 DEF PushRec
  <2>3. PushCalm(g)' BY <1>5, <1>b, <2>1, <2>2 DEF PushCalm
  <2>4. Matched' BY <1>3, <2>1 DEF Matched
  <2> QED BY <1>4, <2>1, <2>3, <2>4 DEF Honest
<1>15. ASSUME Review(g) PROVE Kept
  <2>1. /\ e.pc = "store" /\ UNCHANGED <<row, mem>> /\ x.pc = "idle"
        /\ packet' = [packet EXCEPT ![e.run] =
                        [packet[e.run] EXCEPT ![e.env.packet] = "review_required"]]
    BY <1>1, <1>5, <1>15, <1>a, <1>b, IdleFields DEF Review
  <2>2. \A q \in Runs, o \in Packets :
          packet'[q][o] \in {packet[q][o], "review_required"}
    BY <1>1, <2>1 DEF States
  <2>3. ASSUME NEW q \in Runs, NEW d \in MaybeEnvelope, Honest(q, d)
        PROVE  Honest(q, d)'
    <3>1. Pending(d) => d.packet \in Packets BY Marked DEF Envelope
    <3> QED BY <2>2, <2>3, <3>1, HonestKept
  <2>4. PushCalm(g)' BY <1>b, <2>1 DEF PushCalm
  <2>5. Matched' BY <1>3, <2>1 DEF Matched
  <2> QED BY <1>1, <1>4, <2>1, <2>3, <2>4, <2>5
<1> HIDE DEF Kept
<1> QED BY <1>6, <1>8, <1>9, <1>10, <1>11, <1>12, <1>13, <1>14, <1>15 DEF PushStep

-----------------------------------------------------------------------------
LEMMA BridgeSerialInit == Init => SerialInv
<1> SUFFICES ASSUME Init PROVE SerialInv OBVIOUS
<1>1. /\ \A r \in Runs : dispatcher[r].pc = "idle"
      /\ \A h \in Handlers : handler[h].pc = "idle"
      /\ \A g \in Pushes : push[g].pc = "idle"
  BY IdleFields DEF Init, IdleHandler
<1>2. Alone BY <1>1 DEF Alone
<1>3. \A r \in Runs : row[r] = NoEnvelope /\ mem[r] = NoEnvelope BY DEF Init
<1>4. \A r \in Runs : Honest(r, NoEnvelope) BY DEF Honest, Pending, NoEnvelope
<1>5. Calm
  BY <1>1, <1>3, <1>4 DEF Calm, DispatcherCalm, HandlerCalm, PushCalm
<1> QED BY <1>2, <1>3, <1>5 DEF SerialInv, Matched

\* A crash ends whoever was at work and forgets the memory; what the rows
\* say of envelopes that wait is still true.
LEMMA CrashSerial == SerialInv /\ Crash => SerialInv'
<1> SUFFICES ASSUME SerialInv, Crash PROVE SerialInv' OBVIOUS
<1>1. /\ \A r \in Runs : dispatcher'[r].pc = "idle"
      /\ \A h \in Handlers : handler'[h].pc = "idle"
      /\ \A g \in Pushes : push'[g].pc = "idle"
  BY IdleFields DEF Crash, IdleHandler
<1>2. Alone' BY <1>1 DEF Alone
<1>3. /\ UNCHANGED <<packet, row>> /\ \A r \in Runs : mem'[r] = NoEnvelope
  BY DEF Crash, durable
<1>4. \A r \in Runs : Honest(r, row[r])' /\ Honest(r, mem[r])'
  <2>1. ~Pending(NoEnvelope) BY DEF Pending, NoEnvelope
  <2> QED BY <1>3, <2>1 DEF SerialInv, Calm, Honest
<1>5. Calm' BY <1>1, <1>4, IdleCalm DEF Calm
<1> QED BY <1>2, <1>3, <1>5 DEF SerialInv, Matched

LEMMA BridgeSerialStep ==
  RealInv /\ SerialInv /\ ~overlap /\ [Next]_vars => SerialInv'
<1> SUFFICES ASSUME RealInv, SerialInv, ~overlap, [Next]_vars PROVE SerialInv'
  OBVIOUS
<1>1. BridgeInv /\ Alone BY DEF RealInv, SerialInv
<1>2. Alone' BY <1>1, AloneStep
<1>3. CASE UNCHANGED vars
  BY <1>2, <1>3 DEF vars, SerialInv, Calm, Honest, DispatcherCalm, HandlerCalm,
                    PushCalm, Matched, Copying
<1>4. CASE Crash BY <1>4, CrashSerial
<1>5. ASSUME NEW r \in Runs, DispatcherStep(r) \/ \E p \in Packets : Accept(r, p)
      PROVE  SerialInv'
  BY <1>1, <1>2, <1>5, OnlyOne, DispatcherSerial DEF SerialInv
<1>6. ASSUME NEW h \in Handlers,
             \/ HandlerStep(h)
             \/ \E r \in Runs, p \in Packets, word \in Words : Callback(h, r, p, word)
      PROVE  SerialInv'
  BY <1>1, <1>2, <1>6, OnlyOne, HandlerSerial DEF SerialInv
<1>7. ASSUME NEW g \in Pushes,
             PushStep(g) \/ \E hits \in SUBSET registered : Push(g, hits)
      PROVE  SerialInv'
  BY <1>1, <1>2, <1>7, OnlyOne, PushSerial DEF SerialInv
<1> QED BY <1>3, <1>4, <1>5, <1>6, <1>7 DEF Next, Step

\* In quiet behaviours an envelope that waits is of a packet that is not
\* completed, and memory and row agree but for an actor about to copy the one to
\* the other (recoveryEnvelopeStore.js).
THEOREM BridgeSerial == Spec => [](RealInv /\ (~overlap => SerialInv))
<1>1. Init => RealInv /\ SerialInv BY RealInit, BridgeSerialInit
<1>2. [Next]_vars => UNCHANGED overlap BY DEF Next, vars
<1>3. RealInv /\ (~overlap => SerialInv) /\ [Next]_vars
        => (RealInv /\ (~overlap => SerialInv))'
  BY <1>2, RealStep, BridgeSerialStep
<1> QED BY <1>1, <1>3, PTL DEF Spec

\* What the process believes about the envelope of a run is, whenever everybody
\* is at rest, what a restarted process would read from the row
\* (pendingRecoveryEnvelope.js, recoveryEnvelopeStore.js), for any runs,
\* packets, callbacks and pushes that do not overlap, and any crashes.
THEOREM EnvelopeIsOnTheRow == Spec => []QuietRowMatches
<1>1. (~overlap => SerialInv) => QuietRowMatches
  <2> SUFFICES ASSUME SerialInv, Resting
               PROVE  \A r \in Runs : mem[r] # NoEnvelope => row[r] = mem[r]
    BY DEF QuietRowMatches
  <2>1. \A r \in Runs : ~Copying(r) BY DEF Resting, Copying
  <2> QED BY <2>1 DEF SerialInv, Matched
<1> QED BY <1>1, BridgeSerial, PTL
=============================================================================
