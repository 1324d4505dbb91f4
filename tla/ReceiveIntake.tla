---------------------------- MODULE ReceiveIntake ----------------------------
(***************************************************************************)
(* How a callback of the cloud agent finds the run and packet it is for.   *)
(*                                                                         *)
(* Before a dispatch is triggered, its request id is put in the correlation *)
(* store and its packet in the run's dispatch ledger; after the agent has  *)
(* accepted it, the agent's own ids are added.  A callback names its       *)
(* dispatch by some of these ids, or by run, thread and packet.  It is     *)
(* first correlated, and then committed under each of several candidate    *)
(* request ids until one passes every check or a check forbids to go on.   *)
(*                                                                         *)
(* All runs are of one thread: a re-delegation of a plan repeats packet    *)
(* ids, so two runs may have a packet of the same id.  A step is the code  *)
(* between two awaits; that the packet states are patched from a copy is   *)
(* left to RunLifecycle.                                                   *)
(***************************************************************************)
EXTENDS PacketStates, FiniteSets

CONSTANTS
  Runs, Packets,   \* each run may dispatch each packet once
  Handlers,        \* callbacks that may be in progress together
  Hints,           \* sets of names a callback may use for its dispatch
  Words,           \* status words of the callbacks
  MaxCallbacks,    \* bound: callbacks received in a behaviour
  MaxCrashes,      \* bound: crashes in a behaviour
  Overlap          \* FALSE: an actor starts only when the others are at rest

Name == {"external_run_id", "accepted_external_id", "request_id",
         "run_id", "thread_key", "packet_id"}

ASSUME IntakeAssumption ==
  /\ NoPacket \notin Packets
  /\ Hints \subseteq SUBSET Name /\ Words \subseteq STRING
  /\ {MaxCallbacks, MaxCrashes} \subseteq Nat /\ Overlap \in BOOLEAN

Dispatch   == Runs \X Packets
NoDispatch == <<"no_run", NoPacket>>

VARIABLES
  known,     \* rows of the correlation store: <<kind of id, dispatch>>
  target,    \* target[r]: cursor_dispatch_ledger.target_packet_id
  psm,       \* psm[r]: packet_state_map
  terms,     \* terms[r]: terminal records
  anchor,    \* anchor[r]: provider_structural_closure_packet_id
  dispatcher,\* dispatcher[r]: where the tool invocation of run r is
  triggered, \* dispatches the agent has got
  handler,   \* handler[h]: where a callback is and what it holds
  callbacks, crashes, \* how many there were
  said       \* history: <<dispatch, state>> that callbacks asked for

vars == <<known, target, psm, terms, anchor, dispatcher, triggered, handler,
          callbacks, crashes, said>>
rows == <<target, psm, terms, anchor>>

IdleDispatcher == [pc |-> "idle", packet |-> NoPacket, anchor |-> NoPacket]
IdleHandler ==
  [pc |-> "idle", for |-> NoDispatch, hints |-> {}, word |-> "", try |-> <<>>,
   hit |-> NoDispatch]

Resting ==
  /\ \A r \in Runs : dispatcher[r].pc = "idle"
  /\ \A h \in Handlers : handler[h].pc = "idle"
MayStart == Overlap \/ Resting

Init ==
  /\ known = {} /\ triggered = {} /\ said = {}
  /\ target = [r \in Runs |-> NoPacket]
  /\ psm = [r \in Runs |-> [p \in Packets |-> "queued"]]
  /\ terms = [r \in Runs |-> [p \in Packets |-> NoRec]]
  /\ anchor = [r \in Runs |-> NoPacket]
  /\ dispatcher = [r \in Runs |-> IdleDispatcher]
  /\ handler = [h \in Handlers |-> IdleHandler]
  /\ callbacks = 0 /\ crashes = 0

-----------------------------------------------------------------------------
(* The dispatcher. *)

\* The run is read, and the request id goes into the correlation store.
BadBind(r, p) ==
  /\ dispatcher[r].pc = "idle" /\ MayStart
  /\ psm[r][p] = "queued"
  /\ dispatcher' = [dispatcher EXCEPT ![r] =
                      [pc |-> "ledger", packet |-> p, anchor |-> anchor[r]]]
  /\ UNCHANGED <<known, rows, triggered, handler, callbacks, crashes, said>>
Bind(r, p) ==
  /\ dispatcher[r].pc = "idle" /\ MayStart
  /\ psm[r][p] = "queued"
  /\ \/ /\ dispatcher' = [dispatcher EXCEPT ![r] =
                            [pc |-> "ledger", packet |-> p, anchor |-> anchor[r]]]
        /\ known' = known \cup {<<"request_id", <<r, p>>>>}
        /\ UNCHANGED psm
     \/ /\ psm' = [psm EXCEPT ![r][p] = "blocked"]
        /\ UNCHANGED <<dispatcher, known>>
  /\ UNCHANGED <<target, terms, anchor, triggered, handler, callbacks, crashes, said>>

\* The ledger now names this packet, also while an earlier one is still out;
\* the anchor is written back as it was read.
BindLedger(r) ==
  LET d == dispatcher[r]
  IN  /\ d.pc = "ledger"
      /\ target' = [target EXCEPT ![r] = d.packet]
      /\ anchor' = [anchor EXCEPT ![r] = d.anchor]
      /\ dispatcher' = [dispatcher EXCEPT ![r].pc = "trigger"]
      /\ UNCHANGED <<known, psm, terms, triggered, handler, callbacks, crashes, said>>

Trigger(r) ==
  LET d == dispatcher[r]
  IN  /\ d.pc = "trigger"
      /\ \/ /\ triggered' = triggered \cup {<<r, d.packet>>}
            /\ psm' = [psm EXCEPT ![r][d.packet] = "running"]
            /\ dispatcher' = [dispatcher EXCEPT ![r].pc = "record"]
         \/ /\ psm' = [psm EXCEPT ![r][d.packet] = "review_required"]
            /\ dispatcher' = [dispatcher EXCEPT ![r] = IdleDispatcher]
            /\ UNCHANGED triggered
      /\ UNCHANGED <<known, target, terms, anchor, handler, callbacks, crashes, said>>

\* The run is read again and the agent's ids are stored, each unless the store
\* refuses it; the request id is in the store already.
Record(r) ==
  LET d == dispatcher[r]
  IN  /\ d.pc = "record"
      /\ \E ids \in SUBSET {"external_run_id", "accepted_external_id"} :
           known' = known \cup {<<id, <<r, d.packet>>>> : id \in ids}
      /\ dispatcher' = [dispatcher EXCEPT ![r] =
                          [@ EXCEPT !.pc = "anchor", !.anchor = anchor[r]]]
      /\ UNCHANGED <<rows, triggered, handler, callbacks, crashes, said>>

RecordAnchor(r) ==
  /\ dispatcher[r].pc = "anchor"
  /\ anchor' = [anchor EXCEPT ![r] = dispatcher[r].anchor]
  /\ dispatcher' = [dispatcher EXCEPT ![r] = IdleDispatcher]
  /\ UNCHANGED <<known, target, psm, terms, triggered, handler, callbacks, crashes, said>>

-----------------------------------------------------------------------------
(* Correlation of a callback. *)

\* The agent reports on a dispatch it got.  The payload gate wants an id of the
\* agent or of the request, the thread, or run and packet.
Acceptable(hints) ==
  \/ hints \cap {"external_run_id", "accepted_external_id", "request_id", "thread_key"} # {}
  \/ {"run_id", "packet_id"} \subseteq hints

Callback(h, d, hints, word) ==
  /\ handler[h].pc = "idle" /\ MayStart
  /\ d \in triggered /\ callbacks < MaxCallbacks
  /\ Acceptable(hints)
  /\ handler' = [handler EXCEPT ![h] = [IdleHandler EXCEPT
                   !.pc = "correlate", !.for = d, !.hints = hints, !.word = word]]
  /\ callbacks' = callbacks + 1
  /\ said' = said \cup {<<d, DesiredState(word)>>}
  /\ UNCHANGED <<known, rows, dispatcher, triggered, crashes>>

\* A request id stands in for a missing accepted id.
AcceptedKey(e) ==
  IF "accepted_external_id" \in e.hints THEN <<"accepted_external_id", e.for>>
                                        ELSE <<"request_id", e.for>>
HasAccepted(e) == e.hints \cap {"accepted_external_id", "request_id"} # {}

\* Rows that match by run and packet, the packet taken from the ledger when
\* the callback names none, and by thread and packet, whichever run it is.
ByRun(e) ==
  LET p == IF "packet_id" \in e.hints THEN e.for[2] ELSE target[e.for[1]]
  IN  {x \in known : /\ "run_id" \in e.hints /\ x[2][1] = e.for[1]
                     /\ p # NoPacket => x[2][2] = p}
ByThread(e) ==
  {x \in known : {"thread_key", "packet_id"} \subseteq e.hints /\ x[2][2] = e.for[2]}

Correlated(e) ==
  \/ "external_run_id" \in e.hints /\ <<"external_run_id", e.for>> \in known
  \/ HasAccepted(e) /\ AcceptedKey(e) \in known
  \/ ByRun(e) # {} \/ ByThread(e) # {}

\* A callback without correlation is answered 202 and dropped.  The others
\* get their candidates: accepted id, request id, and the request the ledger
\* of the named run is waiting for (its pending mark is never taken back).
Candidates(e) ==
  LET accepted == IF HasAccepted(e) THEN <<AcceptedKey(e)>> ELSE <<>>
      request  == IF {"accepted_external_id", "request_id"} \subseteq e.hints
                  THEN <<<<"request_id", e.for>>>> ELSE <<>>
      awaited  == <<"request_id", <<e.for[1], target[e.for[1]]>>>>
      ledger   == IF /\ "run_id" \in e.hints /\ target[e.for[1]] # NoPacket
                     /\ awaited \notin ToSet(accepted \o request)
                  THEN <<awaited>> ELSE <<>>
  IN  accepted \o request \o ledger

Correlate(h) ==
  LET e == handler[h]
  IN  /\ e.pc = "correlate"
      /\ handler' = [handler EXCEPT ![h] =
                       IF Correlated(e) THEN [e EXCEPT !.pc = "try", !.try = Candidates(e)]
                                        ELSE IdleHandler]
      /\ UNCHANGED <<known, rows, dispatcher, triggered, callbacks, crashes, said>>

-----------------------------------------------------------------------------
(* Commit under the first candidate. *)

\* The packet the callback names, if it names one, is the candidate's.
BadSamePacket(e, d) == TRUE
SamePacket(e, d) == "packet_id" \in e.hints => e.for[2] = d[2]

\* These failures let the next candidate have its turn: an unknown id, a
\* ledger that names another packet, an agent's run id of another dispatch.
Next1(e) ==
  LET k == Head(e.try)
  IN  \/ k \notin known
      \/ /\ SamePacket(e, k[2])
         /\ \/ target[k[2][1]] \notin {k[2][2], NoPacket}
            \/ /\ "external_run_id" \in e.hints
               /\ <<"external_run_id", e.for>> \in known
               /\ e.for # k[2]

Passes(e) ==
  LET k == Head(e.try)
  IN  ~Next1(e) /\ SamePacket(e, k[2]) /\ target[k[2][1]] = k[2][2]

\* A success that is anchored and in place is not committed again.
Repeated(e, d) ==
  /\ Bucket(e.word) = "positive_terminal"
  /\ anchor[d[1]] = d[2] /\ psm[d[1]][d[2]] = "completed"

TryNext(h) ==
  LET e == handler[h]
  IN  /\ e.pc = "try" /\ e.try # <<>>
      /\ handler' = [handler EXCEPT ![h] =
           IF Next1(e) THEN [e EXCEPT !.try = Tail(e.try)]
           ELSE IF Passes(e) /\ ~Repeated(e, Head(e.try)[2])
           THEN [e EXCEPT !.pc = "commit", !.hit = Head(e.try)[2]]
           ELSE IdleHandler]
      /\ UNCHANGED <<known, rows, dispatcher, triggered, callbacks, crashes, said>>

NoCandidate(h) ==
  /\ handler[h].pc = "try" /\ handler[h].try = <<>>
  /\ handler' = [handler EXCEPT ![h] = IdleHandler]
  /\ UNCHANGED <<known, rows, dispatcher, triggered, callbacks, crashes, said>>

Commit(h) ==
  LET e      == handler[h]
      d      == e.hit
      answer == Authority(psm[d[1]][d[2]], DesiredState(e.word), 1, terms[d[1]][d[2]])
  IN  /\ e.pc = "commit"
      /\ IF answer.accept
         THEN /\ psm' = [psm EXCEPT ![d[1]][d[2]] = answer.state]
              /\ terms' = [terms EXCEPT ![d[1]][d[2]] = answer.rec]
         ELSE UNCHANGED <<psm, terms>>
      /\ handler' = [handler EXCEPT ![h] =
           IF answer.accept /\ DesiredState(e.word) \in TerminalStates
           THEN [e EXCEPT !.pc = "anchor"] ELSE IdleHandler]
      /\ UNCHANGED <<known, target, anchor, dispatcher, triggered, callbacks, crashes, said>>

Anchor(h) ==
  LET d == handler[h].hit
  IN  /\ handler[h].pc = "anchor"
      /\ anchor' = [anchor EXCEPT ![d[1]] = d[2]]
      /\ handler' = [handler EXCEPT ![h] = IdleHandler]
      /\ UNCHANGED <<known, target, psm, terms, dispatcher, triggered, callbacks,
                     crashes, said>>

\* The correlation store and the rows are durable, the actors are not.
Crash ==
  /\ crashes < MaxCrashes
  /\ crashes' = crashes + 1
  /\ dispatcher' = [r \in Runs |-> IdleDispatcher]
  /\ handler' = [h \in Handlers |-> IdleHandler]
  /\ UNCHANGED <<known, rows, triggered, callbacks, said>>

-----------------------------------------------------------------------------
DispatcherStep(r) == BindLedger(r) \/ Trigger(r) \/ Record(r) \/ RecordAnchor(r)
HandlerStep(h) ==
  Correlate(h) \/ TryNext(h) \/ NoCandidate(h) \/ Commit(h) \/ Anchor(h)

Next ==
  \/ \E r \in Runs : DispatcherStep(r) \/ \E p \in Packets : Bind(r, p)
  \/ \E h \in Handlers :
       \/ HandlerStep(h)
       \/ \E d \in Dispatch, hints \in Hints, word \in Words : Callback(h, d, hints, word)
  \/ Crash

Spec == Init /\ [][Next]_vars

\* Every await of an actor returns.
FairSpec ==
  /\ Spec
  /\ \A r \in Runs : WF_vars(DispatcherStep(r))
  /\ \A h \in Handlers : WF_vars(HandlerStep(h))

-----------------------------------------------------------------------------
TypeOK ==
  /\ known \subseteq Name \X Dispatch
  /\ target \in [Runs -> Packets \cup {NoPacket}]
  /\ psm \in [Runs -> [Packets -> PacketState]]
  /\ anchor \in [Runs -> Packets \cup {NoPacket}]
  /\ triggered \subseteq Dispatch
  /\ \A r \in Runs :
       /\ dispatcher[r].pc \in {"idle", "ledger", "trigger", "record", "anchor"}
       /\ dispatcher[r].packet \in Packets \cup {NoPacket}
       /\ dispatcher[r].anchor \in Packets \cup {NoPacket}
  /\ \A h \in Handlers :
       /\ handler[h].pc \in {"idle", "correlate", "try", "commit", "anchor"}
       /\ handler[h].for \in Dispatch \cup {NoDispatch}
       /\ handler[h].hit \in Dispatch \cup {NoDispatch}
       /\ ToSet(handler[h].try) \subseteq Name \X Dispatch
       /\ Len(handler[h].try) <= 3

\* A callback moves only the packet of the dispatch it is about, although it
\* is committed under other ids than the ones it came with, an earlier packet's
\* callback may arrive when the ledger names a later one, and runs of the
\* thread share packet ids (COS_vNext13_77: a packet is patched only when the
\* callback's keys, the correlation and the ledger agree).  The code keeps this
\* as long as every callback names its packet.
ClaimsStayHome ==
  \A d \in Dispatch :
    psm[d[1]][d[2]] \in TerminalStates => <<d, psm[d[1]][d[2]]>> \in said

\* A terminal callback that carries the request id of the dispatch the ledger
\* names, and no accepted id (which hides the request's until it is recorded),
\* settles its packet, however early it comes: also before the agent's ids are
\* recorded, and while other packets and runs are dispatched (after the last
\* crash, unless the ledger moves on).
CallbackLands ==
  \A h \in Handlers, d \in Dispatch :
    (/\ crashes = MaxCrashes
     /\ handler[h].pc = "correlate" /\ handler[h].for = d
     /\ "request_id" \in handler[h].hints
     /\ "accepted_external_id" \notin handler[h].hints
     /\ DesiredState(handler[h].word) \in TerminalStates)
      ~> (psm[d[1]][d[2]] \in TerminalStates \/ target[d[1]] # d[2])
=============================================================================
