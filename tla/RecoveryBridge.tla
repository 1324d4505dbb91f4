--------------------------- MODULE RecoveryBridge ---------------------------
(***************************************************************************)
(* The second way a dispatched packet comes to rest: when the cloud agent  *)
(* accepts a packet, the run gets a recovery envelope, and a GitHub push   *)
(* that touches the packet's files moves the packet to "review_required"   *)
(* as long as no callback of the provider has been seen.                   *)
(*                                                                         *)
(* The envelope lives twice, in the memory of the process (one per run)    *)
(* and on the run's durable row.  Dispatchers, callback handlers and push  *)
(* handlers change the memory first and then copy it to the row by a patch *)
(* that takes a while; pushes read both.  A step is the code between two   *)
(* awaits.  One process; its memory is lost in a crash.                    *)
(***************************************************************************)
EXTENDS PacketStates, FiniteSets

CONSTANTS
  Runs, Packets,   \* each run hands some of the packets to the cloud agent
  Handlers,        \* callbacks that may be in progress together
  Pushes,          \* pushes that may be in progress together
  Words,           \* status words of the callbacks
  MaxAccepted,     \* bound: packets out of the queue at the same time
  MaxCallbacks,    \* bound: callbacks received in a behaviour
  MaxPushes,       \* bound: pushes received in a behaviour
  MaxCrashes       \* bound: crashes in a behaviour

ASSUME BridgeAssumption ==
  /\ NoPacket \notin Packets
  /\ Words \subseteq STRING
  /\ {MaxAccepted, MaxCallbacks, MaxPushes, MaxCrashes} \subseteq Nat

VARIABLES
  packet,     \* packet[r]: packet_state_map of the row
  terms,      \* terms[r]: terminal records of the row
  bound,      \* bound[r]: the packet the dispatch ledger of the row names
  row,        \* row[r]: recovery_envelope_pending of the row
  mem,        \* mem[r]: the envelope in memory (byRunId)
  dispatcher, \* dispatcher[r]: where the tool invocation of run r is
  handler,    \* handler[h]: where a callback is and what it holds
  push,       \* push[g]: where a push is and what it holds
  callbacks, pushes, crashes, \* how many there were
  registered, \* history: dispatches <<r, p>> that got an envelope
  pushed,     \* history: dispatches whose files some push touched
  overlap     \* FALSE: a quiet behaviour, an actor starts only when the others rest

vars == <<packet, terms, bound, row, mem, dispatcher, handler, push,
          callbacks, pushes, crashes, registered, pushed, overlap>>

durable == <<packet, terms, bound, row>>
counts  == <<callbacks, pushes, crashes>>
history == <<registered, pushed>>
actors  == <<dispatcher, handler, push>>

Dispatch == Runs \X Packets

-----------------------------------------------------------------------------
(* Envelopes: NoEnvelope stands for null. *)

EnvelopeStatus == {"pending_callback", "primary_callback_observed",
                   "recovered_github_secondary"}
NoEnvelope == [packet |-> NoPacket, status |-> "none"]
Envelope   == [packet : Packets, status : EnvelopeStatus]
Pending(e) == e.status = "pending_callback"

\* A status is patched on what the memory holds by then.
Patched(e, status) == [e EXCEPT !.status = status]

IdleDispatcher == [pc |-> "idle", copy |-> NoEnvelope]
IdleHandler ==
  [pc |-> "idle", run |-> "", packet |-> NoPacket, word |-> "", copy |-> NoEnvelope,
   states |-> [p \in Packets |-> "queued"], terms |-> [p \in Packets |-> NoRec]]
IdlePush ==
  [pc |-> "idle", hits |-> {}, listed |-> {}, run |-> "", env |-> NoEnvelope,
   copy |-> NoEnvelope, states |-> [p \in Packets |-> "queued"]]

Resting ==
  /\ \A r \in Runs : dispatcher[r].pc = "idle"
  /\ \A h \in Handlers : handler[h].pc = "idle"
  /\ \A g \in Pushes : push[g].pc = "idle"
MayStart == overlap \/ Resting

Init ==
  /\ packet = [r \in Runs |-> [p \in Packets |-> "queued"]]
  /\ terms = [r \in Runs |-> [p \in Packets |-> NoRec]]
  /\ bound = [r \in Runs |-> NoPacket]
  /\ row = [r \in Runs |-> NoEnvelope]
  /\ mem = [r \in Runs |-> NoEnvelope]
  /\ dispatcher = [r \in Runs |-> IdleDispatcher]
  /\ handler = [h \in Handlers |-> IdleHandler]
  /\ push = [g \in Pushes |-> IdlePush]
  /\ callbacks = 0 /\ pushes = 0 /\ crashes = 0
  /\ registered = {} /\ pushed = {}
  /\ overlap \in BOOLEAN

\* In these steps nothing changes but the memory and the actor itself.
KeepRows == UNCHANGED <<durable, counts, history>>

-----------------------------------------------------------------------------
(* The dispatcher. *)

Accepted == {d \in Dispatch : packet[d[1]][d[2]] # "queued"}

\* The cloud agent accepts packet p; the ledger was bound before the trigger.
Accept(r, p) ==
  /\ dispatcher[r].pc = "idle" /\ MayStart
  /\ packet[r][p] = "queued" /\ Cardinality(Accepted) < MaxAccepted
  /\ packet' = [packet EXCEPT ![r][p] = "running"]
  /\ bound' = [bound EXCEPT ![r] = p]
  /\ dispatcher' = [dispatcher EXCEPT ![r].pc = "register"]
  /\ UNCHANGED <<terms, row, mem, handler, push, counts, history>>

\* The envelope replaces the one of an earlier packet of the run.
Register(r) ==
  LET e == [packet |-> bound[r], status |-> "pending_callback"]
  IN  /\ dispatcher[r].pc = "register"
      /\ mem' = [mem EXCEPT ![r] = e]
      /\ dispatcher' = [dispatcher EXCEPT ![r] = [pc |-> "sync", copy |-> e]]
      /\ registered' = registered \cup {<<r, bound[r]>>}
      /\ UNCHANGED <<durable, handler, push, counts, pushed>>

\* No repository, no paths, or a strict narrow patch: no envelope.
DoNotRegister(r) ==
  /\ dispatcher[r].pc = "register"
  /\ dispatcher' = [dispatcher EXCEPT ![r] = IdleDispatcher]
  /\ UNCHANGED <<mem, handler, push>> /\ KeepRows

SyncRegistered(r) ==
  /\ dispatcher[r].pc = "sync"
  /\ row' = [row EXCEPT ![r] = dispatcher[r].copy]
  /\ dispatcher' = [dispatcher EXCEPT ![r] = IdleDispatcher]
  /\ UNCHANGED <<packet, terms, bound, mem, handler, push, counts, history>>

-----------------------------------------------------------------------------
(* A callback of the cloud agent, correlated to its run and packet. *)

Callback(h, r, p, word) ==
  /\ handler[h].pc = "idle" /\ MayStart
  /\ packet[r][p] # "queued" /\ callbacks < MaxCallbacks
  /\ handler' = [handler EXCEPT ![h] = [IdleHandler EXCEPT
                   !.pc = "mark", !.run = r, !.packet = p, !.word = word]]
  /\ callbacks' = callbacks + 1
  /\ UNCHANGED <<durable, mem, dispatcher, push, pushes, crashes, history>>

\* Whatever the callback says and whichever packet of the run it is for, the
\* envelope of the run is marked: in memory at once, on the row by the copy
\* taken here.  A process that knows no envelope fetches the row's.
MarkObserved(h, e) ==
  LET r        == handler[h].run
      observed == Patched(e, "primary_callback_observed")
  IN  IF e = NoEnvelope
      THEN /\ handler' = [handler EXCEPT ![h].pc = "load"]
           /\ UNCHANGED mem
      ELSE /\ mem' = [mem EXCEPT ![r] = observed]
           /\ handler' = [handler EXCEPT ![h] = [@ EXCEPT !.pc = "sync",
                                                          !.copy = observed]]

BadMark(h) ==
  /\ handler[h].pc = "mark"
  /\ handler' = [handler EXCEPT ![h].pc = "load"]
  /\ UNCHANGED <<mem, dispatcher, push>> /\ KeepRows
Mark(h) ==
  /\ handler[h].pc = "mark"
  /\ IF mem[handler[h].run] = NoEnvelope
     THEN /\ handler' = [handler EXCEPT ![h].pc = "fetch"]
          /\ UNCHANGED mem
     ELSE MarkObserved(h, mem[handler[h].run])
  /\ UNCHANGED <<dispatcher, push>> /\ KeepRows

Fetch(h) ==
  /\ handler[h].pc = "fetch"
  /\ MarkObserved(h, row[handler[h].run])
  /\ UNCHANGED <<dispatcher, push>> /\ KeepRows

SyncObserved(h) ==
  /\ handler[h].pc = "sync"
  /\ row' = [row EXCEPT ![handler[h].run] = handler[h].copy]
  /\ handler' = [handler EXCEPT ![h].pc = "load"]
  /\ UNCHANGED <<packet, terms, bound, mem, dispatcher, push, counts, history>>

\* Only a callback for the packet the ledger names is committed.
Load(h) ==
  LET e == handler[h]
  IN  /\ e.pc = "load"
      /\ handler' = [handler EXCEPT ![h] =
                       IF bound[e.run] # e.packet THEN IdleHandler
                       ELSE [e EXCEPT !.pc = "store", !.states = packet[e.run],
                                      !.terms = terms[e.run]]]
      /\ UNCHANGED <<mem, dispatcher, push>> /\ KeepRows

Store(h) ==
  LET e      == handler[h]
      answer == Authority(e.states[e.packet], DesiredState(e.word), 1, e.terms[e.packet])
  IN  /\ e.pc = "store"
      /\ IF answer.accept
         THEN /\ packet' = [packet EXCEPT ![e.run] =
                              [e.states EXCEPT ![e.packet] = answer.state]]
              /\ terms' = [terms EXCEPT ![e.run] =
                             [e.terms EXCEPT ![e.packet] = answer.rec]]
         ELSE UNCHANGED <<packet, terms>>
      /\ handler' = [handler EXCEPT ![h] = IdleHandler]
      /\ UNCHANGED <<bound, row, mem, dispatcher, push, counts, history>>

-----------------------------------------------------------------------------
(* A push no correlation of its own was found for. *)

\* hits are the registered dispatches that match the push: same repository,
\* one of their files touched, registered before the push and at most 48
\* hours ago, branches compatible.  The memory is listed at once.
Push(g, hits) ==
  /\ push[g].pc = "idle" /\ MayStart
  /\ pushes < MaxPushes
  /\ push' = [push EXCEPT ![g] = [IdlePush EXCEPT
                !.pc = "rows", !.hits = hits,
                !.listed = {<<r, mem[r]>> : r \in {s \in Runs : Pending(mem[s])}}]]
  /\ pushes' = pushes + 1
  /\ pushed' = pushed \cup hits
  /\ UNCHANGED <<durable, mem, dispatcher, handler, callbacks, crashes, registered>>

\* Rows add the runs the list does not have; a row's pending envelope counts
\* also where the memory knows better.  The Map's order (order of
\* registration, rows last) is left open.
BadListRows(g) ==
  /\ push[g].pc = "rows"
  /\ push' = [push EXCEPT ![g].pc = "next"]
  /\ UNCHANGED <<mem, dispatcher, handler>> /\ KeepRows
BadListAll(g) ==
  LET known == {x[1] : x \in push[g].listed}
  IN  /\ push[g].pc = "rows"
      /\ push' = [push EXCEPT ![g] = [@ EXCEPT
           !.pc = "next",
           !.listed = push[g].listed \cup
             {<<r, row[r]>> : r \in {s \in Runs \ known : row[s] # NoEnvelope}}]]
      /\ UNCHANGED <<mem, dispatcher, handler>> /\ KeepRows
ListRows(g) ==
  LET known == {x[1] : x \in push[g].listed}
  IN  /\ push[g].pc = "rows"
      /\ push' = [push EXCEPT ![g] = [@ EXCEPT
           !.pc = "next",
           !.listed = push[g].listed \cup
             {<<r, row[r]>> : r \in {s \in Runs \ known : Pending(row[s])}}]]
      /\ UNCHANGED <<mem, dispatcher, handler>> /\ KeepRows

\* Each listed envelope is put (back) into the memory as it was listed, and
\* then its run is awaited.
Take(g, r) ==
  /\ push[g].pc = "next"
  /\ \E x \in push[g].listed :
       /\ x[1] = r
       /\ mem' = [mem EXCEPT ![r] = x[2]]
       /\ push' = [push EXCEPT ![g] =
            [@ EXCEPT !.pc = "try", !.run = r, !.env = x[2],
                      !.listed = push[g].listed \ {x}]]
  /\ UNCHANGED <<dispatcher, handler>> /\ KeepRows

GiveUp(g) ==
  /\ push[g].pc = "next" /\ push[g].listed = {}
  /\ push' = [push EXCEPT ![g] = IdlePush]
  /\ UNCHANGED <<mem, dispatcher, handler>> /\ KeepRows

\* A match is marked as recovered on what the memory holds by now.
BadMatches(g) == TRUE
Matches(g) == <<push[g].run, push[g].env.packet>> \in push[g].hits

BadTry(g) ==
  LET r         == push[g].run
      recovered == Patched(mem[r], "recovered_github_secondary")
  IN  /\ push[g].pc = "try"
      /\ push' = [push EXCEPT ![g].pc = IF Matches(g) THEN "load" ELSE "next"]
      /\ mem' = IF Matches(g) THEN [mem EXCEPT ![r] = recovered] ELSE mem
      /\ UNCHANGED <<dispatcher, handler>> /\ KeepRows
Try(g) ==
  LET r         == push[g].run
      recovered == Patched(mem[r], "recovered_github_secondary")
  IN  /\ push[g].pc = "try"
      /\ IF Matches(g)
         THEN /\ mem' = [mem EXCEPT ![r] = recovered]
              /\ push' = [push EXCEPT ![g] = [@ EXCEPT !.pc = "sync", !.copy = recovered]]
         ELSE /\ push' = [push EXCEPT ![g].pc = "next"]
              /\ UNCHANGED mem
      /\ UNCHANGED <<dispatcher, handler>> /\ KeepRows

SyncRecovered(g) ==
  /\ push[g].pc = "sync"
  /\ row' = [row EXCEPT ![push[g].run] = push[g].copy]
  /\ push' = [push EXCEPT ![g].pc = "load"]
  /\ UNCHANGED <<packet, terms, bound, mem, dispatcher, handler, counts, history>>

LoadForReview(g) ==
  /\ push[g].pc = "load"
  /\ push' = [push EXCEPT ![g] = [@ EXCEPT !.pc = "store", !.states = packet[push[g].run]]]
  /\ UNCHANGED <<mem, dispatcher, handler>> /\ KeepRows

\* The packet of the listed envelope goes to review, whatever it is by now;
\* its terminal record is left alone.
Review(g) ==
  LET e == push[g]
  IN  /\ e.pc = "store"
      /\ packet' = [packet EXCEPT ![e.run] =
                      [e.states EXCEPT ![e.env.packet] = "review_required"]]
      /\ push' = [push EXCEPT ![g] = IdlePush]
      /\ UNCHANGED <<terms, bound, row, mem, dispatcher, handler, counts, history>>

-----------------------------------------------------------------------------
Crash ==
  /\ crashes < MaxCrashes
  /\ crashes' = crashes + 1
  /\ mem' = [r \in Runs |-> NoEnvelope]
  /\ dispatcher' = [r \in Runs |-> IdleDispatcher]
  /\ handler' = [h \in Handlers |-> IdleHandler]
  /\ push' = [g \in Pushes |-> IdlePush]
  /\ UNCHANGED <<durable, callbacks, pushes, history>>

DispatcherStep(r) == Register(r) \/ DoNotRegister(r) \/ SyncRegistered(r)
HandlerStep(h) == Mark(h) \/ Fetch(h) \/ SyncObserved(h) \/ Load(h) \/ Store(h)
PushStep(g) ==
  \/ ListRows(g) \/ GiveUp(g) \/ Try(g) \/ SyncRecovered(g)
  \/ LoadForReview(g) \/ Review(g)
  \/ \E r \in Runs : Take(g, r)

Step ==
  \/ \E r \in Runs : DispatcherStep(r) \/ \E p \in Packets : Accept(r, p)
  \/ \E h \in Handlers :
       \/ HandlerStep(h)
       \/ \E r \in Runs, p \in Packets, word \in Words : Callback(h, r, p, word)
  \/ \E g \in Pushes : \/ PushStep(g)
                       \/ \E hits \in SUBSET registered : Push(g, hits)
  \/ Crash

Next == Step /\ UNCHANGED overlap

Spec == Init /\ [][Next]_vars

\* Every await of an actor returns.
FairSpec ==
  /\ Spec
  /\ \A r \in Runs : WF_actors(DispatcherStep(r))
  /\ \A h \in Handlers : WF_actors(HandlerStep(h))
  /\ \A g \in Pushes : WF_actors(PushStep(g))

-----------------------------------------------------------------------------
States == [Packets -> PacketState]
MaybeEnvelope == Envelope \cup {NoEnvelope}

TypeOK ==
  /\ packet \in [Runs -> States]
  /\ bound \in [Runs -> Packets \cup {NoPacket}]
  /\ row \in [Runs -> MaybeEnvelope]
  /\ mem \in [Runs -> MaybeEnvelope]
  /\ \A r \in Runs : /\ dispatcher[r].pc \in {"idle", "register", "sync"}
                     /\ dispatcher[r].copy \in MaybeEnvelope
  /\ \A h \in Handlers :
       /\ handler[h].pc \in {"idle", "mark", "fetch", "sync", "load", "store"}
       /\ handler[h].copy \in MaybeEnvelope
       /\ handler[h].states \in States
  /\ \A g \in Pushes :
       /\ push[g].pc \in {"idle", "rows", "next", "try", "sync", "load", "store"}
       /\ push[g].listed \subseteq Runs \X Envelope
       /\ push[g].env \in MaybeEnvelope
       /\ push[g].copy \in MaybeEnvelope
       /\ push[g].states \in States
  /\ registered \subseteq Dispatch /\ pushed \subseteq Dispatch
  /\ overlap \in BOOLEAN

\* A packet goes to review only for a push that touched its own files, also
\* when pushes, callbacks and later packets of the run overlap and envelopes
\* are replaced, copied late or put back.
ReviewIsEarned ==
  \A r \in Runs, p \in Packets :
    packet[r][p] = "review_required" => <<r, p>> \in pushed

\* A packet comes back to review only by way of an envelope that still waited:
\* once the packet is past the queue and no pending envelope of it is left on
\* the row, in the memory or with an actor at work, and no actor is about to
\* write back an older state of it, no later dispatch, callback, push or crash,
\* however they overlap, sends it to review (tryGithubPushSecondaryRecovery
\* takes pending envelopes only, but never looks at the packet).
Offers(e, p) == Pending(e) /\ e.packet = p
Past(states, p) == states[p] \notin {"queued", "review_required"}

Settled(r, p) ==
  /\ Past(packet[r], p) /\ ~Offers(row[r], p) /\ ~Offers(mem[r], p)
  /\ dispatcher[r].pc = "register" => bound[r] # p
  /\ dispatcher[r].pc = "sync" => ~Offers(dispatcher[r].copy, p)
  /\ \A h \in Handlers : handler[h].run = r =>
       /\ handler[h].pc = "sync" => ~Offers(handler[h].copy, p)
       /\ handler[h].pc = "store" => Past(handler[h].states, p)
  /\ \A g \in Pushes :
       /\ \A x \in push[g].listed : x[1] = r => x[2].packet # p
       /\ push[g].run = r =>
            /\ push[g].pc \in {"try", "sync", "load", "store"} => push[g].env.packet # p
            /\ push[g].pc = "sync" => ~Offers(push[g].copy, p)
            /\ push[g].pc = "store" => Past(push[g].states, p)

SettledStays == [][\A r \in Runs, p \in Packets : Settled(r, p) => Settled(r, p)']_vars

\* Secondary recovery never undoes what the provider settled: once a packet is
\* completed no push brings it back to review (COS_vNext13_58: after a callback
\* "push recovery no longer applies").
Undone(r, p) == packet[r][p] = "completed" /\ packet'[r][p] = "review_required"
PushYields == [][\A r \in Runs, p \in Packets : ~Undone(r, p)]_vars

\* The code keeps that in quiet behaviours, also when a crash separates the
\* marks in the memory and on the row from each other and from the commit.
QuietPushYields == [][~overlap => \A r \in Runs, p \in Packets : ~Undone(r, p)]_vars

\* In quiet behaviours, when everybody is at rest, what the process believes
\* about a run's envelope is what a restarted process would read from the row.
QuietRowMatches ==
  ~overlap /\ Resting => \A r \in Runs : mem[r] # NoEnvelope => row[r] = mem[r]

\* A push that touches the files of just one dispatch settles the envelope of
\* that dispatch, if it is pending on the row, also when the process that
\* registered it is gone (once there are no more crashes), and whatever else
\* is at work meanwhile.  Only an envelope of another packet of the run, which
\* the memory may hold in its stead after a late put-back, hides it.
Awaited(d) == Pending(row[d[1]]) /\ row[d[1]].packet = d[2]
Hidden(g, d) == \E x \in push[g].listed : x[1] = d[1] /\ x[2].packet # d[2]

PushSettles ==
  \A g \in Pushes, d \in Dispatch :
    (/\ crashes = MaxCrashes /\ push[g].pc = "rows"
     /\ push[g].hits = {d} /\ ~Hidden(g, d))
      ~> ~Awaited(d)
=============================================================================
