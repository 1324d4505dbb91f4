------------------------------- MODULE Parts -------------------------------
(***************************************************************************)
(* Four parts that share no state, side by side: a behaviour is one of the *)
(* packet's authority, of a Slack thread, of a dispatch or of GitHub's     *)
(* deliveries, and the others stay at their start.                         *)
(***************************************************************************)
EXTENDS CursorAuthority

CONSTANTS
  Mention, Plain, Recent, MaxRounds, Together, MaxFaults, MaxCrashes,
  Asked, Ready, Nothing,
  Delivery, NoDelivery, Handler, Window, MaxReceipts, MaxFailures

VARIABLES
  part,
  routed, memory, bot, turn, said, greeted, mixed, faults, crashes,
  asked, ready, verdict, packets, psm, invoked,
  mode, rows, file, handler, receipts, failures, fresh, filed, spoilt

Thread == INSTANCE SlackTurns

Dispatch == INSTANCE HarnessDispatch

Github == INSTANCE GithubDeliveries

\* A message has the bot's name or not; some turns are read back, the loop has
\* some rounds and the file keeps some ids (13, 8 and 2000 in the code), the mark of an unrecorded event is no delivery's id, and nobody is in the
\* team of a delegation twice (harnessBridge.js takes the set of the personas).
ASSUME PartsAssumption ==
  /\ Mention \cap Plain = {}
  /\ {Recent, MaxRounds, Window} \subseteq Nat \ {0} /\ {MaxFaults, MaxCrashes} \subseteq Nat
  /\ NoDelivery \notin Delivery
  /\ \A a \in Asked :
       /\ a.team \in Seq(Dispatch!Persona) /\ a.packets \in Seq(Dispatch!Request)
       /\ \A k, n \in DOMAIN a.team : a.team[k] = a.team[n] => k = n
       /\ a.patch \in BOOLEAN

-----------------------------------------------------------------------------
threadVars   == <<routed, memory, bot, turn, said, greeted, mixed, faults, crashes>>
dispatchVars == <<asked, ready, verdict, packets, psm, invoked>>
githubVars   == <<mode, rows, file, handler, receipts, failures, fresh, filed, spoilt>>

parts == <<part, vars, threadVars, dispatchVars, githubVars>>

PartsInit ==
  /\ part \in {"packet", "thread", "dispatch", "github"}
  /\ Init /\ (part # "packet" => state = "queued")
  /\ Thread!Init /\ (part # "thread" => ~bot)
  /\ Dispatch!Init /\ (part # "dispatch" => asked = Nothing /\ ready = {})
  /\ Github!Init /\ (part # "github" => mode = "memory")

Packet(A) ==
  part = "packet" /\ A /\ UNCHANGED <<part, threadVars, dispatchVars, githubVars>>
InThread(A) ==
  part = "thread" /\ A /\ UNCHANGED <<part, vars, dispatchVars, githubVars>>
Delegated(A) ==
  part = "dispatch" /\ A /\ UNCHANGED <<part, vars, threadVars, githubVars>>
Delivered(A) ==
  part = "github" /\ A /\ UNCHANGED <<part, vars, threadVars, dispatchVars>>

PartsNext ==
  \/ Packet(Next) \/ InThread(Thread!Next) \/ Delegated(Dispatch!Next)
  \/ Delivered(Github!Next)

PartsSpec ==
  /\ PartsInit /\ [][PartsNext]_parts
  /\ \A e \in Thread!Event : WF_parts(InThread(Thread!Step(e)))
  /\ WF_parts(Delegated(Dispatch!Next))

-----------------------------------------------------------------------------
\* Every part keeps its types.
PartsTypeOK == TypeOK /\ Thread!TypeOK /\ Dispatch!TypeOK /\ Github!TypeOK

\* The model is shown only what was said (threadMemory.js), and without overlap
\* or fault the latest turns, in order.
PriorIsTranscript == Thread!PriorIsTranscript

\* A reply in a routed thread is dropped only while another turn saves it.
DroppedOnlyWhileSaving == Thread!DroppedOnlyWhileSaving

\* A mention starts one turn although two handlers get it.
OneTurnPerMention == Thread!OneTurnPerMention

\* Every turn of a thread ends (founderToolLoop.js gives up at last).
EveryTurnEnds == Thread!EveryTurnEnds

\* Packets are invoked in the order of the team (orderPacketsByHandoff).
HandoffIsKept == Dispatch!HandoffIsKept

\* A delivery that GitHub repeats is filed once (githubWebhookDedupe.js).
FiledOnce == Github!FiledOnce

\* What the persona contracts accept is carried out to the end.
AcceptedIsCarriedOut == Dispatch!AcceptedIsCarriedOut
=============================================================================
