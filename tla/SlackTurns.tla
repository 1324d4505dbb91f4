----------------------------- MODULE SlackTurns -----------------------------
(***************************************************************************)
(* The founder's turns in one Slack thread.  A message that mentions the   *)
(* bot starts a turn and makes the thread a routed one; a plain reply in a *)
(* routed thread starts a turn too.  Slack sends a mention in a thread as  *)
(* two events, one to each handler.  A turn saves the route, files the     *)
(* message in the thread's memory, reads the latest turns back, lets the   *)
(* model speak and call tools for some rounds, sends the answer and files  *)
(* it.  Nothing keeps two turns of a thread apart.                         *)
(*                                                                         *)
(* Route and memory are files that are emptied and then filled, and a file *)
(* that cannot be read counts as an absent one.  A mention stands for a    *)
(* direct message as well, whose thread has no second event.  What the     *)
(* tools do to a run is RunLifecycle; attachments are left out.            *)
(***************************************************************************)
EXTENDS Naturals, Sequences, FiniteSets, SequencesExt

CONSTANTS
  Mention, Plain,   \* the founder's messages, with and without the bot's name
  Recent,           \* turns read back from the memory (13 in the code)
  MaxRounds,        \* rounds of the tool loop (8 in the code)
  Together,         \* bound: turns in progress together
  MaxFaults,        \* bound: files that fail, and the look-up of the bot's id
  MaxCrashes        \* bound: crashes in a behaviour

Event == (Mention \X {"app_mention", "message"}) \cup (Plain \X {"message"})

VARIABLES
  routed,   \* whether the thread's route file can be read
  memory,   \* the turns of the thread's memory file: <<message, role>>
  bot,      \* whether the bot's user id is cached
  turn,     \* turn[e]: the turn the event e started
  said,     \* history: the turns the founder and the bot really took
  greeted,  \* history: some turn has saved the route
  mixed,    \* history: two turns were in progress together
  faults, crashes

vars == <<routed, memory, bot, turn, said, greeted, mixed, faults, crashes>>

Over == {"ignored", "answered", "unanswered", "apologised", "lost"}

NoTurn == [pc |-> "idle", role |-> "user", seen |-> <<>>, prior |-> <<>>, round |-> 0]

Init ==
  /\ routed = FALSE /\ memory = <<>> /\ bot \in BOOLEAN
  /\ turn = [e \in Event |-> NoTurn]
  /\ said = <<>> /\ greeted = FALSE /\ mixed = FALSE
  /\ faults = 0 /\ crashes = 0

Busy(e)  == turn[e].pc \notin {"idle"} \cup Over
At(e, pc) == turn[e].pc = pc
To(e, pc) == turn' = [turn EXCEPT ![e].pc = pc]
Leave(e, pc) == turn' = [turn EXCEPT ![e] = [NoTurn EXCEPT !.pc = pc]]

OnDisk  == <<routed, memory>>
History == <<said, greeted, mixed>>

-----------------------------------------------------------------------------
(* The handlers. *)

Begin(e) ==
  /\ Cardinality({f \in Event : Busy(f)}) < Together
  /\ To(e, "save")
  /\ said' = Append(said, <<e[1], "user">>)
  /\ mixed' = (mixed \/ \E f \in Event : Busy(f))

Mentioned(e) ==
  /\ At(e, "idle") /\ e[2] = "app_mention"
  /\ Begin(e)
  /\ UNCHANGED <<OnDisk, bot, greeted, faults, crashes>>

\* The id comes from the environment or from Slack and is then kept; without
\* it a mention cannot be told from a plain reply.
LearnBot ==
  /\ ~bot
  /\ bot' = TRUE
  /\ UNCHANGED <<OnDisk, turn, History, faults, crashes>>

\* The message handler leaves a mention to the other handler, and a reply in
\* a thread that nobody called the bot into to the people in it.
BadForMe(e, known) == routed
ForMe(e, known)    == routed /\ ~(known /\ e[1] \in Mention)

Replied(e) ==
  /\ At(e, "idle") /\ e[2] = "message"
  /\ \/ bot /\ UNCHANGED faults
     \/ ~bot /\ faults < MaxFaults /\ faults' = faults + 1
  /\ IF ForMe(e, bot)
     THEN Begin(e)
     ELSE To(e, "ignored") /\ UNCHANGED <<said, mixed>>
  /\ UNCHANGED <<OnDisk, bot, greeted, crashes>>

-----------------------------------------------------------------------------
(* A turn. *)

\* The route is saved anew by every turn: the file is emptied, then filled.
OpenRoute(e) ==
  /\ At(e, "save")
  /\ routed' = FALSE
  /\ To(e, "saving")
  /\ UNCHANGED <<memory, bot, History, faults, crashes>>

BadFillRoute(e) ==
  /\ At(e, "saving")
  /\ greeted' = TRUE
  /\ To(e, "load")
  /\ UNCHANGED <<OnDisk, bot, said, mixed, faults, crashes>>
FillRoute(e) ==
  /\ At(e, "saving")
  /\ routed' = TRUE /\ greeted' = TRUE
  /\ To(e, "load")
  /\ UNCHANGED <<memory, bot, said, mixed, faults, crashes>>

\* A turn is filed by reading all the turns, emptying the file and writing
\* them back with the new one.
Load(e) ==
  /\ At(e, "load")
  /\ turn' = [turn EXCEPT ![e].pc = "open", ![e].seen = memory]
  /\ UNCHANGED <<OnDisk, bot, History, faults, crashes>>

Open(e) ==
  /\ At(e, "open")
  /\ memory' = <<>>
  /\ To(e, "fill")
  /\ UNCHANGED <<routed, bot, History, faults, crashes>>

Fill(e) ==
  /\ At(e, "fill")
  /\ memory' = Append(turn[e].seen, <<e[1], turn[e].role>>)
  /\ Leave(e, IF turn[e].role = "user" THEN "recall" ELSE "answered")
  /\ UNCHANGED <<routed, bot, History, faults, crashes>>

LastOf(turns, n) == SubSeq(turns, (IF Len(turns) > n THEN Len(turns) - n ELSE 0) + 1, Len(turns))

\* What the model is shown besides the message itself.
BadPrior(turns) == LastOf(turns, Recent)
Prior(turns) ==
  LET recent == LastOf(turns, Recent)
  IN  IF recent # <<>> /\ Last(recent)[2] = "user" THEN Front(recent) ELSE recent

Recall(e) ==
  /\ At(e, "recall")
  /\ turn' = [turn EXCEPT ![e].pc = "think", ![e].prior = Prior(memory)]
  /\ UNCHANGED <<OnDisk, bot, History, faults, crashes>>

\* One round: the model speaks, calls tools, says nothing, or the call to it
\* fails.  Tools called in the last round run too, and nothing is said.
BadThink(e) ==
  /\ At(e, "think")
  /\ \/ \E next \in {"send", "sorry"} : Leave(e, next)
     \/ turn' = [turn EXCEPT ![e].round = (@ + 1) % MaxRounds]
  /\ UNCHANGED <<OnDisk, bot, History, faults, crashes>>
Think(e) ==
  /\ At(e, "think")
  /\ \/ \E next \in {"send", "sorry"} : Leave(e, next)
     \/ IF turn[e].round + 1 < MaxRounds
        THEN turn' = [turn EXCEPT ![e].round = @ + 1]
        ELSE Leave(e, "sorry")
  /\ UNCHANGED <<OnDisk, bot, History, faults, crashes>>

\* Slack takes the answer, refuses it, or nothing is left of it to be sent.
\* Only an answer that Slack took is filed.
Send(e) ==
  /\ At(e, "send")
  /\ \/ turn' = [turn EXCEPT ![e].pc = "load", ![e].role = "assistant"]
        /\ said' = Append(said, <<e[1], "assistant">>)
     \/ \E next \in {"unanswered", "sorry"} : To(e, next) /\ UNCHANGED said
  /\ UNCHANGED <<OnDisk, bot, greeted, mixed, faults, crashes>>

\* The founder is asked to send the message again, if Slack takes even that.
Apologise(e) ==
  /\ At(e, "sorry")
  /\ To(e, "apologised")
  /\ UNCHANGED <<OnDisk, bot, History, faults, crashes>>

-----------------------------------------------------------------------------
(* Faults. *)

\* A write that fails throws, at the emptying or at the filling.
WriteFails(e) ==
  /\ turn[e].pc \in {"save", "saving", "open", "fill"}
  /\ faults < MaxFaults /\ faults' = faults + 1
  /\ Leave(e, "sorry")
  /\ UNCHANGED <<OnDisk, bot, History, crashes>>

\* A read that fails does not: the thread seems to have no turns, to the
\* filing of one or to the model.
ReadFails(e) ==
  /\ faults < MaxFaults /\ faults' = faults + 1
  /\ \/ /\ At(e, "load")
        /\ turn' = [turn EXCEPT ![e].pc = "open", ![e].seen = <<>>]
     \/ /\ At(e, "recall")
        /\ turn' = [turn EXCEPT ![e].pc = "think", ![e].prior = <<>>]
  /\ UNCHANGED <<OnDisk, bot, History, crashes>>

\* Slack does not repeat an event it has delivered.
Crash ==
  /\ crashes < MaxCrashes /\ crashes' = crashes + 1
  /\ turn' = [e \in Event |-> IF Busy(e) THEN [NoTurn EXCEPT !.pc = "lost"] ELSE turn[e]]
  /\ bot' = FALSE
  /\ UNCHANGED <<OnDisk, History, faults>>

-----------------------------------------------------------------------------
Step(e) == \/ OpenRoute(e) \/ FillRoute(e) \/ Load(e) \/ Open(e) \/ Fill(e)
           \/ Recall(e) \/ Think(e) \/ Send(e) \/ Apologise(e)

Next ==
  \/ LearnBot \/ Crash
  \/ \E e \in Event : Mentioned(e) \/ Replied(e) \/ Step(e) \/ WriteFails(e) \/ ReadFails(e)

\* The event loop runs, the model and Slack answer at last or fail.
Fairness == \A e \in Event : WF_vars(Step(e))

FairSpec == Init /\ [][Next]_vars /\ Fairness

-----------------------------------------------------------------------------
Said == Event \X {"user", "assistant"}

TypeOK ==
  /\ {routed, bot, greeted, mixed} \subseteq BOOLEAN
  /\ \A e \in Event :
       /\ turn[e].pc \in {"idle", "save", "saving", "load", "open", "fill", "recall",
                          "think", "send", "sorry"} \cup Over
       /\ turn[e].round \in 0..MaxRounds
       /\ Len(turn[e].prior) <= Recent
  /\ faults \in 0..MaxFaults /\ crashes \in 0..MaxCrashes

Intact == faults = 0 /\ crashes = 0

\* The model is shown only messages that were received and answers that Slack
\* took, whatever overlaps, fails or crashes.  When turns do not overlap and
\* nothing fails, these are the latest turns of the thread in their order, and
\* its question is not among them.
PriorIsTranscript ==
  \A e \in {f \in Event : At(f, "think")} :
    /\ ToSet(turn[e].prior) \subseteq ToSet(said)
    /\ Intact /\ ~mixed =>
         /\ Last(said) = <<e[1], "user">>
         /\ turn[e].prior = LastOf(Front(said), Recent - 1)

\* A reply in a routed thread is left without a turn only when it is read
\* while another turn has the route file emptied, or after a fault: every
\* turn that ends leaves the thread routed.
DroppedOnlyWhileSaving ==
  [][\A e \in Event :
       At(e, "idle") /\ turn'[e].pc = "ignored" /\ e[1] \in Plain /\ greeted /\ Intact
         => \E f \in Event : At(f, "saving")]_vars

\* A message that mentions the bot starts one turn although two handlers get
\* it, unless the bot's id could not be learnt.
OneTurnPerMention ==
  \A m \in Mention :
    (\A h \in {"app_mention", "message"} : turn[<<m, h>>].pc \notin {"idle", "ignored"})
      => faults > 0

\* Every turn ends: the tool loop gives up after so many rounds.
EveryTurnEnds == \A e \in Event : Busy(e) ~> ~Busy(e)
=============================================================================
