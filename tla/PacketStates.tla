---------------------------- MODULE PacketStates ----------------------------
(***************************************************************************)
(* Pure rules about packet states: how a provider's status word, a tool    *)
(* outcome or an older terminal record decides the next state of a packet, *)
(* and how the packet states of a run decide the run's status, its stage   *)
(* and the packet to invoke next.                                          *)
(*                                                                         *)
(* Translated from externalRunStatus.js, starterLadder.js, runProgressor.js *)
(* and executionRunStore.js.  There is no state here; RunLifecycle and     *)
(* CursorAuthority use these operators in their actions.                   *)
(***************************************************************************)
EXTENDS Naturals, Sequences, SequencesExt

PacketState == {"queued", "ready", "running", "review_required", "blocked",
                "completed", "failed", "skipped"}

\* A packet the run no longer waits for, and one that cannot move on its own.
DoneStates     == {"completed", "skipped"}
TerminalStates == DoneStates \cup {"failed"}

Polarity(state) ==
  CASE state \in DoneStates -> "positive"
    [] state = "failed"     -> "negative"
    [] OTHER                -> "none"

-----------------------------------------------------------------------------
(* Provider status words, after trimming and lower-casing. *)

NonTerminalWords == {"accepted", "pending", "queued", "running", "in_progress",
                     "processing", "started", "active", "working", "busy"}
PositiveWords    == {"accepted_and_applied", "applied", "completed", "succeeded",
                     "success", "done", "finished", "complete"}
NegativeWords    == {"failed", "failure", "error", "errored", "cancelled",
                     "canceled", "aborted", "timed_out", "timeout", "timed-out"}

Bucket(word) ==
  CASE word \in NonTerminalWords -> "non_terminal"
    [] word \in PositiveWords    -> "positive_terminal"
    [] word \in NegativeWords    -> "negative_terminal"
    [] OTHER                     -> "unknown"

(* Each definition whose name starts with "Bad" is a plausible slip in the *)
(* definition below it; PROJECT.json pairs it with a property it breaks.   *)

\* The packet state a callback with this word asks for.  A word of no bucket
\* is taken as progress: its status hint is "external_status_update".
DesiredState(word) ==
  CASE Bucket(word) = "positive_terminal"          -> "completed"
    [] Bucket(word) = "negative_terminal"          -> "failed"
    [] word \in {"queued", "pending", "accepted"}  -> "ready"
    [] OTHER                                       -> "running"

-----------------------------------------------------------------------------
(* Which of two terminal claims wins.  A record keeps the time and the     *)
(* outcome of the last terminal callback a packet accepted; time 0 stands  *)
(* for "no time" and for a time that cannot be parsed, as in the code.     *)

NoRec == [at |-> 0, outcome |-> "none"]

\* A claim that agrees with the terminal state refreshes its record.
BadRefreshes(at, rec) == TRUE
Refreshes(at, rec)    == at >= rec.at

\* A claim that contradicts it overturns it.
Overturns(at, rec) == at > rec.at

\* Contradicting claims of the same time.
BadTie(desired) == desired
Tie(desired)    == "failed"

\* A claim that needs no weighing.
Uncontested(existing, desired) == existing \notin TerminalStates

\* The record kept when a state is taken: progress leaves the old one.
RecordOf(state, at, rec) ==
  IF state \in TerminalStates THEN [at |-> at, outcome |-> Polarity(state)] ELSE rec

\* The code's answer, as [accept, state, rec]: rec is the record to keep.
Authority(existing, desired, at, rec) ==
  LET Skip        == [accept |-> FALSE, state |-> existing, rec |-> rec]
      Take(state) == [accept |-> TRUE, state |-> state,
                      rec |-> RecordOf(state, at, rec)]
      both        == {existing, desired} \subseteq TerminalStates
      agree       == Polarity(existing) = Polarity(desired)
  IN  CASE Uncontested(existing, desired)             -> Take(desired)
        [] both /\ agree  /\ Refreshes(at, rec)       -> Take(desired)
        [] both /\ ~agree /\ Overturns(at, rec)       -> Take(desired)
        [] both /\ ~agree /\ at = rec.at              -> Take(Tie(desired))
        [] OTHER                                      -> Skip

-----------------------------------------------------------------------------
(* Outcomes of a tool invocation, by the branch of the packet-state rule   *)
(* they take.  "invalid_spec" is the answer for a packet without a valid   *)
(* tool and action: it carries no status, so the rule's last line applies. *)

Outcome == {"dispatch_accepted", "completed", "degraded", "failed", "blocked",
            "invalid_spec"}

BadStateOfOutcome(outcome) ==
  CASE outcome \in {"blocked", "failed"} -> outcome
    [] outcome = "degraded"              -> "review_required"
    [] OTHER                             -> "completed"
StateOfOutcome(outcome) ==
  CASE outcome = "blocked"   -> "blocked"
    [] outcome = "failed"    -> "failed"
    [] outcome = "degraded"  -> "review_required"
    [] outcome = "completed" -> "completed"
    [] OTHER                 -> "running"

-----------------------------------------------------------------------------
(* The run: required is the sequence of its required packets, psm the      *)
(* function from packets to packet states.                                 *)

\* A run without required packets is judged by all the packets it has.
BadRunStatus(psm, required) ==
  IF \E p \in DOMAIN psm : psm[p] = "completed" THEN "completed" ELSE "running"
RunStatus(psm, required) ==
  LET ids    == IF required = <<>> THEN DOMAIN psm ELSE ToSet(required)
      states == {psm[p] : p \in ids}
  IN  IF ids = {}                          THEN "running"
      ELSE IF states \subseteq DoneStates   THEN "completed"
      ELSE IF "failed" \in states           THEN "failed"
      ELSE IF "review_required" \in states  THEN "review_required"
      ELSE IF "blocked" \in states          THEN "blocked"
      ELSE "running"

RunStage(status, kicked) ==
  IF ~kicked                        THEN "delegated"
  ELSE IF status = "completed"       THEN "finalizing"
  ELSE IF status = "review_required" THEN "reviewing"
  ELSE "executing"

\* deps[p] is the set of packets p depends on.
BadRunnable(p, psm, deps) == psm[p] \in {"queued", "ready"}
Runnable(p, psm, deps) ==
  /\ psm[p] \in {"queued", "ready"}
  /\ \A d \in deps[p] : psm[d] \in DoneStates

NoPacket == "no_packet"

\* p is the first runnable packet among those at the given places.
NextRunnable(p, places, required, psm, deps) ==
  \E i \in places :
    /\ p = required[i]
    /\ Runnable(p, psm, deps)
    /\ \A j \in places : j < i => ~Runnable(required[j], psm, deps)

\* The pair of cursors shown to the founder: the first packet not done (the
\* last one when all are), and the first runnable packet after it.
CurrentNext(required, psm, deps) ==
  LET open     == {i \in DOMAIN required : psm[required[i]] \notin DoneStates}
      cur      == CHOOSE i \in open : \A j \in open : i <= j
      later    == {i \in DOMAIN required : i > cur}
      isNext(p) == NextRunnable(p, later, required, psm, deps)
  IN  IF required = <<>> THEN <<NoPacket, NoPacket>>
      ELSE IF open = {}  THEN <<Last(required), NoPacket>>
      ELSE IF \E p \in ToSet(required) : isNext(p)
      THEN <<required[cur], CHOOSE p \in ToSet(required) : isNext(p)>>
      ELSE <<required[cur], NoPacket>>
=============================================================================
