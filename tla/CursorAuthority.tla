-------------------------- MODULE CursorAuthority --------------------------
(***************************************************************************)
(* One packet of a run and the provider callbacks that move it.  Callbacks *)
(* are signed webhooks: the provider may repeat them and the network may   *)
(* deliver them in any order, so each Deliver picks any callback, old or   *)
(* new.  The body of Deliver is what patchRunPacketStateFromCanonical does *)
(* to the packet: resolve the claim against the state and the last         *)
(* terminal record, and store both together.                               *)
(***************************************************************************)
EXTENDS PacketStates, FiniteSets

CONSTANTS
  Time,    \* the callbacks' occurred_at stamps; 0 is "cannot be parsed"
  Word     \* the status words the provider uses

ASSUME TimeAssumption == Time \subseteq Nat /\ 0 \in Time
ASSUME WordAssumption == Word \subseteq STRING

VARIABLES
  state,   \* packet_state_map[packet]
  rec,     \* cursor_external_terminal_by_packet[packet]
  heard    \* history: the terminal claims the packet has been confronted with

vars == <<state, rec, heard>>

ProviderClaim == [at : Time, outcome : {"positive", "negative"}]

\* A packet meets its first callback in any state the tool invocation left
\* it in.  A state that is terminal without a callback (its invocation
\* failed) has no record and weighs as a claim made at time 0.
Init ==
  /\ state \in {"queued", "ready", "running", "review_required", "blocked",
                "completed", "failed"}
  /\ rec = NoRec
  /\ heard = IF state \in TerminalStates
             THEN {[at |-> 0, outcome |-> Polarity(state)]}
             ELSE {}

Deliver(word, at) ==
  LET desired == DesiredState(word)
      answer  == Authority(state, desired, at, rec)
  IN  /\ state' = answer.state
      /\ rec'   = answer.rec
      /\ heard' = IF desired \in TerminalStates
                  THEN heard \cup {[at |-> at, outcome |-> Polarity(desired)]}
                  ELSE heard

Next == \E word \in Word, at \in Time : Deliver(word, at)

Spec == Init /\ [][Next]_vars

-----------------------------------------------------------------------------
TypeOK ==
  /\ state \in PacketState
  /\ rec \in {NoRec} \cup ProviderClaim
  /\ heard \subseteq ProviderClaim

\* The claim that decides among a set of claims: newest, and failure first
\* among the newest.  It does not mention any order of arrival.
Decides(c, claims) ==
  /\ c \in claims
  /\ \A d \in claims : \/ d.at < c.at
                       \/ d.at = c.at /\ (d.outcome = "negative" => c = d)

\* The packet's terminal state depends on which claims arrived and never on
\* their order: a late, old callback does not overturn a newer one, and a tie
\* is a failure (resolveCursorPacketStateAuthority).
VerdictIgnoresOrder ==
  IF heard = {}
  THEN state \notin TerminalStates
  ELSE Decides([at |-> rec.at, outcome |-> Polarity(state)], heard)

\* Once a packet is completed, failed or skipped no callback reopens it: a
\* "running" sent late by the provider is ignored.
TerminalIsFinal ==
  [][(state \in TerminalStates) => (state' \in TerminalStates)]_vars

\* The record kept for the packet is the one of its present state, so the
\* next callback is weighed against the claim that really won.
RecordMatchesState ==
  rec # NoRec => /\ state \in TerminalStates
                 /\ rec.outcome = Polarity(state)

\* Every callback, in any order, is a step of the abstract verdict or leaves
\* it alone.
verdictBar == IF state \in TerminalStates
              THEN [at |-> rec.at, outcome |-> Polarity(state)]
              ELSE NoRec

Abstract == INSTANCE TerminalVerdict WITH verdict <- verdictBar

ImplementsVerdict == Abstract!Spec
=============================================================================
