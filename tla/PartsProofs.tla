----------------------------- MODULE PartsProofs -----------------------------
(***************************************************************************)
(* Proofs about the four parts, for any values of their constants.         *)
(* The packet: the inductive invariant is the conjunction of the type and  *)
(* of the two state invariants of CursorAuthority, because the next answer *)
(* depends on the record, which has to be the record of the present state. *)
(* The thread: what each turn has read of the memory, and that one which   *)
(* nothing overlaps has read all of it.  A dispatch: a packet with an      *)
(* earlier slot than one that was invoked waits for nothing any more.      *)
(* GitHub's deliveries: what the record holds of those let through, in the *)
(* file counted from the end.                                              *)
(***************************************************************************)
EXTENDS Parts, FiniteSetTheorems, TLAPS

IInv == TypeOK /\ VerdictIgnoresOrder /\ RecordMatchesState

\* A status word always asks for one of these packet states.
LEMMA DesiredStates ==
  ASSUME NEW word
  PROVE  DesiredState(word) \in {"completed", "failed", "ready", "running"}
BY DEF DesiredState, Bucket

\* Claims and records are stamped with natural numbers.
LEMMA StampsAreNat ==
  /\ Time \subseteq Nat
  /\ \A c \in ProviderClaim : c.at \in Nat
  /\ NoRec.at \in Nat
<1>1. Time \subseteq Nat
  BY TimeAssumption
<1>2. \A c \in ProviderClaim : c.at \in Nat
  BY <1>1 DEF ProviderClaim
<1>3. NoRec.at \in Nat
  BY DEF NoRec
<1> QED
  BY <1>1, <1>2, <1>3

\* The polarity of a packet state, spelled out.
LEMMA PolarityCases ==
  ASSUME NEW s \in PacketState
  PROVE  /\ s \in TerminalStates <=> Polarity(s) \in {"positive", "negative"}
         /\ Polarity(s) = "negative" <=> s = "failed"
         /\ Polarity(s) \in {"positive", "negative", "none"}
BY DEF PacketState, Polarity, TerminalStates, DoneStates

\* A progress report changes nothing on a terminal packet.
LEMMA ProgressAnswer ==
  ASSUME NEW s \in PacketState, NEW d \in PacketState \ TerminalStates,
         NEW at, NEW r
  PROVE  Authority(s, d, at, r) = [accept |-> s \notin TerminalStates,
                                   state  |-> IF s \in TerminalStates THEN s ELSE d,
                                   rec    |-> r]
BY DEF Authority, Uncontested, RecordOf

\* A terminal claim on an open packet is taken with its record.
LEMMA FirstVerdict ==
  ASSUME NEW s \in PacketState \ TerminalStates, NEW d \in TerminalStates,
         NEW at, NEW r
  PROVE  Authority(s, d, at, r) =
           [accept |-> TRUE, state |-> d,
            rec |-> [at |-> at, outcome |-> Polarity(d)]]
BY DEF Authority, Uncontested, RecordOf

\* A terminal claim on a terminal packet: an older one is ignored.
LEMMA OlderVerdict ==
  ASSUME NEW s \in TerminalStates, NEW d \in TerminalStates,
         NEW at \in Nat, NEW r, r.at \in Nat, at < r.at
  PROVE  Authority(s, d, at, r) = [accept |-> FALSE, state |-> s, rec |-> r]
<1>1. ~(at >= r.at) /\ ~(at > r.at) /\ at # r.at
  OBVIOUS
<1> QED
  BY <1>1 DEF Authority, Uncontested, Refreshes, Overturns

\* A newer one, or one of the same time that agrees, is taken.
LEMMA NewerVerdict ==
  ASSUME NEW s \in TerminalStates, NEW d \in TerminalStates,
         NEW at \in Nat, NEW r, r.at \in Nat,
         at > r.at \/ (at = r.at /\ Polarity(s) = Polarity(d))
  PROVE  Authority(s, d, at, r) =
           [accept |-> TRUE, state |-> d,
            rec |-> [at |-> at, outcome |-> Polarity(d)]]
<1>1. at >= r.at /\ (Polarity(s) # Polarity(d) => at > r.at /\ at # r.at)
  OBVIOUS
<1>2. {s, d} \subseteq TerminalStates
  OBVIOUS
<1> QED
  BY <1>1, <1>2 DEF Authority, Uncontested, Refreshes, Overturns, RecordOf

\* A tie between success and failure is a failure.
LEMMA TiedVerdict ==
  ASSUME NEW s \in TerminalStates, NEW d \in TerminalStates,
         NEW at \in Nat, NEW r, at = r.at, Polarity(s) # Polarity(d)
  PROVE  Authority(s, d, at, r) =
           [accept |-> TRUE, state |-> "failed",
            rec |-> [at |-> at, outcome |-> "negative"]]
<1>1. ~(at > r.at)
  OBVIOUS
<1>2. {s, d} \subseteq TerminalStates
  OBVIOUS
<1>3. "failed" \in TerminalStates /\ Polarity("failed") = "negative"
  BY DEF TerminalStates, Polarity, DoneStates
<1> QED
  BY <1>1, <1>2, <1>3 DEF Authority, Uncontested, Refreshes, Overturns, RecordOf, Tie
-----------------------------------------------------------------------------
LEMMA InitIInv == Init => IInv
<1> SUFFICES ASSUME Init PROVE IInv
  OBVIOUS
<1>1. state \in PacketState
  BY DEF Init, PacketState
<1>2. CASE state \in TerminalStates
  <2> DEFINE c == [at |-> 0, outcome |-> Polarity(state)]
  <2>1. heard = {c} /\ rec = NoRec /\ rec.at = 0
    BY <1>2 DEF Init, NoRec
  <2>2. c \in ProviderClaim
    BY <1>1, <1>2, PolarityCases, TimeAssumption DEF ProviderClaim
  <2>3. Decides(c, {c})
    BY DEF Decides
  <2>4. VerdictIgnoresOrder
    BY <2>1, <2>3 DEF VerdictIgnoresOrder
  <2> QED
    BY <1>1, <2>1, <2>2, <2>4 DEF IInv, TypeOK, RecordMatchesState
<1>3. CASE state \notin TerminalStates
  BY <1>1, <1>3
     DEF Init, IInv, TypeOK, VerdictIgnoresOrder, RecordMatchesState, NoRec, ProviderClaim
<1> QED
  BY <1>2, <1>3

LEMMA NextIInv == IInv /\ [Next]_vars => IInv'
<1> SUFFICES ASSUME IInv, [Next]_vars PROVE IInv'
  OBVIOUS
<1>1. CASE UNCHANGED vars
  <2>1. state' = state /\ rec' = rec /\ heard' = heard
    BY <1>1 DEF vars
  <2>2. TypeOK' /\ RecordMatchesState'
    BY <2>1 DEF IInv, TypeOK, RecordMatchesState
  <2>3. VerdictIgnoresOrder'
    BY <2>1 DEF IInv, VerdictIgnoresOrder
  <2> QED
    BY <2>2, <2>3 DEF IInv
<1>2. ASSUME NEW word \in Word, NEW at \in Time, Deliver(word, at)
      PROVE  IInv'
  <2> DEFINE d == DesiredState(word)
             c == [at |-> at, outcome |-> Polarity(d)]
             w == [at |-> rec.at, outcome |-> Polarity(state)]
             a == Authority(state, d, at, rec)
  <2>1. /\ state' = a.state /\ rec' = a.rec
        /\ heard' = IF d \in TerminalStates THEN heard \cup {c} ELSE heard
    BY <1>2 DEF Deliver
  <2>2. d \in PacketState /\ at \in Nat /\ state \in PacketState /\ rec.at \in Nat
    <3>1. d \in PacketState
      BY DesiredStates DEF PacketState
    <3>2. rec.at \in Nat
      BY StampsAreNat DEF IInv, TypeOK
    <3> QED
      BY <3>1, <3>2, StampsAreNat DEF IInv, TypeOK
  <2> HIDE DEF a, d
  <2>3. CASE d \notin TerminalStates
    <3>1. state \in TerminalStates => state' = state
      BY <2>1, <2>2, <2>3, ProgressAnswer DEF a
    <3>2. state \notin TerminalStates => state' = d
      BY <2>1, <2>2, <2>3, ProgressAnswer DEF a
    <3>3. rec' = rec /\ heard' = heard
      BY <2>1, <2>2, <2>3, ProgressAnswer DEF a
    <3>4. state \notin TerminalStates => heard = {} /\ rec = NoRec
      BY <2>2, PolarityCases
         DEF IInv, TypeOK, VerdictIgnoresOrder, RecordMatchesState, Decides, ProviderClaim
    <3> QED
      BY <2>2, <2>3, <3>1, <3>2, <3>3, <3>4
         DEF IInv, TypeOK, VerdictIgnoresOrder, RecordMatchesState, Decides
  <2>4. CASE d \in TerminalStates
    <3>1. c \in ProviderClaim /\ heard' = heard \cup {c}
      BY <2>1, <2>2, <2>4, PolarityCases DEF ProviderClaim
    <3> DEFINE v == [at |-> rec'.at, outcome |-> Polarity(state')]
    <3>v. ASSUME Decides(v, heard') PROVE VerdictIgnoresOrder'
      BY <3>v, <3>1 DEF VerdictIgnoresOrder
    <3> HIDE DEF v
    <3>2. CASE state \notin TerminalStates
      <4>1. state' = d /\ rec' = c
        BY <2>1, <2>2, <2>4, <3>2, FirstVerdict DEF a
      <4>2. heard = {}
        BY <2>2, <3>2, PolarityCases
           DEF IInv, TypeOK, VerdictIgnoresOrder, Decides, ProviderClaim
      <4>3. Decides(c, {c})
        BY DEF Decides
      <4> QED
        BY <2>2, <2>4, <3>1, <3>v, <4>1, <4>2, <4>3
           DEF IInv, TypeOK, RecordMatchesState, v
    <3>3. CASE state \in TerminalStates
      <4>1. w \in heard /\ Decides(w, heard) /\ w \in ProviderClaim
        BY <3>3 DEF IInv, TypeOK, VerdictIgnoresOrder, Decides
      <4>2. \A e \in heard : e.at \in Nat /\ e.at <= w.at
        <5> SUFFICES ASSUME NEW e \in heard PROVE e.at \in Nat /\ e.at <= w.at
          OBVIOUS
        <5>1. e.at \in Nat /\ w.at \in Nat
          BY <4>1, StampsAreNat DEF IInv, TypeOK
        <5>2. e.at < w.at \/ e.at = w.at
          BY <4>1 DEF Decides
        <5> HIDE DEF w
        <5> QED
          BY <5>1, <5>2
      <4>3. CASE at < rec.at
        <5>1. state' = state /\ rec' = rec
          BY <2>1, <2>2, <2>4, <3>3, <4>3, OlderVerdict DEF a
        <5>2. Decides(w, heard \cup {c})
          BY <2>2, <4>1, <4>3 DEF Decides
        <5> QED
          BY <2>2, <3>1, <3>v, <3>3, <5>1, <5>2
             DEF IInv, TypeOK, RecordMatchesState, v
      <4>4. CASE at > rec.at
        <5>1. state' = d /\ rec' = c
          BY <2>1, <2>2, <2>4, <3>3, <4>4, NewerVerdict DEF a
        <5>2. Decides(c, heard \cup {c})
          BY <2>2, <4>2, <4>4 DEF Decides
        <5> QED
          BY <2>2, <2>4, <3>1, <3>v, <5>1, <5>2
             DEF IInv, TypeOK, RecordMatchesState, v
      <4>5. CASE at = rec.at /\ Polarity(state) = Polarity(d)
        <5>1. state' = d /\ rec' = c /\ c = w
          BY <2>1, <2>2, <2>4, <3>3, <4>5, NewerVerdict DEF a
        <5>2. heard' = heard
          BY <3>1, <4>1, <5>1
        <5> QED
          BY <2>2, <2>4, <3>1, <3>v, <4>1, <5>1, <5>2
             DEF IInv, TypeOK, RecordMatchesState, v
      <4>6. CASE at = rec.at /\ Polarity(state) # Polarity(d)
        <5> DEFINE n == [at |-> at, outcome |-> "negative"]
        <5>1. state' = "failed" /\ rec' = n
          BY <2>1, <2>2, <2>4, <3>3, <4>6, TiedVerdict DEF a
        <5>2. n \in {c, w}
          BY <2>2, <2>4, <3>3, <4>6, PolarityCases
        <5>3. Decides(n, heard \cup {c})
          <6>1. n \in heard \cup {c}
            BY <4>1, <5>2
          <6>2. ASSUME NEW e \in heard, ~(e.at < n.at)
                PROVE  e.at = n.at /\ (e.outcome = "negative" => n = e)
            BY <2>2, <4>2, <4>6, <6>2 DEF IInv, TypeOK, ProviderClaim
          <6> QED
            BY <6>1, <6>2 DEF Decides
        <5>4. "failed" \in PacketState /\ "failed" \in TerminalStates
              /\ Polarity("failed") = "negative"
          BY DEF PacketState, TerminalStates, DoneStates, Polarity
        <5>5. n \in ProviderClaim
          BY <3>1, <4>1, <5>2
        <5> HIDE DEF n
        <5> QED
          BY <3>1, <3>v, <5>1, <5>3, <5>4, <5>5
             DEF IInv, TypeOK, RecordMatchesState, n, v
      <4> QED
        BY <2>2, <4>3, <4>4, <4>5, <4>6
    <3> QED
      BY <3>2, <3>3
  <2> QED
    BY <2>3, <2>4
<1> QED
  BY <1>1, <1>2 DEF Next
-----------------------------------------------------------------------------
\* The type, the verdict and the record agree after any callbacks in any
\* order, for every set of stamps: patchRunPacketStateFromCanonical stores
\* the answer of resolveCursorPacketStateAuthority with its record.
THEOREM AuthorityInvariant == Spec => []IInv
BY InitIInv, NextIInv, PTL DEF Spec

\* The verdict on a packet does not depend on the order of its callbacks.
THEOREM VerdictIsOrderFree == Spec => []VerdictIgnoresOrder
<1>1. IInv => VerdictIgnoresOrder
  BY DEF IInv
<1> QED
  BY <1>1, AuthorityInvariant, PTL

\* No callback reopens a packet that is completed, failed or skipped.
THEOREM TerminalStaysTerminal == Spec => TerminalIsFinal
<1>1. IInv /\ [Next]_vars => [(state \in TerminalStates) => (state' \in TerminalStates)]_vars
  <2> SUFFICES ASSUME IInv, state \in TerminalStates,
                      NEW word \in Word, NEW at \in Time, Deliver(word, at)
               PROVE  state' \in TerminalStates
    BY DEF Next
  <2> DEFINE d == DesiredState(word)
  <2>1. state' = Authority(state, d, at, rec).state
    BY DEF Deliver
  <2>2. d \in PacketState /\ at \in Nat /\ state \in PacketState /\ rec.at \in Nat
    <3>1. d \in PacketState
      BY DesiredStates DEF PacketState
    <3>2. rec.at \in Nat
      BY StampsAreNat DEF IInv, TypeOK
    <3> QED
      BY <3>1, <3>2, StampsAreNat DEF IInv, TypeOK
  <2>3. "failed" \in TerminalStates
    BY DEF TerminalStates
  <2> HIDE DEF d
  <2>4. CASE d \in TerminalStates
    <3>1. CASE at < rec.at
      BY <2>1, <2>2, <2>4, <3>1, OlderVerdict
    <3>2. CASE at > rec.at \/ (at = rec.at /\ Polarity(state) = Polarity(d))
      BY <2>1, <2>2, <2>4, <3>2, NewerVerdict
    <3>3. CASE at = rec.at /\ Polarity(state) # Polarity(d)
      BY <2>1, <2>2, <2>3, <2>4, <3>3, TiedVerdict
    <3> QED
      BY <2>2, <3>1, <3>2, <3>3
  <2>5. CASE d \notin TerminalStates
    BY <2>1, <2>2, <2>5, ProgressAnswer
  <2> QED
    BY <2>4, <2>5
<1> QED
  BY <1>1, AuthorityInvariant, PTL DEF Spec, TerminalIsFinal
-----------------------------------------------------------------------------
\* Callbacks in any order implement the abstract verdict: each terminal claim
\* is heard by it, and each progress report leaves it alone.
THEOREM AuthorityImplementsVerdict == Spec => ImplementsVerdict
<1>1. Init => Abstract!Init
  <2> SUFFICES ASSUME Init PROVE Abstract!Init
    OBVIOUS
  <2>1. state \in PacketState
    BY DEF Init, PacketState
  <2>2. CASE state \in TerminalStates
    <3>1. verdictBar = [at |-> 0, outcome |-> Polarity(state)]
      BY <2>2 DEF Init, verdictBar, NoRec
    <3>2. verdictBar \in Abstract!Claim
      BY <2>1, <2>2, <3>1, PolarityCases, TimeAssumption DEF Abstract!Claim
    <3> QED
      BY <3>1, <3>2 DEF Abstract!Init
  <2>3. CASE state \notin TerminalStates
    BY <2>3 DEF Abstract!Init, Abstract!NoVerdict, verdictBar, NoRec
  <2> QED
    BY <2>2, <2>3
<1>2. IInv /\ [Next]_vars => [Abstract!Next]_verdictBar
  <2> SUFFICES ASSUME IInv, [Next]_vars PROVE [Abstract!Next]_verdictBar
    OBVIOUS
  <2>1. CASE UNCHANGED vars
    BY <2>1 DEF vars, verdictBar
  <2>2. ASSUME NEW word \in Word, NEW at \in Time, Deliver(word, at)
        PROVE  [Abstract!Next]_verdictBar
    <3> DEFINE d == DesiredState(word)
               c == [at |-> at, outcome |-> Polarity(d)]
               w == [at |-> rec.at, outcome |-> Polarity(state)]
    <3>1. /\ state' = Authority(state, d, at, rec).state
          /\ rec' = Authority(state, d, at, rec).rec
      BY <2>2 DEF Deliver
    <3>2. d \in PacketState /\ at \in Nat /\ state \in PacketState /\ rec.at \in Nat
      <4>1. d \in PacketState
        BY DesiredStates DEF PacketState
      <4>2. rec.at \in Nat
        BY StampsAreNat DEF IInv, TypeOK
      <4> QED
        BY <4>1, <4>2, StampsAreNat DEF IInv, TypeOK
    <3> HIDE DEF d
    <3>3. CASE d \notin TerminalStates
      <4>1. state \in TerminalStates => state' = state
        BY <3>1, <3>2, <3>3, ProgressAnswer
      <4>2. state \notin TerminalStates => state' = d
        BY <3>1, <3>2, <3>3, ProgressAnswer
      <4>3. rec' = rec
        BY <3>1, <3>2, <3>3, ProgressAnswer
      <4> QED
        BY <3>3, <4>1, <4>2, <4>3 DEF verdictBar
    <3>4. CASE d \in TerminalStates
      <4>1. c \in Abstract!Claim
        BY <3>2, <3>4, PolarityCases DEF Abstract!Claim
      <4>2. SUFFICES verdictBar' = IF Abstract!Beats(c, verdictBar) THEN c ELSE verdictBar
        BY <4>1 DEF Abstract!Next, Abstract!Hear
      <4>3. CASE state \notin TerminalStates
        <5>1. state' = d /\ rec' = c
          BY <3>1, <3>2, <3>4, <4>3, FirstVerdict
        <5>2. verdictBar = Abstract!NoVerdict /\ verdictBar' = c
          BY <3>4, <4>3, <5>1 DEF verdictBar, NoRec, Abstract!NoVerdict
        <5> QED
          BY <5>2 DEF Abstract!Beats
      <4>4. CASE state \in TerminalStates
        <5>1. verdictBar = w /\ w # Abstract!NoVerdict
          BY <3>2, <4>4, PolarityCases DEF verdictBar, Abstract!NoVerdict
        <5>2. Abstract!Beats(c, w) <=> at > rec.at \/ (at = rec.at /\ Polarity(d) = "negative")
          BY <5>1 DEF Abstract!Beats
        <5>3. CASE at < rec.at
          <6>1. state' = state /\ rec' = rec
            BY <3>1, <3>2, <3>4, <4>4, <5>3, OlderVerdict
          <6>2. ~Abstract!Beats(c, w)
            BY <3>2, <5>2, <5>3
          <6> QED
            BY <5>1, <6>1, <6>2 DEF verdictBar
        <5>4. CASE at > rec.at
          <6>1. state' = d /\ rec' = c
            BY <3>1, <3>2, <3>4, <4>4, <5>4, NewerVerdict
          <6> QED
            BY <3>4, <5>1, <5>2, <5>4, <6>1 DEF verdictBar
        <5>5. CASE at = rec.at /\ Polarity(state) = Polarity(d)
          <6>1. state' = d /\ rec' = c
            BY <3>1, <3>2, <3>4, <4>4, <5>5, NewerVerdict
          <6> QED
            BY <3>4, <5>1, <5>5, <6>1 DEF verdictBar
        <5>6. CASE at = rec.at /\ Polarity(state) # Polarity(d)
          <6> DEFINE n == [at |-> at, outcome |-> "negative"]
          <6>1. state' = "failed" /\ rec' = n
            BY <3>1, <3>2, <3>4, <4>4, <5>6, TiedVerdict
          <6>2. verdictBar' = n
            BY <6>1 DEF verdictBar, TerminalStates, DoneStates, Polarity
          <6>3. Polarity(d) = "negative" \/ Polarity(state) = "negative"
            BY <3>2, <3>4, <4>4, <5>6, PolarityCases
          <6> QED
            BY <3>2, <5>1, <5>2, <5>6, <6>2, <6>3
        <5> QED
          BY <3>2, <5>3, <5>4, <5>5, <5>6
      <4> QED
        BY <4>3, <4>4
    <3> QED
      BY <3>3, <3>4
  <2> QED
    BY <2>1, <2>2 DEF Next
<1> QED
  BY <1>1, <1>2, AuthorityInvariant, PTL DEF Spec, ImplementsVerdict, Abstract!Spec

-----------------------------------------------------------------------------
(* A thread's turns: sequences of what was said. *)

Lines   == (Mention \cup Plain) \X {"user", "assistant"}
Working == {"save", "saving", "load", "open", "fill", "recall", "think", "send", "sorry"}
TurnRec == [pc : {"idle"} \cup Working \cup Thread!Over, role : {"user", "assistant"},
            seen : Seq(Lines), prior : Seq(Lines), round : Nat]

LEMMA AppendedSet ==
  ASSUME NEW S, NEW s \in Seq(S), NEW x \in S
  PROVE  Append(s, x) \in Seq(S) /\ Thread!ToSet(Append(s, x)) = Thread!ToSet(s) \cup {x}
<1>1. PICK t : t = Append(s, x)  OBVIOUS
<1>2. /\ t \in Seq(S) /\ Len(t) = Len(s) + 1 /\ Len(s) \in Nat
      /\ DOMAIN t = 1..(Len(s) + 1) /\ DOMAIN s = 1..Len(s)
      /\ \A i \in 1..Len(s) : t[i] = s[i]
      /\ t[Len(s) + 1] = x
  BY <1>1
<1>3. Thread!ToSet(t) = Thread!ToSet(s) \cup {x}
  <2>1. \A i \in DOMAIN t : t[i] \in Thread!ToSet(s) \cup {x}
    BY <1>2 DEF Thread!ToSet
  <2>2. \A i \in DOMAIN s : s[i] \in Thread!ToSet(t)  BY <1>2 DEF Thread!ToSet
  <2>3. x \in Thread!ToSet(t)  BY <1>2 DEF Thread!ToSet
  <2> QED  BY <2>1, <2>2, <2>3 DEF Thread!ToSet
<1> QED  BY <1>1, <1>2, <1>3

\* A stretch of a sequence.
LEMMA Stretch ==
  ASSUME NEW S, NEW s \in Seq(S), NEW m \in Nat \ {0}, NEW n \in Nat, n <= Len(s)
  PROVE  /\ SubSeq(s, m, n) \in Seq(S)
         /\ Len(SubSeq(s, m, n)) = IF m <= n THEN n - m + 1 ELSE 0
         /\ \A i \in 1..(n - m + 1) : SubSeq(s, m, n)[i] = s[m + i - 1]
         /\ Thread!ToSet(SubSeq(s, m, n)) \subseteq Thread!ToSet(s)
<1>1. PICK t : t = SubSeq(s, m, n)  OBVIOUS
<1>2. /\ t \in Seq(S) /\ Len(t) = (IF m <= n THEN n - m + 1 ELSE 0)
      /\ DOMAIN t = 1..Len(t)
      /\ \A i \in 1..(n - m + 1) : t[i] = s[m + i - 1]
  BY <1>1
<1>3. DOMAIN s = 1..Len(s)  OBVIOUS
<1>4. \A i \in DOMAIN t : t[i] \in Thread!ToSet(s)
  <2>1. SUFFICES ASSUME NEW i \in DOMAIN t PROVE t[i] \in Thread!ToSet(s)  OBVIOUS
  <2>2. i \in 1..(n - m + 1) /\ m + i - 1 \in DOMAIN s  BY <1>2, <1>3
  <2> QED  BY <1>2, <2>2 DEF Thread!ToSet
<1>5. Thread!ToSet(t) \subseteq Thread!ToSet(s)  BY <1>4 DEF Thread!ToSet
<1> QED  BY <1>1, <1>2, <1>5

LEMMA LastOfIsPart ==
  ASSUME NEW S, NEW s \in Seq(S), NEW n \in Nat
  PROVE  /\ Thread!LastOf(s, n) \in Seq(S)
         /\ Thread!ToSet(Thread!LastOf(s, n)) \subseteq Thread!ToSet(s)
         /\ Len(Thread!LastOf(s, n)) = IF Len(s) > n THEN n ELSE Len(s)
         /\ \A i \in 1..Len(Thread!LastOf(s, n)) :
              Thread!LastOf(s, n)[i] = s[(IF Len(s) > n THEN Len(s) - n ELSE 0) + i]
<1>1. PICK from : from = (IF Len(s) > n THEN Len(s) - n ELSE 0) + 1  OBVIOUS
<1>2. from \in Nat \ {0} /\ Len(s) \in Nat  BY <1>1
<1>3. Thread!LastOf(s, n) = SubSeq(s, from, Len(s))  BY <1>1 DEF Thread!LastOf
<1>4. /\ SubSeq(s, from, Len(s)) \in Seq(S)
      /\ Thread!ToSet(SubSeq(s, from, Len(s))) \subseteq Thread!ToSet(s)
      /\ Len(SubSeq(s, from, Len(s))) = IF from <= Len(s) THEN Len(s) - from + 1 ELSE 0
      /\ \A i \in 1..(Len(s) - from + 1) : SubSeq(s, from, Len(s))[i] = s[from + i - 1]
  BY <1>2, Stretch
<1>5. PICK t : t = SubSeq(s, from, Len(s))  OBVIOUS
<1>6. Len(t) = (IF Len(s) > n THEN n ELSE Len(s)) /\ Len(t) = Len(s) - from + 1
  <2>1. PICK k : k = Len(s)  OBVIOUS
  <2>2. /\ k \in Nat /\ from = (IF k > n THEN k - n ELSE 0) + 1
        /\ Len(t) = IF from <= k THEN k - from + 1 ELSE 0
    BY <1>1, <1>2, <1>4, <1>5, <2>1
  <2>3. Len(t) = (IF k > n THEN n ELSE k) /\ Len(t) = k - from + 1  BY <2>2
  <2> QED  BY <2>1, <2>3
<1>7. \A i \in 1..Len(t) : t[i] = s[(IF Len(s) > n THEN Len(s) - n ELSE 0) + i]
  <2>1. SUFFICES ASSUME NEW i \in 1..Len(t)
                 PROVE  t[i] = s[(IF Len(s) > n THEN Len(s) - n ELSE 0) + i]
    OBVIOUS
  <2>2. t[i] = s[from + i - 1]  BY <1>4, <1>5, <1>6
  <2>3. from + i - 1 = (IF Len(s) > n THEN Len(s) - n ELSE 0) + i  BY <1>1, <1>2
  <2> QED  BY <2>2, <2>3
<1> QED  BY <1>3, <1>4, <1>5, <1>6, <1>7

LEMMA FrontIsPart ==
  ASSUME NEW S, NEW s \in Seq(S), s # <<>>
  PROVE  /\ Thread!Front(s) \in Seq(S)
         /\ Thread!ToSet(Thread!Front(s)) \subseteq Thread!ToSet(s)
         /\ Len(s) \in Nat \ {0} /\ Len(Thread!Front(s)) = Len(s) - 1
         /\ \A i \in 1..(Len(s) - 1) : Thread!Front(s)[i] = s[i]
<1>1. Len(s) \in Nat \ {0}  OBVIOUS
<1>2. Thread!Front(s) = SubSeq(s, 1, Len(s) - 1)  BY DEF Thread!Front
<1>3. /\ SubSeq(s, 1, Len(s) - 1) \in Seq(S)
      /\ Thread!ToSet(SubSeq(s, 1, Len(s) - 1)) \subseteq Thread!ToSet(s)
      /\ Len(SubSeq(s, 1, Len(s) - 1)) = IF 1 <= Len(s) - 1 THEN Len(s) - 1 - 1 + 1 ELSE 0
      /\ \A i \in 1..(Len(s) - 1 - 1 + 1) : SubSeq(s, 1, Len(s) - 1)[i] = s[1 + i - 1]
  BY <1>1, Stretch
<1>4. PICK t : t = SubSeq(s, 1, Len(s) - 1)  OBVIOUS
<1>5. Len(t) = Len(s) - 1
  <2>1. PICK n : n = Len(s)  OBVIOUS
  <2>2. n \in Nat \ {0} /\ Len(t) = IF 1 <= n - 1 THEN n - 1 - 1 + 1 ELSE 0
    BY <1>1, <1>3, <1>4, <2>1
  <2>3. Len(t) = n - 1  BY <2>2
  <2> QED  BY <2>1, <2>3
<1>6. \A i \in 1..(Len(s) - 1) : t[i] = s[i]
  <2>1. SUFFICES ASSUME NEW i \in 1..(Len(s) - 1) PROVE t[i] = s[i]  OBVIOUS
  <2>2. i \in 1..(Len(s) - 1 - 1 + 1) /\ 1 + i - 1 = i  BY <1>1
  <2>3. t[i] = s[1 + i - 1]  BY <1>3, <1>4, <2>2
  <2> QED  BY <2>2, <2>3
<1> QED  BY <1>1, <1>2, <1>3, <1>4, <1>5, <1>6

LEMMA PriorIsPart ==
  ASSUME NEW s \in Seq(Lines)
  PROVE  Thread!Prior(s) \in Seq(Lines) /\ Thread!ToSet(Thread!Prior(s)) \subseteq Thread!ToSet(s)
<1>1. Recent \in Nat  BY PartsAssumption
<1>2. Thread!LastOf(s, Recent) \in Seq(Lines) /\ Thread!ToSet(Thread!LastOf(s, Recent)) \subseteq Thread!ToSet(s)
  BY <1>1, LastOfIsPart
<1>3. PICK t : t = Thread!LastOf(s, Recent)  OBVIOUS
<1>4. t # <<>> => Thread!Front(t) \in Seq(Lines) /\ Thread!ToSet(Thread!Front(t)) \subseteq Thread!ToSet(t)
  BY <1>2, <1>3, FrontIsPart
<1>5. Thread!Prior(s) \in {t, Thread!Front(t)} /\ (t = <<>> => Thread!Prior(s) = t)
  BY <1>3 DEF Thread!Prior
<1> QED  BY <1>2, <1>3, <1>4, <1>5

\* Of what was said before the founder's question, the latest turns.
LEMMA PriorIsRecent ==
  ASSUME NEW s \in Seq(Lines), s # <<>>, Thread!Last(s)[2] = "user"
  PROVE  Thread!Prior(s) = Thread!LastOf(Thread!Front(s), Recent - 1)
<1>1. Recent \in Nat \ {0} /\ Recent \in Nat /\ Recent - 1 \in Nat  BY PartsAssumption
<1>2. PICK t : t = Thread!LastOf(s, Recent)  OBVIOUS
<1>3. PICK n : n = Len(s)  OBVIOUS
<1>4. n \in Nat \ {0}  BY <1>3
<1>5. /\ t \in Seq(Lines) /\ Len(t) = (IF n > Recent THEN Recent ELSE n)
      /\ \A i \in 1..Len(t) : t[i] = s[(IF n > Recent THEN n - Recent ELSE 0) + i]
  BY <1>1, <1>2, <1>3, LastOfIsPart
<1>6. t # <<>> /\ Len(t) \in Nat \ {0}  BY <1>1, <1>4, <1>5
<1>7. t[Len(t)] = s[n]  BY <1>1, <1>4, <1>5
<1>8. Thread!Prior(s) = Thread!Front(t)  BY <1>2, <1>3, <1>6, <1>7 DEF Thread!Prior, Thread!Last
<1>9. /\ Thread!Front(t) \in Seq(Lines) /\ Len(Thread!Front(t)) = Len(t) - 1
      /\ \A i \in 1..(Len(t) - 1) : Thread!Front(t)[i] = t[i]
  BY <1>5, <1>6, FrontIsPart
<1>10. PICK u : u = Thread!Front(s)  OBVIOUS
<1>11. u \in Seq(Lines) /\ Len(u) = n - 1 /\ \A i \in 1..(n - 1) : u[i] = s[i]
  BY <1>3, <1>10, FrontIsPart
<1>12. PICK v : v = Thread!LastOf(u, Recent - 1)  OBVIOUS
<1>13. /\ v \in Seq(Lines) /\ Len(v) = (IF Len(u) > Recent - 1 THEN Recent - 1 ELSE Len(u))
       /\ \A i \in 1..Len(v) : v[i] = u[(IF Len(u) > Recent - 1 THEN Len(u) - (Recent - 1) ELSE 0) + i]
  BY <1>1, <1>11, <1>12, LastOfIsPart
<1>14. PICK w : w = Thread!Front(t)  OBVIOUS
<1>15. Len(w) = Len(v)  BY <1>1, <1>4, <1>5, <1>9, <1>11, <1>13, <1>14
<1>16. \A i \in 1..Len(v) : w[i] = v[i]
  <2>1. SUFFICES ASSUME NEW i \in 1..Len(v) PROVE w[i] = v[i]  OBVIOUS
  <2>2. i \in 1..(Len(t) - 1) /\ i \in 1..Len(t)  BY <1>1, <1>4, <1>5, <1>9, <1>11, <1>13
  <2>3. w[i] = s[(IF n > Recent THEN n - Recent ELSE 0) + i]  BY <1>5, <1>9, <1>14, <2>2
  <2>4. v[i] = u[(IF n - 1 > Recent - 1 THEN n - Recent ELSE 0) + i]
    BY <1>1, <1>4, <1>11, <1>13
  <2>5. PICK j : j = (IF n > Recent THEN n - Recent ELSE 0) + i  OBVIOUS
  <2>6. j \in 1..(n - 1)  BY <1>1, <1>4, <1>11, <1>13, <2>5
  <2>7. n - 1 > Recent - 1 <=> n > Recent  BY <1>1, <1>4
  <2> QED  BY <1>11, <2>3, <2>4, <2>5, <2>6, <2>7
<1>17. w = v
  <2>1. w \in Seq(Lines) /\ v \in Seq(Lines)  BY <1>9, <1>13, <1>14
  <2> QED  BY <1>15, <1>16, <2>1
<1> QED  BY <1>8, <1>10, <1>12, <1>14, <1>17

ThreadTypes ==
  /\ faults \in Nat /\ crashes \in Nat /\ mixed \in BOOLEAN
  /\ memory \in Seq(Lines) /\ said \in Seq(Lines) /\ turn \in [Thread!Event -> TurnRec]

\* Whatever a turn reads, shows or is about to file has been said.
Heard(e, k) ==
  /\ Thread!ToSet(k.seen) \subseteq Thread!ToSet(said)
  /\ Thread!ToSet(k.prior) \subseteq Thread!ToSet(said)
  /\ k.pc \in {"save", "saving", "load", "open", "fill"} => <<e[1], k.role>> \in Thread!ToSet(said)
  /\ k.pc \in {"idle", "save", "saving", "recall", "think", "send"} => k.role = "user"

\* The handler of plain messages takes a mention up only without the bot's id.
Sole(e, k) ==
  e[1] \in Mention /\ e[2] = "message" /\ k.pc \notin {"idle", "ignored"} => faults > 0

\* How far the memory is behind what was said, when a turn is by itself.
Ordered(e, k) ==
  /\ k.pc \in {"save", "saving", "load"} => said = Append(memory, <<e[1], k.role>>)
  /\ k.pc \in {"open", "fill"} => said = Append(k.seen, <<e[1], k.role>>)
  /\ k.pc \in {"recall", "think", "send", "sorry"} => memory = said
  /\ k.pc \in {"recall", "think"} => said # <<>> /\ Thread!Last(said) = <<e[1], "user">>
  /\ k.pc = "think" => k.prior = Thread!LastOf(Thread!Front(said), Recent - 1)

Apart == \A e, f \in Thread!Event : Thread!Busy(e) /\ Thread!Busy(f) => e = f

ThreadInv ==
  /\ ThreadTypes /\ Thread!ToSet(memory) \subseteq Thread!ToSet(said)
  /\ \A e \in Thread!Event : Heard(e, turn[e]) /\ Sole(e, turn[e])
  /\ ~mixed => Apart
  /\ Thread!Intact /\ ~mixed =>
              /\ \A e \in Thread!Event : Ordered(e, turn[e])
              /\ (\A e \in Thread!Event : ~Thread!Busy(e)) => memory = said

LEMMA ThreadGivesTranscript == ThreadInv => Thread!PriorIsTranscript
<1> SUFFICES ASSUME ThreadInv, NEW e \in Thread!Event, turn[e].pc = "think"
             PROVE  /\ Thread!ToSet(turn[e].prior) \subseteq Thread!ToSet(said)
                    /\ Thread!Intact /\ ~mixed =>
                                /\ Thread!Last(said) = <<e[1], "user">>
                                /\ turn[e].prior = Thread!LastOf(Thread!Front(said), Recent - 1)
  BY DEF Thread!PriorIsTranscript, Thread!At
<1> QED  BY DEF ThreadInv, Heard, Ordered

LEMMA ThreadGivesOneTurn == ThreadInv => Thread!OneTurnPerMention
<1> SUFFICES ASSUME ThreadInv, NEW m \in Mention,
                    turn[<<m, "message">>].pc \notin {"idle", "ignored"}
             PROVE  faults > 0
  BY DEF Thread!OneTurnPerMention
<1>1. PICK e : e = <<m, "message">>  OBVIOUS
<1>2. e \in Thread!Event /\ e[1] \in Mention /\ e[2] = "message"  BY <1>1 DEF Thread!Event
<1> QED  BY <1>1, <1>2 DEF ThreadInv, Sole

LEMMA BusyTyped ==
  ASSUME ThreadTypes, NEW e \in Thread!Event
  PROVE  turn[e] \in TurnRec /\ (Thread!Busy(e) <=> turn[e].pc \in Working)
<1>1. turn[e] \in TurnRec  BY DEF ThreadTypes
<1> QED  BY <1>1 DEF TurnRec, Thread!Busy, Working, Thread!Over

\* A step of one turn.
LEMMA TurnKeeps ==
  ASSUME ThreadInv, NEW e \in Thread!Event, NEW x \in TurnRec, turn' = [turn EXCEPT ![e] = x],
         memory' \in Seq(Lines), said' \in Seq(Lines), faults' \in Nat, faults <= faults',
         crashes' = crashes, mixed' \in BOOLEAN, mixed => mixed',
         Thread!ToSet(said) \subseteq Thread!ToSet(said'),
         Thread!ToSet(memory') \subseteq Thread!ToSet(said'),
         Heard(e, x)', Sole(e, x)',
         ~mixed' /\ x.pc \in Working => \A f \in Thread!Event : f # e => ~Thread!Busy(f),
         ~Thread!Busy(e) /\ x.pc \notin Working => UNCHANGED <<memory, said>>,
         Thread!Intact' /\ ~mixed' => /\ Ordered(e, x)'
                                      /\ Thread!Busy(e) /\ x.pc \notin Working => memory' = said'
  PROVE  ThreadInv'
<1>1. ThreadTypes'  BY DEF ThreadInv, ThreadTypes
<1>2. turn'[e] = x /\ \A f \in Thread!Event : f # e => turn'[f] = turn[f]
  BY DEF ThreadInv, ThreadTypes
<1>3. \A f \in Thread!Event : Thread!Busy(f)' <=> turn'[f].pc \in Working
  BY <1>1, BusyTyped DEF TurnRec, Thread!Busy, Working, Thread!Over, ThreadTypes
<1>4. \A f \in Thread!Event : /\ Thread!Busy(f) <=> turn[f].pc \in Working
                              /\ f # e => (Thread!Busy(f)' <=> Thread!Busy(f))
  BY <1>2, <1>3, BusyTyped DEF ThreadInv
<1>5. \A f \in Thread!Event : Heard(f, turn[f])' /\ Sole(f, turn[f])'
  <2>1. SUFFICES ASSUME NEW f \in Thread!Event PROVE Heard(f, turn[f])' /\ Sole(f, turn[f])'
    OBVIOUS
  <2>2. CASE f = e  BY <1>2, <2>2 DEF Heard, Sole
  <2>3. CASE f # e
    <3>1. PICK k : k = turn[f]  OBVIOUS
    <3>2. turn'[f] = k  BY <1>2, <2>3, <3>1
    <3>3. Heard(f, k) /\ Sole(f, k)  BY <3>1 DEF ThreadInv
    <3>4. Heard(f, k)'  BY <3>3 DEF Heard
    <3>5. faults > 0 => faults' > 0  BY DEF ThreadInv, ThreadTypes
    <3>6. Sole(f, k)'  BY <3>3, <3>5 DEF Sole
    <3> QED  BY <3>2, <3>4, <3>6 DEF Heard, Sole
  <2> QED  BY <2>2, <2>3
<1>6. ~mixed' => Apart'
  <2>1. SUFFICES ASSUME ~mixed', NEW f \in Thread!Event, NEW g \in Thread!Event,
                        Thread!Busy(f)', Thread!Busy(g)'
                 PROVE  f = g
    BY DEF Apart
  <2>2. Apart  BY <2>1 DEF ThreadInv
  <2>3. CASE x.pc \in Working
    <3>1. \A h \in Thread!Event : h # e => ~Thread!Busy(h)'  BY <1>4, <2>1, <2>3
    <3> QED  BY <2>1, <3>1
  <2>4. CASE x.pc \notin Working
    <3>1. ~Thread!Busy(e)'  BY <1>2, <1>3, <2>4
    <3>2. f # e /\ g # e  BY <2>1, <3>1
    <3> QED  BY <1>4, <2>1, <2>2, <3>2 DEF Apart
  <2> QED  BY <2>3, <2>4
<1>7. ASSUME Thread!Intact', ~mixed'
      PROVE  /\ \A f \in Thread!Event : Ordered(f, turn[f])'
             /\ (\A f \in Thread!Event : ~Thread!Busy(f)') => memory' = said'
  <2>1. Thread!Intact /\ ~mixed  BY <1>7 DEF Thread!Intact, ThreadInv, ThreadTypes
  <2>2. Apart  BY <2>1 DEF ThreadInv
  <2>3. ASSUME NEW f \in Thread!Event PROVE Ordered(f, turn[f])'
    <3>1. PICK k : k = turn'[f]  OBVIOUS
    <3>2. CASE f = e  BY <1>2, <1>7, <3>2 DEF Ordered
    <3>3. CASE f # e /\ k.pc \in Working
      <4>1. k = turn[f] /\ Thread!Busy(f)  BY <1>2, <1>4, <3>1, <3>3
      <4>2. x.pc \notin Working  BY <1>7, <3>3, <4>1
      <4>3. ~Thread!Busy(e)  BY <2>2, <3>3, <4>1 DEF Apart
      <4>4. UNCHANGED <<memory, said>>  BY <4>2, <4>3
      <4>5. Ordered(f, k)  BY <2>1, <4>1 DEF ThreadInv
      <4> QED  BY <3>1, <4>4, <4>5 DEF Ordered
    <3>4. CASE k.pc \notin Working  BY <3>1, <3>4 DEF Ordered, Working
    <3> QED  BY <3>2, <3>3, <3>4
  <2>4. ASSUME \A f \in Thread!Event : ~Thread!Busy(f)' PROVE memory' = said'
    <3>1. x.pc \notin Working  BY <1>2, <1>3, <2>4
    <3>2. CASE Thread!Busy(e)  BY <1>7, <3>1, <3>2
    <3>3. CASE ~Thread!Busy(e)
      <4>1. UNCHANGED <<memory, said>>  BY <3>1, <3>3
      <4>2. \A f \in Thread!Event : ~Thread!Busy(f)  BY <1>4, <2>4, <3>3
      <4> QED  BY <2>1, <4>1, <4>2 DEF ThreadInv
    <3> QED  BY <3>2, <3>3
  <2> QED  BY <2>3, <2>4
<1> QED  BY <1>1, <1>5, <1>6, <1>7 DEF ThreadInv

\* A step of a turn under way, at which nothing is said.
LEMMA QuietKeeps ==
  ASSUME ThreadInv, NEW e \in Thread!Event, Thread!Busy(e), NEW x \in TurnRec,
         turn' = [turn EXCEPT ![e] = x],
         memory' \in Seq(Lines), Thread!ToSet(memory') \subseteq Thread!ToSet(said),
         UNCHANGED <<said, mixed, faults, crashes>>, Heard(e, x),
         x.pc \notin {"idle", "ignored"},
         Thread!Intact /\ ~mixed => /\ Ordered(e, x)'
                                    /\ x.pc \notin Working => memory' = said
  PROVE  ThreadInv'
<1>1. Heard(e, x)'  BY DEF Heard
<1>2. turn[e].pc \notin {"idle", "ignored"}
  BY BusyTyped DEF ThreadInv, Working
<1>3. Sole(e, x)'
  <2>1. Sole(e, turn[e])  BY DEF ThreadInv
  <2> QED  BY <1>2, <2>1 DEF Sole
<1>4. Thread!Intact' <=> Thread!Intact  BY DEF Thread!Intact
<1>5. ~mixed => \A f \in Thread!Event : f # e => ~Thread!Busy(f)  BY DEF ThreadInv, Apart
<1>6. said \in Seq(Lines) /\ faults \in Nat /\ mixed \in BOOLEAN  BY DEF ThreadInv, ThreadTypes
<1>7. faults <= faults'  BY <1>6
<1> QED  BY <1>1, <1>3, <1>4, <1>5, <1>6, <1>7, TurnKeeps

\* A turn that only goes on.
LEMMA ToKeeps ==
  ASSUME ThreadInv, NEW e \in Thread!Event, Thread!Busy(e), NEW pc, Thread!To(e, pc),
         memory' \in Seq(Lines), Thread!ToSet(memory') \subseteq Thread!ToSet(said),
         UNCHANGED <<said, mixed, faults, crashes>>,
         pc \in (Working \cup Thread!Over) \ {"ignored"},
         \A k \in TurnRec : turn[e] = k /\ Heard(e, k) => Heard(e, [k EXCEPT !.pc = pc]),
         Thread!Intact /\ ~mixed =>
                  /\ \A k \in TurnRec : turn[e] = k /\ Ordered(e, k) => Ordered(e, [k EXCEPT !.pc = pc])'
                  /\ pc \notin Working => memory' = said
  PROVE  ThreadInv'
<1>1. PICK k : k = turn[e]  OBVIOUS
<1>2. k \in TurnRec  BY <1>1, BusyTyped DEF ThreadInv
<1>3. PICK x : x = [k EXCEPT !.pc = pc]  OBVIOUS
<1>4. x \in TurnRec /\ x.pc = pc  BY <1>2, <1>3 DEF TurnRec
<1>5. turn' = [turn EXCEPT ![e] = x]  BY <1>1, <1>3 DEF Thread!To
<1>6. Heard(e, k)  BY <1>1 DEF ThreadInv
<1>7. Heard(e, x)  BY <1>1, <1>2, <1>3, <1>6
<1>8. Thread!Intact /\ ~mixed => Ordered(e, k)  BY <1>1 DEF ThreadInv
<1>9. Thread!Intact /\ ~mixed => Ordered(e, x)' /\ (x.pc \notin Working => memory' = said)
  BY <1>1, <1>2, <1>3, <1>4, <1>8
<1>10. x.pc \notin {"idle", "ignored"}  BY <1>4 DEF Working, Thread!Over
<1> QED  BY <1>4, <1>5, <1>7, <1>9, <1>10, QuietKeeps

LEMMA LeaveKeeps ==
  ASSUME ThreadInv, NEW e \in Thread!Event, Thread!Busy(e), NEW pc, Thread!Leave(e, pc),
         memory' \in Seq(Lines), Thread!ToSet(memory') \subseteq Thread!ToSet(said),
         UNCHANGED <<said, mixed, crashes>>, faults' \in Nat, faults <= faults',
         pc \in {"recall", "send", "sorry", "answered"},
         Thread!Intact' /\ ~mixed =>
                  /\ memory' = said
                  /\ pc = "recall" => said # <<>> /\ Thread!Last(said) = <<e[1], "user">>
  PROVE  ThreadInv'
<1>1. PICK x : x = [Thread!NoTurn EXCEPT !.pc = pc]  OBVIOUS
<1>2. <<>> \in Seq(Lines)  OBVIOUS
<1>3. x \in TurnRec /\ x.pc = pc /\ x.role = "user" /\ x.seen = <<>> /\ x.prior = <<>>
  BY <1>1, <1>2 DEF Thread!NoTurn, TurnRec, Working, Thread!Over
<1>4. turn' = [turn EXCEPT ![e] = x]  BY <1>1 DEF Thread!Leave
<1>5. Heard(e, x)'  BY <1>3 DEF Heard, Thread!ToSet
<1>6. turn[e].pc \notin {"idle", "ignored"}  BY BusyTyped DEF ThreadInv, Working
<1>7. Sole(e, turn[e])  BY DEF ThreadInv
<1>8. faults \in Nat /\ said \in Seq(Lines) /\ mixed \in BOOLEAN  BY DEF ThreadInv, ThreadTypes
<1>9. Sole(e, x)'  BY <1>6, <1>7, <1>8 DEF Sole
<1>10. Thread!Intact' /\ ~mixed => Ordered(e, x)'  BY <1>3 DEF Ordered
<1>11. ~mixed => \A f \in Thread!Event : f # e => ~Thread!Busy(f)  BY DEF ThreadInv, Apart
<1> QED  BY <1>3, <1>4, <1>5, <1>8, <1>9, <1>10, <1>11, TurnKeeps

\* A turn that begins is by itself, or turns have overlapped.
LEMMA BeginKeeps ==
  ASSUME ThreadInv, NEW e \in Thread!Event, turn[e].pc = "idle", Thread!Begin(e),
         UNCHANGED <<memory, crashes>>, faults' \in Nat, faults <= faults',
         e[1] \in Mention /\ e[2] = "message" => faults' > 0
  PROVE  ThreadInv'
<1>1. PICK k : k = turn[e]  OBVIOUS
<1>2. k \in TurnRec /\ Heard(e, k) /\ ~Thread!Busy(e)
  BY <1>1, BusyTyped DEF ThreadInv, Working
<1>3. PICK x : x = [k EXCEPT !.pc = "save"]  OBVIOUS
<1>4. /\ x \in TurnRec /\ x.pc = "save" /\ x.role = "user"
      /\ Thread!ToSet(x.seen) \subseteq Thread!ToSet(said)
      /\ Thread!ToSet(x.prior) \subseteq Thread!ToSet(said)
  BY <1>1, <1>2, <1>3 DEF TurnRec, Working, Heard
<1>5. PICK line : line = <<e[1], "user">>  OBVIOUS
<1>6. line \in Lines  BY <1>5 DEF Lines, Thread!Event
<1>7. /\ turn' = [turn EXCEPT ![e] = x] /\ said' = Append(said, line)
      /\ mixed' = (mixed \/ \E f \in Thread!Event : Thread!Busy(f))
  BY <1>1, <1>3, <1>5 DEF Thread!Begin, Thread!To
<1>8. said \in Seq(Lines) /\ memory \in Seq(Lines) /\ mixed \in BOOLEAN /\ faults \in Nat
  BY DEF ThreadInv, ThreadTypes
<1>9. said' \in Seq(Lines) /\ Thread!ToSet(said') = Thread!ToSet(said) \cup {line}
  BY <1>6, <1>7, <1>8, AppendedSet
<1>10. Thread!ToSet(memory') \subseteq Thread!ToSet(said')  BY <1>9 DEF ThreadInv
<1>11. Heard(e, x)'  BY <1>4, <1>5, <1>9 DEF Heard
<1>12. Sole(e, x)'  BY DEF Sole
<1>13. ~mixed' => ~mixed /\ \A f \in Thread!Event : ~Thread!Busy(f)  BY <1>7
<1>14. Thread!Intact' => Thread!Intact  BY <1>8 DEF Thread!Intact
<1>15. Thread!Intact' /\ ~mixed' => memory = said  BY <1>13, <1>14 DEF ThreadInv
<1>16. Thread!Intact' /\ ~mixed' => Ordered(e, x)'  BY <1>4, <1>5, <1>7, <1>15 DEF Ordered
<1>17. mixed' \in BOOLEAN  BY <1>7
<1> QED
  BY <1>2, <1>4, <1>7, <1>8, <1>9, <1>10, <1>11, <1>12, <1>13, <1>16, <1>17,
     TurnKeeps DEF Working

LEMMA MentionedKeeps == ASSUME ThreadInv, NEW e \in Thread!Event, Thread!Mentioned(e)
                        PROVE ThreadInv'
<1>1. faults \in Nat  BY DEF ThreadInv, ThreadTypes
<1>2. /\ turn[e].pc = "idle" /\ e[2] = "app_mention" /\ Thread!Begin(e)
      /\ UNCHANGED <<memory, faults, crashes>>
  BY DEF Thread!Mentioned, Thread!At, Thread!OnDisk
<1> QED  BY <1>1, <1>2, BeginKeeps

LEMMA RepliedKeeps == ASSUME ThreadInv, NEW e \in Thread!Event, Thread!Replied(e)
                      PROVE ThreadInv'
<1>1. faults \in Nat  BY DEF ThreadInv, ThreadTypes
<1>2. /\ turn[e].pc = "idle" /\ e[2] = "message" /\ UNCHANGED <<memory, crashes>>
      /\ (bot /\ faults' = faults) \/ (~bot /\ faults' = faults + 1)
  BY DEF Thread!Replied, Thread!At, Thread!OnDisk
<1>3. faults' \in Nat /\ faults <= faults'  BY <1>1, <1>2
<1>4. CASE Thread!ForMe(e, bot)
  <2>1. Thread!Begin(e)  BY <1>4 DEF Thread!Replied
  <2>2. e[1] \in Mention => ~bot  BY <1>4 DEF Thread!ForMe
  <2>3. e[1] \in Mention => faults' > 0  BY <1>1, <1>2, <2>2
  <2> QED  BY <1>2, <1>3, <2>1, <2>3, BeginKeeps
<1>5. CASE ~Thread!ForMe(e, bot)
  <2>1. Thread!To(e, "ignored") /\ UNCHANGED <<said, mixed>>  BY <1>5 DEF Thread!Replied
  <2>2. PICK k : k = turn[e]  OBVIOUS
  <2>3. k \in TurnRec /\ Heard(e, k) /\ ~Thread!Busy(e)
    BY <1>2, <2>2, BusyTyped DEF ThreadInv, Working
  <2>4. PICK x : x = [k EXCEPT !.pc = "ignored"]  OBVIOUS
  <2>5. x \in TurnRec /\ x.pc = "ignored" /\ x.seen = k.seen /\ x.prior = k.prior
    BY <2>3, <2>4 DEF TurnRec, Thread!Over
  <2>6. turn' = [turn EXCEPT ![e] = x]  BY <2>1, <2>2, <2>4 DEF Thread!To
  <2>7. Heard(e, x)' /\ Sole(e, x)'  BY <2>1, <2>3, <2>5 DEF Heard, Sole
  <2>8. Ordered(e, x)'  BY <2>5 DEF Ordered
  <2>9. /\ memory \in Seq(Lines) /\ said \in Seq(Lines) /\ mixed \in BOOLEAN
        /\ Thread!ToSet(memory) \subseteq Thread!ToSet(said)
    BY DEF ThreadInv, ThreadTypes
  <2> QED
    BY <1>2, <1>3, <2>1, <2>3, <2>5, <2>6, <2>7, <2>8, <2>9, TurnKeeps DEF Working
<1> QED  BY <1>4, <1>5

\* What every step of a turn under way starts from.
LEMMA AtFacts ==
  ASSUME ThreadInv, NEW e \in Thread!Event, NEW pc \in Working, Thread!At(e, pc)
  PROVE  /\ Thread!Busy(e) /\ turn[e] \in TurnRec /\ turn[e].pc = pc /\ Heard(e, turn[e])
         /\ memory \in Seq(Lines) /\ said \in Seq(Lines)
         /\ Thread!ToSet(memory) \subseteq Thread!ToSet(said)
         /\ faults \in Nat /\ mixed \in BOOLEAN
         /\ Thread!Intact /\ ~mixed => Ordered(e, turn[e])
<1>1. turn[e].pc = pc  BY DEF Thread!At
<1>2. Thread!Busy(e) /\ turn[e] \in TurnRec  BY <1>1, BusyTyped DEF ThreadInv
<1> QED  BY <1>1, <1>2 DEF ThreadInv, ThreadTypes

LEMMA RouteKeeps ==
  ASSUME ThreadInv, NEW e \in Thread!Event, Thread!OpenRoute(e) \/ Thread!FillRoute(e)
  PROVE ThreadInv'
<1>1. PICK old \in {"save", "saving"}, pc \in {"saving", "load"} :
        /\ Thread!At(e, old) /\ Thread!To(e, pc)
        /\ UNCHANGED <<memory, said, mixed, faults, crashes>>
  BY DEF Thread!OpenRoute, Thread!FillRoute, Thread!OnDisk, Thread!History
<1>2. old \in Working /\ pc \in Working  BY DEF Working
<1>3. /\ Thread!Busy(e) /\ turn[e].pc = old /\ memory \in Seq(Lines)
      /\ Thread!ToSet(memory) \subseteq Thread!ToSet(said)
  BY <1>1, <1>2, AtFacts
<1>4. \A k \in TurnRec : turn[e] = k /\ Heard(e, k) => Heard(e, [k EXCEPT !.pc = pc])
  BY <1>3 DEF TurnRec, Heard
<1>5. \A k \in TurnRec : turn[e] = k /\ Ordered(e, k) => Ordered(e, [k EXCEPT !.pc = pc])'
  BY <1>1, <1>3 DEF TurnRec, Ordered
<1>6. pc \in (Working \cup Thread!Over) \ {"ignored"}  BY DEF Working
<1> QED  BY <1>1, <1>2, <1>3, <1>4, <1>5, <1>6, ToKeeps

LEMMA LoadKeeps == ASSUME ThreadInv, NEW e \in Thread!Event, Thread!Load(e) PROVE ThreadInv'
<1>1. /\ Thread!At(e, "load") /\ UNCHANGED <<memory, said, mixed, faults, crashes>>
      /\ turn' = [turn EXCEPT ![e].pc = "open", ![e].seen = memory]
  BY DEF Thread!Load, Thread!OnDisk, Thread!History
<1>2. PICK k : k = turn[e]  OBVIOUS
<1>3. /\ Thread!Busy(e) /\ k \in TurnRec /\ k.pc = "load" /\ Heard(e, k)
      /\ memory \in Seq(Lines)
      /\ Thread!ToSet(memory) \subseteq Thread!ToSet(said)
      /\ (Thread!Intact /\ ~mixed => Ordered(e, k))
  BY <1>1, <1>2, AtFacts DEF Working
<1>4. PICK x : x = [k EXCEPT !.pc = "open", !.seen = memory]  OBVIOUS
<1>5. /\ x \in TurnRec /\ x.pc = "open" /\ x.seen = memory /\ x.role = k.role
      /\ x.prior = k.prior
  BY <1>3, <1>4 DEF TurnRec, Working
<1>6. turn' = [turn EXCEPT ![e] = x]  BY <1>1, <1>2, <1>4
<1>7. Heard(e, x)  BY <1>3, <1>5 DEF Heard
<1>8. Thread!Intact /\ ~mixed => Ordered(e, x)'  BY <1>1, <1>3, <1>5 DEF Ordered
<1> QED  BY <1>1, <1>3, <1>5, <1>6, <1>7, <1>8, QuietKeeps DEF Working

LEMMA OpenKeeps == ASSUME ThreadInv, NEW e \in Thread!Event, Thread!Open(e) PROVE ThreadInv'
<1>1. /\ Thread!At(e, "open") /\ Thread!To(e, "fill") /\ memory' = <<>>
      /\ UNCHANGED <<said, mixed, faults, crashes>>
  BY DEF Thread!Open, Thread!History
<1>2. "open" \in Working /\ "fill" \in (Working \cup Thread!Over) \ {"ignored"}
      /\ "fill" \in Working
  BY DEF Working
<1>3. Thread!Busy(e) /\ turn[e].pc = "open"  BY <1>1, <1>2, AtFacts
<1>4. memory' \in Seq(Lines) /\ Thread!ToSet(memory') \subseteq Thread!ToSet(said)
  BY <1>1 DEF Thread!ToSet
<1>5. \A k \in TurnRec : turn[e] = k /\ Heard(e, k) => Heard(e, [k EXCEPT !.pc = "fill"])
  BY <1>3 DEF TurnRec, Heard
<1>6. \A k \in TurnRec : turn[e] = k /\ Ordered(e, k) => Ordered(e, [k EXCEPT !.pc = "fill"])'
  BY <1>1, <1>3 DEF TurnRec, Ordered
<1> QED  BY <1>1, <1>2, <1>3, <1>4, <1>5, <1>6, ToKeeps

LEMMA FillKeeps == ASSUME ThreadInv, NEW e \in Thread!Event, Thread!Fill(e) PROVE ThreadInv'
<1>1. PICK k : k = turn[e]  OBVIOUS
<1>2. PICK line : line = <<e[1], k.role>>  OBVIOUS
<1>3. PICK pc : pc = IF k.role = "user" THEN "recall" ELSE "answered"  OBVIOUS
<1>4. /\ Thread!At(e, "fill") /\ memory' = Append(k.seen, line) /\ Thread!Leave(e, pc)
      /\ UNCHANGED <<said, mixed, faults, crashes>>
  BY <1>1, <1>2, <1>3 DEF Thread!Fill, Thread!History
<1>5. /\ Thread!Busy(e) /\ k \in TurnRec /\ k.pc = "fill" /\ Heard(e, k) /\ faults \in Nat
      /\ (Thread!Intact /\ ~mixed => Ordered(e, k))
  BY <1>1, <1>4, AtFacts DEF Working
<1>6. k.seen \in Seq(Lines) /\ line \in Lines /\ line \in Thread!ToSet(said)
      /\ Thread!ToSet(k.seen) \subseteq Thread!ToSet(said)
  BY <1>2, <1>5 DEF TurnRec, Lines, Thread!Event, Heard
<1>7. memory' \in Seq(Lines) /\ Thread!ToSet(memory') \subseteq Thread!ToSet(said)
  BY <1>4, <1>6, AppendedSet
<1>8. Thread!Intact' /\ ~mixed => said = memory'
  BY <1>2, <1>4, <1>5 DEF Thread!Intact, Ordered
<1>9. Thread!Last(Append(k.seen, line)) = line /\ Append(k.seen, line) # <<>>
  BY <1>6 DEF Thread!Last
<1>10. pc = "recall" => line = <<e[1], "user">>  BY <1>2, <1>3
<1>11. Thread!Intact' /\ ~mixed /\ pc = "recall" => said # <<>> /\ Thread!Last(said) = <<e[1], "user">>
  BY <1>4, <1>8, <1>9, <1>10
<1>12. faults' \in Nat /\ faults <= faults'  BY <1>4, <1>5
<1> QED  BY <1>3, <1>4, <1>5, <1>7, <1>8, <1>11, <1>12, LeaveKeeps

LEMMA RecallKeeps == ASSUME ThreadInv, NEW e \in Thread!Event, Thread!Recall(e) PROVE ThreadInv'
<1>1. /\ Thread!At(e, "recall") /\ UNCHANGED <<memory, said, mixed, faults, crashes>>
      /\ turn' = [turn EXCEPT ![e].pc = "think", ![e].prior = Thread!Prior(memory)]
  BY DEF Thread!Recall, Thread!OnDisk, Thread!History
<1>2. PICK k : k = turn[e]  OBVIOUS
<1>3. /\ Thread!Busy(e) /\ k \in TurnRec /\ k.pc = "recall" /\ Heard(e, k)
      /\ memory \in Seq(Lines)
      /\ Thread!ToSet(memory) \subseteq Thread!ToSet(said)
      /\ (Thread!Intact /\ ~mixed => Ordered(e, k))
  BY <1>1, <1>2, AtFacts DEF Working
<1>4. PICK prior : prior = Thread!Prior(memory)  OBVIOUS
<1>5. prior \in Seq(Lines) /\ Thread!ToSet(prior) \subseteq Thread!ToSet(said)
  BY <1>3, <1>4, PriorIsPart
<1>6. PICK x : x = [k EXCEPT !.pc = "think", !.prior = prior]  OBVIOUS
<1>7. /\ x \in TurnRec /\ x.pc = "think" /\ x.seen = k.seen /\ x.role = k.role
      /\ x.prior = prior
  BY <1>3, <1>5, <1>6 DEF TurnRec, Working
<1>8. turn' = [turn EXCEPT ![e] = x]  BY <1>1, <1>2, <1>4, <1>6
<1>9. Heard(e, x)  BY <1>3, <1>5, <1>7 DEF Heard
<1>10. Thread!Intact /\ ~mixed => Ordered(e, x)'
  <2>1. SUFFICES ASSUME Thread!Intact, ~mixed PROVE Ordered(e, x)'  OBVIOUS
  <2>2. memory = said /\ said # <<>> /\ Thread!Last(said) = <<e[1], "user">>
    BY <1>3, <2>1 DEF Ordered
  <2>3. prior = Thread!LastOf(Thread!Front(said), Recent - 1)
    BY <1>3, <1>4, <2>2, PriorIsRecent
  <2> QED  BY <1>1, <1>7, <2>2, <2>3 DEF Ordered
<1> QED  BY <1>1, <1>3, <1>7, <1>8, <1>9, <1>10, QuietKeeps DEF Working

LEMMA ThinkKeeps == ASSUME ThreadInv, NEW e \in Thread!Event, Thread!Think(e) PROVE ThreadInv'
<1>1. Thread!At(e, "think") /\ UNCHANGED <<memory, said, mixed, faults, crashes>>
  BY DEF Thread!Think, Thread!OnDisk, Thread!History
<1>2. PICK k : k = turn[e]  OBVIOUS
<1>3. /\ Thread!Busy(e) /\ k \in TurnRec /\ k.pc = "think" /\ Heard(e, k)
      /\ memory \in Seq(Lines)
      /\ Thread!ToSet(memory) \subseteq Thread!ToSet(said)
      /\ (Thread!Intact /\ ~mixed => Ordered(e, k))
      /\ faults \in Nat
  BY <1>1, <1>2, AtFacts DEF Working
<1>4. CASE \E pc \in {"send", "sorry"} : Thread!Leave(e, pc)
  <2>1. PICK pc \in {"send", "sorry"} : Thread!Leave(e, pc)  BY <1>4
  <2>2. Thread!Intact' /\ ~mixed => memory' = said
    BY <1>1, <1>3 DEF Thread!Intact, Ordered
  <2>3. faults' \in Nat /\ faults <= faults' /\ memory' = memory  BY <1>1, <1>3
  <2> QED  BY <1>1, <1>3, <2>1, <2>2, <2>3, LeaveKeeps
<1>5. CASE turn' = [turn EXCEPT ![e].round = @ + 1]
  <2>1. PICK x : x = [k EXCEPT !.round = @ + 1]  OBVIOUS
  <2>2. /\ x \in TurnRec /\ x.pc = "think" /\ x.seen = k.seen /\ x.role = k.role
        /\ x.prior = k.prior
    BY <1>3, <2>1 DEF TurnRec
  <2>3. turn' = [turn EXCEPT ![e] = x]  BY <1>2, <1>5, <2>1
  <2>4. Heard(e, x)  BY <1>3, <2>2 DEF Heard
  <2>5. Thread!Intact /\ ~mixed => Ordered(e, x)'  BY <1>1, <1>3, <2>2 DEF Ordered
  <2> QED  BY <1>1, <1>3, <2>2, <2>3, <2>4, <2>5, QuietKeeps DEF Working
<1> QED  BY <1>4, <1>5 DEF Thread!Think

LEMMA SendKeeps == ASSUME ThreadInv, NEW e \in Thread!Event, Thread!Send(e) PROVE ThreadInv'
<1>1. Thread!At(e, "send") /\ UNCHANGED <<memory, mixed, faults, crashes>>
  BY DEF Thread!Send, Thread!OnDisk
<1>2. PICK k : k = turn[e]  OBVIOUS
<1>3. /\ Thread!Busy(e) /\ k \in TurnRec /\ k.pc = "send" /\ Heard(e, k)
      /\ memory \in Seq(Lines)
      /\ said \in Seq(Lines) /\ Thread!ToSet(memory) \subseteq Thread!ToSet(said)
      /\ faults \in Nat
      /\ mixed \in BOOLEAN /\ (Thread!Intact /\ ~mixed => Ordered(e, k))
  BY <1>1, <1>2, AtFacts DEF Working
<1>4. CASE /\ turn' = [turn EXCEPT ![e].pc = "load", ![e].role = "assistant"]
           /\ said' = Append(said, <<e[1], "assistant">>)
  <2>1. PICK x : x = [k EXCEPT !.pc = "load", !.role = "assistant"]  OBVIOUS
  <2>2. /\ x \in TurnRec /\ x.pc = "load" /\ x.seen = k.seen /\ x.role = "assistant"
        /\ x.prior = k.prior
    BY <1>3, <2>1 DEF TurnRec, Working
  <2>3. turn' = [turn EXCEPT ![e] = x]  BY <1>2, <1>4, <2>1
  <2>4. PICK line : line = <<e[1], "assistant">>  OBVIOUS
  <2>5. line \in Lines  BY <2>4 DEF Lines, Thread!Event
  <2>6. said' \in Seq(Lines) /\ Thread!ToSet(said') = Thread!ToSet(said) \cup {line}
    <3>1. said' = Append(said, line)  BY <1>4, <2>4
    <3> QED  BY <1>3, <2>5, <3>1, AppendedSet
  <2>7. Heard(e, x)'  BY <1>3, <2>2, <2>4, <2>6 DEF Heard
  <2>8. Sole(e, x)'
    <3>1. Sole(e, k)  BY <1>2 DEF ThreadInv
    <3> QED  BY <1>1, <1>3, <3>1 DEF Sole
  <2>9. Thread!Intact' /\ ~mixed' => Ordered(e, x)'
    BY <1>1, <1>3, <1>4, <2>2 DEF Thread!Intact, Ordered
  <2>10. ~mixed => \A f \in Thread!Event : f # e => ~Thread!Busy(f)
    BY <1>3 DEF ThreadInv, Apart
  <2>11. /\ memory' \in Seq(Lines) /\ mixed' \in BOOLEAN /\ faults' \in Nat /\ faults <= faults'
         /\ Thread!ToSet(memory') \subseteq Thread!ToSet(said')
         /\ Thread!ToSet(said) \subseteq Thread!ToSet(said')
    BY <1>1, <1>3, <2>6
  <2>12. x.pc \in Working  BY <2>2 DEF Working
  <2> QED
    BY <1>1, <1>3, <2>2, <2>3, <2>6, <2>7, <2>8, <2>9, <2>10, <2>11, <2>12, TurnKeeps
<1>5. CASE \E pc \in {"unanswered", "sorry"} : Thread!To(e, pc) /\ UNCHANGED said
  <2>1. PICK pc \in {"unanswered", "sorry"} : Thread!To(e, pc) /\ UNCHANGED said  BY <1>5
  <2>2. pc \in (Working \cup Thread!Over) \ {"ignored"}  BY DEF Working, Thread!Over
  <2>3. \A q \in TurnRec : turn[e] = q /\ Heard(e, q) => Heard(e, [q EXCEPT !.pc = pc])
    BY <1>2, <1>3, <2>1 DEF TurnRec, Heard
  <2>4. \A q \in TurnRec : turn[e] = q /\ Ordered(e, q) => Ordered(e, [q EXCEPT !.pc = pc])'
    BY <1>1, <1>2, <1>3, <2>1 DEF TurnRec, Ordered
  <2>5. Thread!Intact /\ ~mixed => memory' = said  BY <1>1, <1>3 DEF Ordered
  <2> QED  BY <1>1, <1>3, <2>1, <2>2, <2>3, <2>4, <2>5, ToKeeps
<1> QED  BY <1>4, <1>5 DEF Thread!Send

LEMMA ApologiseKeeps == ASSUME ThreadInv, NEW e \in Thread!Event, Thread!Apologise(e)
                        PROVE ThreadInv'
<1>1. /\ Thread!At(e, "sorry") /\ Thread!To(e, "apologised")
      /\ UNCHANGED <<memory, said, mixed, faults, crashes>>
  BY DEF Thread!Apologise, Thread!OnDisk, Thread!History
<1>2. /\ Thread!Busy(e) /\ turn[e].pc = "sorry" /\ memory \in Seq(Lines)
      /\ Thread!ToSet(memory) \subseteq Thread!ToSet(said)
      /\ (Thread!Intact /\ ~mixed => Ordered(e, turn[e]))
  BY <1>1, AtFacts DEF Working
<1>3. "apologised" \in (Working \cup Thread!Over) \ {"ignored"}  BY DEF Thread!Over
<1>4. \A k \in TurnRec : turn[e] = k /\ Heard(e, k) => Heard(e, [k EXCEPT !.pc = "apologised"])
  BY <1>2 DEF TurnRec, Heard
<1>5. \A k \in TurnRec : turn[e] = k /\ Ordered(e, k)
                          => Ordered(e, [k EXCEPT !.pc = "apologised"])'
  BY <1>1, <1>2 DEF TurnRec, Ordered
<1>6. Thread!Intact /\ ~mixed => memory' = said  BY <1>1, <1>2 DEF Ordered
<1> QED  BY <1>1, <1>2, <1>3, <1>4, <1>5, <1>6, ToKeeps

LEMMA FaultsKeep ==
  ASSUME ThreadInv, NEW e \in Thread!Event, Thread!WriteFails(e) \/ Thread!ReadFails(e)
  PROVE ThreadInv'
<1>1. PICK k : k = turn[e]  OBVIOUS
<1>2. faults' = faults + 1 /\ UNCHANGED <<memory, said, mixed, crashes>>
  BY DEF Thread!WriteFails, Thread!ReadFails, Thread!OnDisk, Thread!History
<1>3. k.pc \in Working /\ Thread!At(e, k.pc)
  BY <1>1 DEF Thread!WriteFails, Thread!ReadFails, Thread!At, Working
<1>4. /\ Thread!Busy(e) /\ k \in TurnRec /\ Heard(e, k) /\ memory \in Seq(Lines)
      /\ said \in Seq(Lines)
      /\ Thread!ToSet(memory) \subseteq Thread!ToSet(said) /\ faults \in Nat
      /\ mixed \in BOOLEAN
  BY <1>1, <1>3, AtFacts
<1>5. ~Thread!Intact' /\ faults' \in Nat /\ faults <= faults' /\ faults' > 0
  BY <1>2, <1>4 DEF Thread!Intact
<1>6. CASE Thread!Leave(e, "sorry")
  BY <1>2, <1>4, <1>5, <1>6, LeaveKeeps
<1>7. CASE k.pc = "load" /\ turn' = [turn EXCEPT ![e].pc = "open", ![e].seen = <<>>]
  <2>1. PICK x : x = [k EXCEPT !.pc = "open", !.seen = <<>>]  OBVIOUS
  <2>2. <<>> \in Seq(Lines)  OBVIOUS
  <2>3. /\ x \in TurnRec /\ x.pc = "open" /\ x.seen = <<>> /\ x.role = k.role
        /\ x.prior = k.prior
    BY <1>4, <2>1, <2>2 DEF TurnRec, Working
  <2>4. turn' = [turn EXCEPT ![e] = x]  BY <1>1, <1>7, <2>1
  <2>5. Heard(e, x)'
    <3>1. Thread!ToSet(x.seen) = {}  BY <2>3 DEF Thread!ToSet
    <3>2. k.pc = "load"  BY <1>7
    <3> QED  BY <1>2, <1>4, <2>3, <3>1, <3>2 DEF Heard
  <2>6. Sole(e, x)'  BY <1>5 DEF Sole
  <2>7. ~mixed => \A f \in Thread!Event : f # e => ~Thread!Busy(f)  BY <1>4 DEF ThreadInv, Apart
  <2> QED  BY <1>2, <1>4, <1>5, <2>3, <2>4, <2>5, <2>6, <2>7, TurnKeeps
<1>8. CASE k.pc = "recall" /\ turn' = [turn EXCEPT ![e].pc = "think", ![e].prior = <<>>]
  <2>1. PICK x : x = [k EXCEPT !.pc = "think", !.prior = <<>>]  OBVIOUS
  <2>2. <<>> \in Seq(Lines)  OBVIOUS
  <2>3. /\ x \in TurnRec /\ x.pc = "think" /\ x.prior = <<>> /\ x.role = k.role
        /\ x.seen = k.seen
    BY <1>4, <2>1, <2>2 DEF TurnRec, Working
  <2>4. turn' = [turn EXCEPT ![e] = x]  BY <1>1, <1>8, <2>1
  <2>5. Heard(e, x)'
    <3>1. Thread!ToSet(x.prior) = {}  BY <2>3 DEF Thread!ToSet
    <3>2. k.pc = "recall"  BY <1>8
    <3> QED  BY <1>2, <1>4, <2>3, <3>1, <3>2 DEF Heard
  <2>6. Sole(e, x)'  BY <1>5 DEF Sole
  <2>7. ~mixed => \A f \in Thread!Event : f # e => ~Thread!Busy(f)  BY <1>4 DEF ThreadInv, Apart
  <2> QED  BY <1>2, <1>4, <1>5, <2>3, <2>4, <2>5, <2>6, <2>7, TurnKeeps
<1> QED  BY <1>1, <1>6, <1>7, <1>8 DEF Thread!WriteFails, Thread!ReadFails, Thread!At

LEMMA CrashKeepsThread == ASSUME ThreadInv, Thread!Crash PROVE ThreadInv'
<1>1. /\ turn' = [e \in Thread!Event |-> IF Thread!Busy(e) THEN [Thread!NoTurn EXCEPT !.pc = "lost"] ELSE turn[e]]
      /\ crashes' = crashes + 1 /\ UNCHANGED <<memory, said, mixed, faults>>
  BY DEF Thread!Crash, Thread!OnDisk, Thread!History
<1>2. ThreadTypes /\ faults \in Nat /\ crashes \in Nat  BY DEF ThreadInv, ThreadTypes
<1>3. ~Thread!Intact'  BY <1>1, <1>2 DEF Thread!Intact
<1>4. PICK gone : gone = [Thread!NoTurn EXCEPT !.pc = "lost"]  OBVIOUS
<1>5. /\ gone \in TurnRec /\ gone.pc = "lost" /\ gone.seen = <<>> /\ gone.prior = <<>>
  <2>1. <<>> \in Seq(Lines)  OBVIOUS
  <2> QED  BY <1>4, <2>1 DEF Thread!NoTurn, TurnRec, Thread!Over
<1>6. \A e \in Thread!Event : turn'[e] = IF Thread!Busy(e) THEN gone ELSE turn[e]  BY <1>1, <1>4
<1>7. \A e \in Thread!Event : turn[e] \in TurnRec /\ (Thread!Busy(e) <=> turn[e].pc \in Working)
  BY <1>2, BusyTyped
<1>8. ThreadTypes'
  <2>1. turn' \in [Thread!Event -> TurnRec]  BY <1>1, <1>4, <1>5, <1>7
  <2> QED  BY <1>1, <1>2, <2>1 DEF ThreadTypes
<1>9. \A e \in Thread!Event : ~Thread!Busy(e)'
  <2>1. SUFFICES ASSUME NEW e \in Thread!Event PROVE ~Thread!Busy(e)'  OBVIOUS
  <2>2. turn'[e].pc \notin Working
    BY <1>5, <1>6, <1>7 DEF Working
  <2> QED  BY <1>8, <2>2, BusyTyped DEF ThreadTypes, TurnRec, Thread!Busy, Working, Thread!Over
<1>10. \A e \in Thread!Event : Heard(e, turn[e])' /\ Sole(e, turn[e])'
  <2>1. SUFFICES ASSUME NEW e \in Thread!Event PROVE Heard(e, turn[e])' /\ Sole(e, turn[e])'
    OBVIOUS
  <2>2. Heard(e, turn[e]) /\ Sole(e, turn[e])  BY DEF ThreadInv
  <2>3. CASE Thread!Busy(e)
    <3>1. turn'[e] = gone  BY <1>6, <2>3
    <3>2. turn[e].pc \notin {"idle", "ignored"}  BY <1>7, <2>3 DEF Working
    <3>3. Heard(e, turn[e])'  BY <1>5, <3>1 DEF Heard, Thread!ToSet
    <3>4. Sole(e, turn[e])'  BY <1>1, <2>2, <3>2 DEF Sole
    <3> QED  BY <3>3, <3>4
  <2>4. CASE ~Thread!Busy(e)
    <3>1. turn'[e] = turn[e]  BY <1>6, <2>4
    <3> QED  BY <1>1, <2>2, <3>1 DEF Heard, Sole
  <2> QED  BY <2>3, <2>4
<1>11. Apart'  BY <1>9 DEF Apart
<1>12. (Thread!ToSet(memory) \subseteq Thread!ToSet(said))'  BY <1>1 DEF ThreadInv
<1> QED  BY <1>3, <1>8, <1>10, <1>11, <1>12 DEF ThreadInv

LEMMA ThreadStart == Thread!Init => ThreadInv
<1> SUFFICES ASSUME Thread!Init PROVE ThreadInv  OBVIOUS
<1>1. <<>> \in Seq(Lines)  OBVIOUS
<1>2. /\ memory = <<>> /\ said = <<>> /\ mixed = FALSE /\ faults = 0 /\ crashes = 0
      /\ turn = [e \in Thread!Event |-> Thread!NoTurn]
  BY DEF Thread!Init
<1>3. /\ Thread!NoTurn \in TurnRec /\ Thread!NoTurn.pc = "idle" /\ Thread!NoTurn.role = "user"
      /\ Thread!NoTurn.seen = <<>> /\ Thread!NoTurn.prior = <<>>
  BY <1>1 DEF Thread!NoTurn, TurnRec
<1>4. \A e \in Thread!Event : turn[e] = Thread!NoTurn  BY <1>2
<1>5. ThreadTypes  BY <1>1, <1>2, <1>3 DEF ThreadTypes
<1>6. \A e \in Thread!Event : ~Thread!Busy(e)  BY <1>3, <1>4, <1>5, BusyTyped DEF Working
<1>7. \A e \in Thread!Event : Heard(e, turn[e]) /\ Sole(e, turn[e]) /\ Ordered(e, turn[e])
  BY <1>3, <1>4 DEF Heard, Sole, Ordered, Thread!ToSet
<1>8. Thread!ToSet(memory) \subseteq Thread!ToSet(said)  BY <1>2
<1> QED  BY <1>2, <1>5, <1>6, <1>7, <1>8 DEF ThreadInv, Apart

LEMMA ThreadNext == ASSUME ThreadInv, [Thread!Next]_(Thread!vars) PROVE ThreadInv'
<1>1. CASE UNCHANGED <<memory, said, mixed, faults, crashes, turn>>
  BY <1>1 DEF ThreadInv, ThreadTypes, Heard, Sole, Ordered, Apart, Thread!Busy, Thread!Intact
<1>2. CASE Thread!Next
  <2>1. CASE Thread!LearnBot  BY <1>1, <2>1 DEF Thread!LearnBot, Thread!OnDisk, Thread!History
  <2>2. CASE Thread!Crash  BY <2>2, CrashKeepsThread
  <2>3. ASSUME NEW e \in Thread!Event,
               Thread!Mentioned(e) \/ Thread!Replied(e) \/ Thread!WriteFails(e) \/ Thread!ReadFails(e)
        PROVE  ThreadInv'
    BY <2>3, MentionedKeeps, RepliedKeeps, FaultsKeep
  <2>4. ASSUME NEW e \in Thread!Event, Thread!Step(e) PROVE ThreadInv'
    BY <2>4, RouteKeeps, LoadKeeps, OpenKeeps, FillKeeps, RecallKeeps, ThinkKeeps, SendKeeps,
       ApologiseKeeps DEF Thread!Step
  <2> QED  BY <1>2, <2>1, <2>2, <2>3, <2>4 DEF Thread!Next
<1> QED  BY <1>1, <1>2 DEF Thread!vars

\* What a thread's turns know of what was said, at each of their steps
\* (threadMemory.js).
THEOREM ThreadInvariant == Thread!Init /\ [][Thread!Next]_(Thread!vars) => []ThreadInv
<1>1. ThreadInv /\ [Thread!Next]_(Thread!vars) => ThreadInv'  BY ThreadNext
<1> QED  BY <1>1, ThreadStart, PTL

-----------------------------------------------------------------------------
(* A thread's counters and its route file. *)

Counted(k) == k.round \in 0..MaxRounds /\ Len(k.prior) <= Recent

\* While nothing failed, a thread that was greeted once has its route on file or
\* a turn that is about to fill the file.
RouteKept ==
  Thread!Intact /\ greeted => routed \/ \E e \in Thread!Event : Thread!At(e, "saving")

RouteInv ==
  /\ ThreadInv /\ {routed, bot, greeted} \subseteq BOOLEAN
  /\ faults <= MaxFaults /\ crashes <= MaxCrashes
  /\ \A e \in Thread!Event : Counted(turn[e])
  /\ RouteKept

LEMMA RouteGivesTypes == RouteInv => Thread!TypeOK
<1> SUFFICES ASSUME RouteInv PROVE Thread!TypeOK  OBVIOUS
<1>1. mixed \in BOOLEAN /\ faults \in Nat /\ crashes \in Nat
  BY DEF RouteInv, ThreadInv, ThreadTypes
<1>2. \A e \in Thread!Event : turn[e].pc \in {"idle"} \cup Working \cup Thread!Over
  BY BusyTyped DEF RouteInv, ThreadInv, TurnRec
<1>3. MaxFaults \in Nat /\ MaxCrashes \in Nat  BY PartsAssumption
<1>4. \A e \in Thread!Event : turn[e].round \in 0..MaxRounds /\ Len(turn[e].prior) <= Recent
  BY DEF RouteInv, Counted
<1>5. {routed, bot, greeted, mixed} \subseteq BOOLEAN  BY <1>1 DEF RouteInv
<1>6. faults \in 0..MaxFaults /\ crashes \in 0..MaxCrashes  BY <1>1, <1>3 DEF RouteInv
<1> QED  BY <1>2, <1>4, <1>5, <1>6 DEF Thread!TypeOK, Working

LEMMA PriorIsShort ==
  ASSUME NEW s \in Seq(Lines) PROVE Len(Thread!Prior(s)) <= Recent
<1>1. Recent \in Nat  BY PartsAssumption
<1>2. PICK t : t = Thread!LastOf(s, Recent)  OBVIOUS
<1>3. t \in Seq(Lines) /\ Len(t) = IF Len(s) > Recent THEN Recent ELSE Len(s)
  BY <1>1, <1>2, LastOfIsPart
<1>4. Len(s) \in Nat /\ Len(t) <= Recent /\ Len(t) \in Nat  BY <1>1, <1>3
<1>5. t # <<>> => Len(Thread!Front(t)) = Len(t) - 1  BY <1>3, FrontIsPart
<1>6. Thread!Prior(s) \in {t, Thread!Front(t)} /\ (t = <<>> => Thread!Prior(s) = t)
  BY <1>2 DEF Thread!Prior
<1> QED  BY <1>1, <1>4, <1>5, <1>6

\* What a step makes of its turn.
LEMMA TurnCounted ==
  ASSUME RouteInv, NEW e \in Thread!Event,
         \/ Thread!Mentioned(e) \/ Thread!Replied(e) \/ Thread!Step(e)
         \/ Thread!WriteFails(e) \/ Thread!ReadFails(e)
  PROVE  \E x : turn' = [turn EXCEPT ![e] = x] /\ Counted(x)
<1>1. PICK k : k = turn[e]  OBVIOUS
<1>2. k \in TurnRec /\ Counted(k)  BY <1>1, BusyTyped DEF RouteInv, ThreadInv
<1>3. MaxRounds \in Nat /\ Recent \in Nat  BY PartsAssumption
<1>4. ASSUME NEW pc, Thread!To(e, pc) PROVE \E x : turn' = [turn EXCEPT ![e] = x] /\ Counted(x)
  <2>1. PICK x : x = [k EXCEPT !.pc = pc]  OBVIOUS
  <2>2. x.round = k.round /\ x.prior = k.prior  BY <1>2, <2>1 DEF TurnRec
  <2>3. Counted(x)  BY <1>2, <2>2 DEF Counted
  <2>4. turn' = [turn EXCEPT ![e] = x]  BY <1>1, <1>4, <2>1 DEF Thread!To
  <2> QED  BY <2>3, <2>4
<1>5. ASSUME NEW pc, Thread!Leave(e, pc)
      PROVE  \E x : turn' = [turn EXCEPT ![e] = x] /\ Counted(x)
  <2>1. PICK x : x = [Thread!NoTurn EXCEPT !.pc = pc]  OBVIOUS
  <2>2. x.round = 0 /\ x.prior = <<>>  BY <2>1 DEF Thread!NoTurn
  <2>3. Counted(x)  BY <1>3, <2>2 DEF Counted
  <2>4. turn' = [turn EXCEPT ![e] = x]  BY <1>5, <2>1 DEF Thread!Leave
  <2> QED  BY <2>3, <2>4
<1>6. ASSUME NEW seen, turn' = [turn EXCEPT ![e].pc = "open", ![e].seen = seen]
      PROVE  \E x : turn' = [turn EXCEPT ![e] = x] /\ Counted(x)
  <2>1. PICK x : x = [k EXCEPT !.pc = "open", !.seen = seen]  OBVIOUS
  <2>2. x.round = k.round /\ x.prior = k.prior  BY <1>2, <2>1 DEF TurnRec
  <2>3. Counted(x)  BY <1>2, <2>2 DEF Counted
  <2>4. turn' = [turn EXCEPT ![e] = x]  BY <1>1, <1>6, <2>1
  <2> QED  BY <2>3, <2>4
<1>7. CASE Thread!Recall(e)
  <2>1. PICK p : p = Thread!Prior(memory)  OBVIOUS
  <2>2. PICK x : x = [k EXCEPT !.pc = "think", !.prior = p]  OBVIOUS
  <2>3. x.round = k.round /\ x.prior = p  BY <1>2, <2>2 DEF TurnRec
  <2>4. Len(p) <= Recent  BY <2>1, PriorIsShort DEF RouteInv, ThreadInv, ThreadTypes
  <2>5. Counted(x)  BY <1>2, <2>3, <2>4 DEF Counted
  <2>6. turn' = [turn EXCEPT ![e] = x]  BY <1>1, <1>7, <2>1, <2>2 DEF Thread!Recall
  <2> QED  BY <2>5, <2>6
<1>8. CASE Thread!Think(e)
  <2>1. CASE \E pc : Thread!Leave(e, pc)  BY <1>5, <2>1
  <2>2. CASE k.round + 1 < MaxRounds /\ turn' = [turn EXCEPT ![e].round = @ + 1]
    <3>1. PICK x : x = [k EXCEPT !.round = @ + 1]  OBVIOUS
    <3>2. x.round = k.round + 1 /\ x.prior = k.prior  BY <1>2, <3>1 DEF TurnRec
    <3>3. Counted(x)  BY <1>2, <1>3, <2>2, <3>2 DEF Counted
    <3>4. turn' = [turn EXCEPT ![e] = x]  BY <1>1, <2>2, <3>1
    <3> QED  BY <3>3, <3>4
  <2> QED  BY <1>1, <1>8, <2>1, <2>2 DEF Thread!Think
<1>9. CASE Thread!Send(e)
  <2>1. CASE turn' = [turn EXCEPT ![e].pc = "load", ![e].role = "assistant"]
    <3>1. PICK x : x = [k EXCEPT !.pc = "load", !.role = "assistant"]  OBVIOUS
    <3>2. x.round = k.round /\ x.prior = k.prior  BY <1>2, <3>1 DEF TurnRec
    <3>3. Counted(x)  BY <1>2, <3>2 DEF Counted
    <3>4. turn' = [turn EXCEPT ![e] = x]  BY <1>1, <2>1, <3>1
    <3> QED  BY <3>3, <3>4
  <2>2. CASE \E pc : Thread!To(e, pc)  BY <1>4, <2>2
  <2> QED  BY <1>9, <2>1, <2>2 DEF Thread!Send
<1>10. CASE \E pc : Thread!To(e, pc)  BY <1>4, <1>10
<1>11. CASE \E pc : Thread!Leave(e, pc)  BY <1>5, <1>11
<1>12. CASE \E seen : turn' = [turn EXCEPT ![e].pc = "open", ![e].seen = seen]
  BY <1>6, <1>12
<1>13. CASE Thread!Mentioned(e)  BY <1>10, <1>13 DEF Thread!Mentioned, Thread!Begin
<1>14. CASE Thread!Replied(e)  BY <1>10, <1>14 DEF Thread!Replied, Thread!Begin
<1>15. CASE Thread!Step(e)
  <2>1. CASE Thread!OpenRoute(e) \/ Thread!FillRoute(e) \/ Thread!Open(e) \/ Thread!Apologise(e)
    BY <1>10, <2>1 DEF Thread!OpenRoute, Thread!FillRoute, Thread!Open, Thread!Apologise
  <2>2. CASE Thread!Load(e)  BY <1>12, <2>2 DEF Thread!Load
  <2>3. CASE Thread!Fill(e)  BY <1>11, <2>3 DEF Thread!Fill
  <2> QED  BY <1>7, <1>8, <1>9, <1>15, <2>1, <2>2, <2>3 DEF Thread!Step
<1>16. CASE Thread!WriteFails(e)  BY <1>11, <1>16 DEF Thread!WriteFails
<1>17. CASE Thread!ReadFails(e)
  <2>1. CASE turn' = [turn EXCEPT ![e].pc = "think", ![e].prior = <<>>]
    <3>1. PICK x : x = [k EXCEPT !.pc = "think", !.prior = <<>>]  OBVIOUS
    <3>2. x.round = k.round /\ x.prior = <<>>  BY <1>2, <3>1 DEF TurnRec
    <3>3. Counted(x)  BY <1>2, <1>3, <3>2 DEF Counted
    <3>4. turn' = [turn EXCEPT ![e] = x]  BY <1>1, <2>1, <3>1
    <3> QED  BY <3>3, <3>4
  <2> QED  BY <1>12, <1>17, <2>1 DEF Thread!ReadFails
<1> QED  BY <1>13, <1>14, <1>15, <1>16, <1>17

\* The files, the bot's id and the faults.
LEMMA RouteFrame ==
  ASSUME RouteInv, Thread!Next
  PROVE  /\ {routed', bot', greeted'} \subseteq BOOLEAN
         /\ faults' <= MaxFaults /\ crashes' <= MaxCrashes
         /\ Thread!Intact' => Thread!Intact
<1>1. /\ faults \in Nat /\ crashes \in Nat /\ MaxFaults \in Nat /\ MaxCrashes \in Nat
      /\ {routed, bot, greeted} \subseteq BOOLEAN /\ faults <= MaxFaults
      /\ crashes <= MaxCrashes
  BY PartsAssumption DEF RouteInv, ThreadInv, ThreadTypes
<1>2. CASE Thread!Crash
  <2>1. /\ UNCHANGED <<routed, greeted, faults>> /\ bot' = FALSE
        /\ crashes' = crashes + 1 /\ crashes < MaxCrashes
    BY <1>2 DEF Thread!Crash, Thread!OnDisk, Thread!History
  <2>2. {routed', bot', greeted'} \subseteq BOOLEAN  BY <1>1, <2>1
  <2>3. faults' <= MaxFaults /\ crashes' <= MaxCrashes /\ crashes' # 0  BY <1>1, <2>1
  <2> QED  BY <2>2, <2>3 DEF Thread!Intact
<1>3. CASE Thread!LearnBot
  BY <1>1, <1>3 DEF Thread!LearnBot, Thread!OnDisk, Thread!History, Thread!Intact
<1>4. ASSUME NEW e \in Thread!Event, Thread!Step(e)
      PROVE  /\ UNCHANGED <<bot, faults, crashes>>
             /\ routed' \in BOOLEAN \cup {routed} /\ greeted' \in BOOLEAN \cup {greeted}
  BY <1>4 DEF Thread!Step, Thread!OpenRoute, Thread!FillRoute, Thread!Load, Thread!Open,
              Thread!Fill, Thread!Recall, Thread!Think, Thread!Send, Thread!Apologise,
              Thread!OnDisk, Thread!History
<1>5. ASSUME NEW e \in Thread!Event,
             \/ Thread!Mentioned(e) \/ Thread!Replied(e) \/ Thread!WriteFails(e)
             \/ Thread!ReadFails(e)
      PROVE  /\ UNCHANGED <<routed, bot, greeted, crashes>>
             /\ (faults' = faults) \/ (faults < MaxFaults /\ faults' = faults + 1)
  BY <1>5 DEF Thread!Mentioned, Thread!Replied, Thread!WriteFails, Thread!ReadFails,
              Thread!OnDisk, Thread!History
<1>6. CASE \E e \in Thread!Event : Thread!Step(e)  BY <1>1, <1>4, <1>6 DEF Thread!Intact
<1>7. CASE \E e \in Thread!Event :
             \/ Thread!Mentioned(e) \/ Thread!Replied(e) \/ Thread!WriteFails(e)
             \/ Thread!ReadFails(e)
  BY <1>1, <1>5, <1>7 DEF Thread!Intact
<1> QED  BY <1>2, <1>3, <1>6, <1>7 DEF Thread!Next

\* As long as nothing fails, who empties the route file is at "saving" until it is
\* filled again.
LEMMA RouteKeptStep ==
  ASSUME RouteInv, Thread!Next, Thread!Intact' PROVE RouteKept'
<1>1. Thread!Intact  BY RouteFrame
<1>2. turn \in [Thread!Event -> TurnRec] /\ faults \in Nat /\ crashes \in Nat
  BY DEF RouteInv, ThreadInv, ThreadTypes
<1>3. faults = 0 /\ crashes = 0 /\ faults' = 0 /\ crashes' = 0  BY <1>1 DEF Thread!Intact
<1>4. greeted => routed \/ \E e \in Thread!Event : turn[e].pc = "saving"
  BY <1>1 DEF RouteInv, RouteKept, Thread!At
<1>5. ~Thread!Crash  BY <1>3 DEF Thread!Crash
<1>6. CASE Thread!LearnBot
  BY <1>4, <1>6 DEF Thread!LearnBot, Thread!OnDisk, Thread!History, RouteKept, Thread!At
<1>7. ASSUME NEW e \in Thread!Event,
             \/ Thread!Mentioned(e) \/ Thread!Replied(e) \/ Thread!Step(e)
             \/ Thread!WriteFails(e) \/ Thread!ReadFails(e)
      PROVE  RouteKept'
  <2>1. PICK x : turn' = [turn EXCEPT ![e] = x]  BY <1>7, TurnCounted
  <2>2. turn'[e] = x /\ \A f \in Thread!Event : f # e => turn'[f] = turn[f]
    BY <1>2, <2>1
  <2>3. CASE Thread!OpenRoute(e)
    <3>1. turn'[e].pc = "saving"
      BY <1>2, <2>3 DEF Thread!OpenRoute, Thread!To, TurnRec
    <3> QED  BY <3>1 DEF RouteKept, Thread!At
  <2>4. CASE Thread!FillRoute(e)
    BY <2>4 DEF Thread!FillRoute, RouteKept
  <2>5. ~Thread!WriteFails(e) /\ ~Thread!ReadFails(e)
    BY <1>3 DEF Thread!WriteFails, Thread!ReadFails
  <2>6. CASE UNCHANGED <<routed, greeted>> /\ turn[e].pc # "saving"
    BY <1>4, <2>2, <2>6 DEF RouteKept, Thread!At
  <2>7. CASE Thread!Mentioned(e) \/ Thread!Replied(e)
    BY <2>6, <2>7 DEF Thread!Mentioned, Thread!Replied, Thread!At, Thread!OnDisk
  <2>8. CASE Thread!Step(e)
    BY <2>3, <2>4, <2>6, <2>8
       DEF Thread!Step, Thread!Load, Thread!Open, Thread!Fill, Thread!Recall,
           Thread!Think, Thread!Send, Thread!Apologise, Thread!At, Thread!OnDisk,
           Thread!History
  <2> QED  BY <1>7, <2>5, <2>7, <2>8
<1> QED  BY <1>5, <1>6, <1>7 DEF Thread!Next

LEMMA RouteStart == Thread!Init => RouteInv
<1> SUFFICES ASSUME Thread!Init PROVE RouteInv  OBVIOUS
<1>1. ThreadInv  BY ThreadStart
<1>2. /\ {routed, bot, greeted} \subseteq BOOLEAN /\ faults = 0 /\ crashes = 0 /\ ~greeted
      /\ \A e \in Thread!Event : turn[e] = Thread!NoTurn
  BY DEF Thread!Init
<1>3. /\ MaxRounds \in Nat /\ Recent \in Nat /\ MaxFaults \in Nat /\ MaxCrashes \in Nat
  BY PartsAssumption
<1>4. Counted(Thread!NoTurn)  BY <1>3 DEF Counted, Thread!NoTurn
<1> QED  BY <1>1, <1>2, <1>3, <1>4 DEF RouteInv, RouteKept

LEMMA RouteNext == ASSUME RouteInv, [Thread!Next]_(Thread!vars) PROVE RouteInv'
<1>1. ThreadInv'  BY ThreadNext DEF RouteInv
<1>2. CASE UNCHANGED Thread!vars
  BY <1>1, <1>2 DEF Thread!vars, RouteInv, RouteKept, Counted, Thread!Intact, Thread!At
<1>3. CASE Thread!Next
  <2>1. turn \in [Thread!Event -> TurnRec]  BY DEF RouteInv, ThreadInv, ThreadTypes
  <2>2. \A e \in Thread!Event : Counted(turn[e])  BY DEF RouteInv
  <2>3. \A e \in Thread!Event : Counted(turn'[e])
    <3>1. CASE Thread!LearnBot  BY <2>2, <3>1 DEF Thread!LearnBot
    <3>2. CASE Thread!Crash
      <4>1. PICK x : x = [Thread!NoTurn EXCEPT !.pc = "lost"]  OBVIOUS
      <4>2. x.round = 0 /\ x.prior = <<>>  BY <4>1 DEF Thread!NoTurn
      <4>3. Counted(x)  BY <4>2, PartsAssumption DEF Counted
      <4>4. \A e \in Thread!Event : turn'[e] \in {x, turn[e]}  BY <3>2, <4>1 DEF Thread!Crash
      <4> QED  BY <2>2, <4>3, <4>4
    <3>3. ASSUME NEW e \in Thread!Event,
                 \/ Thread!Mentioned(e) \/ Thread!Replied(e) \/ Thread!Step(e)
                 \/ Thread!WriteFails(e) \/ Thread!ReadFails(e)
          PROVE  \A f \in Thread!Event : Counted(turn'[f])
      <4>1. PICK x : turn' = [turn EXCEPT ![e] = x] /\ Counted(x)  BY <3>3, TurnCounted
      <4> QED  BY <2>1, <2>2, <4>1
    <3> QED  BY <1>3, <3>1, <3>2, <3>3 DEF Thread!Next
  <2>4. \A e \in Thread!Event : Counted(turn[e])'  BY <2>3 DEF Counted
  <2>5. RouteKept'
    <3>1. CASE Thread!Intact'  BY <1>3, <3>1, RouteKeptStep
    <3>2. CASE ~Thread!Intact'  BY <3>2 DEF RouteKept
    <3> QED  BY <3>1, <3>2
  <2> QED  BY <1>1, <1>3, <2>4, <2>5, RouteFrame DEF RouteInv
<1> QED  BY <1>2, <1>3

\* A thread's counters keep their bounds, and while nothing fails its route is on
\* file or about to be (slackRoutingStore.js, founderToolLoop.js).
THEOREM RouteInvariant == Thread!Init /\ [][Thread!Next]_(Thread!vars) => []RouteInv
<1>1. RouteInv /\ [Thread!Next]_(Thread!vars) => RouteInv'  BY RouteNext
<1> QED  BY <1>1, RouteStart, PTL

\* A step that leaves a reply without a turn.
LEMMA OnlyWhileSaving ==
  ASSUME RouteInv, [Thread!Next]_(Thread!vars), NEW e \in Thread!Event,
         turn[e].pc = "idle", turn'[e].pc = "ignored", e[1] \in Plain, greeted, Thread!Intact
  PROVE  \E f \in Thread!Event : turn[f].pc = "saving"
<1>1. turn \in [Thread!Event -> TurnRec]  BY DEF RouteInv, ThreadInv, ThreadTypes
<1>2. turn' # turn  OBVIOUS
<1>3. Thread!Next  BY <1>2 DEF Thread!vars
<1>4. ~Thread!LearnBot  BY <1>2 DEF Thread!LearnBot
<1>5. ~Thread!Crash  BY DEF Thread!Crash, Thread!Busy
<1>6. PICK f \in Thread!Event :
        \/ Thread!Mentioned(f) \/ Thread!Replied(f) \/ Thread!Step(f)
        \/ Thread!WriteFails(f) \/ Thread!ReadFails(f)
  BY <1>3, <1>4, <1>5 DEF Thread!Next
<1>7. f = e
  <2>1. PICK x : turn' = [turn EXCEPT ![f] = x]  BY <1>6, TurnCounted
  <2> QED  BY <1>1, <2>1
<1>8. ~Thread!Step(e) /\ ~Thread!WriteFails(e) /\ ~Thread!ReadFails(e)
  BY DEF Thread!Step, Thread!OpenRoute, Thread!FillRoute, Thread!Load, Thread!Open,
         Thread!Fill, Thread!Recall, Thread!Think, Thread!Send, Thread!Apologise,
         Thread!At, Thread!WriteFails, Thread!ReadFails
<1>9. ~Thread!Begin(e)
  <2>1. ASSUME Thread!Begin(e) PROVE turn'[e].pc = "save"
    BY <1>1, <2>1 DEF Thread!Begin, Thread!To, TurnRec
  <2> QED  BY <2>1
<1>10. Thread!Replied(e) /\ ~Thread!ForMe(e, bot)
  BY <1>6, <1>7, <1>8, <1>9 DEF Thread!Mentioned, Thread!Replied
<1>11. ~routed  BY <1>10, PartsAssumption DEF Thread!ForMe
<1> QED  BY <1>11 DEF RouteInv, RouteKept, Thread!At

LEMMA RouteGivesDrops ==
  Thread!Init /\ [][Thread!Next]_(Thread!vars) => Thread!DroppedOnlyWhileSaving
<1> DEFINE Dropped == \A e \in Thread!Event :
             Thread!At(e, "idle") /\ turn'[e].pc = "ignored" /\ e[1] \in Plain
               /\ greeted /\ Thread!Intact
             => \E f \in Thread!Event : Thread!At(f, "saving")
<1>1. RouteInv /\ [Thread!Next]_(Thread!vars) => [Dropped]_(Thread!vars)
  <2>1. SUFFICES ASSUME RouteInv, [Thread!Next]_(Thread!vars) PROVE Dropped  OBVIOUS
  <2> QED  BY <2>1, OnlyWhileSaving DEF Thread!At
<1> HIDE DEF Dropped
<1>2. []RouteInv /\ [][Thread!Next]_(Thread!vars) => [][Dropped]_(Thread!vars)
  BY <1>1, PTL
<1>3. [][Dropped]_(Thread!vars) => Thread!DroppedOnlyWhileSaving
  BY DEF Dropped, Thread!DroppedOnlyWhileSaving
<1> QED  BY <1>2, <1>3, RouteInvariant, PTL

-----------------------------------------------------------------------------
(* GitHub's deliveries: what the record holds of what was let through. *)

HandlerRec ==
  [pc : {"idle", "read", "open", "fill", "process"}, id : Delivery \cup {NoDelivery},
   list : Seq(Delivery), again : BOOLEAN, at : Nat]

Files(k) == k.pc \in {"read", "open", "fill"}

HandlerFits(k) ==
  /\ k.pc = "process" => k.at \in DOMAIN fresh
  /\ Files(k) => k.id \in Delivery /\ mode = "file"
  /\ k.pc \in {"open", "fill"} => Len(k.list) <= Window

RecordTypes ==
  /\ mode \in {"memory", "supabase", "file"} /\ spoilt \in BOOLEAN
  /\ rows \subseteq Delivery /\ file \in Seq(Delivery) /\ Len(file) <= Window
  /\ fresh \in Seq(Delivery \cup {NoDelivery}) /\ filed \subseteq DOMAIN fresh
  /\ handler \in [Handler -> HandlerRec]
  /\ \A h \in Handler : HandlerFits(handler[h])

\* How many of the deliveries let through from the m-th to the n-th have an id.
Span(m, n) == Cardinality({k \in m..n : fresh[k] # NoDelivery})
Since(m)   == Span(m, Len(fresh))

\* A list has the latest ids at their places from its end, d of them left out.
Lists(ids, d) ==
  \A m \in DOMAIN fresh :
    fresh[m] # NoDelivery /\ Since(m) + d <= Window
      => Since(m) + d <= Len(ids) /\ ids[Len(ids) - (Since(m) + d) + 1] = fresh[m]

\* What a handler is about to write: the list with its own id at the end,
\* which is new or older than the list goes back.
Coming(k) ==
  /\ Len(k.list) >= 1 /\ k.list[Len(k.list)] = k.id /\ Lists(k.list, 1)
  /\ \A m \in DOMAIN fresh : fresh[m] = k.id => Since(m) > Window

InRows == \A m \in DOMAIN fresh : fresh[m] # NoDelivery => fresh[m] \in rows

InFile ==
  /\ \A h, g \in Handler : Files(handler[h]) /\ Files(handler[g]) => h = g
  /\ (\A h \in Handler : handler[h].pc # "fill") => Lists(file, 0)
  /\ \A h \in Handler : handler[h].pc \in {"open", "fill"} => Coming(handler[h])
  /\ \A h \in Handler : handler[h].pc = "fill" => file = <<>>

Repeats ==
  \A m, n \in DOMAIN fresh :
    m < n /\ fresh[m] = fresh[n] /\ fresh[m] # NoDelivery
      => spoilt \/ (mode = "file" /\ Span(m, n) > Window + 1)

RecordInv ==
  /\ RecordTypes /\ Repeats
  /\ ~spoilt /\ mode # "file" => InRows
  /\ ~spoilt /\ mode = "file" => InFile

LEMMA RecordGivesFiledOnce == RecordInv => Github!FiledOnce
<1> SUFFICES ASSUME RecordInv, NEW m \in filed, NEW n \in filed,
                    m < n, fresh[m] = fresh[n], fresh[m] # NoDelivery
             PROVE  spoilt \/ (mode = "file" /\ Span(m, n) > Window + 1)
  <2>1. \A S : Github!Cardinality(S) = Cardinality(S)
    BY DEF Github!Cardinality, Cardinality
  <2> QED  BY <2>1 DEF Github!FiledOnce, Span
<1>1. m \in DOMAIN fresh /\ n \in DOMAIN fresh  BY DEF RecordInv, RecordTypes
<1> QED  BY <1>1 DEF RecordInv, Repeats

\* One more delivery is let through.
LEMMA Another ==
  ASSUME NEW x, NEW end, end = Len(fresh) + 1, fresh \in Seq(Delivery \cup {NoDelivery}),
         fresh' = Append(fresh, x),
         x \in Delivery \cup {NoDelivery}
  PROVE  /\ fresh' \in Seq(Delivery \cup {NoDelivery})
         /\ Len(fresh) \in Nat /\ Len(fresh') = end
         /\ DOMAIN fresh = 1..Len(fresh) /\ DOMAIN fresh' = 1..end
         /\ \A m \in DOMAIN fresh : fresh'[m] = fresh[m]
         /\ fresh'[end] = x
         /\ \A m, n \in DOMAIN fresh : Span(m, n)' = Span(m, n)
         /\ \A m \in DOMAIN fresh :
              /\ Since(m) \in Nat /\ Span(m, end)' = Since(m)'
              /\ Since(m)' = IF x = NoDelivery THEN Since(m) ELSE Since(m) + 1
         /\ x # NoDelivery => Since(end)' = 1
<1>1. /\ fresh' \in Seq(Delivery \cup {NoDelivery})
      /\ Len(fresh) \in Nat /\ Len(fresh') = end
      /\ DOMAIN fresh = 1..Len(fresh) /\ DOMAIN fresh' = 1..end
      /\ \A m \in DOMAIN fresh : fresh'[m] = fresh[m]
      /\ fresh'[end] = x
  OBVIOUS
<1>2. \A m, n \in DOMAIN fresh : Span(m, n)' = Span(m, n)
  <2>1. SUFFICES ASSUME NEW m \in DOMAIN fresh, NEW n \in DOMAIN fresh
                 PROVE  Span(m, n)' = Span(m, n)
    OBVIOUS
  <2>2. \A k \in m..n : fresh'[k] = fresh[k]  BY <1>1, <2>1
  <2>3. {k \in m..n : fresh'[k] # NoDelivery} = {k \in m..n : fresh[k] # NoDelivery}
    BY <2>2
  <2> QED  BY <2>3 DEF Span
<1>3. ASSUME NEW m \in DOMAIN fresh
      PROVE  /\ Since(m) \in Nat /\ Span(m, end)' = Since(m)'
             /\ Since(m)' = IF x = NoDelivery THEN Since(m) ELSE Since(m) + 1
  <2>1. PICK A : A = {k \in m..Len(fresh) : fresh[k] # NoDelivery}  OBVIOUS
  <2>2. PICK B : B = {k \in m..end : fresh'[k] # NoDelivery}  OBVIOUS
  <2>3. m \in Nat /\ m <= Len(fresh)  BY <1>1, <1>3
  <2>4. IsFiniteSet(m..Len(fresh))  BY <1>1, <2>3, FS_Interval
  <2>5. IsFiniteSet(A)  BY <2>1, <2>4, FS_Subset
  <2>6. B = IF x = NoDelivery THEN A ELSE A \cup {end}
    <3>1. \A k \in m..Len(fresh) : fresh'[k] = fresh[k]  BY <1>1, <2>3
    <3>2. m..end = (m..Len(fresh)) \cup {end}  BY <1>1, <2>3
    <3> QED  BY <1>1, <2>1, <2>2, <3>1, <3>2
  <2>7. end \notin A  BY <1>1, <2>1, <2>3
  <2>8. Cardinality(B) = IF x = NoDelivery THEN Cardinality(A) ELSE Cardinality(A) + 1
    BY <2>5, <2>6, <2>7, FS_AddElement
  <2>9. Cardinality(A) \in Nat  BY <2>5, FS_CardinalityType
  <2>10. Since(m) = Cardinality(A)  BY <2>1 DEF Since, Span
  <2>11. Since(m)' = Cardinality(B) /\ Span(m, end)' = Cardinality(B)
    BY <1>1, <2>2 DEF Since, Span
  <2> QED  BY <2>8, <2>9, <2>10, <2>11
<1>4. ASSUME x # NoDelivery PROVE Since(end)' = 1
  <2>1. {k \in end..end : fresh'[k] # NoDelivery} = {end}
    BY <1>1, <1>4
  <2>2. Cardinality({end}) = 1  BY FS_Singleton
  <2> QED  BY <1>1, <2>1, <2>2 DEF Since, Span
<1> QED  BY <1>1, <1>2, <1>3, <1>4

LEMMA SinceCounts ==
  ASSUME fresh \in Seq(Delivery \cup {NoDelivery}), NEW m \in DOMAIN fresh
  PROVE  Since(m) \in Nat /\ (fresh[m] # NoDelivery => Since(m) >= 1)
<1>1. m \in Nat /\ Len(fresh) \in Nat /\ m <= Len(fresh)  OBVIOUS
<1>2. PICK A : A = {k \in m..Len(fresh) : fresh[k] # NoDelivery}  OBVIOUS
<1>3. IsFiniteSet(m..Len(fresh))  BY <1>1, FS_Interval
<1>4. IsFiniteSet(A) /\ Cardinality(A) \in Nat
  BY <1>2, <1>3, FS_Subset, FS_CardinalityType
<1>5. fresh[m] # NoDelivery => m \in A  BY <1>1, <1>2
<1>6. Cardinality(A) = 0 <=> A = {}  BY <1>4, FS_EmptySet
<1>7. Since(m) = Cardinality(A)  BY <1>2 DEF Since, Span
<1> QED  BY <1>4, <1>5, <1>6, <1>7

LEMMA KeptIs ==
  ASSUME NEW S, NEW s \in Seq(S)
  PROVE  /\ Github!Kept(s) \in Seq(S) /\ Len(s) \in Nat
         /\ Len(Github!Kept(s)) = IF Len(s) > Window THEN Window ELSE Len(s)
         /\ \A i \in 1..Len(Github!Kept(s)) : Github!Kept(s)[i] = s[Len(s) - Len(Github!Kept(s)) + i]
<1>1. PICK n : n = Len(s)  OBVIOUS
<1>2. PICK from : from = (IF n > Window THEN n - Window ELSE 0) + 1  OBVIOUS
<1>3. n \in Nat /\ Window \in Nat /\ from \in Nat \ {0}  BY <1>1, <1>2, PartsAssumption
<1>4. PICK t : t = SubSeq(s, from, n)  OBVIOUS
<1>5. /\ t \in Seq(S) /\ Len(t) = (IF from <= n THEN n - from + 1 ELSE 0)
      /\ \A i \in 1..(n - from + 1) : t[i] = s[from + i - 1]
  BY <1>1, <1>3, <1>4, Stretch
<1>6. Len(t) = (IF n > Window THEN Window ELSE n) /\ Len(t) = n - from + 1
  BY <1>2, <1>3, <1>5
<1>7. \A i \in 1..Len(t) : t[i] = s[n - Len(t) + i]
  <2>1. SUFFICES ASSUME NEW i \in 1..Len(t) PROVE t[i] = s[n - Len(t) + i]  OBVIOUS
  <2>2. from + i - 1 = n - Len(t) + i  BY <1>3, <1>6
  <2> QED  BY <1>5, <1>6, <2>2
<1>8. Github!Kept(s) = t  BY <1>1, <1>2, <1>4 DEF Github!Kept
<1> QED  BY <1>1, <1>3, <1>5, <1>6, <1>7, <1>8

\* A new id added to a list that is up to date, the oldest dropped.
LEMMA KeptComes ==
  ASSUME RecordTypes, Lists(file, 0), NEW id \in Delivery, id \notin Github!ToSet(file),
         NEW k \in HandlerRec, k.id = id, k.list = Github!Kept(Append(file, id))
  PROVE  Len(k.list) <= Window /\ Coming(k)
<1>1. Window \in Nat \ {0} /\ NoDelivery \notin Delivery  BY PartsAssumption
<1>2. PICK n : n = Len(file)  OBVIOUS
<1>3. n \in Nat /\ n <= Window /\ file \in Seq(Delivery) /\ DOMAIN file = 1..n
  BY <1>2 DEF RecordTypes
<1>4. PICK s : s = Append(file, id)  OBVIOUS
<1>5. /\ s \in Seq(Delivery) /\ Len(s) = n + 1 /\ s[n + 1] = id
      /\ \A i \in 1..n : s[i] = file[i]
  BY <1>2, <1>3, <1>4
<1>6. PICK l : l = k.list  OBVIOUS
<1>7. /\ Len(l) = (IF n + 1 > Window THEN Window ELSE n + 1)
      /\ \A i \in 1..Len(l) : l[i] = s[n + 1 - Len(l) + i]
  <2>1. l = Github!Kept(s)  BY <1>4, <1>6
  <2>2. /\ Len(Github!Kept(s)) = (IF Len(s) > Window THEN Window ELSE Len(s))
        /\ \A i \in 1..Len(Github!Kept(s)) : Github!Kept(s)[i] = s[Len(s) - Len(Github!Kept(s)) + i]
    BY <1>5, KeptIs
  <2>3. Len(l) = IF Len(s) > Window THEN Window ELSE Len(s)  BY <2>1, <2>2
  <2>4. \A i \in 1..Len(l) : l[i] = s[Len(s) - Len(l) + i]  BY <2>1, <2>2
  <2>5. PICK q : q = Len(s)  OBVIOUS
  <2>6. q = n + 1  BY <1>5, <2>5
  <2>7. \A i \in 1..Len(l) : l[i] = s[q - Len(l) + i]  BY <2>4, <2>5
  <2>8. Len(l) = IF q > Window THEN Window ELSE q  BY <2>3, <2>5
  <2>9. q \in Nat /\ Len(l) \in Nat  BY <1>1, <1>3, <2>6, <2>8
  <2> QED  BY <1>1, <1>3, <2>6, <2>7, <2>8, <2>9
<1>8. Len(l) \in Nat /\ Len(l) >= 1 /\ Len(l) <= Window /\ Len(l) <= n + 1
  BY <1>1, <1>3, <1>7
<1>9. l[Len(l)] = id
  <2>1. Len(l) \in 1..Len(l) /\ n + 1 - Len(l) + Len(l) = n + 1  BY <1>3, <1>8
  <2>2. l[Len(l)] = s[n + 1 - Len(l) + Len(l)]  BY <1>7, <2>1
  <2> QED  BY <1>5, <2>1, <2>2
<1>10. fresh \in Seq(Delivery \cup {NoDelivery})  BY DEF RecordTypes
<1>11. Lists(l, 1)
  <2>1. SUFFICES ASSUME NEW m \in DOMAIN fresh, fresh[m] # NoDelivery, Since(m) + 1 <= Window
                 PROVE  Since(m) + 1 <= Len(l) /\ l[Len(l) - (Since(m) + 1) + 1] = fresh[m]
    BY DEF Lists
  <2>2. PICK c : c = Since(m)  OBVIOUS
  <2>3. c \in Nat /\ c >= 1 /\ c + 1 <= Window  BY <1>10, <2>1, <2>2, SinceCounts
  <2>4. c + 0 <= Window  BY <1>1, <2>3
  <2>5. c + 0 <= n /\ file[n - (c + 0) + 1] = fresh[m]
    BY <1>2, <2>1, <2>2, <2>4 DEF Lists
  <2>6. n - (c + 0) + 1 = n - c + 1 /\ n - c + 1 \in 1..n  BY <1>3, <2>3, <2>5
  <2>7. s[n - c + 1] = fresh[m]  BY <1>5, <2>5, <2>6
  <2>8. c + 1 <= Len(l)  BY <1>1, <1>3, <1>7, <2>3, <2>5
  <2>9. /\ Len(l) - (c + 1) + 1 \in 1..Len(l)
        /\ n + 1 - Len(l) + (Len(l) - (c + 1) + 1) = n - c + 1
    BY <1>3, <1>8, <2>3, <2>8
  <2>10. l[Len(l) - (c + 1) + 1] = fresh[m]  BY <1>7, <2>7, <2>9
  <2> QED  BY <2>2, <2>8, <2>10
<1>12. ASSUME NEW m \in DOMAIN fresh, fresh[m] = id PROVE Since(m) > Window
  <2>1. fresh[m] # NoDelivery  BY <1>1, <1>12
  <2>2. PICK c : c = Since(m)  OBVIOUS
  <2>3. c \in Nat /\ c >= 1  BY <1>10, <2>1, <2>2, SinceCounts
  <2>4. SUFFICES ASSUME c + 0 <= Window PROVE FALSE  BY <1>1, <2>2, <2>3
  <2>5. c + 0 <= n /\ file[n - (c + 0) + 1] = id
    BY <1>2, <1>12, <2>1, <2>2, <2>4 DEF Lists
  <2>6. n - (c + 0) + 1 \in DOMAIN file  BY <1>3, <2>3, <2>5
  <2> QED  BY <2>5, <2>6 DEF Github!ToSet
<1> QED  BY <1>6, <1>8, <1>9, <1>11, <1>12 DEF Coming

\* What is written is up to date when its own id is let through.
LEMMA WrittenLists ==
  ASSUME RecordTypes, NEW k, Coming(k), k.id \in Delivery, Len(k.list) \in Nat,
         fresh' = Append(fresh, k.id)
  PROVE  Lists(k.list, 0)'
<1>1. Window \in Nat \ {0} /\ NoDelivery \notin Delivery  BY PartsAssumption
<1>2. PICK end : end = Len(fresh) + 1  OBVIOUS
<1>3. fresh \in Seq(Delivery \cup {NoDelivery})  BY DEF RecordTypes
<1>4. PICK id : id = k.id  OBVIOUS
<1>5. id # NoDelivery /\ id \in Delivery \cup {NoDelivery} /\ fresh' = Append(fresh, id)
  BY <1>1, <1>4
<1>6. /\ Len(fresh) \in Nat /\ DOMAIN fresh = 1..Len(fresh) /\ DOMAIN fresh' = 1..end
      /\ \A m \in DOMAIN fresh : fresh'[m] = fresh[m]
      /\ fresh'[end] = id /\ Since(end)' = 1
      /\ \A m \in DOMAIN fresh : Since(m) \in Nat /\ Since(m)' = Since(m) + 1
  BY <1>2, <1>3, <1>5, Another
<1>7. PICK l : l = k.list  OBVIOUS
<1>8. Len(l) \in Nat /\ Len(l) >= 1 /\ l[Len(l)] = id /\ Lists(l, 1)
  BY <1>4, <1>7 DEF Coming
<1>9. ASSUME NEW m \in DOMAIN fresh', fresh'[m] # NoDelivery, Since(m)' + 0 <= Window
      PROVE  Since(m)' + 0 <= Len(l) /\ l[Len(l) - (Since(m)' + 0) + 1] = fresh'[m]
  <2>1. CASE m = end
    <3>1. Len(l) - (1 + 0) + 1 = Len(l)  BY <1>8
    <3> QED  BY <1>6, <1>8, <2>1, <3>1
  <2>2. CASE m \in DOMAIN fresh
    <3>1. PICK c : c = Since(m)  OBVIOUS
    <3>2. c \in Nat /\ Since(m)' = c + 1 /\ fresh'[m] = fresh[m]  BY <1>6, <2>2, <3>1
    <3>3. c + 1 <= Window  BY <1>9, <3>2
    <3>4. c + 1 <= Len(l) /\ l[Len(l) - (c + 1) + 1] = fresh[m]
      BY <1>8, <1>9, <2>2, <3>1, <3>2, <3>3 DEF Lists
    <3>5. Len(l) - (c + 1 + 0) + 1 = Len(l) - (c + 1) + 1 /\ c + 1 + 0 = c + 1
      BY <1>8, <3>2
    <3> QED  BY <3>2, <3>4, <3>5
  <2>3. m = end \/ m \in DOMAIN fresh  BY <1>2, <1>6, <1>9
  <2> QED  BY <2>1, <2>2, <2>3
<1>10. Lists(l, 0)'  BY <1>9 DEF Lists
<1> QED  BY <1>7, <1>10

\* An event without an id leaves every list as up to date as it was.
LEMMA UnrecordedLists ==
  ASSUME RecordTypes, fresh' = Append(fresh, NoDelivery)
  PROVE  /\ \A ids, d : Lists(ids, d) => Lists(ids, d)'
         /\ \A k \in HandlerRec : k.id \in Delivery /\ Coming(k) => Coming(k)'
<1>1. PICK x : x = NoDelivery  OBVIOUS
<1>2. PICK end : end = Len(fresh) + 1  OBVIOUS
<1>3. /\ fresh \in Seq(Delivery \cup {NoDelivery}) /\ fresh' = Append(fresh, x)
      /\ x \in Delivery \cup {NoDelivery} /\ NoDelivery \notin Delivery
  BY <1>1, PartsAssumption DEF RecordTypes
<1>4. /\ DOMAIN fresh = 1..Len(fresh) /\ DOMAIN fresh' = 1..end /\ Len(fresh) \in Nat
      /\ \A m \in DOMAIN fresh : fresh'[m] = fresh[m] /\ Since(m)' = Since(m)
      /\ fresh'[end] = NoDelivery
  BY <1>1, <1>2, <1>3, Another
<1>5. \A m \in DOMAIN fresh' : m = end \/ m \in DOMAIN fresh  BY <1>2, <1>4
<1>6. ASSUME NEW ids, NEW d, Lists(ids, d) PROVE Lists(ids, d)'
  <2>1. SUFFICES ASSUME NEW m \in DOMAIN fresh', fresh'[m] # NoDelivery,
                        Since(m)' + d <= Window
                 PROVE  /\ Since(m)' + d <= Len(ids)
                        /\ ids[Len(ids) - (Since(m)' + d) + 1] = fresh'[m]
    BY DEF Lists
  <2>2. m \in DOMAIN fresh  BY <1>4, <1>5, <2>1
  <2>3. fresh'[m] = fresh[m] /\ Since(m)' = Since(m)  BY <1>4, <2>2
  <2> QED  BY <1>6, <2>1, <2>2, <2>3 DEF Lists
<1>7. ASSUME NEW k \in HandlerRec, k.id \in Delivery, Coming(k) PROVE Coming(k)'
  <2>1. Lists(k.list, 1)'  BY <1>6, <1>7 DEF Coming
  <2>2. ASSUME NEW m \in DOMAIN fresh', fresh'[m] = k.id PROVE Since(m)' > Window
    <3>1. m \in DOMAIN fresh  BY <1>3, <1>4, <1>5, <1>7, <2>2
    <3>2. fresh'[m] = fresh[m] /\ Since(m)' = Since(m)  BY <1>4, <3>1
    <3> QED  BY <1>7, <2>2, <3>1, <3>2 DEF Coming
  <2> QED  BY <1>7, <2>1, <2>2 DEF Coming
<1> QED  BY <1>6, <1>7

-----------------------------------------------------------------------------
(* Steps of the handlers. *)

LEMMA RecordTypesKeep ==
  ASSUME RecordTypes, NEW h \in Handler, NEW x \in HandlerRec,
         handler' = [handler EXCEPT ![h] = x], UNCHANGED mode,
         fresh' \in Seq(Delivery \cup {NoDelivery}), DOMAIN fresh \subseteq DOMAIN fresh',
         filed' \subseteq DOMAIN fresh', rows' \subseteq Delivery, file' \in Seq(Delivery),
         Len(file') <= Window, spoilt' \in BOOLEAN, HandlerFits(x)'
  PROVE  RecordTypes' /\ handler'[h] = x /\ \A g \in Handler : g # h => handler'[g] = handler[g]
<1>1. /\ handler' \in [Handler -> HandlerRec] /\ handler'[h] = x
      /\ \A g \in Handler : g # h => handler'[g] = handler[g]
  BY DEF RecordTypes
<1>2. ASSUME NEW g \in Handler PROVE HandlerFits(handler[g])'
  <2>1. PICK k : k = handler'[g]  OBVIOUS
  <2>2. CASE g = h  BY <1>1, <2>2 DEF HandlerFits, Files
  <2>3. CASE g # h
    <3>1. HandlerFits(k)  BY <1>1, <2>1, <2>3 DEF RecordTypes
    <3> QED  BY <2>1, <3>1 DEF HandlerFits, Files
  <2> QED  BY <2>2, <2>3
<1> QED  BY <1>1, <1>2 DEF RecordTypes

\* A step at which nothing is let through.
LEMMA SameFreshKeeps ==
  ASSUME RecordInv, RecordTypes', UNCHANGED <<fresh, mode>>, spoilt => spoilt',
         ~spoilt' /\ mode # "file" => rows \subseteq rows',
         ~spoilt' /\ mode = "file" => InFile'
  PROVE  RecordInv'
<1>1. \A m, n : Span(m, n)' = Span(m, n)  BY DEF Span
<1>2. Repeats'  BY <1>1 DEF RecordInv, Repeats
<1>3. ~spoilt' /\ mode # "file" => InRows'  BY DEF RecordInv, InRows
<1> QED  BY <1>2, <1>3 DEF RecordInv

\* A step at which a delivery is let through.
LEMMA LetKeeps ==
  ASSUME RecordInv, RecordTypes', NEW x \in Delivery \cup {NoDelivery},
         fresh' = Append(fresh, x), UNCHANGED mode, spoilt => spoilt',
         ~spoilt' /\ mode # "file" =>
           rows \subseteq rows' /\ (x # NoDelivery => x \in rows' /\ x \notin rows),
         ~spoilt' /\ mode = "file" =>
           InFile' /\ (x # NoDelivery => \A m \in DOMAIN fresh : fresh[m] = x => Since(m) > Window)
  PROVE  RecordInv'
<1>1. PICK end : end = Len(fresh) + 1  OBVIOUS
<1>2. fresh \in Seq(Delivery \cup {NoDelivery}) /\ Window \in Nat
  BY PartsAssumption DEF RecordInv, RecordTypes
<1>3. /\ Len(fresh) \in Nat /\ DOMAIN fresh = 1..Len(fresh) /\ DOMAIN fresh' = 1..end
      /\ \A m \in DOMAIN fresh : fresh'[m] = fresh[m]
      /\ fresh'[end] = x
      /\ \A m, n \in DOMAIN fresh : Span(m, n)' = Span(m, n)
      /\ \A m \in DOMAIN fresh : /\ Since(m) \in Nat /\ Span(m, end)' = Since(m)'
                                 /\ x # NoDelivery => Since(m)' = Since(m) + 1
  BY <1>1, <1>2, Another
<1>4. \A m \in DOMAIN fresh' : m = end \/ m \in DOMAIN fresh  BY <1>1, <1>3
<1>5. ~spoilt' => ~spoilt  OBVIOUS
<1>6. ~spoilt' /\ mode # "file" => InRows'
  <2>1. SUFFICES ASSUME ~spoilt', mode # "file", NEW m \in DOMAIN fresh', fresh'[m] # NoDelivery
                 PROVE  fresh'[m] \in rows'
    BY DEF InRows
  <2>2. InRows  BY <1>5, <2>1 DEF RecordInv
  <2>3. CASE m = end  BY <1>3, <2>1, <2>3
  <2>4. CASE m \in DOMAIN fresh  BY <1>3, <2>1, <2>2, <2>4 DEF InRows
  <2> QED  BY <1>4, <2>3, <2>4
<1>7. Repeats'
  <2>1. SUFFICES ASSUME ~spoilt', NEW m \in DOMAIN fresh', NEW n \in DOMAIN fresh', m < n,
                        fresh'[m] = fresh'[n], fresh'[m] # NoDelivery
                 PROVE  mode = "file" /\ Span(m, n)' > Window + 1
    BY DEF Repeats
  <2>2. m \in DOMAIN fresh  BY <1>1, <1>3, <1>4, <2>1
  <2>3. CASE n \in DOMAIN fresh
    <3>1. fresh[m] = fresh[n] /\ fresh[m] # NoDelivery  BY <1>3, <2>1, <2>2, <2>3
    <3>2. mode = "file" /\ Span(m, n) > Window + 1
      BY <1>5, <2>1, <2>2, <2>3, <3>1 DEF RecordInv, Repeats
    <3> QED  BY <1>3, <2>2, <2>3, <3>2
  <2>4. CASE n = end
    <3>1. fresh[m] = x /\ x # NoDelivery  BY <1>3, <2>1, <2>2, <2>4
    <3>2. mode = "file"
      <4>1. SUFFICES ASSUME mode # "file" PROVE FALSE  OBVIOUS
      <4>2. InRows  BY <1>5, <2>1, <4>1 DEF RecordInv
      <4> QED  BY <2>1, <2>2, <3>1, <4>1, <4>2 DEF InRows
    <3>3. PICK c : c = Since(m)  OBVIOUS
    <3>4. c > Window /\ c \in Nat  BY <1>3, <2>1, <2>2, <3>1, <3>2, <3>3
    <3>5. Span(m, n)' = c + 1  BY <1>3, <2>2, <2>4, <3>1, <3>3
    <3> QED  BY <1>2, <3>2, <3>4, <3>5
  <2> QED  BY <1>4, <2>3, <2>4
<1> QED  BY <1>6, <1>7 DEF RecordInv

\* A handler moves at the file and nothing is let through.
LEMMA FileStep ==
  ASSUME RecordTypes, InFile, NEW h \in Handler, NEW x \in HandlerRec,
         handler' = [handler EXCEPT ![h] = x], fresh' = fresh,
         Files(handler[h]) \/ ~Files(x) \/ \A g \in Handler : ~Files(handler[g]),
         x.pc = "fill" => file' = <<>>,
         x.pc \in {"open", "fill"} => Coming(x),
         x.pc # "fill" /\ (\A g \in Handler : g # h => handler[g].pc # "fill") => Lists(file', 0),
         ~Files(handler[h]) => file' = file
  PROVE  InFile'
<1>1. handler'[h] = x /\ \A g \in Handler : g # h => handler'[g] = handler[g]
  BY DEF RecordTypes
<1>2. \A m : Since(m)' = Since(m)  BY DEF Since, Span
<1>3. \A k \in HandlerRec : Coming(k) => Coming(k)'  BY <1>2 DEF Coming, Lists
<1>4. Lists(file', 0) => Lists(file, 0)'  BY <1>2 DEF Lists
<1>5. ASSUME NEW f \in Handler, NEW g \in Handler, Files(handler'[f]), Files(handler'[g])
      PROVE  f = g
  <2>1. CASE f # h /\ g # h  BY <1>1, <1>5, <2>1 DEF InFile
  <2>2. CASE f = h \/ g = h
    <3>1. Files(x)  BY <1>1, <1>5, <2>2
    <3>2. CASE Files(handler[h])
      <4>1. Files(handler[f]) /\ Files(handler[g])  BY <1>1, <1>5, <3>2
      <4> QED  BY <4>1 DEF InFile
    <3>3. CASE \A e \in Handler : ~Files(handler[e])  BY <1>1, <1>5, <2>2, <3>3
    <3> QED  BY <3>1, <3>2, <3>3
  <2> QED  BY <2>1, <2>2
<1>6. ASSUME \A g \in Handler : handler'[g].pc # "fill" PROVE Lists(file, 0)'
  BY <1>1, <1>4, <1>6
<1>7. ASSUME NEW g \in Handler, handler'[g].pc \in {"open", "fill"} PROVE Coming(handler[g])'
  <2>1. PICK k : k = handler'[g]  OBVIOUS
  <2>2. CASE g = h
    <3>1. k = x  BY <1>1, <2>1, <2>2
    <3>2. Coming(k)'  BY <1>3, <1>7, <2>1, <3>1
    <3> QED  BY <2>1, <3>2 DEF Coming, Lists
  <2>3. CASE g # h
    <3>1. k = handler[g]  BY <1>1, <2>1, <2>3
    <3>2. k \in HandlerRec  BY <3>1 DEF RecordTypes
    <3>3. Coming(k)  BY <1>7, <2>1, <3>1 DEF InFile
    <3>4. Coming(k)'  BY <1>3, <3>2, <3>3
    <3> QED  BY <2>1, <3>4 DEF Coming, Lists
  <2> QED  BY <2>2, <2>3
<1>8. ASSUME NEW g \in Handler, handler'[g].pc = "fill" PROVE file' = <<>>
  <2>1. CASE g = h  BY <1>1, <1>8, <2>1
  <2>2. CASE g # h
    <3>1. handler[g].pc = "fill"  BY <1>1, <1>8, <2>2
    <3>2. ~Files(handler[h])  BY <2>2, <3>1 DEF InFile, Files
    <3> QED  BY <3>1, <3>2 DEF InFile
  <2> QED  BY <2>1, <2>2
<1>9. \A f, g \in Handler : Files(handler[f])' /\ Files(handler[g])' => f = g
  BY <1>5 DEF Files
<1> QED  BY <1>6, <1>7, <1>8, <1>9 DEF InFile

\* What a handler holds that is at work on nothing, or on what it let through.
LEMMA Handlers ==
  /\ Github!NoHandler \in HandlerRec /\ Github!NoHandler.pc = "idle"
  /\ \A id \in Delivery \cup {NoDelivery}, at \in Nat :
       LET x == [Github!NoHandler EXCEPT !.pc = "process", !.id = id, !.at = at]
       IN  x \in HandlerRec /\ x.pc = "process" /\ x.at = at
<1>1. <<>> \in Seq(Delivery)  OBVIOUS
<1> QED  BY <1>1 DEF Github!NoHandler, HandlerRec

LEMMA RecordFacts ==
  ASSUME RecordInv
  PROVE  /\ RecordTypes /\ mode \in {"memory", "supabase", "file"} /\ spoilt \in BOOLEAN
         /\ rows \subseteq Delivery /\ file \in Seq(Delivery) /\ Len(file) <= Window
         /\ fresh \in Seq(Delivery \cup {NoDelivery}) /\ filed \subseteq DOMAIN fresh
         /\ Window \in Nat \ {0} /\ NoDelivery \notin Delivery
         /\ \A h \in Handler : handler[h] \in HandlerRec /\ HandlerFits(handler[h])
BY PartsAssumption DEF RecordInv, RecordTypes

\* What letting a delivery through does to a handler and to the history.
LEMMA LetTypes ==
  ASSUME RecordInv, NEW h \in Handler, NEW id \in Delivery \cup {NoDelivery},
         Github!LetThrough(h, id),
         UNCHANGED <<mode, filed>>, rows' \subseteq Delivery, file' \in Seq(Delivery),
         Len(file') <= Window, spoilt' \in BOOLEAN
  PROVE  /\ RecordTypes' /\ fresh' = Append(fresh, id) /\ handler'[h].pc = "process"
         /\ \A g \in Handler : g # h => handler'[g] = handler[g]
<1>1. PICK end : end = Len(fresh) + 1  OBVIOUS
<1>2. PICK x : x = [Github!NoHandler EXCEPT !.pc = "process", !.id = id, !.at = end]  OBVIOUS
<1>3. fresh' = Append(fresh, id) /\ handler' = [handler EXCEPT ![h] = x]
  BY <1>1, <1>2 DEF Github!LetThrough
<1>4. /\ fresh' \in Seq(Delivery \cup {NoDelivery}) /\ Len(fresh) \in Nat
      /\ DOMAIN fresh = 1..Len(fresh) /\ DOMAIN fresh' = 1..end
  BY <1>1, <1>3, RecordFacts, Another
<1>5. end \in Nat /\ end \in DOMAIN fresh' /\ DOMAIN fresh \subseteq DOMAIN fresh'
  BY <1>1, <1>4
<1>6. x \in HandlerRec /\ x.pc = "process" /\ x.at = end  BY <1>2, <1>5, Handlers
<1>7. HandlerFits(x)'  BY <1>5, <1>6 DEF HandlerFits, Files
<1>8. filed' \subseteq DOMAIN fresh'  BY <1>5, RecordFacts
<1>9. /\ RecordTypes' /\ handler'[h] = x
      /\ \A g \in Handler : g # h => handler'[g] = handler[g]
  BY <1>3, <1>4, <1>5, <1>6, <1>7, <1>8, RecordFacts, RecordTypesKeep
<1> QED  BY <1>3, <1>6, <1>9

LEMMA UnrecordedKeeps == ASSUME RecordInv, NEW h \in Handler, Github!Unrecorded(h)
                         PROVE RecordInv'
<1>1. /\ handler[h].pc = "idle" /\ Github!LetThrough(h, NoDelivery)
      /\ UNCHANGED <<mode, rows, file, filed, spoilt>>
  BY DEF Github!Unrecorded, Github!Holds
<1>2. /\ RecordTypes' /\ fresh' = Append(fresh, NoDelivery) /\ handler'[h].pc = "process"
      /\ \A g \in Handler : g # h => handler'[g] = handler[g]
  BY <1>1, LetTypes, RecordFacts
<1>3. ASSUME ~spoilt, mode = "file" PROVE InFile'
  <2>1. InFile  BY <1>3 DEF RecordInv
  <2>2. \A g \in Handler : /\ Files(handler'[g]) => g # h /\ Files(handler[g])
                           /\ handler'[g].pc # "fill" <=> handler[g].pc # "fill"
    BY <1>1, <1>2 DEF Files
  <2>3. (\A g \in Handler : handler'[g].pc # "fill") => Lists(file, 0)'
    <3>1. PICK l : l = file  OBVIOUS
    <3>2. Lists(l, 0) => Lists(l, 0)'  BY <1>2, <3>1, RecordFacts, UnrecordedLists
    <3>3. Lists(l, 0)' => Lists(file, 0)'
      <4>1. file' = l  BY <1>1, <3>1
      <4> QED  BY <4>1 DEF Lists
    <3>4. (\A g \in Handler : handler'[g].pc # "fill") => Lists(l, 0)
      BY <2>1, <2>2, <3>1 DEF InFile
    <3> QED  BY <3>2, <3>3, <3>4
  <2>4. ASSUME NEW g \in Handler, handler'[g].pc \in {"open", "fill"} PROVE Coming(handler[g])'
    <3>1. PICK k : k = handler[g]  OBVIOUS
    <3>2. handler'[g] = k /\ Files(k) /\ k.pc \in {"open", "fill"}
      BY <1>2, <2>2, <2>4, <3>1 DEF Files
    <3>3. k \in HandlerRec /\ k.id \in Delivery
      BY <3>1, <3>2, RecordFacts DEF HandlerFits
    <3>4. Coming(k)  BY <2>1, <3>1, <3>2 DEF InFile
    <3>5. Coming(k)'  BY <1>2, <3>3, <3>4, RecordFacts, UnrecordedLists
    <3> QED  BY <3>2, <3>5 DEF Coming, Lists
  <2>5. \A g \in Handler : handler'[g].pc = "fill" => file' = <<>>
    BY <1>1, <2>1, <2>2 DEF InFile
  <2>6. \A f, g \in Handler : Files(handler[f])' /\ Files(handler[g])' => f = g
    <3>1. \A f, g \in Handler : Files(handler'[f]) /\ Files(handler'[g]) => f = g
      BY <2>1, <2>2 DEF InFile
    <3> QED  BY <3>1 DEF Files
  <2> QED  BY <2>3, <2>4, <2>5, <2>6 DEF InFile
<1> QED  BY <1>1, <1>2, <1>3, LetKeeps

LEMMA RecallKeepsRecord ==
  ASSUME RecordInv, NEW h \in Handler, NEW id \in Delivery, Github!Recall(h, id)
  PROVE RecordInv'
<1>1. mode = "memory" /\ UNCHANGED <<mode, file, filed, spoilt>>  BY DEF Github!Recall
<1>2. CASE UNCHANGED <<rows, handler, fresh>>
  <2>1. RecordTypes'  BY <1>1, <1>2 DEF RecordInv, RecordTypes, HandlerFits, Files
  <2> QED  BY <1>1, <1>2, <2>1, SameFreshKeeps
<1>3. CASE id \notin rows /\ rows' = rows \cup {id} /\ Github!LetThrough(h, id)
  <2>1. RecordTypes' /\ fresh' = Append(fresh, id)
    BY <1>1, <1>3, LetTypes, RecordFacts
  <2> QED  BY <1>1, <1>3, <2>1, LetKeeps
<1> QED  BY <1>2, <1>3 DEF Github!Recall

LEMMA InsertKeepsRecord ==
  ASSUME RecordInv, NEW h \in Handler, NEW id \in Delivery, Github!Insert(h, id)
  PROVE RecordInv'
<1>1. mode = "supabase" /\ UNCHANGED <<mode, file, filed>>  BY DEF Github!Insert
<1>2. CASE UNCHANGED <<rows, handler, fresh, spoilt>>
  <2>1. RecordTypes'  BY <1>1, <1>2 DEF RecordInv, RecordTypes, HandlerFits, Files
  <2> QED  BY <1>1, <1>2, <2>1, SameFreshKeeps
<1>3. CASE id \notin rows /\ rows' = rows \cup {id} /\ Github!LetThrough(h, id) /\ UNCHANGED spoilt
  <2>1. RecordTypes' /\ fresh' = Append(fresh, id)
    BY <1>1, <1>3, LetTypes, RecordFacts
  <2> QED  BY <1>1, <1>3, <2>1, LetKeeps
<1>4. CASE rows' \in {rows, rows \cup {id}} /\ Github!LetThrough(h, id) /\ spoilt' = TRUE
  <2>1. RecordTypes' /\ fresh' = Append(fresh, id)
    BY <1>1, <1>4, LetTypes, RecordFacts
  <2> QED  BY <1>1, <1>4, <2>1, LetKeeps
<1> QED  BY <1>2, <1>3, <1>4 DEF Github!Insert

LEMMA BeginKeepsRecord ==
  ASSUME RecordInv, NEW h \in Handler, NEW id \in Delivery, Github!Begin(h, id) PROVE RecordInv'
<1>1. PICK x : x = [Github!NoHandler EXCEPT !.pc = "read", !.id = id]  OBVIOUS
<1>2. /\ handler[h].pc = "idle" /\ mode = "file" /\ handler' = [handler EXCEPT ![h] = x]
      /\ UNCHANGED <<mode, rows, file, fresh, filed>>
  BY <1>1 DEF Github!Begin, Github!Holds
<1>3. spoilt' = (spoilt \/ Github!Filing # {})  BY DEF Github!Begin
<1>4. x \in HandlerRec /\ x.pc = "read" /\ x.id = id
  BY <1>1, Handlers DEF HandlerRec
<1>5. HandlerFits(x)'  BY <1>2, <1>4 DEF HandlerFits, Files
<1>6. RecordTypes'  BY <1>2, <1>3, <1>4, <1>5, RecordFacts, RecordTypesKeep
<1>7. ASSUME ~spoilt' PROVE InFile'
  <2>1. ~spoilt /\ \A g \in Handler : ~Files(handler[g])  BY <1>3, <1>7 DEF Github!Filing, Files
  <2>2. InFile  BY <1>2, <2>1 DEF RecordInv
  <2>3. \A g \in Handler : handler[g].pc # "fill"  BY <2>1 DEF Files
  <2>4. Lists(file', 0)  BY <1>2, <2>2, <2>3 DEF InFile
  <2> QED  BY <1>2, <1>4, <2>1, <2>2, <2>4, FileStep, RecordFacts
<1> QED  BY <1>2, <1>3, <1>6, <1>7, SameFreshKeeps

\* A store that fails is a loss the code puts up with: only types matter then.
LEMMA FallbackKeeps ==
  ASSUME RecordInv, NEW h \in Handler, Files(handler[h]), Github!Fallback(h),
         UNCHANGED <<mode, rows, file, fresh, filed>>
  PROVE  RecordInv'
<1>1. PICK k : k = handler[h]  OBVIOUS
<1>2. k \in HandlerRec /\ k.id \in Delivery /\ mode = "file" /\ spoilt' = TRUE
  BY <1>1, RecordFacts DEF HandlerFits, Github!Fallback
<1>3. PICK x : x = IF k.again THEN Github!NoHandler
                   ELSE [k EXCEPT !.pc = "open", !.again = TRUE, !.list = <<k.id>>]
  OBVIOUS
<1>4. handler' = [handler EXCEPT ![h] = x]
  BY <1>1, <1>3 DEF Github!Fallback, Github!Rest
<1>5. x \in HandlerRec /\ HandlerFits(x)'
  <2>1. CASE k.again
    <3>1. x = Github!NoHandler  BY <1>3, <2>1
    <3> QED  BY <3>1, Handlers DEF HandlerFits, Files
  <2>2. CASE ~k.again
    <3>1. PICK l : l = <<k.id>>  OBVIOUS
    <3>2. l \in Seq(Delivery) /\ Len(l) = 1  BY <1>2, <3>1
    <3>3. Len(l) <= Window  BY <3>2, RecordFacts
    <3>4. x = [k EXCEPT !.pc = "open", !.again = TRUE, !.list = l]  BY <1>3, <2>2, <3>1
    <3>5. x \in HandlerRec /\ x.pc = "open" /\ x.list = l /\ x.id = k.id
      BY <1>2, <3>2, <3>4 DEF HandlerRec
    <3> QED  BY <1>2, <3>3, <3>5 DEF HandlerFits, Files
  <2> QED  BY <2>1, <2>2
<1>6. RecordTypes'  BY <1>2, <1>4, <1>5, RecordFacts, RecordTypesKeep
<1> QED  BY <1>2, <1>6, SameFreshKeeps

LEMMA ReadKeepsRecord == ASSUME RecordInv, NEW h \in Handler, Github!Read(h) PROVE RecordInv'
<1>1. PICK k : k = handler[h]  OBVIOUS
<1>2. k.pc = "read" /\ Files(handler[h]) /\ UNCHANGED <<mode, rows, file, fresh, filed>>
  BY <1>1 DEF Github!Read, Github!Holds, Files
<1>3. k \in HandlerRec /\ k.id \in Delivery /\ mode = "file"
  BY <1>1, <1>2, RecordFacts DEF HandlerFits
<1>4. CASE Github!Fallback(h)  BY <1>2, <1>4, FallbackKeeps
<1>5. CASE ~Github!Fallback(h)
  <2>1. UNCHANGED spoilt  BY <1>5 DEF Github!Read
  <2>2. ~spoilt => InFile /\ Lists(file, 0)
    <3>1. ~spoilt => InFile  BY <1>3 DEF RecordInv
    <3>2. InFile => \A g \in Handler : handler[g].pc # "fill"
      BY <1>1, <1>2 DEF InFile, Files
    <3> QED  BY <3>1, <3>2 DEF InFile
  <2>3. CASE k.id \in Github!ToSet(file)
    <3>1. PICK x : x = Github!NoHandler  OBVIOUS
    <3>2. handler' = [handler EXCEPT ![h] = x]
      BY <1>1, <1>5, <2>3, <3>1 DEF Github!Read, Github!Rest
    <3>3. x \in HandlerRec /\ x.pc = "idle" /\ HandlerFits(x)'
      BY <3>1, Handlers DEF HandlerFits, Files
    <3>4. RecordTypes'  BY <1>2, <2>1, <3>2, <3>3, RecordFacts, RecordTypesKeep
    <3>5. ~spoilt => InFile'  BY <1>2, <2>2, <3>2, <3>3, FileStep, RecordFacts
    <3> QED  BY <1>2, <2>1, <3>4, <3>5, SameFreshKeeps
  <2>4. CASE k.id \notin Github!ToSet(file)
    <3>1. PICK l : l = Github!Kept(Append(file, k.id))  OBVIOUS
    <3>2. PICK x : x = [k EXCEPT !.pc = "open", !.again = (file = <<>>), !.list = l]  OBVIOUS
    <3>3. handler' = [handler EXCEPT ![h] = x]
      BY <1>1, <1>5, <2>4, <3>1, <3>2 DEF Github!Read
    <3>4. Append(file, k.id) \in Seq(Delivery)  BY <1>3, RecordFacts
    <3>5. l \in Seq(Delivery)
      <4>1. Github!Kept(Append(file, k.id)) \in Seq(Delivery)  BY <3>4, KeptIs
      <4> QED  BY <3>1, <4>1
    <3>6. x \in HandlerRec /\ x.pc = "open" /\ x.list = l /\ x.id = k.id
      BY <1>3, <3>2, <3>5 DEF HandlerRec
    <3>7. Len(x.list) <= Window
      <4>1. PICK s : s = Append(file, k.id)  OBVIOUS
      <4>2. s \in Seq(Delivery) /\ l = Github!Kept(s)  BY <3>1, <3>4, <4>1
      <4>3. Len(s) \in Nat /\ Len(Github!Kept(s)) = IF Len(s) > Window THEN Window ELSE Len(s)
        BY <4>2, KeptIs
      <4>4. Len(Github!Kept(s)) <= Window  BY <4>3, RecordFacts
      <4> QED  BY <3>6, <4>2, <4>4
    <3>8. ~spoilt => Coming(x)  BY <1>3, <2>2, <2>4, <3>1, <3>6, KeptComes, RecordFacts
    <3>9. HandlerFits(x)'  BY <1>2, <1>3, <3>6, <3>7 DEF HandlerFits, Files
    <3>10. RecordTypes'  BY <1>2, <2>1, <3>3, <3>6, <3>9, RecordFacts, RecordTypesKeep
    <3>11. ~spoilt => InFile'  BY <1>2, <2>2, <3>3, <3>6, <3>8, FileStep, RecordFacts
    <3> QED  BY <1>2, <2>1, <3>10, <3>11, SameFreshKeeps
  <2> QED  BY <2>3, <2>4
<1> QED  BY <1>4, <1>5

LEMMA OpenKeepsRecord == ASSUME RecordInv, NEW h \in Handler, Github!Open(h) PROVE RecordInv'
<1>1. PICK k : k = handler[h]  OBVIOUS
<1>2. k.pc = "open" /\ Files(handler[h]) /\ UNCHANGED <<mode, rows, fresh, filed>>
  BY <1>1 DEF Github!Open, Github!Holds, Files
<1>3. /\ k \in HandlerRec /\ k.id \in Delivery /\ mode = "file" /\ Len(k.list) <= Window
  BY <1>1, <1>2, RecordFacts DEF HandlerFits
<1>4. CASE Github!Fallback(h) /\ UNCHANGED file  BY <1>2, <1>4, FallbackKeeps
<1>5. CASE Github!Step(h, "fill") /\ file' = <<>> /\ UNCHANGED spoilt
  <2>1. PICK x : x = [k EXCEPT !.pc = "fill"]  OBVIOUS
  <2>2. handler' = [handler EXCEPT ![h] = x]  BY <1>1, <1>5, <2>1 DEF Github!Step
  <2>3. x \in HandlerRec /\ x.pc = "fill" /\ x.id = k.id /\ x.list = k.list
    BY <1>3, <2>1 DEF HandlerRec
  <2>4. HandlerFits(x)'  BY <1>2, <1>3, <2>3 DEF HandlerFits, Files
  <2>5. file' \in Seq(Delivery) /\ Len(file') <= Window  BY <1>5, RecordFacts
  <2>6. RecordTypes'  BY <1>2, <1>5, <2>2, <2>3, <2>4, <2>5, RecordFacts, RecordTypesKeep
  <2>7. ASSUME ~spoilt PROVE InFile'
    <3>1. InFile /\ Coming(k)  BY <1>1, <1>2, <1>3, <2>7 DEF RecordInv, InFile
    <3>2. Coming(x)  BY <2>3, <3>1 DEF Coming
    <3> QED  BY <1>2, <1>5, <2>2, <2>3, <3>1, <3>2, FileStep, RecordFacts
  <2> QED  BY <1>2, <1>5, <2>6, <2>7, SameFreshKeeps
<1> QED  BY <1>4, <1>5 DEF Github!Open

LEMMA FillKeepsRecord == ASSUME RecordInv, NEW h \in Handler, Github!Fill(h) PROVE RecordInv'
<1>1. PICK k : k = handler[h]  OBVIOUS
<1>2. k.pc = "fill" /\ Files(handler[h]) /\ UNCHANGED <<mode, rows, filed>>
  BY <1>1 DEF Github!Fill, Github!Holds, Files
<1>3. /\ k \in HandlerRec /\ k.id \in Delivery /\ mode = "file" /\ Len(k.list) <= Window
  BY <1>1, <1>2, RecordFacts DEF HandlerFits
<1>4. CASE Github!Fallback(h) /\ UNCHANGED <<file, fresh>>  BY <1>2, <1>4, FallbackKeeps
<1>5. CASE /\ file' \in {handler[h].list} \cup (IF file = <<>> THEN {} ELSE {<<>>})
           /\ Github!LetThrough(h, handler[h].id) /\ UNCHANGED <<failures, spoilt>>
  <2>1. k.list \in Seq(Delivery)  BY <1>3 DEF HandlerRec
  <2>2. file' \in Seq(Delivery) /\ Len(file') <= Window
    <3>1. file' = k.list \/ file' = <<>>  BY <1>1, <1>5
    <3>2. CASE file' = k.list  BY <1>3, <2>1, <3>2
    <3>3. CASE file' = <<>>
      <4>1. Len(<<>>) <= Window  BY PartsAssumption
      <4>2. <<>> \in Seq(Delivery)  OBVIOUS
      <4> QED  BY <3>3, <4>1, <4>2
    <3> QED  BY <3>1, <3>2, <3>3
  <2>3. Github!LetThrough(h, k.id)  BY <1>1, <1>5
  <2>4. /\ RecordTypes' /\ fresh' = Append(fresh, k.id) /\ handler'[h].pc = "process"
        /\ \A g \in Handler : g # h => handler'[g] = handler[g]
    BY <1>2, <1>3, <1>5, <2>2, <2>3, LetTypes, RecordFacts
  <2>5. ASSUME ~spoilt
        PROVE  InFile' /\ \A m \in DOMAIN fresh : fresh[m] = k.id => Since(m) > Window
    <3>1. InFile  BY <1>3, <2>5 DEF RecordInv
    <3>2. Coming(k) /\ file = <<>>  BY <1>1, <1>2, <3>1 DEF InFile
    <3>3. file' = k.list  BY <1>1, <1>5, <3>2
    <3>4. Len(k.list) \in Nat  BY <2>1
    <3>5. Lists(k.list, 0)'  BY <1>3, <2>4, <3>2, <3>4, RecordFacts, WrittenLists
    <3>6. Lists(file, 0)'  BY <3>3, <3>5 DEF Lists
    <3>7. \A g \in Handler : ~Files(handler'[g])
      BY <1>2, <2>4, <3>1 DEF InFile, Files
    <3>8. InFile'  BY <3>6, <3>7 DEF InFile, Files
    <3> QED  BY <3>2, <3>8 DEF Coming
  <2>6. k.id \in Delivery \cup {NoDelivery}  BY <1>3
  <2> QED  BY <1>2, <1>3, <1>5, <2>4, <2>5, <2>6, LetKeeps
<1> QED  BY <1>4, <1>5 DEF Github!Fill

LEMMA ProcessKeepsRecord == ASSUME RecordInv, NEW h \in Handler, Github!Process(h)
                            PROVE RecordInv'
<1>1. PICK x : x = Github!NoHandler  OBVIOUS
<1>2. /\ handler[h].pc = "process" /\ handler' = [handler EXCEPT ![h] = x]
      /\ filed' \in {filed, filed \cup {handler[h].at}}
      /\ UNCHANGED <<mode, rows, file, fresh, spoilt>>
  BY <1>1 DEF Github!Process, Github!Holds, Github!Rest
<1>3. x \in HandlerRec /\ x.pc = "idle" /\ HandlerFits(x)'
  BY <1>1, Handlers DEF HandlerFits, Files
<1>4. handler[h].at \in DOMAIN fresh  BY <1>2, RecordFacts DEF HandlerFits
<1>5. filed' \subseteq DOMAIN fresh'  BY <1>2, <1>4, RecordFacts
<1>6. RecordTypes'  BY <1>2, <1>3, <1>5, RecordFacts, RecordTypesKeep
<1>7. ASSUME ~spoilt, mode = "file" PROVE InFile'
  <2>1. InFile  BY <1>7 DEF RecordInv
  <2>2. (\A g \in Handler : g # h => handler[g].pc # "fill") => Lists(file, 0)
    BY <1>2, <2>1 DEF InFile
  <2> QED  BY <1>2, <1>3, <2>1, <2>2, FileStep, RecordFacts DEF Files
<1> QED  BY <1>2, <1>6, <1>7, SameFreshKeeps

LEMMA CrashKeepsRecord == ASSUME RecordInv, Github!Crash PROVE RecordInv'
<1>1. /\ handler' = [h \in Handler |-> Github!NoHandler]
      /\ rows' = IF mode = "memory" THEN {} ELSE rows
      /\ spoilt' = (spoilt \/ mode = "memory" \/ \E h \in Handler : Github!Holds(h, "fill"))
      /\ UNCHANGED <<mode, file, fresh, filed>>
  BY DEF Github!Crash
<1>2. \A h \in Handler : handler'[h] = Github!NoHandler /\ handler'[h].pc = "idle"
  BY <1>1, Handlers
<1>3. \A h \in Handler : HandlerFits(handler[h])'  BY <1>2 DEF HandlerFits, Files
<1>4. handler' \in [Handler -> HandlerRec]  BY <1>1, Handlers
<1>5. RecordTypes'  BY <1>1, <1>3, <1>4, RecordFacts DEF RecordTypes
<1>6. ASSUME ~spoilt', mode = "file" PROVE InFile'
  <2>1. ~spoilt /\ \A h \in Handler : handler[h].pc # "fill"  BY <1>1, <1>6 DEF Github!Holds
  <2>2. Lists(file, 0)  BY <1>6, <2>1 DEF RecordInv, InFile
  <2>3. Lists(file, 0)'  BY <1>1, <2>2 DEF Lists, Since, Span
  <2> QED  BY <1>2, <2>3 DEF InFile, Files
<1> QED  BY <1>1, <1>5, <1>6, SameFreshKeeps

LEMMA RecordStart == Github!Init => RecordInv
<1> SUFFICES ASSUME Github!Init PROVE RecordInv  OBVIOUS
<1>1. /\ mode \in {"memory", "supabase", "file"} /\ rows = {} /\ file = <<>> /\ fresh = <<>>
      /\ filed = {} /\ spoilt = FALSE /\ handler = [h \in Handler |-> Github!NoHandler]
  BY DEF Github!Init
<1>2. file \in Seq(Delivery) /\ Len(file) <= Window /\ DOMAIN fresh = {}
      /\ fresh \in Seq(Delivery \cup {NoDelivery})
  BY <1>1, PartsAssumption
<1>3. \A h \in Handler : handler[h] = Github!NoHandler /\ handler[h].pc = "idle"
  BY <1>1, Handlers
<1>4. \A h \in Handler : HandlerFits(handler[h])  BY <1>3 DEF HandlerFits, Files
<1>5. handler \in [Handler -> HandlerRec]  BY <1>1, Handlers
<1>6. RecordTypes  BY <1>1, <1>2, <1>4, <1>5 DEF RecordTypes
<1>7. Repeats /\ InRows /\ InFile
  BY <1>2, <1>3 DEF Repeats, InRows, InFile, Lists, Files
<1> QED  BY <1>6, <1>7 DEF RecordInv

LEMMA RecordNext == ASSUME RecordInv, [Github!Next]_(Github!deliveryVars) PROVE RecordInv'
<1>1. CASE UNCHANGED Github!deliveryVars
  <2>1. RecordTypes'  BY <1>1 DEF Github!deliveryVars, RecordInv, RecordTypes, HandlerFits, Files
  <2>2. InFile => InFile'
    BY <1>1 DEF Github!deliveryVars, InFile, Files, Coming, Lists, Since, Span
  <2> QED  BY <1>1, <2>1, <2>2, SameFreshKeeps DEF Github!deliveryVars, RecordInv
<1>2. CASE Github!Next
  <2>1. CASE Github!Crash  BY <2>1, CrashKeepsRecord
  <2>2. ASSUME NEW h \in Handler, Github!Receive(h) PROVE RecordInv'
    BY <2>2, UnrecordedKeeps, RecallKeepsRecord, InsertKeepsRecord,
       BeginKeepsRecord DEF Github!Receive
  <2>3. ASSUME NEW h \in Handler,
               Github!Read(h) \/ Github!Open(h) \/ Github!Fill(h) \/ Github!Process(h)
        PROVE RecordInv'
    BY <2>3, ReadKeepsRecord, OpenKeepsRecord, FillKeepsRecord, ProcessKeepsRecord
  <2> QED  BY <1>2, <2>1, <2>2, <2>3 DEF Github!Next
<1> QED  BY <1>1, <1>2

\* What the record holds of the deliveries let through, at each step of the
\* handlers (githubWebhookDedupe.js).
THEOREM RecordInvariant == Github!Init /\ [][Github!Next]_(Github!deliveryVars) => []RecordInv
<1>1. RecordInv /\ [Github!Next]_(Github!deliveryVars) => RecordInv'  BY RecordNext
<1> QED  BY <1>1, RecordStart, PTL

-----------------------------------------------------------------------------
(* A dispatch: every packet has a slot of its own, and who is passed over  *)
(* waits for nothing.                                                      *)

\* The least of some numbers, from the library's well-founded order of finite sets.
LEMMA Least ==
  ASSUME NEW T, T \subseteq Nat, T # {}
  PROVE  \E x \in T : \A y \in T : x <= y
<1>1. PICK F : F = {0..x : x \in T}  OBVIOUS
<1>2. F \subseteq FiniteSubsetsOf(Nat) /\ F # {}
  <2>1. \A x \in T : 0..x \in SUBSET Nat /\ IsFiniteSet(0..x)  BY FS_Interval
  <2> QED  BY <1>1, <2>1 DEF FiniteSubsetsOf
<1>3. PICK R : R = StrictSubsetOrdering(Nat)  OBVIOUS
<1>4. PICK X \in F : \A Y \in F : ~ (<<Y, X>> \in R)
  BY <1>2, <1>3, FS_StrictSubsetOrderingWellFounded, WFMin
<1>5. PICK x \in T : X = 0..x  BY <1>1
<1>6. ASSUME NEW y \in T PROVE x <= y
  <2>1. PICK Y : Y = 0..y  OBVIOUS
  <2>2. Y \in F /\ x \in Nat /\ y \in Nat  BY <1>1, <2>1
  <2>3. y < x => Y \subseteq X /\ Y # X /\ X \in SUBSET Nat /\ Y \in SUBSET Nat
    BY <1>5, <2>1, <2>2
  <2>4. y < x => <<Y, X>> \in R  BY <1>3, <2>3 DEF StrictSubsetOrdering
  <2> QED  BY <1>4, <2>2, <2>4
<1> QED  BY <1>6

HandPacket ==
  [id : STRING \cup Dispatch!Persona, persona : Dispatch!Persona, tool : Dispatch!Tool,
   action : Dispatch!Action, draft : BOOLEAN, live : BOOLEAN]
\* A request and a packet of the bridge's own, whose id is its persona.
AnyRequest ==
  [id : STRING \cup Dispatch!Persona, persona : Dispatch!Persona, format : Dispatch!Format,
   tool : Dispatch!Tool \cup {Dispatch!Unset}, action : Dispatch!Action \cup {Dispatch!Unset},
   live : BOOLEAN, draft : BOOLEAN]

PacketIds == {packets[i].id : i \in DOMAIN packets}
Gone      == Dispatch!PacketState \ {"queued", "ready"}
Unique ==
  /\ Dispatch!OwnIds
  /\ \A i, j \in DOMAIN packets : packets[i].persona = packets[j].persona => i = j

HandTypes ==
  /\ asked \in Asked /\ ready \in Ready /\ verdict \in {"none", "blocked", "accepted"}
  /\ packets \in Seq(HandPacket) /\ invoked \in Seq(DOMAIN packets)
  /\ verdict # "accepted" => packets = <<>>
  /\ psm # <<>> => verdict = "accepted" /\ psm \in [PacketIds -> Dispatch!PacketState]
  /\ psm = <<>> => invoked = <<>>
  /\ \A i \in DOMAIN packets : Dispatch!ValidPair(packets[i].tool, packets[i].action)

\* No packet was invoked after one with a later slot.
InOrder ==
  \A k, n \in DOMAIN invoked, i, j \in DOMAIN packets :
    k < n /\ i = invoked[k] /\ j = invoked[n] => Dispatch!Slot(i) <= Dispatch!Slot(j)

\* A packet that was passed over waits for nothing any more.
Passed ==
  \A k \in DOMAIN invoked, i, j \in DOMAIN packets :
    j = invoked[k] /\ Dispatch!Live(i) /\ Dispatch!Slot(i) <= Dispatch!Slot(j) =>
      psm[packets[i].id] \in Gone

HandInv == HandTypes /\ (Unique => InOrder /\ Passed)

-----------------------------------------------------------------------------
\* The team is the one that was asked for or the planner; nobody is in it twice.
LEMMA TeamIs ==
  ASSUME HandInv
  PROVE  /\ Dispatch!Team \in Seq(Dispatch!Persona)
         /\ \A k, n \in DOMAIN Dispatch!Team : Dispatch!Team[k] = Dispatch!Team[n] => k = n
         /\ asked.patch \in BOOLEAN /\ asked.packets \in Seq(Dispatch!Request)
<1>1. asked \in Asked  BY DEF HandInv, HandTypes
<1>2. PICK a \in Asked : a = asked  BY <1>1
<1>3. <<"pm">> \in Seq(Dispatch!Persona)  BY DEF Dispatch!Persona
<1>4. \A k, n \in DOMAIN <<"pm">> : k = n  OBVIOUS
<1> QED  BY <1>2, <1>3, <1>4, PartsAssumption DEF Dispatch!Team

LEMMA SlotIs ==
  ASSUME HandInv, NEW i \in DOMAIN packets
  PROVE  /\ Dispatch!Slot(i) \in Nat /\ i \in Nat \ {0} /\ Len(Dispatch!Team) \in Nat
         /\ \/ /\ Dispatch!TheirLast(i) /\ Dispatch!Slot(i) \in DOMAIN Dispatch!Team
               /\ Dispatch!Team[Dispatch!Slot(i)] = packets[i].persona
            \/ ~Dispatch!TheirLast(i) /\ Dispatch!Slot(i) = Len(Dispatch!Team) + i
<1>1. PICK t : t = Dispatch!Team  OBVIOUS
<1>2. t \in Seq(Dispatch!Persona) /\ Len(t) \in Nat /\ DOMAIN t = 1..Len(t)  BY <1>1, TeamIs
<1>3. i \in Nat \ {0}  BY DEF HandInv, HandTypes
<1>4. CASE Dispatch!TheirLast(i)
  <2>1. \E k \in DOMAIN t : t[k] = packets[i].persona
    BY <1>1, <1>4 DEF Dispatch!TheirLast, Dispatch!ToSet
  <2>2. PICK k : k = CHOOSE n \in DOMAIN t : t[n] = packets[i].persona  OBVIOUS
  <2>3. k \in DOMAIN t /\ t[k] = packets[i].persona  BY <2>1, <2>2
  <2>4. Dispatch!Slot(i) = k  BY <1>1, <1>4, <2>2 DEF Dispatch!Slot, Dispatch!TeamPlace
  <2> QED  BY <1>1, <1>2, <1>3, <1>4, <2>3, <2>4
<1>5. CASE ~Dispatch!TheirLast(i)
  <2>1. Dispatch!Slot(i) = Len(Dispatch!Team) + i  BY <1>5 DEF Dispatch!Slot
  <2> QED  BY <1>1, <1>2, <1>3, <1>5, <2>1
<1> QED  BY <1>4, <1>5

\* No two packets share a slot.
LEMMA SlotsDiffer ==
  ASSUME HandInv, NEW i \in DOMAIN packets, NEW j \in DOMAIN packets,
         Dispatch!Slot(i) = Dispatch!Slot(j)
  PROVE  i = j
<1>1. DOMAIN Dispatch!Team = 1..Len(Dispatch!Team)  BY TeamIs
<1>2. PICK s : s = Dispatch!Slot(i)  OBVIOUS
<1>3. PICK n : n = Len(Dispatch!Team)  OBVIOUS
<1>4. n \in Nat /\ i \in Nat \ {0} /\ j \in Nat \ {0}  BY <1>3, SlotIs
<1>5. /\ s \in 1..n /\ Dispatch!Team[s] = packets[i].persona
         /\ (\A k \in DOMAIN packets : packets[k].persona = packets[i].persona => k <= i)
      \/ s = n + i
  BY <1>1, <1>2, <1>3, SlotIs DEF Dispatch!TheirLast
<1>6. /\ s \in 1..n /\ Dispatch!Team[s] = packets[j].persona
         /\ (\A k \in DOMAIN packets : packets[k].persona = packets[j].persona => k <= j)
      \/ s = n + j
  BY <1>1, <1>2, <1>3, SlotIs DEF Dispatch!TheirLast
<1> QED  BY <1>4, <1>5, <1>6

\* Where no persona has two packets, slots are ranks.
LEMMA SlotsAreRanks ==
  ASSUME HandInv, Unique, NEW i \in DOMAIN packets, NEW j \in DOMAIN packets,
         Dispatch!Slot(i) <= Dispatch!Slot(j)
  PROVE  Dispatch!Rank(i) <= Dispatch!Rank(j)
<1>1. PICK n : n = Len(Dispatch!Team)  OBVIOUS
<1>2. n \in Nat /\ DOMAIN Dispatch!Team = 1..n  BY <1>1, TeamIs
<1>3. ASSUME NEW k \in DOMAIN packets
      PROVE  \/ Dispatch!Slot(k) \in 1..n /\ Dispatch!Rank(k) = Dispatch!Slot(k)
             \/ Dispatch!Slot(k) = n + k /\ Dispatch!Rank(k) = n + 1 /\ k \in Nat \ {0}
  <2>1. k \in Nat \ {0} /\ Dispatch!Slot(k) \in Nat  BY SlotIs
  <2>2. \A m \in DOMAIN packets : packets[m].persona = packets[k].persona => m <= k
    BY <2>1 DEF Unique
  <2>3. CASE packets[k].persona \in Dispatch!ToSet(Dispatch!Team)
    <3>1. Dispatch!Slot(k) \in 1..n /\ Dispatch!Team[Dispatch!Slot(k)] = packets[k].persona
      BY <1>2, <2>2, <2>3, SlotIs DEF Dispatch!TheirLast
    <3>2. Dispatch!Rank(k) = Dispatch!Slot(k)
      BY <2>2, <2>3 DEF Dispatch!Rank, Dispatch!Slot, Dispatch!TheirLast, Dispatch!TeamPlace
    <3> QED  BY <3>1, <3>2
  <2>4. CASE packets[k].persona \notin Dispatch!ToSet(Dispatch!Team)
    <3>1. Dispatch!Slot(k) = n + k /\ Dispatch!Rank(k) = n + 1
      BY <1>1, <2>4 DEF Dispatch!Slot, Dispatch!TheirLast, Dispatch!Rank
    <3> QED  BY <2>1, <3>1
  <2> QED  BY <2>3, <2>4
<1>4. \/ Dispatch!Slot(i) \in 1..n /\ Dispatch!Rank(i) = Dispatch!Slot(i)
      \/ Dispatch!Slot(i) = n + i /\ Dispatch!Rank(i) = n + 1 /\ i \in Nat \ {0}
  BY <1>3
<1>5. \/ Dispatch!Slot(j) \in 1..n /\ Dispatch!Rank(j) = Dispatch!Slot(j)
      \/ Dispatch!Slot(j) = n + j /\ Dispatch!Rank(j) = n + 1 /\ j \in Nat \ {0}
  BY <1>3
<1> QED  BY <1>2, <1>4, <1>5

LEMMA HandGivesOrder == HandInv => Dispatch!HandoffIsKept
<1> SUFFICES ASSUME HandInv, Unique
             PROVE  \A k, n \in DOMAIN invoked :
                      k < n => Dispatch!Rank(invoked[k]) <= Dispatch!Rank(invoked[n])
  BY DEF Dispatch!HandoffIsKept, Unique
<1> SUFFICES ASSUME NEW k \in DOMAIN invoked, NEW n \in DOMAIN invoked, k < n
             PROVE  Dispatch!Rank(invoked[k]) <= Dispatch!Rank(invoked[n])
  OBVIOUS
<1>1. invoked[k] \in DOMAIN packets /\ invoked[n] \in DOMAIN packets
  BY DEF HandInv, HandTypes
<1>2. PICK i \in DOMAIN packets : i = invoked[k]  BY <1>1
<1>3. PICK j \in DOMAIN packets : j = invoked[n]  BY <1>1
<1>4. Dispatch!Slot(i) <= Dispatch!Slot(j)  BY <1>2, <1>3 DEF HandInv, InOrder
<1> QED  BY <1>2, <1>3, <1>4, SlotsAreRanks

LEMMA HandGivesTypes == HandInv => Dispatch!TypeOK
<1> SUFFICES ASSUME HandInv PROVE Dispatch!TypeOK  OBVIOUS
<1>1. asked.patch \in BOOLEAN  BY TeamIs
<1>2. \A i \in DOMAIN packets : packets[i].persona \in Dispatch!Persona
  <2>1. \A i \in DOMAIN packets : packets[i] \in HandPacket  BY DEF HandInv, HandTypes
  <2> QED  BY <2>1 DEF HandPacket
<1>3. \A id \in DOMAIN psm : psm[id] \in Dispatch!PacketState
  <2>1. CASE psm = <<>>  BY <2>1
  <2>2. CASE psm # <<>>  BY <2>2 DEF HandInv, HandTypes
  <2> QED  BY <2>1, <2>2
<1>4. Dispatch!ToSet(invoked) \subseteq DOMAIN packets
  BY DEF HandInv, HandTypes, Dispatch!ToSet
<1> QED  BY <1>1, <1>2, <1>3, <1>4 DEF HandInv, HandTypes, Dispatch!TypeOK

-----------------------------------------------------------------------------
(* The steps. *)

LEMMA StepFrame ==
  ASSUME UNCHANGED <<asked, packets>>
  PROVE  /\ PacketIds' = PacketIds /\ Unique' = Unique
         /\ \A i : Dispatch!Slot(i)' = Dispatch!Slot(i) /\ Dispatch!Live(i)' = Dispatch!Live(i)
BY DEF PacketIds, Unique, Dispatch!OwnIds, Dispatch!Slot, Dispatch!TheirLast,
   Dispatch!TeamPlace, Dispatch!Team, Dispatch!Live

LEMMA OutcomesGo ==
  /\ \A o \in Dispatch!Outcome : Dispatch!StateOfOutcome(o) \in Gone
  /\ \A i : Dispatch!Outcomes(i) \subseteq Dispatch!Outcome
BY DEF Dispatch!Outcome, Dispatch!StateOfOutcome, Gone, Dispatch!PacketState, Dispatch!Outcomes

\* Invoking a packet to which every invoked one came first, and before which
\* none waits.
LEMMA InvokeKeeps ==
  ASSUME HandInv, verdict = "accepted", UNCHANGED <<asked, ready, verdict, packets>>,
         NEW i \in DOMAIN packets, NEW states \in [PacketIds -> Dispatch!PacketState],
         Dispatch!Invoke(i, states),
         Unique => /\ \A j \in DOMAIN packets, k \in DOMAIN invoked :
                        j = invoked[k] => Dispatch!Slot(j) <= Dispatch!Slot(i)
                   /\ \A j \in DOMAIN packets :
                        Dispatch!Live(j) /\ Dispatch!Slot(j) <= Dispatch!Slot(i) /\ j # i =>
                                   states[packets[j].id] \in Gone
  PROVE  HandInv'
<1>1. PICK id : id = packets[i].id  OBVIOUS
<1>2. id \in PacketIds  BY <1>1 DEF PacketIds
<1>3. PICK new \in Dispatch!PacketState :
        /\ psm' = [states EXCEPT ![id] = new]
        /\ new \in Gone
  <2>1. PICK o \in Dispatch!Outcomes(i) :
          psm' = [states EXCEPT ![id] = IF @ = "skipped" THEN @ ELSE Dispatch!StateOfOutcome(o)]
    BY <1>1 DEF Dispatch!Invoke
  <2>2. Dispatch!StateOfOutcome(o) \in Gone  BY OutcomesGo
  <2>3. PICK new : new = IF states[id] = "skipped" THEN states[id]
                                                   ELSE Dispatch!StateOfOutcome(o)
    OBVIOUS
  <2>4. psm' = [states EXCEPT ![id] = new]  BY <2>1, <2>3
  <2>5. new \in Gone  BY <2>2, <2>3 DEF Gone, Dispatch!PacketState
  <2> QED  BY <2>4, <2>5 DEF Gone
<1>4. new \in Gone  BY <1>3
<1>5. /\ psm' \in [PacketIds -> Dispatch!PacketState] /\ psm'[id] \in Gone
      /\ \A q \in PacketIds : q # id => psm'[q] = states[q]
  BY <1>2, <1>3, <1>4
<1>6. psm' # <<>>  BY <1>2, <1>5
<1>7. invoked' = invoked \/ invoked' = Append(invoked, i)  BY DEF Dispatch!Invoke
<1>8. invoked \in Seq(DOMAIN packets)  BY DEF HandInv, HandTypes
<1>9. invoked' \in Seq(DOMAIN packets)  BY <1>7, <1>8
<1>10. HandTypes'
  <2>1. packets' = packets /\ packets \in Seq(HandPacket)  BY DEF HandInv, HandTypes
  <2> QED  BY <1>5, <1>6, <1>9, <2>1, StepFrame DEF HandInv, HandTypes
<1>11. ASSUME Unique PROVE InOrder' /\ Passed'
  <2>1. \A k \in DOMAIN invoked' :
          \/ k \in DOMAIN invoked /\ invoked'[k] = invoked[k]
          \/ k = Len(invoked) + 1 /\ invoked'[k] = i /\ DOMAIN invoked = 1..Len(invoked)
    BY <1>7, <1>8
  <2>2. Len(invoked) \in Nat /\ DOMAIN invoked \subseteq Nat  BY <1>8
  <2>3. \A j \in DOMAIN packets : Dispatch!Slot(j) \in Nat  BY SlotIs
  <2>4. ASSUME NEW k \in DOMAIN invoked', NEW n \in DOMAIN invoked', NEW a \in DOMAIN packets,
               NEW b \in DOMAIN packets, k < n, a = invoked'[k], b = invoked'[n]
        PROVE  Dispatch!Slot(a) <= Dispatch!Slot(b)
    <3>1. CASE n \in DOMAIN invoked /\ invoked'[n] = invoked[n]
      <4>1. k \in DOMAIN invoked /\ invoked'[k] = invoked[k]
        BY <2>1, <2>2, <2>4, <3>1
      <4> QED  BY <1>11, <2>4, <3>1, <4>1 DEF HandInv, InOrder
    <3>2. CASE invoked'[n] = i
      <4>1. a = i \/ \E m \in DOMAIN invoked : a = invoked[m]  BY <2>1, <2>4
      <4> QED  BY <1>11, <2>3, <2>4, <3>2, <4>1
    <3> QED  BY <2>1, <3>1, <3>2
  <2>5. ASSUME NEW k \in DOMAIN invoked', NEW a \in DOMAIN packets, NEW b \in DOMAIN packets,
               b = invoked'[k], Dispatch!Live(a), Dispatch!Slot(a) <= Dispatch!Slot(b)
        PROVE  psm'[packets[a].id] \in Gone
    <3>1. b = i \/ \E m \in DOMAIN invoked : b = invoked[m]  BY <2>1, <2>5
    <3>2. Dispatch!Slot(b) <= Dispatch!Slot(i)  BY <1>11, <2>3, <3>1
    <3>3. Dispatch!Slot(a) <= Dispatch!Slot(i)  BY <2>3, <2>5, <3>2
    <3>4. CASE a = i  BY <1>1, <1>5, <3>4
    <3>5. CASE a # i
      <4>1. states[packets[a].id] \in Gone  BY <1>11, <2>5, <3>3, <3>5
      <4>2. packets[a].id \in PacketIds  BY DEF PacketIds
      <4> QED  BY <1>5, <4>1, <4>2
    <3> QED  BY <3>4, <3>5
  <2>6. /\ packets' = packets
        /\ \A j : Dispatch!Slot(j)' = Dispatch!Slot(j) /\ Dispatch!Live(j)' = Dispatch!Live(j)
    BY StepFrame
  <2> QED  BY <2>4, <2>5, <2>6 DEF InOrder, Passed
<1> QED  BY <1>10, <1>11, StepFrame DEF HandInv

LEMMA DelegateKeeps == ASSUME HandInv, Dispatch!Delegate PROVE HandInv'
<1>1. verdict = "none" /\ UNCHANGED <<asked, ready, psm, invoked>>  BY DEF Dispatch!Delegate
<1>2. packets = <<>> /\ psm = <<>> /\ invoked = <<>>  BY <1>1 DEF HandInv, HandTypes
<1>3. CASE ~Dispatch!Acceptable
  <2>1. verdict' = "blocked" /\ packets' = packets  BY <1>3 DEF Dispatch!Delegate
  <2>2. HandTypes'  BY <1>1, <1>2, <2>1 DEF HandInv, HandTypes
  <2>3. InOrder' /\ Passed'  BY <1>1, <1>2 DEF InOrder, Passed
  <2> QED  BY <2>2, <2>3 DEF HandInv
<1>4. CASE Dispatch!Acceptable
  <2>1. verdict' = "accepted" /\ packets' = Dispatch!Normalised  BY <1>4 DEF Dispatch!Delegate
  <2>2. PICK ps : ps = Dispatch!Normalised  OBVIOUS
  <2>3. \A i \in DOMAIN ps : Dispatch!ValidPair(ps[i].tool, ps[i].action)
    BY <1>4, <2>2 DEF Dispatch!Acceptable, Dispatch!Permitted
  <2>4. ps \in Seq(HandPacket)
    <3>1. PICK rs : rs = IF asked.packets = <<>>
                         THEN [i \in DOMAIN Dispatch!Team |-> Dispatch!Envelope(Dispatch!Team[i])]
                         ELSE asked.packets
      OBVIOUS
    <3>6. ps = [i \in DOMAIN rs |-> Dispatch!Specialised(rs[i])]
      BY <2>2, <3>1 DEF Dispatch!Normalised
    <3>2. rs \in Seq(AnyRequest)
      <4>1. ASSUME NEW persona \in Dispatch!Persona
            PROVE  Dispatch!Envelope(persona) \in AnyRequest
        <5>2. PICK f \in Dispatch!Format :
                f = IF persona = "engineering" /\ asked.patch THEN "patch_markdown"
                                                              ELSE "spec_markdown"
          BY DEF Dispatch!Format
        <5>3. [id |-> persona, persona |-> persona, tool |-> Dispatch!Unset,
               action |-> Dispatch!Unset, live |-> FALSE, draft |-> FALSE,
               format |-> f] \in AnyRequest
          BY DEF AnyRequest
        <5> QED  BY <5>2, <5>3 DEF Dispatch!Envelope
      <4>2. PICK t : t = Dispatch!Team  OBVIOUS
      <4>3. t \in Seq(Dispatch!Persona)  BY <4>2, TeamIs
      <4>4. [i \in DOMAIN t |-> Dispatch!Envelope(t[i])] \in Seq(AnyRequest)  BY <4>1, <4>3
      <4>5. Dispatch!Request \subseteq AnyRequest  BY DEF Dispatch!Request, AnyRequest
      <4>6. asked.packets \in Seq(AnyRequest)  BY <4>5, TeamIs
      <4> QED  BY <3>1, <4>2, <4>4, <4>6
    <3>3. \A r \in AnyRequest : Dispatch!Specialised(r) =
             [id |-> r.id, persona |-> r.persona, tool |-> Dispatch!Specialised(r).tool,
              draft |-> r.draft, live |-> r.live, action |-> Dispatch!Specialised(r).action]
      BY DEF Dispatch!Specialised
    <3>4. \A i \in DOMAIN rs : Dispatch!Specialised(rs[i]) \in HandPacket
      <4>1. SUFFICES ASSUME NEW i \in DOMAIN rs PROVE Dispatch!Specialised(rs[i]) \in HandPacket
        OBVIOUS
      <4>2. PICK r \in AnyRequest : r = rs[i]  BY <3>2
      <4>3. PICK p : p = Dispatch!Specialised(r)  OBVIOUS
      <4>4. ps[i] = p /\ i \in DOMAIN ps  BY <3>6, <4>2, <4>3
      <4>5. p.tool \in Dispatch!Tool /\ p.action \in Dispatch!ActionsOf[p.tool]
        BY <2>3, <4>4 DEF Dispatch!ValidPair
      <4>6. p.action \in Dispatch!Action  BY <4>5 DEF Dispatch!Action, Dispatch!Tool
      <4>7. r.draft \in BOOLEAN /\ r.live \in BOOLEAN  BY DEF AnyRequest
      <4>8. p = [id |-> r.id, persona |-> r.persona, tool |-> p.tool, draft |-> r.draft,
                 live |-> r.live, action |-> p.action]
        BY <3>3, <4>3
      <4>9. r.id \in STRING \cup Dispatch!Persona /\ r.persona \in Dispatch!Persona
        BY DEF AnyRequest
      <4>10. p \in HandPacket  BY <4>5, <4>6, <4>7, <4>8, <4>9 DEF HandPacket
      <4> QED  BY <4>2, <4>3, <4>10
    <3>5. DOMAIN rs = 1..Len(rs) /\ Len(rs) \in Nat  BY <3>2
    <3>7. ps = [i \in 1..Len(rs) |-> Dispatch!Specialised(rs[i])]  BY <3>5, <3>6
    <3>8. ps \in [1..Len(rs) -> HandPacket]  BY <3>4, <3>5, <3>7
    <3> QED  BY <3>5, <3>8
  <2>5. HandTypes'  BY <1>1, <1>2, <2>1, <2>2, <2>3, <2>4 DEF HandInv, HandTypes
  <2>6. InOrder' /\ Passed'  BY <1>1, <1>2 DEF InOrder, Passed
  <2> QED  BY <2>5, <2>6 DEF HandInv
<1> QED  BY <1>3, <1>4

\* The starter is the first packet in order: every packet that is no draft can
\* be invoked.
LEMMA KickKeeps == ASSUME HandInv, Dispatch!Kick PROVE HandInv'
<1>1. verdict = "accepted" /\ psm = <<>> /\ UNCHANGED <<asked, ready, verdict, packets>>
  BY DEF Dispatch!Kick
<1>2. invoked = <<>> /\ DOMAIN invoked = {}  BY <1>1 DEF HandInv, HandTypes
<1>3. Dispatch!Graph \in [PacketIds -> Dispatch!PacketState]
  BY DEF Dispatch!Graph, PacketIds, Dispatch!PacketState
<1>4. CASE Dispatch!Able = {}
  <2>1. psm' = Dispatch!Graph /\ invoked' = invoked  BY <1>4 DEF Dispatch!Kick
  <2>2. packets' = packets /\ packets \in Seq(HandPacket) /\ invoked' \in Seq(DOMAIN packets)
    BY <1>1, <2>1 DEF HandInv, HandTypes
  <2>3. HandTypes'
    BY <1>1, <1>2, <1>3, <2>1, <2>2, StepFrame DEF HandInv, HandTypes
  <2>4. InOrder' /\ Passed'  BY <1>2, <2>1 DEF InOrder, Passed
  <2> QED  BY <2>3, <2>4 DEF HandInv
<1>5. CASE Dispatch!Able # {}
  <2>1. PICK i \in Dispatch!Able : Dispatch!First(i, Dispatch!Able) /\ Dispatch!Invoke(i, Dispatch!Graph)
    BY <1>5 DEF Dispatch!Kick
  <2>2. i \in DOMAIN packets  BY DEF Dispatch!Able
  <2>3. \A j \in DOMAIN packets : Dispatch!Live(j) => j \in Dispatch!Able
    BY DEF Dispatch!Able, Dispatch!Invocable, HandInv, HandTypes
  <2>4. ASSUME NEW j \in DOMAIN packets, Dispatch!Live(j),
               Dispatch!Slot(j) <= Dispatch!Slot(i) PROVE j = i
    <3>1. Dispatch!Slot(i) <= Dispatch!Slot(j)  BY <2>1, <2>3, <2>4 DEF Dispatch!First
    <3>2. Dispatch!Slot(i) \in Nat /\ Dispatch!Slot(j) \in Nat  BY <2>2, SlotIs
    <3> QED  BY <2>2, <2>4, <3>1, <3>2, SlotsDiffer
  <2> QED  BY <1>1, <1>2, <1>3, <2>1, <2>2, <2>4, InvokeKeeps
<1> QED  BY <1>4, <1>5

LEMMA LeastWithId ==
  ASSUME HandInv, NEW id \in PacketIds
  PROVE  /\ Dispatch!Definition(id) \in Dispatch!WithId(id)
         /\ \A j \in Dispatch!WithId(id) : Dispatch!Definition(id) <= j
<1>1. Dispatch!WithId(id) \subseteq Nat /\ Dispatch!WithId(id) # {}
  <2>1. DOMAIN packets \subseteq Nat  BY DEF HandInv, HandTypes
  <2> QED  BY <2>1 DEF Dispatch!WithId, PacketIds
<1>2. \E i \in Dispatch!WithId(id) : \A j \in Dispatch!WithId(id) : i <= j  BY <1>1, Least
<1> QED  BY <1>2 DEF Dispatch!Definition

\* The packet a tick invokes: nothing before it waits.
LEMMA AdvanceKeeps == ASSUME HandInv, Dispatch!Advance PROVE HandInv'
<1>1. psm # <<>> /\ UNCHANGED <<asked, ready, verdict, packets>>  BY DEF Dispatch!Advance
<1>2. verdict = "accepted" /\ psm \in [PacketIds -> Dispatch!PacketState]
  BY <1>1 DEF HandInv, HandTypes
<1>3. PICK lively : lively = {i \in DOMAIN packets : Dispatch!Live(i)}  OBVIOUS
<1>4. PICK req : req = Dispatch!Required  OBVIOUS
<1>5. /\ req = [s \in {Dispatch!Slot(i) : i \in lively} |->
                  packets[CHOOSE i \in lively : Dispatch!Slot(i) = s].id]
      /\ lively \subseteq DOMAIN packets
  BY <1>3, <1>4 DEF Dispatch!Required
<1>6. ASSUME NEW i \in lively
      PROVE  Dispatch!Slot(i) \in DOMAIN req /\ req[Dispatch!Slot(i)] = packets[i].id
  <2>1. PICK s : s = Dispatch!Slot(i)  OBVIOUS
  <2>2. PICK j : j = CHOOSE k \in lively : Dispatch!Slot(k) = s  OBVIOUS
  <2>3. j \in lively /\ Dispatch!Slot(j) = s  BY <1>6, <2>1, <2>2
  <2>4. j = i  BY <1>5, <2>1, <2>3, SlotsDiffer
  <2> QED  BY <1>5, <2>1, <2>2, <2>4
<1>7. \A s \in DOMAIN req : \E i \in lively : s = Dispatch!Slot(i)  BY <1>5
<1>8. PICK judged : judged = {s \in DOMAIN req : Dispatch!Live(Dispatch!Judged(req[s]))}
  OBVIOUS
<1>9. PICK id \in Dispatch!ToSet(req) :
        /\ Dispatch!NextRunnable(id, judged, req, psm, [q \in DOMAIN psm |-> {}])
        /\ Dispatch!Invoke(Dispatch!Definition(id), psm)
  BY <1>4, <1>8 DEF Dispatch!Advance
<1>10. PICK s \in judged :
         /\ id = req[s] /\ psm[id] \in {"queued", "ready"}
         /\ \A t \in judged :
              t < s => ~Dispatch!Runnable(req[t], psm, [q \in DOMAIN psm |-> {}])
  BY <1>9 DEF Dispatch!NextRunnable, Dispatch!Runnable
<1>11. PICK c \in lively : s = Dispatch!Slot(c) /\ id = packets[c].id
  <2>1. PICK c \in lively : s = Dispatch!Slot(c)  BY <1>7, <1>8
  <2> QED  BY <1>6, <1>10, <2>1
<1>12. id \in PacketIds  BY <1>5, <1>11 DEF PacketIds
<1>13. PICK i : i = Dispatch!Definition(id)  OBVIOUS
<1>14. i \in DOMAIN packets /\ packets[i].id = id
  BY <1>12, <1>13, LeastWithId DEF Dispatch!WithId
<1>15. ASSUME Unique
       PROVE  /\ \A j \in DOMAIN packets, k \in DOMAIN invoked :
                   j = invoked[k] => Dispatch!Slot(j) <= Dispatch!Slot(i)
              /\ \A j \in DOMAIN packets :
                   Dispatch!Live(j) /\ Dispatch!Slot(j) <= Dispatch!Slot(i) /\ j # i =>
                              psm[packets[j].id] \in Gone
  <2>1. i = c /\ Dispatch!Live(i)
    BY <1>3, <1>5, <1>11, <1>14, <1>15 DEF Unique, Dispatch!OwnIds
  <2>2. \A j \in DOMAIN packets : Dispatch!Slot(j) \in Nat  BY SlotIs
  <2>3. ASSUME NEW j \in DOMAIN packets, Dispatch!Live(j),
               Dispatch!Slot(j) <= Dispatch!Slot(i), j # i
        PROVE  psm[packets[j].id] \in Gone
    <3>1. PICK t : t = Dispatch!Slot(j)  OBVIOUS
    <3>2. t \in DOMAIN req /\ req[t] = packets[j].id  BY <1>3, <1>6, <2>3, <3>1
    <3>3. t < s
      <4>1. t # s  BY <1>11, <1>14, <2>1, <2>3, <3>1, SlotsDiffer
      <4> QED  BY <1>11, <1>14, <2>1, <2>2, <2>3, <3>1, <4>1
    <3>4. Dispatch!Judged(req[t]) = j
      <4>1. PICK q : q = req[t]  OBVIOUS
      <4>2. Dispatch!WithId(q) = {j}
        BY <1>15, <3>2, <4>1 DEF Dispatch!WithId, Unique, Dispatch!OwnIds
      <4>3. j <= j  BY <2>3 DEF HandInv, HandTypes
      <4> QED  BY <4>1, <4>2, <4>3 DEF Dispatch!Judged
    <3>5. t \in judged  BY <1>8, <2>3, <3>2, <3>4
    <3>6. packets[j].id \in PacketIds  BY DEF PacketIds
    <3>7. ~Dispatch!Runnable(packets[j].id, psm, [q \in DOMAIN psm |-> {}])
      BY <1>10, <3>2, <3>3, <3>5
    <3>8. psm[packets[j].id] \notin {"queued", "ready"}
      BY <1>2, <3>6, <3>7 DEF Dispatch!Runnable
    <3> QED  BY <1>2, <3>6, <3>8 DEF Gone
  <2>4. ASSUME NEW j \in DOMAIN packets, NEW k \in DOMAIN invoked, j = invoked[k],
               ~(Dispatch!Slot(j) <= Dispatch!Slot(i))
        PROVE  FALSE
    <3>1. Dispatch!Slot(i) <= Dispatch!Slot(j)  BY <1>14, <2>2, <2>4
    <3>2. psm[packets[i].id] \in Gone
      BY <1>14, <1>15, <2>1, <2>4, <3>1 DEF HandInv, Passed
    <3> QED  BY <1>10, <1>14, <3>2 DEF Gone
  <2> QED  BY <2>3, <2>4
<1>16. Dispatch!Invoke(i, psm)  BY <1>9, <1>13
<1> QED  BY <1>1, <1>2, <1>14, <1>15, <1>16, InvokeKeeps

LEMMA ReportKeeps == ASSUME HandInv, Dispatch!Report PROVE HandInv'
<1>1. PICK i \in DOMAIN packets : Dispatch!Callback(packets[i].id)  BY DEF Dispatch!Report
<1>2. PICK id : id = packets[i].id  OBVIOUS
<1>3. /\ psm # <<>> /\ id \in DOMAIN psm /\ psm' = [psm EXCEPT ![id] = "completed"]
      /\ UNCHANGED <<asked, ready, verdict, packets, invoked>>
  BY <1>1, <1>2 DEF Dispatch!Callback
<1>4. psm \in [PacketIds -> Dispatch!PacketState]  BY <1>3 DEF HandInv, HandTypes
<1>5. /\ psm' \in [PacketIds -> Dispatch!PacketState] /\ psm' # <<>>
      /\ \A q \in PacketIds : psm'[q] = psm[q] \/ psm'[q] \in Gone
  BY <1>3, <1>4 DEF Dispatch!PacketState, Gone
<1>6. HandTypes'
  BY <1>3, <1>4, <1>5, StepFrame DEF HandInv, HandTypes
<1>7. ASSUME Unique PROVE InOrder' /\ Passed'
  <2>1. InOrder /\ Passed  BY <1>7 DEF HandInv
  <2>2. \A j : Dispatch!Slot(j)' = Dispatch!Slot(j) /\ Dispatch!Live(j)' = Dispatch!Live(j)
    BY <1>3, StepFrame
  <2>3. InOrder'  BY <1>3, <2>1, <2>2 DEF InOrder
  <2>4. \A j \in DOMAIN packets : packets[j].id \in PacketIds  BY DEF PacketIds
  <2>5. ASSUME NEW k \in DOMAIN invoked, NEW a \in DOMAIN packets, NEW b \in DOMAIN packets,
               b = invoked[k], Dispatch!Live(a), Dispatch!Slot(a) <= Dispatch!Slot(b)
        PROVE  psm'[packets[a].id] \in Gone
    BY <1>5, <2>1, <2>4, <2>5 DEF Passed
  <2>6. Passed'  BY <1>3, <2>2, <2>5 DEF Passed
  <2> QED  BY <2>3, <2>6
<1> QED  BY <1>3, <1>6, <1>7, StepFrame DEF HandInv

LEMMA HandStart == Dispatch!Init => HandInv
<1> SUFFICES ASSUME Dispatch!Init PROVE HandInv  OBVIOUS
<1>1. /\ asked \in Asked /\ ready \in Ready
      /\ verdict = "none" /\ packets = <<>> /\ psm = <<>> /\ invoked = <<>>
  BY DEF Dispatch!Init
<1>2. packets \in Seq(HandPacket) /\ invoked \in Seq(DOMAIN packets) /\ DOMAIN packets = {}
  BY <1>1
<1>3. HandTypes  BY <1>1, <1>2 DEF HandTypes
<1>4. InOrder /\ Passed  BY <1>2 DEF InOrder, Passed
<1> QED  BY <1>3, <1>4 DEF HandInv

LEMMA HandNext == ASSUME HandInv, [Dispatch!Next]_(Dispatch!vars) PROVE HandInv'
<1>1. CASE UNCHANGED Dispatch!vars
  <2>1. UNCHANGED <<asked, ready, verdict, packets, psm, invoked>>  BY <1>1 DEF Dispatch!vars
  <2>2. HandTypes'  BY <2>1, StepFrame DEF HandInv, HandTypes
  <2>3. InOrder => InOrder'  BY <2>1, StepFrame DEF InOrder
  <2>4. Passed => Passed'  BY <2>1, StepFrame DEF Passed
  <2> QED  BY <2>1, <2>2, <2>3, <2>4, StepFrame DEF HandInv
<1>2. CASE Dispatch!Next
  BY <1>2, DelegateKeeps, KickKeeps, AdvanceKeeps, ReportKeeps DEF Dispatch!Next
<1> QED  BY <1>1, <1>2

\* Whoever asks for what: packets are invoked by rising slots, and a packet that
\* was passed over waits for nothing (starterLadder.js, runProgressor.js).
THEOREM HandInvariant == Dispatch!Init /\ [][Dispatch!Next]_(Dispatch!vars) => []HandInv
<1>1. HandInv /\ [Dispatch!Next]_(Dispatch!vars) => HandInv'  BY HandNext
<1> QED  BY <1>1, HandStart, PTL

-----------------------------------------------------------------------------
(* The parts side by side: a behaviour of the whole is one of each. *)

LEMMA PartsAreEach ==
  PartsSpec => /\ Spec
               /\ Thread!Init /\ [][Thread!Next]_(Thread!vars)
               /\ Dispatch!Init /\ [][Dispatch!Next]_(Dispatch!vars)
               /\ Github!Init /\ [][Github!Next]_(Github!deliveryVars)
<1>1. PartsInit => Init /\ Thread!Init /\ Dispatch!Init /\ Github!Init  BY DEF PartsInit
<1>2. [PartsNext]_parts => /\ [Next]_vars
                           /\ [Thread!Next]_(Thread!vars)
                           /\ [Dispatch!Next]_(Dispatch!vars)
                           /\ [Github!Next]_(Github!deliveryVars)
  BY DEF PartsNext, Packet, InThread, Delegated, Delivered, parts, vars, threadVars,
         dispatchVars, githubVars, Thread!vars, Dispatch!vars, Github!deliveryVars
<1> QED  BY <1>1, <1>2, PTL DEF PartsSpec, Spec

\* Whatever the parts do, their state has its types, counters and windows within
\* their bounds, for any values of the constants.
THEOREM EveryPartTyped == PartsSpec => []PartsTypeOK
<1>1. IInv => TypeOK  BY DEF IInv
<1>2. RouteInv => Thread!TypeOK  BY RouteGivesTypes
<1>3. HandInv => Dispatch!TypeOK  BY HandGivesTypes
<1>4. RecordInv => Github!TypeOK
  <2>1. SUFFICES ASSUME RecordInv PROVE Github!TypeOK  OBVIOUS
  <2>2. RecordTypes  BY <2>1 DEF RecordInv
  <2>3. Github!ToSet(file) \subseteq Delivery  BY <2>2 DEF RecordTypes, Github!ToSet
  <2>4. \A h \in Handler : handler[h].pc \in {"idle", "read", "open", "fill", "process"}
    BY <2>2 DEF RecordTypes, HandlerRec
  <2> QED  BY <2>2, <2>3, <2>4 DEF RecordTypes, Github!TypeOK
<1>5. IInv /\ RouteInv /\ HandInv /\ RecordInv => PartsTypeOK
  BY <1>1, <1>2, <1>3, <1>4 DEF PartsTypeOK
<1> QED
  BY <1>5, PartsAreEach, AuthorityInvariant, RouteInvariant, HandInvariant,
     RecordInvariant, PTL

\* A reply in a thread that was greeted is left without a turn only while another
\* turn has the route file emptied, or after a fault (slackRoutingStore.js).
THEOREM RepliesAreDroppedWhileSaving == PartsSpec => DroppedOnlyWhileSaving
<1> QED  BY PartsAreEach, RouteGivesDrops DEF DroppedOnlyWhileSaving

\* The model is shown only what was said, and without overlap or fault the
\* latest turns in their order (threadMemory.js), for any messages, number of
\* turns shown, faults and crashes.
THEOREM TranscriptIsTrue == PartsSpec => []PriorIsTranscript
<1>1. ThreadInv => PriorIsTranscript  BY ThreadGivesTranscript DEF PriorIsTranscript
<1> QED  BY <1>1, PartsAreEach, ThreadInvariant, PTL

\* A message that mentions the bot starts at most one turn although two handlers
\* get it (registerFounderHandlers.js), as long as the bot's id can be looked up.
THEOREM MentionsStartOneTurn == PartsSpec => []OneTurnPerMention
<1>1. ThreadInv => OneTurnPerMention  BY ThreadGivesOneTurn DEF OneTurnPerMention
<1> QED  BY <1>1, PartsAreEach, ThreadInvariant, PTL

\* Where no persona has two packets, packets are invoked in the order of the team
\* (orderPacketsByHandoff), for any team, packets, lanes and answers of the tools.
THEOREM HandoffsAreKept == PartsSpec => []HandoffIsKept
<1>1. HandInv => HandoffIsKept  BY HandGivesOrder DEF HandoffIsKept
<1> QED  BY <1>1, PartsAreEach, HandInvariant, PTL

\* A delivery that GitHub repeats is filed once (githubWebhookDedupe.js), for any
\* handlers: while no record was lost, and in the file as far as its window goes.
THEOREM DeliveriesAreFiledOnce == PartsSpec => []FiledOnce
<1>1. RecordInv => FiledOnce  BY RecordGivesFiledOnce DEF FiledOnce
<1> QED  BY <1>1, PartsAreEach, RecordInvariant, PTL
==============================================================================
