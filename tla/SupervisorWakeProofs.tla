------------------------ MODULE SupervisorWakeProofs ------------------------
(***************************************************************************)
(* The re-entry guard of the supervisor, for any number of runs, sweeps,   *)
(* direct ticks, changes and crashes.  GuardIsOwned is inductive together  *)
(* with TypeOK: a tick enters its key when it leaves a step in which it    *)
(* owns none, and takes it out when it leaves the last step in which it    *)
(* owns it.                                                                *)
(***************************************************************************)
EXTENDS SupervisorWake, TLAPS

Pc == {"idle", "lease", "enter", "reconcile", "look", "quit", "quit_worked", "clear"}

LEMMA NoTickTyped == NoTick \in [pc : Pc, key : Key]
<1>1. PICK r \in Run : TRUE BY WakeAssumption
<1>2. (CHOOSE q \in Run : TRUE) \in Run BY <1>1
<1> QED BY <1>2 DEF NoTick, Key, Scope, Pc

LEMMA TypeInit == Init => TypeOK
<1> SUFFICES ASSUME Init PROVE TypeOK OBVIOUS
<1>1. tick \in [Ticker -> [pc : Pc, key : Key]] BY NoTickTyped DEF Init
<1>2. status \in [Run -> {"open", "ended", "canceled"}] BY DEF Init
<1>3. changes \in 0..MaxChanges /\ crashes \in 0..MaxCrashes BY WakeAssumption DEF Init
<1> QED BY <1>1, <1>2, <1>3 DEF Init, TypeOK, Pc

\* The run of a tick, and what a step of one tick leaves behind.
LEMMA TickTyped ==
  ASSUME TypeOK, NEW e \in Ticker
  PROVE  /\ tick[e].key \in Key /\ RunOf(e) \in Run
         /\ [tick EXCEPT ![e] = NoTick] \in [Ticker -> [pc : Pc, key : Key]]
<1>1. tick \in [Ticker -> [pc : Pc, key : Key]] BY DEF TypeOK, Pc
<1>2. tick[e] \in [pc : Pc, key : Key] BY <1>1
<1>3. tick[e].key \in Scope \X Run BY <1>2 DEF Key
<1>4. RunOf(e) \in Run BY <1>3 DEF RunOf
<1> QED BY <1>1, <1>2, <1>4, NoTickTyped

LEMMA ToTyped ==
  ASSUME TypeOK, NEW e \in Ticker, NEW p \in Pc, To(e, p)
  PROVE  tick' \in [Ticker -> [pc : Pc, key : Key]]
<1>1. tick \in [Ticker -> [pc : Pc, key : Key]] BY DEF TypeOK, Pc
<1>2. tick[e] \in [pc : Pc, key : Key] BY <1>1
<1>3. [tick[e] EXCEPT !.pc = p] \in [pc : Pc, key : Key] BY <1>2
<1>4. tick' = [tick EXCEPT ![e] = [tick[e] EXCEPT !.pc = p]] BY DEF To
<1> QED BY <1>1, <1>3, <1>4

LEMMA StartTyped ==
  ASSUME TypeOK, NEW e \in Ticker, NEW p \in Pc, NEW k \in Key,
         tick' = [tick EXCEPT ![e] = [pc |-> p, key |-> k]]
  PROVE  tick' \in [Ticker -> [pc : Pc, key : Key]]
<1>1. tick \in [Ticker -> [pc : Pc, key : Key]] BY DEF TypeOK, Pc
<1>2. [pc |-> p, key |-> k] \in [pc : Pc, key : Key] OBVIOUS
<1> QED BY <1>1, <1>2

LEMMA PatchTyped ==
  ASSUME TypeOK, NEW r \in Run, Patched(r)
  PROVE  /\ status' \in [Run -> {"open", "ended", "canceled"}]
         /\ due' \subseteq Run /\ changes' \in 0..MaxChanges
<1>1. status' \in [Run -> {"open", "ended", "canceled"}]
  BY DEF TypeOK, Patched
<1>2. due' \subseteq Run BY DEF TypeOK, Patched
<1>3. changes' \in 0..MaxChanges BY WakeAssumption DEF TypeOK, Patched
<1> QED BY <1>1, <1>2, <1>3

LEMMA TypeStep == TypeOK /\ [Next]_vars => TypeOK'
<1> SUFFICES ASSUME TypeOK, [Next]_vars PROVE TypeOK' OBVIOUS
<1> DEFINE Ticks == [Ticker -> [pc : Pc, key : Key]]
<1>0. tick \in Ticks BY DEF TypeOK, Pc
<1>1. ASSUME NEW r \in Run, Change(r) PROVE TypeOK'
  BY <1>1, PatchTyped DEF Change, TypeOK
<1>2. ASSUME NEW r \in Run, AskForWake(r) \/ Cancel(r) \/ DropNudge(r) PROVE TypeOK'
  BY <1>2 DEF AskForWake, Ask, Cancel, DropNudge, TypeOK
<1>3. ASSUME NEW e \in Direct, NEW r \in Run, TakeNudge(e, r) PROVE TypeOK'
  <2>1. e \in Ticker /\ <<"run", r>> \in Key BY DEF Ticker, Key, Scope
  <2>2. tick' \in Ticks BY <1>3, <2>1, StartTyped DEF TakeNudge, Pc
  <2> QED BY <1>3, <2>2 DEF TakeNudge, TypeOK, Pc
<1>4. ASSUME NEW e \in Ticker, Work(e) PROVE TypeOK'
  <2>1. RunOf(e) \in Run /\ tick[e].key \in Key BY TickTyped
  <2>2. CASE AwaitLease(e)
    <3>1. tick' \in Ticks BY <2>1, <2>2, TickTyped, ToTyped DEF AwaitLease, Pc
    <3>2. inflight' \subseteq Key BY <2>1, <2>2 DEF AwaitLease, TypeOK
    <3> QED BY <2>2, <3>1, <3>2 DEF AwaitLease, TypeOK, Pc
  <2>3. CASE Enter(e)
    <3>1. tick' \in Ticks
      <4>1. (IF status[RunOf(e)] = "canceled" THEN "quit" ELSE "reconcile") \in Pc BY DEF Pc
      <4> QED BY <2>3, <4>1, ToTyped DEF Enter
    <3> QED BY <2>3, <3>1 DEF Enter, TypeOK, Pc
  <2>4. CASE Reconcile(e)
    <3>1. tick' \in Ticks BY <2>4, ToTyped DEF Reconcile, Pc
    <3>2. CASE Patched(RunOf(e)) /\ Ask(RunOf(e))
      <4>1. flagged' \subseteq Run /\ nudged' \subseteq Run
        BY <2>1, <3>2 DEF Ask, TypeOK
      <4>2. /\ status' \in [Run -> {"open", "ended", "canceled"}]
            /\ due' \subseteq Run /\ changes' \in 0..MaxChanges
        BY <2>1, <3>2, PatchTyped
      <4> QED BY <2>4, <3>1, <4>1, <4>2 DEF Reconcile, TypeOK, Pc
    <3>3. CASE UNCHANGED <<status, due, flagged, nudged, changes>>
      BY <2>4, <3>1, <3>3 DEF Reconcile, TypeOK, Pc
    <3> QED BY <2>4, <3>2, <3>3 DEF Reconcile
  <2>5. CASE Look(e) \/ LookRefused(e)
    <3>1. tick' \in Ticks BY <2>5, ToTyped DEF Look, LookRefused, Pc
    <3> QED BY <2>5, <3>1 DEF Look, LookRefused, TypeOK, Pc
  <2>6. CASE Quit(e)
    <3>1. tick' \in Ticks BY <2>6, TickTyped, ToTyped DEF Quit, Pc
    <3> QED BY <2>6, <3>1 DEF Quit, TypeOK, Pc
  <2>7. CASE ClearFlag(e)
    <3>1. tick' \in Ticks BY <2>7, TickTyped DEF ClearFlag, Pc
    <3> QED BY <2>7, <3>1 DEF ClearFlag, TypeOK, Pc
  <2> QED BY <1>4, <2>2, <2>3, <2>4, <2>5, <2>6, <2>7 DEF Work
<1>5. ASSUME NEW t \in Timer, Sweep(t) PROVE TypeOK'
  <2>1. t \in Ticker BY DEF Ticker
  <2>2. CASE StartSweep(t)
    <3>1. {"run"} \X WorkList \subseteq Key BY DEF WorkList, TypeOK, Key, Scope
    <3> QED BY <2>2, <3>1 DEF StartSweep, TypeOK
  <2>3. CASE SweepThreads(t)
    <3>1. {"thread"} \X Active \subseteq Key BY WakeAssumption DEF Key, Scope
    <3> QED BY <2>3, <3>1 DEF SweepThreads, TypeOK
  <2>4. CASE EndSweep(t) BY <2>4 DEF EndSweep, TypeOK
  <2>5. CASE Visit(t)
    <3>1. PICK k \in agenda[t] :
            /\ agenda' = [agenda EXCEPT ![t] = @ \ {k}]
            /\ IF k \in inflight
               THEN UNCHANGED <<tick, inflight>>
               ELSE /\ tick' = [tick EXCEPT ![t] = [pc |-> "enter", key |-> k]]
                    /\ inflight' = inflight \cup {k}
      BY <2>5 DEF Visit
    <3>2. k \in Key BY <3>1 DEF TypeOK
    <3>3. tick' \in Ticks
      <4>1. CASE k \in inflight BY <1>0, <3>1, <4>1
      <4>2. CASE k \notin inflight BY <2>1, <3>1, <3>2, <4>2, StartTyped DEF Pc
      <4> QED BY <4>1, <4>2
    <3>4. inflight' \subseteq Key BY <3>1, <3>2 DEF TypeOK
    <3>5. agenda' \in [Timer -> SUBSET Key] BY <3>1 DEF TypeOK
    <3> QED BY <2>5, <3>3, <3>4, <3>5 DEF Visit, TypeOK, Pc
  <2> QED BY <1>5, <2>2, <2>3, <2>4, <2>5 DEF Sweep
<1>6. CASE Crash
  <2>1. tick' \in Ticks BY <1>6, NoTickTyped DEF Crash
  <2>2. crashes' \in 0..MaxCrashes BY <1>6, WakeAssumption DEF Crash, TypeOK
  <2> QED BY <1>6, <2>1, <2>2 DEF Crash, TypeOK, Pc
<1>7. CASE UNCHANGED vars BY <1>7 DEF vars, TypeOK
<1> QED BY <1>1, <1>2, <1>3, <1>4, <1>5, <1>6, <1>7 DEF Next

\* The state of the scheduler has its type, whatever the number of runs.
THEOREM WakeTypeCorrect == Spec => []TypeOK
<1> QED BY TypeInit, TypeStep, PTL DEF Spec

-----------------------------------------------------------------------------
\* The steps in which a tick owns the key it was started for.
Owning == {"enter", "reconcile", "look", "quit", "quit_worked"}

LEMMA GuardStep == TypeOK /\ GuardIsOwned /\ [Next]_vars => GuardIsOwned'
<1> SUFFICES ASSUME TypeOK, GuardIsOwned, [Next]_vars, NEW k \in inflight'
             PROVE  \E e \in Ticker : tick'[e].key = k /\ tick'[e].pc \in Owning
  BY DEF GuardIsOwned, Owning
<1>0. ASSUME k \in inflight
      PROVE  \E e \in Ticker : tick[e].key = k /\ tick[e].pc \in Owning
  BY <1>0 DEF GuardIsOwned, Owning
<1>t. \A e \in Ticker : DOMAIN tick = Ticker /\ DOMAIN tick[e] = {"pc", "key"}
  BY DEF TypeOK
<1>a. tick = [e \in Ticker |-> tick[e]] BY DEF TypeOK
<1>1. CASE UNCHANGED <<tick, inflight>> BY <1>0, <1>1
<1>2. ASSUME NEW r \in Run, Change(r) \/ AskForWake(r) \/ Cancel(r) \/ DropNudge(r)
      PROVE  UNCHANGED <<tick, inflight>>
  BY <1>2 DEF Change, AskForWake, Cancel, DropNudge
\* A tick that begins or ends its step outside Owning takes no key away.
<1>3. ASSUME NEW e \in Ticker, tick[e].pc \notin Owning, UNCHANGED inflight,
             NEW u, tick' = [tick EXCEPT ![e] = u]
      PROVE  \E q \in Ticker : tick'[q].key = k /\ tick'[q].pc \in Owning
  BY <1>0, <1>3, <1>a
\* A tick that enters its key.
<1>4. ASSUME NEW e \in Ticker, tick[e].pc \notin Owning, NEW key,
             inflight' = inflight \cup {key},
             NEW u, u.key = key, u.pc = "enter", tick' = [tick EXCEPT ![e] = u]
      PROVE  \E q \in Ticker : tick'[q].key = k /\ tick'[q].pc \in Owning
  <2>1. CASE k = key
    <3>1. tick'[e].key = k /\ tick'[e].pc \in Owning BY <1>4, <1>a, <2>1 DEF Owning
    <3> QED BY <3>1
  <2>2. CASE k # key
    <3>1. k \in inflight BY <1>4, <2>2
    <3>2. PICK q \in Ticker : tick[q].key = k /\ tick[q].pc \in Owning BY <1>0, <3>1
    <3>3. tick'[q] = tick[q] BY <1>4, <1>a, <3>2
    <3> QED BY <3>2, <3>3
  <2> QED BY <2>1, <2>2
\* A tick that keeps its key.
<1>5. ASSUME NEW e \in Ticker, UNCHANGED inflight, NEW p \in Owning, To(e, p)
      PROVE  \E q \in Ticker : tick'[q].key = k /\ tick'[q].pc \in Owning
  <2>1. PICK q \in Ticker : tick[q].key = k /\ tick[q].pc \in Owning BY <1>0, <1>5
  <2>2. tick'[q].key = tick[q].key BY <1>5, <1>t, <1>a DEF To
  <2>3. tick'[q].pc \in Owning BY <1>5, <1>t, <1>a, <2>1 DEF To
  <2> QED BY <2>1, <2>2, <2>3
<1>6. ASSUME NEW e \in Direct, NEW r \in Run, TakeNudge(e, r)
      PROVE  \E q \in Ticker : tick'[q].key = k /\ tick'[q].pc \in Owning
  <2>1. e \in Ticker /\ tick[e].pc \notin Owning
    BY <1>6 DEF TakeNudge, Idle, Ticker, Owning
  <2> QED BY <1>3, <1>6, <2>1 DEF TakeNudge
<1>7. ASSUME NEW e \in Ticker, Work(e)
      PROVE  \E q \in Ticker : tick'[q].key = k /\ tick'[q].pc \in Owning
  <2>1. CASE AwaitLease(e)
    <3>1. tick[e].pc \notin Owning BY <2>1 DEF AwaitLease, Owning
    <3>2. CASE tick' = [tick EXCEPT ![e] = NoTick] /\ UNCHANGED inflight
      BY <1>3, <3>1, <3>2
    <3>3. CASE To(e, "enter") /\ inflight' = inflight \cup {tick[e].key}
      <4> DEFINE u == [tick[e] EXCEPT !.pc = "enter"]
      <4>1. u.key = tick[e].key /\ u.pc = "enter" BY <1>t
      <4>2. tick' = [tick EXCEPT ![e] = u] BY <3>3 DEF To
      <4> HIDE DEF u
      <4> QED BY <1>4, <3>1, <3>3, <4>1, <4>2
    <3> QED BY <2>1, <3>2, <3>3 DEF AwaitLease
  <2>2. CASE Enter(e)
    <3>1. CASE status[RunOf(e)] = "canceled"
      BY <1>5, <2>2, <3>1 DEF Enter, Owning
    <3>2. CASE status[RunOf(e)] # "canceled"
      BY <1>5, <2>2, <3>2 DEF Enter, Owning
    <3> QED BY <3>1, <3>2
  <2>3. CASE Reconcile(e) BY <1>5, <2>3 DEF Reconcile, Owning
  <2>4. CASE Look(e) \/ LookRefused(e) BY <1>5, <2>4 DEF Look, LookRefused, Owning
  <2>5. CASE Quit(e)
    <3>1. k \in inflight /\ k # tick[e].key BY <2>5 DEF Quit
    <3>2. PICK q \in Ticker : tick[q].key = k /\ tick[q].pc \in Owning BY <1>0, <3>1
    <3>3. q # e BY <3>1, <3>2
    <3>4. tick'[q] = tick[q] BY <2>5, <1>a, <3>2, <3>3 DEF Quit, To
    <3> QED BY <3>2, <3>4
  <2>6. CASE ClearFlag(e)
    <3>1. tick[e].pc \notin Owning BY <2>6 DEF ClearFlag, Owning
    <3> QED BY <1>3, <2>6, <3>1 DEF ClearFlag
  <2> QED BY <1>7, <2>1, <2>2, <2>3, <2>4, <2>5, <2>6 DEF Work
<1>8. ASSUME NEW t \in Timer, Sweep(t)
      PROVE  \E q \in Ticker : tick'[q].key = k /\ tick'[q].pc \in Owning
  <2>1. CASE StartSweep(t) \/ SweepThreads(t) \/ EndSweep(t)
    BY <1>1, <2>1 DEF StartSweep, SweepThreads, EndSweep
  <2>2. CASE Visit(t)
    <3>1. t \in Ticker /\ tick[t].pc \notin Owning BY <2>2 DEF Visit, Idle, Ticker, Owning
    <3>2. PICK key \in agenda[t] :
            IF key \in inflight
            THEN UNCHANGED <<tick, inflight>>
            ELSE /\ tick' = [tick EXCEPT ![t] = [pc |-> "enter", key |-> key]]
                 /\ inflight' = inflight \cup {key}
      BY <2>2 DEF Visit
    <3>3. CASE key \in inflight BY <1>1, <3>2, <3>3
    <3>4. CASE key \notin inflight
      <4> DEFINE u == [pc |-> "enter", key |-> key]
      <4>1. u.key = key /\ u.pc = "enter" OBVIOUS
      <4>2. tick' = [tick EXCEPT ![t] = u] /\ inflight' = inflight \cup {key}
        BY <3>2, <3>4
      <4> HIDE DEF u
      <4> QED BY <1>4, <3>1, <4>1, <4>2
    <3> QED BY <3>3, <3>4
  <2> QED BY <1>8, <2>1, <2>2 DEF Sweep
<1>9. CASE Crash BY <1>9 DEF Crash
<1>10. CASE UNCHANGED vars BY <1>1, <1>10 DEF vars
<1> QED BY <1>1, <1>2, <1>6, <1>7, <1>8, <1>9, <1>10 DEF Next

\* No crash, exception, refusal or overlap leaves a key in the guard that no
\* tick will take out: no run is shut out of supervision while the process runs.
THEOREM GuardNeverLeaks == Spec => []GuardIsOwned
<1>1. Init => GuardIsOwned BY DEF Init, GuardIsOwned
<1> QED BY <1>1, TypeInit, TypeStep, GuardStep, PTL DEF Spec
=============================================================================
