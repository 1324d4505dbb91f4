--------------------------- MODULE SupervisorWake ---------------------------
(***************************************************************************)
(* How a change of a run comes to the supervisor's attention.  Whoever     *)
(* patches a run then asks for a wake: a durable flag on the row for the   *)
(* periodic sweep, and a best-effort nudge that starts a direct tick at    *)
(* once unless the run is being ticked or the lease is held elsewhere.     *)
(* The sweep ticks the flagged and the open runs, then the active run of   *)
(* every thread.  A run tick clears the flag when it is over.              *)
(*                                                                         *)
(* Only the scheduling is here: what a tick does to a run is RunLifecycle, *)
(* and the founder's milestone stands for all of its effects.              *)
(***************************************************************************)
EXTENDS Naturals

CONSTANTS
  Run,
  Active,        \* runs that are the active run of their thread
  Direct,        \* direct ticks that may be in progress together
  Timer,         \* sweeps that may be in progress together: the interval
                 \*   starts one whether or not the last one is over
  MaxChanges,    \* bound: changes in a behaviour
  MaxCrashes     \* bound: crashes in a behaviour

Ticker == Direct \cup Timer
Scope  == {"run", "thread"}
Key    == Scope \X Run        \* a thread's key is named by its active run

ASSUME WakeAssumption ==
  /\ Run # {} /\ Active \subseteq Run /\ Direct \cap Timer = {}
  /\ {MaxChanges, MaxCrashes} \subseteq Nat

VARIABLES
  status,    \* status[r]: "open", "ended" (completed or failed) or "canceled"
  due,       \* history: runs with a change the supervisor has not acted on
  flagged,   \* runs whose pending_supervisor_wake is set
  asking,    \* runs that were patched and whose wake is not yet asked for
  nudged,    \* runs whose listener call is queued
  inflight,  \* keys of ticks in progress: the re-entry guard
  tick,      \* tick[e]: the tick e is in
  agenda,    \* agenda[t]: keys the sweep t still has to visit
  phase,     \* phase[t]: what the sweep t is visiting
  changes, crashes

vars == <<status, due, flagged, asking, nudged, inflight,
          tick, agenda, phase, changes, crashes>>

NoTick == [pc |-> "idle", key |-> <<"run", CHOOSE r \in Run : TRUE>>]

Init ==
  /\ status = [r \in Run |-> "open"]
  /\ due = {} /\ flagged = {} /\ asking = {} /\ nudged = {} /\ inflight = {}
  /\ tick = [e \in Ticker |-> NoTick]
  /\ agenda = [t \in Timer |-> {}] /\ phase = [t \in Timer |-> "idle"]
  /\ changes = 0 /\ crashes = 0

-----------------------------------------------------------------------------
(* Changes of runs, and the wake they ask for. *)

\* A patch of a run's packets recomputes its status from them alone: it may
\* end the run, open it again, or bring a canceled one back.
Patched(r) ==
  /\ changes < MaxChanges
  /\ changes' = changes + 1
  /\ \E s \in {status[r], "open", "ended"} : status' = [status EXCEPT ![r] = s]
  /\ due' = due \cup {r}

\* A callback, a tool result or the founder's turn.
Change(r) ==
  /\ Patched(r)
  /\ asking' = asking \cup {r}
  /\ UNCHANGED <<flagged, nudged, inflight, tick, agenda, phase, crashes>>

\* signalSupervisorWakeForRun sets the flag and notifies the listener.
Ask(r) ==
  /\ flagged' = flagged \cup {r}
  /\ nudged'  = nudged \cup {r}

AskForWake(r) ==
  /\ r \in asking
  /\ asking' = asking \ {r}
  /\ Ask(r)
  /\ UNCHANGED <<status, due, inflight, tick, agenda, phase, changes, crashes>>

\* The durable store cancels a run that a later delegation of its thread
\* replaced; the flag is left as it is.
Cancel(r) ==
  /\ r \notin Active /\ status[r] = "open"
  /\ status' = [status EXCEPT ![r] = "canceled"]
  /\ UNCHANGED <<due, flagged, asking, nudged, inflight, tick,
                 agenda, phase, changes, crashes>>

-----------------------------------------------------------------------------
(* Direct ticks. *)

Idle(e)  == tick[e].pc = "idle"
To(e, pc) == tick' = [tick EXCEPT ![e].pc = pc]

\* The run is being ticked: the nudge is dropped, the flag stays.
DropNudge(r) ==
  /\ r \in nudged /\ <<"run", r>> \in inflight
  /\ nudged' = nudged \ {r}
  /\ UNCHANGED <<status, due, flagged, asking, inflight, tick,
                 agenda, phase, changes, crashes>>

TakeNudge(e, r) ==
  /\ r \in nudged /\ <<"run", r>> \notin inflight /\ Idle(e)
  /\ nudged' = nudged \ {r}
  /\ tick' = [tick EXCEPT ![e] = [pc |-> "lease", key |-> <<"run", r>>]]
  /\ UNCHANGED <<status, due, flagged, asking, inflight,
                 agenda, phase, changes, crashes>>

\* Another instance holds the lease, or this one gets it.
AwaitLease(e) ==
  /\ tick[e].pc = "lease"
  /\ \/ tick' = [tick EXCEPT ![e] = NoTick] /\ UNCHANGED inflight
     \/ To(e, "enter") /\ inflight' = inflight \cup {tick[e].key}
  /\ UNCHANGED <<status, due, flagged, asking, nudged, agenda,
                 phase, changes, crashes>>

-----------------------------------------------------------------------------
(* The periodic sweep. *)

\* The flagged runs and the open ones, each once.  The code lists at most 50
\* and 120 of them, latest first; here there are never that many, and they are
\* visited in any order.
BadWorkList == flagged
WorkList    == flagged \cup {r \in Run : status[r] = "open"}

StartSweep(t) ==
  /\ phase[t] = "idle"
  /\ phase' = [phase EXCEPT ![t] = "runs"]
  /\ agenda' = [agenda EXCEPT ![t] = {"run"} \X WorkList]
  /\ UNCHANGED <<status, due, flagged, asking, nudged, inflight,
                 tick, changes, crashes>>

Visited(t) == agenda[t] = {} /\ Idle(t)

BadSweepThreads(t) ==
  /\ phase[t] = "runs" /\ Visited(t)
  /\ phase' = [phase EXCEPT ![t] = "idle"]
  /\ UNCHANGED <<status, due, flagged, asking, nudged, inflight,
                 tick, agenda, changes, crashes>>
SweepThreads(t) ==
  /\ phase[t] = "runs" /\ Visited(t)
  /\ phase' = [phase EXCEPT ![t] = "threads"]
  /\ agenda' = [agenda EXCEPT ![t] = {"thread"} \X Active]
  /\ UNCHANGED <<status, due, flagged, asking, nudged, inflight,
                 tick, changes, crashes>>

EndSweep(t) ==
  /\ phase[t] = "threads" /\ Visited(t)
  /\ phase' = [phase EXCEPT ![t] = "idle"]
  /\ UNCHANGED <<status, due, flagged, asking, nudged, inflight,
                 tick, agenda, changes, crashes>>

\* The sweep holds the lease already: nothing is awaited between the check of
\* the guard and the entry.
Visit(t) ==
  /\ Idle(t)
  /\ \E k \in agenda[t] :
       /\ agenda' = [agenda EXCEPT ![t] = @ \ {k}]
       /\ IF k \in inflight
          THEN UNCHANGED <<tick, inflight>>
          ELSE /\ tick' = [tick EXCEPT ![t] = [pc |-> "enter", key |-> k]]
               /\ inflight' = inflight \cup {k}
  /\ UNCHANGED <<status, due, flagged, asking, nudged, phase, changes, crashes>>

-----------------------------------------------------------------------------
(* A tick at work. *)

RunOf(e) == tick[e].key[2]

\* A canceled run is left at once, and its flag with it.
BadEnter(e) ==
  /\ tick[e].pc = "enter"
  /\ IF status[RunOf(e)] = "canceled" THEN tick' = [tick EXCEPT ![e] = NoTick]
                                      ELSE To(e, "reconcile")
  /\ UNCHANGED <<status, due, flagged, asking, nudged, inflight,
                 agenda, phase, changes, crashes>>
Enter(e) ==
  /\ tick[e].pc = "enter"
  /\ To(e, IF status[RunOf(e)] = "canceled" THEN "quit" ELSE "reconcile")
  /\ UNCHANGED <<status, due, flagged, asking, nudged, inflight,
                 agenda, phase, changes, crashes>>

\* When reconciling or advancing changes the row, the tick asks for a wake.
Reconcile(e) ==
  /\ tick[e].pc = "reconcile"
  /\ To(e, "look")
  /\ \/ Patched(RunOf(e)) /\ Ask(RunOf(e))
     \/ UNCHANGED <<status, due, flagged, nudged, changes>>
  /\ UNCHANGED <<asking, inflight, agenda, phase, crashes>>

\* The row is read for the last time and the founder is told of it.
Look(e) ==
  /\ tick[e].pc = "look"
  /\ due' = due \ {RunOf(e)}
  /\ To(e, "quit_worked")
  /\ UNCHANGED <<status, flagged, asking, nudged, inflight,
                 agenda, phase, changes, crashes>>

LookRefused(e) ==
  /\ tick[e].pc = "look"
  /\ To(e, "quit_worked")
  /\ UNCHANGED <<status, due, flagged, asking, nudged, inflight,
                 agenda, phase, changes, crashes>>

\* The finally block drops the key and then awaits the clearing of the flag.
Quit(e) ==
  /\ tick[e].pc \in {"quit", "quit_worked"}
  /\ inflight' = inflight \ {tick[e].key}
  /\ IF tick[e].pc = "quit_worked" /\ tick[e].key[1] = "run"
     THEN To(e, "clear")
     ELSE tick' = [tick EXCEPT ![e] = NoTick]
  /\ UNCHANGED <<status, due, flagged, asking, nudged, agenda,
                 phase, changes, crashes>>

ClearFlag(e) ==
  /\ tick[e].pc = "clear"
  /\ flagged' = flagged \ {RunOf(e)}
  /\ tick' = [tick EXCEPT ![e] = NoTick]
  /\ UNCHANGED <<status, due, asking, nudged, inflight, agenda, phase,
                 changes, crashes>>

Crash ==
  /\ crashes < MaxCrashes
  /\ crashes' = crashes + 1
  /\ asking' = {} /\ nudged' = {} /\ inflight' = {}
  /\ tick' = [e \in Ticker |-> NoTick]
  /\ agenda' = [t \in Timer |-> {}] /\ phase' = [t \in Timer |-> "idle"]
  /\ UNCHANGED <<status, due, flagged, changes>>

-----------------------------------------------------------------------------
Work(e) == \/ AwaitLease(e) \/ Enter(e) \/ Reconcile(e)
           \/ Look(e) \/ LookRefused(e) \/ Quit(e) \/ ClearFlag(e)

Sweep(t) == StartSweep(t) \/ SweepThreads(t) \/ EndSweep(t) \/ Visit(t)

Next ==
  \/ \E r \in Run : Change(r) \/ AskForWake(r) \/ Cancel(r) \/ DropNudge(r)
  \/ \E e \in Direct, r \in Run : TakeNudge(e, r)
  \/ \E e \in Ticker : Work(e)
  \/ \E t \in Timer : Sweep(t)
  \/ Crash

Spec == Init /\ [][Next]_vars

\* The timer fires for ever and the lease is got again and again; every await
\* returns; Slack takes the message of a run that is tried for ever.  Nothing
\* is assumed of the listener: a nudge may always come too early or too late.
Fairness ==
  /\ \A t \in Timer : WF_vars(Sweep(t))
  /\ \A r \in Run : WF_vars(AskForWake(r))
  /\ \A e \in Ticker : /\ WF_vars(Work(e))
                       /\ \A r \in Run : SF_vars(Look(e) /\ RunOf(e) = r)

-----------------------------------------------------------------------------
TypeOK ==
  /\ status \in [Run -> {"open", "ended", "canceled"}]
  /\ due \subseteq Run /\ flagged \subseteq Run /\ asking \subseteq Run
  /\ nudged \subseteq Run
  /\ inflight \subseteq Key
  /\ tick \in [Ticker -> [pc : {"idle", "lease", "enter", "reconcile", "look",
                                "quit", "quit_worked", "clear"},
                          key : Key]]
  /\ agenda \in [Timer -> SUBSET Key]
  /\ phase \in [Timer -> {"idle", "runs", "threads"}]
  /\ changes \in 0..MaxChanges /\ crashes \in 0..MaxCrashes

\* No key is left behind in the re-entry guard: behind each there is a tick
\* that will take it out.  A key left behind would keep every later tick from
\* the run until the process restarts.
GuardIsOwned ==
  \A k \in inflight :
    \E e \in Ticker : /\ tick[e].key = k
                      /\ tick[e].pc \in {"enter", "reconcile", "look", "quit", "quit_worked"}

\* The change of a thread's active run reaches the founder at last, whatever
\* is dropped: the thread sweep visits it without any flag.
ActiveIsServed == \A r \in Active : (r \in due) ~> (r \notin due)

\* So does the change of an open run that lost its place as the active one:
\* it is listed as long as it is open.  (The change that ended such a run may
\* never reach the founder: ClearFlag takes its flag away whatever the tick
\* achieved, and then no list names it.)
OpenIsServed == \A r \in Run : [](r \in due => <>(r \notin due \/ status[r] # "open"))
=============================================================================
