--------------------------- MODULE SupervisorLease ---------------------------
(***************************************************************************)
(* The lease that is to let one replica at a time supervise the runs.      *)
(* tryAcquireSupervisorLease reads the lease row, and unless another owner *)
(* holds it unexpired, overwrites it with an upsert of its own: two calls  *)
(* of the database with nothing that ties the second to the first.  After  *)
(* the first database error a replica grants itself a lease in memory      *)
(* until it restarts.  What is done under a lease neither renews it nor    *)
(* stops when it expires, so only the lease itself is followed here.       *)
(*                                                                         *)
(* Time is what is left of each lease, counted down by Pass; the end of a  *)
(* lease is fixed when the attempt begins.                                 *)
(***************************************************************************)
EXTENDS Naturals

CONSTANTS
  Owner,      \* replicas (OWNER_ID is new for every process)
  Term,       \* length of a lease (LEASE_MS)
  MaxErrors,  \* bound: database errors in a behaviour
  MaxRestarts \* bound: restarts of replicas in a behaviour

Nobody == "nobody"

VARIABLES
  row,      \* cos_supervisor_leases: the owner and what is left of its lease
  broken,   \* replicas that gave up the database (supabaseLeasePathBroken)
  attempt,  \* attempt[o]: the step of o's attempt and what is left of its lease
  lease,    \* lease[o]: what is left of the lease o was granted
  errors, restarts,
  \* history, read by properties only:
  missed,   \* missed[o]: who wrote the row since o's attempt has read it
  lost      \* replicas whose lease an attempt that missed it wrote over

history == <<missed, lost>>
vars == <<row, broken, attempt, lease, errors, restarts, missed, lost>>

NoAttempt == [pc |-> "none", left |-> 0]

Init ==
  /\ row = [owner |-> Nobody, left |-> 0]
  /\ broken = {}
  /\ attempt = [o \in Owner |-> NoAttempt]
  /\ lease = [o \in Owner |-> 0]
  /\ errors = 0 /\ restarts = 0
  /\ missed = [o \in Owner |-> {}] /\ lost = {}

-----------------------------------------------------------------------------
Trying(o) == attempt[o].pc # "none"

\* The timer or a nudge; a sweep of the same process may still be at work.  Of
\* the attempts of one replica only one at a time is followed: they use the
\* same owner id and never refuse each other.
Begin(o) ==
  /\ ~Trying(o)
  /\ attempt' = [attempt EXCEPT ![o] = [pc |-> IF o \in broken THEN "memory" ELSE "select",
                                        left |-> Term]]
  /\ UNCHANGED <<row, broken, lease, errors, restarts, history>>

Granted(o) ==
  /\ lease' = [lease EXCEPT ![o] = attempt[o].left]
  /\ attempt' = [attempt EXCEPT ![o] = NoAttempt]

\* Another owner's unexpired lease.
BadHeldAgainst(o) == row.owner \notin {o, Nobody}
NoHeldAgainst(o)  == FALSE
HeldAgainst(o)    == row.owner \notin {o, Nobody} /\ row.left > 0

Select(o) ==
  /\ attempt[o].pc = "select"
  /\ IF HeldAgainst(o)
     THEN attempt' = [attempt EXCEPT ![o] = NoAttempt]
     ELSE attempt' = [attempt EXCEPT ![o].pc = "upsert"]
  /\ UNCHANGED <<row, broken, lease, errors, restarts, history>>

\* The row becomes o's, whoever wrote it since o's attempt has read it.
TakeRow(o) ==
  /\ row' = [owner |-> o, left |-> attempt[o].left]
  /\ lost' = (lost \cup missed[o]) \ {o}
  /\ missed' = [q \in Owner |-> IF q # o /\ attempt[q].pc = "upsert"
                                THEN missed[q] \cup {o} ELSE {}]

Upsert(o) ==
  /\ attempt[o].pc = "upsert"
  /\ TakeRow(o)
  /\ Granted(o)
  /\ UNCHANGED <<broken, errors, restarts>>

\* Either call fails, the upsert perhaps after it took effect: from now on
\* the replica asks nobody, and its memory holds no owner but itself.
DatabaseFails(o) ==
  /\ attempt[o].pc \in {"select", "upsert"} /\ errors < MaxErrors
  /\ errors' = errors + 1
  /\ broken' = broken \cup {o}
  /\ \/ /\ missed' = [missed EXCEPT ![o] = {}]
        /\ UNCHANGED <<row, lost>>
     \/ attempt[o].pc = "upsert" /\ TakeRow(o)
  /\ Granted(o)
  /\ UNCHANGED restarts

GrantFromMemory(o) ==
  /\ attempt[o].pc = "memory"
  /\ Granted(o)
  /\ UNCHANGED <<row, broken, errors, restarts, history>>

\* A restart forgets everything but the row, and the new process has a new
\* owner id: the old one can only expire.
Restart(o) ==
  /\ restarts < MaxRestarts
  /\ restarts' = restarts + 1
  /\ attempt' = [attempt EXCEPT ![o] = NoAttempt]
  /\ lease'   = [lease EXCEPT ![o] = 0]
  /\ broken'  = broken \ {o}
  /\ row'     = IF row.owner = o THEN [row EXCEPT !.owner = "gone"] ELSE row
  /\ missed'  = [missed EXCEPT ![o] = {}]
  /\ lost'    = lost \ {o}
  /\ UNCHANGED errors

Less(n) == IF n = 0 THEN 0 ELSE n - 1

Pass ==
  /\ row'     = [row EXCEPT !.left = Less(@)]
  /\ attempt' = [o \in Owner |-> [attempt[o] EXCEPT !.left = Less(@)]]
  /\ lease'   = [o \in Owner |-> Less(lease[o])]
  /\ UNCHANGED <<broken, errors, restarts, history>>

-----------------------------------------------------------------------------
Attempt(o) == Begin(o) \/ Select(o) \/ Upsert(o) \/ GrantFromMemory(o)

Next ==
  \/ Pass
  \/ \E o \in Owner : Attempt(o) \/ DatabaseFails(o) \/ Restart(o)

Spec == Init /\ [][Next]_vars

\* Time passes, timers fire and the database answers, now and then at once
\* (a lease is 25 seconds long, a call takes milliseconds).
AtOnce(o) == attempt[o].left = Term

Fairness ==
  /\ WF_vars(Pass)
  /\ \A o \in Owner : /\ WF_vars(Attempt(o))
                      /\ SF_vars(Select(o) /\ AtOnce(o))
                      /\ SF_vars((Upsert(o) \/ GrantFromMemory(o)) /\ AtOnce(o))

-----------------------------------------------------------------------------
TypeOK ==
  /\ row \in [owner : Owner \cup {Nobody, "gone"}, left : 0..Term]
  /\ broken \subseteq Owner
  /\ attempt \in [Owner -> [pc : {"none", "select", "upsert", "memory"}, left : 0..Term]]
  /\ lease \in [Owner -> 0..Term]
  /\ errors \in 0..MaxErrors /\ restarts \in 0..MaxRestarts
  /\ missed \in [Owner -> SUBSET Owner] /\ lost \subseteq Owner

Holds(o) == lease[o] > 0

\* Of the replicas the database answers, whoever holds a lease is the owner the
\* row names, for at least as long, however attempts, database errors and
\* restarts interleave.  The row is lost in one way only: to an attempt that
\* had read it before the lease was written.
LeaseIsRecorded ==
  \A o \in Owner \ broken :
    Holds(o) /\ o \notin lost => row.owner = o /\ row.left >= lease[o]

\* So two of them hold leases at once ("Cross-replica supervisor lease") only
\* when one of the two was written over between another attempt's read and
\* its write: a lease that was on the row when it was read is never taken.
TakenOnlyUnseen ==
  \A o, q \in Owner \ broken : Holds(o) /\ Holds(q) /\ o # q => {o, q} \cap lost # {}

\* A replica that dies with the lease does not stop the supervision for good:
\* the lease expires and another replica, or its successor, gets it.
SomebodyLeads == []<>(\E o \in Owner : Holds(o))
=============================================================================
