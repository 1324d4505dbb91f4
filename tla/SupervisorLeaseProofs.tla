----------------------- MODULE SupervisorLeaseProofs -----------------------
(***************************************************************************)
(* What the lease is worth, for any number of replicas whose attempts      *)
(* interleave in any way, any database errors and restarts and any length  *)
(* of the lease: a replica that the database answers and that holds a      *)
(* lease is the owner the row names, unless its row was taken by an        *)
(* attempt that had read it before.  The invariant adds what an attempt    *)
(* knows between its two calls: an owner it would write over is not        *)
(* another one's unexpired lease, or has written since it looked, or is a  *)
(* process that is gone.                                                   *)
(***************************************************************************)
EXTENDS Supervisor, TLAPS

AttemptPc == {"none", "select", "upsert", "memory"}

\* Only who gave up the database asks the memory, and what an attempt that
\* has read the row would write over it has missed, or may take.
Careful ==
  \A o \in Owner :
    /\ attempt[o].pc = "memory" => o \in broken
    /\ attempt[o].pc = "upsert" =>
         row.owner \in {o, Lease!Nobody, "gone"} \cup missed[o] \/ row.left = 0

LeaseInv == Lease!TypeOK /\ Careful /\ Lease!LeaseIsRecorded

-----------------------------------------------------------------------------
LEMMA LessTyped == \A n \in 0..Term : Lease!Less(n) \in 0..Term /\ (Lease!Less(n) > 0 => n > 0)
BY LeaseAssumption DEF Lease!Less

LEMMA LessMonotone == \A a, b \in 0..Term : a >= b => Lease!Less(a) >= Lease!Less(b)
BY LeaseAssumption DEF Lease!Less

LEMMA LeaseTypeInit == Lease!Init => Lease!TypeOK
BY LeaseAssumption DEF Lease!Init, Lease!TypeOK, Lease!NoAttempt

\* What a grant leaves behind.
LEMMA GrantTyped ==
  ASSUME Lease!TypeOK, NEW o \in Owner, Lease!Granted(o)
  PROVE  /\ attempt' \in [Owner -> [pc : AttemptPc, left : 0..Term]]
         /\ lease' \in [Owner -> 0..Term]
         /\ attempt[o].left \in 0..Term
<1>1. attempt \in [Owner -> [pc : AttemptPc, left : 0..Term]] /\ attempt[o].left \in 0..Term
  BY DEF Lease!TypeOK, AttemptPc
<1>2. Lease!NoAttempt \in [pc : AttemptPc, left : 0..Term]
  BY LeaseAssumption DEF Lease!NoAttempt, AttemptPc
<1>3. attempt' \in [Owner -> [pc : AttemptPc, left : 0..Term]]
  BY <1>1, <1>2 DEF Lease!Granted
<1>4. lease' \in [Owner -> 0..Term] BY <1>1 DEF Lease!Granted, Lease!TypeOK
<1> QED BY <1>1, <1>3, <1>4

\* And the taking of the row.
LEMMA TakeTyped ==
  ASSUME Lease!TypeOK, NEW o \in Owner, Lease!TakeRow(o)
  PROVE  /\ row' \in [owner : Owner \cup {Lease!Nobody, "gone"}, left : 0..Term]
         /\ missed' \in [Owner -> SUBSET Owner] /\ lost' \subseteq Owner
<1>1. attempt[o].left \in 0..Term BY DEF Lease!TypeOK
<1>2. row' \in [owner : Owner \cup {Lease!Nobody, "gone"}, left : 0..Term]
  BY <1>1 DEF Lease!TakeRow
<1>3. missed' \in [Owner -> SUBSET Owner] BY DEF Lease!TakeRow, Lease!TypeOK
<1>4. lost' \subseteq Owner BY DEF Lease!TakeRow, Lease!TypeOK
<1> QED BY <1>2, <1>3, <1>4

LEMMA LeaseTypeStep == Lease!TypeOK /\ [Lease!Next]_(Lease!vars) => Lease!TypeOK'
<1> SUFFICES ASSUME Lease!TypeOK, [Lease!Next]_(Lease!vars) PROVE Lease!TypeOK' OBVIOUS
<1> DEFINE Rows == [owner : Owner \cup {Lease!Nobody, "gone"}, left : 0..Term]
           Attempts == [Owner -> [pc : AttemptPc, left : 0..Term]]
<1>0. row \in Rows /\ attempt \in Attempts /\ lease \in [Owner -> 0..Term]
  BY DEF Lease!TypeOK, AttemptPc
<1>n. Lease!NoAttempt \in [pc : AttemptPc, left : 0..Term]
  BY LeaseAssumption DEF Lease!NoAttempt, AttemptPc
<1>1. CASE Lease!Pass
  <2>1. row' \in Rows
    <3>1. Lease!Less(row.left) \in 0..Term BY <1>0, LessTyped
    <3> QED BY <1>0, <1>1, <3>1 DEF Lease!Pass
  <2>2. attempt' \in Attempts
    <3>1. ASSUME NEW o \in Owner
          PROVE  [attempt[o] EXCEPT !.left = Lease!Less(@)] \in [pc : AttemptPc, left : 0..Term]
      <4>1. attempt[o] \in [pc : AttemptPc, left : 0..Term] BY <1>0
      <4>2. Lease!Less(attempt[o].left) \in 0..Term BY <4>1, LessTyped
      <4> QED BY <4>1, <4>2
    <3> QED BY <1>1, <3>1 DEF Lease!Pass
  <2>3. lease' \in [Owner -> 0..Term] BY <1>0, <1>1, LessTyped DEF Lease!Pass
  <2> QED BY <1>1, <2>1, <2>2, <2>3 DEF Lease!Pass, Lease!TypeOK, AttemptPc, Lease!history
<1>2. ASSUME NEW o \in Owner, Lease!Begin(o) PROVE Lease!TypeOK'
  <2>1. Term \in 0..Term BY LeaseAssumption
  <2>2. (IF o \in broken THEN "memory" ELSE "select") \in AttemptPc BY DEF AttemptPc
  <2>3. attempt' \in Attempts BY <1>0, <1>2, <2>1, <2>2 DEF Lease!Begin
  <2> QED BY <1>2, <2>3 DEF Lease!Begin, Lease!TypeOK, AttemptPc, Lease!history
<1>3. ASSUME NEW o \in Owner, Lease!Select(o) PROVE Lease!TypeOK'
  <2>1. attempt[o] \in [pc : AttemptPc, left : 0..Term] BY <1>0
  <2>2. [attempt[o] EXCEPT !.pc = "upsert"] \in [pc : AttemptPc, left : 0..Term]
    BY <2>1 DEF AttemptPc
  <2>3. \/ attempt' = [attempt EXCEPT ![o] = Lease!NoAttempt]
        \/ attempt' = [attempt EXCEPT ![o] = [attempt[o] EXCEPT !.pc = "upsert"]]
    BY <1>3 DEF Lease!Select
  <2>4. attempt' \in Attempts BY <1>0, <1>n, <2>2, <2>3
  <2> QED BY <1>3, <2>4 DEF Lease!Select, Lease!TypeOK, AttemptPc, Lease!history
<1>4. ASSUME NEW o \in Owner, Lease!Upsert(o) PROVE Lease!TypeOK'
  BY <1>4, GrantTyped, TakeTyped DEF Lease!Upsert, Lease!TypeOK, AttemptPc
<1>5. ASSUME NEW o \in Owner, Lease!DatabaseFails(o) PROVE Lease!TypeOK'
  <2>1. /\ row' \in Rows /\ missed' \in [Owner -> SUBSET Owner] /\ lost' \subseteq Owner
    <3>1. CASE Lease!TakeRow(o) BY <3>1, TakeTyped
    <3>2. CASE ~Lease!TakeRow(o) BY <1>0, <1>5, <3>2 DEF Lease!DatabaseFails, Lease!TypeOK
    <3> QED BY <3>1, <3>2
  <2>2. errors' \in 0..MaxErrors
    BY <1>5, LeaseAssumption DEF Lease!DatabaseFails, Lease!TypeOK
  <2> QED BY <1>5, <2>1, <2>2, GrantTyped DEF Lease!DatabaseFails, Lease!TypeOK, AttemptPc
<1>6. ASSUME NEW o \in Owner, Lease!GrantFromMemory(o) PROVE Lease!TypeOK'
  BY <1>6, GrantTyped DEF Lease!GrantFromMemory, Lease!TypeOK, AttemptPc, Lease!history
<1>8. ASSUME NEW o \in Owner, Lease!Restart(o) PROVE Lease!TypeOK'
  <2>1. attempt' \in Attempts BY <1>0, <1>8, <1>n DEF Lease!Restart
  <2>2. lease' \in [Owner -> 0..Term] BY <1>0, <1>8, LeaseAssumption DEF Lease!Restart
  <2>3. row' \in Rows BY <1>0, <1>8 DEF Lease!Restart
  <2>4. restarts' \in 0..MaxRestarts
    BY <1>8, LeaseAssumption DEF Lease!Restart, Lease!TypeOK
  <2>5. missed' \in [Owner -> SUBSET Owner] /\ lost' \subseteq Owner
    BY <1>8 DEF Lease!Restart, Lease!TypeOK
  <2> QED BY <1>8, <2>1, <2>2, <2>3, <2>4, <2>5 DEF Lease!Restart, Lease!TypeOK, AttemptPc
<1>9. CASE UNCHANGED Lease!vars BY <1>9 DEF Lease!vars, Lease!TypeOK
<1> QED BY <1>1, <1>2, <1>3, <1>4, <1>5, <1>6, <1>8, <1>9 DEF Lease!Next, Lease!Attempt

-----------------------------------------------------------------------------
\* When o takes the row, whoever held it without o's knowing counts as lost:
\* the row, unless it had lost it before, and o knew of every other one.
LEMMA TakingIsSeen ==
  ASSUME Lease!TypeOK, Careful, Lease!LeaseIsRecorded, NEW o \in Owner,
         attempt[o].pc = "upsert", Lease!TakeRow(o),
         NEW q \in Owner \ broken, q # o, Lease!Holds(q)
  PROVE  q \in lost'
<1>1. CASE q \in lost BY <1>1 DEF Lease!TakeRow
<1>2. CASE q \notin lost
  <2>1. row.owner = q /\ row.left >= lease[q] /\ lease[q] > 0
    BY <1>2 DEF Lease!LeaseIsRecorded, Lease!Holds
  <2>2. lease[q] \in 0..Term /\ row.left \in 0..Term BY DEF Lease!TypeOK
  <2>3. row.left # 0 BY <2>1, <2>2
  <2>4. q # Lease!Nobody /\ q # "gone" BY LeaseAssumption
  <2>5. q \in missed[o] BY <2>1, <2>3, <2>4 DEF Careful
  <2> QED BY <2>5 DEF Lease!TakeRow
<1> QED BY <1>1, <1>2

\* Whoever else is between its two calls has missed that.
LEMMA TakingIsMissed ==
  ASSUME Lease!TypeOK, NEW o \in Owner, attempt[o].pc = "upsert", Lease!TakeRow(o), Lease!Granted(o)
  PROVE  \A q \in Owner : attempt'[q].pc = "upsert" => row'.owner \in missed'[q]
<1>1. attempt' = [attempt EXCEPT ![o] = Lease!NoAttempt] /\ row'.owner = o
  BY DEF Lease!Granted, Lease!TakeRow
<1>2. ASSUME NEW q \in Owner, attempt'[q].pc = "upsert" PROVE o \in missed'[q]
  <2>1. q # o /\ attempt[q].pc = "upsert"
    BY <1>1, <1>2 DEF Lease!TypeOK, Lease!NoAttempt
  <2> QED BY <2>1 DEF Lease!TakeRow
<1> QED BY <1>1, <1>2

LEMMA LeaseStep ==
  ASSUME Lease!TypeOK, Careful, Lease!LeaseIsRecorded, [Lease!Next]_(Lease!vars)
  PROVE  Careful' /\ Lease!LeaseIsRecorded'
<1> DEFINE Attempts == [Owner -> [pc : AttemptPc, left : 0..Term]]
<1>0. /\ row.left \in 0..Term /\ row = [owner |-> row.owner, left |-> row.left]
      /\ attempt \in Attempts /\ lease \in [Owner -> 0..Term]
      /\ missed \in [Owner -> SUBSET Owner]
  BY DEF Lease!TypeOK, AttemptPc
<1>1. CASE Lease!Pass
  <2>1. row'.owner = row.owner /\ row'.left = Lease!Less(row.left)
    BY <1>0, <1>1 DEF Lease!Pass
  <2>2. \A o \in Owner : attempt'[o].pc = attempt[o].pc BY <1>0, <1>1 DEF Lease!Pass
  <2>3. row.left = 0 => row'.left = 0 BY <2>1 DEF Lease!Less
  <2>4. \A o \in Owner : lease'[o] = Lease!Less(lease[o]) BY <1>1 DEF Lease!Pass
  <2>5. UNCHANGED <<broken, missed, lost>> BY <1>1 DEF Lease!Pass, Lease!history
  <2>6. Careful' BY <2>1, <2>2, <2>3, <2>5 DEF Careful
  <2>7. ASSUME NEW o \in Owner \ broken, Lease!Holds(o)', o \notin lost
        PROVE  row'.owner = o /\ row'.left >= lease'[o]
    <3>1. lease[o] \in 0..Term /\ lease[o] > 0
      BY <1>0, <2>4, <2>7, LessTyped DEF Lease!Holds
    <3>2. row.owner = o /\ row.left >= lease[o]
      BY <2>7, <3>1 DEF Lease!LeaseIsRecorded, Lease!Holds
    <3> QED BY <1>0, <2>1, <2>4, <3>1, <3>2, LessMonotone
  <2> QED BY <2>5, <2>6, <2>7 DEF Lease!LeaseIsRecorded
<1>2. ASSUME NEW o \in Owner, Lease!Begin(o) PROVE Careful' /\ Lease!LeaseIsRecorded'
  <2>1. UNCHANGED <<row, broken, lease, missed, lost>>
    BY <1>2 DEF Lease!Begin, Lease!history
  <2>2. \A q \in Owner :
          attempt'[q].pc = IF q # o THEN attempt[q].pc
                           ELSE IF o \in broken THEN "memory" ELSE "select"
    BY <1>0, <1>2 DEF Lease!Begin
  <2>3. Careful' BY <2>1, <2>2 DEF Careful
  <2> QED BY <2>1, <2>3 DEF Lease!LeaseIsRecorded, Lease!Holds
<1>3. ASSUME NEW o \in Owner, Lease!Select(o) PROVE Careful' /\ Lease!LeaseIsRecorded'
  <2>1. UNCHANGED <<row, broken, lease, missed, lost>>
    BY <1>3 DEF Lease!Select, Lease!history
  <2>2. \A q \in Owner \ {o} : attempt'[q] = attempt[q] BY <1>0, <1>3 DEF Lease!Select
  <2>3. \/ attempt'[o].pc = "none"
        \/ attempt'[o].pc = "upsert" /\ ~Lease!HeldAgainst(o)
    BY <1>0, <1>3 DEF Lease!Select, Lease!NoAttempt
  <2>4. ~Lease!HeldAgainst(o) => row.owner \in {o, Lease!Nobody} \/ row.left = 0
    BY <1>0 DEF Lease!HeldAgainst
  <2>5. Careful' BY <2>1, <2>2, <2>3, <2>4 DEF Careful
  <2> QED BY <2>1, <2>5 DEF Lease!LeaseIsRecorded, Lease!Holds
<1>4. ASSUME NEW o \in Owner, attempt[o].pc = "upsert", Lease!TakeRow(o), Lease!Granted(o),
             broken' \in {broken, broken \cup {o}}
      PROVE  Careful' /\ Lease!LeaseIsRecorded'
  <2>1. row'.owner = o /\ row'.left = attempt[o].left BY <1>4 DEF Lease!TakeRow
  <2>2. attempt' = [attempt EXCEPT ![o] = Lease!NoAttempt] /\ Lease!NoAttempt.pc = "none"
    BY <1>4 DEF Lease!Granted, Lease!NoAttempt
  <2>3. \A q \in Owner : attempt'[q].pc \in {attempt[q].pc, "none"} BY <1>0, <2>2
  <2>4. Careful' BY <1>4, <2>3, TakingIsMissed DEF Careful
  <2>5. \A q \in Owner : lease'[q] = IF q = o THEN attempt[o].left ELSE lease[q]
    BY <1>0, <1>4 DEF Lease!Granted
  <2>6. ASSUME NEW q \in Owner \ broken', Lease!Holds(q)', q \notin lost' PROVE q = o
    <3> SUFFICES ASSUME q # o PROVE FALSE OBVIOUS
    <3>1. q \in Owner \ broken /\ Lease!Holds(q) BY <1>4, <2>5, <2>6 DEF Lease!Holds
    <3> QED BY <1>4, <2>6, <3>1, TakingIsSeen
  <2>7. attempt[o].left \in 0..Term BY <1>0
  <2>8. Lease!LeaseIsRecorded' BY <2>1, <2>5, <2>6, <2>7 DEF Lease!LeaseIsRecorded
  <2> QED BY <2>4, <2>8
<1>5. ASSUME NEW o \in Owner, Lease!DatabaseFails(o), UNCHANGED <<row, lost>>,
             missed' = [missed EXCEPT ![o] = {}]
      PROVE  Careful' /\ Lease!LeaseIsRecorded'
  <2>1. UNCHANGED <<row, lost>> /\ broken' = broken \cup {o}
    BY <1>5 DEF Lease!DatabaseFails
  <2>2. \A q \in Owner \ {o} : missed'[q] = missed[q] /\ attempt'[q] = attempt[q]
                               /\ lease'[q] = lease[q]
    BY <1>0, <1>5 DEF Lease!DatabaseFails, Lease!Granted
  <2>3. attempt'[o].pc = "none"
    BY <1>0, <1>5 DEF Lease!DatabaseFails, Lease!Granted, Lease!NoAttempt
  <2>4. Careful' BY <2>1, <2>2, <2>3 DEF Careful
  <2> QED BY <2>1, <2>2, <2>4 DEF Lease!LeaseIsRecorded, Lease!Holds
<1>6. ASSUME NEW o \in Owner, Lease!GrantFromMemory(o) PROVE Careful' /\ Lease!LeaseIsRecorded'
  <2>1. o \in broken /\ UNCHANGED <<row, broken, missed, lost>>
    BY <1>6 DEF Lease!GrantFromMemory, Careful, Lease!history
  <2>2. \A q \in Owner \ {o} : attempt'[q] = attempt[q] /\ lease'[q] = lease[q]
    BY <1>0, <1>6 DEF Lease!GrantFromMemory, Lease!Granted
  <2>3. attempt'[o].pc = "none"
    BY <1>0, <1>6 DEF Lease!GrantFromMemory, Lease!Granted, Lease!NoAttempt
  <2>4. Careful' BY <2>1, <2>2, <2>3 DEF Careful
  <2> QED BY <2>1, <2>2, <2>4 DEF Lease!LeaseIsRecorded, Lease!Holds
<1>7. ASSUME NEW o \in Owner, Lease!Restart(o) PROVE Careful' /\ Lease!LeaseIsRecorded'
  <2>1. row'.left = row.left /\ row'.owner = (IF row.owner = o THEN "gone" ELSE row.owner)
    BY <1>0, <1>7 DEF Lease!Restart
  <2>2. /\ \A q \in Owner : attempt'[q].pc = IF q = o THEN "none" ELSE attempt[q].pc
        /\ \A q \in Owner \ {o} : missed'[q] = missed[q] /\ lease'[q] = lease[q]
        /\ lease'[o] = 0
    BY <1>0, <1>7 DEF Lease!Restart, Lease!NoAttempt
  <2>3. broken' = broken \ {o} /\ lost' = lost \ {o} BY <1>7 DEF Lease!Restart
  <2>4. Careful' BY <2>1, <2>2, <2>3 DEF Careful
  <2>5. ASSUME NEW q \in Owner \ broken', Lease!Holds(q)', q \notin lost'
        PROVE  row'.owner = q /\ row'.left >= lease'[q]
    <3>1. q # o /\ Lease!Holds(q) /\ q \notin broken /\ q \notin lost
      BY <2>2, <2>3, <2>5 DEF Lease!Holds
    <3> QED BY <2>1, <2>2, <3>1 DEF Lease!LeaseIsRecorded
  <2> QED BY <2>4, <2>5 DEF Lease!LeaseIsRecorded
<1>8. CASE UNCHANGED Lease!vars
  BY <1>8 DEF Lease!vars, Careful, Lease!LeaseIsRecorded, Lease!Holds
<1>9. ASSUME NEW o \in Owner, Lease!Upsert(o) PROVE Careful' /\ Lease!LeaseIsRecorded'
  BY <1>4, <1>9 DEF Lease!Upsert
<1>10. ASSUME NEW o \in Owner, Lease!DatabaseFails(o), Lease!TakeRow(o), attempt[o].pc = "upsert"
       PROVE  Careful' /\ Lease!LeaseIsRecorded'
  BY <1>4, <1>10 DEF Lease!DatabaseFails
<1>11. ASSUME NEW o \in Owner, Lease!DatabaseFails(o) PROVE Careful' /\ Lease!LeaseIsRecorded'
  BY <1>5, <1>10, <1>11 DEF Lease!DatabaseFails
<1> QED BY <1>1, <1>2, <1>3, <1>6, <1>7, <1>8, <1>9, <1>11 DEF Lease!Next, Lease!Attempt

-----------------------------------------------------------------------------
LEMMA LeaseInvariant ==
  Lease!Init /\ [][Lease!Next]_(Lease!vars) => []LeaseInv
<1>1. Lease!Init => LeaseInv
  <2> SUFFICES ASSUME Lease!Init PROVE Careful /\ Lease!LeaseIsRecorded
    BY LeaseTypeInit DEF LeaseInv
  <2>1. \A o \in Owner : attempt[o].pc = "none" BY DEF Lease!Init, Lease!NoAttempt
  <2> QED BY <2>1 DEF Lease!Init, Careful, Lease!LeaseIsRecorded, Lease!Holds
<1>2. LeaseInv /\ [Lease!Next]_(Lease!vars) => LeaseInv'
  BY LeaseTypeStep, LeaseStep DEF LeaseInv
<1> QED BY <1>1, <1>2, PTL

\* The lease's steps of the supervisor are those of its protocol.
LEMMA LeaseProjection ==
  SupervisorSpec => Lease!Init /\ [][Lease!Next]_(Lease!vars)
<1>1. SupervisorInit => Lease!Init BY DEF SupervisorInit
<1>2. [SupervisorNext]_both => [Lease!Next]_(Lease!vars)
  BY DEF SupervisorNext, Waking, Leasing, both, leaseVars, Lease!vars
<1> QED BY <1>1, <1>2, PTL DEF SupervisorSpec

\* However attempts overlap, a lease that runs and was granted by the database
\* is the one the row names, unless an attempt that had read the row before it
\* was written took it (tryAcquireSupervisorLease).
THEOREM RunningLeaseIsRecorded == SupervisorSpec => []Lease!LeaseIsRecorded
<1>1. LeaseInv => Lease!LeaseIsRecorded BY DEF LeaseInv
<1> QED BY <1>1, LeaseInvariant, LeaseProjection, PTL

\* So when two replicas that the database answers hold leases at once, one of
\* the two was written over by an attempt that had looked too early: neither a
\* third replica, nor errors, restarts or expiry make a reader of a running
\* lease take it.
THEOREM LeaseIsTakenOnlyUnseen == SupervisorSpec => []TakenOnlyUnseen
<1>1. LeaseInv => TakenOnlyUnseen
  <2> SUFFICES ASSUME LeaseInv, NEW o \in Owner \ broken, NEW q \in Owner \ broken,
                      Lease!Holds(o), Lease!Holds(q), o # q, o \notin lost, q \notin lost
               PROVE  FALSE
    BY DEF TakenOnlyUnseen, Lease!TakenOnlyUnseen
  <2> QED BY DEF LeaseInv, Lease!LeaseIsRecorded
<1> QED BY <1>1, LeaseInvariant, LeaseProjection, PTL
=============================================================================
