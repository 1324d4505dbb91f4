----------------------------- MODULE Supervisor -----------------------------
(***************************************************************************)
(* The supervisor's two protocols, which share no state: how a change      *)
(* comes to be acted on within one process, where the lease is a refusal   *)
(* that may come at any time, and how the processes get the lease.  A      *)
(* behaviour is one of either, and the other stays at its start.           *)
(***************************************************************************)
EXTENDS SupervisorWake

CONSTANTS
  Owner, Term, MaxErrors, MaxRestarts

VARIABLES
  part,
  row, broken, attempt, lease, errors, restarts, missed, lost

Lease == INSTANCE SupervisorLease

\* No replica has the name of nobody or of a process that is gone, and a lease
\* lasts some time (LEASE_MS).
ASSUME LeaseAssumption ==
  /\ Lease!Nobody \notin Owner /\ "gone" \notin Owner
  /\ Term \in Nat \ {0} /\ {MaxErrors, MaxRestarts} \subseteq Nat

-----------------------------------------------------------------------------
leaseVars == <<row, broken, attempt, lease, errors, restarts, missed, lost>>

both == <<part, vars, leaseVars>>

SupervisorInit == part \in {"wake", "lease"} /\ Init /\ Lease!Init

Waking(A)  == part = "wake" /\ A /\ UNCHANGED <<part, leaseVars>>
Leasing(A) == part = "lease" /\ A /\ UNCHANGED <<part, vars>>

SupervisorNext == Waking(Next) \/ Leasing(Lease!Next)

SupervisorSpec ==
  /\ SupervisorInit /\ [][SupervisorNext]_both
  /\ part = "wake" => Fairness
  /\ part = "lease" => Lease!Fairness

-----------------------------------------------------------------------------
\* Two replicas lead at once only by the race between the read and the write of
\* the lease row (supervisorLease.js).
TakenOnlyUnseen == Lease!TakenOnlyUnseen

\* Somebody leads again and again, whoever dies with the lease.
SomebodyLeads == part = "lease" => Lease!SomebodyLeads
=============================================================================
