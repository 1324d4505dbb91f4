-------------------------- MODULE GithubDeliveries --------------------------
(***************************************************************************)
(* GitHub's webhook deliveries: each carries an id, is recorded before     *)
(* anything else is done about it, and is dropped as a duplicate when its  *)
(* id is recorded already.  Handlers of several deliveries, and of one     *)
(* that GitHub sends again, overlap at every await; stores fail and the    *)
(* process restarts.                                                       *)
(*                                                                         *)
(* The ids are in the process's memory, in a table with a unique key, or   *)
(* in a file of the latest ones, which is read, emptied and filled again.  *)
(* What an event does to a run is to append a line to its log and to wake  *)
(* the supervisor (SupervisorWake), or, for a push that nothing is         *)
(* correlated with, to try the recovery of RecoveryBridge.                 *)
(***************************************************************************)
EXTENDS Naturals, SequencesExt, FiniteSetsExt

CONSTANTS
  Delivery,     \* ids of deliveries
  NoDelivery,   \* an event without an id, or of a kind that is not recorded
  Handler,      \* handlers at work at one time
  Window,       \* ids kept in the file, at least one (2000 in the code)
  MaxReceipts,  \* bound: deliveries received
  MaxFailures   \* bound: stores that fail, and restarts

VARIABLES
  mode,      \* "memory", "supabase" or "file"
  rows,      \* ids in the memory or in the table
  file,      \* ids in the file, oldest first; none when it cannot be parsed
  handler,   \* the handlers
  receipts, failures,
  fresh,     \* history: the ids let through, in order
  filed,     \* history: those of them that reached a run's log, by position
  spoilt     \* history: the record was lost in a way the code puts up with

deliveryVars == <<mode, rows, file, handler, receipts, failures, fresh, filed, spoilt>>

-----------------------------------------------------------------------------
NoHandler == [pc |-> "idle", id |-> NoDelivery, list |-> <<>>, again |-> FALSE, at |-> 0]

Holds(h, pc) == handler[h].pc = pc
Step(h, pc)  == handler' = [handler EXCEPT ![h].pc = pc]
Rest(h)      == handler' = [handler EXCEPT ![h] = NoHandler]
Filing       == {h \in Handler : handler[h].pc \in {"read", "open", "fill"}}

\* The delivery is new as far as the handler can tell.
LetThrough(h, id) ==
  /\ fresh' = Append(fresh, id)
  /\ handler' = [handler EXCEPT ![h] =
                   [NoHandler EXCEPT !.pc = "process", !.id = id, !.at = Len(fresh) + 1]]

Fails == failures < MaxFailures /\ failures' = failures + 1

\* What is kept of the list when an id is added.
BadKept(ids) == SubSeq(ids, 1, IF Len(ids) < Window THEN Len(ids) ELSE Window)
Kept(ids)    == SubSeq(ids, (IF Len(ids) > Window THEN Len(ids) - Window ELSE 0) + 1, Len(ids))

Init ==
  /\ mode \in {"memory", "supabase", "file"}
  /\ rows = {} /\ file = <<>> /\ handler = [h \in Handler |-> NoHandler]
  /\ receipts = 0 /\ failures = 0
  /\ fresh = <<>> /\ filed = {} /\ spoilt = FALSE

-----------------------------------------------------------------------------
(* A delivery arrives.  Its signature holds and its body can be parsed; a  *)
(* ping is answered without a look at anything.                            *)

Arrives == receipts < MaxReceipts /\ receipts' = receipts + 1

Unrecorded(h) ==
  /\ Arrives /\ Holds(h, "idle") /\ LetThrough(h, NoDelivery)
  /\ UNCHANGED <<mode, rows, file, failures, filed, spoilt>>

\* The memory is asked and told in one step.
Recall(h, id) ==
  /\ Arrives /\ Holds(h, "idle") /\ mode = "memory"
  /\ IF id \in rows
     THEN UNCHANGED <<rows, handler, fresh>>
     ELSE rows' = rows \cup {id} /\ LetThrough(h, id)
  /\ UNCHANGED <<mode, file, failures, filed, spoilt>>

\* So is the table, by its key.  A delivery whose insert fails, made or not,
\* is let through.
Insert(h, id) ==
  /\ Arrives /\ Holds(h, "idle") /\ mode = "supabase"
  /\ \/ id \in rows /\ UNCHANGED <<rows, handler, fresh, failures, spoilt>>
     \/ /\ id \notin rows /\ rows' = rows \cup {id} /\ LetThrough(h, id)
        /\ UNCHANGED <<failures, spoilt>>
     \/ /\ Fails /\ rows' \in {rows, rows \cup {id}} /\ LetThrough(h, id)
        /\ spoilt' = TRUE
  /\ UNCHANGED <<mode, file, filed>>

Begin(h, id) ==
  /\ Arrives /\ Holds(h, "idle") /\ mode = "file"
  /\ handler' = [handler EXCEPT ![h] = [NoHandler EXCEPT !.pc = "read", !.id = id]]
  /\ spoilt' = (spoilt \/ Filing # {})
  /\ UNCHANGED <<mode, rows, file, failures, fresh, filed>>

-----------------------------------------------------------------------------
(* The file.                                                               *)

\* Whatever fails at first, the file is written anew with this id alone; what
\* fails then is answered with an error.
Fallback(h) ==
  /\ Fails /\ spoilt' = TRUE
  /\ IF handler[h].again
     THEN Rest(h)
     ELSE handler' = [handler EXCEPT ![h].pc = "open", ![h].again = TRUE,
                                     ![h].list = <<handler[h].id>>]

\* A file that is missing or cannot be parsed is written anew, too.
Read(h) ==
  /\ Holds(h, "read")
  /\ \/ /\ IF handler[h].id \in ToSet(file)
           THEN Rest(h)
           ELSE handler' = [handler EXCEPT ![h].pc = "open", ![h].again = (file = <<>>),
                                           ![h].list = Kept(Append(file, handler[h].id))]
        /\ UNCHANGED <<failures, spoilt>>
     \/ Fallback(h)
  /\ UNCHANGED <<mode, rows, file, receipts, fresh, filed>>

Open(h) ==
  /\ Holds(h, "open")
  /\ \/ Step(h, "fill") /\ file' = <<>> /\ UNCHANGED <<failures, spoilt>>
     \/ Fallback(h) /\ UNCHANGED file
  /\ UNCHANGED <<mode, rows, receipts, fresh, filed>>

\* Over what another handler has written meanwhile, the list may be garbled.
Fill(h) ==
  /\ Holds(h, "fill")
  /\ \/ /\ file' \in {handler[h].list} \cup (IF file = <<>> THEN {} ELSE {<<>>})
        /\ LetThrough(h, handler[h].id) /\ UNCHANGED <<failures, spoilt>>
     \/ Fallback(h) /\ UNCHANGED <<file, fresh>>
  /\ UNCHANGED <<mode, rows, receipts, filed>>

-----------------------------------------------------------------------------
\* What was let through is of another repository or of an unknown kind, finds
\* no run, fails, or is filed in its run's log.
Process(h) ==
  /\ Holds(h, "process") /\ Rest(h)
  /\ filed' \in {filed, filed \cup {handler[h].at}}
  /\ UNCHANGED <<mode, rows, file, receipts, failures, fresh, spoilt>>

\* A restart: the memory is gone, and a file that was just emptied stays empty.
Crash ==
  /\ Fails
  /\ handler' = [h \in Handler |-> NoHandler]
  /\ rows' = IF mode = "memory" THEN {} ELSE rows
  /\ spoilt' = (spoilt \/ mode = "memory" \/ \E h \in Handler : Holds(h, "fill"))
  /\ UNCHANGED <<mode, file, receipts, fresh, filed>>

Receive(h) == Unrecorded(h) \/ \E id \in Delivery : Recall(h, id) \/ Insert(h, id) \/ Begin(h, id)

Next == \/ \E h \in Handler : Receive(h) \/ Read(h) \/ Open(h) \/ Fill(h) \/ Process(h)
        \/ Crash

-----------------------------------------------------------------------------
TypeOK ==
  /\ rows \subseteq Delivery /\ ToSet(file) \subseteq Delivery /\ Len(file) <= Window
  /\ \A h \in Handler : handler[h].pc \in {"idle", "read", "open", "fill", "process"}
  /\ filed \subseteq DOMAIN fresh

\* However handlers overlap and wherever the process dies, a delivery that
\* GitHub sends again is filed once: unless a store failed, handlers met at the
\* file, the record died with the process (memory) or half-written (file), or
\* more deliveries than the file keeps were let through in between.
FiledOnce ==
  \A m, n \in filed :
    m < n /\ fresh[m] = fresh[n] /\ fresh[m] # NoDelivery
      => \/ spoilt
         \/ mode = "file" /\ Cardinality({k \in m..n : fresh[k] # NoDelivery}) > Window + 1
=============================================================================
