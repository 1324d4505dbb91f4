------------------------------- MODULE RunStore -------------------------------
(***************************************************************************)
(* The rows of a thread's runs in the three stores of executionRunStore.js *)
(* and runStoreSupabase.js.  The memory store patches a row in one step.   *)
(* The Supabase store reads the row, merges the patch and writes every     *)
(* column back.  The file store keeps two copies, the thread's file (its   *)
(* newest run) and a file per run: a patch reads one of them, merges and   *)
(* writes both, and each write first empties the file (fs.writeFile).      *)
(* Calls overlap at every await, a database call may fail, and the process *)
(* may die at any await.                                                   *)
(***************************************************************************)
EXTENDS Naturals, Sequences, FiniteSets

CONSTANTS
  Runs,       \* run ids, in no order
  First,      \* the run the thread starts with
  Fields,     \* columns of a row, "status" among them
  Patches,    \* the sets of fields a patch may carry
  Calls,      \* calls of the store, each made at most once
  Modes,      \* COS_RUN_STORE: "memory", "supabase", "file"
  MaxCrashes  \* bound on process restarts

NoRun  == "no_run"
NoCall == "no_call"
ASSUME RunStoreAssumption ==
  /\ First \in Runs /\ NoRun \notin Runs
  /\ "status" \in Fields /\ Patches \subseteq SUBSET Fields
  /\ Calls \cap {NoCall, "accepted", "canceled"} = {} /\ IsFiniteSet(Calls)
  /\ Modes \subseteq {"memory", "supabase", "file"} /\ MaxCrashes \in Nat

VARIABLES
  mode,     \* the store in use
  byId,     \* per run: memRunsById, the row of cos_runs, or by_id/<run>.json
  thread,   \* memRuns or <thread>.json (not used by Supabase)
  latest,   \* the run inserted last, by created_at of cos_runs
  call,     \* the calls and the locals they keep over their awaits
  crashes,
  kept,     \* history: the patch whose value a field must still have
  leads,    \* history: the run that must still be the thread's
  newest,   \* history: the run whose acceptance returned last
  mixed,    \* history: have two calls ever been under way together?
  struck    \* history: calls a crash has hit

files   == <<byId, thread, latest>>
history == <<kept, leads, newest, mixed, struck>>
vars    == <<mode, files, call, crashes, history>>

\* A field holds "accepted" or "canceled", or names the patch that set it.
Value    == Calls \cup {"accepted", "canceled"}
Row      == [Fields -> Value]
Accepted == [f \in Fields |-> "accepted"]

\* A file or a slot: absent, just emptied, garbled by two writers, or a row.
Copy       == [is : {"absent", "empty", "garbled", "row"}, id : Runs \cup {NoRun}, row : Row]
Unreadable(is)    == [is |-> is, id |-> NoRun, row |-> Accepted]
Of(r, row) == [is |-> "row", id |-> r, row |-> row]

Idle == [pc |-> "idle", op |-> "none", run |-> NoRun, fields |-> {}, ends |-> FALSE,
         row |-> Accepted, todo |-> <<>>, alone |-> FALSE]

Init ==
  /\ mode \in Modes
  /\ byId = [r \in Runs |-> IF r = First THEN Of(r, Accepted) ELSE Unreadable("absent")]
  /\ thread = IF mode = "supabase" THEN Unreadable("absent") ELSE Of(First, Accepted)
  /\ latest = First
  /\ call = [c \in Calls |-> Idle]
  /\ crashes = 0
  /\ kept = [r \in Runs |-> [f \in Fields |-> NoCall]]
  /\ leads = First /\ newest = First
  /\ mixed = FALSE /\ struck = 0

Ended     == {"idle", "returned", "refused", "lost"}
UnderWay  == {c \in Calls : call[c].pc \notin Ended}

\* { ...cur, ...patch }
BadMerge(row, c) == [f \in Fields |-> IF f \in call[c].fields THEN c ELSE "accepted"]
Merge(row, c)    == [f \in Fields |-> IF f \in call[c].fields THEN c ELSE row[f]]

Forget(fs) == [r \in Runs |-> [f \in Fields |-> IF f \in fs THEN NoCall ELSE kept[r][f]]]

\* A call begins: from now on nothing is promised of what it may change, and
\* nobody who is under way with it is alone.
Start(c, new) ==
  /\ call[c].pc = "idle"
  /\ call' = [k \in Calls |->
       IF k = c THEN [new EXCEPT !.alone = (UnderWay = {})]
                ELSE [call[k] EXCEPT !.alone = FALSE]]
  /\ mixed' = (mixed \/ UnderWay # {})
  /\ UNCHANGED <<mode, files, crashes, newest, struck>>

\* The patch of a call that ran alone is to stay, its new run is to lead.
Promise(c, r) ==
  /\ kept' = IF call[c].alone /\ call[c].op # "accept"
             THEN [kept EXCEPT ![r] =
                     [f \in Fields |-> IF f \in call[c].fields THEN c ELSE kept[r][f]]]
             ELSE kept
  /\ leads' = IF call[c].alone /\ call[c].op = "accept" THEN r ELSE leads
  /\ newest' = IF call[c].op = "accept" THEN r ELSE newest

Return(c, r) ==
  /\ call' = [call EXCEPT ![c].pc = "returned"]
  /\ Promise(c, r)
  /\ UNCHANGED <<mode, crashes, mixed, struck>>
Refuse(c) ==
  /\ call' = [call EXCEPT ![c].pc = "refused"]
  /\ UNCHANGED <<mode, crashes, history>>
Goto(c, pc) ==
  /\ call' = [call EXCEPT ![c].pc = pc]
  /\ UNCHANGED <<mode, crashes, history>>

-----------------------------------------------------------------------------
(* The operations of the store begin. *)

FirstStep(inMemory, inSupabase, inFiles) ==
  CASE mode = "memory" -> inMemory [] mode = "supabase" -> inSupabase [] OTHER -> inFiles

BadBothFiles == <<"byId">>
BothFiles    == <<"byId", "thread">>

\* persistAcceptedRunShell: a new run; Supabase cancels the active ones first.
Accept(c, r) ==
  /\ byId[r].is = "absent" /\ \A k \in Calls : call[k].run # r
  /\ Start(c, [Idle EXCEPT !.op = "accept", !.run = r,
                 !.pc = FirstStep("apply", "cancel", "open"), !.todo = BothFiles])
  /\ kept' = IF mode = "supabase" THEN Forget({"status"}) ELSE kept
  /\ leads' = NoRun

\* patchRun and patchRunById: the thread's newest run, or the run given.
Patch(c, fs, ends) ==
  /\ Start(c, [Idle EXCEPT !.op = "patch", !.fields = fs, !.ends = ends,
                 !.pc = FirstStep("apply", "read", "read")])
  /\ ends => "status" \in fs
  /\ kept' = Forget(fs) /\ leads' = leads

PatchById(c, r, fs, ends) ==
  /\ Start(c, [Idle EXCEPT !.op = "patchById", !.run = r, !.fields = fs, !.ends = ends,
                 !.pc = FirstStep("apply", "read", "read")])
  /\ ends => "status" \in fs
  /\ kept' = Forget(fs) /\ leads' = leads

-----------------------------------------------------------------------------
(* Memory: one synchronous step. *)

Apply(c) ==
  LET k   == call[c]
      src == IF k.op = "patch" THEN thread ELSE byId[k.run]
      new == IF k.op = "accept" THEN Of(k.run, Accepted) ELSE Of(src.id, Merge(src.row, c))
  IN  /\ k.pc = "apply"
      /\ IF k.op # "accept" /\ src.is # "row" THEN Refuse(c) /\ UNCHANGED files
         ELSE /\ byId' = [byId EXCEPT ![new.id] = new]
              /\ thread' = IF k.op = "patchById" /\ thread.id # k.run THEN thread ELSE new
              /\ UNCHANGED latest
              /\ Return(c, new.id)

-----------------------------------------------------------------------------
(* Supabase: cancel and insert, or read, merge and update. *)

Active(row) == row["status"] \in Calls => ~call[row["status"]].ends
Cancel(c) ==
  /\ call[c].pc = "cancel"
  /\ byId' = [r \in Runs |->
       IF byId[r].is = "row" /\ byId[r].row["status"] # "canceled" /\ Active(byId[r].row)
       THEN [byId[r] EXCEPT !.row["status"] = "canceled"] ELSE byId[r]]
  /\ Goto(c, "insert") /\ UNCHANGED <<thread, latest>>

Insert(c) ==
  LET r == call[c].run
  IN  /\ call[c].pc = "insert"
      /\ \/ byId' = [byId EXCEPT ![r] = Of(r, Accepted)] /\ latest' = r
            /\ UNCHANGED thread /\ Return(c, r)
         \/ Refuse(c) /\ UNCHANGED files

\* A select that fails gives no row.
Select(c) ==
  LET r == IF call[c].op = "patch" THEN latest ELSE call[c].run
  IN  /\ mode = "supabase" /\ call[c].pc = "read"
      /\ UNCHANGED files
      /\ \/ /\ byId[r].is = "row"
            /\ call' = [call EXCEPT ![c].pc = "update", ![c].run = r,
                                    ![c].row = Merge(byId[r].row, c)]
            /\ UNCHANGED <<mode, crashes, history>>
         \/ Refuse(c)

\* Every column is written; the row is read again to be returned, and null is
\* returned when that fails.
Update(c) ==
  LET r == call[c].run
  IN  /\ call[c].pc = "update"
      /\ \/ byId' = [byId EXCEPT ![r] = Of(r, call[c].row)] /\ UNCHANGED <<thread, latest>>
            /\ (Return(c, r) \/ Refuse(c))
         \/ Refuse(c) /\ UNCHANGED files

-----------------------------------------------------------------------------
(* Files. *)

File(name, r) == IF name = "thread" THEN thread ELSE byId[r]
SetFile(name, r, copy) ==
  /\ thread' = IF name = "thread" THEN copy ELSE thread
  /\ byId' = IF name = "byId" THEN [byId EXCEPT ![r] = copy] ELSE byId
  /\ UNCHANGED latest

\* The row that is read is patched at once and written to the files in todo.
Take(c, copy, todo) ==
  /\ call' = [call EXCEPT ![c].pc = "open", ![c].run = copy.id, ![c].todo = todo,
                          ![c].row = Merge(copy.row, c)]
  /\ UNCHANGED <<mode, crashes, history>>

ReadThread(c) ==
  /\ mode = "file" /\ call[c].pc = "read" /\ call[c].op = "patch"
  /\ IF thread.is = "row" THEN Take(c, thread, <<"thread", "byId">>) ELSE Refuse(c)
  /\ UNCHANGED files

ReadById(c) ==
  /\ mode = "file" /\ call[c].pc = "read" /\ call[c].op = "patchById"
  /\ IF byId[call[c].run].is = "row" THEN Take(c, byId[call[c].run], <<"byId">>)
                                     ELSE Goto(c, "scan")
  /\ UNCHANGED files

\* Without a readable file of its own the run is looked for in the threads'.
BadInThread(r) == thread.is = "row"
InThread(r) == thread.is = "row" /\ thread.id = r
Scan(c) ==
  /\ call[c].pc = "scan"
  /\ IF InThread(call[c].run) THEN Take(c, thread, <<"byId">>) ELSE Refuse(c)
  /\ UNCHANGED files

Open(c) ==
  /\ call[c].pc = "open"
  /\ SetFile(Head(call[c].todo), call[c].run, Unreadable("empty"))
  /\ Goto(c, "fill")

\* Two writers may have emptied the file before either fills it: the second
\* text lies over the first, and what is left of it makes the file unreadable.
Fill(c) ==
  LET k    == call[c]
      name == Head(k.todo)
      done == Tail(k.todo) = <<>>
  IN  /\ k.pc = "fill"
      /\ \/ SetFile(name, k.run, Of(k.run, k.row))
         \/ File(name, k.run).is # "empty" /\ SetFile(name, k.run, Unreadable("garbled"))
      /\ \/ /\ ~done
            /\ call' = [call EXCEPT ![c].pc = "open", ![c].todo = Tail(@)]
            /\ UNCHANGED <<mode, crashes, history>>
         \/ done /\ k.op = "patchById" /\ name = "byId" /\ Goto(c, "look")
         \/ done /\ ~(k.op = "patchById" /\ name = "byId") /\ Return(c, k.run)

\* patchRunById writes the thread's file too, if the thread has the run.
Look(c) ==
  /\ call[c].pc = "look" /\ UNCHANGED files
  /\ IF InThread(call[c].run)
     THEN /\ call' = [call EXCEPT ![c].pc = "open", ![c].todo = <<"thread">>]
          /\ UNCHANGED <<mode, crashes, history>>
     ELSE Return(c, call[c].run)

-----------------------------------------------------------------------------
\* The calls under way are lost, the rows of the durable stores are not.
Crash ==
  /\ mode # "memory" /\ crashes < MaxCrashes
  /\ crashes' = crashes + 1
  /\ struck' = struck + Cardinality(UnderWay)
  /\ call' = [c \in Calls |-> IF c \in UnderWay THEN [call[c] EXCEPT !.pc = "lost"] ELSE call[c]]
  /\ UNCHANGED <<mode, files, kept, leads, newest, mixed>>

Step(c) ==
  \/ Apply(c) \/ Cancel(c) \/ Insert(c) \/ Select(c) \/ Update(c)
  \/ ReadThread(c) \/ ReadById(c) \/ Scan(c) \/ Open(c) \/ Fill(c) \/ Look(c)

Next ==
  \/ \E c \in Calls :
       \/ Step(c)
       \/ \E r \in Runs : Accept(c, r)
       \/ \E fs \in Patches, ends \in BOOLEAN :
            \/ Patch(c, fs, ends) \/ \E r \in Runs : PatchById(c, r, fs, ends)
  \/ Crash

Spec == Init /\ [][Next]_vars

-----------------------------------------------------------------------------
Pc   == Ended \cup {"apply", "cancel", "insert", "read", "update", "scan", "open", "fill", "look"}
Todo == {<<>>, <<"byId">>, <<"thread">>, <<"byId", "thread">>, <<"thread", "byId">>}
Call == [pc : Pc, op : {"none", "accept", "patch", "patchById"}, run : Runs \cup {NoRun},
         fields : SUBSET Fields, ends : BOOLEAN, row : Row, todo : Todo, alone : BOOLEAN]

TypeOK ==
  /\ mode \in Modes /\ crashes \in 0..MaxCrashes
  /\ byId \in [Runs -> Copy] /\ thread \in Copy /\ latest \in Runs
  /\ \A r \in Runs : byId[r].is = "row" => byId[r].id = r
  /\ thread.is = "row" => thread.id \in Runs
  /\ call \in [Calls -> Call]
  /\ kept \in [Runs -> [Fields -> Calls \cup {NoCall}]]
  /\ leads \in Runs \cup {NoRun} /\ newest \in Runs
  /\ mixed \in BOOLEAN /\ struck \in Nat

\* A patch that returned its row and ran alone stays in every readable copy of
\* the run until another patch of one of its fields (or, for the status, a new
\* delegation) begins, however many later patches of other fields read, merge
\* and write whole rows over each other, and wherever the process dies.
QuietPatchStays ==
  \A r \in Runs, f \in Fields : kept[r][f] # NoCall =>
    \A copy \in {byId[r], thread} :
      copy.is = "row" /\ copy.id = r => copy.row[f] = kept[r][f]

\* A run whose acceptance returned and ran alone is the thread's run until the
\* next delegation begins: late patches of an older run, which write the
\* thread's file too, do not bring that one back.
QuietRunLeads ==
  leads # NoRun =>
    IF mode = "supabase" THEN latest = leads ELSE thread.is = "row" => thread.id = leads

\* As long as the calls of the store do not overlap, the newest run can be read
\* from one of its two files although every write leaves its file empty for a
\* while, and a crash that hits one call takes at most one of them away.  (The
\* file it has emptied may stay so, and the next write then risks the other.)
OneCrashLosesNoRun ==
  ~mixed /\ struck + Cardinality(UnderWay) <= 1 => byId[newest].is = "row" \/ InThread(newest)
=============================================================================
