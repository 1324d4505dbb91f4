------------------------- MODULE RowsAndCallsProofs -------------------------
(***************************************************************************)
(* What the stores keep and what tool calls tell.  Of a thread's runs, for *)
(* any runs, columns, patches and number of overlapping calls: a patch     *)
(* that ran alone stays (QuietPatchStays), and a run accepted alone leads  *)
(* (QuietRunLeads); as long as calls do not overlap, one crash leaves the  *)
(* newest run readable.  Of the tool calls, for any delegations, requests  *)
(* and environments: what is told is true, and the agent of a packet's     *)
(* patch can be placed.                                                    *)
(***************************************************************************)
EXTENDS RowsAndCalls, FiniteSetTheorems, TLAPS

-----------------------------------------------------------------------------
(* The inductive invariant. *)

\* A row says of each promised column of run r what was promised.
Agrees(row, r) == \A f \in Fields : kept[r][f] # NoCall => row[f] = kept[r][f]

Store ==
  /\ \A r \in Runs : byId[r].is = "row" => Agrees(byId[r].row, r)
  /\ \A r \in Runs : thread.is = "row" /\ thread.id = r => Agrees(thread.row, r)
  /\ \A r \in Runs, f \in Fields : kept[r][f] # NoCall => byId[r].is # "absent"
  /\ mode = "supabase" => thread.is = "absent"
  /\ mode = "memory" => thread.is = "row"
  /\ thread.is = "row" => byId[thread.id].is # "absent"

\* The calls that hold a row they are about to write, or have written.
Holding == {"update", "open", "fill", "look"}

\* Where a call may be, by the store in use and by its operation.
Placed(k) ==
  /\ k.pc = "apply" => mode = "memory"
  /\ k.pc \in {"cancel", "insert", "update"} => mode = "supabase"
  /\ k.pc \in {"scan", "open", "fill", "look"} => mode = "file"
  /\ k.pc = "read" => mode # "memory"
  /\ k.pc \in {"cancel", "insert"} => k.op = "accept"
  /\ k.pc \in {"read", "update"} => k.op \in {"patch", "patchById"}
  /\ k.pc \in {"scan", "look"} => k.op = "patchById"
  /\ k.op # "none"
  /\ k.op \in {"accept", "patchById"} \/ k.pc \in Holding => k.run \in Runs
  /\ k.op = "accept" => k.fields = {} /\ k.row = Accepted
  /\ k.pc \in {"open", "fill"} =>
       /\ k.op = "accept" => k.todo \in {BothFiles, <<"thread">>}
       /\ k.op = "patch" => k.todo \in {<<"thread", "byId">>, <<"byId">>}
       /\ k.op = "patchById" => k.todo \in {<<"byId">>, <<"thread">>}

\* What a call holds agrees with all promises, it carries its own patch, and
\* nothing is promised of what it will change.
Faithful(c) ==
  LET k == call[c]
  IN  /\ k.pc \in Holding => Agrees(k.row, k.run) /\ \A f \in k.fields : k.row[f] = c
      /\ \A r \in Runs, f \in k.fields : kept[r][f] = NoCall
      /\ k.pc = "cancel" => \A r \in Runs : kept[r]["status"] = NoCall
      /\ k.op = "accept" => \A f \in Fields : kept[k.run][f] = NoCall

\* The file of a run that a call writes is there, once the call has begun it.
Begun(k) ==
  k.pc \in {"open", "fill", "look"} /\ ~(k.op = "accept" /\ k.pc = "open" /\ k.todo = BothFiles)
    => byId[k.run].is # "absent"

\* A call that is alone finds what it has written.
Wrote(c) ==
  LET k == call[c]
  IN  k.alone =>
        /\ k.op = "patch" /\ k.pc \in {"open", "fill"} /\ k.todo = <<"byId">> =>
             (thread.is = "row" /\ thread.id = k.run => \A f \in k.fields : thread.row[f] = c)
        /\ k.op = "patchById" /\ k.pc \in {"open", "fill", "look"} /\ (k.pc = "look" \/ k.todo = <<"thread">>) =>
             (byId[k.run].is = "row" => \A f \in k.fields : byId[k.run].row[f] = c)

\* No delegation is under way while a run is promised to lead, and only that
\* run is written to the thread's file.
Follows(k) ==
  leads # NoRun =>
    /\ k.op # "accept"
    /\ k.pc \in {"open", "fill"} /\ (k.op = "patch" \/ k.todo = <<"thread">>) => k.run = leads

CallInv(c) ==
  call[c].pc \notin Ended =>
    /\ Placed(call[c]) /\ Faithful(c) /\ Begun(call[c]) /\ Wrote(c) /\ Follows(call[c])

Alone == \A c, d \in UnderWay : call[c].alone => d = c

Inv ==
  /\ TypeOK /\ Store /\ Alone /\ QuietRunLeads
  /\ \A c \in Calls : CallInv(c)
-----------------------------------------------------------------------------
(* Types. *)

LEMMA Distinct ==
  /\ NoCall \notin Calls /\ NoRun \notin Runs /\ "status" \in Fields
  /\ "accepted" \notin Calls /\ "canceled" \notin Calls
BY RunStoreAssumption

LEMMA RowTyped ==
  /\ Accepted \in Row
  /\ \A row \in Row, c \in Calls :
       /\ Merge(row, c) \in Row
       /\ \A f \in Fields : Merge(row, c)[f] = IF f \in call[c].fields THEN c ELSE row[f]
BY DEF Accepted, Row, Value, Merge

LEMMA CopyTyped ==
  /\ \A is \in {"absent", "empty", "garbled"} :
       Unreadable(is) \in Copy /\ Unreadable(is).is = is
  /\ \A r \in Runs, row \in Row :
       /\ Of(r, row) \in Copy /\ Of(r, row).is = "row"
       /\ Of(r, row).id = r /\ Of(r, row).row = row
BY RowTyped DEF Unreadable, Of, Copy

LEMMA IdleTyped == Idle \in Call
BY RowTyped DEF Idle, Call, Pc, Ended, Todo

-----------------------------------------------------------------------------
(* A step of one call and the others. *)

\* A call that goes on or ends leaves the others as they were: if it was alone
\* there are none under way, and otherwise nothing is promised.
LEMMA OthersKeep ==
  ASSUME Inv, NEW c \in UnderWay, NEW x \in Call, x.alone = call[c].alone,
         call' = [call EXCEPT ![c] = x], mode' = mode,
         call[c].alone \/ UNCHANGED <<kept, leads>>,
         \A r \in Runs : byId[r].is # "absent" => byId'[r].is # "absent"
  PROVE  /\ call' \in [Calls -> Call] /\ call'[c] = x
         /\ \A k \in Calls : k # c => call'[k] = call[k]
         /\ Alone' /\ \A k \in Calls : k # c => CallInv(k)'
<1>1. call \in [Calls -> Call] /\ c \in Calls  BY DEF Inv, TypeOK, UnderWay
<1>2. /\ call' \in [Calls -> Call] /\ call'[c] = x
      /\ \A k \in Calls : k # c => call'[k] = call[k]
  BY <1>1
<1>3. \A k \in UnderWay' : k \in UnderWay /\ call'[k].alone = call[k].alone
  BY <1>2 DEF UnderWay
<1>4. Alone'  BY <1>3 DEF Inv, Alone
<1>5. ASSUME NEW k \in Calls, k # c, call[k].pc \notin Ended  PROVE CallInv(k)'
  <2>1. k \in UnderWay /\ call'[k] = call[k]  BY <1>2, <1>5 DEF UnderWay
  <2>2. ~call[c].alone /\ ~call[k].alone  BY <2>1, <1>5 DEF Inv, Alone
  <2>3. UNCHANGED <<kept, leads>>  BY <2>2
  <2>4. CallInv(k)  BY DEF Inv
  <2>5. Placed(call[k])'  BY <1>5, <2>1, <2>4 DEF CallInv, Placed
  <2>6. Faithful(k)'  BY <1>5, <2>1, <2>3, <2>4 DEF CallInv, Faithful, Agrees
  <2>7. Begun(call[k])'
    BY <1>5, <2>1, <2>4 DEF CallInv, Begun, Placed, Holding
  <2>8. Wrote(k)'  BY <2>1, <2>2 DEF Wrote
  <2>9. Follows(call[k])'  BY <1>5, <2>1, <2>3, <2>4 DEF CallInv, Follows
  <2> QED  BY <2>5, <2>6, <2>7, <2>8, <2>9 DEF CallInv
<1>6. ASSUME NEW k \in Calls, k # c  PROVE CallInv(k)'
  BY <1>2, <1>5, <1>6 DEF CallInv
<1> QED  BY <1>2, <1>4, <1>6

-----------------------------------------------------------------------------
(* Calls begin. *)

\* Promises that are only taken back keep the rows in agreement with the rest.
LEMMA FewerPromises ==
  ASSUME NEW row, NEW r \in Runs, Agrees(row, r),
         \A f \in Fields : kept'[r][f] \in {kept[r][f], NoCall}
  PROVE  \A f \in Fields : kept'[r][f] # NoCall => row[f] = kept'[r][f]
BY DEF Agrees

LEMMA StartKeeps ==
  ASSUME Inv, NEW c \in Calls, NEW new \in Call, Start(c, new), Placed(new),
         new.pc \in {"apply", "cancel", "read", "open"},
         new.pc = "open" => new.op = "accept" /\ new.todo = BothFiles,
         kept' \in [Runs -> [Fields -> Calls \cup {NoCall}]],
         \A r \in Runs, f \in Fields : kept'[r][f] \in {kept[r][f], NoCall},
         \A r \in Runs, f \in new.fields : kept'[r][f] = NoCall,
         new.pc = "cancel" => \A r \in Runs : kept'[r]["status"] = NoCall,
         leads' \in {leads, NoRun},
         new.op = "accept" => leads' = NoRun /\ \A f \in Fields : kept'[new.run][f] = NoCall
  PROVE  Inv'
<1> DEFINE x == [new EXCEPT !.alone = (UnderWay = {})]
           y(k) == [call[k] EXCEPT !.alone = FALSE]
<1>1. call \in [Calls -> Call]  BY DEF Inv, TypeOK
<1>2. x \in Call /\ \A k \in Calls : y(k) \in Call  BY <1>1 DEF Call
<1>3. call' = [k \in Calls |-> IF k = c THEN x ELSE y(k)]  BY DEF Start
<1>4. /\ x.alone = (UnderWay = {}) /\ x.pc = new.pc /\ x.op = new.op /\ x.run = new.run
      /\ x.fields = new.fields /\ x.row = new.row /\ x.todo = new.todo
  BY DEF Call
<1>5. \A k \in Calls : /\ y(k).alone = FALSE /\ y(k).pc = call[k].pc /\ y(k).op = call[k].op
                       /\ y(k).run = call[k].run /\ y(k).fields = call[k].fields
                       /\ y(k).row = call[k].row /\ y(k).todo = call[k].todo
  BY <1>1 DEF Call
<1> HIDE DEF x, y
<1>6. call'[c] = x /\ \A k \in Calls : k # c => call'[k] = y(k)  BY <1>3
<1>7. UNCHANGED <<mode, byId, thread, latest, crashes, newest, struck>>  BY DEF Start, files
<1>8. TypeOK'
  <2>1. call' \in [Calls -> Call]  BY <1>2, <1>3
  <2>2. mixed' \in BOOLEAN  BY DEF Inv, TypeOK, Start
  <2> QED  BY <1>7, <2>1, <2>2 DEF Inv, TypeOK
<1>9. Store'  BY <1>7, FewerPromises DEF Inv, Store, Agrees
<1>10. Alone'
  <2>1. ASSUME NEW k \in UnderWay', call'[k].alone  PROVE k = c /\ UnderWay = {}
    BY <1>4, <1>5, <1>6, <2>1 DEF UnderWay
  <2>2. \A d \in UnderWay' : d = c \/ d \in UnderWay
    BY <1>5, <1>6 DEF UnderWay
  <2> QED  BY <2>1, <2>2 DEF Alone
<1>11. QuietRunLeads'  BY <1>7 DEF Inv, QuietRunLeads
<1>12. ASSUME NEW k \in Calls, k # c, call'[k].pc \notin Ended  PROVE CallInv(k)'
  <2>1. call'[k] = y(k) /\ call[k].pc \notin Ended  BY <1>5, <1>6, <1>12
  <2>2. CallInv(k)  BY DEF Inv
  <2>3. Placed(call[k])'  BY <1>5, <1>7, <2>1, <2>2 DEF CallInv, Placed
  <2>4. call[k].fields \subseteq Fields  BY <1>1 DEF Call
  <2>5. Faithful(k)'
    <3>1. call[k].pc \in Holding => Agrees(call[k].row, call[k].run)'
      BY <1>5, <2>1, <2>2, FewerPromises DEF CallInv, Placed, Faithful, Agrees
    <3>2. \A r \in Runs, f \in call[k].fields : kept'[r][f] = NoCall
      BY <2>1, <2>2, <2>4 DEF CallInv, Faithful
    <3>3. call[k].pc = "cancel" => \A r \in Runs : kept'[r]["status"] = NoCall
      BY <2>1, <2>2, Distinct DEF CallInv, Faithful
    <3>4. call[k].op = "accept" => \A f \in Fields : kept'[call[k].run][f] = NoCall
      BY <2>1, <2>2 DEF CallInv, Placed, Faithful
    <3> QED  BY <1>5, <2>1, <2>2, <3>1, <3>2, <3>3, <3>4 DEF CallInv, Faithful, Agrees
  <2>6. Begun(call[k])'  BY <1>5, <1>7, <2>1, <2>2 DEF CallInv, Begun
  <2>7. Wrote(k)'  BY <1>5, <2>1 DEF Wrote
  <2>8. Follows(call[k])'  BY <1>5, <2>1, <2>2 DEF CallInv, Follows
  <2> QED  BY <2>3, <2>5, <2>6, <2>7, <2>8 DEF CallInv
<1>13. CallInv(c)'
  <2>1. Placed(call[c])'  BY <1>4, <1>6, <1>7 DEF Placed
  <2>2. Faithful(c)'  BY <1>4, <1>6 DEF Faithful, Holding, Agrees, Placed
  <2>3. Begun(call[c])' /\ Wrote(c)' /\ Follows(call[c])'
    BY <1>4, <1>6, Distinct DEF Begun, Wrote, Follows
  <2> QED  BY <2>1, <2>2, <2>3 DEF CallInv
<1> QED  BY <1>8, <1>9, <1>10, <1>11, <1>12, <1>13 DEF Inv, CallInv

LEMMA ForgetTyped ==
  ASSUME Inv, NEW fs \in SUBSET Fields
  PROVE  /\ Forget(fs) \in [Runs -> [Fields -> Calls \cup {NoCall}]]
         /\ \A r \in Runs, f \in Fields : Forget(fs)[r][f] = IF f \in fs THEN NoCall ELSE kept[r][f]
BY DEF Inv, TypeOK, Forget

LEMMA PatchKeeps ==
  ASSUME Inv, NEW c \in Calls, NEW fs \in SUBSET Fields, NEW ends \in BOOLEAN, Patch(c, fs, ends)
  PROVE  Inv'
<1>0. PICK pc \in {"apply", "read"} :
        pc = FirstStep("apply", "read", "read") /\ (pc = "apply") = (mode = "memory")
  BY DEF FirstStep
<1> DEFINE new == [Idle EXCEPT !.op = "patch", !.fields = fs, !.ends = ends, !.pc = pc]
<1>1. Start(c, new) /\ kept' = Forget(fs) /\ leads' = leads  BY <1>0 DEF Patch
<1>3. new \in Call  BY <1>0, IdleTyped DEF Call, Pc
<1>4. new.op = "patch" /\ new.fields = fs /\ new.pc = pc  BY IdleTyped DEF Call
<1> HIDE DEF new
<1>5. Placed(new)  BY <1>0, <1>4 DEF Placed, Holding
<1>6. /\ kept' \in [Runs -> [Fields -> Calls \cup {NoCall}]]
      /\ \A q \in Runs, f \in Fields : kept'[q][f] \in {kept[q][f], NoCall}
      /\ \A q \in Runs, f \in new.fields : kept'[q][f] = NoCall
  BY <1>1, <1>4, ForgetTyped
<1>7. new.pc \in {"apply", "read"} /\ new.op # "accept"
  BY <1>0, <1>4
<1> QED  BY <1>1, <1>3, <1>5, <1>6, <1>7, StartKeeps

LEMMA PatchByIdKeeps ==
  ASSUME Inv, NEW c \in Calls, NEW r \in Runs, NEW fs \in SUBSET Fields, NEW ends \in BOOLEAN,
         PatchById(c, r, fs, ends)
  PROVE  Inv'
<1>0. PICK pc \in {"apply", "read"} :
        pc = FirstStep("apply", "read", "read") /\ (pc = "apply") = (mode = "memory")
  BY DEF FirstStep
<1> DEFINE new == [Idle EXCEPT !.op = "patchById", !.run = r, !.fields = fs, !.ends = ends, !.pc = pc]
<1>1. Start(c, new) /\ kept' = Forget(fs) /\ leads' = leads  BY <1>0 DEF PatchById
<1>3. new \in Call  BY <1>0, IdleTyped DEF Call, Pc
<1>4. new.op = "patchById" /\ new.fields = fs /\ new.pc = pc /\ new.run = r
  BY IdleTyped DEF Call
<1> HIDE DEF new
<1>5. Placed(new)  BY <1>0, <1>4 DEF Placed, Holding
<1>6. /\ kept' \in [Runs -> [Fields -> Calls \cup {NoCall}]]
      /\ \A q \in Runs, f \in Fields : kept'[q][f] \in {kept[q][f], NoCall}
      /\ \A q \in Runs, f \in new.fields : kept'[q][f] = NoCall
  BY <1>1, <1>4, ForgetTyped
<1>7. new.pc \in {"apply", "read"} /\ new.op # "accept"
  BY <1>0, <1>4
<1> QED  BY <1>1, <1>3, <1>5, <1>6, <1>7, StartKeeps

LEMMA AcceptKeeps == ASSUME Inv, NEW c \in Calls, NEW r \in Runs, Accept(c, r) PROVE Inv'
<1>2. PICK pc \in {"apply", "cancel", "open"} :
        /\ pc = FirstStep("apply", "cancel", "open")
        /\ (pc = "apply") = (mode = "memory") /\ (pc = "cancel") = (mode = "supabase")
  BY DEF FirstStep
<1> DEFINE new == [Idle EXCEPT !.op = "accept", !.run = r, !.pc = pc, !.todo = BothFiles]
<1>1. Start(c, new) /\ leads' = NoRun /\ byId[r].is = "absent"  BY <1>2 DEF Accept
<1>3. pc = "open" => mode = "file"
  BY <1>2, RunStoreAssumption DEF Inv, TypeOK, FirstStep
<1>4. new \in Call  BY <1>2, IdleTyped DEF Call, Pc, Todo, BothFiles
<1>5. /\ new.op = "accept" /\ new.fields = {} /\ new.pc = pc /\ new.run = r
      /\ new.row = Accepted /\ new.todo = BothFiles
  BY IdleTyped DEF Call, Idle
<1> HIDE DEF new
<1>6. Placed(new)  BY <1>2, <1>3, <1>5 DEF Placed, Holding
<1>7. kept' = IF mode = "supabase" THEN Forget({"status"}) ELSE kept  BY DEF Accept
<1>8. /\ kept' \in [Runs -> [Fields -> Calls \cup {NoCall}]]
      /\ \A q \in Runs, f \in Fields : kept'[q][f] \in {kept[q][f], NoCall}
      /\ new.pc = "cancel" => \A q \in Runs : kept'[q]["status"] = NoCall
  BY <1>2, <1>5, <1>7, ForgetTyped, Distinct DEF Inv, TypeOK
<1>9. \A f \in Fields : kept'[r][f] = NoCall  BY <1>1, <1>8 DEF Inv, Store
<1>10. /\ new.pc \in {"apply", "cancel", "read", "open"}
       /\ new.pc = "open" => new.op = "accept" /\ new.todo = BothFiles
  BY <1>2, <1>5
<1>11. \A q \in Runs, f \in new.fields : kept'[q][f] = NoCall  BY <1>5
<1>12. new.op = "accept" => leads' = NoRun /\ \A f \in Fields : kept'[new.run][f] = NoCall
  BY <1>1, <1>5, <1>9
<1>13. leads' \in {leads, NoRun}  BY <1>1
<1> QED  BY <1>1, <1>4, <1>6, <1>8, <1>10, <1>11, <1>12, <1>13, StartKeeps

-----------------------------------------------------------------------------
(* What a step does to the copies. *)

\* Copies b of the runs and t of the thread that a step may leave: they keep
\* every promise, and no file is gone that was there.
Fits(b, t) ==
  /\ b \in [Runs -> Copy] /\ t \in Copy
  /\ \A q \in Runs : b[q].is = "row" => b[q].id = q /\ Agrees(b[q].row, q)
  /\ \A q \in Runs : byId[q].is # "absent" => b[q].is # "absent"
  /\ t.is = "row" => t.id \in Runs /\ Agrees(t.row, t.id) /\ b[t.id].is # "absent"
  /\ mode = "supabase" => t.is = "absent"
  /\ mode = "memory" => t.is = "row"

\* The run promised to lead does so with the thread's copy t and the run l
\* that was inserted last.
Led(t, l) ==
  leads # NoRun => IF mode = "supabase" THEN l = leads ELSE t.is = "row" => t.id = leads

LEMMA FitsNow == Inv => Fits(byId, thread) /\ Led(thread, latest)
BY DEF Inv, TypeOK, Store, Fits, Led, QuietRunLeads

LEMMA FitsWritten ==
  ASSUME Inv, NEW r \in Runs, NEW copy \in Copy, copy.is # "absent",
         copy.is = "row" => copy.id = r /\ Agrees(copy.row, r)
  PROVE  /\ Fits([byId EXCEPT ![r] = copy], thread)
         /\ mode = "file" /\ byId[r].is # "absent" => Fits(byId, copy)
         /\ mode = "memory" /\ copy.is = "row" => Fits([byId EXCEPT ![r] = copy], copy)
<1>1. Fits(byId, thread) /\ byId \in [Runs -> Copy]  BY FitsNow DEF Fits
<1> DEFINE b == [byId EXCEPT ![r] = copy]
<1>2. b \in [Runs -> Copy] /\ b[r] = copy /\ \A q \in Runs : q # r => b[q] = byId[q]
  BY <1>1
<1> HIDE DEF b
<1>3. \A q \in Runs : /\ b[q].is = "row" => b[q].id = q /\ Agrees(b[q].row, q)
                      /\ byId[q].is # "absent" => b[q].is # "absent"
  BY <1>1, <1>2 DEF Fits
<1>4. Fits(b, thread)  BY <1>1, <1>2, <1>3 DEF Fits
<1>5. mode = "file" /\ byId[r].is # "absent" => Fits(byId, copy)  BY <1>1 DEF Fits
<1>6. mode = "memory" /\ copy.is = "row" => Fits(b, copy)  BY <1>1, <1>2, <1>3 DEF Fits
<1> QED  BY <1>4, <1>5, <1>6 DEF b

\* A step after which the call goes on, or has been refused.
LEMMA MoveKeeps ==
  ASSUME Inv, NEW c \in UnderWay, NEW x \in Call, x.alone = call[c].alone,
         call' = [call EXCEPT ![c] = x], UNCHANGED <<mode, crashes, history>>,
         Fits(byId', thread'), latest' \in Runs, Led(thread', latest'), CallInv(c)'
  PROVE  Inv'
<1>1. UNCHANGED <<kept, leads, newest, mixed, struck>>  BY DEF history
<1>2. \A r \in Runs : byId[r].is # "absent" => byId'[r].is # "absent"  BY DEF Fits
<1>3. call' \in [Calls -> Call] /\ Alone' /\ \A k \in Calls : k # c => CallInv(k)'
  BY <1>1, <1>2, OthersKeep
<1>4. TypeOK'  BY <1>1, <1>3 DEF Inv, TypeOK, Fits
<1>5. Store'  BY <1>1, <1>2 DEF Inv, Store, Fits, Agrees
<1>6. QuietRunLeads'  BY <1>1 DEF Led, QuietRunLeads
<1>7. \A k \in Calls : CallInv(k)'  BY <1>3
<1> QED  BY <1>3, <1>4, <1>5, <1>6, <1>7 DEF Inv

LEMMA RefuseKeeps ==
  ASSUME Inv, NEW c \in UnderWay, Refuse(c), Fits(byId', thread'), latest' \in Runs,
         Led(thread', latest')
  PROVE  Inv'
<1> DEFINE x == [call[c] EXCEPT !.pc = "refused"]
<1>1. call \in [Calls -> Call] /\ c \in Calls  BY DEF Inv, TypeOK, UnderWay
<1>2. x \in Call /\ x.alone = call[c].alone /\ x.pc = "refused"
  BY <1>1 DEF Call, Pc, Ended
<1>3. call' = [call EXCEPT ![c] = x] /\ UNCHANGED <<mode, crashes, history>>  BY DEF Refuse
<1> HIDE DEF x
<1>4. CallInv(c)'  BY <1>1, <1>2, <1>3 DEF CallInv, Ended
<1> QED  BY <1>2, <1>3, <1>4, MoveKeeps

LEMMA PromiseFacts ==
  ASSUME Inv, NEW c \in Calls, NEW r \in Runs, Promise(c, r)
  PROVE  /\ kept' \in [Runs -> [Fields -> Calls \cup {NoCall}]]
         /\ \A q \in Runs, f \in Fields :
              kept'[q][f] = IF call[c].alone /\ call[c].op # "accept" /\ q = r /\ f \in call[c].fields
                            THEN c ELSE kept[q][f]
         /\ leads' = IF call[c].alone /\ call[c].op = "accept" THEN r ELSE leads
         /\ newest' \in Runs
         /\ call[c].alone \/ UNCHANGED <<kept, leads>>
BY DEF Inv, TypeOK, Promise

\* A step with which a call returns row r.  If the call was alone, what it has
\* written is in the copies, and the run that it accepted leads.
LEMMA ReturnKeeps ==
  ASSUME Inv, NEW c \in UnderWay, NEW r \in Runs, Return(c, r),
         Fits(byId', thread'), latest' \in Runs, Led(thread', latest'), byId'[r].is # "absent",
         call[c].alone /\ call[c].op # "accept" =>
           /\ byId'[r].is = "row" => \A f \in call[c].fields : byId'[r].row[f] = c
           /\ thread'.is = "row" /\ thread'.id = r => \A f \in call[c].fields : thread'.row[f] = c,
         call[c].alone /\ call[c].op = "accept" =>
           IF mode = "supabase" THEN latest' = r ELSE thread'.is = "row" => thread'.id = r
  PROVE  Inv'
<1> DEFINE x == [call[c] EXCEPT !.pc = "returned"]
<1>1. call \in [Calls -> Call] /\ c \in Calls  BY DEF Inv, TypeOK, UnderWay
<1>2. x \in Call /\ x.alone = call[c].alone /\ x.pc = "returned"
  BY <1>1 DEF Call, Pc, Ended
<1>3. call' = [call EXCEPT ![c] = x] /\ UNCHANGED <<mode, crashes, mixed, struck>>  BY DEF Return
<1> HIDE DEF x
<1>4. /\ kept' \in [Runs -> [Fields -> Calls \cup {NoCall}]]
      /\ \A q \in Runs, f \in Fields :
           kept'[q][f] = IF call[c].alone /\ call[c].op # "accept" /\ q = r /\ f \in call[c].fields
                         THEN c ELSE kept[q][f]
      /\ leads' = IF call[c].alone /\ call[c].op = "accept" THEN r ELSE leads
      /\ newest' \in Runs /\ (call[c].alone \/ UNCHANGED <<kept, leads>>)
  BY <1>1, PromiseFacts DEF Return
<1>5. \A q \in Runs : byId[q].is # "absent" => byId'[q].is # "absent"  BY DEF Fits
<1>6. /\ call' \in [Calls -> Call] /\ call'[c] = x /\ Alone'
      /\ \A k \in Calls : k # c => CallInv(k)'
  BY <1>2, <1>3, <1>4, <1>5, OthersKeep
<1>7. CallInv(c)'  BY <1>2, <1>6 DEF CallInv, Ended
<1>8. TypeOK'
  BY <1>3, <1>4, <1>6 DEF Inv, TypeOK, Fits
<1>9. QuietRunLeads'  BY <1>3, <1>4 DEF Led, QuietRunLeads
<1>10. Store'
  <2>1. \A q \in Runs : byId'[q].is = "row" => Agrees(byId[q].row, q)'
    BY <1>4 DEF Fits, Agrees
  <2>2. \A q \in Runs : thread'.is = "row" /\ thread'.id = q => Agrees(thread.row, q)'
    BY <1>4 DEF Fits, Agrees
  <2>3. \A q \in Runs, f \in Fields : kept'[q][f] # NoCall => byId'[q].is # "absent"
    BY <1>4, <1>5 DEF Inv, Store
  <2> QED  BY <1>3, <2>1, <2>2, <2>3 DEF Store, Fits
<1> QED  BY <1>6, <1>7, <1>8, <1>9, <1>10 DEF Inv

-----------------------------------------------------------------------------
(* Memory. *)

LEMMA CallFacts ==
  ASSUME Inv, NEW c \in UnderWay
  PROVE  /\ c \in Calls /\ call \in [Calls -> Call] /\ call[c] \in Call /\ call[c].pc \notin Ended
         /\ Placed(call[c]) /\ Faithful(c) /\ Begun(call[c]) /\ Wrote(c) /\ Follows(call[c])
BY DEF Inv, TypeOK, UnderWay, CallInv

LEMMA MergeAgrees ==
  ASSUME Inv, NEW c \in UnderWay, NEW row \in Row, NEW r \in Runs, Agrees(row, r)
  PROVE  /\ Merge(row, c) \in Row /\ Agrees(Merge(row, c), r)
         /\ \A f \in call[c].fields : Merge(row, c)[f] = c
<1>1. Faithful(c) /\ c \in Calls /\ call[c].fields \subseteq Fields  BY CallFacts DEF Call
<1>2. \A f \in Fields : Merge(row, c)[f] = IF f \in call[c].fields THEN c ELSE row[f]
  BY <1>1, RowTyped
<1>3. \A f \in call[c].fields : kept[r][f] = NoCall  BY <1>1 DEF Faithful
<1>4. Agrees(Merge(row, c), r)  BY <1>2, <1>3 DEF Agrees
<1> QED  BY <1>1, <1>2, <1>4, RowTyped

\* A new run's row breaks no promise, since there is none of it.
LEMMA AcceptedAgrees ==
  ASSUME Inv, NEW c \in UnderWay, call[c].op = "accept"
  PROVE  call[c].run \in Runs /\ Agrees(Accepted, call[c].run) /\ leads = NoRun
BY CallFacts DEF Placed, Faithful, Follows, Agrees

LEMMA ApplyKeeps == ASSUME Inv, NEW c \in Calls, Apply(c) PROVE Inv'
<1> DEFINE k   == call[c]
           src == IF k.op = "patch" THEN thread ELSE byId[k.run]
           new == IF k.op = "accept" THEN Of(k.run, Accepted) ELSE Of(src.id, Merge(src.row, c))
<1>1. c \in UnderWay /\ k.pc = "apply"  BY DEF Apply, UnderWay, Ended
<1>2. mode = "memory" /\ Placed(k) /\ Follows(k)  BY <1>1, CallFacts DEF Placed
<1>3. CASE k.op # "accept" /\ src.is # "row"
  <2>1. Refuse(c) /\ UNCHANGED files  BY <1>3 DEF Apply
  <2>2. Fits(byId', thread') /\ latest' \in Runs /\ Led(thread', latest')
    BY <2>1, FitsNow DEF files, Inv, TypeOK
  <2> QED  BY <1>1, <2>1, <2>2, RefuseKeeps
<1>4. CASE ~(k.op # "accept" /\ src.is # "row")
  <2>1. /\ byId' = [byId EXCEPT ![new.id] = new]
        /\ thread' = IF k.op = "patchById" /\ thread.id # k.run THEN thread ELSE new
        /\ latest' = latest /\ Return(c, new.id)
    BY <1>4 DEF Apply
  <2>2. /\ new \in Copy /\ new.is = "row" /\ new.id \in Runs /\ Agrees(new.row, new.id)
        /\ k.op # "accept" => new.id = src.id /\ \A f \in k.fields : new.row[f] = c
    <3>1. CASE k.op = "accept"
      BY <1>1, <3>1, AcceptedAgrees, CopyTyped, RowTyped
    <3>2. CASE k.op # "accept"
      <4>1. src \in Copy /\ src.is = "row" /\ src.id \in Runs /\ Agrees(src.row, src.id)
        BY <1>2, <1>4, <3>2, FitsNow, CallFacts, <1>1 DEF Fits, Placed, Call
      <4>2. src.row \in Row  BY <4>1 DEF Copy
      <4> QED  BY <1>1, <3>2, <4>1, <4>2, MergeAgrees, CopyTyped
    <3> QED  BY <3>1, <3>2
  <2> HIDE DEF new
  <2>3. byId \in [Runs -> Copy] /\ byId'[new.id] = new
    BY <2>1, <2>2, FitsNow DEF Fits
  <2>4. Fits(byId', thread')
    BY <1>2, <2>1, <2>2, FitsWritten
  <2>5. latest' \in Runs  BY <2>1 DEF Inv, TypeOK
  <2>6. k.op # "accept" /\ thread' # thread => new.id = thread.id
    BY <1>2, <1>4, <2>1, <2>2, FitsNow, CallFacts, <1>1 DEF Fits, Placed, Call
  <2>7. k.op = "accept" => leads = NoRun  BY <1>1, AcceptedAgrees
  <2>8. thread.is = "row"  BY <1>2 DEF Inv, Store
  <2>9. Led(thread', latest')
    <3>1. latest' = latest /\ Led(thread, latest) /\ mode # "supabase"  BY <1>2, <2>1, FitsNow
    <3>2. CASE thread' = thread  BY <3>1, <3>2 DEF Led
    <3>3. CASE thread' = new /\ thread' # thread  BY <2>6, <2>7, <2>8, <3>1, <3>3 DEF Led
    <3> QED  BY <2>1, <3>2, <3>3
  <2>10. k.op # "accept" /\ thread'.id = new.id =>
           (thread'.is = "row" => \A f \in k.fields : thread'.row[f] = c)
    <3>1. CASE thread' = new  BY <2>2, <3>1
    <3>2. CASE k.op = "patchById" /\ thread.id # k.run /\ thread' = thread
      <4>1. src.id = k.run
        BY <1>1, <1>4, <3>2, FitsNow, CallFacts DEF Fits, Placed, Call
      <4> QED  BY <2>2, <3>2, <4>1
    <3> QED  BY <2>1, <3>1, <3>2
  <2>11. k.op = "accept" => thread' = new /\ mode # "supabase"  BY <1>2, <2>1
  <2> QED  BY <1>1, <2>1, <2>2, <2>3, <2>4, <2>5, <2>9, <2>10, <2>11, ReturnKeeps
<1> QED  BY <1>3, <1>4

-----------------------------------------------------------------------------
(* Supabase. *)

LEMMA CancelKeeps == ASSUME Inv, NEW c \in Calls, Cancel(c) PROVE Inv'
<1> DEFINE x == [call[c] EXCEPT !.pc = "insert"]
<1>1. c \in UnderWay /\ call[c].pc = "cancel"  BY DEF Cancel, UnderWay, Ended
<1>2. /\ call[c] \in Call /\ call \in [Calls -> Call] /\ mode = "supabase" /\ call[c].op = "accept"
      /\ Placed(call[c]) /\ Faithful(c) /\ Follows(call[c])
  BY <1>1, CallFacts DEF Placed
<1>3. /\ x \in Call /\ x.pc = "insert" /\ x.alone = call[c].alone /\ x.op = call[c].op
      /\ x.run = call[c].run /\ x.fields = call[c].fields /\ x.row = call[c].row
  BY <1>2 DEF Call, Pc
<1>4. call' = [call EXCEPT ![c] = x] /\ UNCHANGED <<mode, crashes, history, thread, latest>>
  BY DEF Cancel, Goto
<1> HIDE DEF x
<1>5. call'[c] = x  BY <1>2, <1>4
<1>6. CallInv(c)'
  <2>1. Placed(call[c])'  BY <1>2, <1>3, <1>4, <1>5 DEF Placed, Holding
  <2>2. Faithful(c)'  BY <1>2, <1>3, <1>4, <1>5 DEF Faithful, Holding, history
  <2>3. Begun(call[c])' /\ Wrote(c)' /\ Follows(call[c])'
    BY <1>2, <1>3, <1>4, <1>5 DEF Begun, Wrote, Follows, history
  <2> QED  BY <2>1, <2>2, <2>3 DEF CallInv
<1>7. Fits(byId', thread')
  <2> DEFINE canceled(q) == [byId[q] EXCEPT !.row["status"] = "canceled"]
  <2>1. \A q \in Runs : kept[q]["status"] = NoCall  BY <1>1, <1>2 DEF Faithful
  <2>2. ASSUME NEW q \in Runs, byId[q].is = "row"
        PROVE  /\ canceled(q) \in Copy /\ canceled(q).is = "row" /\ canceled(q).id = q
               /\ Agrees(canceled(q).row, q)
    <3>1. byId[q] \in Copy /\ byId[q].id = q /\ Agrees(byId[q].row, q)
      BY <2>2, FitsNow DEF Fits
    <3>2. /\ canceled(q).is = "row" /\ canceled(q).id = q
          /\ canceled(q).row = [byId[q].row EXCEPT !["status"] = "canceled"]
          /\ canceled(q) \in Copy
      BY <2>2, <3>1, Distinct DEF Copy, Row, Value
    <3>3. \A f \in Fields : f # "status" => canceled(q).row[f] = byId[q].row[f]
      BY <3>1, <3>2 DEF Copy, Row
    <3>4. Agrees(canceled(q).row, q)  BY <2>1, <3>1, <3>3 DEF Agrees
    <3> QED  BY <3>2, <3>4
  <2>3. \A q \in Runs : byId'[q] = byId[q] \/ (byId[q].is = "row" /\ byId'[q] = canceled(q))
    BY DEF Cancel
  <2>4. byId' = [q \in Runs |-> byId'[q]]  BY DEF Cancel
  <2> HIDE DEF canceled
  <2>5. Fits(byId, thread) /\ thread' = thread  BY <1>4, FitsNow
  <2>6. \A q \in Runs : byId'[q] \in Copy  BY <2>2, <2>3, <2>5 DEF Fits
  <2>7. byId' \in [Runs -> Copy]  BY <2>4, <2>6
  <2>8. \A q \in Runs : /\ byId'[q].is = "row" => byId'[q].id = q /\ Agrees(byId'[q].row, q)
                        /\ byId[q].is # "absent" => byId'[q].is # "absent"
    BY <2>2, <2>3, <2>5 DEF Fits
  <2> QED  BY <1>2, <2>5, <2>7, <2>8 DEF Fits
<1>8. latest' \in Runs /\ Led(thread', latest')  BY <1>4, FitsNow DEF Inv, TypeOK
<1> QED  BY <1>1, <1>3, <1>4, <1>6, <1>7, <1>8, MoveKeeps

LEMMA InsertKeeps == ASSUME Inv, NEW c \in Calls, Insert(c) PROVE Inv'
<1> DEFINE r == call[c].run
<1>1. c \in UnderWay /\ call[c].pc = "insert"  BY DEF Insert, UnderWay, Ended
<1>2. mode = "supabase" /\ call[c].op = "accept"  BY <1>1, CallFacts DEF Placed
<1>3. r \in Runs /\ Agrees(Accepted, r) /\ leads = NoRun  BY <1>1, <1>2, AcceptedAgrees
<1>4. CASE Refuse(c) /\ UNCHANGED files
  <2>1. Fits(byId', thread') /\ latest' \in Runs /\ Led(thread', latest')
    BY <1>4, FitsNow DEF files, Inv, TypeOK
  <2> QED  BY <1>1, <1>4, <2>1, RefuseKeeps
<1>5. CASE /\ byId' = [byId EXCEPT ![r] = Of(r, Accepted)] /\ latest' = r
           /\ UNCHANGED thread /\ Return(c, r)
  <2>1. Fits(byId', thread')
    <3> DEFINE copy == Of(r, Accepted)
    <3>1. copy \in Copy /\ copy.is = "row" /\ copy.id = r /\ Agrees(copy.row, r)
      BY <1>3, CopyTyped, RowTyped
    <3>2. byId' = [byId EXCEPT ![r] = copy] /\ thread' = thread  BY <1>5
    <3> HIDE DEF copy, r
    <3> QED  BY <1>3, <3>1, <3>2, FitsWritten
  <2>2. Led(thread', latest')  BY <1>3 DEF Led
  <2>3. byId'[r].is # "absent"  BY <1>3, <1>5, CopyTyped, RowTyped, FitsNow DEF Fits
  <2> QED  BY <1>1, <1>2, <1>3, <1>5, <2>1, <2>2, <2>3, ReturnKeeps
<1> QED  BY <1>4, <1>5 DEF Insert

LEMMA SelectKeeps == ASSUME Inv, NEW c \in Calls, Select(c) PROVE Inv'
<1>1. PICK r \in Runs : r = IF call[c].op = "patch" THEN latest ELSE call[c].run
  <2>1. c \in UnderWay /\ call[c].pc = "read"  BY DEF Select, UnderWay, Ended
  <2>2. Placed(call[c]) /\ latest \in Runs  BY <2>1, CallFacts DEF Inv, TypeOK
  <2> QED  BY <2>1, <2>2 DEF Placed
<1> DEFINE x == [call[c] EXCEPT !.pc = "update", !.run = r, !.row = Merge(byId[r].row, c)]
<1>2. c \in UnderWay /\ call[c].pc = "read" /\ mode = "supabase" /\ UNCHANGED files
  BY DEF Select, UnderWay, Ended
<1>3. /\ call[c] \in Call /\ call \in [Calls -> Call] /\ call[c].op \in {"patch", "patchById"}
      /\ Placed(call[c]) /\ Faithful(c) /\ Follows(call[c])
  BY <1>2, CallFacts DEF Placed
<1>4. Fits(byId', thread') /\ latest' \in Runs /\ Led(thread', latest')
  BY <1>2, FitsNow DEF files, Inv, TypeOK
<1>5. CASE Refuse(c)  BY <1>2, <1>4, <1>5, RefuseKeeps
<1>6. CASE /\ byId[r].is = "row" /\ call' = [call EXCEPT ![c] = x]
           /\ UNCHANGED <<mode, crashes, history>>
  <2>1. byId[r] \in Copy /\ Agrees(byId[r].row, r)  BY <1>6, FitsNow DEF Fits
  <2>2. byId[r].row \in Row  BY <2>1 DEF Copy
  <2>3. /\ Merge(byId[r].row, c) \in Row /\ Agrees(Merge(byId[r].row, c), r)
        /\ \A f \in call[c].fields : Merge(byId[r].row, c)[f] = c
    BY <1>2, <2>1, <2>2, MergeAgrees
  <2>4. /\ x \in Call /\ x.pc = "update" /\ x.alone = call[c].alone /\ x.op = call[c].op
        /\ x.run = r /\ x.fields = call[c].fields /\ x.row = Merge(byId[r].row, c)
    BY <1>3, <2>3 DEF Call, Pc
  <2> HIDE DEF x
  <2>5. call'[c] = x  BY <1>3, <1>6
  <2>6. Placed(call[c])'  BY <1>2, <1>3, <1>6, <2>4, <2>5 DEF Placed
  <2>7. Faithful(c)'
    BY <1>3, <1>6, <2>3, <2>4, <2>5 DEF Faithful, Agrees, history
  <2>8. Begun(call[c])' /\ Wrote(c)' /\ Follows(call[c])'
    BY <1>3, <1>6, <2>4, <2>5 DEF Begun, Wrote, Follows, history
  <2>9. CallInv(c)'  BY <2>6, <2>7, <2>8 DEF CallInv
  <2> QED  BY <1>2, <1>4, <1>6, <2>4, <2>9, MoveKeeps
<1> QED  BY <1>1, <1>5, <1>6 DEF Select

LEMMA UpdateKeeps == ASSUME Inv, NEW c \in Calls, Update(c) PROVE Inv'
<1> DEFINE r == call[c].run
<1>1. c \in UnderWay /\ call[c].pc = "update"  BY DEF Update, UnderWay, Ended
<1>2. /\ mode = "supabase" /\ call[c].op \in {"patch", "patchById"} /\ r \in Runs /\ call[c].row \in Row
      /\ Agrees(call[c].row, r) /\ \A f \in call[c].fields : call[c].row[f] = c
  BY <1>1, CallFacts DEF Placed, Faithful, Holding, Call
<1>3. CASE Refuse(c) /\ UNCHANGED files
  <2>1. Fits(byId', thread') /\ latest' \in Runs /\ Led(thread', latest')
    BY <1>3, FitsNow DEF files, Inv, TypeOK
  <2> QED  BY <1>1, <1>3, <2>1, RefuseKeeps
<1>4. CASE /\ byId' = [byId EXCEPT ![r] = Of(r, call[c].row)] /\ UNCHANGED <<thread, latest>>
           /\ (Return(c, r) \/ Refuse(c))
  <2>1. Fits(byId', thread')  BY <1>2, <1>4, CopyTyped, FitsWritten
  <2>2. latest' \in Runs /\ Led(thread', latest')  BY <1>4, FitsNow DEF Inv, TypeOK
  <2>3. byId'[r] = Of(r, call[c].row)  BY <1>2, <1>4, FitsNow DEF Fits
  <2>4. byId'[r].is = "row" /\ byId'[r].row = call[c].row  BY <1>2, <2>3, CopyTyped
  <2>5. thread'.is = "absent"  BY <1>2, <2>1, <1>4, FitsNow DEF Fits
  <2>6. CASE Return(c, r)
    BY <1>1, <1>2, <2>1, <2>2, <2>4, <2>5, <2>6, ReturnKeeps
  <2>7. CASE Refuse(c)  BY <1>1, <2>1, <2>2, <2>7, RefuseKeeps
  <2> QED  BY <1>4, <2>6, <2>7
<1> QED  BY <1>3, <1>4 DEF Update

-----------------------------------------------------------------------------
(* Files. *)

LEMMA Todos ==
  /\ BothFiles \in Todo /\ <<"thread", "byId">> \in Todo /\ <<"byId">> \in Todo /\ <<"thread">> \in Todo
  /\ BothFiles # <<"thread", "byId">> /\ <<"byId">> # <<"thread">>
  /\ \A t \in {<<"byId">>, <<"thread">>} :
       t # BothFiles /\ t # <<"thread", "byId">> /\ Tail(t) = <<>>
  /\ Head(BothFiles) = "byId" /\ Tail(BothFiles) = <<"thread">>
  /\ Head(<<"thread", "byId">>) = "thread" /\ Tail(<<"thread", "byId">>) = <<"byId">>
  /\ Head(<<"byId">>) = "byId" /\ Head(<<"thread">>) = "thread"
  /\ <<"byId">> # <<>> /\ <<"thread">> # <<>>
BY DEF Todo, BothFiles

\* A call that goes on to write, or to look for the thread's file.
LEMMA GoesOn ==
  ASSUME Inv, NEW c \in UnderWay, NEW pc \in {"open", "fill", "look"}, NEW todo \in Todo,
         mode = "file", call[c].pc \in {"open", "fill", "look"},
         call' = [call EXCEPT ![c] = [call[c] EXCEPT !.pc = pc, !.todo = todo]],
         UNCHANGED <<mode, crashes, history>>, latest' \in Runs,
         Fits(byId', thread'), Led(thread', latest'), byId'[call[c].run].is # "absent",
         pc = "look" => call[c].op = "patchById",
         pc # "look" =>
           /\ call[c].op = "accept" => todo \in {BothFiles, <<"thread">>}
           /\ call[c].op = "patch" => todo \in {<<"thread", "byId">>, <<"byId">>}
           /\ call[c].op = "patchById" => todo \in {<<"byId">>, <<"thread">>},
         leads # NoRun /\ pc # "look" /\ (call[c].op = "patch" \/ todo = <<"thread">>) =>
           call[c].run = leads,
         call[c].alone /\ call[c].op = "patch" /\ todo = <<"byId">> =>
           (thread'.is = "row" /\ thread'.id = call[c].run => \A f \in call[c].fields : thread'.row[f] = c),
         call[c].alone /\ call[c].op = "patchById" /\ (pc = "look" \/ todo = <<"thread">>) =>
           (byId'[call[c].run].is = "row" => \A f \in call[c].fields : byId'[call[c].run].row[f] = c)
  PROVE  Inv'
<1> DEFINE x == [call[c] EXCEPT !.pc = pc, !.todo = todo]
<1>1. /\ call[c] \in Call /\ call \in [Calls -> Call] /\ c \in Calls
      /\ Placed(call[c]) /\ Faithful(c) /\ Follows(call[c])
  BY CallFacts
<1>2. /\ x \in Call /\ x.pc = pc /\ x.alone = call[c].alone /\ x.op = call[c].op
      /\ x.run = call[c].run /\ x.fields = call[c].fields /\ x.row = call[c].row /\ x.todo = todo
  BY <1>1 DEF Call, Pc
<1>3. call' = [call EXCEPT ![c] = x]  OBVIOUS
<1> HIDE DEF x
<1>4. call'[c] = x /\ mode' = mode /\ kept' = kept /\ leads' = leads  BY <1>1, <1>3 DEF history
<1>5. Placed(call[c])'  BY <1>1, <1>2, <1>4 DEF Placed, Holding
<1>6. Faithful(c)'  BY <1>1, <1>2, <1>4 DEF Faithful, Holding, Agrees
<1>7. Begun(call[c])'  BY <1>2, <1>4 DEF Begun
<1>8. Wrote(c)'  BY <1>2, <1>4 DEF Wrote
<1>9. Follows(call[c])'  BY <1>1, <1>2, <1>4 DEF Follows
<1>10. CallInv(c)'  BY <1>5, <1>6, <1>7, <1>8, <1>9 DEF CallInv
<1> QED  BY <1>2, <1>3, <1>10, MoveKeeps

\* A file of the call's run is emptied, filled or garbled.
LEMMA SetFileFacts ==
  ASSUME Inv, mode = "file", NEW name \in {"byId", "thread"}, NEW r \in Runs, NEW copy \in Copy,
         copy.is # "absent", copy.is = "row" => copy.id = r /\ Agrees(copy.row, r),
         name = "thread" => byId[r].is # "absent" /\ (leads # NoRun => r = leads),
         SetFile(name, r, copy)
  PROVE  /\ Fits(byId', thread') /\ latest' \in Runs /\ Led(thread', latest')
         /\ byId'[r].is # "absent"
         /\ name = "byId" => byId'[r] = copy /\ thread' = thread
         /\ name = "thread" => byId' = byId /\ thread' = copy
<1>1. Fits(byId, thread) /\ Led(thread, latest) /\ byId \in [Runs -> Copy] /\ latest \in Runs
  BY FitsNow DEF Fits, Inv, TypeOK
<1>2. CASE name = "byId"
  <2>1. byId' = [byId EXCEPT ![r] = copy] /\ thread' = thread /\ latest' = latest
    BY <1>2 DEF SetFile
  <2>2. Fits(byId', thread')  BY <2>1, FitsWritten
  <2> QED  BY <1>1, <1>2, <2>1, <2>2
<1>3. CASE name = "thread"
  <2>1. byId' = byId /\ thread' = copy /\ latest' = latest  BY <1>3 DEF SetFile
  <2>2. Fits(byId', thread')  BY <1>3, <2>1, FitsWritten
  <2>3. Led(thread', latest')  BY <1>3, <2>1 DEF Led
  <2> QED  BY <1>1, <1>3, <2>1, <2>2, <2>3
<1> QED  BY <1>2, <1>3

LEMMA TakeKeeps ==
  ASSUME Inv, NEW c \in UnderWay, NEW copy \in Copy, NEW todo \in Todo, mode = "file",
         UNCHANGED files, Take(c, copy, todo), copy.is = "row", copy.id \in Runs,
         Agrees(copy.row, copy.id), byId[copy.id].is # "absent",
         \/ call[c].op = "patch" /\ todo = <<"thread", "byId">> /\ copy = thread
         \/ call[c].op = "patchById" /\ todo = <<"byId">>
  PROVE  Inv'
<1> DEFINE x == [call[c] EXCEPT !.pc = "open", !.run = copy.id, !.todo = todo,
                                !.row = Merge(copy.row, c)]
<1>1. /\ call[c] \in Call /\ call \in [Calls -> Call] /\ c \in Calls
      /\ Placed(call[c]) /\ Faithful(c) /\ Follows(call[c])
  BY CallFacts
<1>2. copy.row \in Row  BY DEF Copy
<1>3. /\ Merge(copy.row, c) \in Row /\ Agrees(Merge(copy.row, c), copy.id)
      /\ \A f \in call[c].fields : Merge(copy.row, c)[f] = c
  BY <1>2, MergeAgrees
<1>4. /\ x \in Call /\ x.pc = "open" /\ x.alone = call[c].alone /\ x.op = call[c].op
      /\ x.run = copy.id /\ x.fields = call[c].fields /\ x.row = Merge(copy.row, c) /\ x.todo = todo
  BY <1>1, <1>3 DEF Call, Pc
<1>5. call' = [call EXCEPT ![c] = x] /\ UNCHANGED <<mode, crashes, history>>  BY DEF Take
<1> HIDE DEF x
<1>6. /\ call'[c] = x /\ mode' = mode /\ kept' = kept /\ leads' = leads
      /\ byId' = byId /\ thread' = thread /\ latest' = latest
  BY <1>1, <1>5 DEF history, files
<1>7. Placed(call[c])'  BY <1>4, <1>6 DEF Placed
<1>8. Faithful(c)'  BY <1>1, <1>3, <1>4, <1>6 DEF Faithful, Agrees
<1>9. Begun(call[c])' /\ Wrote(c)'  BY <1>4, <1>6, Todos DEF Begun, Wrote
<1>10. Led(thread, latest) /\ Fits(byId, thread) /\ latest \in Runs  BY FitsNow DEF Inv, TypeOK
<1>11. Follows(call[c])'  BY <1>4, <1>6, <1>10, Todos DEF Follows, Led
<1>12. CallInv(c)'  BY <1>7, <1>8, <1>9, <1>11 DEF CallInv
<1> QED  BY <1>4, <1>5, <1>6, <1>10, <1>12, MoveKeeps

LEMMA ReadThreadKeeps == ASSUME Inv, NEW c \in Calls, ReadThread(c) PROVE Inv'
<1>1. /\ c \in UnderWay /\ mode = "file" /\ call[c].op = "patch" /\ UNCHANGED files
      /\ thread.is = "row" \/ Refuse(c)
  BY DEF ReadThread, UnderWay, Ended
<1>2. Fits(byId, thread) /\ Led(thread, latest) /\ latest \in Runs  BY FitsNow DEF Inv, TypeOK
<1>3. CASE thread.is = "row"
  <2>1. PICK copy \in Copy : copy = thread  BY <1>2 DEF Fits
  <2>2. Take(c, copy, <<"thread", "byId">>)  BY <1>3, <2>1 DEF ReadThread
  <2>3. /\ copy.is = "row" /\ copy.id \in Runs /\ Agrees(copy.row, copy.id)
        /\ byId[copy.id].is # "absent"
    BY <1>2, <1>3, <2>1 DEF Fits
  <2> QED  BY <1>1, <2>1, <2>2, <2>3, Todos, TakeKeeps
<1>4. CASE Refuse(c)
  BY <1>1, <1>2, <1>4, RefuseKeeps DEF files
<1> QED  BY <1>1, <1>3, <1>4

LEMMA ReadByIdKeeps == ASSUME Inv, NEW c \in Calls, ReadById(c) PROVE Inv'
<1>1. /\ c \in UnderWay /\ mode = "file" /\ call[c].pc = "read" /\ call[c].op = "patchById"
      /\ UNCHANGED files
  BY DEF ReadById, UnderWay, Ended
<1>2. Fits(byId, thread) /\ Led(thread, latest) /\ latest \in Runs  BY FitsNow DEF Inv, TypeOK
<1>3. /\ call[c] \in Call /\ call \in [Calls -> Call] /\ Placed(call[c]) /\ Faithful(c)
      /\ Follows(call[c]) /\ call[c].run \in Runs
  BY <1>1, CallFacts DEF Placed
<1>4. CASE byId[call[c].run].is = "row"
  <2>1. PICK copy \in Copy : copy = byId[call[c].run]  BY <1>2, <1>3 DEF Fits
  <2>2. Take(c, copy, <<"byId">>)  BY <1>4, <2>1 DEF ReadById
  <2>3. /\ copy.is = "row" /\ copy.id \in Runs /\ Agrees(copy.row, copy.id)
        /\ byId[copy.id].is # "absent"
    BY <1>2, <1>3, <1>4, <2>1 DEF Fits
  <2> QED  BY <1>1, <2>2, <2>3, Todos, TakeKeeps
<1>5. CASE Goto(c, "scan")
  <2> DEFINE x == [call[c] EXCEPT !.pc = "scan"]
  <2>1. /\ x \in Call /\ x.pc = "scan" /\ x.alone = call[c].alone /\ x.op = call[c].op
        /\ x.run = call[c].run /\ x.fields = call[c].fields /\ x.row = call[c].row
    BY <1>3 DEF Call, Pc
  <2>2. call' = [call EXCEPT ![c] = x] /\ UNCHANGED <<mode, crashes, history>>
    BY <1>5 DEF Goto
  <2> HIDE DEF x
  <2>3. /\ call'[c] = x /\ mode' = mode /\ kept' = kept /\ leads' = leads
        /\ byId' = byId /\ thread' = thread /\ latest' = latest
    BY <1>1, <1>3, <2>2 DEF history, files
  <2>4. Placed(call[c])' /\ Faithful(c)'
    BY <1>1, <1>3, <2>1, <2>3 DEF Placed, Holding, Faithful
  <2>5. Begun(call[c])' /\ Wrote(c)' /\ Follows(call[c])'
    BY <1>1, <2>1, <2>3, Todos DEF Begun, Wrote, Follows
  <2> QED  BY <1>1, <1>2, <2>1, <2>2, <2>3, <2>4, <2>5, MoveKeeps DEF CallInv
<1> QED  BY <1>4, <1>5 DEF ReadById

LEMMA ScanKeeps == ASSUME Inv, NEW c \in Calls, Scan(c) PROVE Inv'
<1>1. c \in UnderWay /\ call[c].pc = "scan" /\ UNCHANGED files
  BY DEF Scan, UnderWay, Ended
<1>2. mode = "file" /\ call[c].op = "patchById"  BY <1>1, CallFacts DEF Placed
<1>3. Fits(byId, thread) /\ Led(thread, latest) /\ latest \in Runs  BY FitsNow DEF Inv, TypeOK
<1>4. CASE InThread(call[c].run)
  <2>1. PICK copy \in Copy : copy = thread  BY <1>3 DEF Fits
  <2>2. Take(c, copy, <<"byId">>)  BY <1>4, <2>1 DEF Scan
  <2>3. /\ copy.is = "row" /\ copy.id \in Runs /\ Agrees(copy.row, copy.id)
        /\ byId[copy.id].is # "absent"
    BY <1>3, <1>4, <2>1 DEF Fits, InThread
  <2> QED  BY <1>1, <1>2, <2>2, <2>3, Todos, TakeKeeps
<1>5. CASE ~InThread(call[c].run)
  <2>1. Refuse(c)  BY <1>5 DEF Scan
  <2> QED  BY <1>1, <1>3, <2>1, RefuseKeeps DEF files
<1> QED  BY <1>4, <1>5

\* What a call knows that is about to write the file at the head of todo.
LEMMA WriterFacts ==
  ASSUME Inv, NEW c \in UnderWay, call[c].pc \in {"open", "fill"}
  PROVE  /\ mode = "file" /\ call[c].run \in Runs /\ call[c].todo \in Todo
         /\ Head(call[c].todo) \in {"byId", "thread"}
         /\ call[c].op \in {"accept", "patch", "patchById"}
         /\ call[c].op = "accept" => call[c].todo \in {BothFiles, <<"thread">>}
         /\ call[c].op = "patch" => call[c].todo \in {<<"thread", "byId">>, <<"byId">>}
         /\ call[c].op = "patchById" => call[c].todo \in {<<"byId">>, <<"thread">>}
         /\ Head(call[c].todo) = "thread" =>
              byId[call[c].run].is # "absent" /\ (leads # NoRun => call[c].run = leads)
<1>1. /\ Placed(call[c]) /\ Begun(call[c]) /\ Follows(call[c]) /\ call[c] \in Call
  BY CallFacts
<1>2. /\ call[c].op \in {"accept", "patch", "patchById"} /\ call[c].todo \in Todo
      /\ call[c].op = "accept" => call[c].todo \in {BothFiles, <<"thread">>}
      /\ call[c].op = "patch" => call[c].todo \in {<<"thread", "byId">>, <<"byId">>}
      /\ call[c].op = "patchById" => call[c].todo \in {<<"byId">>, <<"thread">>}
      /\ mode = "file" /\ call[c].run \in Runs
  BY <1>1 DEF Placed, Call, Holding
<1>3. Head(call[c].todo) \in {"byId", "thread"}  BY <1>2, Todos
<1>4. ASSUME Head(call[c].todo) = "thread"
      PROVE  byId[call[c].run].is # "absent" /\ (leads # NoRun => call[c].run = leads)
  <2>1. call[c].todo # BothFiles  BY <1>4, Todos
  <2>2. call[c].todo # <<"byId">>  BY <1>4, Todos
  <2>3. call[c].todo = <<"thread">> \/ call[c].op = "patch"  BY <1>2, <2>1, <2>2
  <2> QED  BY <1>1, <2>1, <2>3 DEF Begun, Follows
<1> QED  BY <1>2, <1>3, <1>4

LEMMA OpenKeeps == ASSUME Inv, NEW c \in Calls, Open(c) PROVE Inv'
<1>1. c \in UnderWay /\ call[c].pc = "open"  BY DEF Open, UnderWay, Ended
<1>2. PICK name \in {"byId", "thread"} : name = Head(call[c].todo)
  BY <1>1, WriterFacts
<1>3. PICK r \in Runs : r = call[c].run  BY <1>1, WriterFacts
<1>4. PICK todo \in Todo : todo = call[c].todo  BY <1>1, WriterFacts
<1>5. SetFile(name, r, Unreadable("empty")) /\ Goto(c, "fill")
  BY <1>2, <1>3 DEF Open
<1>6. Unreadable("empty") \in Copy /\ Unreadable("empty").is = "empty"  BY CopyTyped
<1>7. /\ mode = "file"
      /\ name = "thread" => byId[r].is # "absent" /\ (leads # NoRun => r = leads)
  BY <1>1, <1>2, <1>3, WriterFacts
<1>8. /\ Fits(byId', thread') /\ latest' \in Runs /\ Led(thread', latest')
      /\ byId'[r].is # "absent"
      /\ name = "byId" => thread' = thread
      /\ name = "thread" => byId' = byId
  BY <1>5, <1>6, <1>7, SetFileFacts
<1>9. /\ call[c] \in Call /\ call \in [Calls -> Call] /\ Wrote(c) /\ Follows(call[c])
  BY <1>1, CallFacts
<1>10. [call[c] EXCEPT !.pc = "fill", !.todo = todo] = [call[c] EXCEPT !.pc = "fill"]
  BY <1>4, <1>9 DEF Call
<1>11. /\ call' = [call EXCEPT ![c] = [call[c] EXCEPT !.pc = "fill", !.todo = todo]]
       /\ UNCHANGED <<mode, crashes, history>>
  BY <1>5, <1>10 DEF Goto
<1>12. /\ call[c].op = "accept" => todo \in {BothFiles, <<"thread">>}
       /\ call[c].op = "patch" => todo \in {<<"thread", "byId">>, <<"byId">>}
       /\ call[c].op = "patchById" => todo \in {<<"byId">>, <<"thread">>}
  BY <1>1, <1>4, WriterFacts
<1>13. leads # NoRun /\ (call[c].op = "patch" \/ todo = <<"thread">>) => call[c].run = leads
  BY <1>1, <1>4, <1>9 DEF Follows
<1>14. call[c].alone /\ call[c].op = "patch" /\ todo = <<"byId">> =>
         (thread'.is = "row" /\ thread'.id = call[c].run => \A f \in call[c].fields : thread'.row[f] = c)
  BY <1>1, <1>2, <1>4, <1>8, <1>9, Todos DEF Wrote
<1>15. call[c].alone /\ call[c].op = "patchById" /\ todo = <<"thread">> =>
         (byId'[call[c].run].is = "row" => \A f \in call[c].fields : byId'[call[c].run].row[f] = c)
  BY <1>1, <1>2, <1>4, <1>8, <1>9, Todos DEF Wrote
<1> QED
  BY <1>1, <1>3, <1>7, <1>8, <1>11, <1>12, <1>13, <1>14, <1>15, GoesOn

LEMMA FillKeeps == ASSUME Inv, NEW c \in Calls, Fill(c) PROVE Inv'
<1>1. c \in UnderWay /\ call[c].pc = "fill"  BY DEF Fill, UnderWay, Ended
<1>2. PICK name \in {"byId", "thread"} : name = Head(call[c].todo)
  BY <1>1, WriterFacts
<1>3. PICK r \in Runs : r = call[c].run  BY <1>1, WriterFacts
<1>4. PICK todo \in Todo : todo = call[c].todo  BY <1>1, WriterFacts
<1>5. /\ mode = "file" /\ call[c].op \in {"accept", "patch", "patchById"}
      /\ call[c].op = "accept" => todo \in {BothFiles, <<"thread">>}
      /\ call[c].op = "patch" => todo \in {<<"thread", "byId">>, <<"byId">>}
      /\ call[c].op = "patchById" => todo \in {<<"byId">>, <<"thread">>}
      /\ name = "thread" => byId[r].is # "absent" /\ (leads # NoRun => r = leads)
  BY <1>1, <1>2, <1>3, <1>4, WriterFacts
<1>6. /\ call[c] \in Call /\ call \in [Calls -> Call]
      /\ Faithful(c) /\ Begun(call[c]) /\ Wrote(c) /\ Follows(call[c])
  BY <1>1, CallFacts
<1>7. /\ call[c].row \in Row /\ Agrees(call[c].row, r)
      /\ \A f \in call[c].fields : call[c].row[f] = c
  BY <1>1, <1>3, <1>6 DEF Faithful, Holding, Call
<1>8. PICK copy \in {Of(r, call[c].row), Unreadable("garbled")} : SetFile(name, r, copy)
  BY <1>2, <1>3 DEF Fill
<1>9. /\ copy \in Copy /\ copy.is # "absent"
      /\ copy.is = "row" => /\ copy.id = r /\ Agrees(copy.row, r)
                            /\ \A f \in call[c].fields : copy.row[f] = c
  BY <1>7, <1>8, CopyTyped
<1>10. /\ Fits(byId', thread') /\ latest' \in Runs /\ Led(thread', latest')
       /\ byId'[r].is # "absent"
       /\ name = "byId" => byId'[r] = copy /\ thread' = thread
       /\ name = "thread" => byId' = byId /\ thread' = copy
  BY <1>5, <1>8, <1>9, SetFileFacts
<1>11. CASE /\ Tail(todo) # <<>>
            /\ call' = [call EXCEPT ![c].pc = "open", ![c].todo = Tail(@)]
            /\ UNCHANGED <<mode, crashes, history>>
  <2>1. PICK rest \in Todo : rest = Tail(todo)  BY <1>5, <1>11, Todos
  <2>2. \/ call[c].op = "accept" /\ name = "byId" /\ rest = <<"thread">>
        \/ call[c].op = "patch" /\ name = "thread" /\ rest = <<"byId">>
    BY <1>2, <1>4, <1>5, <1>11, <2>1, Todos
  <2>3. call' = [call EXCEPT ![c] = [call[c] EXCEPT !.pc = "open", !.todo = rest]]
    BY <1>4, <1>6, <1>11, <2>1 DEF Call
  <2>4. leads # NoRun /\ (call[c].op = "patch" \/ rest = <<"thread">>) => call[c].run = leads
    BY <1>3, <1>5, <1>6, <2>2 DEF Follows
  <2>5. call[c].alone /\ call[c].op = "patch" /\ rest = <<"byId">> =>
          (thread'.is = "row" /\ thread'.id = call[c].run => \A f \in call[c].fields : thread'.row[f] = c)
    BY <1>9, <1>10, <2>2
  <2>6. call[c].op # "patchById" /\ rest # BothFiles  BY <2>2, Todos
  <2> QED
    BY <1>1, <1>3, <1>5, <1>10, <1>11, <2>2, <2>3, <2>4, <2>5, <2>6, GoesOn
<1>12. CASE Tail(todo) = <<>> /\ call[c].op = "patchById" /\ name = "byId" /\ Goto(c, "look")
  <2>1. todo = <<"byId">>  BY <1>2, <1>4, <1>5, <1>12, Todos
  <2>2. [call[c] EXCEPT !.pc = "look", !.todo = todo] = [call[c] EXCEPT !.pc = "look"]
    BY <1>4, <1>6 DEF Call
  <2>3. /\ call' = [call EXCEPT ![c] = [call[c] EXCEPT !.pc = "look", !.todo = todo]]
        /\ UNCHANGED <<mode, crashes, history>>
    BY <1>12, <2>2 DEF Goto
  <2>4. byId'[call[c].run].is = "row" => \A f \in call[c].fields : byId'[call[c].run].row[f] = c
    BY <1>3, <1>9, <1>10, <1>12
  <2> QED
    BY <1>1, <1>3, <1>5, <1>10, <1>12, <2>1, <2>3, <2>4, GoesOn
<1>13. CASE /\ Tail(todo) = <<>> /\ ~(call[c].op = "patchById" /\ name = "byId")
            /\ Return(c, r)
  <2>1. \/ call[c].op = "accept" /\ name = "thread"
        \/ call[c].op = "patch" /\ name = "byId" /\ todo = <<"byId">>
        \/ call[c].op = "patchById" /\ name = "thread" /\ todo = <<"thread">>
    BY <1>2, <1>4, <1>5, <1>13, Todos
  <2>2. call[c].alone /\ call[c].op # "accept" =>
          /\ byId'[r].is = "row" => \A f \in call[c].fields : byId'[r].row[f] = c
          /\ thread'.is = "row" /\ thread'.id = r => \A f \in call[c].fields : thread'.row[f] = c
    <3>1. CASE call[c].op = "patch"
      <4>1. name = "byId" /\ todo = <<"byId">>  BY <2>1, <3>1
      <4>2. byId'[r].is = "row" => \A f \in call[c].fields : byId'[r].row[f] = c
        BY <1>9, <1>10, <4>1
      <4>3. call[c].alone => (thread.is = "row" /\ thread.id = r => \A f \in call[c].fields : thread.row[f] = c)
        BY <1>1, <1>3, <1>4, <1>6, <3>1, <4>1 DEF Wrote
      <4> QED  BY <1>10, <4>1, <4>2, <4>3
    <3>2. CASE call[c].op = "patchById"
      <4>1. name = "thread" /\ todo = <<"thread">>  BY <2>1, <3>2
      <4>2. thread'.is = "row" => \A f \in call[c].fields : thread'.row[f] = c
        BY <1>9, <1>10, <4>1
      <4>3. call[c].alone => (byId[r].is = "row" => \A f \in call[c].fields : byId[r].row[f] = c)
        BY <1>1, <1>3, <1>4, <1>6, <3>2, <4>1 DEF Wrote
      <4> QED  BY <1>10, <4>1, <4>2, <4>3
    <3> QED  BY <2>1, <3>1, <3>2
  <2>3. call[c].op = "accept" => mode # "supabase" /\ (thread'.is = "row" => thread'.id = r)
    BY <1>5, <1>9, <1>10, <2>1
  <2> QED  BY <1>1, <1>10, <1>13, <2>2, <2>3, ReturnKeeps
<1> QED  BY <1>2, <1>3, <1>4, <1>11, <1>12, <1>13 DEF Fill

LEMMA LookKeeps == ASSUME Inv, NEW c \in Calls, Look(c) PROVE Inv'
<1>1. c \in UnderWay /\ call[c].pc = "look" /\ UNCHANGED files
  BY DEF Look, UnderWay, Ended
<1>2. /\ mode = "file" /\ call[c].op = "patchById" /\ call[c].run \in Runs
      /\ call[c] \in Call /\ call \in [Calls -> Call]
      /\ Begun(call[c]) /\ Wrote(c)
  BY <1>1, CallFacts DEF Placed
<1>3. PICK r \in Runs : r = call[c].run  BY <1>2
<1>4. Fits(byId, thread) /\ Led(thread, latest) /\ latest \in Runs  BY FitsNow DEF Inv, TypeOK
<1>5. byId' = byId /\ thread' = thread /\ latest' = latest  BY <1>1 DEF files
<1>6. byId[r].is # "absent"  BY <1>1, <1>2, <1>3, Todos DEF Begun
<1>7. call[c].alone => (byId[r].is = "row" => \A f \in call[c].fields : byId[r].row[f] = c)
  BY <1>1, <1>2, <1>3 DEF Wrote
<1>8. Fits(byId', thread') /\ latest' \in Runs /\ Led(thread', latest')  BY <1>4, <1>5
<1>9. CASE InThread(r)
  <2>1. /\ call' = [call EXCEPT ![c].pc = "open", ![c].todo = <<"thread">>]
        /\ UNCHANGED <<mode, crashes, history>>
    BY <1>3, <1>9 DEF Look
  <2>2. call' = [call EXCEPT ![c] = [call[c] EXCEPT !.pc = "open", !.todo = <<"thread">>]]
    BY <1>2, <2>1
  <2>3. leads # NoRun => call[c].run = leads  BY <1>2, <1>3, <1>4, <1>9 DEF Led, InThread
  <2>4. byId'[call[c].run].is # "absent"  BY <1>3, <1>5, <1>6
  <2>5. call[c].alone =>
          (byId'[call[c].run].is = "row" => \A f \in call[c].fields : byId'[call[c].run].row[f] = c)
    BY <1>3, <1>5, <1>7
  <2>6. <<"thread">> \in Todo /\ <<"thread">> # <<"byId">>  BY Todos
  <2> QED  BY <1>1, <1>2, <1>8, <2>1, <2>2, <2>3, <2>4, <2>5, <2>6, GoesOn
<1>10. CASE ~InThread(r)
  <2>1. Return(c, r)  BY <1>3, <1>10 DEF Look
  <2>2. ~(thread'.is = "row" /\ thread'.id = r)  BY <1>5, <1>10 DEF InThread
  <2> QED  BY <1>1, <1>2, <1>5, <1>6, <1>7, <1>8, <2>1, <2>2, ReturnKeeps
<1> QED  BY <1>9, <1>10

-----------------------------------------------------------------------------
(* Crashes, the initial states and all steps. *)

LEMMA CrashKeeps == ASSUME Inv, Crash PROVE Inv'
<1>1. UNCHANGED <<mode, byId, thread, latest, kept, leads, newest, mixed>>
  BY DEF Crash, files
<1>2. \A c \in Calls : call'[c] = IF c \in UnderWay THEN [call[c] EXCEPT !.pc = "lost"] ELSE call[c]
  BY DEF Crash
<1>3. call' \in [Calls -> Call]
  <2>1. ASSUME NEW c \in Calls  PROVE call[c] \in Call /\ [call[c] EXCEPT !.pc = "lost"] \in Call
    <3>1. call[c] \in Call /\ "lost" \in Pc  BY DEF Inv, TypeOK, Pc, Ended
    <3> QED  BY <3>1 DEF Call
  <2>2. \A c \in Calls : call'[c] \in Call  BY <1>2, <2>1
  <2> QED  BY <2>2 DEF Crash
<1>4. \A c \in Calls : call'[c].pc \in Ended
  BY <1>2 DEF Inv, TypeOK, Call, UnderWay, Ended
<1>5. struck' \in Nat
  <2>1. IsFiniteSet(UnderWay)  BY FS_Subset, RunStoreAssumption DEF UnderWay
  <2>2. Cardinality(UnderWay) \in Nat  BY <2>1, FS_CardinalityType
  <2> QED  BY <2>2 DEF Crash, Inv, TypeOK
<1>6. crashes' \in 0..MaxCrashes  BY RunStoreAssumption DEF Crash, Inv, TypeOK
<1>7. TypeOK'  BY <1>1, <1>3, <1>5, <1>6 DEF Inv, TypeOK
<1>8. Store' /\ QuietRunLeads'
  BY <1>1 DEF Inv, Store, Agrees, QuietRunLeads
<1>9. Alone' /\ \A c \in Calls : CallInv(c)'
  BY <1>4 DEF Alone, UnderWay, CallInv
<1> QED  BY <1>7, <1>8, <1>9 DEF Inv

LEMMA InitGivesInv == Init => Inv
<1> SUFFICES ASSUME Init PROVE Inv  OBVIOUS
<1>1. /\ First \in Runs /\ NoRun \notin Runs /\ Accepted \in Row /\ MaxCrashes \in Nat
  BY RunStoreAssumption, RowTyped
<1>2. /\ byId \in [Runs -> Copy] /\ thread \in Copy
      /\ \A r \in Runs : byId[r] = IF r = First THEN Of(First, Accepted) ELSE Unreadable("absent")
      /\ thread = IF mode = "supabase" THEN Unreadable("absent") ELSE Of(First, Accepted)
  BY <1>1, CopyTyped DEF Init
<1>3. /\ Of(First, Accepted).is = "row" /\ Of(First, Accepted).id = First
      /\ Of(First, Accepted).row = Accepted /\ Unreadable("absent").is = "absent"
  BY <1>1, CopyTyped
<1>4. kept \in [Runs -> [Fields -> Calls \cup {NoCall}]] /\ \A r \in Runs, f \in Fields : kept[r][f] = NoCall
  BY DEF Init
<1>5. call \in [Calls -> Call] /\ \A c \in Calls : call[c].pc \in Ended
  BY IdleTyped DEF Init, Idle, Ended
<1>6. TypeOK
  <2>1. mode \in Modes /\ crashes \in 0..MaxCrashes /\ latest \in Runs  BY <1>1 DEF Init
  <2>2. /\ \A r \in Runs : byId[r].is = "row" => byId[r].id = r
        /\ thread.is = "row" => thread.id \in Runs
    BY <1>1, <1>2, <1>3
  <2>3. leads \in Runs \cup {NoRun} /\ newest \in Runs /\ mixed \in BOOLEAN /\ struck \in Nat
    BY <1>1 DEF Init
  <2> QED  BY <1>2, <1>4, <1>5, <2>1, <2>2, <2>3 DEF TypeOK
<1>7. Store  BY <1>1, <1>2, <1>3, <1>4 DEF Store, Agrees
<1>8. QuietRunLeads  BY <1>2, <1>3 DEF Init, QuietRunLeads
<1>9. Alone /\ \A c \in Calls : CallInv(c)  BY <1>5 DEF Alone, UnderWay, CallInv
<1> QED  BY <1>6, <1>7, <1>8, <1>9 DEF Inv

LEMMA NextKeepsInv == Inv /\ [Next]_vars => Inv'
<1> SUFFICES ASSUME Inv, [Next]_vars PROVE Inv'  OBVIOUS
<1>1. ASSUME NEW c \in Calls, Step(c) PROVE Inv'
  BY <1>1, ApplyKeeps, CancelKeeps, InsertKeeps, SelectKeeps, UpdateKeeps, ReadThreadKeeps,
     ReadByIdKeeps, ScanKeeps, OpenKeeps, FillKeeps, LookKeeps DEF Step
<1>2. ASSUME NEW c \in Calls, NEW r \in Runs, Accept(c, r) PROVE Inv'
  BY <1>2, AcceptKeeps
<1>3. ASSUME NEW c \in Calls, NEW fs \in Patches, NEW ends \in BOOLEAN,
             Patch(c, fs, ends) \/ \E r \in Runs : PatchById(c, r, fs, ends)
      PROVE  Inv'
  <2>1. fs \in SUBSET Fields  BY RunStoreAssumption
  <2> QED  BY <1>3, <2>1, PatchKeeps, PatchByIdKeeps
<1>4. CASE Crash  BY <1>4, CrashKeeps
<1>5. CASE UNCHANGED vars
  <2>1. UNCHANGED <<mode, byId, thread, latest, call, crashes, kept, leads, newest, mixed, struck>>
    BY <1>5 DEF vars, files, history
  <2>2. TypeOK' /\ Store' /\ Alone' /\ QuietRunLeads'
    BY <2>1 DEF Inv, TypeOK, Store, Agrees, Alone, UnderWay, QuietRunLeads
  <2>3. \A c \in Calls : CallInv(c)'
    BY <2>1 DEF Inv, CallInv, Placed, Faithful, Agrees, Begun, Wrote, Follows
  <2> QED  BY <2>2, <2>3 DEF Inv
<1> QED  BY <1>1, <1>2, <1>3, <1>4, <1>5 DEF Next

-----------------------------------------------------------------------------
(* The theorems. *)

\* What the rows, the calls under way and the promises keep of each other, in
\* all three stores, across overlapping calls, failing writes and crashes.
THEOREM StoreInvariant == Spec => []Inv
<1>1. Init => Inv  BY InitGivesInv
<1>2. Inv /\ [Next]_vars => Inv'  BY NextKeepsInv
<1> QED  BY <1>1, <1>2, PTL DEF Spec

\* The variables keep their types (a readable file names the run it is of).
THEOREM Typed == Spec => []TypeOK
<1>1. Inv => TypeOK  BY DEF Inv
<1> QED  BY <1>1, StoreInvariant, PTL

\* A patch that ran alone stays in every readable copy of the run: the later
\* read-merge-write of other columns (patchRun, patchRunById) carries it over,
\* in all three stores, however calls overlap afterwards and wherever the
\* process dies.
THEOREM QuietPatchesStay == Spec => []QuietPatchStays
<1>1. Inv => QuietPatchStays  BY DEF Inv, Store, Agrees, QuietPatchStays
<1> QED  BY <1>1, StoreInvariant, PTL

\* A run accepted alone is the thread's run until the next delegation begins,
\* although patches of older runs go on and write the thread's file as well.
THEOREM QuietRunsLead == Spec => []QuietRunLeads
<1>1. Inv => QuietRunLeads  BY DEF Inv
<1> QED  BY <1>1, StoreInvariant, PTL
-----------------------------------------------------------------------------
(* Calls that do not overlap, and a crash.  As long as no crash has hit a  *)
(* call, the newest run can be read from both files, but for the one a     *)
(* call has just emptied.  Once one crash has, at least one of them can be *)
(* read whenever no call is rewriting them, and no call ends before it has *)
(* made one of them readable again.                                        *)

\* A call that is under way while no two ever were is alone.
Lone == ~mixed => \A c \in UnderWay : call[c].alone

Readable == byId[newest].is = "row" \/ InThread(newest)
InBoth   == byId[newest].is = "row" /\ InThread(newest)

\* Which files a call leaves readable: what it is about to write, and where.
Writes(k)  == k.pc \in {"open", "fill"}
Aims(k) ==
  /\ k.op = "patch" /\ Writes(k) => k.run = newest
  /\ k.op = "patchById" /\ Writes(k) /\ k.todo = <<"thread">> => k.run = newest
  /\ k.op = "accept" => k.run # newest
Unhurt(k) ==
  /\ k.pc # "fill" => InBoth
  /\ k.pc = "fill" /\ Head(k.todo) = "thread" => byId[newest].is = "row"
  /\ k.pc = "fill" /\ Head(k.todo) = "byId" =>
       InThread(newest) /\ (k.run # newest => byId[newest].is = "row")
  /\ k.op = "accept" /\ Writes(k) /\ k.todo = <<"thread">> => byId[k.run].is = "row"
Mends(k) == Writes(k) /\ (k.op = "accept" \/ k.run = newest)

SafeCall(c) ==
  LET k == call[c]
  IN  /\ k.pc = "fill" => File(Head(k.todo), k.run).is = "empty"
      /\ Aims(k)
      /\ struck = 0 => Unhurt(k)
      /\ struck = 1 => Readable \/ Mends(k)

SafeFiles ==
  ~mixed /\ mode = "file" =>
    /\ thread.is = "row" => thread.id = newest
    /\ byId[newest].is # "absent"
    /\ UnderWay = {} => (struck = 0 => InBoth) /\ (struck = 1 => Readable)
    /\ \A c \in UnderWay : SafeCall(c)

\* Rows in memory and in the database are never unreadable.
SafeRows == mode # "file" => byId[newest].is = "row"

SafeInv == Lone /\ SafeRows /\ SafeFiles

-----------------------------------------------------------------------------
\* A step of a call changes that call only, and is no start and no crash.
LEMMA StepShape ==
  ASSUME Inv, NEW c \in Calls, Step(c)
  PROVE  /\ c \in UnderWay /\ UNCHANGED <<mode, mixed, struck>>
         /\ call[c].alone = call'[c].alone /\ call'[c].op = call[c].op
         /\ \A k \in Calls : k # c => call'[k] = call[k]
<1>1. call \in [Calls -> Call] /\ call[c] \in Call BY DEF Inv, TypeOK
<1>2. CASE Apply(c) \/ Cancel(c) \/ Insert(c)
  BY <1>1, <1>2 DEF Apply, Cancel, Insert, Return, Refuse, Goto, history, UnderWay, Ended, Call
<1>3. CASE Select(c) \/ Update(c)
  BY <1>1, <1>3 DEF Select, Update, Return, Refuse, history, UnderWay, Ended, Call
<1>4. CASE ReadThread(c) \/ ReadById(c) \/ Scan(c)
  BY <1>1, <1>4 DEF ReadThread, ReadById, Scan, Take, Refuse, Goto, history, UnderWay,
                    Ended, Call
<1>5. CASE Open(c) \/ Fill(c) \/ Look(c)
  BY <1>1, <1>5 DEF Open, Fill, Look, Return, Goto, history, UnderWay, Ended, Call
<1> QED BY <1>2, <1>3, <1>4, <1>5 DEF Step

LEMMA StartShape ==
  ASSUME Inv, NEW c \in Calls, NEW new \in Call, Start(c, new)
  PROVE  /\ c \notin UnderWay /\ UNCHANGED <<mode, byId, thread, newest, struck>>
         /\ ~mixed' => /\ ~mixed /\ UnderWay = {} /\ UnderWay' \subseteq {c}
                       /\ call'[c] = [new EXCEPT !.alone = TRUE]
<1>1. call \in [Calls -> Call] BY DEF Inv, TypeOK
<1>2. c \notin UnderWay /\ UNCHANGED <<mode, byId, thread, newest, struck>>
  BY DEF Start, files, UnderWay, Ended
<1>3. ASSUME ~mixed'
      PROVE  /\ ~mixed /\ UnderWay = {} /\ UnderWay' \subseteq {c}
             /\ call'[c] = [new EXCEPT !.alone = TRUE]
  <2>1. ~mixed /\ UnderWay = {} BY <1>3 DEF Start
  <2>2. call'[c] = [new EXCEPT !.alone = TRUE] BY <2>1 DEF Start
  <2>3. ASSUME NEW k \in Calls, k # c PROVE k \notin UnderWay'
    <3>1. call'[k] = [call[k] EXCEPT !.alone = FALSE] BY <2>3 DEF Start
    <3>2. call'[k].pc = call[k].pc BY <1>1, <3>1 DEF Call
    <3> QED BY <2>1, <3>2 DEF UnderWay
  <2>4. UnderWay' \subseteq Calls BY DEF UnderWay
  <2> QED BY <2>1, <2>2, <2>3, <2>4
<1> QED BY <1>2, <1>3

\* The starts are Start of a well-typed call.
LEMMA Starts ==
  ASSUME Inv, NEW c \in Calls,
         \/ \E r \in Runs : Accept(c, r)
         \/ \E fs \in Patches, ends \in BOOLEAN :
              Patch(c, fs, ends) \/ \E r \in Runs : PatchById(c, r, fs, ends)
  PROVE  \E new \in Call :
           /\ Start(c, new)
           /\ \/ /\ new.op = "accept" /\ byId[new.run].is = "absent" /\ new.todo = BothFiles
                 /\ mode = "file" => new.pc = "open"
              \/ /\ new.op \in {"patch", "patchById"}
                 /\ mode = "file" => new.pc = "read"
<1>1. ASSUME NEW r \in Runs, Accept(c, r)
      PROVE  \E new \in Call :
               /\ Start(c, new) /\ new.op = "accept" /\ byId[new.run].is = "absent"
               /\ new.todo = BothFiles
               /\ mode = "file" => new.pc = "open"
  <2>1. PICK pc : pc = FirstStep("apply", "cancel", "open") OBVIOUS
  <2>2. pc \in Pc /\ (mode = "file" => pc = "open")
    BY <2>1 DEF FirstStep, Pc
  <2>3. PICK new : new = [Idle EXCEPT !.op = "accept", !.run = r, !.pc = pc, !.todo = BothFiles]
    OBVIOUS
  <2>4. Start(c, new) /\ byId[r].is = "absent" BY <1>1, <2>1, <2>3 DEF Accept
  <2>5. new \in Call /\ new.op = "accept" /\ new.run = r /\ new.pc = pc /\ new.todo = BothFiles
    BY <2>2, <2>3, IdleTyped, Todos DEF Call
  <2> QED BY <2>2, <2>4, <2>5
<1>2. PICK pc : pc = FirstStep("apply", "read", "read") OBVIOUS
<1>3. pc \in Pc /\ (mode = "file" => pc = "read") BY <1>2 DEF FirstStep, Pc
<1>4. ASSUME NEW fs \in Patches, NEW ends \in BOOLEAN, Patch(c, fs, ends)
      PROVE  \E new \in Call : /\ Start(c, new) /\ new.op = "patch"
                               /\ mode = "file" => new.pc = "read"
  <2>1. PICK new : new = [Idle EXCEPT !.op = "patch", !.fields = fs, !.ends = ends, !.pc = pc]
    OBVIOUS
  <2>2. Start(c, new) BY <1>2, <1>4, <2>1 DEF Patch
  <2>3. fs \in SUBSET Fields BY RunStoreAssumption
  <2>4. new \in Call /\ new.op = "patch" /\ new.pc = pc
    BY <1>3, <2>1, <2>3, IdleTyped DEF Call
  <2> QED BY <1>3, <2>2, <2>4
<1>5. ASSUME NEW fs \in Patches, NEW ends \in BOOLEAN, NEW r \in Runs,
             PatchById(c, r, fs, ends)
      PROVE  \E new \in Call : /\ Start(c, new) /\ new.op = "patchById"
                               /\ mode = "file" => new.pc = "read"
  <2>1. PICK new : new = [Idle EXCEPT !.op = "patchById", !.run = r, !.fields = fs,
                                      !.ends = ends, !.pc = pc]
    OBVIOUS
  <2>2. Start(c, new) BY <1>2, <1>5, <2>1 DEF PatchById
  <2>3. fs \in SUBSET Fields BY RunStoreAssumption
  <2>4. new \in Call /\ new.op = "patchById" /\ new.pc = pc
    BY <1>3, <2>1, <2>3, IdleTyped DEF Call
  <2> QED BY <1>3, <2>2, <2>4
<1> QED BY <1>1, <1>4, <1>5

LEMMA LoneStep == Inv /\ Lone /\ [Next]_vars => Lone'
<1> SUFFICES ASSUME Inv, Lone, [Next]_vars PROVE Lone' OBVIOUS
<1>1. ASSUME NEW c \in Calls, Step(c) PROVE Lone'
  <2>1. \A k \in UnderWay' : k \in UnderWay /\ call'[k].alone = call[k].alone
    BY <1>1, StepShape DEF UnderWay
  <2> QED BY <1>1, <2>1, StepShape DEF Lone
<1>2. ASSUME NEW c \in Calls, NEW new \in Call, Start(c, new) PROVE Lone'
  <2>1. [new EXCEPT !.alone = TRUE].alone BY DEF Call
  <2> QED BY <1>2, <2>1, StartShape DEF Lone
<1>3. CASE Crash
  <2>1. UnderWay' = {}
    BY <1>3 DEF Crash, UnderWay, Ended, Inv, TypeOK, Call
  <2> QED BY <2>1 DEF Lone
<1>4. CASE UNCHANGED vars BY <1>4 DEF vars, history, Lone, UnderWay
<1> QED BY <1>1, <1>2, <1>3, <1>4, Starts DEF Next

-----------------------------------------------------------------------------
LEMMA RowsStaySafe == Inv /\ SafeRows /\ [Next]_vars => SafeRows'
<1> SUFFICES ASSUME Inv, SafeRows, [Next]_vars, mode' # "file"
             PROVE  byId'[newest'].is = "row"
  BY DEF SafeRows
<1>1. byId \in [Runs -> Copy] /\ newest \in Runs BY DEF Inv, TypeOK
<1>2. ASSUME NEW c \in Calls, Step(c) PROVE byId'[newest'].is = "row"
  <2>1. c \in UnderWay /\ mode # "file" BY <1>2, StepShape
  <2>2. byId[newest].is = "row" BY <2>1 DEF SafeRows
  <2>3. CASE Apply(c)
    <3>1. CASE UNCHANGED <<byId, newest>> BY <2>2, <3>1
    <3>2. CASE ~UNCHANGED <<byId, newest>>
      <4>a. PICK src : src = IF call[c].op = "patch" THEN thread ELSE byId[call[c].run]
        OBVIOUS
      <4>b. PICK new : new = IF call[c].op = "accept" THEN Of(call[c].run, Accepted)
                             ELSE Of(src.id, Merge(src.row, c))
        OBVIOUS
      <4>1. /\ call[c].op = "accept" \/ src.is = "row"
            /\ byId' = [byId EXCEPT ![new.id] = new] /\ Return(c, new.id)
        BY <2>3, <3>2, <4>a, <4>b DEF Apply, Refuse, history, files
      <4>2. /\ new.is = "row"
            /\ new.id = IF call[c].op = "accept" THEN call[c].run ELSE src.id
        BY <4>b DEF Of
      <4>3. new.id \in Runs
        BY <2>1, <4>a, <4>1, <4>2, CallFacts DEF Placed, Inv, TypeOK, Call
      <4>4. newest' \in {newest, new.id} BY <4>1 DEF Return, Promise
      <4> QED BY <1>1, <2>2, <4>1, <4>2, <4>3, <4>4
    <3> QED BY <3>1, <3>2
  <2>4. CASE Cancel(c)
    <3>1. newest' = newest BY <2>4 DEF Cancel, Goto, history
    <3>2. byId'[newest].is = byId[newest].is BY <1>1, <2>4 DEF Cancel, Copy
    <3> QED BY <2>2, <3>1, <3>2
  <2>5. CASE Insert(c)
    <3>1. PICK r : r = call[c].run OBVIOUS
    <3>2. call[c].op = "accept" /\ r \in Runs
      BY <2>1, <2>5, <3>1, CallFacts DEF Placed, Insert
    <3>3. \/ byId' = [byId EXCEPT ![r] = Of(r, Accepted)] /\ Return(c, r)
          \/ Refuse(c) /\ UNCHANGED files
      BY <2>5, <3>1 DEF Insert
    <3>4. Return(c, r) => newest' = r BY <3>2 DEF Return, Promise
    <3>5. Of(r, Accepted).is = "row" BY DEF Of
    <3> QED BY <1>1, <2>2, <3>2, <3>3, <3>4, <3>5 DEF Refuse, history, files
  <2>6. CASE Select(c) BY <2>2, <2>6 DEF Select, Refuse, history, files
  <2>7. CASE Update(c)
    <3>1. PICK r : r = call[c].run OBVIOUS
    <3>2. call[c].op # "accept" /\ r \in Runs
      BY <2>1, <2>7, <3>1, CallFacts DEF Placed, Holding, Update
    <3>3. newest' = newest BY <2>7, <3>2 DEF Update, Return, Promise, Refuse, history
    <3>4. byId' = byId \/ byId' = [byId EXCEPT ![r] = Of(r, call[c].row)]
      BY <2>7, <3>1 DEF Update, files
    <3>5. Of(r, call[c].row).is = "row" BY DEF Of
    <3> QED BY <1>1, <2>2, <3>2, <3>3, <3>4, <3>5
  <2>8. ~(ReadThread(c) \/ ReadById(c) \/ Scan(c) \/ Open(c) \/ Fill(c) \/ Look(c))
    BY <2>1, CallFacts DEF Placed, ReadThread, ReadById, Scan, Open, Fill, Look
  <2> QED BY <1>2, <2>3, <2>4, <2>5, <2>6, <2>7, <2>8 DEF Step
<1>3. ASSUME NEW c \in Calls, NEW new \in Call, Start(c, new)
      PROVE  byId'[newest'].is = "row"
  BY <1>3, StartShape DEF SafeRows
<1>4. CASE Crash BY <1>4 DEF Crash, files, SafeRows
<1>5. CASE UNCHANGED vars BY <1>5 DEF vars, files, history, SafeRows
<1> QED BY <1>2, <1>3, <1>4, <1>5, Starts DEF Next

-----------------------------------------------------------------------------
(* Files: the one call that is under way. *)

LEMMA OneUnderWay ==
  ASSUME Inv, Lone, ~mixed, NEW c \in UnderWay
  PROVE  UnderWay = {c}
BY DEF Inv, Lone, Alone

\* What is to be shown of a step of the call c.
SafeEnd(c) ==
  /\ thread.is = "row" => thread.id = newest
  /\ byId[newest].is # "absent"
  /\ call[c].pc \in Ended => (struck = 0 => InBoth) /\ (struck = 1 => Readable)
  /\ call[c].pc \notin Ended => SafeCall(c)

LEMMA SafeStep ==
  ASSUME Inv, Lone, ~mixed, NEW c \in Calls, Step(c), SafeEnd(c)'
  PROVE  SafeFiles'
<1>1. UnderWay = {c} BY OneUnderWay, StepShape
<1>2. UnderWay' = IF call'[c].pc \in Ended THEN {} ELSE {c}
  BY <1>1, StepShape DEF UnderWay
<1> QED BY <1>2 DEF SafeFiles, SafeEnd

\* What holds before it.
LEMMA SafeNow ==
  ASSUME Inv, Lone, SafeFiles, ~mixed, mode = "file", NEW c \in Calls, Step(c)
  PROVE  /\ thread.is = "row" => thread.id = newest
         /\ byId[newest].is # "absent" /\ newest \in Runs
         /\ SafeCall(c) /\ c \in UnderWay
         /\ byId \in [Runs -> Copy] /\ call \in [Calls -> Call] /\ call[c] \in Call
         /\ struck' = struck
BY StepShape DEF SafeFiles, Inv, TypeOK

LEMMA OpenSafe ==
  ASSUME Inv, Lone, SafeFiles, ~mixed, NEW c \in Calls, Open(c)
  PROVE  SafeFiles'
<1>1. Step(c) /\ c \in UnderWay BY StepShape DEF Step
<1>a. PICK k : k = call[c] OBVIOUS
<1>b. PICK x : x = call'[c] OBVIOUS
<1>c. PICK name : name = Head(k.todo) OBVIOUS
<1>2. /\ mode = "file" /\ k.run \in Runs /\ name \in {"byId", "thread"}
      /\ k.op \in {"accept", "patch", "patchById"}
      /\ k.op = "patchById" => k.todo \in {<<"byId">>, <<"thread">>}
      /\ k.pc = "open"
  BY <1>1, <1>a, <1>c, WriterFacts DEF Open
<1>3. /\ thread.is = "row" => thread.id = newest
      /\ byId[newest].is # "absent" /\ newest \in Runs /\ SafeCall(c)
      /\ byId \in [Runs -> Copy] /\ call \in [Calls -> Call] /\ k \in Call /\ struck' = struck
  BY <1>1, <1>2, <1>a, SafeNow
<1>4. /\ Aims(k) /\ (struck = 0 => Unhurt(k)) /\ (struck = 1 => Readable \/ Mends(k))
  BY <1>3, <1>a DEF SafeCall
<1>5. PICK none : none = Unreadable("empty") OBVIOUS
<1>6. none.is = "empty" BY <1>5 DEF Unreadable
<1>7. /\ call' = [call EXCEPT ![c] = [k EXCEPT !.pc = "fill"]] /\ newest' = newest
      /\ name = "thread" => byId' = byId /\ thread' = none
      /\ name = "byId" => byId' = [byId EXCEPT ![k.run] = none] /\ thread' = thread
  BY <1>2, <1>5, <1>a, <1>c DEF Open, Goto, SetFile, history
<1>8. /\ x.pc = "fill" /\ x.op = k.op /\ x.run = k.run /\ x.todo = k.todo
  BY <1>3, <1>7, <1>b DEF Call
<1>9. File(name, k.run)'.is = "empty" BY <1>2, <1>3, <1>6, <1>7 DEF File
<1>10. Aims(x)' BY <1>2, <1>4, <1>7, <1>8 DEF Aims, Writes
<1>11. struck = 0 => Unhurt(x)'
  BY <1>2, <1>3, <1>4, <1>7, <1>8, <1>c, Todos DEF Unhurt, InBoth, InThread, Writes
<1>12. struck = 1 => Readable' \/ Mends(x)'
  <2>1. CASE Mends(k) BY <1>7, <1>8, <2>1 DEF Mends, Writes
  <2>2. CASE ~Mends(k)
    <3>1. k.op = "patchById" /\ k.run # newest /\ name = "byId"
      BY <1>2, <1>4, <1>c, <2>2, Todos DEF Mends, Aims, Writes
    <3> QED BY <1>2, <1>3, <1>4, <1>7, <2>2, <3>1 DEF Readable, InThread
  <2> QED BY <2>1, <2>2
<1>13. SafeCall(c)'
  BY <1>3, <1>8, <1>9, <1>10, <1>11, <1>12, <1>b, <1>c DEF SafeCall
<1>14. /\ thread'.is = "row" => thread'.id = newest'
       /\ byId'[newest'].is # "absent"
  BY <1>2, <1>3, <1>6, <1>7
<1>15. x.pc \notin Ended BY <1>8 DEF Ended
<1> QED BY <1>1, <1>13, <1>14, <1>15, <1>b, SafeStep DEF SafeEnd

LEMMA FillSafe ==
  ASSUME Inv, Lone, SafeFiles, ~mixed, NEW c \in Calls, Fill(c)
  PROVE  SafeFiles'
<1>1. Step(c) /\ c \in UnderWay BY StepShape DEF Step
<1>a. PICK k : k = call[c] OBVIOUS
<1>b. PICK x : x = call'[c] OBVIOUS
<1>c. PICK name : name = Head(k.todo) OBVIOUS
<1>2. /\ mode = "file" /\ k.run \in Runs /\ name \in {"byId", "thread"}
      /\ k.op \in {"accept", "patch", "patchById"}
      /\ k.op = "accept" => k.todo \in {BothFiles, <<"thread">>}
      /\ k.op = "patch" => k.todo \in {<<"thread", "byId">>, <<"byId">>}
      /\ k.op = "patchById" => k.todo \in {<<"byId">>, <<"thread">>}
      /\ k.pc = "fill"
  BY <1>1, <1>a, <1>c, WriterFacts DEF Fill
<1>3. /\ thread.is = "row" => thread.id = newest
      /\ byId[newest].is # "absent" /\ newest \in Runs /\ SafeCall(c)
      /\ byId \in [Runs -> Copy] /\ call \in [Calls -> Call] /\ k \in Call /\ struck' = struck
  BY <1>1, <1>2, <1>a, SafeNow
<1>4. /\ File(name, k.run).is = "empty" /\ Aims(k)
      /\ struck = 0 => Unhurt(k)
      /\ struck = 1 => Readable \/ Mends(k)
  BY <1>2, <1>3, <1>a, <1>c DEF SafeCall
<1>5. PICK full : full = Of(k.run, k.row) OBVIOUS
<1>6. full.is = "row" /\ full.id = k.run BY <1>5 DEF Of
<1>7. /\ name = "thread" => byId' = byId /\ thread' = full
      /\ name = "byId" => byId' = [byId EXCEPT ![k.run] = full] /\ thread' = thread
  BY <1>2, <1>4, <1>5, <1>a, <1>c DEF Fill, SetFile
<1>8. /\ k.op = "patch" => k.run = newest
      /\ k.op = "patchById" /\ name = "thread" => k.run = newest
      /\ k.op = "accept" => k.run # newest
  BY <1>2, <1>4, <1>c, Todos DEF Aims, Writes
<1>9. /\ byId'[newest].is # "absent" /\ byId'[k.run].is # "absent"
  <2>1. name = "thread" => byId[k.run].is # "absent" BY <1>1, <1>a, <1>c, <1>2, WriterFacts
  <2> QED BY <1>2, <1>3, <1>6, <1>7, <2>1
<1>10. CASE /\ Tail(k.todo) # <<>> /\ newest' = newest
            /\ call' = [call EXCEPT ![c].pc = "open", ![c].todo = Tail(@)]
  <2>1. \/ k.op = "accept" /\ name = "byId" /\ Tail(k.todo) = <<"thread">>
        \/ k.op = "patch" /\ name = "thread" /\ Tail(k.todo) = <<"byId">>
    BY <1>2, <1>10, <1>c, Todos
  <2>2. /\ x.pc = "open" /\ x.op = k.op /\ x.run = k.run /\ x.todo = Tail(k.todo)
    BY <1>3, <1>10, <1>a, <1>b DEF Call
  <2>3. thread'.is = "row" => thread'.id = newest'
    BY <1>3, <1>6, <1>7, <1>8, <1>10, <2>1
  <2>4. Aims(x)' BY <1>8, <1>10, <2>1, <2>2 DEF Aims, Writes
  <2>5. struck = 0 => Unhurt(x)'
    BY <1>2, <1>3, <1>4, <1>6, <1>7, <1>8, <1>10, <1>c, <2>1, <2>2, Todos
       DEF Unhurt, InBoth, InThread, Writes
  <2>6. Mends(x)' BY <1>8, <1>10, <2>1, <2>2 DEF Mends, Writes
  <2>7. SafeCall(c)' BY <1>3, <1>b, <2>2, <2>4, <2>5, <2>6 DEF SafeCall
  <2>8. x.pc \notin Ended BY <2>2 DEF Ended
  <2> QED BY <1>1, <1>9, <1>10, <1>b, <2>3, <2>7, <2>8, SafeStep DEF SafeEnd
<1>11. CASE k.op = "patchById" /\ name = "byId" /\ Goto(c, "look")
  <2>1. newest' = newest /\ call' = [call EXCEPT ![c] = [k EXCEPT !.pc = "look"]]
    BY <1>11, <1>a DEF Goto, history
  <2>2. x.pc = "look" /\ x.op = k.op BY <1>3, <1>b, <2>1 DEF Call
  <2>3. \A q \in Runs : byId'[q].is = IF q = k.run THEN "row" ELSE byId[q].is
    BY <1>2, <1>3, <1>6, <1>7, <1>11
  <2>4. Aims(x)' BY <1>11, <2>2 DEF Aims, Writes
  <2>5. struck = 0 => Unhurt(x)'
    BY <1>2, <1>3, <1>4, <1>7, <1>11, <1>c, <2>1, <2>2, <2>3
       DEF Unhurt, InBoth, InThread, Writes
  <2>6. struck = 1 => Readable'
    BY <1>2, <1>3, <1>4, <1>7, <1>11, <2>1, <2>3 DEF Mends, Readable, InThread
  <2>7. SafeCall(c)' BY <1>3, <1>b, <2>2, <2>4, <2>5, <2>6 DEF SafeCall
  <2>8. x.pc \notin Ended BY <2>2 DEF Ended
  <2>9. thread'.is = "row" => thread'.id = newest' BY <1>3, <1>7, <1>11, <2>1
  <2> QED BY <1>1, <1>9, <1>b, <2>1, <2>7, <2>8, <2>9, SafeStep DEF SafeEnd
<1>12. CASE /\ Tail(k.todo) = <<>> /\ ~(k.op = "patchById" /\ name = "byId")
            /\ Return(c, k.run)
  <2>1. \/ k.op = "accept" /\ name = "thread" /\ k.todo = <<"thread">>
        \/ k.op = "patch" /\ name = "byId"
        \/ k.op = "patchById" /\ name = "thread"
    BY <1>2, <1>12, <1>c, Todos
  <2>2. newest' = IF k.op = "accept" THEN k.run ELSE newest
    BY <1>12, <1>a DEF Return, Promise
  <2>3. x.pc \in Ended BY <1>3, <1>12, <1>a, <1>b DEF Return, Ended, Call
  <2>4. newest' = k.run BY <1>8, <2>1, <2>2
  <2>5. struck = 0 => InBoth'
    BY <1>2, <1>3, <1>4, <1>6, <1>7, <1>8, <1>c, <2>1, <2>4, Todos
       DEF Unhurt, InBoth, InThread, Writes
  <2>6. Readable' BY <1>2, <1>3, <1>6, <1>7, <2>4 DEF Readable, InThread
  <2>7. thread'.is = "row" => thread'.id = newest'
    BY <1>3, <1>6, <1>7, <1>8, <2>1, <2>4
  <2> QED BY <1>1, <1>3, <1>9, <1>b, <2>3, <2>4, <2>5, <2>6, <2>7, SafeStep DEF SafeEnd
<1>13. \/ /\ Tail(k.todo) # <<>> /\ newest' = newest
          /\ call' = [call EXCEPT ![c].pc = "open", ![c].todo = Tail(@)]
       \/ k.op = "patchById" /\ name = "byId" /\ Goto(c, "look")
       \/ /\ Tail(k.todo) = <<>> /\ ~(k.op = "patchById" /\ name = "byId")
          /\ Return(c, k.run)
  BY <1>a, <1>c DEF Fill, history
<1> QED BY <1>10, <1>11, <1>12, <1>13

LEMMA LookSafe ==
  ASSUME Inv, Lone, SafeFiles, ~mixed, NEW c \in Calls, Look(c)
  PROVE  SafeFiles'
<1>1. Step(c) /\ c \in UnderWay BY StepShape DEF Step
<1>a. PICK k : k = call[c] OBVIOUS
<1>b. PICK x : x = call'[c] OBVIOUS
<1>2. /\ mode = "file" /\ k.op = "patchById" /\ k.pc = "look"
      /\ byId' = byId /\ thread' = thread
  BY <1>1, <1>a, CallFacts DEF Look, Placed, files
<1>3. /\ thread.is = "row" => thread.id = newest
      /\ byId[newest].is # "absent" /\ SafeCall(c)
      /\ call \in [Calls -> Call] /\ k \in Call /\ struck' = struck
  BY <1>1, <1>2, <1>a, SafeNow
<1>4. (struck = 0 => InBoth) /\ (struck = 1 => Readable)
  BY <1>2, <1>3, <1>a DEF SafeCall, Unhurt, Mends, Writes
<1>5. CASE InThread(k.run)
  <2>1. /\ call' = [call EXCEPT ![c] = [k EXCEPT !.pc = "open", !.todo = <<"thread">>]]
        /\ newest' = newest
    BY <1>3, <1>5, <1>a DEF Look, history
  <2>2. x.pc = "open" /\ x.op = "patchById" /\ x.run = k.run /\ x.todo = <<"thread">>
    BY <1>2, <1>3, <1>b, <2>1 DEF Call
  <2>3. k.run = newest BY <1>3, <1>5 DEF InThread
  <2>4. Aims(x)' /\ (struck = 0 => Unhurt(x)') /\ Mends(x)'
    BY <1>2, <1>4, <2>1, <2>2, <2>3 DEF Aims, Unhurt, Mends, Writes, InBoth, InThread
  <2>5. SafeCall(c)' BY <1>3, <1>b, <2>2, <2>4 DEF SafeCall
  <2>6. x.pc \notin Ended BY <2>2 DEF Ended
  <2> QED BY <1>1, <1>2, <1>3, <1>b, <2>1, <2>5, <2>6, SafeStep DEF SafeEnd
<1>6. CASE ~InThread(k.run)
  <2>1. Return(c, k.run) BY <1>6, <1>a DEF Look
  <2>2. newest' = newest BY <1>2, <1>a, <2>1 DEF Return, Promise
  <2>3. x.pc \in Ended BY <1>3, <1>a, <1>b, <2>1 DEF Return, Ended, Call
  <2>4. (struck = 0 => InBoth') /\ (struck = 1 => Readable')
    BY <1>2, <1>4, <2>2 DEF InBoth, Readable, InThread
  <2> QED BY <1>1, <1>2, <1>3, <1>b, <2>2, <2>3, <2>4, SafeStep DEF SafeEnd
<1> QED BY <1>5, <1>6

\* A call that reads changes no file.
LEMMA ReadSafe ==
  ASSUME Inv, Lone, SafeFiles, ~mixed, NEW c \in Calls,
         ReadThread(c) \/ ReadById(c) \/ Scan(c)
  PROVE  SafeFiles'
<1>1. Step(c) /\ c \in UnderWay BY StepShape DEF Step
<1>a. PICK k : k = call[c] OBVIOUS
<1>b. PICK x : x = call'[c] OBVIOUS
<1>2. /\ mode = "file" /\ k.op \in {"patch", "patchById"} /\ k.pc \in {"read", "scan"}
      /\ UNCHANGED <<byId, thread, newest>>
  BY <1>1, <1>a, CallFacts DEF ReadThread, ReadById, Scan, Placed, files, Take, Refuse,
                              Goto, history
<1>3. /\ thread.is = "row" => thread.id = newest
      /\ byId[newest].is # "absent" /\ SafeCall(c)
      /\ call \in [Calls -> Call] /\ k \in Call /\ struck' = struck
  BY <1>1, <1>2, <1>a, SafeNow
<1>4. (struck = 0 => InBoth) /\ (struck = 1 => Readable)
  BY <1>2, <1>3, <1>a DEF SafeCall, Unhurt, Mends, Writes
<1>5. (struck = 0 => InBoth') /\ (struck = 1 => Readable')
  BY <1>2, <1>4 DEF InBoth, Readable, InThread
<1>6. \/ x.pc = "refused"
      \/ x.pc = "scan" /\ x.op = "patchById"
      \/ x.pc = "open" /\ x.op = "patch" /\ x.run = newest /\ x.todo = <<"thread", "byId">>
      \/ x.pc = "open" /\ x.op = "patchById" /\ x.todo = <<"byId">>
  <2>1. CASE ReadThread(c)
    <3>1. CASE thread.is = "row"
      BY <1>3, <1>a, <1>b, <2>1, <3>1 DEF ReadThread, Take, Call
    <3>2. CASE thread.is # "row"
      BY <1>3, <1>a, <1>b, <2>1, <3>2 DEF ReadThread, Refuse, Call
    <3> QED BY <3>1, <3>2
  <2>2. CASE ReadById(c) BY <1>3, <1>a, <1>b, <2>2 DEF ReadById, Take, Goto, Call
  <2>3. CASE Scan(c)
    <3>1. k.op = "patchById" BY <1>1, <1>a, <2>3, CallFacts DEF Placed, Scan
    <3> QED BY <1>3, <1>a, <1>b, <2>3, <3>1 DEF Scan, Take, Refuse, Call
  <2> QED BY <2>1, <2>2, <2>3
<1>7. CASE x.pc = "refused"
  <2>1. x.pc \in Ended BY <1>7 DEF Ended
  <2> QED BY <1>1, <1>2, <1>3, <1>5, <1>b, <2>1, SafeStep DEF SafeEnd
<1>8. CASE x.pc # "refused"
  <2>1. Aims(x)' BY <1>2, <1>6, <1>8, Todos DEF Aims, Writes
  <2>2. struck = 0 => Unhurt(x)' BY <1>5, <1>6, <1>8 DEF Unhurt
  <2>3. SafeCall(c)' BY <1>3, <1>5, <1>6, <1>8, <1>b, <2>1, <2>2 DEF SafeCall
  <2>4. x.pc \notin Ended BY <1>6, <1>8 DEF Ended
  <2> QED BY <1>1, <1>2, <1>3, <1>b, <2>3, <2>4, SafeStep DEF SafeEnd
<1> QED BY <1>7, <1>8

LEMMA StartSafe ==
  ASSUME Inv, SafeFiles, NEW c \in Calls, NEW new \in Call, Start(c, new),
         \/ /\ new.op = "accept" /\ byId[new.run].is = "absent" /\ new.todo = BothFiles
            /\ mode = "file" => new.pc = "open"
         \/ /\ new.op \in {"patch", "patchById"}
            /\ mode = "file" => new.pc = "read"
  PROVE  SafeFiles'
<1> SUFFICES ASSUME ~mixed', mode' = "file" PROVE SafeFiles' BY DEF SafeFiles
<1>a. PICK x : x = [new EXCEPT !.alone = TRUE] OBVIOUS
<1>1. /\ mode = "file" /\ ~mixed /\ UnderWay = {} /\ UnderWay' \subseteq {c}
      /\ call'[c] = x /\ UNCHANGED <<byId, thread, newest, struck>>
  BY <1>a, StartShape
<1>2. /\ x.op = new.op /\ x.run = new.run /\ x.todo = new.todo /\ x.pc = new.pc
  BY <1>a DEF Call
<1>3. /\ thread.is = "row" => thread.id = newest
      /\ byId[newest].is # "absent"
      /\ struck = 0 => InBoth
      /\ struck = 1 => Readable
  BY <1>1 DEF SafeFiles
<1>4. /\ struck = 0 => InBoth'
      /\ struck = 1 => Readable'
  BY <1>1, <1>3 DEF InBoth, Readable, InThread
<1>5. Aims(x)' BY <1>1, <1>2, <1>3 DEF Aims, Writes
<1>6. BothFiles # <<"thread">> BY Todos
<1>7. struck = 0 => Unhurt(x)'
  BY <1>1, <1>2, <1>4, <1>6 DEF Unhurt, Writes
<1>8. SafeCall(c)' BY <1>1, <1>2, <1>4, <1>5, <1>7 DEF SafeCall
<1> QED BY <1>1, <1>3, <1>4, <1>8 DEF SafeFiles

LEMMA CrashSafe == ASSUME Inv, Lone, SafeFiles, Crash PROVE SafeFiles'
<1> SUFFICES ASSUME ~mixed', mode' = "file" PROVE SafeFiles' BY DEF SafeFiles
<1>1. /\ mode = "file" /\ ~mixed /\ UNCHANGED <<byId, thread, newest>>
      /\ struck' = struck + Cardinality(UnderWay)
  BY DEF Crash, files
<1>2. UnderWay' = {}
  BY DEF Crash, UnderWay, Ended, Inv, TypeOK, Call
<1>3. /\ thread.is = "row" => thread.id = newest
      /\ byId[newest].is # "absent" /\ struck \in Nat
  BY <1>1 DEF SafeFiles, Inv, TypeOK
<1>4. (struck' = 0 => InBoth) /\ (struck' = 1 => Readable)
  <2>1. CASE UnderWay = {}
    <3>1. Cardinality(UnderWay) = 0 BY <2>1, FS_EmptySet
    <3> QED BY <1>1, <1>3, <2>1, <3>1 DEF SafeFiles
  <2>2. ASSUME NEW c \in UnderWay
        PROVE  (struck' = 0 => InBoth) /\ (struck' = 1 => Readable)
    <3>1. UnderWay = {c} BY <1>1, OneUnderWay
    <3>2. Cardinality(UnderWay) = 1 BY <3>1, FS_Singleton
    <3>3. SafeCall(c) BY <1>1 DEF SafeFiles
    <3>4. call[c].pc = "fill" => Head(call[c].todo) \in {"byId", "thread"}
      BY WriterFacts
    <3>5. struck = 0 => Readable
      BY <3>3, <3>4 DEF SafeCall, Unhurt, InBoth, Readable
    <3> QED BY <1>1, <1>3, <3>2, <3>5
  <2> QED BY <2>1, <2>2
<1> QED BY <1>1, <1>2, <1>3, <1>4 DEF SafeFiles, InBoth, Readable, InThread

LEMMA FilesStaySafe == Inv /\ Lone /\ SafeFiles /\ [Next]_vars => SafeFiles'
<1> SUFFICES ASSUME Inv, Lone, SafeFiles, [Next]_vars PROVE SafeFiles' OBVIOUS
<1>1. ASSUME NEW c \in Calls, Step(c) PROVE SafeFiles'
  <2>1. CASE mixed \/ mode # "file" BY <1>1, <2>1, StepShape DEF SafeFiles
  <2>2. CASE ~mixed /\ mode = "file"
    <3>1. ~(Apply(c) \/ Cancel(c) \/ Insert(c) \/ Select(c) \/ Update(c))
      BY <1>1, <2>2, StepShape, CallFacts DEF Placed, Apply, Cancel, Insert, Select, Update
    <3> QED
      BY <1>1, <2>2, <3>1, OpenSafe, FillSafe, LookSafe, ReadSafe DEF Step
  <2> QED BY <2>1, <2>2
<1>2. ASSUME NEW c \in Calls,
             \/ \E r \in Runs : Accept(c, r)
             \/ \E fs \in Patches, ends \in BOOLEAN :
                  Patch(c, fs, ends) \/ \E r \in Runs : PatchById(c, r, fs, ends)
      PROVE  SafeFiles'
  BY <1>2, Starts, StartSafe
<1>3. CASE Crash BY <1>3, CrashSafe
<1>4. CASE UNCHANGED vars
  <2>1. UNCHANGED <<mode, byId, thread, call, newest, mixed, struck>>
    BY <1>4 DEF vars, files, history
  <2> QED BY <2>1 DEF SafeFiles, UnderWay, InBoth, Readable, InThread, SafeCall, Aims,
                     Unhurt, Mends, Writes, File
<1> QED BY <1>1, <1>2, <1>3, <1>4 DEF Next

LEMMA InitSafe == Init => SafeInv
<1> SUFFICES ASSUME Init PROVE SafeInv OBVIOUS
<1>1. UnderWay = {} BY DEF Init, UnderWay, Idle, Ended
<1>2. newest = First /\ First \in Runs BY RunStoreAssumption DEF Init
<1>3. byId[First].is = "row" BY <1>2 DEF Init, Of
<1>4. mode = "file" => thread.is = "row" /\ thread.id = First BY DEF Init, Of
<1>5. Lone /\ SafeRows BY <1>1, <1>2, <1>3 DEF Lone, SafeRows
<1>6. SafeFiles BY <1>1, <1>2, <1>3, <1>4 DEF SafeFiles, InBoth, Readable, InThread
<1> QED BY <1>5, <1>6 DEF SafeInv

\* While calls do not overlap, a call that rewrites one file of the newest run
\* does so while the other is readable, or makes it so (executionRunStore.js).
THEOREM SafeInvariant == Spec => [](Inv /\ SafeInv)
<1>1. Init => Inv /\ SafeInv BY InitGivesInv, InitSafe
<1>2. Inv /\ SafeInv /\ [Next]_vars => (Inv /\ SafeInv)'
  BY NextKeepsInv, LoneStep, RowsStaySafe, FilesStaySafe DEF SafeInv
<1> QED BY <1>1, <1>2, PTL DEF Spec

\* As long as the calls of the store do not overlap, a crash that hits one of
\* them leaves the newest run readable (executionRunStore.js writes two files
\* per run and empties each before it fills it), for any runs, columns,
\* patches and number of calls.
THEOREM OneCrashIsSurvived == Spec => []OneCrashLosesNoRun
<1>1. ASSUME Inv, SafeInv, ~mixed, struck + Cardinality(UnderWay) <= 1
      PROVE  byId[newest].is = "row" \/ InThread(newest)
  <2>1. struck \in Nat BY <1>1 DEF Inv, TypeOK
  <2>2. CASE mode # "file" BY <1>1, <2>2 DEF SafeInv, SafeRows
  <2>3. CASE mode = "file" /\ UnderWay = {}
    <3>1. Cardinality(UnderWay) = 0 BY <2>3, FS_EmptySet
    <3>2. struck \in {0, 1} BY <1>1, <2>1, <3>1
    <3> QED BY <1>1, <2>3, <3>2 DEF SafeInv, SafeFiles, InBoth, Readable
  <2>4. ASSUME mode = "file", NEW c \in UnderWay PROVE Readable
    <3>1. UnderWay = {c} BY <1>1, OneUnderWay DEF SafeInv
    <3>2. Cardinality(UnderWay) = 1 BY <3>1, FS_Singleton
    <3>3. struck = 0 BY <1>1, <2>1, <3>2
    <3>4. SafeCall(c) BY <1>1, <2>4 DEF SafeInv, SafeFiles
    <3>5. call[c].pc = "fill" => Head(call[c].todo) \in {"byId", "thread"}
      BY <1>1, WriterFacts
    <3> QED BY <3>3, <3>4, <3>5 DEF SafeCall, Unhurt, InBoth, Readable
  <2> QED BY <2>2, <2>3, <2>4 DEF Readable
<1>2. Inv /\ SafeInv => OneCrashLosesNoRun BY <1>1 DEF OneCrashLosesNoRun
<1> QED BY <1>2, SafeInvariant, PTL

-----------------------------------------------------------------------------
(* Tool calls: what a call knows of itself at each of its steps.            *)

Waiting == {"merge", "gate", "bind", "send"}
CallPc  == Waiting \cup {"record", "wait", "live", "link", "file"} \cup Tools!Ended
CallRec ==
  [pc : CallPc, act : Act, src : Src, run : Nat, owner : Nat, packet : Nat, from : Nat,
   tried : BOOLEAN, did : BOOLEAN, status : {"none", "blocked", "running", "completed", "degraded"},
   lane : {"none", "artifact", "cloud", "live"},
   delivery : {"unknown", "unavailable", "delivered", "timeout"}]

\* The stash is empty or of the delegation that came last.
CallTypes ==
  /\ set \in Setting /\ liveOnly \in BOOLEAN
  /\ plans \in Seq(Plan) /\ Len(plans) <= MaxRuns
  /\ shell \in Seq({"pending", "stored", "missed", "lost"}) /\ Len(shell) = Len(plans)
  /\ active \in {0} \cup DOMAIN plans /\ stash \in {0, Len(plans)}
  /\ toolCall \in [Tools!Call -> {Tools!Idle} \cup CallRec]
  /\ agent \in [Tools!Call -> {"none", "working", "reported"}]
  /\ known \subseteq [call : Tools!Call, run : DOMAIN plans, packet : Nat]

\* Of which runs a call is, and that its patch is no older than its packet.
Belongs(k) ==
  /\ k.run \in {0} \cup DOMAIN plans /\ k.owner \in {0} \cup DOMAIN plans
  /\ k.owner # 0 => k.packet # 0
  /\ k.from # 0 => k.from >= k.owner
  /\ k.pc = "bind" => k.run # 0

\* What was done for a call up to its step, and that nothing is told before.
Done(k, worked) ==
  /\ k.pc # "done" => k.status = "none" /\ k.delivery = "unknown"
  /\ k.pc \in Waiting => ~worked /\ ~k.did /\ ~k.tried
  /\ k.pc \in {"record", "wait"} => worked
  /\ k.pc = "record" => k.tried
  /\ k.pc \in {"live", "file"} /\ ~k.tried => ~worked /\ ~k.did
  /\ k.pc = "link" => k.did
  /\ k.status = "blocked" => ~worked /\ ~k.did
  /\ k.status = "running" => worked
  /\ k.status = "completed" /\ k.lane = "live" => k.did
  /\ k.status = "completed" /\ k.lane = "artifact" => ~worked /\ ~k.did

\* The packet's row is there from the step that binds it.
PlacedCall(c) ==
  (agent[c] # "none" \/ toolCall[c].pc = "send")
    => (toolCall[c].act = "patch" /\ toolCall[c].owner # 0 /\ toolCall[c].run # 0
          => Tools!Row(c, toolCall[c].run) \in known)

FitsCall(c) ==
  /\ Belongs(toolCall[c]) /\ Done(toolCall[c], agent[c] # "none") /\ PlacedCall(c)
  /\ toolCall[c].delivery = "delivered" => toolCall[c].run \in Tools!Seen

CallsInv ==
  /\ CallTypes
  /\ \A c \in Tools!Call : IF Tools!Called(c) THEN FitsCall(c) ELSE agent[c] = "none"
  /\ \A row \in known : Tools!Called(row.call)

LEMMA CallsGiveTypes == CallsInv => Tools!TypeOK
<1> SUFFICES ASSUME CallsInv PROVE Tools!TypeOK  OBVIOUS
<1>1. DOMAIN shell = DOMAIN plans  BY DEF CallsInv, CallTypes
<1>2. stash \in {0} \cup DOMAIN plans
  <2>1. Len(plans) \in Nat /\ DOMAIN plans = 1..Len(plans)  BY DEF CallsInv, CallTypes
  <2> QED  BY <2>1 DEF CallsInv, CallTypes
<1> QED  BY <1>1, <1>2 DEF CallsInv, CallTypes, Tools!TypeOK

LEMMA CallsGiveOutcome == CallsInv => Tools!OutcomeIsTrue
<1> SUFFICES ASSUME CallsInv, NEW c \in Tools!Call, Tools!Called(c)
             PROVE  /\ toolCall[c].status = "blocked" => agent[c] = "none" /\ ~toolCall[c].did
                    /\ toolCall[c].status = "running" => agent[c] # "none"
                    /\ toolCall[c].status = "completed" /\ toolCall[c].lane = "live" => toolCall[c].did
                    /\ toolCall[c].status = "completed" /\ toolCall[c].lane = "artifact"
                         => agent[c] = "none" /\ ~toolCall[c].did
                    /\ toolCall[c].delivery = "delivered"
                         => \E row \in known : row.run = toolCall[c].run /\ agent[row.call] = "reported"
  BY DEF Tools!OutcomeIsTrue
<1>1. FitsCall(c)  BY DEF CallsInv
<1>2. toolCall[c].delivery = "delivered"
        => \E row \in known : row.run = toolCall[c].run /\ agent[row.call] = "reported"
  BY <1>1 DEF FitsCall, Tools!Seen
<1> QED  BY <1>1, <1>2 DEF FitsCall, Done

LEMMA CallsGivePlaces == CallsInv => Tools!AgentIsOfItsPacket
<1> SUFFICES ASSUME CallsInv, NEW c \in Tools!Call, Tools!Called(c), agent[c] # "none",
                    toolCall[c].act = "patch" /\ toolCall[c].owner # 0 /\ toolCall[c].run # 0
             PROVE  /\ Tools!Row(c, toolCall[c].run) \in known
                    /\ toolCall[c].from # 0 => toolCall[c].from >= toolCall[c].owner
  BY DEF Tools!AgentIsOfItsPacket
<1>1. FitsCall(c)  BY DEF CallsInv
<1> QED  BY <1>1 DEF FitsCall, PlacedCall, Belongs

LEMMA CalledTyped ==
  ASSUME CallsInv, NEW c \in Tools!Call
  PROVE  /\ Tools!Called(c) <=> toolCall[c] \in CallRec
         /\ Tools!Called(c) => FitsCall(c)
         /\ ~Tools!Called(c) => agent[c] = "none"
<1>1. Tools!Idle \notin CallRec  BY DEF Tools!Idle, CallRec, CallPc, Waiting, Tools!Ended
<1> QED  BY <1>1 DEF CallsInv, CallTypes, Tools!Called

\* A step of one call, which may add a row of its own and start its agent.
LEMMA StepKeeps ==
  ASSUME CallsInv, NEW c \in Tools!Call, NEW x \in CallRec, toolCall' = [toolCall EXCEPT ![c] = x],
         UNCHANGED <<set, plans, shell, active, stash, liveOnly>>,
         known \subseteq known',
         \A row \in known' \ known : \E run \in DOMAIN plans :
            row = [call |-> c, run |-> run, packet |-> x.packet],
         agent' \in [Tools!Call -> {"none", "working", "reported"}],
         \A e \in Tools!Call : e # c => agent'[e] = agent[e],
         agent[c] = "reported" => agent'[c] = "reported",
         Belongs(x), Done(x, agent'[c] # "none"),
         agent'[c] # "none" \/ x.pc = "send"
           => (x.act = "patch" /\ x.owner # 0 /\ x.run # 0
                 => [call |-> c, run |-> x.run, packet |-> x.packet] \in known'),
         x.delivery = "delivered" => x.run \in Tools!Seen
  PROVE  CallsInv'
<1>1. toolCall'[c] = x /\ \A e \in Tools!Call : e # c => toolCall'[e] = toolCall[e]
  BY DEF CallsInv, CallTypes
<1>2. CallTypes'
  <2>1. toolCall' \in [Tools!Call -> {Tools!Idle} \cup CallRec]  BY DEF CallsInv, CallTypes
  <2>2. x.packet \in Nat  BY DEF CallRec
  <2>3. known' \subseteq [call : Tools!Call, run : DOMAIN plans, packet : Nat]
    BY <2>2 DEF CallsInv, CallTypes
  <2> QED  BY <2>1, <2>3 DEF CallsInv, CallTypes
<1>3. Tools!Idle \notin CallRec  BY DEF Tools!Idle, CallRec, CallPc, Waiting, Tools!Ended
<1>4. Tools!Seen \subseteq Tools!Seen'
  <2>1. \A row \in known : agent[row.call] = "reported" => agent'[row.call] = "reported"
    BY DEF CallsInv, CallTypes
  <2> QED  BY <2>1 DEF Tools!Seen
<1>5. \A e \in Tools!Call : Tools!Called(e) => Tools!Called(e)'
  BY <1>1, <1>3 DEF Tools!Called
<1>6. \A row \in known' : Tools!Called(row.call)'
  <2>1. Tools!Called(c)'  BY <1>1, <1>3 DEF Tools!Called
  <2> QED  BY <1>5, <2>1 DEF CallsInv, CallTypes
<1>7. ASSUME NEW e \in Tools!Call PROVE IF Tools!Called(e)' THEN FitsCall(e)' ELSE agent'[e] = "none"
  <2>1. CASE e = c
    <3>1. Belongs(toolCall[c])'  BY <1>1 DEF Belongs
    <3>2. Done(toolCall[c], agent[c] # "none")'  BY <1>1
    <3>3. PlacedCall(c)'  BY <1>1 DEF PlacedCall, Tools!Row
    <3>4. (toolCall[c].delivery = "delivered" => toolCall[c].run \in Tools!Seen)'  BY <1>1, <1>4
    <3>5. Tools!Called(c)'  BY <1>1, <1>3 DEF Tools!Called
    <3> QED  BY <2>1, <3>1, <3>2, <3>3, <3>4, <3>5 DEF FitsCall
  <2>2. CASE e # c
    <3>1. toolCall'[e] = toolCall[e] /\ agent'[e] = agent[e]  BY <1>1, <2>2
    <3>2. CASE Tools!Called(e)
      <4>1. FitsCall(e)  BY <3>2 DEF CallsInv
      <4>2. Belongs(toolCall[e])'  BY <3>1, <4>1 DEF FitsCall, Belongs
      <4>3. Done(toolCall[e], agent[e] # "none")'  BY <3>1, <4>1 DEF FitsCall
      <4>4. PlacedCall(e)'  BY <3>1, <4>1 DEF FitsCall, PlacedCall, Tools!Row
      <4>5. (toolCall[e].delivery = "delivered" => toolCall[e].run \in Tools!Seen)'
        BY <1>4, <3>1, <4>1 DEF FitsCall
      <4> QED  BY <1>5, <3>2, <4>2, <4>3, <4>4, <4>5 DEF FitsCall
    <3>3. CASE ~Tools!Called(e)
      <4>1. ~Tools!Called(e)' /\ agent'[e] = "none"  BY <3>1, <3>3, CalledTyped DEF Tools!Called
      <4> QED  BY <4>1
    <3> QED  BY <3>2, <3>3
  <2> QED  BY <2>1, <2>2
<1> QED  BY <1>2, <1>6, <1>7 DEF CallsInv

\* The same for a step that touches neither rows nor agents.
LEMMA LocalKeeps ==
  ASSUME CallsInv, NEW c \in Tools!Call, NEW x \in CallRec, toolCall' = [toolCall EXCEPT ![c] = x],
         UNCHANGED <<set, plans, shell, active, stash, liveOnly, known, agent>>,
         Tools!Called(c), x.act = toolCall[c].act, x.run = toolCall[c].run, x.owner = toolCall[c].owner,
         x.packet = toolCall[c].packet,
         x.pc = "send" /\ agent[c] = "none" => ~(x.act = "patch" /\ x.owner # 0 /\ x.run # 0),
         Belongs(x), Done(x, agent[c] # "none"),
         x.delivery = "delivered" => x.run \in Tools!Seen
  PROVE  CallsInv'
<1>1. FitsCall(c)  BY CalledTyped
<1>2. agent'[c] # "none" \/ x.pc = "send"
        => (x.act = "patch" /\ x.owner # 0 /\ x.run # 0
              => [call |-> c, run |-> x.run, packet |-> x.packet] \in known')
  BY <1>1 DEF FitsCall, PlacedCall, Tools!Row
<1>3. agent' \in [Tools!Call -> {"none", "working", "reported"}]  BY DEF CallsInv, CallTypes
<1> QED  BY <1>2, <1>3, StepKeeps

-----------------------------------------------------------------------------
(* The steps of a call. *)

LEMMA CallRecIsFull ==
  ASSUME NEW k \in CallRec
  PROVE  /\ k.pc \in CallPc /\ k.act \in Act /\ k.src \in Src
         /\ k.run \in Nat /\ k.owner \in Nat /\ k.packet \in Nat /\ k.from \in Nat
         /\ k.tried \in BOOLEAN /\ k.did \in BOOLEAN
BY DEF CallRec

\* A call that is at a step has all its fields, and fits.
LEMMA AtStep ==
  ASSUME CallsInv, NEW c \in Tools!Call, NEW pc, Tools!At(c, pc)
  PROVE  /\ Tools!Called(c) /\ toolCall[c] \in CallRec /\ toolCall[c].pc = pc
         /\ Belongs(toolCall[c]) /\ Done(toolCall[c], agent[c] # "none") /\ PlacedCall(c)
         /\ toolCall[c].delivery = "delivered" => toolCall[c].run \in Tools!Seen
BY CalledTyped DEF Tools!At, FitsCall

\* A call that only goes on to a step it may go on to.
LEMMA GoesKeeps ==
  ASSUME CallsInv, NEW c \in Tools!Call, NEW old, Tools!At(c, old), old # "done", NEW pc \in CallPc, Tools!Goes(c, pc),
         UNCHANGED <<set, plans, shell, active, stash, liveOnly, agent>>,
         known \subseteq known',
         \A row \in known' \ known : \E run \in DOMAIN plans :
            row = [call |-> c, run |-> run, packet |-> toolCall[c].packet],
         pc = "send" /\ toolCall[c].act = "patch" /\ toolCall[c].packet # 0 /\ toolCall[c].run # 0
           => Tools!Row(c, toolCall[c].run) \in known',
         pc = "bind" => toolCall[c].run # 0,
         pc \in Waiting => old \in Waiting,
         pc \in {"record", "wait"} => old = "record",
         pc \in {"live", "file"} => old \in Waiting \cup {"record"},
         pc # "link"
  PROVE  CallsInv'
<1>1. PICK k : k = toolCall[c]  OBVIOUS
<1>2. PICK x : x = [k EXCEPT !.pc = pc]  OBVIOUS
<1>3. /\ k \in CallRec /\ k.pc = old /\ Belongs(k) /\ Done(k, agent[c] # "none") /\ PlacedCall(c)
  BY <1>1, AtStep
<1>4. /\ x \in CallRec /\ x.pc = pc /\ x.act = k.act /\ x.run = k.run /\ x.owner = k.owner
      /\ x.packet = k.packet /\ x.from = k.from /\ x.tried = k.tried /\ x.did = k.did
      /\ x.status = k.status /\ x.lane = k.lane /\ x.delivery = k.delivery
  BY <1>2, <1>3 DEF CallRec
<1>5. toolCall' = [toolCall EXCEPT ![c] = x]  BY <1>1, <1>2, <1>3 DEF Tools!Goes
<1>6. Belongs(x)  BY <1>1, <1>3, <1>4 DEF Belongs
<1>7. k.status = "none" /\ k.delivery = "unknown"  BY <1>3 DEF Done
<1>8. Done(x, agent'[c] # "none")  BY <1>3, <1>4, <1>7 DEF Done, Waiting
<1>9. agent'[c] # "none" \/ x.pc = "send"
        => (x.act = "patch" /\ x.owner # 0 /\ x.run # 0
              => [call |-> c, run |-> x.run, packet |-> x.packet] \in known')
  BY <1>1, <1>3, <1>4 DEF Belongs, PlacedCall, Tools!Row
<1>10. agent' \in [Tools!Call -> {"none", "working", "reported"}]  BY DEF CallsInv, CallTypes
<1>11. \A row \in known' \ known : \E run \in DOMAIN plans :
         row = [call |-> c, run |-> run, packet |-> x.packet]
  BY <1>1, <1>4
<1> QED  BY <1>4, <1>5, <1>6, <1>7, <1>8, <1>9, <1>10, <1>11, StepKeeps

\* A call that is told: what is told must be so, or else the ledger has raised.
Same(x, k) ==
  x.act = k.act /\ x.run = k.run /\ x.owner = k.owner /\ x.packet = k.packet /\ x.from = k.from

LEMMA TellKeeps ==
  ASSUME CallsInv, NEW c \in Tools!Call, NEW old, Tools!At(c, old), old # "done",
         NEW x \in CallRec, x.pc = "done", Same(x, toolCall[c]),
         toolCall' = [toolCall EXCEPT ![c] = x] \/ Tools!Goes(c, "raised"),
         UNCHANGED <<set, plans, shell, active, stash, liveOnly, agent>>,
         known \subseteq known',
         \A row \in known' \ known : \E run \in DOMAIN plans :
            row = [call |-> c, run |-> run, packet |-> toolCall[c].packet],
         x.delivery = "delivered" => x.run \in Tools!Seen,
         Done(x, agent[c] # "none")
  PROVE  CallsInv'
<1>1. PICK k : k = toolCall[c]  OBVIOUS
<1>2. /\ k \in CallRec /\ k.pc = old /\ Belongs(k) /\ Done(k, agent[c] # "none") /\ PlacedCall(c)
  BY <1>1, AtStep
<1>3. agent' \in [Tools!Call -> {"none", "working", "reported"}]  BY DEF CallsInv, CallTypes
<1>4. CASE toolCall' = [toolCall EXCEPT ![c] = x]
  <2>1. Belongs(x)  BY <1>1, <1>2 DEF Belongs, Same
  <2>2. Done(x, agent'[c] # "none")  OBVIOUS
  <2>3. \A row \in known' \ known : \E run \in DOMAIN plans :
           row = [call |-> c, run |-> run, packet |-> x.packet]
    BY DEF Same
  <2>4. agent'[c] # "none" \/ x.pc = "send"
          => (x.act = "patch" /\ x.owner # 0 /\ x.run # 0
                => [call |-> c, run |-> x.run, packet |-> x.packet] \in known')
    BY <1>1, <1>2 DEF PlacedCall, Tools!Row, Same
  <2> QED  BY <1>3, <1>4, <2>1, <2>2, <2>3, <2>4, StepKeeps
<1>5. CASE Tools!Goes(c, "raised")
  BY <1>5, GoesKeeps DEF CallPc, Waiting, Tools!Ended
<1> QED  BY <1>4, <1>5

LEMMA MergeKeeps == ASSUME CallsInv, NEW c \in Tools!Call, Tools!Merge(c) PROVE CallsInv'
<1>1. Tools!At(c, "merge") /\ UNCHANGED <<set, plans, shell, active, stash, liveOnly, known, agent>>
  BY DEF Tools!Merge
<1>2. CASE Tools!Goes(c, "gate")  BY <1>1, <1>2, GoesKeeps DEF CallPc, Waiting
<1>3. CASE stash # 0 /\ toolCall' = [toolCall EXCEPT ![c].pc = "gate", ![c].from = stash,
                               ![c].src = IF @ = "part" THEN @ ELSE "narrow"]
  <2>1. PICK k : k = toolCall[c]  OBVIOUS
  <2>2. /\ k \in CallRec /\ k.pc = "merge" /\ Belongs(k) /\ Done(k, agent[c] # "none") /\ Tools!Called(c)
    BY <1>1, <2>1, AtStep
  <2>3. PICK src \in Src : src = IF k.src = "part" THEN k.src ELSE "narrow"
    BY <2>2 DEF CallRec, Src
  <2>4. PICK x : x = [k EXCEPT !.pc = "gate", !.from = stash, !.src = src]  OBVIOUS
  <2>5. toolCall' = [toolCall EXCEPT ![c] = x]
    BY <1>3, <2>1, <2>2, <2>3, <2>4 DEF CallsInv, CallTypes
  <2>6. Len(plans) \in Nat /\ DOMAIN plans = 1..Len(plans) /\ stash = Len(plans)
    BY <1>3 DEF CallsInv, CallTypes
  <2>7. /\ x \in CallRec /\ x.pc = "gate" /\ x.act = k.act /\ x.run = k.run /\ x.owner = k.owner
        /\ x.packet = k.packet /\ x.from = stash /\ x.tried = k.tried /\ x.did = k.did
        /\ x.status = k.status /\ x.lane = k.lane /\ x.delivery = k.delivery
    BY <2>2, <2>4, <2>6 DEF CallRec, CallPc, Waiting
  <2>8. Belongs(x)  BY <2>2, <2>6, <2>7 DEF Belongs
  <2>9. Done(x, agent[c] # "none") /\ k.delivery = "unknown"  BY <2>2, <2>7 DEF Done, Waiting
  <2> QED  BY <1>1, <2>1, <2>2, <2>5, <2>7, <2>8, <2>9, LocalKeeps
<1> QED  BY <1>2, <1>3 DEF Tools!Merge

LEMMA GateKeeps == ASSUME CallsInv, NEW c \in Tools!Call, Tools!Gate(c) PROVE CallsInv'
<1>1. Tools!At(c, "gate") /\ UNCHANGED <<set, plans, shell, active, stash, liveOnly, known, agent>>
  BY DEF Tools!Gate
<1>2. CASE Tools!Goes(c, Tools!Route(c))
  <2>1. Tools!Route(c) \in {"bind", "send", "live", "file"}  BY DEF Tools!Route
  <2>2. Tools!Route(c) = "bind" => toolCall[c].run # 0  BY DEF Tools!Route
  <2>3. Tools!Route(c) = "send"
          => ~(toolCall[c].act = "patch" /\ toolCall[c].packet # 0 /\ toolCall[c].run # 0)
    BY DEF Tools!Route
  <2> QED  BY <1>1, <1>2, <2>1, <2>2, <2>3, GoesKeeps DEF CallPc, Waiting
<1>3. CASE Tools!Tell(c, [toolCall[c] EXCEPT !.status = "blocked", !.lane = "artifact"])
  <2>1. PICK k : k = toolCall[c]  OBVIOUS
  <2>2. k \in CallRec /\ k.pc = "gate" /\ Done(k, agent[c] # "none")  BY <1>1, <2>1, AtStep
  <2>3. PICK told : told = [k EXCEPT !.status = "blocked", !.lane = "artifact"]  OBVIOUS
  <2>4. PICK x : x = [told EXCEPT !.pc = "done"]  OBVIOUS
  <2>5. x \in CallRec /\ x.pc = "done" /\ Same(x, k) /\ x.status = "blocked" /\ x.did = k.did
        /\ x.delivery = k.delivery
    BY <2>2, <2>3, <2>4 DEF CallRec, CallPc, Tools!Ended, Same
  <2>6. k.delivery = "unknown" /\ agent[c] = "none" /\ ~k.did  BY <2>2 DEF Done, Waiting
  <2>7. Done(x, agent[c] # "none")  BY <2>5, <2>6 DEF Done, Waiting
  <2>8. toolCall' = [toolCall EXCEPT ![c] = x] \/ Tools!Goes(c, "raised")
    BY <1>3, <2>1, <2>3, <2>4 DEF Tools!Tell
  <2> QED  BY <1>1, <2>1, <2>5, <2>6, <2>7, <2>8, TellKeeps
<1> QED  BY <1>2, <1>3 DEF Tools!Gate

LEMMA BindKeeps == ASSUME CallsInv, NEW c \in Tools!Call, Tools!Bind(c) PROVE CallsInv'
<1>1. PICK k : k = toolCall[c]  OBVIOUS
<1>2. /\ Tools!At(c, "bind") /\ UNCHANGED <<set, plans, shell, active, stash, liveOnly, agent>>
      /\ known' \in {known, known \cup {Tools!Row(c, k.run)}}
  BY <1>1 DEF Tools!Bind
<1>3. k \in CallRec /\ k.pc = "bind" /\ Belongs(k) /\ Done(k, agent[c] # "none")
  BY <1>1, <1>2, AtStep
<1>4. k.run \in DOMAIN plans  BY <1>3 DEF Belongs
<1>5. /\ known \subseteq known'
      /\ \A row \in known' \ known : \E run \in DOMAIN plans :
            row = [call |-> c, run |-> run, packet |-> k.packet]
  BY <1>1, <1>2, <1>4 DEF Tools!Row
<1>6. CASE Tools!Goes(c, "send") /\ Tools!Row(c, k.run) \in known'
  BY <1>1, <1>2, <1>5, <1>6, GoesKeeps DEF CallPc, Waiting
<1>7. CASE toolCall' = [toolCall EXCEPT ![c].pc = "done", ![c].status = "blocked", ![c].lane = "cloud"]
  <2>1. PICK x : x = [k EXCEPT !.pc = "done", !.status = "blocked", !.lane = "cloud"]  OBVIOUS
  <2>2. x \in CallRec /\ x.pc = "done" /\ Same(x, k) /\ x.status = "blocked" /\ x.did = k.did
        /\ x.delivery = k.delivery
    BY <1>3, <2>1 DEF CallRec, CallPc, Tools!Ended, Same
  <2>3. k.delivery = "unknown" /\ agent[c] = "none" /\ ~k.did  BY <1>3 DEF Done, Waiting
  <2>4. Done(x, agent[c] # "none")  BY <2>2, <2>3 DEF Done, Waiting
  <2>5. toolCall' = [toolCall EXCEPT ![c] = x]  BY <1>1, <1>7, <2>1
  <2> QED  BY <1>1, <1>2, <1>5, <2>2, <2>3, <2>4, <2>5, TellKeeps
<1>8. CASE Tools!Goes(c, "raised")
  BY <1>1, <1>2, <1>5, <1>8, GoesKeeps DEF CallPc, Waiting, Tools!Ended
<1> QED  BY <1>1, <1>6, <1>7, <1>8 DEF Tools!Bind

LEMMA SendKeeps == ASSUME CallsInv, NEW c \in Tools!Call, Tools!Send(c) PROVE CallsInv'
<1>1. /\ Tools!At(c, "send") /\ UNCHANGED <<set, plans, shell, active, stash, liveOnly, known>>
  BY DEF Tools!Send
<1>2. PICK k : k = toolCall[c]  OBVIOUS
<1>3. /\ k \in CallRec /\ k.pc = "send" /\ Belongs(k) /\ Done(k, agent[c] # "none") /\ PlacedCall(c)
  BY <1>1, <1>2, AtStep
<1>4. PICK started \in {"none", "working"}, pc \in {"live", "file", "record"} :
        /\ agent' = [agent EXCEPT ![c] = started] /\ (pc = "record" => started # "none")
        /\ toolCall' = [toolCall EXCEPT ![c].pc = pc, ![c].tried = TRUE]
  BY DEF Tools!Send
<1>5. PICK x : x = [k EXCEPT !.pc = pc, !.tried = TRUE]  OBVIOUS
<1>6. /\ x \in CallRec /\ x.pc = pc /\ x.act = k.act /\ x.run = k.run /\ x.owner = k.owner
      /\ x.packet = k.packet /\ x.from = k.from /\ x.tried /\ x.did = k.did
      /\ x.status = k.status /\ x.lane = k.lane /\ x.delivery = k.delivery
  BY <1>3, <1>5 DEF CallRec, CallPc
<1>7. toolCall' = [toolCall EXCEPT ![c] = x]  BY <1>2, <1>4, <1>5
<1>8. Belongs(x)  BY <1>3, <1>4, <1>6 DEF Belongs
<1>9. agent'[c] = started /\ agent[c] = "none" /\ k.delivery = "unknown"
  BY <1>3, <1>4 DEF Done, Waiting, CallsInv, CallTypes
<1>10. Done(x, agent'[c] # "none")  BY <1>3, <1>4, <1>6, <1>9 DEF Done, Waiting
<1>11. x.act = "patch" /\ x.owner # 0 /\ x.run # 0
         => [call |-> c, run |-> x.run, packet |-> x.packet] \in known'
  BY <1>1, <1>2, <1>3, <1>6 DEF PlacedCall, Tools!Row
<1>12. /\ agent' \in [Tools!Call -> {"none", "working", "reported"}]
       /\ \A e \in Tools!Call : e # c => agent'[e] = agent[e]
  BY <1>4 DEF CallsInv, CallTypes
<1> QED  BY <1>1, <1>6, <1>7, <1>8, <1>9, <1>10, <1>11, <1>12, StepKeeps

\* What is told of a running agent.
LEMMA RunningTold ==
  ASSUME CallsInv, NEW c \in Tools!Call, Tools!At(c, "record") \/ Tools!At(c, "wait"),
         NEW x, x.pc = "done", x.status = "running"
  PROVE  Done(x, agent[c] # "none")
<1>1. Done(toolCall[c], agent[c] # "none") /\ toolCall[c].pc \in {"record", "wait"}  BY AtStep
<1>2. agent[c] # "none"  BY <1>1 DEF Done
<1> QED  BY <1>2 DEF Done, Waiting

LEMMA RecordKeeps == ASSUME CallsInv, NEW c \in Tools!Call, Tools!Record(c) PROVE CallsInv'
<1>1. PICK k : k = toolCall[c]  OBVIOUS
<1>2. PICK run : run = IF k.run # 0 THEN k.run ELSE active  OBVIOUS
<1>3. /\ Tools!At(c, "record") /\ UNCHANGED <<set, plans, shell, active, stash, liveOnly, agent>>
      /\ known' \in {known, known \cup IF run = 0 THEN {} ELSE {Tools!Row(c, run)}}
  BY <1>1, <1>2 DEF Tools!Record
<1>4. k \in CallRec /\ k.pc = "record" /\ Belongs(k) /\ Done(k, agent[c] # "none")
  BY <1>1, <1>3, AtStep
<1>5. run # 0 => run \in DOMAIN plans  BY <1>2, <1>4 DEF Belongs, CallsInv, CallTypes
<1>6. /\ known \subseteq known'
      /\ \A row \in known' \ known : \E r \in DOMAIN plans :
            row = [call |-> c, run |-> r, packet |-> k.packet]
  BY <1>1, <1>3, <1>5 DEF Tools!Row
<1>7. k.delivery = "unknown"  BY <1>4 DEF Done
<1>8. PICK x : x = [k EXCEPT !.pc = "done", !.status = "running", !.lane = "cloud",
                     !.delivery = "unknown"]
  OBVIOUS
<1>9. x = [k EXCEPT !.pc = "done", !.status = "running", !.lane = "cloud"]
  BY <1>4, <1>7, <1>8 DEF CallRec
<1>10. \/ Tools!Goes(c, "wait") \/ Tools!Goes(c, "file") \/ Tools!Goes(c, "raised")
       \/ toolCall' = [toolCall EXCEPT ![c] = x]
  <2>1. PICK told : told = [k EXCEPT !.status = "running", !.lane = "cloud"]  OBVIOUS
  <2>2. [told EXCEPT !.pc = "done"] = x  BY <1>4, <1>9, <2>1 DEF CallRec
  <2>3. toolCall' = [toolCall EXCEPT ![c].pc = "done", ![c].status = "running", ![c].lane = "cloud"]
          => toolCall' = [toolCall EXCEPT ![c] = x]
    BY <1>1, <1>9
  <2>4. Tools!Tell(c, told) => toolCall' = [toolCall EXCEPT ![c] = x] \/ Tools!Goes(c, "raised")
    BY <2>2 DEF Tools!Tell
  <2>5. Tools!Goes(c, "wait") \/ Tools!Tell(c, told) \/ Tools!Goes(c, "file")
          \/ toolCall' = [toolCall EXCEPT ![c].pc = "done", ![c].status = "running", ![c].lane = "cloud"]
    BY <1>1, <2>1 DEF Tools!Record
  <2> QED  BY <2>3, <2>4, <2>5
<1>11. CASE Tools!Goes(c, "wait") \/ Tools!Goes(c, "file") \/ Tools!Goes(c, "raised")
  BY <1>1, <1>3, <1>6, <1>11, GoesKeeps DEF CallPc, Waiting, Tools!Ended
<1>12. CASE toolCall' = [toolCall EXCEPT ![c] = x]
  <2>1. /\ x \in CallRec /\ x.pc = "done" /\ Same(x, toolCall[c]) /\ x.delivery = "unknown"
        /\ Done(x, agent[c] # "none")
    <3>1. /\ x \in CallRec /\ x.pc = "done" /\ Same(x, k) /\ x.delivery = "unknown"
          /\ x.status = "running"
      BY <1>4, <1>8 DEF CallRec, CallPc, Tools!Ended, Same
    <3> QED  BY <1>1, <1>3, <3>1, RunningTold
  <2> QED  BY <1>1, <1>3, <1>6, <1>12, <2>1, TellKeeps
<1> QED  BY <1>10, <1>11, <1>12

\* Polling says delivered only when a matched report of the run has been seen.
LEMMA WaitKeeps == ASSUME CallsInv, NEW c \in Tools!Call, Tools!Wait(c) PROVE CallsInv'
<1>1. /\ Tools!At(c, "wait") /\ UNCHANGED <<set, plans, shell, active, stash, liveOnly, known, agent>>
  BY DEF Tools!Wait
<1>2. PICK delivery \in {Tools!Delivery(c), "unknown"} :
        Tools!Tell(c, [toolCall[c] EXCEPT !.status = "running", !.lane = "cloud", !.delivery = delivery])
  BY DEF Tools!Wait
<1>3. /\ delivery \in {"unknown", "unavailable", "delivered", "timeout"}
      /\ delivery = "delivered" => toolCall[c].run \in Tools!Seen
  BY DEF Tools!Delivery
<1>4. PICK x : x = [toolCall[c] EXCEPT !.pc = "done", !.status = "running", !.lane = "cloud",
                     !.delivery = delivery]
  OBVIOUS
<1>5. /\ x \in CallRec /\ x.pc = "done" /\ Same(x, toolCall[c]) /\ x.delivery = delivery
      /\ Done(x, agent[c] # "none")
  <2>1. PICK k : k = toolCall[c]  OBVIOUS
  <2>2. k \in CallRec  BY <1>1, <2>1, AtStep
  <2>3. /\ x \in CallRec /\ x.pc = "done" /\ Same(x, k) /\ x.delivery = delivery
        /\ x.status = "running"
    BY <1>3, <1>4, <2>1, <2>2 DEF CallRec, CallPc, Tools!Ended, Same
  <2> QED  BY <1>1, <2>1, <2>3, RunningTold
<1>6. toolCall' = [toolCall EXCEPT ![c] = x] \/ Tools!Goes(c, "raised")
  <2>1. PICK told : told = [toolCall[c] EXCEPT !.status = "running", !.lane = "cloud", !.delivery = delivery]
    OBVIOUS
  <2>2. [told EXCEPT !.pc = "done"] = x  BY <1>1, <1>4, <2>1, AtStep DEF CallRec
  <2> QED  BY <1>2, <2>1, <2>2 DEF Tools!Tell
<1> QED  BY <1>1, <1>3, <1>5, <1>6, TellKeeps DEF Same

LEMMA LiveKeeps == ASSUME CallsInv, NEW c \in Tools!Call, Tools!Live(c) PROVE CallsInv'
<1>1. PICK k : k = toolCall[c]  OBVIOUS
<1>2. Tools!At(c, "live") /\ UNCHANGED <<set, plans, shell, active, stash, liveOnly, known, agent>>
  BY DEF Tools!Live
<1>3. /\ k \in CallRec /\ k.pc = "live" /\ Belongs(k) /\ Done(k, agent[c] # "none") /\ Tools!Called(c)
  BY <1>1, <1>2, AtStep
<1>4. k.status = "none" /\ k.delivery = "unknown"  BY <1>3 DEF Done
<1>5. CASE Tools!Tell(c, [toolCall[c] EXCEPT !.status = "completed", !.lane = "live", !.did = TRUE])
  <2>1. PICK told : told = [k EXCEPT !.status = "completed", !.lane = "live", !.did = TRUE]  OBVIOUS
  <2>2. PICK x : x = [told EXCEPT !.pc = "done"]  OBVIOUS
  <2>3. /\ x \in CallRec /\ x.pc = "done" /\ Same(x, k) /\ x.delivery = k.delivery
        /\ x.status = "completed" /\ x.lane = "live" /\ x.did
    BY <1>3, <2>1, <2>2 DEF CallRec, CallPc, Tools!Ended, Same
  <2>4. Done(x, agent[c] # "none")  BY <2>3 DEF Done, Waiting
  <2>5. toolCall' = [toolCall EXCEPT ![c] = x] \/ Tools!Goes(c, "raised")
    BY <1>1, <1>5, <2>1, <2>2 DEF Tools!Tell
  <2> QED  BY <1>1, <1>2, <1>4, <2>3, <2>4, <2>5, TellKeeps
<1>6. CASE toolCall' = [toolCall EXCEPT ![c].pc = "link", ![c].did = TRUE]
  <2>1. PICK x : x = [k EXCEPT !.pc = "link", !.did = TRUE]  OBVIOUS
  <2>2. /\ x \in CallRec /\ x.pc = "link" /\ Same(x, k) /\ x.delivery = k.delivery
        /\ x.status = k.status /\ x.did
    BY <1>3, <2>1 DEF CallRec, CallPc, Same
  <2>3. toolCall' = [toolCall EXCEPT ![c] = x]  BY <1>1, <1>6, <2>1
  <2>4. Belongs(x) /\ Done(x, agent[c] # "none")
    BY <1>3, <1>4, <2>2 DEF Belongs, Done, Waiting, Same
  <2> QED  BY <1>1, <1>2, <1>3, <1>4, <2>2, <2>3, <2>4, LocalKeeps DEF Same
<1>7. CASE \E did \in BOOLEAN :
             toolCall' = [toolCall EXCEPT ![c].pc = "file", ![c].did = did, ![c].tried = TRUE]
  <2>1. PICK did \in BOOLEAN :
             toolCall' = [toolCall EXCEPT ![c].pc = "file", ![c].did = did, ![c].tried = TRUE]
    BY <1>7
  <2>2. PICK x : x = [k EXCEPT !.pc = "file", !.did = did, !.tried = TRUE]  OBVIOUS
  <2>3. /\ x \in CallRec /\ x.pc = "file" /\ Same(x, k) /\ x.delivery = k.delivery
        /\ x.status = k.status /\ x.tried
    BY <1>3, <2>2 DEF CallRec, CallPc, Same
  <2>4. toolCall' = [toolCall EXCEPT ![c] = x]  BY <1>1, <2>1, <2>2
  <2>5. Belongs(x) /\ Done(x, agent[c] # "none")
    BY <1>3, <1>4, <2>3 DEF Belongs, Done, Waiting, Same
  <2> QED  BY <1>1, <1>2, <1>3, <1>4, <2>3, <2>4, <2>5, LocalKeeps DEF Same
<1> QED  BY <1>5, <1>6, <1>7 DEF Tools!Live

LEMMA LinkKeeps == ASSUME CallsInv, NEW c \in Tools!Call, Tools!Link(c) PROVE CallsInv'
<1>1. PICK k : k = toolCall[c]  OBVIOUS
<1>2. /\ Tools!At(c, "link") /\ UNCHANGED <<set, plans, shell, active, stash, liveOnly, agent>>
      /\ known' \in {known, known \cup IF active = 0 THEN {} ELSE {Tools!Row(c, active)}}
  BY DEF Tools!Link
<1>3. k \in CallRec /\ k.pc = "link" /\ Done(k, agent[c] # "none")  BY <1>1, <1>2, AtStep
<1>4. k.did /\ k.delivery = "unknown"  BY <1>3 DEF Done
<1>5. /\ known \subseteq known'
      /\ \A row \in known' \ known : \E run \in DOMAIN plans :
            row = [call |-> c, run |-> run, packet |-> k.packet]
  BY <1>1, <1>2 DEF Tools!Row, CallsInv, CallTypes
<1>6. PICK told : told = [k EXCEPT !.status = "completed", !.lane = "live"]  OBVIOUS
<1>7. PICK x : x = [told EXCEPT !.pc = "done"]  OBVIOUS
<1>8. /\ x \in CallRec /\ x.pc = "done" /\ Same(x, k) /\ x.delivery = k.delivery
      /\ x.status = "completed" /\ x.lane = "live" /\ x.did = k.did
  BY <1>3, <1>6, <1>7 DEF CallRec, CallPc, Tools!Ended, Same
<1>9. Done(x, agent[c] # "none")  BY <1>4, <1>8 DEF Done, Waiting
<1>10. toolCall' = [toolCall EXCEPT ![c] = x] \/ Tools!Goes(c, "raised")
  BY <1>1, <1>6, <1>7 DEF Tools!Link, Tools!Tell
<1> QED  BY <1>1, <1>2, <1>4, <1>5, <1>8, <1>9, <1>10, TellKeeps

LEMMA FileKeeps == ASSUME CallsInv, NEW c \in Tools!Call, Tools!File(c) PROVE CallsInv'
<1>1. PICK k : k = toolCall[c]  OBVIOUS
<1>2. Tools!At(c, "file") /\ UNCHANGED <<set, plans, shell, active, stash, liveOnly, known, agent>>
  BY DEF Tools!File
<1>3. k \in CallRec /\ k.pc = "file" /\ Done(k, agent[c] # "none")  BY <1>1, <1>2, AtStep
<1>4. k.delivery = "unknown" /\ (~k.tried => agent[c] = "none" /\ ~k.did)  BY <1>3 DEF Done
<1>5. PICK status : status = Tools!Filed(c)  OBVIOUS
<1>6. /\ status \in {"degraded", "completed"}
      /\ status = "completed" => ~k.tried
  BY <1>1, <1>5 DEF Tools!Filed
<1>7. PICK told : told = [k EXCEPT !.status = status, !.lane = "artifact"]  OBVIOUS
<1>8. PICK x : x = [told EXCEPT !.pc = "done"]  OBVIOUS
<1>9. /\ x \in CallRec /\ x.pc = "done" /\ Same(x, k) /\ x.delivery = k.delivery
      /\ x.status = status /\ x.lane = "artifact" /\ x.did = k.did
  BY <1>3, <1>6, <1>7, <1>8 DEF CallRec, CallPc, Tools!Ended, Same
<1>10. Done(x, agent[c] # "none")  BY <1>4, <1>6, <1>9 DEF Done, Waiting
<1>11. toolCall' = [toolCall EXCEPT ![c] = x] \/ Tools!Goes(c, "raised")
  BY <1>1, <1>5, <1>7, <1>8 DEF Tools!File, Tools!Tell
<1> QED  BY <1>1, <1>2, <1>4, <1>9, <1>10, <1>11, TellKeeps

LEMMA ReportKeeps == ASSUME CallsInv, NEW c \in Tools!Call, Tools!Report(c) PROVE CallsInv'
<1>1. /\ UNCHANGED <<set, plans, shell, active, stash, liveOnly, toolCall, known>>
      /\ agent[c] = "working" /\ agent' = [agent EXCEPT ![c] = "reported"]
  BY DEF Tools!Report
<1>2. agent' \in [Tools!Call -> {"none", "working", "reported"}]  BY <1>1 DEF CallsInv, CallTypes
<1>3. \A e \in Tools!Call : /\ (agent'[e] # "none") <=> (agent[e] # "none")
                      /\ agent[e] = "reported" => agent'[e] = "reported"
  BY <1>1 DEF CallsInv, CallTypes
<1>4. Tools!Seen \subseteq Tools!Seen'  BY <1>1, <1>3 DEF Tools!Seen, CallsInv, CallTypes
<1>5. CallTypes'  BY <1>1, <1>2 DEF CallsInv, CallTypes
<1>6. ASSUME NEW e \in Tools!Call, Tools!Called(e)' PROVE FitsCall(e)'
  <2>1. Tools!Called(e) /\ FitsCall(e)  BY <1>1, <1>6, CalledTyped DEF Tools!Called
  <2>2. Belongs(toolCall[e])'  BY <1>1, <2>1 DEF FitsCall, Belongs
  <2>3. Done(toolCall[e], agent[e] # "none")'  BY <1>1, <1>3, <2>1 DEF FitsCall, Done
  <2>4. PlacedCall(e)'  BY <1>1, <1>3, <2>1 DEF FitsCall, PlacedCall, Tools!Row
  <2> QED  BY <1>1, <1>4, <2>1, <2>2, <2>3, <2>4 DEF FitsCall
<1>7. \A e \in Tools!Call : ~Tools!Called(e)' => agent'[e] = "none"
  BY <1>1, <1>3, CalledTyped DEF Tools!Called
<1>8. \A row \in known' : Tools!Called(row.call)'  BY <1>1 DEF CallsInv, Tools!Called
<1> QED  BY <1>5, <1>6, <1>7, <1>8 DEF CallsInv

-----------------------------------------------------------------------------
(* Calls that begin, delegations, and a restart. *)

\* A step of the delegations: there may be more of them, and the calls stay.
LEMMA PlansKeep ==
  ASSUME CallsInv, CallTypes', UNCHANGED <<toolCall, known, agent>>, DOMAIN plans \subseteq DOMAIN plans'
  PROVE  CallsInv'
<1>1. Tools!Seen' = Tools!Seen  BY DEF Tools!Seen
<1>2. ASSUME NEW e \in Tools!Call, Tools!Called(e)' PROVE FitsCall(e)'
  <2>1. FitsCall(e)  BY <1>2, CalledTyped DEF Tools!Called
  <2>2. Belongs(toolCall[e])'  BY <2>1 DEF FitsCall, Belongs
  <2>3. Done(toolCall[e], agent[e] # "none")'  BY <2>1 DEF FitsCall, Done
  <2>4. PlacedCall(e)'  BY <2>1 DEF FitsCall, PlacedCall, Tools!Row
  <2> QED  BY <1>1, <2>1, <2>2, <2>3, <2>4 DEF FitsCall
<1>3. \A e \in Tools!Call : ~Tools!Called(e)' => agent'[e] = "none"  BY CalledTyped DEF Tools!Called
<1>4. \A row \in known' : Tools!Called(row.call)'  BY DEF CallsInv, Tools!Called
<1> QED  BY <1>2, <1>3, <1>4 DEF CallsInv

LEMMA DelegateKeeps == ASSUME CallsInv, NEW plan \in Plan, Tools!Delegate(plan) PROVE CallsInv'
<1>1. /\ plans' = Append(plans, plan) /\ shell' = Append(shell, "pending")
      /\ Len(plans) < MaxRuns /\ stash' = Tools!Stashed(plan) /\ liveOnly' \in BOOLEAN
      /\ UNCHANGED <<set, active, toolCall, known, agent>>
  BY DEF Tools!Delegate
<1>2. /\ plans \in Seq(Plan) /\ Len(plans) \in Nat /\ DOMAIN plans = 1..Len(plans)
      /\ shell \in Seq({"pending", "stored", "missed", "lost"}) /\ Len(shell) = Len(plans)
  BY DEF CallsInv, CallTypes
<1>3. /\ plans' \in Seq(Plan) /\ Len(plans') = Len(plans) + 1 /\ DOMAIN plans' = 1..(Len(plans) + 1)
  BY <1>1, <1>2
<1>4. shell' \in Seq({"pending", "stored", "missed", "lost"}) /\ Len(shell') = Len(shell) + 1
  BY <1>1, <1>2
<1>5. stash' \in {0, Len(plans')}  BY <1>1, <1>3 DEF Tools!Stashed
<1>6. Len(plans') <= MaxRuns  BY <1>1, <1>2, <1>3, CallsAssumption
<1>7. DOMAIN plans \subseteq DOMAIN plans'  BY <1>2, <1>3
<1>8. CallTypes'
  BY <1>1, <1>2, <1>3, <1>4, <1>5, <1>6, <1>7 DEF CallsInv, CallTypes
<1> QED  BY <1>1, <1>7, <1>8, PlansKeep

LEMMA PersistKeeps ==
  ASSUME CallsInv, NEW d \in DOMAIN plans, Tools!Persist(d) \/ Tools!PersistFails(d) PROVE CallsInv'
<1>1. /\ shell' \in {[shell EXCEPT ![d] = "stored"], [shell EXCEPT ![d] = "missed"]}
      /\ active' \in {active, d}
      /\ UNCHANGED <<set, plans, stash, liveOnly, toolCall, known, agent>>
  BY DEF Tools!Persist, Tools!PersistFails
<1>2. shell' \in Seq({"pending", "stored", "missed", "lost"}) /\ Len(shell') = Len(shell)
  BY <1>1 DEF CallsInv, CallTypes
<1>3. CallTypes'  BY <1>1, <1>2 DEF CallsInv, CallTypes
<1> QED  BY <1>1, <1>3, PlansKeep

\* What a call has when it begins.
LEMMA BegunKeeps ==
  ASSUME CallsInv, NEW c \in Tools!Call, ~Tools!Called(c),
         NEW act \in Act, NEW src \in Src, NEW run \in {0} \cup DOMAIN plans,
         NEW owner \in {0} \cup DOMAIN plans, NEW packet \in Nat, owner # 0 => packet # 0,
         toolCall' = [toolCall EXCEPT ![c] = Tools!Begun(act, src, run, owner, packet)],
         UNCHANGED <<set, plans, shell, active, stash, liveOnly, known, agent>>
  PROVE  CallsInv'
<1>1. PICK x : x = Tools!Begun(act, src, run, owner, packet)  OBVIOUS
<1>2. \A n \in DOMAIN plans : n \in Nat  BY DEF CallsInv, CallTypes
<1>3. /\ x \in CallRec /\ x.pc = "merge" /\ x.run = run /\ x.owner = owner /\ x.packet = packet
      /\ x.from = 0 /\ ~x.tried /\ ~x.did /\ x.status = "none" /\ x.delivery = "unknown"
  BY <1>1, <1>2 DEF Tools!Begun, CallRec, CallPc, Waiting
<1>4. agent[c] = "none"  BY CalledTyped
<1>5. Belongs(x) /\ Done(x, agent[c] # "none")  BY <1>3, <1>4 DEF Belongs, Done, Waiting
<1>6. agent' \in [Tools!Call -> {"none", "working", "reported"}]  BY DEF CallsInv, CallTypes
<1> QED  BY <1>1, <1>3, <1>4, <1>5, <1>6, StepKeeps

LEMMA InvokeKeeps ==
  ASSUME CallsInv, NEW c \in Tools!Call, NEW d \in DOMAIN plans, NEW k \in DOMAIN plans[d], Tools!Invoke(c, d, k)
  PROVE  CallsInv'
<1>1. plans[d] \in Plan /\ d \in Nat \ {0}  BY DEF CallsInv, CallTypes
<1>2. plans[d] \in Seq([act : Act, src : Src])  BY <1>1, CallsAssumption
<1>3. k \in Nat \ {0} /\ plans[d][k].act \in Act /\ plans[d][k].src \in Src
  <2>1. PICK s : s = plans[d]  OBVIOUS
  <2>2. s \in Seq([act : Act, src : Src]) /\ k \in DOMAIN s  BY <1>2, <2>1
  <2>3. DOMAIN s = 1..Len(s) /\ Len(s) \in Nat  BY <2>2
  <2>4. PICK T : T = [act : Act, src : Src]  OBVIOUS
  <2>5. s \in Seq(T)  BY <2>2, <2>4
  <2>6. s[k] \in T  BY <2>2, <2>3, <2>5
  <2>7. k \in Nat \ {0}  BY <2>2, <2>3
  <2> QED  BY <2>1, <2>4, <2>6, <2>7
<1>4. PICK run \in {0, d} :
        toolCall' = [toolCall EXCEPT ![c] = Tools!Begun(plans[d][k].act, plans[d][k].src, run, d, k)]
  BY DEF Tools!Invoke
<1>5. ~Tools!Called(c) /\ UNCHANGED <<set, plans, shell, active, stash, liveOnly, known, agent>>
  BY DEF Tools!Invoke, Tools!Fresh
<1> QED  BY <1>3, <1>4, <1>5, BegunKeeps

LEMMA AskKeeps == ASSUME CallsInv, NEW c \in Tools!Call, NEW q \in Direct, Tools!Ask(c, q) PROVE CallsInv'
<1>1. q.act \in Act /\ q.src \in Src  BY CallsAssumption
<1>2. active \in {0} \cup DOMAIN plans  BY DEF CallsInv, CallTypes
<1>3. ~Tools!Called(c) /\ UNCHANGED <<set, plans, shell, active, stash, liveOnly, known, agent>>
      /\ toolCall' = [toolCall EXCEPT ![c] = Tools!Begun(q.act, q.src, active, 0, 0)]
  BY DEF Tools!Ask, Tools!Fresh
<1> QED  BY <1>1, <1>2, <1>3, BegunKeeps

\* A restart: what was under way is lost, what was told and recorded stays.
LEMMA CallsCrashKeeps == ASSUME CallsInv, Tools!Crash PROVE CallsInv'
<1>1. /\ toolCall' = [c \in Tools!Call |-> IF Tools!UnderWay(c) THEN [toolCall[c] EXCEPT !.pc = "lost"] ELSE toolCall[c]]
      /\ shell' = [d \in DOMAIN shell |-> IF shell[d] = "stored" THEN "stored" ELSE "lost"]
      /\ stash' = 0 /\ liveOnly' = FALSE
      /\ UNCHANGED <<set, plans, active, known, agent>>
  BY DEF Tools!Crash
<1>2. shell' \in Seq({"pending", "stored", "missed", "lost"}) /\ Len(shell') = Len(shell)
  BY <1>1 DEF CallsInv, CallTypes
<1>3. ASSUME NEW e \in Tools!Call, Tools!Called(e)
      PROVE  toolCall'[e] \in CallRec /\ FitsCall(e)'
  <2>1. PICK k : k = toolCall[e]  OBVIOUS
  <2>2. k \in CallRec /\ FitsCall(e)  BY <1>3, <2>1, CalledTyped
  <2>3. PICK x : x = toolCall'[e]  OBVIOUS
  <2>4. \/ x = k
        \/ k.pc \notin Tools!Ended /\ x = [k EXCEPT !.pc = "lost"]
    BY <1>1, <2>1, <2>3 DEF Tools!UnderWay
  <2>5. /\ x \in CallRec /\ Same(x, k) /\ x.status = k.status /\ x.delivery = k.delivery
        /\ x.did = k.did /\ x.lane = k.lane /\ x.tried = k.tried
        /\ x.pc = k.pc \/ (x.pc = "lost" /\ k.pc # "done")
    BY <2>2, <2>4 DEF CallRec, CallPc, Tools!Ended, Same
  <2>6. Belongs(x)'  BY <1>1, <2>1, <2>2, <2>5 DEF FitsCall, Belongs, Same
  <2>7. Done(k, agent[e] # "none")  BY <2>1, <2>2 DEF FitsCall
  <2>8. Done(x, agent[e] # "none")  BY <2>5, <2>7 DEF Done, Waiting
  <2>9. PlacedCall(e)'  BY <1>1, <2>1, <2>2, <2>3, <2>5 DEF FitsCall, PlacedCall, Tools!Row, Same
  <2>10. Tools!Seen' = Tools!Seen  BY <1>1 DEF Tools!Seen
  <2> QED
    BY <1>1, <2>1, <2>2, <2>3, <2>5, <2>6, <2>8, <2>9, <2>10 DEF FitsCall, Same
<1>4. \A e \in Tools!Call : ~Tools!Called(e) => toolCall'[e] = Tools!Idle  BY <1>1 DEF Tools!Called, Tools!UnderWay
<1>5. Tools!Idle \notin CallRec  BY DEF Tools!Idle, CallRec, CallPc, Waiting, Tools!Ended
<1>6. \A e \in Tools!Call : Tools!Called(e)' <=> Tools!Called(e)  BY <1>3, <1>4, <1>5 DEF Tools!Called
<1>7. toolCall' \in [Tools!Call -> {Tools!Idle} \cup CallRec]  BY <1>1, <1>3, <1>4
<1>8. CallTypes'  BY <1>1, <1>2, <1>7 DEF CallsInv, CallTypes
<1>9. \A e \in Tools!Call : ~Tools!Called(e)' => agent'[e] = "none"  BY <1>1, <1>6, CalledTyped
<1>10. \A row \in known' : Tools!Called(row.call)'  BY <1>1, <1>6 DEF CallsInv, CallTypes
<1> QED  BY <1>3, <1>6, <1>8, <1>9, <1>10 DEF CallsInv

LEMMA CallsInit == Tools!Init => CallsInv
<1> SUFFICES ASSUME Tools!Init PROVE CallsInv  OBVIOUS
<1>1. \A c \in Tools!Call : ~Tools!Called(c) /\ agent[c] = "none"  BY DEF Tools!Init, Tools!Called
<1>2. plans \in Seq(Plan) /\ Len(plans) = 0 /\ shell = <<>>  BY DEF Tools!Init
<1>3. shell \in Seq({"pending", "stored", "missed", "lost"}) /\ Len(shell) = 0  BY <1>2
<1>4. CallTypes
  <2>1. 0 <= MaxRuns /\ Len(plans) = Len(shell)  BY <1>2, <1>3, CallsAssumption
  <2>2. /\ toolCall \in [Tools!Call -> {Tools!Idle} \cup CallRec]
        /\ agent \in [Tools!Call -> {"none", "working", "reported"}]
    BY DEF Tools!Init
  <2>3. known \subseteq [call : Tools!Call, run : DOMAIN plans, packet : Nat]  BY DEF Tools!Init
  <2>4. set \in Setting /\ liveOnly \in BOOLEAN /\ active \in {0} \cup DOMAIN plans
        /\ stash \in {0, Len(plans)}
    BY DEF Tools!Init
  <2> QED  BY <1>2, <1>3, <2>1, <2>2, <2>3, <2>4 DEF CallTypes
<1> QED  BY <1>1, <1>4 DEF Tools!Init, CallsInv

LEMMA CallsNext == ASSUME CallsInv, [Tools!Next]_(Tools!vars) PROVE CallsInv'
<1>1. CASE UNCHANGED Tools!vars
  <2>1. CallTypes'  BY <1>1 DEF Tools!vars, CallsInv, CallTypes
  <2> QED  BY <1>1, <2>1, PlansKeep DEF Tools!vars
<1>2. CASE Tools!Next
  <2>1. CASE \E plan \in Plan : Tools!Delegate(plan)  BY <2>1, DelegateKeeps
  <2>2. CASE \E d \in DOMAIN plans : Tools!Persist(d) \/ Tools!PersistFails(d)  BY <2>2, PersistKeeps
  <2>3. ASSUME NEW c \in Tools!Call, Tools!Begin(c) PROVE CallsInv'
    BY <2>3, InvokeKeeps, AskKeeps DEF Tools!Begin
  <2>4. ASSUME NEW c \in Tools!Call, Tools!Step(c) PROVE CallsInv'
    BY <2>4, MergeKeeps, GateKeeps, BindKeeps, SendKeeps, RecordKeeps, WaitKeeps, LiveKeeps,
       LinkKeeps, FileKeeps DEF Tools!Step
  <2>5. ASSUME NEW c \in Tools!Call, Tools!Report(c) PROVE CallsInv'  BY <2>5, ReportKeeps
  <2>6. CASE Tools!Crash  BY <2>6, CallsCrashKeeps
  <2> QED  BY <1>2, <2>1, <2>2, <2>3, <2>4, <2>5, <2>6 DEF Tools!Next
<1> QED  BY <1>1, <1>2

\* What every call knows of itself is so at each of its steps
\* (externalToolInvocationFlow.js).
THEOREM CallsInvariant == Tools!Spec => []CallsInv
<1>1. CallsInv /\ [Tools!Next]_(Tools!vars) => CallsInv'  BY CallsNext
<1> QED  BY <1>1, CallsInit, PTL DEF Tools!Spec

-----------------------------------------------------------------------------
(* The two side by side: a behaviour of the whole is one of each. *)

LEMMA PartsAreBoth == PartsSpec => Spec /\ Tools!Spec
<1>1. PartsInit => Init /\ Tools!Init  BY DEF PartsInit
<1>2. [PartsNext]_<<part, vars, toolVars>> => [Next]_vars /\ [Tools!Next]_(Tools!vars)
  BY DEF PartsNext, toolVars, vars, Tools!vars
<1> QED  BY <1>1, <1>2, PTL DEF PartsSpec, Spec, Tools!Spec

\* What a call tells of itself is true, of any calls and delegations in any
\* environment (externalToolInvocationFlow.js).
THEOREM OutcomesAreTrue == PartsSpec => []OutcomeIsTrue
<1>1. CallsInv => OutcomeIsTrue  BY CallsGiveOutcome DEF OutcomeIsTrue
<1> QED  BY <1>1, PartsAreBoth, CallsInvariant, PTL

\* A packet's agent can be placed from the moment it exists, and was sent no
\* earlier delegation's patch (delegateEmitPatchStash.js).
THEOREM AgentsAreOfTheirPackets == PartsSpec => []AgentIsOfItsPacket
<1>1. CallsInv => AgentIsOfItsPacket  BY CallsGivePlaces DEF AgentIsOfItsPacket
<1> QED  BY <1>1, PartsAreBoth, CallsInvariant, PTL

\* Both parts keep their types.
THEOREM PartsTyped == PartsSpec => []PartsTypeOK
<1>1. Inv /\ CallsInv => PartsTypeOK
  BY CallsGiveTypes DEF Inv, PartsTypeOK
<1> QED  BY <1>1, PartsAreBoth, StoreInvariant, CallsInvariant, PTL
=============================================================================
