---------------------------- MODULE FreightProofs ----------------------------
(***************************************************************************)
(* What holds of service orders, quotations and component pages for every  *)
(* number of orders, containers, movements, documents, quotations,         *)
(* revisions, rows and requests: movements stay numbered apart, a deletion *)
(* takes only what it checked, the store has what its rows say, what was   *)
(* offered stands, and a save changes only what was typed.                 *)
(***************************************************************************)
EXTENDS Quotations, Orders, Capture, FiniteSetTheorems, WellFoundedInduction, TLAPS

(* A set of naturals that is not empty has a least element.                 *)
LEMMA LeastExists ==
    ASSUME NEW S \in SUBSET Nat, S # {}
    PROVE  \E x \in S : \A y \in S : x <= y
<1>1. PICK x \in S : \A y \in S : ~(<<y, x>> \in OpToRel(<, Nat))
  BY NatLessThanWellFounded, WFMin
<1>2. \A y \in S : x <= y
  <2> SUFFICES ASSUME NEW y \in S PROVE x <= y
    OBVIOUS
  <2>1. <<y, x>> \in OpToRel(<, Nat) <=> y < x
    BY Zenon DEF OpToRel
  <2>2. ~(y < x)
    BY <1>1, <2>1, Zenon
  <2> QED BY <2>2
<1> QED BY <1>2

-----------------------------------------------------------------------------
(***************************************************************************)
(* Part one: service orders.  Rows keep their columns, and what a request   *)
(* has checked of the order it read is true of what it read.                *)
(***************************************************************************)
Tables ==
    /\ DOMAIN jobs = Jobs
    /\ \A j \in Jobs : DOMAIN jobs[j] = {"status", "paying", "charged", "financed"}
    /\ DOMAIN boxes = Boxes /\ \A b \in Boxes : DOMAIN boxes[b] = {"job", "label"}
    /\ DOMAIN legs = Legs /\ \A l \in Legs : DOMAIN legs[l] = {"job", "seq"}
    /\ DOMAIN marks = Marks /\ \A m \in Marks : DOMAIN marks[m] = {"job", "code"}
Writes == {"save", "status", "erase", "add_box", "drop_box", "add_leg", "renumber", "add_mark"}
Checked(step, d) ==
    /\ step \in Writes => d.job \in Jobs
    /\ step \in {"add_leg", "renumber"} => d.seq \notin d.seen.seqs
    /\ step = "add_mark" => d.code \notin d.seen.codes
    /\ step = "erase" => d.seen.job.status = "INACTIVE" /\ ~d.seen.job.charged
    /\ step = "drop_box" => ~(d.row \in d.seen.job.paying /\ d.row \in d.seen.numbered)
    /\ step = "status" => d.to \in {"ACTIVE", "FINISHED", "INACTIVE"}
Desks ==
    /\ DOMAIN clerking = Clerks /\ DOMAIN desk = Clerks
    /\ \A r \in Clerks : Checked(clerking[r], desk[r])
OrdersInv == Tables /\ Desks /\ RowsNumberedApart

(* The least of a set of rows is one of them.                               *)
LEMMA LeastIsOne ==
    ASSUME NEW S \in SUBSET Nat, S # {}
    PROVE  Min(S) \in S
BY LeastExists DEF Min

(* What a request reads and asks for leaves the tables as they are.         *)
LEMMA ReadingChecks ==
    ASSUME OrdersInv, NEW r \in Clerks, NEW j \in Jobs, NEW step, NEW asked,
           ReadJob(r, j, step, asked),
           Checked(step, [asked EXCEPT !.job = j, !.seen = Seen(j)])
    PROVE  OrdersInv'
<1>1. /\ clerking' = [clerking EXCEPT ![r] = step]
      /\ desk' = [desk EXCEPT ![r] = [asked EXCEPT !.job = j, !.seen = Seen(j)]]
      /\ UNCHANGED <<jobs, boxes, legs, marks, late>>
  BY DEF ReadJob, orderRows
<1> DEFINE d == [asked EXCEPT !.job = j, !.seen = Seen(j)]
<1> HIDE DEF d
<1>2. Checked(step, d) /\ desk' = [desk EXCEPT ![r] = d]
  BY <1>1 DEF d
<1>3. Desks'
  BY <1>1, <1>2 DEF OrdersInv, Desks, Checked
<1>4. Tables' /\ RowsNumberedApart'
  BY <1>1 DEF OrdersInv, Tables, RowsNumberedApart
<1> QED BY <1>3, <1>4 DEF OrdersInv

(* A request that ends has nothing left to be true.                         *)
LEMMA EndingClears ==
    ASSUME Desks, NEW r \in Clerks, EndClerk(r)
    PROVE  Desks'
<1>1. clerking' = [clerking EXCEPT ![r] = "idle"] /\ desk' = [desk EXCEPT ![r] = ClearDesk]
  BY DEF EndClerk
<1>2. Checked("idle", ClearDesk)
  BY DEF Checked, Writes
<1> QED BY <1>1, <1>2 DEF Desks, Checked

(* A request that writes has read an order that exists; unless it is late,  *)
(* the order and the rows under it are as it read them.                     *)
LEMMA WritingChecked ==
    ASSUME OrdersInv, NEW r \in Clerks, NEW step \in Writes, CommitJob(r, step)
    PROVE  /\ desk[r].job \in Jobs /\ JobExists(desk[r].job)
           /\ clerking[r] = step /\ Checked(step, desk[r]) /\ Desks'
           /\ \A j \in Jobs : j \notin late' => j \notin late
           /\ desk[r].job \notin late' => desk[r].seen = Seen(desk[r].job)
<1>1. clerking[r] = step /\ JobExists(desk[r].job) /\ EndClerk(r)
      /\ late' = IF Seen(desk[r].job) = desk[r].seen THEN late ELSE late \cup {desk[r].job}
  BY DEF CommitJob
<1>2. Checked(step, desk[r])
  BY <1>1 DEF OrdersInv, Desks
<1>3. desk[r].job \in Jobs
  BY <1>2 DEF Checked
<1> QED BY <1>1, <1>2, <1>3, EndingClears DEF OrdersInv

(* OrdersInv is inductive.                                                  *)
LEMMA OrdersInvStep == OrdersInv /\ [OrdersNext]_orderVars => OrdersInv'
<1> SUFFICES ASSUME OrdersInv, [OrdersNext]_orderVars PROVE OrdersInv'
    OBVIOUS
<1>s. Tables /\ Desks /\ RowsNumberedApart
  BY DEF OrdersInv
<1>n. \A j \in Jobs : j # NoJob
  BY OrdersAssumption
<1>1. ASSUME NEW j \in Jobs, NEW prepared \in SUBSET Boxes, CreateJob(j, prepared) PROVE OrdersInv'
  BY <1>1, <1>s DEF CreateJob, OrdersInv, Tables, Desks, RowsNumberedApart, Checked
<1>2. ASSUME NEW j \in Jobs, NEW financed \in BOOLEAN, ChargeJob(j, financed) PROVE OrdersInv'
  BY <1>2, <1>s DEF ChargeJob, OrdersInv, Tables, Desks, RowsNumberedApart, Checked
<1>3. ASSUME NEW j \in Jobs, NEW l \in Legs, DropLeg(j, l) PROVE OrdersInv'
  <2>1. DOMAIN NoLeg = {"job", "seq"} /\ NoLeg.job = NoJob
    BY DEF NoLeg
  <2>2. /\ legs' = [legs EXCEPT ![l] = NoLeg]
        /\ UNCHANGED <<jobs, boxes, marks, clerking, desk, late>>
    BY <1>3 DEF DropLeg
  <2> QED BY <1>s, <1>n, <2>1, <2>2 DEF OrdersInv, Tables, Desks, RowsNumberedApart, Checked
<1>4. ASSUME NEW j \in Jobs, NEW m \in Marks, DropMark(j, m) PROVE OrdersInv'
  <2>1. DOMAIN NoMark = {"job", "code"} /\ NoMark.job = NoJob
    BY DEF NoMark
  <2>2. /\ marks' = [marks EXCEPT ![m] = NoMark]
        /\ UNCHANGED <<jobs, boxes, legs, clerking, desk, late>>
    BY <1>4 DEF DropMark
  <2> QED BY <1>s, <1>n, <2>1, <2>2 DEF OrdersInv, Tables, Desks, RowsNumberedApart, Checked
<1>5. ASSUME NEW r \in Clerks, NEW j \in Jobs, Reading(r, j) PROVE OrdersInv'
  <2> DEFINE at(asked) == [asked EXCEPT !.job = j, !.seen = Seen(j)]
  <2> USE DEF Checked, Writes, ClearDesk
  <2>1. ASSUME NEW paying \in SUBSET Boxes, NEW supplied \in BOOLEAN,
               ReadToSave(r, j, paying, supplied)
        PROVE  OrdersInv'
    <3> DEFINE asked == [ClearDesk EXCEPT !.paying = IF supplied THEN paying ELSE jobs[j].paying]
    <3>1. ReadJob(r, j, "save", asked)
      BY <2>1 DEF ReadToSave
    <3>2. Checked("save", at(asked))
      OBVIOUS
    <3> QED BY <3>1, <3>2, ReadingChecks
  <2>2. CASE ReadToFinish(r, j)
    <3> DEFINE asked == [ClearDesk EXCEPT !.to = "FINISHED"]
    <3>1. ReadJob(r, j, "status", asked)
      BY <2>2 DEF ReadToFinish
    <3>2. Checked("status", at(asked))
      OBVIOUS
    <3> QED BY <3>1, <3>2, ReadingChecks
  <2>3. ASSUME NEW to \in {"ACTIVE", "INACTIVE"}, ReadToSetStatus(r, j, to) PROVE OrdersInv'
    <3> DEFINE asked == [ClearDesk EXCEPT !.to = to]
    <3>1. ReadJob(r, j, "status", asked)
      BY <2>3 DEF ReadToSetStatus
    <3>2. Checked("status", at(asked))
      OBVIOUS
    <3> QED BY <3>1, <3>2, ReadingChecks
  <2>4. CASE ReadToErase(r, j)
    <3>1. ReadJob(r, j, "erase", ClearDesk) /\ jobs[j].status = "INACTIVE" /\ ~jobs[j].charged
      BY <2>4 DEF ReadToErase, Erasable
    <3>2. Checked("erase", at(ClearDesk))
      BY <3>1 DEF Seen
    <3> QED BY <3>1, <3>2, ReadingChecks
  <2>5. ASSUME NEW b \in 0 .. MaxBoxes, NEW label \in Labels, ReadToAddBox(r, j, b, label)
        PROVE  OrdersInv'
    <3> DEFINE asked == [ClearDesk EXCEPT !.row = b, !.label = label]
    <3>1. ReadJob(r, j, "add_box", asked)
      BY <2>5 DEF ReadToAddBox
    <3>2. Checked("add_box", at(asked))
      OBVIOUS
    <3> QED BY <3>1, <3>2, ReadingChecks
  <2>6. ASSUME NEW b \in Boxes, ReadToDropBox(r, j, b) PROVE OrdersInv'
    <3> DEFINE asked == [ClearDesk EXCEPT !.row = b]
    <3>1. ReadJob(r, j, "drop_box", asked) /\ ~(b \in jobs[j].paying /\ boxes[b].label # Unlabelled)
      BY <2>6 DEF ReadToDropBox, Droppable, Payable
    <3>2. Checked("drop_box", at(asked))
      BY <3>1 DEF Seen
    <3> QED BY <3>1, <3>2, ReadingChecks
  <2>7. ASSUME NEW seq \in 1 .. MaxLeg, ReadToAddLeg(r, j, seq) PROVE OrdersInv'
    <3> DEFINE asked == [ClearDesk EXCEPT !.seq = seq]
    <3>1. ReadJob(r, j, "add_leg", asked) /\ seq \notin SeqsOf(j)
      BY <2>7 DEF ReadToAddLeg
    <3>2. Checked("add_leg", at(asked))
      BY <3>1 DEF Seen, SeqsOf
    <3> QED BY <3>1, <3>2, ReadingChecks
  <2>8. ASSUME NEW l \in Legs, NEW seq \in 1 .. MaxLeg, ReadToRenumber(r, j, l, seq)
        PROVE  OrdersInv'
    <3> DEFINE asked == [ClearDesk EXCEPT !.row = l, !.seq = seq]
    <3>1. ReadJob(r, j, "renumber", asked) /\ seq \notin SeqsOf(j)
      BY <2>8 DEF ReadToRenumber, Renumberable
    <3>2. Checked("renumber", at(asked))
      BY <3>1 DEF Seen, SeqsOf
    <3> QED BY <3>1, <3>2, ReadingChecks
  <2>9. ASSUME NEW code \in Codes, ReadToAddMark(r, j, code) PROVE OrdersInv'
    <3> DEFINE asked == [ClearDesk EXCEPT !.code = code]
    <3>1. ReadJob(r, j, "add_mark", asked)
          /\ \A k \in Marks : marks[k].job = j => marks[k].code # code
      BY <2>9 DEF ReadToAddMark
    <3>2. Checked("add_mark", at(asked))
      BY <3>1 DEF Seen
    <3> QED BY <3>1, <3>2, ReadingChecks
  <2> HIDE DEF at, Checked, Writes, ClearDesk
  <2> QED BY <1>5, <2>1, <2>2, <2>3, <2>4, <2>5, <2>6, <2>7, <2>8, <2>9 DEF Reading
<1>6. ASSUME NEW r \in Clerks, SaveJob(r) PROVE OrdersInv'
  <2>1. CommitJob(r, "save") /\ "save" \in Writes
        /\ jobs' = [jobs EXCEPT ![desk[r].job].paying = desk[r].paying]
        /\ UNCHANGED <<boxes, legs, marks>>
    BY <1>6 DEF SaveJob, Writes
  <2>2. Desks' /\ \A j \in Jobs : j \notin late' => j \notin late
    BY <2>1, WritingChecked
  <2> QED BY <1>s, <2>1, <2>2 DEF OrdersInv, Tables, RowsNumberedApart
<1>7. ASSUME NEW r \in Clerks, WriteStatus(r) PROVE OrdersInv'
  <2>1. CommitJob(r, "status") /\ "status" \in Writes
        /\ jobs' = [jobs EXCEPT ![desk[r].job].status = desk[r].to]
        /\ UNCHANGED <<boxes, legs, marks>>
    BY <1>7 DEF WriteStatus, Writes
  <2>2. Desks' /\ \A j \in Jobs : j \notin late' => j \notin late
    BY <2>1, WritingChecked
  <2> QED BY <1>s, <2>1, <2>2 DEF OrdersInv, Tables, RowsNumberedApart
<1>8. ASSUME NEW r \in Clerks, EraseJob(r) PROVE OrdersInv'
  <2> DEFINE e == desk[r].job
  <2>1. CommitJob(r, "erase") /\ "erase" \in Writes
        /\ jobs' = [jobs EXCEPT ![e] = [AbsentJob EXCEPT !.status = "ERASED"]]
        /\ boxes' = [b \in Boxes |-> IF boxes[b].job = e THEN NoBox ELSE boxes[b]]
        /\ legs' = [l \in Legs |-> IF legs[l].job = e THEN NoLeg ELSE legs[l]]
        /\ marks' = [m \in Marks |-> IF marks[m].job = e THEN NoMark ELSE marks[m]]
    BY <1>8 DEF EraseJob, Writes
  <2>2. Desks' /\ \A j \in Jobs : j \notin late' => j \notin late
    BY <2>1, WritingChecked
  <2>3. /\ DOMAIN NoBox = {"job", "label"} /\ DOMAIN NoLeg = {"job", "seq"}
        /\ DOMAIN NoMark = {"job", "code"} /\ NoLeg.job = NoJob /\ NoMark.job = NoJob
        /\ DOMAIN AbsentJob = {"status", "paying", "charged", "financed"}
    BY DEF NoBox, NoLeg, NoMark, AbsentJob
  <2>4. Tables'
    BY <1>s, <2>1, <2>3 DEF Tables
  <2>5. RowsNumberedApart'
    BY <1>s, <1>n, <2>1, <2>2, <2>3 DEF RowsNumberedApart
  <2> QED BY <2>2, <2>4, <2>5 DEF OrdersInv
<1>9. ASSUME NEW r \in Clerks, AddBox(r) PROVE OrdersInv'
  <2> DEFINE b == IF desk[r].row = 0 THEN Min(FreeRow(boxes)) ELSE desk[r].row
  <2>1. CommitJob(r, "add_box") /\ "add_box" \in Writes
        /\ boxes' = [boxes EXCEPT ![b] = [job |-> desk[r].job, label |-> desk[r].label]]
        /\ UNCHANGED <<jobs, legs, marks>>
    BY <1>9 DEF AddBox, Writes
  <2>2. Desks' /\ \A j \in Jobs : j \notin late' => j \notin late
    BY <2>1, WritingChecked
  <2> HIDE DEF b
  <2> QED BY <1>s, <2>1, <2>2 DEF OrdersInv, Tables, RowsNumberedApart
<1>10. ASSUME NEW r \in Clerks, DropBox(r) PROVE OrdersInv'
  <2>1. CommitJob(r, "drop_box") /\ "drop_box" \in Writes
        /\ boxes' = [boxes EXCEPT ![desk[r].row] = NoBox]
        /\ UNCHANGED <<jobs, legs, marks>>
    BY <1>10 DEF DropBox, Writes
  <2>2. Desks' /\ \A j \in Jobs : j \notin late' => j \notin late
    BY <2>1, WritingChecked
  <2>3. DOMAIN NoBox = {"job", "label"}
    BY DEF NoBox
  <2> QED BY <1>s, <2>1, <2>2, <2>3 DEF OrdersInv, Tables, RowsNumberedApart
<1>11. ASSUME NEW r \in Clerks, AddLeg(r) PROVE OrdersInv'
  <2> DEFINE e == desk[r].job
             new == Min(FreeRow(legs))
  <2>1. CommitJob(r, "add_leg") /\ "add_leg" \in Writes /\ FreeRow(legs) # {}
        /\ legs' = [legs EXCEPT ![new] = [job |-> e, seq |-> desk[r].seq]]
        /\ UNCHANGED <<jobs, boxes, marks>>
    BY <1>11 DEF AddLeg, Writes
  <2>2. /\ e \in Jobs /\ Desks' /\ Checked("add_leg", desk[r])
        /\ \A j \in Jobs : j \notin late' => j \notin late
        /\ e \notin late' => desk[r].seen = Seen(e)
    BY <2>1, WritingChecked
  <2>3. e \notin late' => \A l \in Legs : legs[l].job = e => legs[l].seq # desk[r].seq
    BY <2>2 DEF Checked, Seen
  <2>4. new \in Legs /\ legs[new].job = NoJob
    <3>1. FreeRow(legs) \in SUBSET Nat /\ FreeRow(legs) \subseteq Legs
      BY <1>s DEF FreeRow, Tables, Legs
    <3> QED BY <2>1, <3>1, LeastIsOne DEF FreeRow
  <2> HIDE DEF new
  <2>5. Tables'
    BY <1>s, <2>1 DEF Tables
  <2>6. /\ legs'[new].job = e /\ legs'[new].seq = desk[r].seq
        /\ \A l \in Legs \ {new} : legs'[l] = legs[l]
    BY <1>s, <2>1, <2>4 DEF Tables
  <2>7. RowsNumberedApart'
    BY <1>s, <1>n, <2>1, <2>2, <2>3, <2>4, <2>6 DEF RowsNumberedApart
  <2> QED BY <2>2, <2>5, <2>7 DEF OrdersInv
<1>12. ASSUME NEW r \in Clerks, Renumber(r) PROVE OrdersInv'
  <2> DEFINE e == desk[r].job
             at == desk[r].row
  <2>1. CommitJob(r, "renumber") /\ "renumber" \in Writes /\ legs[at].job = e
        /\ legs' = [legs EXCEPT ![at].seq = desk[r].seq]
        /\ UNCHANGED <<jobs, boxes, marks>>
    BY <1>12 DEF Renumber, Writes
  <2>2. /\ e \in Jobs /\ Desks' /\ Checked("renumber", desk[r])
        /\ \A j \in Jobs : j \notin late' => j \notin late
        /\ e \notin late' => desk[r].seen = Seen(e)
    BY <2>1, WritingChecked
  <2>3. e \notin late' => \A l \in Legs : legs[l].job = e => legs[l].seq # desk[r].seq
    BY <2>2 DEF Checked, Seen
  <2>4. Tables'
    BY <1>s, <2>1 DEF Tables
  <2>5. /\ \A l \in Legs \ {at} : legs'[l] = legs[l]
        /\ at \in Legs => legs'[at].job = e /\ legs'[at].seq = desk[r].seq
    BY <1>s, <2>1 DEF Tables
  <2>6. RowsNumberedApart'
    BY <1>s, <2>1, <2>2, <2>3, <2>5 DEF RowsNumberedApart
  <2> QED BY <2>2, <2>4, <2>6 DEF OrdersInv
<1>13. ASSUME NEW r \in Clerks, AddMark(r) PROVE OrdersInv'
  <2> DEFINE e == desk[r].job
             new == Min(FreeRow(marks))
  <2>1. CommitJob(r, "add_mark") /\ "add_mark" \in Writes /\ FreeRow(marks) # {}
        /\ marks' = [marks EXCEPT ![new] = [job |-> e, code |-> desk[r].code]]
        /\ UNCHANGED <<jobs, boxes, legs>>
    BY <1>13 DEF AddMark, Writes
  <2>2. /\ e \in Jobs /\ Desks' /\ Checked("add_mark", desk[r])
        /\ \A j \in Jobs : j \notin late' => j \notin late
        /\ e \notin late' => desk[r].seen = Seen(e)
    BY <2>1, WritingChecked
  <2>3. e \notin late' => \A m \in Marks : marks[m].job = e => marks[m].code # desk[r].code
    BY <2>2 DEF Checked, Seen
  <2>4. new \in Marks /\ marks[new].job = NoJob
    <3>1. FreeRow(marks) \in SUBSET Nat /\ FreeRow(marks) \subseteq Marks
      BY <1>s DEF FreeRow, Tables, Marks
    <3> QED BY <2>1, <3>1, LeastIsOne DEF FreeRow
  <2> HIDE DEF new
  <2>5. Tables'
    BY <1>s, <2>1 DEF Tables
  <2>6. /\ marks'[new].job = e /\ marks'[new].code = desk[r].code
        /\ \A m \in Marks \ {new} : marks'[m] = marks[m]
    BY <1>s, <2>1, <2>4 DEF Tables
  <2>7. RowsNumberedApart'
    BY <1>s, <1>n, <2>1, <2>2, <2>3, <2>4, <2>6 DEF RowsNumberedApart
  <2> QED BY <2>2, <2>5, <2>7 DEF OrdersInv
<1>14. ASSUME NEW r \in Clerks, Filing(r) \/ AbandonClerk(r) PROVE OrdersInv'
  <2>1. UNCHANGED <<jobs, boxes, legs, marks, late>>
    BY <1>14 DEF Filing, PutObject, CommitFile, LinkFile, DropObject, DeleteFile, AbandonClerk,
                 orderRows
  <2>2. Desks'
    <3>1. CASE EndClerk(r)
      BY <1>s, <3>1, EndingClears
    <3>2. CASE /\ clerking' \in {[clerking EXCEPT ![r] = step] :
                                    step \in {"store_file", "link_file", "delete_file"}}
               /\ DOMAIN desk' = Clerks /\ \A o \in Clerks \ {r} : desk'[o] = desk[o]
      BY <1>s, <3>2 DEF Desks, Checked, Writes
    <3>3. ASSUME NEW f \in Files, NEW j \in Jobs \cup {NoJob}, PutObject(r, f, j)
          PROVE  Desks'
      BY <1>s, <3>2, <3>3 DEF PutObject, Desks
    <3>4. CASE CommitFile(r)
      BY <1>s, <3>1, <3>2, <3>4 DEF CommitFile, Desks
    <3>5. ASSUME NEW f \in Files, NEW fails \in BOOLEAN, DropObject(r, f, fails) PROVE Desks'
      BY <1>s, <3>2, <3>5 DEF DropObject, Desks
    <3> QED BY <1>14, <3>1, <3>3, <3>4, <3>5 DEF Filing, LinkFile, DeleteFile, AbandonClerk
  <2> QED BY <1>s, <2>1, <2>2 DEF OrdersInv, Tables, RowsNumberedApart
<1>15. CASE UNCHANGED orderVars
  BY <1>15, <1>s DEF orderVars, orderRows, OrdersInv, Tables, Desks, RowsNumberedApart, Checked
<1> QED
  BY <1>1, <1>2, <1>3, <1>4, <1>5, <1>6, <1>7, <1>8, <1>9, <1>10, <1>11, <1>12, <1>13, <1>14, <1>15
     DEF OrdersNext, Writing

LEMMA OrdersInvInit == OrdersInit => OrdersInv
<1> SUFFICES ASSUME OrdersInit PROVE OrdersInv
    OBVIOUS
<1>1. Tables
  BY DEF OrdersInit, Tables, AbsentJob, NoBox, NoLeg, NoMark
<1>2. Desks
  BY DEF OrdersInit, Desks, Checked, Writes
<1>3. RowsNumberedApart
  BY OrdersAssumption DEF OrdersInit, RowsNumberedApart, NoLeg, NoMark
<1> QED BY <1>1, <1>2, <1>3 DEF OrdersInv

(* The movements of an order keep their numbers apart, and its milestones   *)
(* their codes, for any number of orders, rows and requests, unless a       *)
(* request wrote to the order after another had changed what it had read.   *)
THEOREM MovementsNumberedApart == OrdersSpec => []RowsNumberedApart
<1>1. OrdersInv => RowsNumberedApart
  BY DEF OrdersInv
<1> QED BY OrdersInvInit, OrdersInvStep, <1>1, PTL DEF OrdersSpec

-----------------------------------------------------------------------------
(* What DeletionsTakeWhatTheyChecked says of a step and one order.          *)
TakesWhatItChecked(j) ==
    /\ JobExists(j) /\ ~JobExists(j)' =>
        /\ ~jobs[j].financed
        /\ j \notin late' => jobs[j].status = "INACTIVE" /\ ~jobs[j].charged
    /\ j \notin late' /\ JobExists(j)' => \A b \in Boxes :
        boxes[b].job = j /\ Payable(j, b) => boxes'[b].job = j

(* A step that leaves every order that exists in existence, and every       *)
(* container under its order, deletes nothing.                              *)
LEMMA NothingDeleted ==
    ASSUME NEW j \in Jobs, JobExists(j) => JobExists(j)',
           \A b \in Boxes : boxes[b].job = j => boxes'[b].job = j
    PROVE  TakesWhatItChecked(j)
BY DEF TakesWhatItChecked

(* A deletion finds what it had checked, or it is late.                     *)
LEMMA DeletionStep ==
    ASSUME OrdersInv, [OrdersNext]_orderVars, NEW j \in Jobs
    PROVE  TakesWhatItChecked(j)
<1>s. Tables /\ Desks /\ j # NoJob
  BY OrdersAssumption DEF OrdersInv
<1>u. ASSUME UNCHANGED <<jobs, boxes>> PROVE TakesWhatItChecked(j)
  BY <1>u, NothingDeleted DEF JobExists
<1>1. ASSUME NEW k \in Jobs, NEW prepared \in SUBSET Boxes, CreateJob(k, prepared)
      PROVE  TakesWhatItChecked(j)
  <2>1. JobExists(j) => JobExists(j)'
    BY <1>1, <1>s DEF CreateJob, Tables, JobExists
  <2>2. \A b \in Boxes : boxes[b].job = j => boxes'[b].job = j
    BY <1>1, <1>s DEF CreateJob, Tables
  <2> QED BY <2>1, <2>2, NothingDeleted
<1>2. ASSUME NEW k \in Jobs, NEW financed \in BOOLEAN, ChargeJob(k, financed)
      PROVE  TakesWhatItChecked(j)
  <2>1. JobExists(j) => JobExists(j)'
    BY <1>2, <1>s DEF ChargeJob, Tables, JobExists
  <2> QED BY <1>2, <2>1, NothingDeleted DEF ChargeJob
<1>3. ASSUME NEW k \in Jobs, NEW l \in Legs, DropLeg(k, l) PROVE TakesWhatItChecked(j)
  BY <1>3, <1>u DEF DropLeg
<1>4. ASSUME NEW k \in Jobs, NEW m \in Marks, DropMark(k, m) PROVE TakesWhatItChecked(j)
  BY <1>4, <1>u DEF DropMark
<1>5. ASSUME NEW r \in Clerks, NEW k \in Jobs, NEW step, NEW asked, ReadJob(r, k, step, asked)
      PROVE  TakesWhatItChecked(j)
  BY <1>5, <1>u DEF ReadJob, orderRows
<1>6. ASSUME NEW r \in Clerks, NEW k \in Jobs, Reading(r, k) PROVE TakesWhatItChecked(j)
  BY <1>6, <1>5 DEF Reading, ReadToSave, ReadToFinish, ReadToSetStatus, ReadToErase, ReadToAddBox,
                    ReadToDropBox, ReadToAddLeg, ReadToRenumber, ReadToAddMark
<1>7. ASSUME NEW r \in Clerks, SaveJob(r) PROVE TakesWhatItChecked(j)
  <2>1. JobExists(j) => JobExists(j)'
    BY <1>7, <1>s DEF SaveJob, Tables, JobExists
  <2> QED BY <1>7, <2>1, NothingDeleted DEF SaveJob
<1>8. ASSUME NEW r \in Clerks, WriteStatus(r) PROVE TakesWhatItChecked(j)
  <2>1. CommitJob(r, "status") /\ "status" \in Writes
        /\ jobs' = [jobs EXCEPT ![desk[r].job].status = desk[r].to] /\ boxes' = boxes
    BY <1>8 DEF WriteStatus, Writes
  <2>2. desk[r].to \in {"ACTIVE", "FINISHED", "INACTIVE"}
    BY <2>1, WritingChecked DEF Checked
  <2>3. JobExists(j) => JobExists(j)'
    BY <2>1, <2>2, <1>s DEF Tables, JobExists
  <2> QED BY <2>1, <2>3, NothingDeleted
<1>9. ASSUME NEW r \in Clerks, EraseJob(r) PROVE TakesWhatItChecked(j)
  <2> DEFINE e == desk[r].job
  <2>1. CommitJob(r, "erase") /\ "erase" \in Writes /\ ~jobs[e].financed
        /\ jobs' = [jobs EXCEPT ![e] = [AbsentJob EXCEPT !.status = "ERASED"]]
        /\ boxes' = [b \in Boxes |-> IF boxes[b].job = e THEN NoBox ELSE boxes[b]]
    BY <1>9 DEF EraseJob, Writes
  <2>2. e \in Jobs /\ Checked("erase", desk[r]) /\ (e \notin late' => desk[r].seen = Seen(e))
    BY <2>1, WritingChecked
  <2>3. CASE j = e
    <3>1. ~JobExists(j)'
      BY <2>1, <2>2, <2>3, <1>s DEF Tables, JobExists, AbsentJob
    <3>2. j \notin late' => jobs[j].status = "INACTIVE" /\ ~jobs[j].charged
      BY <2>2, <2>3 DEF Checked, Seen
    <3> QED BY <2>1, <2>3, <3>1, <3>2 DEF TakesWhatItChecked
  <2>4. CASE j # e
    <3>1. jobs'[j] = jobs[j] /\ \A b \in Boxes : boxes[b].job = j => boxes'[b] = boxes[b]
      BY <2>1, <2>4, <1>s DEF Tables
    <3> QED BY <3>1, NothingDeleted DEF JobExists
  <2> QED BY <2>3, <2>4
<1>10. ASSUME NEW r \in Clerks, AddBox(r) PROVE TakesWhatItChecked(j)
  <2> DEFINE b == IF desk[r].row = 0 THEN Min(FreeRow(boxes)) ELSE desk[r].row
  <2>1. /\ IF desk[r].row = 0 THEN FreeRow(boxes) # {} ELSE boxes[b].job = desk[r].job
        /\ boxes' = [boxes EXCEPT ![b] = [job |-> desk[r].job, label |-> desk[r].label]]
        /\ jobs' = jobs
    BY <1>10 DEF AddBox
  <2>2. desk[r].row = 0 => boxes[b].job = NoJob
    <3> SUFFICES ASSUME desk[r].row = 0 PROVE Min(FreeRow(boxes)) \in FreeRow(boxes)
      BY DEF FreeRow
    <3>1. FreeRow(boxes) \in SUBSET Nat /\ FreeRow(boxes) # {}
      BY <1>s, <2>1 DEF FreeRow, Tables, Boxes
    <3> QED BY <3>1, LeastIsOne
  <2> HIDE DEF b
  <2>3. \A c \in Boxes : boxes[c].job = j => boxes'[c].job = j
    BY <1>s, <2>1, <2>2 DEF Tables
  <2> QED BY <2>1, <2>3, NothingDeleted DEF JobExists
<1>11. ASSUME NEW r \in Clerks, DropBox(r) PROVE TakesWhatItChecked(j)
  <2> DEFINE e == desk[r].job
             b == desk[r].row
  <2>1. CommitJob(r, "drop_box") /\ "drop_box" \in Writes /\ boxes[b].job = e
        /\ boxes' = [boxes EXCEPT ![b] = NoBox] /\ jobs' = jobs
    BY <1>11 DEF DropBox, Writes
  <2>2. Checked("drop_box", desk[r]) /\ (e \notin late' => desk[r].seen = Seen(e))
    BY <2>1, WritingChecked
  <2>3. ASSUME j \notin late', NEW c \in Boxes, boxes[c].job = j, Payable(j, c)
        PROVE  boxes'[c].job = j
    <3>1. CASE c # b
      BY <1>s, <2>1, <2>3, <3>1 DEF Tables
    <3>2. CASE c = b
      <4>1. j = e /\ desk[r].seen = Seen(j)
        BY <2>1, <2>2, <2>3, <3>2
      <4>2. b \in jobs[j].paying /\ boxes[b].label # Unlabelled
        BY <2>3, <3>2 DEF Payable
      <4>3. b \in Seen(j).job.paying /\ b \in Seen(j).numbered
        BY <2>3, <3>2, <4>2 DEF Seen
      <4> QED BY <2>2, <4>1, <4>3 DEF Checked
    <3> QED BY <3>1, <3>2
  <2>4. JobExists(j) => JobExists(j)'
    BY <2>1 DEF JobExists
  <2> QED BY <2>3, <2>4 DEF TakesWhatItChecked
<1>12. ASSUME NEW r \in Clerks, AddLeg(r) \/ Renumber(r) \/ AddMark(r) PROVE TakesWhatItChecked(j)
  BY <1>12, <1>u DEF AddLeg, Renumber, AddMark
<1>13. ASSUME NEW r \in Clerks, Filing(r) \/ AbandonClerk(r) PROVE TakesWhatItChecked(j)
  BY <1>13, <1>u DEF Filing, PutObject, CommitFile, LinkFile, DropObject, DeleteFile, AbandonClerk,
                     orderRows
<1>14. CASE UNCHANGED orderVars
  BY <1>14, <1>u DEF orderVars, orderRows
<1> QED
  BY <1>1, <1>2, <1>3, <1>4, <1>6, <1>7, <1>8, <1>9, <1>10, <1>11, <1>12, <1>13, <1>14
     DEF OrdersNext, Writing

(* Orders and containers are deleted only as the deletions had checked, and *)
(* an order with financial documents never, with the same exception.        *)
THEOREM DeletionsAreChecked == OrdersSpec => DeletionsTakeWhatTheyChecked
<1>1. OrdersInv /\ [OrdersNext]_orderVars => [\A j \in Jobs : TakesWhatItChecked(j)]_orderVars
  BY DeletionStep
<1>2. OrdersSpec => [][\A j \in Jobs : TakesWhatItChecked(j)]_orderVars
  BY OrdersInvInit, OrdersInvStep, <1>1, PTL DEF OrdersSpec
<1> QED BY <1>2 DEF DeletionsTakeWhatTheyChecked, TakesWhatItChecked

-----------------------------------------------------------------------------
(* Uploads.  An object waits for its row, which one request will write; and *)
(* an object whose row is being deleted is gone, unless the store failed.   *)
Uploading ==
    /\ DOMAIN files = Files /\ \A f \in Files : DOMAIN files[f] = {"status", "link"}
    /\ DOMAIN clerking = Clerks /\ DOMAIN desk = Clerks
    /\ \A r \in Clerks : clerking[r] = "store_file" =>
          /\ desk[r].file \in Files /\ desk[r].file \in objects
          /\ files[desk[r].file].status = "ABSENT"
          /\ \A o \in Clerks \ {r} : clerking[o] = "store_file" => desk[o].file # desk[r].file
    /\ \A r \in Clerks : clerking[r] = "delete_file" =>
          /\ desk[r].file \in Files /\ files[desk[r].file].status # "ABSENT"
          /\ desk[r].file \in objects => desk[r].file \in halved
StoreInv == Uploading /\ StoreMatchesRows

LEMMA StoreInvStep == StoreInv /\ [OrdersNext]_orderVars => StoreInv'
<1> SUFFICES ASSUME StoreInv, [OrdersNext]_orderVars PROVE StoreInv'
    OBVIOUS
<1>s. Uploading /\ StoreMatchesRows
  BY DEF StoreInv
<1>1. ASSUME UNCHANGED <<fileRows, clerking, desk, halved>> PROVE StoreInv'
  BY <1>1, <1>s DEF fileRows, StoreInv, Uploading, StoreMatchesRows
<1>2. ASSUME NEW r \in Clerks, clerking[r] \notin {"store_file", "delete_file"},
             NEW step, step \notin {"store_file", "delete_file"}, NEW d,
             clerking' = [clerking EXCEPT ![r] = step], desk' = [desk EXCEPT ![r] = d],
             UNCHANGED <<fileRows, halved>>
      PROVE  StoreInv'
  BY <1>2, <1>s DEF fileRows, StoreInv, Uploading, StoreMatchesRows
<1>3. ASSUME NEW r \in Clerks, NEW j \in Jobs, NEW step, step \in Writes, NEW asked,
             ReadJob(r, j, step, asked)
      PROVE  StoreInv'
  <2>1. /\ clerking[r] = "idle" /\ clerking' = [clerking EXCEPT ![r] = step]
        /\ desk' = [desk EXCEPT ![r] = [asked EXCEPT !.job = j, !.seen = Seen(j)]]
        /\ UNCHANGED <<fileRows, halved>>
    BY <1>3 DEF ReadJob, StartClerk
  <2> QED BY <1>2, <1>3, <2>1 DEF Writes
<1>4. ASSUME NEW r \in Clerks, NEW step \in Writes, CommitJob(r, step) PROVE StoreInv'
  <2>1. /\ clerking[r] = step /\ clerking' = [clerking EXCEPT ![r] = "idle"]
        /\ desk' = [desk EXCEPT ![r] = ClearDesk] /\ UNCHANGED <<fileRows, halved>>
    BY <1>4 DEF CommitJob, EndClerk
  <2> QED BY <1>2, <2>1 DEF Writes
<1>5. ASSUME NEW r \in Clerks, NEW j \in Jobs, Reading(r, j) PROVE StoreInv'
  BY <1>3, <1>5 DEF Reading, Writes, ReadToSave, ReadToFinish, ReadToSetStatus, ReadToErase,
        ReadToAddBox, ReadToDropBox, ReadToAddLeg, ReadToRenumber, ReadToAddMark
<1>6. ASSUME NEW r \in Clerks, Writing(r) PROVE StoreInv'
  BY <1>4, <1>6 DEF Writing, Writes, SaveJob, WriteStatus, EraseJob, AddBox, DropBox, AddLeg,
        Renumber, AddMark
<1>7. ASSUME NEW r \in Clerks, NEW f \in Files, NEW j \in Jobs \cup {NoJob}, PutObject(r, f, j)
      PROVE  StoreInv'
  <2>1. /\ clerking[r] = "idle" /\ files[f].status = "ABSENT" /\ f \notin objects
        /\ objects' = objects \cup {f} /\ UNCHANGED <<files, halved>>
        /\ clerking' = [clerking EXCEPT ![r] = "store_file"]
        /\ desk' = [desk EXCEPT ![r] = [ClearDesk EXCEPT !.file = f, !.job = j]]
    BY <1>7 DEF PutObject, StartClerk
  <2>2. /\ clerking'[r] = "store_file" /\ desk'[r].file = f
        /\ \A o \in Clerks \ {r} : clerking'[o] = clerking[o] /\ desk'[o] = desk[o]
        /\ DOMAIN clerking' = Clerks /\ DOMAIN desk' = Clerks
    BY <1>s, <2>1 DEF Uploading, ClearDesk
  <2> QED BY <1>s, <2>1, <2>2 DEF StoreInv, Uploading, StoreMatchesRows
<1>8. ASSUME NEW r \in Clerks, CommitFile(r) PROVE StoreInv'
  <2> DEFINE f == desk[r].file
  <2>1. /\ clerking[r] = "store_file" /\ files' = [files EXCEPT ![f].status = "LIVE"]
        /\ UNCHANGED <<objects, halved>>
        /\ clerking'[r] \in {"idle", "link_file"} /\ DOMAIN clerking' = Clerks
        /\ DOMAIN desk' = Clerks
        /\ \A o \in Clerks \ {r} : clerking'[o] = clerking[o] /\ desk'[o] = desk[o]
    BY <1>8, <1>s DEF CommitFile, EndClerk, Uploading
  <2>2. /\ f \in Files /\ f \in objects
        /\ DOMAIN files' = Files /\ DOMAIN files'[f] = {"status", "link"}
        /\ files'[f].status = "LIVE" /\ \A g \in Files \ {f} : files'[g] = files[g]
    BY <1>s, <2>1 DEF Uploading
  <2> QED BY <1>s, <2>1, <2>2 DEF StoreInv, Uploading, StoreMatchesRows
<1>9. ASSUME NEW r \in Clerks, LinkFile(r) PROVE StoreInv'
  <2> DEFINE f == desk[r].file
  <2>1. /\ clerking[r] = "link_file" /\ files' = [files EXCEPT ![f].link = desk[r].job]
        /\ UNCHANGED <<objects, halved>>
        /\ clerking' = [clerking EXCEPT ![r] = "idle"] /\ desk' = [desk EXCEPT ![r] = ClearDesk]
    BY <1>9 DEF LinkFile, EndClerk
  <2>2. /\ DOMAIN files' = Files
        /\ \A g \in Files : DOMAIN files'[g] = {"status", "link"} /\ files'[g].status = files[g].status
    BY <1>s, <2>1 DEF Uploading
  <2> QED BY <1>s, <2>1, <2>2 DEF StoreInv, Uploading, StoreMatchesRows
<1>10. ASSUME NEW r \in Clerks, NEW f \in Files, NEW fails \in BOOLEAN, DropObject(r, f, fails)
       PROVE  StoreInv'
  <2>1. /\ clerking[r] = "idle" /\ files[f].status = "LIVE" /\ files' = files
        /\ objects' = IF fails THEN objects ELSE objects \ {f}
        /\ halved' = IF fails THEN halved \cup {f} ELSE halved
        /\ clerking' = [clerking EXCEPT ![r] = "delete_file"]
        /\ desk' = [desk EXCEPT ![r] = [ClearDesk EXCEPT !.file = f]]
    BY <1>10 DEF DropObject, StartClerk
  <2>2. /\ clerking'[r] = "delete_file" /\ desk'[r].file = f
        /\ \A o \in Clerks \ {r} : clerking'[o] = clerking[o] /\ desk'[o] = desk[o]
        /\ DOMAIN clerking' = Clerks /\ DOMAIN desk' = Clerks
    BY <1>s, <2>1 DEF Uploading, ClearDesk
  <2> QED BY <1>s, <2>1, <2>2 DEF StoreInv, Uploading, StoreMatchesRows
<1>11. ASSUME NEW r \in Clerks, DeleteFile(r) PROVE StoreInv'
  <2> DEFINE f == desk[r].file
  <2>1. /\ clerking[r] = "delete_file"
        /\ files' = [files EXCEPT ![f] = [status |-> "DELETED", link |-> NoJob]]
        /\ UNCHANGED <<objects, halved>>
        /\ clerking' = [clerking EXCEPT ![r] = "idle"] /\ desk' = [desk EXCEPT ![r] = ClearDesk]
    BY <1>11 DEF DeleteFile, EndClerk
  <2>2. /\ f \in Files /\ (f \in objects => f \in halved) /\ files[f].status # "ABSENT"
        /\ DOMAIN files' = Files /\ DOMAIN files'[f] = {"status", "link"}
        /\ files'[f].status = "DELETED" /\ \A g \in Files \ {f} : files'[g] = files[g]
    BY <1>s, <2>1 DEF Uploading
  <2> QED BY <1>s, <2>1, <2>2 DEF StoreInv, Uploading, StoreMatchesRows
<1>12. ASSUME NEW r \in Clerks, AbandonClerk(r) PROVE StoreInv'
  <2>1. /\ halved' = IF clerking[r] \in {"store_file", "delete_file"}
                     THEN halved \cup {desk[r].file} ELSE halved
        /\ UNCHANGED fileRows
        /\ clerking' = [clerking EXCEPT ![r] = "idle"] /\ desk' = [desk EXCEPT ![r] = ClearDesk]
    BY <1>12 DEF AbandonClerk, EndClerk
  <2> QED BY <1>s, <2>1 DEF fileRows, StoreInv, Uploading, StoreMatchesRows
<1>13. ASSUME NEW j \in Jobs,
              (\E prepared \in SUBSET Boxes : CreateJob(j, prepared))
              \/ (\E financed \in BOOLEAN : ChargeJob(j, financed))
              \/ (\E l \in Legs : DropLeg(j, l))
              \/ (\E m \in Marks : DropMark(j, m))
       PROVE  StoreInv'
  BY <1>1, <1>13 DEF CreateJob, ChargeJob, DropLeg, DropMark
<1>14. CASE UNCHANGED orderVars
  BY <1>1, <1>14 DEF orderVars
<1>15. ASSUME NEW r \in Clerks, Filing(r) PROVE StoreInv'
  BY <1>7, <1>8, <1>9, <1>10, <1>11, <1>15 DEF Filing
<1> HIDE DEF StoreInv
<1> QED
  BY <1>5, <1>6, <1>12, <1>13, <1>14, <1>15, Zenon DEF OrdersNext

(* The store has the objects of the live rows and no others, unless a       *)
(* request on them ended half-way or the store failed.                      *)
THEOREM StoreIsConsistent == OrdersSpec => []StoreMatchesRows
<1>1. OrdersInit => StoreInv
  BY DEF OrdersInit, StoreInv, Uploading, StoreMatchesRows, NoFile
<1>2. StoreInv => StoreMatchesRows
  BY DEF StoreInv
<1> QED BY <1>1, <1>2, StoreInvStep, PTL DEF OrdersSpec

(* The three together.                                                      *)
THEOREM ChecksHold == OrdersSpec => ChecksOutliveTheWait
<1>1. OrdersSpec => [](RowsNumberedApart /\ StoreMatchesRows)
  BY MovementsNumberedApart, StoreIsConsistent, PTL
<1> QED BY <1>1, DeletionsAreChecked, Zenon DEF ChecksOutliveTheWait

-----------------------------------------------------------------------------
(***************************************************************************)
(* Part two: quotations.  A request reads the header and a revision, waits,*)
(* and writes them; what it writes is right only if the revision it read   *)
(* is still the one it writes over, which stale remembers.  The inductive  *)
(* invariant says what the rows keep whatever overlaps (Offered), what the *)
(* waiting requests still know (Waiting), and what was answered (Replies). *)
(***************************************************************************)
Gone == {"ABSENT", "ERASED"}

(* The rows have their columns, and a living order names a revision.       *)
Tabled ==
    /\ DOMAIN quotations = Quotes
    /\ \A q \in Quotes : DOMAIN quotations[q] = {"status", "current", "source"}
    /\ DOMAIN revisions = Numbers
    /\ \A n \in Numbers : DOMAIN revisions[n] = {"status", "total", "lines"}
    /\ DOMAIN bookings = 1 .. MaxBookings
    /\ \A b \in 1 .. MaxBookings : DOMAIN bookings[b] = {"status", "of", "total", "lines"}
    /\ \A b \in 1 .. MaxBookings : Living(b) => bookings[b].of \in Numbers

(* A quotation has its first revision for as long as it exists, and no     *)
(* revision outlives it.                                                   *)
Existing == \A q \in Quotes :
    /\ Quoted(q) => revisions[<<q, 1>>].status # "ABSENT"
    /\ ~Quoted(q) => \A k \in RevisionNos : revisions[<<q, k>>].status = "ABSENT"

(* A revision's total is that of its lines, but for late writes.           *)
Agreeing == \A n \in Numbers : n \notin stale => revisions[n].total = revisions[n].lines

Offered == Tabled /\ Existing /\ Agreeing /\ BookingCarriesItsOffer

(* What a request that is not idle knows.                                  *)
Offering == QuotingSteps \ {"idle", "delete_write", "requote_link"}
Known(r) ==
    /\ quoting[r] # "idle" => draft[r].of \in Numbers
    /\ quoting[r] \in Offering => /\ draft[r].header.status \notin Gone
                                  /\ draft[r].to \notin Gone
    /\ quoting[r] = "save_write" => draft[r].row.status \notin Immutable
    /\ quoting[r] = "transition_write" => draft[r].to \in Transitions
    /\ quoting[r] \in {"clone_commit", "revise_commit"} =>
           headerLock[draft[r].of[1]] = r /\ Quoted(draft[r].of[1])
    /\ quoting[r] = "convert_commit" =>
           bookingLock = r /\ draft[r].no = lastBooking + 1 /\ lastBooking < MaxBookings
Waiting ==
    /\ DOMAIN quoting = Quoters /\ DOMAIN draft = Quoters /\ DOMAIN headerLock = Quotes
    /\ \A r \in Quoters : DOMAIN draft[r] = DOMAIN NoDraft
    /\ \A r \in Quoters : Known(r)

(* Conversions and answers name orders already numbered; a key names one   *)
(* order; and an answer whose order lives has its conversion still.        *)
Replies ==
    /\ lastBooking \in 0 .. MaxBookings
    /\ \A c \in conversions : c.order \in 1 .. lastBooking
    /\ \A c, d \in conversions : c.key = d.key /\ c.key # NoKey => c.order = d.order
    /\ \A a \in answers : a.key # NoKey /\ a.order \in 1 .. lastBooking
    /\ \A a \in answers : Living(a.order) =>
           \E c \in conversions : c.key = a.key /\ c.order = a.order

QuotesInv == Offered /\ Waiting /\ Replies

(* The lemmas' facts on numbers of revisions.                              *)
LEMMA NumberParts ==
    /\ \A n \in Numbers : n[1] \in Quotes /\ n[2] \in RevisionNos /\ n = <<n[1], n[2]>>
    /\ \A q \in Quotes, k \in RevisionNos :
           <<q, k>> \in Numbers /\ <<q, k>>[1] = q /\ <<q, k>>[2] = k
    /\ 1 \in RevisionNos
BY QuotationsAssumption DEF Numbers, RevisionNos

(* A set of revision numbers that is not empty has a greatest one: Max.     *)
LEMMA GreatestIsOne ==
    ASSUME NEW S \in SUBSET RevisionNos, S # {}
    PROVE  Max(S) \in S
<1> DEFINE Depths == {MaxRevisions - k : k \in S}
<1>1. MaxRevisions \in Nat /\ \A k \in S : k \in 1 .. MaxRevisions
  BY QuotationsAssumption DEF RevisionNos
<1>2. Depths # {} /\ Depths \in SUBSET Nat
  BY <1>1
<1>3. PICK h \in Depths : \A g \in Depths : h <= g
  <2> HIDE DEF Depths
  <2> QED BY <1>2, LeastExists
<1>4. PICK k \in S : h = MaxRevisions - k
  OBVIOUS
<1>5. \A j \in S : k >= j
  <2> SUFFICES ASSUME NEW j \in S PROVE k >= j
    OBVIOUS
  <2>1. MaxRevisions - k <= MaxRevisions - j
    BY <1>3, <1>4
  <2> QED BY <1>1, <2>1
<1> QED BY <1>5 DEF Max

(* A quotation that exists has a latest revision.                           *)
LEMMA LatestExists ==
    ASSUME Existing, NEW q \in Quotes, Quoted(q)
    PROVE  /\ LatestOf(q) \in RevisionNos /\ <<q, LatestOf(q)>> \in Numbers
           /\ revisions[<<q, LatestOf(q)>>].status # "ABSENT"
<1>1. RevisionsOf(q) \in SUBSET RevisionNos /\ 1 \in RevisionsOf(q)
  BY NumberParts DEF RevisionsOf, Existing
<1>2. LatestOf(q) \in RevisionsOf(q)
  BY <1>1, GreatestIsOne DEF LatestOf
<1> QED BY <1>2, NumberParts DEF RevisionsOf

(* A request goes on knowing what it knew while its locks keep it true.     *)
LEMMA KnowsStill ==
    ASSUME NEW o \in Quoters, Known(o), quoting'[o] = quoting[o], draft'[o] = draft[o],
           \A q \in Quotes : headerLock[q] = o /\ Quoted(q) => headerLock'[q] = o /\ Quoted(q)',
           bookingLock = o => bookingLock' = o /\ lastBooking' = lastBooking
    PROVE  Known(o)'
<1>1. quoting[o] # "idle" => draft[o].of \in Numbers /\ draft[o].of[1] \in Quotes
  BY NumberParts DEF Known
<1>2. quoting[o] \in {"clone_commit", "revise_commit"} =>
          headerLock'[draft[o].of[1]] = o /\ Quoted(draft[o].of[1])'
  BY <1>1 DEF Known
<1>3. (Quoted(draft[o].of[1]))' <=> quotations'[draft'[o].of[1]].status \notin Gone
  BY DEF Quoted, Gone
<1>4. (Quoted(draft[o].of[1]))' <=> quotations'[draft[o].of[1]].status \notin Gone
  BY <1>3
<1> QED BY <1>1, <1>2, <1>4 DEF Known, Quoted, Gone

(* A step that moves request r on, which then knows what it should, leaves  *)
(* the others knowing what they knew.                                       *)
LEMMA GoingOn ==
    ASSUME Waiting, NEW r \in Quoters, NEW step, NEW d, DOMAIN d = DOMAIN NoDraft,
           quoting' = [quoting EXCEPT ![r] = step], draft' = [draft EXCEPT ![r] = d],
           Known(r)', DOMAIN headerLock' = Quotes,
           \A o \in Quoters \ {r}, q \in Quotes :
               headerLock[q] = o /\ Quoted(q) => headerLock'[q] = o /\ Quoted(q)',
           \A o \in Quoters \ {r} :
               bookingLock = o => bookingLock' = o /\ lastBooking' = lastBooking
    PROVE  Waiting'
<1>1. ASSUME NEW o \in Quoters, o # r PROVE Known(o)'
  <2>1. Known(o) /\ quoting'[o] = quoting[o] /\ draft'[o] = draft[o]
    BY <1>1 DEF Waiting
  <2> HIDE DEF Known
  <2> QED BY <1>1, <2>1, KnowsStill
<1>2. \A o \in Quoters : Known(o)'
  BY <1>1
<1> HIDE DEF Known
<1> QED BY <1>2 DEF Waiting

(* What has to stay true of the quotations for the others to go on.         *)
StaysFor(r) ==
    /\ \A q \in Quotes : headerLock[q] # r /\ headerLock[q] # Nobody /\ Quoted(q) => Quoted(q)'
    /\ bookingLock # r => lastBooking' = lastBooking

(* A request that ends gives up its locks and knows nothing any more.       *)
LEMMA EndingQuote ==
    ASSUME Waiting, NEW r \in Quoters, EndQuote(r), StaysFor(r)
    PROVE  Waiting'
<1>1. /\ quoting' = [quoting EXCEPT ![r] = "idle"] /\ draft' = [draft EXCEPT ![r] = NoDraft]
      /\ DOMAIN headerLock' = Quotes
      /\ \A q \in Quotes : headerLock'[q] = IF headerLock[q] = r THEN Nobody ELSE headerLock[q]
      /\ bookingLock' = IF bookingLock = r THEN Nobody ELSE bookingLock
  BY DEF EndQuote
<1>2. Known(r)'
  BY <1>1 DEF Waiting, Known, Offering
<1>3. \A o \in Quoters \ {r}, q \in Quotes :
          headerLock[q] = o /\ Quoted(q) => headerLock'[q] = o /\ Quoted(q)'
  BY <1>1, QuotationsAssumption DEF StaysFor
<1>4. \A o \in Quoters \ {r} :
          bookingLock = o => bookingLock' = o /\ lastBooking' = lastBooking
  BY <1>1 DEF StaysFor
<1> HIDE DEF Known
<1> QED BY <1>1, <1>2, <1>3, <1>4, GoingOn

(* A request that only reads, or only answers, changes no offer.            *)
LEMMA OffersAlone ==
    ASSUME QuotesInv, UNCHANGED <<quotationRows, stale>>
    PROVE  Offered'
<1>1. Tabled'
  BY DEF quotationRows, QuotesInv, Offered, Tabled, Living
<1>2. Existing'
  BY DEF quotationRows, QuotesInv, Offered, Existing, Quoted
<1>3. Agreeing' /\ BookingCarriesItsOffer'
  BY DEF quotationRows, QuotesInv, Offered, Agreeing, BookingCarriesItsOffer, Living
<1> QED BY <1>1, <1>2, <1>3 DEF Offered
LEMMA ReadsKeepOffers ==
    ASSUME QuotesInv, UNCHANGED <<quotationRows, stale, answers>>
    PROVE  Offered' /\ Replies'
<1>1. Replies'
  BY DEF quotationRows, QuotesInv, Replies, Living
<1> QED BY <1>1, OffersAlone
LEMMA Reads ==
    ASSUME QuotesInv, NEW r \in Quoters, NEW step, NEW d, DOMAIN d = DOMAIN NoDraft,
           UNCHANGED <<quotationRows, quotationLocks, answers, stale>>,
           quoting' = [quoting EXCEPT ![r] = step], draft' = [draft EXCEPT ![r] = d],
           Known(r)'
    PROVE  QuotesInv'
<1>1. /\ DOMAIN headerLock' = Quotes
      /\ \A o \in Quoters \ {r}, q \in Quotes :
             headerLock[q] = o /\ Quoted(q) => headerLock'[q] = o /\ Quoted(q)'
      /\ \A o \in Quoters \ {r} :
             bookingLock = o => bookingLock' = o /\ lastBooking' = lastBooking
  BY DEF quotationRows, quotationLocks, QuotesInv, Waiting, Quoted
<1>2. Waiting'
  <2> HIDE DEF Known
  <2> QED BY <1>1, GoingOn DEF QuotesInv
<1> QED BY <1>2, ReadsKeepOffers DEF QuotesInv
LEMMA JustEnds ==
    ASSUME QuotesInv, NEW r \in Quoters, EndQuote(r), UNCHANGED <<quotationRows, stale, answers>>
    PROVE  QuotesInv'
<1>1. StaysFor(r)
  BY DEF StaysFor, quotationRows, Quoted
<1>2. Waiting'
  BY <1>1, EndingQuote DEF QuotesInv
<1> QED BY <1>2, ReadsKeepOffers DEF QuotesInv

-----------------------------------------------------------------------------
(* The writes.  Frozen(n) is what SentOffersFrozen says of revision n.      *)
Frozen(n) ==
    revisions[n].status \in Immutable /\ n \notin stale' =>
        \/ revisions'[n].status \in Immutable /\ revisions'[n].total = revisions[n].total
           /\ revisions'[n].lines = revisions[n].lines
        \/ quotations'[n[1]].status = "ERASED"
HeadersKept ==
    /\ DOMAIN quotations' = Quotes
    /\ \A q \in Quotes : DOMAIN quotations'[q] = {"status", "current", "source"}
    /\ \A q \in Quotes : Quoted(q)' <=> Quoted(q)
    /\ \A q \in Quotes : Quoted(q) => quotations'[q].status # "ERASED"
RevisionsKept ==
    /\ DOMAIN revisions' = Numbers
    /\ \A n \in Numbers : DOMAIN revisions'[n] = {"status", "total", "lines"}
    /\ \A n \in Numbers : revisions[n].status # "ABSENT" => revisions'[n].status # "ABSENT"
    /\ \A n \in Numbers : ~Quoted(n[1]) => revisions'[n] = revisions[n]
    /\ stale \subseteq stale'

Carries(b) ==
    LET n == bookings[b].of IN
    n \notin stale => /\ revisions[n].status \in Immutable
                      /\ revisions[n].total = revisions[n].lines
                      /\ bookings[b].total = revisions[n].total
                      /\ bookings[b].lines = revisions[n].lines
BookingsKept ==
    /\ DOMAIN bookings' = 1 .. MaxBookings
    /\ \A b \in 1 .. MaxBookings : DOMAIN bookings'[b] = {"status", "of", "total", "lines"}
    /\ \A b \in 1 .. MaxBookings : Living(b)' =>
           \/ Living(b) /\ bookings'[b] = bookings[b]
           \/ bookings'[b].of \in Numbers /\ Carries(b)'

(* What writes have to respect for the offers to stand.                     *)
LEMMA OffersCarried ==
    ASSUME Offered, HeadersKept, RevisionsKept, Agreeing', BookingsKept,
           \A n \in Numbers : Frozen(n)
    PROVE  Offered'
<1>1. Tabled'
  <2>1. ASSUME NEW b \in 1 .. MaxBookings, Living(b)' PROVE bookings'[b].of \in Numbers
    BY <2>1 DEF Offered, BookingsKept, Tabled
  <2> QED BY <2>1 DEF HeadersKept, RevisionsKept, BookingsKept, Tabled
<1>2. Existing'
  <2>1. ASSUME NEW q \in Quotes, Quoted(q)' PROVE revisions'[<<q, 1>>].status # "ABSENT"
    <3>1. <<q, 1>> \in Numbers
      BY NumberParts
    <3>2. revisions[<<q, 1>>].status # "ABSENT"
      BY <2>1 DEF Offered, Existing, HeadersKept
    <3> QED BY <3>1, <3>2 DEF RevisionsKept
  <2>2. ASSUME NEW q \in Quotes, ~Quoted(q)', NEW k \in RevisionNos
        PROVE  revisions'[<<q, k>>].status = "ABSENT"
    <3>1. <<q, k>> \in Numbers /\ <<q, k>>[1] = q
      BY NumberParts
    <3>2. ~Quoted(q) /\ revisions[<<q, k>>].status = "ABSENT"
      BY <2>2 DEF Offered, Existing, HeadersKept
    <3>3. revisions'[<<q, k>>] = revisions[<<q, k>>]
      BY <3>1, <3>2 DEF RevisionsKept
    <3> QED BY <3>2, <3>3
  <2> QED BY <2>1, <2>2 DEF Existing
<1>3. ASSUME NEW b \in 1 .. MaxBookings, Living(b), bookings'[b] = bookings[b],
             bookings'[b].of \notin stale'
      PROVE  LET n == bookings'[b].of IN
             /\ revisions'[n].status \in Immutable
             /\ revisions'[n].total = revisions'[n].lines
             /\ bookings'[b].total = revisions'[n].total
             /\ bookings'[b].lines = revisions'[n].lines
  <2> DEFINE n == bookings[b].of
  <2>1. Living(b) /\ bookings'[b] = bookings[b] /\ n \notin stale' /\ n \notin stale
    BY <1>3 DEF RevisionsKept
  <2>2. n \in Numbers /\ n[1] \in Quotes /\ n = <<n[1], n[2]>> /\ n[2] \in RevisionNos
    BY <2>1, NumberParts DEF Offered, Tabled
  <2>3. /\ revisions[n].status \in Immutable /\ revisions[n].total = revisions[n].lines
        /\ bookings[b].total = revisions[n].total /\ bookings[b].lines = revisions[n].lines
    BY <2>1 DEF Offered, BookingCarriesItsOffer
  <2>4. Quoted(n[1])
    BY <2>2, <2>3 DEF Offered, Existing, Immutable
  <2>5. quotations'[n[1]].status # "ERASED"
    BY <2>2, <2>4 DEF HeadersKept
  <2>6. /\ revisions'[n].status \in Immutable /\ revisions'[n].total = revisions[n].total
        /\ revisions'[n].lines = revisions[n].lines
    BY <2>1, <2>2, <2>3, <2>5 DEF Frozen
  <2> QED BY <2>1, <2>3, <2>6
<1>4. BookingCarriesItsOffer'
  BY <1>3 DEF BookingCarriesItsOffer, BookingsKept, Carries
<1> QED BY <1>1, <1>2, <1>4 DEF Offered
LEMMA OffersKept ==
    ASSUME Offered, HeadersKept, RevisionsKept, Agreeing', UNCHANGED bookings,
           \A n \in Numbers : Frozen(n)
    PROVE  Offered'
<1>1. BookingsKept
  BY DEF BookingsKept, Offered, Tabled, Living
<1> QED BY <1>1, OffersCarried

(* Writes that leave conversions and orders alone leave the replies alone.  *)
LEMMA RepliesKept ==
    ASSUME Replies, UNCHANGED <<conversions, bookings, lastBooking, answers>>
    PROVE  Replies'
BY DEF Replies, Living

(* A revision that exists is of a quotation that exists.                    *)
LEMMA RevisedIsQuoted ==
    ASSUME Existing, NEW n \in Numbers, revisions[n].status # "ABSENT"
    PROVE  n[1] \in Quotes /\ Quoted(n[1])
<1>1. n[1] \in Quotes /\ n[2] \in RevisionNos /\ n = <<n[1], n[2]>>
  BY NumberParts
<1>2. ASSUME ~Quoted(n[1]) PROVE FALSE
  <2>1. revisions[<<n[1], n[2]>>].status = "ABSENT"
    BY <1>1, <1>2 DEF Existing
  <2> QED BY <1>1, <2>1
<1> QED BY <1>1, <1>2

(* A header that a save or a decision writes stays one that exists.         *)
LEMMA HeaderLives ==
    ASSUME Tabled, NEW q \in Quotes, Quoted(q), NEW loaded, NEW asked,
           loaded \notin Gone, asked \notin Gone, NEW row,
           DOMAIN row = {"status", "current", "source"},
           row.status = Assigned(quotations[q].status, loaded, asked),
           quotations' = [quotations EXCEPT ![q] = row]
    PROVE  HeadersKept
<1>1. quotations'[q] = row /\ \A p \in Quotes \ {q} : quotations'[p] = quotations[p]
  BY DEF Tabled
<1>2. row.status \notin Gone
  BY DEF Assigned, Quoted, Gone
<1> QED BY <1>1, <1>2 DEF HeadersKept, Tabled, Quoted, Gone
LEMMA SavedHeaderLives ==
    ASSUME QuotesInv, NEW r \in Quoters, quoting[r] \in Offering, NEW status, status \notin Gone,
           NEW current, NEW q \in Quotes, Quoted(q), SavedHeader(r, q, status, current)
    PROVE  HeadersKept
<1> DEFINE asked == IF draft[r].to = "KEEP" THEN status ELSE draft[r].to
           loaded == draft[r].header
           row == [quotations[q] EXCEPT !.status = Assigned(@, loaded.status, asked),
                                        !.current = Assigned(@, loaded.current, current)]
<1>1. loaded.status \notin Gone /\ asked \notin Gone
  BY DEF QuotesInv, Waiting, Known
<1>2. quotations' = [quotations EXCEPT ![q] = row]
  BY DEF SavedHeader, QuotesInv, Offered, Tabled
<1>3. DOMAIN row = {"status", "current", "source"}
      /\ row.status = Assigned(quotations[q].status, loaded.status, asked)
  BY DEF QuotesInv, Offered, Tabled
<1> HIDE DEF asked, row
<1> QED BY <1>1, <1>2, <1>3, HeaderLives DEF QuotesInv, Offered

(* Overwriting the draft in place.                                          *)
LEMMA SavesInPlace ==
    ASSUME QuotesInv, NEW r \in Quoters, SaveInPlace(r)
    PROVE  QuotesInv' /\ \A n \in Numbers : Frozen(n)
<1> DEFINE n == draft[r].of
           row == SavedTerms(r, revisions[n])
<1>1. /\ quoting[r] = "save_write" /\ revisions[n].status # "ABSENT"
      /\ revisions' = [revisions EXCEPT ![n] = row]
      /\ stale' = IF revisions[n] = draft[r].row THEN stale ELSE stale \cup {n}
      /\ SavedHeader(r, n[1], draft[r].header.status, draft[r].header.current)
      /\ EndQuote(r)
      /\ UNCHANGED <<conversions, bookings, lastBooking, started, answers>>
  BY DEF SaveInPlace, WriteRevision
<1>2. /\ n \in Numbers /\ draft[r].header.status \notin Gone
      /\ draft[r].row.status \notin Immutable
      /\ quoting[r] \in Offering
  BY <1>1 DEF QuotesInv, Waiting, Known, Offering, QuotingSteps
<1>3. n[1] \in Quotes /\ Quoted(n[1])
  BY <1>1, <1>2, RevisedIsQuoted DEF QuotesInv, Offered
<1>4. HeadersKept
  BY <1>1, <1>2, <1>3, SavedHeaderLives
<1>5. /\ DOMAIN row = {"status", "total", "lines"} /\ row.status = revisions[n].status
      /\ draft[r].terms = NoTerms => row = revisions[n]
      /\ draft[r].terms # NoTerms /\ revisions[n] = draft[r].row => row.total = row.lines
  BY <1>2 DEF SavedTerms, Assigned, QuotesInv, Offered, Tabled
<1> HIDE DEF row
<1>6. /\ revisions'[n] = row /\ \A m \in Numbers \ {n} : revisions'[m] = revisions[m]
      /\ stale \subseteq stale' /\ (n \notin stale' => revisions[n] = draft[r].row)
  BY <1>1, <1>2 DEF QuotesInv, Offered, Tabled
<1>7. RevisionsKept
  BY <1>1, <1>2, <1>3, <1>5, <1>6 DEF RevisionsKept, QuotesInv, Offered, Tabled
<1>8. Agreeing'
  BY <1>5, <1>6 DEF Agreeing, QuotesInv, Offered
<1>9. \A m \in Numbers : Frozen(m)
  BY <1>2, <1>6 DEF Frozen
<1>10. Offered' /\ Replies'
  BY <1>1, <1>4, <1>7, <1>8, <1>9, OffersKept, RepliesKept DEF QuotesInv
<1>11. StaysFor(r)
  BY <1>1, <1>4 DEF StaysFor, HeadersKept
<1>12. Waiting'
  BY <1>1, <1>11, EndingQuote DEF QuotesInv
<1> QED BY <1>9, <1>10, <1>12 DEF QuotesInv

(* Inserting a clone under the number that the header's lock has kept.      *)
LEMMA Inserts ==
    ASSUME QuotesInv, NEW r \in Quoters, quoting[r] \in {"clone_commit", "revise_commit"},
           NEW row, DOMAIN row = {"status", "total", "lines"}, row.status = "DRAFT",
           revisions[draft[r].of] = draft[r].row /\ draft[r].of \notin stale =>
               row.total = row.lines,
           InsertRevision(r, row), HeadersKept
    PROVE  QuotesInv' /\ \A n \in Numbers : Frozen(n)
<1> DEFINE q == draft[r].of[1]
           n == <<q, draft[r].no>>
<1>1. /\ revisions[n].status = "ABSENT"
      /\ revisions' = [revisions EXCEPT ![n] = row]
      /\ stale' = IF revisions[draft[r].of] = draft[r].row /\ draft[r].of \notin stale
                  THEN stale ELSE stale \cup {n}
      /\ EndQuote(r)
      /\ UNCHANGED <<conversions, bookings, lastBooking, started, answers>>
  BY DEF InsertRevision
<1>2. q \in Quotes /\ Quoted(q)
  BY NumberParts DEF QuotesInv, Waiting, Known
<1>3. n[1] = q
  OBVIOUS
<1> HIDE DEF n
<1>4. /\ \A m \in Numbers \ {n} : revisions'[m] = revisions[m]
      /\ n \in Numbers => revisions'[n] = row
      /\ DOMAIN revisions' = Numbers
      /\ stale \subseteq stale'
      /\ n \notin stale' => row.total = row.lines
  BY <1>1 DEF QuotesInv, Offered, Tabled
<1>5. RevisionsKept
  BY <1>1, <1>2, <1>3, <1>4 DEF RevisionsKept, QuotesInv, Offered, Tabled
<1>6. Agreeing'
  BY <1>4 DEF Agreeing, QuotesInv, Offered
<1>7. \A m \in Numbers : Frozen(m)
  BY <1>1, <1>4 DEF Frozen, Immutable
<1>8. Offered' /\ Replies'
  BY <1>1, <1>5, <1>6, <1>7, OffersKept, RepliesKept DEF QuotesInv
<1>9. StaysFor(r)
  BY <1>1 DEF StaysFor, HeadersKept
<1>10. Waiting'
  BY <1>1, <1>9, EndingQuote DEF QuotesInv
<1> QED BY <1>7, <1>8, <1>10 DEF QuotesInv

(* Both ways of cloning insert such a revision.                             *)
LEMMA Clones ==
    ASSUME QuotesInv, NEW r \in Quoters, CloneAndSave(r) \/ CloneAsRevision(r)
    PROVE  QuotesInv' /\ \A n \in Numbers : Frozen(n)
<1> DEFINE q == draft[r].of[1]
           clone == CloneOf(r)
<1>1. quoting[r] \in {"clone_commit", "revise_commit"} /\ quoting[r] \in Offering
  BY DEF CloneAndSave, CloneAsRevision, Offering, QuotingSteps
<1>2. q \in Quotes /\ Quoted(q) /\ draft[r].header.status \notin Gone
      /\ draft[r].of \in Numbers
  BY <1>1, NumberParts DEF QuotesInv, Waiting, Known, Offering
<1>3. /\ DOMAIN clone = {"status", "total", "lines"} /\ clone.status = "DRAFT"
      /\ clone.total = draft[r].row.total /\ clone.lines = revisions[draft[r].of].lines
  BY DEF CloneOf
<1>4. revisions[draft[r].of] = draft[r].row /\ draft[r].of \notin stale =>
          clone.total = clone.lines
  BY <1>2, <1>3 DEF QuotesInv, Offered, Agreeing
<1> HIDE DEF clone
<1>5. CASE CloneAndSave(r)
  <2> DEFINE asked == draft[r].terms
             row == IF asked = NoTerms THEN clone
                    ELSE [clone EXCEPT !.total = asked, !.lines = asked]
  <2>1. InsertRevision(r, row) /\ SavedHeader(r, q, "DRAFT", draft[r].no)
    BY <1>5 DEF CloneAndSave, clone
  <2>2. HeadersKept
    BY <1>1, <1>2, <2>1, SavedHeaderLives DEF Gone
  <2>3. /\ DOMAIN row = {"status", "total", "lines"} /\ row.status = "DRAFT"
        /\ revisions[draft[r].of] = draft[r].row /\ draft[r].of \notin stale =>
               row.total = row.lines
    BY <1>3, <1>4
  <2> HIDE DEF row
  <2> QED BY <1>1, <2>1, <2>2, <2>3, Inserts
<1>6. CASE CloneAsRevision(r)
  <2> DEFINE status == IF draft[r].row.status = "DRAFT" THEN draft[r].header.status ELSE "DRAFT"
  <2>1. InsertRevision(r, clone) /\ SavedHeader(r, q, status, draft[r].no)
    BY <1>6 DEF CloneAsRevision, clone
  <2>2. status \notin Gone
    BY <1>2 DEF Gone
  <2> HIDE DEF status
  <2>3. HeadersKept
    BY <1>1, <1>2, <2>1, <2>2, SavedHeaderLives
  <2> QED BY <1>1, <1>3, <1>4, <2>1, <2>3, Inserts
<1> QED BY <1>5, <1>6

(* A decision on a revision, and what an acceptance supersedes.             *)
LEMMA Decides ==
    ASSUME QuotesInv, NEW r \in Quoters, WriteTransition(r)
    PROVE  QuotesInv' /\ \A n \in Numbers : Frozen(n)
<1> DEFINE n == draft[r].of
           q == n[1]
           to == draft[r].to
           silent == to \in {"REJECTED", "CANCELLED"} /\
                     (draft[r].header.current # n[2] \/ OtherLive(n))
           header == IF silent THEN draft[r].header.status ELSE to
           superseded == IF to # "ACCEPTED" THEN {}
                      ELSE {<<q, m>> : m \in {k \in RevisionsOf(q) \ {n[2]} :
                               revisions[<<q, k>>].status \in {"SENT", "ACCEPTED", "SUBMITTED"}}}
           row == [quotations[q] EXCEPT !.status = Assigned(@, draft[r].header.status, header)]
<1>1. /\ quoting[r] = "transition_write" /\ revisions[n].status # "ABSENT"
      /\ revisions' = [m \in Numbers |->
             IF m = n THEN [revisions[n] EXCEPT !.status = to]
             ELSE IF m \in superseded THEN [revisions[m] EXCEPT !.status = "SUPERSEDED"]
             ELSE revisions[m]]
      /\ stale' = IF revisions[n] = draft[r].row THEN stale ELSE stale \cup {n}
      /\ quotations' = [quotations EXCEPT ![q].status =
             Assigned(@, draft[r].header.status, header)]
      /\ EndQuote(r)
      /\ UNCHANGED <<conversions, bookings, lastBooking, started, answers>>
  BY DEF WriteTransition
<1>2. n \in Numbers /\ draft[r].header.status \notin Gone /\ to \in Transitions
  BY <1>1 DEF QuotesInv, Waiting, Known, Offering, QuotingSteps
<1>3. q \in Quotes /\ Quoted(q)
  BY <1>1, <1>2, RevisedIsQuoted DEF QuotesInv, Offered
<1>4. header \notin Gone /\ to \in Immutable /\ to # "ABSENT"
  BY <1>2 DEF Gone, Transitions, Immutable, RevisionStatus
<1>5. ASSUME NEW m \in superseded PROVE m[1] = q
  <2>1. PICK k : m = <<q, k>>
    BY <1>5, Zenon
  <2> QED BY <2>1
<1> HIDE DEF superseded, header
<1>6. DOMAIN row = {"status", "current", "source"}
      /\ row.status = Assigned(quotations[q].status, draft[r].header.status, header)
      /\ quotations' = [quotations EXCEPT ![q] = row]
  BY <1>1, <1>3 DEF QuotesInv, Offered, Tabled
<1> HIDE DEF row
<1>7. HeadersKept
  BY <1>2, <1>3, <1>4, <1>6, HeaderLives DEF QuotesInv, Offered
<1>8. /\ DOMAIN revisions' = Numbers /\ stale \subseteq stale'
      /\ \A m \in Numbers : /\ DOMAIN revisions'[m] = {"status", "total", "lines"}
                            /\ revisions'[m].total = revisions[m].total
                            /\ revisions'[m].lines = revisions[m].lines
                            /\ \/ revisions'[m].status \in Immutable /\ m[1] = q
                               \/ revisions'[m] = revisions[m]
  <2>1. ASSUME NEW m \in Numbers
        PROVE  /\ DOMAIN revisions'[m] = {"status", "total", "lines"}
               /\ revisions'[m].total = revisions[m].total
               /\ revisions'[m].lines = revisions[m].lines
               /\ \/ revisions'[m].status \in Immutable /\ m[1] = q
                  \/ revisions'[m] = revisions[m]
    <3>1. DOMAIN revisions[m] = {"status", "total", "lines"}
      BY DEF QuotesInv, Offered, Tabled
    <3>2. CASE m = n
      BY <1>1, <1>4, <3>1, <3>2
    <3>3. CASE m # n /\ m \in superseded
      <4>1. revisions'[m] = [revisions[m] EXCEPT !.status = "SUPERSEDED"]
        BY <1>1, <3>3
      <4> QED BY <1>5, <3>1, <3>3, <4>1 DEF Immutable, RevisionStatus
    <3>4. CASE m # n /\ m \notin superseded
      BY <1>1, <3>1, <3>4
    <3> QED BY <3>2, <3>3, <3>4
  <2> QED BY <1>1, <2>1
<1>9. RevisionsKept
  BY <1>3, <1>8 DEF RevisionsKept, Immutable
<1>10. Agreeing' /\ \A m \in Numbers : Frozen(m)
  BY <1>8 DEF Agreeing, Frozen, QuotesInv, Offered
<1>11. Offered' /\ Replies'
  BY <1>1, <1>7, <1>9, <1>10, OffersKept, RepliesKept DEF QuotesInv
<1>12. StaysFor(r)
  BY <1>1, <1>7 DEF StaysFor, HeadersKept
<1>13. Waiting'
  BY <1>1, <1>12, EndingQuote DEF QuotesInv
<1> QED BY <1>10, <1>11, <1>13 DEF QuotesInv

(* The commit of a conversion.                                              *)
LEMMA Converts ==
    ASSUME QuotesInv, NEW r \in Quoters, CommitConversion(r)
    PROVE  QuotesInv' /\ \A n \in Numbers : Frozen(n)
<1> DEFINE n == draft[r].of
           q == n[1]
           key == draft[r].key
           row == [revisions[n] EXCEPT !.status = "CONVERTED"]
           top == [quotations[q] EXCEPT
                      !.status = Assigned(@, draft[r].header.status, "CONVERTED")]
<1>0. PICK no : no = draft[r].no
  OBVIOUS
<1>1. /\ quoting[r] = "convert_commit" /\ revisions[n].status # "ABSENT"
      /\ ~ConversionConflicts(r)
      /\ conversions' = conversions \cup {[of |-> n, order |-> no, key |-> key]}
      /\ bookings' = [bookings EXCEPT ![no] = BookingOf(r)]
      /\ lastBooking' = no
      /\ revisions' = [revisions EXCEPT ![n] = row]
      /\ stale' = IF revisions[n] = draft[r].row THEN stale ELSE stale \cup {n}
      /\ quotations' = [quotations EXCEPT ![q].status =
             Assigned(@, draft[r].header.status, "CONVERTED")]
      /\ answers' = answers \cup {[key |-> k, order |-> no] : k \in {key} \ {NoKey}}
      /\ EndQuote(r)
  BY <1>0 DEF CommitConversion, WriteRevision, Answer
<1>2. /\ n \in Numbers /\ draft[r].header.status \notin Gone
      /\ bookingLock = r /\ no = lastBooking + 1 /\ lastBooking < MaxBookings
  BY <1>0, <1>1 DEF QuotesInv, Waiting, Known, Offering, QuotingSteps
<1>3. q \in Quotes /\ Quoted(q)
  BY <1>1, <1>2, RevisedIsQuoted DEF QuotesInv, Offered
<1>4. HeadersKept
  <2>1. DOMAIN top = {"status", "current", "source"}
        /\ top.status = Assigned(quotations[q].status, draft[r].header.status, "CONVERTED")
        /\ quotations' = [quotations EXCEPT ![q] = top]
    BY <1>1, <1>3 DEF QuotesInv, Offered, Tabled
  <2> HIDE DEF top
  <2> QED BY <1>2, <1>3, <2>1, HeaderLives DEF QuotesInv, Offered, Gone
<1>5. /\ DOMAIN row = {"status", "total", "lines"} /\ row.status = "CONVERTED"
      /\ row.total = revisions[n].total /\ row.lines = revisions[n].lines
      /\ revisions'[n] = row /\ \A m \in Numbers \ {n} : revisions'[m] = revisions[m]
      /\ DOMAIN revisions' = Numbers
      /\ stale \subseteq stale' /\ (n \notin stale' => revisions[n] = draft[r].row)
  BY <1>1, <1>2 DEF QuotesInv, Offered, Tabled
<1> HIDE DEF row, top
<1>6. RevisionsKept
  BY <1>1, <1>2, <1>3, <1>5 DEF RevisionsKept, QuotesInv, Offered, Tabled
<1>7. Agreeing' /\ \A m \in Numbers : Frozen(m)
  BY <1>5 DEF Agreeing, Frozen, QuotesInv, Offered, Immutable, RevisionStatus
<1>8. no \in 1 .. MaxBookings /\ lastBooking \in Nat /\ MaxBookings \in Nat
  BY <1>2, QuotationsAssumption DEF QuotesInv, Replies
<1>9. /\ bookings'[no] = BookingOf(r)
      /\ \A b \in (1 .. MaxBookings) \ {no} : bookings'[b] = bookings[b]
      /\ DOMAIN bookings' = 1 .. MaxBookings
  BY <1>1, <1>8 DEF QuotesInv, Offered, Tabled
<1>10. BookingsKept
  <2>1. /\ DOMAIN BookingOf(r) = {"status", "of", "total", "lines"} /\ BookingOf(r).of = n
        /\ BookingOf(r).total = draft[r].row.total /\ BookingOf(r).lines = revisions[n].lines
    BY DEF BookingOf
  <2>2. bookings'[no].of \in Numbers
    BY <1>2, <1>9, <2>1
  <2>3. Carries(no)'
    <3> SUFFICES ASSUME n \notin stale'
                 PROVE  /\ revisions'[n].status \in Immutable
                        /\ revisions'[n].total = revisions'[n].lines
                        /\ bookings'[no].total = revisions'[n].total
                        /\ bookings'[no].lines = revisions'[n].lines
      <4>1. bookings'[no].of = n
        BY <1>9, <2>1
      <4> QED BY <4>1 DEF Carries
    <3>1. revisions[n].total = revisions[n].lines
      BY <1>2, <1>5 DEF QuotesInv, Offered, Agreeing
    <3> QED BY <1>5, <1>9, <2>1, <3>1 DEF Immutable, RevisionStatus
  <2> QED BY <1>8, <1>9, <2>1, <2>2, <2>3 DEF BookingsKept, QuotesInv, Offered, Tabled, Living
<1>11. Offered'
  BY <1>4, <1>6, <1>7, <1>10, OffersCarried DEF QuotesInv
<1>12. Replies'
  <2> DEFINE new == [of |-> n, order |-> no, key |-> key]
  <2>1. \A c \in conversions' : c \in conversions \/ c = new
    BY <1>1
  <2>2. new.order = no /\ new.key = key
    OBVIOUS
  <2> HIDE DEF new
  <2>3. lastBooking' \in 0 .. MaxBookings
        /\ \A x \in 1 .. lastBooking : x \in 1 .. lastBooking' /\ x # no
    BY <1>1, <1>2, <1>8
  <2>4. \A c \in conversions' : c.order \in 1 .. lastBooking'
    BY <1>1, <1>8, <2>1, <2>2, <2>3 DEF QuotesInv, Replies
  <2>5. \A c \in conversions : key # NoKey => c.key # key
    BY <1>1 DEF ConversionConflicts
  <2>6. \A c, d \in conversions' : c.key = d.key /\ c.key # NoKey => c.order = d.order
    BY <2>1, <2>2, <2>5 DEF QuotesInv, Replies
  <2>7. ASSUME NEW a \in answers', a \notin answers
        PROVE  a.key = key /\ a.order = no /\ key # NoKey
    <3>1. PICK k \in {key} \ {NoKey} : a = [key |-> k, order |-> no]
      BY <1>1, <2>7, Zenon
    <3> QED BY <3>1
  <2>8. \A a \in answers' : a.key # NoKey /\ a.order \in 1 .. lastBooking'
    BY <1>1, <1>8, <2>3, <2>7 DEF QuotesInv, Replies
  <2>9. ASSUME NEW a \in answers', Living(a.order)'
        PROVE  \E c \in conversions' : c.key = a.key /\ c.order = a.order
    <3>1. CASE a \in answers
      <4>1. a.order \in 1 .. lastBooking /\ a.order # no /\ a.order \in 1 .. MaxBookings
        BY <1>2, <1>8, <2>3, <3>1 DEF QuotesInv, Replies
      <4>2. Living(a.order)
        BY <1>9, <2>9, <4>1 DEF Living
      <4> QED BY <1>1, <3>1, <4>2 DEF QuotesInv, Replies
    <3>2. CASE a \notin answers
      <4>1. a.key = key /\ a.order = no
        BY <2>7, <2>9, <3>2
      <4> QED BY <1>1, <2>2, <4>1 DEF new
    <3> QED BY <3>1, <3>2
  <2> QED BY <2>3, <2>4, <2>6, <2>8, <2>9 DEF Replies
<1>13. StaysFor(r)
  BY <1>2, <1>4 DEF StaysFor, HeadersKept
<1>14. Waiting'
  BY <1>1, <1>13, EndingQuote DEF QuotesInv
<1> QED BY <1>7, <1>11, <1>12, <1>14 DEF QuotesInv

(* A new quotation, with its first revision.                                *)
LEMMA Opens ==
    ASSUME Offered, NEW q \in Quotes, ~Quoted(q), NEW head, head.status \notin Gone,
           DOMAIN head = {"status", "current", "source"},
           NEW row, DOMAIN row = {"status", "total", "lines"}, row.status = "DRAFT",
           row.total = row.lines,
           quotations' = [quotations EXCEPT ![q] = head],
           revisions' = [revisions EXCEPT ![<<q, 1>>] = row],
           UNCHANGED <<bookings, stale>>
    PROVE  /\ Offered' /\ \A n \in Numbers : Frozen(n)
           /\ \A p \in Quotes : Quoted(p) => Quoted(p)'
<1>1. PICK first : first = <<q, 1>>
  OBVIOUS
<1>2. first \in Numbers /\ first[1] = q /\ revisions[first].status = "ABSENT"
  BY <1>1, NumberParts DEF Offered, Existing
<1>3. /\ revisions'[first] = row /\ \A n \in Numbers \ {first} : revisions'[n] = revisions[n]
      /\ DOMAIN revisions' = Numbers
      /\ quotations'[q] = head /\ \A p \in Quotes \ {q} : quotations'[p] = quotations[p]
      /\ DOMAIN quotations' = Quotes
  BY <1>1, <1>2 DEF Offered, Tabled
<1>4. Tabled'
  BY <1>3 DEF Offered, Tabled, Living
<1>5. \A n \in Numbers : Frozen(n)
  BY <1>2, <1>3 DEF Frozen, Immutable
<1>6. \A p \in Quotes : Quoted(p) => Quoted(p)'
  BY <1>3 DEF Quoted, Gone
<1>7. Quoted(q)' /\ \A p \in Quotes \ {q} : Quoted(p)' <=> Quoted(p)
  BY <1>3 DEF Quoted, Gone
<1>8. Existing'
  <2>1. ASSUME NEW p \in Quotes, Quoted(p)' PROVE revisions'[<<p, 1>>].status # "ABSENT"
    <3>1. CASE p = q
      BY <1>1, <1>3, <3>1
    <3>2. CASE p # q
      <4>1. <<p, 1>> \in Numbers /\ <<p, 1>> # first
        BY <1>1, <3>2, NumberParts
      <4> QED BY <1>3, <1>7, <2>1, <3>2, <4>1 DEF Offered, Existing
    <3> QED BY <3>1, <3>2
  <2>2. ASSUME NEW p \in Quotes, ~Quoted(p)', NEW k \in RevisionNos
        PROVE  revisions'[<<p, k>>].status = "ABSENT"
    <3>1. p # q /\ ~Quoted(p)
      BY <1>7, <2>2
    <3>2. <<p, k>> \in Numbers /\ <<p, k>> # first
      BY <1>1, <3>1, NumberParts
    <3> QED BY <1>3, <3>1, <3>2 DEF Offered, Existing
  <2> QED BY <2>1, <2>2 DEF Existing
<1>9. Agreeing'
  BY <1>3 DEF Offered, Agreeing
<1>10. BookingCarriesItsOffer'
  <2> SUFFICES ASSUME NEW b \in 1 .. MaxBookings, Living(b), bookings[b].of \notin stale
               PROVE  LET n == bookings[b].of IN
                      /\ revisions'[n].status \in Immutable
                      /\ revisions'[n].total = revisions'[n].lines
                      /\ bookings[b].total = revisions'[n].total
                      /\ bookings[b].lines = revisions'[n].lines
    BY DEF BookingCarriesItsOffer, Living
  <2>1. bookings[b].of \in Numbers /\ revisions[bookings[b].of].status \in Immutable
    BY DEF Offered, Tabled, BookingCarriesItsOffer
  <2>2. bookings[b].of # first
    BY <1>2, <2>1 DEF Immutable
  <2> QED BY <1>3, <2>1, <2>2 DEF Offered, BookingCarriesItsOffer
<1> QED BY <1>4, <1>5, <1>6, <1>8, <1>9, <1>10 DEF Offered
LEMMA Creates ==
    ASSUME QuotesInv, NEW q \in Quotes, NEW terms, NEW asked, asked \notin Gone,
           CreateQuotation(q, terms, asked)
    PROVE  QuotesInv' /\ \A n \in Numbers : Frozen(n)
<1> DEFINE head == [status |-> IF asked = "KEEP" THEN "DRAFT" ELSE asked,
                    current |-> 1, source |-> 0]
           row == [status |-> "DRAFT", total |-> terms, lines |-> terms]
<1>1. /\ quotations' = [quotations EXCEPT ![q] = head]
      /\ revisions' = [revisions EXCEPT ![<<q, 1>>] = row]
      /\ ~Quoted(q)
      /\ UNCHANGED <<conversions, bookings, lastBooking, bookingLock, headerLock, started,
                     answers, stale, quoting, draft>>
  BY DEF CreateQuotation, Quoted, quotationLocks, quotationHistory
<1>2. /\ head.status \notin Gone /\ DOMAIN head = {"status", "current", "source"}
      /\ DOMAIN row = {"status", "total", "lines"} /\ row.status = "DRAFT"
      /\ row.total = row.lines
  BY DEF Gone
<1> HIDE DEF head, row
<1>3. /\ Offered' /\ \A n \in Numbers : Frozen(n)
      /\ \A p \in Quotes : Quoted(p) => Quoted(p)'
  BY <1>1, <1>2, Opens DEF QuotesInv
<1>4. Replies'
  BY <1>1, RepliesKept DEF QuotesInv
<1>5. \A o \in Quoters : Known(o)'
  <2> HIDE DEF Known
  <2> QED BY <1>1, <1>3, KnowsStill DEF QuotesInv, Waiting
<1>6. Waiting'
  BY <1>1, <1>5 DEF QuotesInv, Waiting
<1> QED BY <1>3, <1>4, <1>6 DEF QuotesInv
LEMMA Requotes ==
    ASSUME QuotesInv, NEW r \in Quoters, NEW b, NEW q \in Quotes, Requote(r, b, q)
    PROVE  QuotesInv' /\ \A n \in Numbers : Frozen(n)
<1> DEFINE head == [status |-> "DRAFT", current |-> 1, source |-> 0]
           row == [status |-> "DRAFT", total |-> bookings[b].lines, lines |-> bookings[b].lines]
           d == [NoDraft EXCEPT !.of = <<q, 1>>, !.no = b]
<1>1. /\ quotations' = [quotations EXCEPT ![q] = head]
      /\ revisions' = [revisions EXCEPT ![<<q, 1>>] = row]
      /\ ~Quoted(q)
      /\ quoting' = [quoting EXCEPT ![r] = "requote_link"] /\ draft' = [draft EXCEPT ![r] = d]
      /\ UNCHANGED <<conversions, bookings, lastBooking, bookingLock, headerLock, answers, stale>>
  BY DEF Requote, QuoteTo, Quoted, quotationLocks
<1>2. /\ head.status \notin Gone /\ DOMAIN head = {"status", "current", "source"}
      /\ DOMAIN row = {"status", "total", "lines"} /\ row.status = "DRAFT"
      /\ row.total = row.lines /\ d.of = <<q, 1>> /\ DOMAIN d = DOMAIN NoDraft
  BY DEF Gone, NoDraft
<1> HIDE DEF head, row, d
<1>3. /\ Offered' /\ \A n \in Numbers : Frozen(n)
      /\ \A p \in Quotes : Quoted(p) => Quoted(p)'
  BY <1>1, <1>2, Opens DEF QuotesInv
<1>4. Replies'
  BY <1>1, RepliesKept DEF QuotesInv
<1>5. Known(r)'
  BY <1>1, <1>2, NumberParts DEF Known, Offering, QuotesInv, Waiting
<1>6. Waiting'
  <2> HIDE DEF Known
  <2>1. DOMAIN headerLock' = Quotes
    BY <1>1 DEF QuotesInv, Waiting
  <2> QED BY <1>1, <1>2, <1>3, <1>5, <2>1, GoingOn DEF QuotesInv
<1> QED BY <1>3, <1>4, <1>6 DEF QuotesInv

(* Recording where a re-quotation came from.                                *)
LEMMA Links ==
    ASSUME QuotesInv, NEW r \in Quoters, LinkRequote(r)
    PROVE  QuotesInv' /\ \A n \in Numbers : Frozen(n)
<1> DEFINE q == draft[r].of[1]
<1>1. /\ quoting[r] = "requote_link" /\ Quoted(q)
      /\ quotations' = [quotations EXCEPT ![q].source = draft[r].no]
      /\ EndQuote(r)
      /\ UNCHANGED <<revisions, conversions, bookings, lastBooking, started, answers, stale>>
  BY DEF LinkRequote, quotationHistory
<1>2. q \in Quotes
  BY <1>1, NumberParts DEF QuotesInv, Waiting, Known
<1>3. HeadersKept
  BY <1>1, <1>2 DEF HeadersKept, QuotesInv, Offered, Tabled, Quoted
<1>4. RevisionsKept /\ Agreeing' /\ \A n \in Numbers : Frozen(n)
  BY <1>1 DEF RevisionsKept, Agreeing, Frozen, QuotesInv, Offered, Tabled
<1>5. Offered' /\ Replies'
  BY <1>1, <1>3, <1>4, OffersKept, RepliesKept DEF QuotesInv
<1>6. StaysFor(r)
  BY <1>1, <1>3 DEF StaysFor, HeadersKept
<1>7. Waiting'
  BY <1>1, <1>6, EndingQuote DEF QuotesInv
<1> QED BY <1>4, <1>5, <1>7 DEF QuotesInv

(* An order that is erased frees its offer, and its conversion's answer.    *)
LEMMA Erases ==
    ASSUME QuotesInv, NEW b \in 1 .. MaxBookings, EraseBooking(b)
    PROVE  QuotesInv' /\ \A n \in Numbers : Frozen(n)
<1>1. /\ bookings' = [bookings EXCEPT ![b].status = "ERASED"]
      /\ UNCHANGED <<quotations, revisions, conversions, lastBooking, bookingLock, headerLock,
                     started, answers, stale, quoting, draft>>
  BY DEF EraseBooking, quotationLocks, quotationHistory
<1>2. HeadersKept /\ RevisionsKept /\ Agreeing' /\ \A n \in Numbers : Frozen(n)
  BY <1>1 DEF HeadersKept, RevisionsKept, Agreeing, Frozen, QuotesInv, Offered, Tabled, Quoted
<1>3. /\ bookings'[b].status = "ERASED" /\ DOMAIN bookings'[b] = DOMAIN bookings[b]
      /\ \A a \in (1 .. MaxBookings) \ {b} : bookings'[a] = bookings[a]
      /\ DOMAIN bookings' = 1 .. MaxBookings
  BY <1>1 DEF QuotesInv, Offered, Tabled
<1>4. BookingsKept
  BY <1>3 DEF BookingsKept, QuotesInv, Offered, Tabled, Living
<1>5. Offered'
  BY <1>2, <1>4, OffersCarried DEF QuotesInv
<1>6. Replies'
  <2>1. ASSUME NEW a \in answers, Living(a.order)' PROVE Living(a.order)
    <3>1. a.order \in 1 .. MaxBookings
      BY QuotationsAssumption DEF QuotesInv, Replies
    <3> QED BY <1>3, <2>1, <3>1 DEF Living
  <2> QED BY <1>1, <2>1 DEF QuotesInv, Replies
<1>7. \A o \in Quoters : Known(o)'
  <2>1. \A q \in Quotes : Quoted(q) => Quoted(q)'
    BY <1>1 DEF Quoted
  <2> HIDE DEF Known
  <2> QED BY <1>1, <2>1, KnowsStill DEF QuotesInv, Waiting
<1>8. Waiting'
  BY <1>1, <1>7 DEF QuotesInv, Waiting
<1> QED BY <1>2, <1>5, <1>6, <1>8 DEF QuotesInv

(* A conversion that lost, or is retried, is answered from the conversions. *)
LEMMA Answered ==
    ASSUME QuotesInv, UNCHANGED quotationRows,
           \A a \in answers' : \/ a \in answers
                               \/ a.key # NoKey /\ \E c \in conversions :
                                      c.key = a.key /\ c.order = a.order
    PROVE  Replies'
<1>1. \A b \in 1 .. MaxBookings : Living(b)' <=> Living(b)
  BY DEF quotationRows, Living
<1>2. \A a \in answers' : a.key # NoKey /\ a.order \in 1 .. lastBooking
  BY DEF QuotesInv, Replies
<1>3. \A a \in answers' : Living(a.order)' =>
          \E c \in conversions : c.key = a.key /\ c.order = a.order
  <2> SUFFICES ASSUME NEW a \in answers', Living(a.order)', a \in answers
               PROVE  \E c \in conversions : c.key = a.key /\ c.order = a.order
    OBVIOUS
  <2>1. a.order \in 1 .. MaxBookings
    BY QuotationsAssumption DEF QuotesInv, Replies
  <2> QED BY <1>1, <2>1 DEF QuotesInv, Replies
<1> QED BY <1>2, <1>3 DEF QuotesInv, Replies, quotationRows
LEMMA Loses ==
    ASSUME QuotesInv, NEW r \in Quoters, LoseConversion(r)
    PROVE  QuotesInv'
<1> DEFINE won == {d \in conversions : d.key \in {draft[r].key} \ {NoKey}}
<1>1. /\ answers' = answers \cup {[key |-> c.key, order |-> c.order] : c \in won}
      /\ EndQuote(r) /\ UNCHANGED <<quotationRows, stale>>
  BY DEF LoseConversion
<1>2. ASSUME NEW a \in answers', a \notin answers
      PROVE  a.key # NoKey /\ \E c \in conversions : c.key = a.key /\ c.order = a.order
  <2>1. PICK c \in won : a = [key |-> c.key, order |-> c.order]
    BY <1>1, <1>2, Zenon
  <2> QED BY <2>1
<1> HIDE DEF won
<1>3. Replies'
  BY <1>1, <1>2, Answered
<1>4. Offered'
  BY <1>1, OffersAlone
<1>5. StaysFor(r)
  BY <1>1 DEF StaysFor, quotationRows, Quoted
<1>6. Waiting'
  BY <1>1, <1>5, EndingQuote DEF QuotesInv
<1> QED BY <1>3, <1>4, <1>6 DEF QuotesInv
LEMMA Replaying ==
    ASSUME QuotesInv, NEW r \in Quoters, NEW key \in Keys, ReplayConversion(r, key)
    PROVE  QuotesInv'
<1>1. UNCHANGED <<quotationRows, bookingLock, headerLock, stale, quoting, draft>>
  BY DEF ReplayConversion, quotationLocks
<1>2. PICK c \in conversions : c.key = key /\ Answer(key, c.order)
  BY DEF ReplayConversion
<1>3. ASSUME NEW a \in answers', a \notin answers PROVE a.key = key /\ a.order = c.order
  <2>1. PICK k \in {key} \ {NoKey} : a = [key |-> k, order |-> c.order]
    BY <1>2, <1>3, Zenon DEF Answer
  <2> QED BY <2>1
<1>4. key # NoKey
  BY QuotationsAssumption
<1>5. Replies'
  BY <1>1, <1>2, <1>3, <1>4, Answered
<1>6. Offered'
  BY <1>1, OffersAlone
<1>7. Waiting'
  BY <1>1 DEF quotationRows, QuotesInv, Waiting, Known, Quoted
<1> QED BY <1>5, <1>6, <1>7 DEF QuotesInv

(* A quotation that is deleted takes its revisions with it, and no order.   *)
LEMMA Deletes ==
    ASSUME QuotesInv, NEW r \in Quoters, DeleteQuotation(r)
    PROVE  QuotesInv' /\ \A n \in Numbers : Frozen(n)
<1>0. PICK q : q = draft[r].of[1]
  OBVIOUS
<1> DEFINE kept == conversions \ {c \in ConversionsOf(q) : ~Living(c.order)}
           gone == [NoHeader EXCEPT !.status = "ERASED"]
<1>1. /\ quoting[r] = "delete_write" /\ HeaderFree(r, q) /\ Quoted(q)
      /\ \A b \in 1 .. MaxBookings : Living(b) => bookings[b].of[1] # q
      /\ conversions' = kept
      /\ quotations' = [quotations EXCEPT ![q] = gone]
      /\ revisions' = [n \in Numbers |-> IF n[1] = q THEN NoRevision ELSE revisions[n]]
      /\ EndQuote(r)
      /\ UNCHANGED <<bookings, lastBooking, started, answers, stale>>
  BY <1>0 DEF DeleteQuotation, quotationHistory
<1>2. q \in Quotes
  BY <1>0, <1>1, NumberParts DEF QuotesInv, Waiting, Known
<1>3. gone.status = "ERASED" /\ DOMAIN gone = {"status", "current", "source"}
  BY DEF NoHeader
<1>4. /\ NoRevision.status = "ABSENT" /\ NoRevision.total = NoRevision.lines
      /\ DOMAIN NoRevision = {"status", "total", "lines"}
  BY DEF NoRevision
<1> HIDE DEF gone
<1>5. /\ quotations'[q] = gone /\ \A p \in Quotes \ {q} : quotations'[p] = quotations[p]
      /\ DOMAIN quotations' = Quotes /\ DOMAIN revisions' = Numbers
      /\ \A n \in Numbers : revisions'[n] = IF n[1] = q THEN NoRevision ELSE revisions[n]
  BY <1>1, <1>2 DEF QuotesInv, Offered, Tabled
<1>6. ~Quoted(q)' /\ \A p \in Quotes \ {q} : Quoted(p)' <=> Quoted(p)
  BY <1>3, <1>5 DEF Quoted
<1>7. Tabled'
  BY <1>1, <1>3, <1>4, <1>5 DEF QuotesInv, Offered, Tabled, Living
<1>8. Existing'
  <2>1. ASSUME NEW p \in Quotes, NEW k \in RevisionNos
        PROVE  revisions'[<<p, k>>] = IF p = q THEN NoRevision ELSE revisions[<<p, k>>]
    <3>1. <<p, k>> \in Numbers /\ <<p, k>>[1] = p
      BY NumberParts
    <3> QED BY <1>5, <3>1
  <2>2. ASSUME NEW p \in Quotes, Quoted(p)' PROVE revisions'[<<p, 1>>].status # "ABSENT"
    BY <1>6, <2>1, <2>2, NumberParts DEF QuotesInv, Offered, Existing
  <2>3. ASSUME NEW p \in Quotes, ~Quoted(p)', NEW k \in RevisionNos
        PROVE  revisions'[<<p, k>>].status = "ABSENT"
    <3>1. CASE p = q
      BY <1>4, <2>1, <3>1
    <3>2. CASE p # q
      BY <1>6, <2>1, <2>3, <3>2 DEF QuotesInv, Offered, Existing
    <3> QED BY <3>1, <3>2
  <2> QED BY <2>2, <2>3 DEF Existing
<1>9. Agreeing'
  BY <1>1, <1>4, <1>5 DEF QuotesInv, Offered, Agreeing
<1>10. \A n \in Numbers : Frozen(n)
  BY <1>3, <1>5 DEF Frozen
<1>11. BookingCarriesItsOffer'
  <2> SUFFICES ASSUME NEW b \in 1 .. MaxBookings, Living(b), bookings[b].of \notin stale
               PROVE  LET n == bookings[b].of IN
                      /\ revisions'[n].status \in Immutable
                      /\ revisions'[n].total = revisions'[n].lines
                      /\ bookings[b].total = revisions'[n].total
                      /\ bookings[b].lines = revisions'[n].lines
    BY <1>1 DEF BookingCarriesItsOffer, Living
  <2>1. bookings[b].of \in Numbers /\ bookings[b].of[1] # q
    BY <1>1 DEF QuotesInv, Offered, Tabled
  <2>2. revisions'[bookings[b].of] = revisions[bookings[b].of]
    BY <1>5, <2>1
  <2> QED BY <2>2 DEF QuotesInv, Offered, BookingCarriesItsOffer
<1>12. Replies'
  <2>1. ASSUME NEW a \in answers, Living(a.order)
        PROVE  \E c \in kept : c.key = a.key /\ c.order = a.order
    BY <2>1 DEF QuotesInv, Replies
  <2>2. \A a \in answers : Living(a.order)' <=> Living(a.order)
    BY <1>1 DEF Living
  <2>3. kept \subseteq conversions
    OBVIOUS
  <2> HIDE DEF kept
  <2> QED BY <1>1, <2>1, <2>2, <2>3 DEF QuotesInv, Replies
<1>13. StaysFor(r)
  BY <1>1, <1>6 DEF StaysFor, HeaderFree
<1>14. Waiting'
  BY <1>1, <1>13, EndingQuote DEF QuotesInv
<1> QED BY <1>7, <1>8, <1>9, <1>10, <1>11, <1>12, <1>14 DEF QuotesInv, Offered

-----------------------------------------------------------------------------
(* Reading for each of the requests, and taking the two locks.              *)
LEMMA EditorsRead ==
    ASSUME QuotesInv, NEW r \in Quoters, NEW q \in Quotes,
           \/ \E terms \in Terms \cup {NoTerms}, asked \in Asked \cup {"KEEP"} :
                  SaveQuotation(r, q, terms, asked)
           \/ ReviseQuotation(r, q)
           \/ ReadForDeletion(r, q)
    PROVE  QuotesInv'
<1>n. <<q, 1>> \in Numbers
  BY NumberParts
<1>0. UNCHANGED <<quotationRows, quotationLocks, answers, stale>> /\ Quoted(q)
  BY DEF SaveQuotation, ReviseQuotation, ReadForDeletion
<1>1. PICK n : n = <<q, LatestOf(q)>>
  OBVIOUS
<1>2. n \in Numbers /\ revisions[n].status # "ABSENT" /\ quotations[q].status \notin Gone
  BY <1>0, <1>1, LatestExists DEF QuotesInv, Offered, Quoted, Gone
<1>3. DOMAIN quoting = Quoters /\ DOMAIN draft = Quoters
  BY DEF QuotesInv, Waiting
<1>4. ASSUME NEW terms, NEW asked \in Asked \cup {"KEEP"}, SaveQuotation(r, q, terms, asked)
      PROVE  QuotesInv'
  <2> DEFINE d == [NoDraft EXCEPT !.of = n, !.header = quotations[q], !.row = revisions[n],
                                  !.to = asked, !.terms = terms]
             step == IF revisions[n].status \in Closed THEN "clone_number" ELSE "save_write"
  <2>1. quoting' = [quoting EXCEPT ![r] = step] /\ draft' = [draft EXCEPT ![r] = d]
    BY <1>1, <1>4 DEF SaveQuotation, QuoteTo
  <2>2. /\ DOMAIN d = DOMAIN NoDraft /\ d.of = n /\ d.header = quotations[q]
        /\ d.row = revisions[n] /\ d.to = asked
    BY DEF NoDraft
  <2>3. asked \notin Gone
    BY QuotationsAssumption DEF Gone
  <2> HIDE DEF d
  <2>4. Known(r)'
    BY <1>2, <1>3, <2>1, <2>2, <2>3 DEF Known, Closed
  <2> HIDE DEF Known, step
  <2> QED BY <1>0, <2>1, <2>2, <2>4, Reads
<1>5. ASSUME ReviseQuotation(r, q) PROVE QuotesInv'
  <2> DEFINE d == [NoDraft EXCEPT !.of = n, !.header = quotations[q], !.row = revisions[n]]
  <2>1. quoting' = [quoting EXCEPT ![r] = "revise_number"] /\ draft' = [draft EXCEPT ![r] = d]
    BY <1>1, <1>5 DEF ReviseQuotation, QuoteTo
  <2>2. /\ DOMAIN d = DOMAIN NoDraft /\ d.of = n /\ d.header = quotations[q] /\ d.to \notin Gone
    BY DEF NoDraft, Gone
  <2> HIDE DEF d
  <2>3. Known(r)'
    BY <1>2, <1>3, <2>1, <2>2 DEF Known
  <2> HIDE DEF Known
  <2> QED BY <1>0, <2>1, <2>2, <2>3, Reads
<1>6. ASSUME ReadForDeletion(r, q) PROVE QuotesInv'
  <2> DEFINE d == [NoDraft EXCEPT !.of = <<q, 1>>]
  <2>1. quoting' = [quoting EXCEPT ![r] = "delete_write"] /\ draft' = [draft EXCEPT ![r] = d]
    BY <1>6 DEF ReadForDeletion, QuoteTo
  <2>2. DOMAIN d = DOMAIN NoDraft /\ d.of = <<q, 1>>
    BY DEF NoDraft
  <2> HIDE DEF d
  <2>3. Known(r)'
    BY <1>n, <1>3, <2>1, <2>2 DEF Known, Offering
  <2> HIDE DEF Known
  <2> QED BY <1>0, <2>1, <2>2, <2>3, Reads
<1> QED BY <1>4, <1>5, <1>6
LEMMA DecidersRead ==
    ASSUME QuotesInv, NEW r \in Quoters, NEW n \in Numbers,
           \/ \E to \in Transitions : ReadForTransition(r, n, to)
           \/ \E key \in Keys \cup {NoKey} : ReadForConversion(r, n, key)
    PROVE  QuotesInv'
<1>0. UNCHANGED <<quotationRows, quotationLocks, answers, stale>> /\ Quoted(n[1])
  BY DEF ReadForTransition, ReadForConversion
<1>2. quotations[n[1]].status \notin Gone
  BY <1>0 DEF Quoted, Gone
<1>3. DOMAIN quoting = Quoters /\ DOMAIN draft = Quoters
  BY DEF QuotesInv, Waiting
<1>4. ASSUME NEW to \in Transitions, ReadForTransition(r, n, to) PROVE QuotesInv'
  <2> DEFINE d == [NoDraft EXCEPT !.of = n, !.header = quotations[n[1]],
                                  !.row = revisions[n], !.to = to]
  <2>1. quoting' = [quoting EXCEPT ![r] = "transition_write"] /\ draft' = [draft EXCEPT ![r] = d]
    BY <1>4 DEF ReadForTransition, QuoteTo
  <2>2. /\ DOMAIN d = DOMAIN NoDraft /\ d.of = n /\ d.header = quotations[n[1]] /\ d.to = to
    BY DEF NoDraft
  <2>3. to \notin Gone
    BY DEF Gone, Transitions
  <2> HIDE DEF d
  <2>4. Known(r)'
    BY <1>2, <1>3, <2>1, <2>2, <2>3 DEF Known
  <2> HIDE DEF Known
  <2> QED BY <1>0, <2>1, <2>2, <2>4, Reads
<1>5. ASSUME NEW key, ReadForConversion(r, n, key) PROVE QuotesInv'
  <2> DEFINE d == [NoDraft EXCEPT !.of = n, !.header = quotations[n[1]], !.row = revisions[n],
                                  !.to = "CONVERTED", !.key = key]
  <2>1. quoting' = [quoting EXCEPT ![r] = "convert_prior"] /\ draft' = [draft EXCEPT ![r] = d]
    BY <1>5 DEF ReadForConversion, QuoteTo
  <2>2. /\ DOMAIN d = DOMAIN NoDraft /\ d.of = n /\ d.header = quotations[n[1]]
        /\ d.to \notin Gone
    BY DEF NoDraft, Gone
  <2> HIDE DEF d
  <2>3. Known(r)'
    BY <1>2, <1>3, <2>1, <2>2 DEF Known
  <2> HIDE DEF Known
  <2> QED BY <1>0, <2>1, <2>2, <2>3, Reads
<1> QED BY <1>4, <1>5
LEMMA Checks ==
    ASSUME QuotesInv, NEW r \in Quoters, CheckPriorConversion(r)
    PROVE  QuotesInv'
<1>1. /\ quoting[r] = "convert_prior"
      /\ quoting' = [quoting EXCEPT ![r] = "convert_number"]
      /\ UNCHANGED <<quotationRows, quotationLocks, answers, stale>> /\ draft' = draft
  BY DEF CheckPriorConversion, QuoteTo, quotationHistory
<1>2. Known(r)'
  BY <1>1 DEF QuotesInv, Waiting, Known, Offering, QuotingSteps
<1>3. UNCHANGED <<quotations, headerLock, bookingLock, lastBooking, draft>>
      /\ \A q \in Quotes : Quoted(q)' <=> Quoted(q)
  BY <1>1 DEF quotationRows, quotationLocks, Quoted
<1>4. ASSUME NEW o \in Quoters, o # r PROVE Known(o)'
  <2>1. Known(o) /\ quoting'[o] = quoting[o]
    BY <1>1, <1>4 DEF QuotesInv, Waiting
  <2> HIDE DEF Known
  <2> QED BY <1>3, <2>1, KnowsStill
<1>5. Waiting'
  <2> HIDE DEF Known
  <2> QED BY <1>1, <1>2, <1>3, <1>4 DEF QuotesInv, Waiting
<1> QED BY <1>1, <1>5, ReadsKeepOffers DEF QuotesInv
LEMMA Locks ==
    ASSUME QuotesInv, NEW r \in Quoters, NEW q \in Quotes, LockHeader(r, q)
    PROVE  QuotesInv'
<1> DEFINE d == [draft[r] EXCEPT !.no = LatestOf(q) + 1]
           step == IF quoting[r] = "clone_number" THEN "clone_commit" ELSE "revise_commit"
<1>1. /\ quoting[r] \in {"clone_number", "revise_number"} /\ draft[r].of[1] = q
      /\ headerLock[q] = Nobody /\ Quoted(q)
      /\ headerLock' = [headerLock EXCEPT ![q] = r]
      /\ draft' = [draft EXCEPT ![r].no = LatestOf(q) + 1]
      /\ quoting' = [quoting EXCEPT ![r] = step]
      /\ UNCHANGED <<quotationRows, bookingLock, answers, stale>>
  BY DEF LockHeader, CloneNumber, QuoteTo, quotationHistory
<1>2. /\ DOMAIN d = DOMAIN NoDraft /\ d.of = draft[r].of /\ d.header = draft[r].header
      /\ d.to = draft[r].to /\ draft' = [draft EXCEPT ![r] = d]
  BY <1>1 DEF QuotesInv, Waiting, NoDraft
<1> HIDE DEF d
<1>3. Known(r)'
  <2>1. draft'[r] = d /\ quoting'[r] = step /\ headerLock'[q] = r
    BY <1>1, <1>2 DEF QuotesInv, Waiting
  <2>2. quotations'[draft'[r].of[1]].status \notin Gone
    BY <1>1, <1>2, <2>1 DEF quotationRows, Quoted, Gone
  <2>3. (Quoted(draft[r].of[1]))'
    BY <2>2 DEF Quoted, Gone
  <2> QED BY <1>1, <1>2, <2>1, <2>3 DEF QuotesInv, Waiting, Known, Offering, QuotingSteps
<1>4. /\ DOMAIN headerLock' = Quotes
      /\ \A o \in Quoters \ {r}, p \in Quotes :
             headerLock[p] = o /\ Quoted(p) => headerLock'[p] = o /\ Quoted(p)'
      /\ \A o \in Quoters \ {r} :
             bookingLock = o => bookingLock' = o /\ lastBooking' = lastBooking
  BY <1>1, QuotationsAssumption DEF quotationRows, QuotesInv, Waiting, Quoted
<1>5. Waiting'
  <2> HIDE DEF Known, step
  <2> QED BY <1>1, <1>2, <1>3, <1>4, GoingOn DEF QuotesInv
<1> QED BY <1>1, <1>5, ReadsKeepOffers DEF QuotesInv
LEMMA Allocates ==
    ASSUME QuotesInv, NEW r \in Quoters, AllocateBooking(r)
    PROVE  QuotesInv'
<1> DEFINE d == [draft[r] EXCEPT !.no = lastBooking + 1]
<1>1. /\ quoting[r] = "convert_number" /\ bookingLock = Nobody /\ lastBooking < MaxBookings
      /\ bookingLock' = r
      /\ draft' = [draft EXCEPT ![r].no = lastBooking + 1]
      /\ quoting' = [quoting EXCEPT ![r] = "convert_commit"]
      /\ UNCHANGED <<quotationRows, headerLock, answers, stale>>
  BY DEF AllocateBooking, QuoteTo, quotationHistory
<1>2. /\ DOMAIN d = DOMAIN NoDraft /\ d.of = draft[r].of /\ d.header = draft[r].header
      /\ d.to = draft[r].to /\ d.no = lastBooking + 1
      /\ draft' = [draft EXCEPT ![r] = d]
  BY <1>1 DEF QuotesInv, Waiting, NoDraft
<1> HIDE DEF d
<1>3. Known(r)'
  BY <1>1, <1>2 DEF QuotesInv, Waiting, Known, Offering, QuotingSteps, quotationRows
<1>4. /\ DOMAIN headerLock' = Quotes
      /\ \A o \in Quoters \ {r}, p \in Quotes :
             headerLock[p] = o /\ Quoted(p) => headerLock'[p] = o /\ Quoted(p)'
      /\ \A o \in Quoters \ {r} :
             bookingLock = o => bookingLock' = o /\ lastBooking' = lastBooking
  BY <1>1, QuotationsAssumption DEF quotationRows, QuotesInv, Waiting, Quoted
<1>5. Waiting'
  <2> HIDE DEF Known
  <2> QED BY <1>1, <1>2, <1>3, <1>4, GoingOn DEF QuotesInv
<1> QED BY <1>1, <1>5, ReadsKeepOffers DEF QuotesInv

-----------------------------------------------------------------------------
(* A request that only moves on, or ends, leaves every revision alone.      *)
LEMMA AloneIsFrozen ==
    ASSUME UNCHANGED revisions
    PROVE  \A n \in Numbers : Frozen(n)
BY DEF Frozen

LEMMA QuotesInvStep ==
    ASSUME QuotesInv, [QuotationsNext]_quotationVars
    PROVE  QuotesInv' /\ \A n \in Numbers : Frozen(n)
<1> DEFINE Kept == QuotesInv' /\ \A n \in Numbers : Frozen(n)
<1>1. ASSUME NEW r \in Quoters, Converting(r) PROVE Kept
  <2>1. CASE \E key \in Keys : ReplayConversion(r, key)
    BY <2>1, Replaying, AloneIsFrozen DEF ReplayConversion, quotationRows
  <2>2. CASE \E n \in Numbers, key \in Keys \cup {NoKey} : ReadForConversion(r, n, key)
    BY <2>2, DecidersRead, AloneIsFrozen DEF ReadForConversion, quotationRows
  <2>3. CASE CheckPriorConversion(r)
    BY <2>3, Checks, AloneIsFrozen DEF CheckPriorConversion, quotationRows
  <2>4. CASE AllocateBooking(r)
    BY <2>4, Allocates, AloneIsFrozen DEF AllocateBooking, quotationRows
  <2>5. CASE CommitConversion(r)
    BY <2>5, Converts
  <2>6. CASE LoseConversion(r)
    BY <2>6, Loses, AloneIsFrozen DEF LoseConversion, quotationRows
  <2> QED BY <1>1, <2>1, <2>2, <2>3, <2>4, <2>5, <2>6 DEF Converting
<1>2. ASSUME NEW r \in Quoters, Editing(r) PROVE Kept
  <2>1. CASE \E q \in Quotes, terms \in Terms \cup {NoTerms}, asked \in Asked \cup {"KEEP"} :
                 SaveQuotation(r, q, terms, asked)
    BY <2>1, EditorsRead, AloneIsFrozen DEF SaveQuotation, quotationRows
  <2>2. CASE SaveInPlace(r)
    BY <2>2, SavesInPlace
  <2>3. CASE \E q \in Quotes : ReviseQuotation(r, q)
    BY <2>3, EditorsRead, AloneIsFrozen DEF ReviseQuotation, quotationRows
  <2>4. CASE \E q \in Quotes : LockHeader(r, q)
    BY <2>4, Locks, AloneIsFrozen DEF LockHeader, quotationRows
  <2>5. CASE CloneAndSave(r) \/ CloneAsRevision(r)
    BY <2>5, Clones
  <2>6. CASE \E n \in Numbers, to \in Transitions : ReadForTransition(r, n, to)
    BY <2>6, DecidersRead, AloneIsFrozen DEF ReadForTransition, quotationRows
  <2>7. CASE WriteTransition(r)
    BY <2>7, Decides
  <2> QED BY <1>2, <2>1, <2>2, <2>3, <2>4, <2>5, <2>6, <2>7 DEF Editing
<1>3. ASSUME NEW r \in Quoters, Removing(r) PROVE Kept
  <2>1. CASE \E q \in Quotes : ReadForDeletion(r, q)
    BY <2>1, EditorsRead, AloneIsFrozen DEF ReadForDeletion, quotationRows
  <2>2. CASE DeleteQuotation(r)
    BY <2>2, Deletes
  <2>3. CASE \E b \in 1 .. MaxBookings, q \in Quotes : Requote(r, b, q)
    BY <2>3, Requotes
  <2>4. CASE LinkRequote(r)
    BY <2>4, Links
  <2> QED BY <1>3, <2>1, <2>2, <2>3, <2>4 DEF Removing
<1>4. ASSUME NEW r \in Quoters, AbandonQuote(r) PROVE Kept
  BY <1>4, JustEnds, AloneIsFrozen DEF AbandonQuote, quotationRows, quotationHistory
<1>5. ASSUME NEW q \in Quotes, NEW terms \in Terms, NEW asked \in Asked \cup {"KEEP"},
             CreateQuotation(q, terms, asked)
      PROVE  Kept
  <2>1. asked \notin Gone
    BY QuotationsAssumption DEF Gone
  <2> QED BY <1>5, <2>1, Creates
<1>6. ASSUME NEW b \in 1 .. MaxBookings, EraseBooking(b) PROVE Kept
  BY <1>6, Erases
<1>7. ASSUME UNCHANGED quotationVars PROVE Kept
  <2>1. Offered' /\ Replies'
    BY <1>7, ReadsKeepOffers DEF quotationVars, quotationHistory
  <2>2. Waiting'
    BY <1>7 DEF quotationVars, quotationRows, quotationLocks, QuotesInv, Waiting, Known, Quoted
  <2>3. UNCHANGED revisions
    BY <1>7 DEF quotationVars, quotationRows
  <2> QED BY <2>1, <2>2, <2>3, AloneIsFrozen DEF QuotesInv
<1> HIDE DEF Kept
<1>8. ASSUME QuotationsNext PROVE Kept
  <2>1. ASSUME \E r \in Quoters : Converting(r) \/ Editing(r) \/ Removing(r) \/ AbandonQuote(r)
        PROVE  Kept
    BY <1>1, <1>2, <1>3, <1>4, <2>1
  <2> QED BY <1>5, <1>6, <1>8, <2>1, Zenon DEF QuotationsNext
<1>9. Kept
  BY <1>7, <1>8
<1> QED BY <1>9 DEF Kept

LEMMA QuotesInvInit == QuotationsInit => QuotesInv
<1> SUFFICES ASSUME QuotationsInit PROVE QuotesInv
  OBVIOUS
<1> USE DEF QuotationsInit, NoHeader, NoRevision, NoBooking, NoDraft
<1>1. Tabled
  BY DEF Tabled, Living
<1>2. Existing
  BY NumberParts DEF Existing, Quoted
<1>3. Agreeing /\ BookingCarriesItsOffer
  BY DEF Agreeing, BookingCarriesItsOffer, Living
<1>4. Waiting
  BY DEF Waiting, Known, Offering
<1>5. Replies
  BY QuotationsAssumption DEF Replies
<1> QED BY <1>1, <1>2, <1>3, <1>4, <1>5 DEF QuotesInv, Offered

(* What the customer was offered stands (service.py save_quotation,         *)
(* convert_revision, the transitions, delete_quotations): every order is    *)
(* the offer it was converted from, and a sent revision keeps its terms,    *)
(* but for writes over a version that was not read.                         *)
THEOREM SentOffersStand == QuotationsSpec => OffersStand
<1>1. QuotesInv => BookingCarriesItsOffer
  BY DEF QuotesInv, Offered
<1>2. QuotesInv /\ [QuotationsNext]_quotationVars => QuotesInv'
  BY QuotesInvStep
<1>3. QuotesInv /\ [QuotationsNext]_quotationVars => [\A n \in Numbers : Frozen(n)]_quotationVars
  BY QuotesInvStep
<1>4. QuotationsSpec => []QuotesInv
  BY <1>2, QuotesInvInit, PTL DEF QuotationsSpec
<1>5. QuotationsSpec => [][\A n \in Numbers : Frozen(n)]_quotationVars
  BY <1>3, <1>4, PTL DEF QuotationsSpec
<1>6. QuotationsSpec => SentOffersFrozen
  BY <1>5 DEF SentOffersFrozen, Frozen
<1>7. QuotationsSpec => []BookingCarriesItsOffer
  BY <1>1, <1>4, PTL
<1> QED BY <1>6, <1>7 DEF OffersStand

(* A retried conversion is answered with one order (convert_revision).      *)
THEOREM ConversionsAnswerOnce == QuotationsSpec => []RetriesGetOneOrder
<1>1. QuotesInv => RetriesGetOneOrder
  BY DEF QuotesInv, Replies, RetriesGetOneOrder
<1>2. QuotesInv /\ [QuotationsNext]_quotationVars => QuotesInv'
  BY QuotesInvStep
<1> QED BY <1>1, <1>2, QuotesInvInit, PTL DEF QuotationsSpec
-----------------------------------------------------------------------------
(***************************************************************************)
(* Part three: the pages of component groups.  Rows have ids that are never*)
(* given again, and a page holds a cell as it was loaded unless its user   *)
(* typed in it.                                                            *)
(***************************************************************************)
Ids == 1 .. lastLine
PageHolds(p) ==
    /\ DOMAIN p = DOMAIN NoPage
    /\ DOMAIN p.opened \subseteq Ids /\ DOMAIN p.rows \subseteq Ids /\ IsFiniteSet(p.added)
    /\ \A r \in DOMAIN p.opened : DOMAIN p.opened[r] = Fields
    /\ \A r \in DOMAIN p.rows : DOMAIN p.rows[r].values = Fields
    /\ \A r \in DOMAIN p.rows \cap DOMAIN p.opened, f \in Fields :
           <<r, f>> \notin p.typed => p.rows[r].values[f] = p.opened[r][f]
CaptureInv ==
    /\ lastLine \in Nat /\ DOMAIN lines \subseteq Ids
    /\ \A r \in DOMAIN lines : DOMAIN lines[r] = Fields
    /\ DOMAIN page = Typists /\ \A u \in Typists : PageHolds(page[u])

(* What a save by u, or any step of another, does to the cells of u's page. *)
Spared(u) ==
    page[u].step = "commit" /\ page'[u].step = "page" =>
       \A r \in DOMAIN lines \cap DOMAIN page[u].opened :
          \/ lines[r] # page[u].opened[r]
          \/ r \in DOMAIN page[u].seen /\ page[u].seen[r] # page[u].opened[r]
          \/ r \notin DOMAIN lines' /\ r \notin DOMAIN page[u].rows
          \/ /\ r \in DOMAIN lines'
             /\ \A f \in Fields \ {g \in Fields : <<r, g>> \in page[u].typed} :
                   \/ lines'[r][f] = lines[r][f]
                   \/ /\ f \in DOMAIN page[u].form
                      /\ lines'[r][f] = Coerced(page[u].form[f], lines[r][f])

(* A page that is loaded, or that takes its rows from an answer, holds them *)
(* as they were loaded.                                                     *)
LEMMA LoadedPageHolds ==
    ASSUME lastLine \in Nat, NEW p, DOMAIN p = DOMAIN NoPage,
           DOMAIN p.opened \subseteq Ids, IsFiniteSet(p.added),
           \A r \in DOMAIN p.opened : DOMAIN p.opened[r] = Fields,
           p.rows = [r \in DOMAIN p.opened |-> OnPage(p.opened[r])]
    PROVE  PageHolds(p)
BY DEF PageHolds, OnPage

(* A step of u that leaves the rows of the table alone.                     *)
LEMMA PageStep ==
    ASSUME CaptureInv, NEW u \in Typists, NEW p, PageHolds(p), On(u, p),
           UNCHANGED <<lines, lastLine>>
    PROVE  CaptureInv' /\ \A v \in Typists : Spared(v)
<1>1. page'[u] = p /\ \A v \in Typists \ {u} : page'[v] = page[v]
  BY DEF On, CaptureInv
<1>2. DOMAIN page' = Typists
  BY DEF On, CaptureInv
<1>3. \A v \in Typists : PageHolds(page'[v])
  BY <1>1 DEF CaptureInv
<1>4. \A v \in Typists : PageHolds(page[v])'
  BY <1>3 DEF PageHolds, Ids
<1>5. CaptureInv'
  <2> HIDE DEF PageHolds
  <2> QED BY <1>2, <1>4 DEF CaptureInv, Ids
<1> QED BY <1>5 DEF Spared

(* The rows that a save inserts are finitely many.                          *)
LEMMA NewRowsFinite ==
    ASSUME CaptureInv, NEW u \in Typists, NEW there
    PROVE  IsFiniteSet(SentAsNew(u, there)) /\ Cardinality(SentAsNew(u, there)) \in Nat
<1> DEFINE D == DOMAIN page[u].rows \ DOMAIN there
           F == [r \in D |-> page[u].rows[r]]
           S == {page[u].rows[r] : r \in D}
<1>1. IsFiniteSet(D)
  <2>1. D \subseteq 1 .. lastLine /\ lastLine \in Int
    BY DEF CaptureInv, PageHolds, Ids
  <2>2. IsFiniteSet(1 .. lastLine)
    BY <2>1, FS_Interval
  <2> QED BY <2>1, <2>2, FS_Subset
<1>2. F \in Surjection(D, S)
  BY DEF Surjection
<1>3. IsFiniteSet(S)
  <2> HIDE DEF D, F, S
  <2> QED BY <1>1, <1>2, FS_Surjection
<1>4. IsFiniteSet(page[u].added)
  BY DEF CaptureInv, PageHolds
<1>5. SentAsNew(u, there) = page[u].added \cup S
  BY DEF SentAsNew
<1>6. IsFiniteSet(page[u].added \cup S)
  <2> HIDE DEF S
  <2> QED BY <1>3, <1>4, FS_Union
<1> QED BY <1>5, <1>6, FS_CardinalityType

(* The commit of a save.                                                    *)
LEMMA CommitSpares ==
    ASSUME CaptureInv, NEW u \in Typists, CommitSave(u)
    PROVE  CaptureInv' /\ \A v \in Typists : Spared(v)
<1> DEFINE p == page[u]
           new == SentAsNew(u, p.seen)
           kept == KeptLines(u)
           unread == DOMAIN lines \ DOMAIN p.seen
           gone == kept \ DOMAIN lines
           ids == (lastLine + 1)..(lastLine + Cardinality(new))
<1>1. PICK order \in [ids -> new] :
         LET result == [r \in kept \cup ids |->
                 IF r \in ids THEN Validated(p.form, order[r], NoLine)
                 ELSE Validated(p.form, p.rows[r], p.seen[r])]
         IN /\ lines' = [r \in (DOMAIN result \ gone) \cup unread |->
                            IF r \in unread THEN lines[r] ELSE result[r]]
            /\ On(u, [NoPage EXCEPT !.step = "page", !.shown = p.shown, !.opened = result,
                         !.rows = [r \in DOMAIN result |-> OnPage(result[r])]])
  BY DEF CommitSave
<1>2. PICK result : result = [r \in kept \cup ids |->
                 IF r \in ids THEN Validated(p.form, order[r], NoLine)
                 ELSE Validated(p.form, p.rows[r], p.seen[r])]
  OBVIOUS
<1>3. PICK q : q = [NoPage EXCEPT !.step = "page", !.shown = p.shown, !.opened = result,
                         !.rows = [r \in DOMAIN result |-> OnPage(result[r])]]
  OBVIOUS
<1>4. /\ lines' = [r \in (DOMAIN result \ gone) \cup unread |->
                       IF r \in unread THEN lines[r] ELSE result[r]]
      /\ On(u, q) /\ lastLine' = lastLine + Cardinality(new) /\ p.step = "commit"
  BY <1>1, <1>2, <1>3, ZenonT(30) DEF CommitSave
<1>5. Cardinality(new) \in Nat /\ lastLine \in Nat
  BY NewRowsFinite DEF CaptureInv
<1>6. /\ DOMAIN result = kept \cup ids
      /\ \A r \in kept \cup ids : DOMAIN result[r] = Fields
      /\ \A r \in kept \ ids : result[r] = Validated(p.form, p.rows[r], p.seen[r])
  BY <1>2 DEF Validated
<1>7. PageHolds(p) /\ kept \subseteq DOMAIN p.rows /\ kept = DOMAIN p.rows \cap DOMAIN p.seen
  BY DEF CaptureInv, KeptLines
<1>8. /\ \A i \in 1 .. lastLine : i \in 1 .. lastLine' /\ i \notin ids
      /\ \A i \in ids : i \in 1 .. lastLine'
      /\ lastLine' \in Nat
  BY <1>4, <1>5
<1> HIDE DEF new, ids
<1>9. DOMAIN result \subseteq 1 .. lastLine'
  BY <1>6, <1>7, <1>8 DEF PageHolds, Ids
<1>10. /\ DOMAIN lines' = (DOMAIN result \ gone) \cup unread
       /\ \A r \in DOMAIN lines' : lines'[r] = IF r \in unread THEN lines[r] ELSE result[r]
  BY <1>4
<1>11. DOMAIN lines' \subseteq 1 .. lastLine' /\ \A r \in DOMAIN lines' : DOMAIN lines'[r] = Fields
  BY <1>6, <1>8, <1>9, <1>10 DEF CaptureInv, Ids
<1>12. PageHolds(q)'
  <2>1. /\ DOMAIN q = DOMAIN NoPage /\ q.opened = result /\ q.added = {}
        /\ q.rows = [r \in DOMAIN result |-> OnPage(result[r])]
    BY <1>3 DEF NoPage
  <2>2. IsFiniteSet({})
    BY FS_EmptySet
  <2> QED BY <1>6, <1>9, <2>1, <2>2 DEF PageHolds, OnPage, Ids
<1>13. page'[u] = q /\ \A v \in Typists \ {u} : page'[v] = page[v]
  BY <1>4 DEF On, CaptureInv
<1>14. ASSUME NEW v \in Typists PROVE PageHolds(page[v])'
  <2>1. CASE v = u
    <3>1. page'[v] = q
      BY <1>13, <2>1
    <3> QED BY <1>12, <3>1 DEF PageHolds, Ids
  <2>2. CASE v # u
    <3>1. page'[v] = page[v] /\ PageHolds(page[v])
      BY <1>13, <2>2 DEF CaptureInv
    <3>2. Ids \subseteq Ids'
      BY <1>8 DEF Ids
    <3> QED BY <3>1, <3>2 DEF PageHolds
  <2> QED BY <2>1, <2>2
<1>15. CaptureInv'
  <2>1. DOMAIN page' = Typists
    BY <1>4 DEF On, CaptureInv
  <2> HIDE DEF PageHolds
  <2> QED BY <1>8, <1>11, <1>14, <2>1 DEF CaptureInv, Ids
<1>16. ASSUME NEW r \in DOMAIN lines \cap DOMAIN p.opened, lines[r] = p.opened[r],
              r \in DOMAIN p.seen => p.seen[r] = p.opened[r],
              r \in DOMAIN lines' \/ r \in DOMAIN p.rows,
              NEW f \in Fields, <<r, f>> \notin p.typed
       PROVE  /\ r \in DOMAIN lines'
              /\ \/ lines'[r][f] = lines[r][f]
                 \/ f \in DOMAIN p.form /\ lines'[r][f] = Coerced(p.form[f], lines[r][f])
  <2>1. CASE r \notin DOMAIN p.seen
    BY <1>10, <1>16, <2>1
  <2>2. CASE r \in DOMAIN p.seen
    <3>1. r \in 1 .. lastLine /\ r \notin ids
      BY <1>8 DEF CaptureInv, Ids
    <3>2. r \in kept
      BY <1>6, <1>7, <1>10, <1>16, <2>2, <3>1
    <3>3. r \in DOMAIN lines' /\ lines'[r] = Validated(p.form, p.rows[r], p.seen[r])
      BY <1>6, <1>10, <1>16, <2>2, <3>1, <3>2
    <3>4. Provided(p.rows[r], p.seen[r], f) = lines[r][f]
      BY <1>7, <1>16, <2>2, <3>2 DEF Provided, PageHolds
    <3>5. p.seen[r][f] = lines[r][f]
      BY <1>16, <2>2
    <3> QED BY <3>3, <3>4, <3>5 DEF Validated
  <2> QED BY <2>1, <2>2
<1>17. Spared(u)
  <2> SUFFICES ASSUME NEW r \in DOMAIN lines \cap DOMAIN p.opened, lines[r] = p.opened[r],
                      r \in DOMAIN p.seen => p.seen[r] = p.opened[r],
                      r \in DOMAIN lines' \/ r \in DOMAIN p.rows
               PROVE  /\ r \in DOMAIN lines'
                      /\ \A f \in Fields \ {g \in Fields : <<r, g>> \in p.typed} :
                            \/ lines'[r][f] = lines[r][f]
                            \/ /\ f \in DOMAIN p.form
                               /\ lines'[r][f] = Coerced(p.form[f], lines[r][f])
    BY Zenon DEF Spared
  <2>1. r \in DOMAIN lines'
    <3>1. r \in 1 .. lastLine /\ r \notin ids
      BY <1>8 DEF CaptureInv, Ids
    <3> QED BY <1>6, <1>7, <1>10, <3>1
  <2> QED BY <1>16, <2>1
<1>18. \A v \in Typists : Spared(v)
  BY <1>13, <1>17 DEF Spared
<1> QED BY <1>15, <1>18

(* Every step of a page.                                                    *)
LEMMA CaptureStep ==
    ASSUME CaptureInv, [CaptureNext]_captureVars
    PROVE  CaptureInv' /\ \A v \in Typists : Spared(v)
<1> DEFINE Goal == CaptureInv' /\ \A v \in Typists : Spared(v)
<1>1. ASSUME UNCHANGED <<lines, lastLine, page>> PROVE Goal
  BY <1>1 DEF CaptureInv, PageHolds, Ids, Spared
<1>2. ASSUME NEW f \in Fields,
             (\E a \in Attributes : UpdateAttribute(f, a))
             \/ (\E m \in Memberships : UpdateMembership(f, m))
      PROVE  Goal
  <2>1. UNCHANGED <<lines, lastLine, page>>
    BY <1>2 DEF UpdateAttribute, UpdateMembership
  <2> HIDE DEF Goal
  <2> QED BY <1>1, <2>1
<1>3. ASSUME NEW u \in Typists, OpenPage(u) PROVE Goal
  <2> DEFINE p == [NoPage EXCEPT !.step = "rows", !.opened = lines]
  <2>1. On(u, p) /\ UNCHANGED <<lines, lastLine>>
    BY <1>3 DEF OpenPage
  <2>2. /\ DOMAIN p = DOMAIN NoPage /\ p.opened = lines /\ p.added = {} /\ p.rows = <<>>
    BY DEF NoPage
  <2>3. IsFiniteSet({}) /\ DOMAIN <<>> = {}
    BY FS_EmptySet
  <2> HIDE DEF p
  <2>4. PageHolds(p)
    BY <2>2, <2>3 DEF PageHolds, CaptureInv
  <2> QED BY <2>1, <2>4, PageStep
<1>4. ASSUME NEW u \in Typists, ShowPage(u) PROVE Goal
  <2>1. PICK form : On(u, [page[u] EXCEPT !.step = "page", !.shown = form,
                 !.rows = [r \in DOMAIN page[u].opened |-> OnPage(page[u].opened[r])]])
    BY <1>4 DEF ShowPage
  <2> DEFINE p == [page[u] EXCEPT !.step = "page", !.shown = form,
                 !.rows = [r \in DOMAIN page[u].opened |-> OnPage(page[u].opened[r])]]
  <2>2. PageHolds(page[u]) /\ UNCHANGED <<lines, lastLine>> /\ lastLine \in Nat
    BY <1>4 DEF ShowPage, CaptureInv
  <2>3. /\ DOMAIN p = DOMAIN NoPage /\ p.opened = page[u].opened /\ p.added = page[u].added
        /\ p.rows = [r \in DOMAIN page[u].opened |-> OnPage(page[u].opened[r])]
    BY <2>2 DEF NoPage, PageHolds
  <2>4. On(u, p)
    BY <2>1
  <2> HIDE DEF p
  <2>5. /\ DOMAIN p.opened \subseteq Ids /\ IsFiniteSet(p.added)
        /\ \A r \in DOMAIN p.opened : DOMAIN p.opened[r] = Fields
    BY <2>2, <2>3 DEF PageHolds
  <2>6. PageHolds(p)
    BY <2>2, <2>3, <2>5, LoadedPageHolds
  <2> QED BY <2>2, <2>4, <2>6, PageStep
<1>5. ASSUME NEW u \in Typists, NEW f \in Fields, NEW w, TypeCell(u, f, w) PROVE Goal
  <2>0. PageHolds(page[u]) /\ UNCHANGED <<lines, lastLine>>
    BY <1>5 DEF TypeCell, CaptureInv
  <2>1. ASSUME NEW r \in DOMAIN page[u].rows,
               On(u, [page[u] EXCEPT !.rows[r] = Written(@, f, w), !.typed = @ \cup {<<r, f>>}])
        PROVE  Goal
    <3> DEFINE p == [page[u] EXCEPT !.rows[r] = Written(@, f, w), !.typed = @ \cup {<<r, f>>}]
    <3>1. /\ DOMAIN p = DOMAIN NoPage /\ p.opened = page[u].opened /\ p.added = page[u].added
          /\ p.typed = page[u].typed \cup {<<r, f>>}
          /\ DOMAIN p.rows = DOMAIN page[u].rows
          /\ p.rows[r] = Written(page[u].rows[r], f, w)
          /\ \A s \in DOMAIN page[u].rows \ {r} : p.rows[s] = page[u].rows[s]
      BY <2>0 DEF NoPage, PageHolds
    <3>2. On(u, p)
      BY <2>1
    <3> HIDE DEF p
    <3>3. DOMAIN p.rows[r].values = Fields
          /\ \A g \in Fields \ {f} : p.rows[r].values[g] = page[u].rows[r].values[g]
      BY <2>0, <3>1 DEF PageHolds, Written
    <3>4. PageHolds(p)
      BY <2>0, <3>1, <3>3 DEF PageHolds
    <3> QED BY <2>0, <3>2, <3>4, PageStep
  <2>2. ASSUME NEW row \in page[u].added, On(u, [page[u] EXCEPT !.added = {Written(row, f, w)}])
        PROVE  Goal
    <3> DEFINE p == [page[u] EXCEPT !.added = {Written(row, f, w)}]
    <3>1. /\ DOMAIN p = DOMAIN NoPage /\ p.opened = page[u].opened
          /\ p.added = {Written(row, f, w)} /\ p.typed = page[u].typed /\ p.rows = page[u].rows
      BY <2>0 DEF NoPage, PageHolds
    <3>2. IsFiniteSet({Written(row, f, w)})
      BY FS_Singleton
    <3>3. On(u, p)
      BY <2>2
    <3> HIDE DEF p
    <3>4. PageHolds(p)
      BY <2>0, <3>1, <3>2 DEF PageHolds
    <3> QED BY <2>0, <3>3, <3>4, PageStep
  <2> QED BY <1>5, <2>1, <2>2 DEF TypeCell
<1>6. ASSUME NEW u \in Typists, AddLine(u) PROVE Goal
  <2>0. PageHolds(page[u]) /\ UNCHANGED <<lines, lastLine>>
    BY <1>6 DEF AddLine, CaptureInv
  <2>1. PICK row : On(u, [page[u] EXCEPT !.added = {row}])
    BY <1>6 DEF AddLine
  <2> DEFINE p == [page[u] EXCEPT !.added = {row}]
  <2>2. /\ DOMAIN p = DOMAIN NoPage /\ p.opened = page[u].opened
        /\ p.added = {row} /\ p.typed = page[u].typed /\ p.rows = page[u].rows
    BY <2>0 DEF NoPage, PageHolds
  <2>3. IsFiniteSet({row}) /\ On(u, p)
    BY <2>1, FS_Singleton
  <2> HIDE DEF p
  <2>4. PageHolds(p)
    BY <2>0, <2>2, <2>3 DEF PageHolds
  <2> QED BY <2>0, <2>3, <2>4, PageStep
<1>7. ASSUME NEW u \in Typists, NEW r \in DOMAIN page[u].rows, RemoveLine(u, r) PROVE Goal
  <2>0. PageHolds(page[u]) /\ UNCHANGED <<lines, lastLine>>
    BY <1>7 DEF RemoveLine, CaptureInv
  <2> DEFINE p == [page[u] EXCEPT !.rows = [s \in DOMAIN @ \ {r} |-> @[s]]]
  <2>1. /\ DOMAIN p = DOMAIN NoPage /\ p.opened = page[u].opened
        /\ p.added = page[u].added /\ p.typed = page[u].typed
        /\ DOMAIN p.rows = DOMAIN page[u].rows \ {r}
        /\ \A s \in DOMAIN p.rows : p.rows[s] = page[u].rows[s]
    BY <2>0 DEF NoPage, PageHolds
  <2>2. On(u, p)
    BY <1>7 DEF RemoveLine
  <2> HIDE DEF p
  <2>3. PageHolds(p)
    BY <2>0, <2>1 DEF PageHolds
  <2> QED BY <2>0, <2>2, <2>3, PageStep
<1>8. ASSUME NEW u \in Typists, StartSave(u) \/ ReadLines(u) \/ SaveFails(u) PROVE Goal
  <2>0. PageHolds(page[u]) /\ UNCHANGED <<lines, lastLine>>
    BY <1>8 DEF StartSave, ReadLines, SaveFails, CaptureInv
  <2>1. ASSUME NEW p, On(u, p), DOMAIN p = DOMAIN NoPage, p.opened = page[u].opened,
               p.added = page[u].added, p.typed = page[u].typed, p.rows = page[u].rows
        PROVE  Goal
    <3>1. PageHolds(p)
      BY <2>0, <2>1 DEF PageHolds
    <3> QED BY <2>0, <2>1, <3>1, PageStep
  <2>2. DOMAIN page[u] = DOMAIN NoPage
    BY <2>0 DEF PageHolds
  <2> HIDE DEF Goal
  <2>3. CASE StartSave(u)
    <3> DEFINE p == [page[u] EXCEPT !.step = "form", !.form = Form]
    <3>1. /\ On(u, p) /\ DOMAIN p = DOMAIN NoPage /\ p.opened = page[u].opened
          /\ p.added = page[u].added /\ p.typed = page[u].typed /\ p.rows = page[u].rows
      BY <2>2, <2>3 DEF StartSave, NoPage
    <3> HIDE DEF p
    <3> QED BY <2>1, <3>1
  <2>4. CASE ReadLines(u)
    <3> DEFINE p == [page[u] EXCEPT !.step = "commit", !.seen = lines]
               q == [page[u] EXCEPT !.step = "page", !.form = <<>>]
    <3>1. On(u, p) \/ On(u, q)
      BY <2>4 DEF ReadLines
    <3>2. /\ DOMAIN p = DOMAIN NoPage /\ p.opened = page[u].opened
          /\ p.added = page[u].added /\ p.typed = page[u].typed /\ p.rows = page[u].rows
          /\ DOMAIN q = DOMAIN NoPage /\ q.opened = page[u].opened
          /\ q.added = page[u].added /\ q.typed = page[u].typed /\ q.rows = page[u].rows
      BY <2>2 DEF NoPage
    <3> HIDE DEF p, q
    <3> QED BY <2>1, <3>1, <3>2
  <2>5. CASE SaveFails(u)
    <3> DEFINE p == [page[u] EXCEPT !.step = "page", !.form = <<>>, !.seen = <<>>]
    <3>1. /\ On(u, p) /\ DOMAIN p = DOMAIN NoPage /\ p.opened = page[u].opened
          /\ p.added = page[u].added /\ p.typed = page[u].typed /\ p.rows = page[u].rows
      BY <2>2, <2>5 DEF SaveFails, NoPage
    <3> HIDE DEF p
    <3> QED BY <2>1, <3>1
  <2> QED BY <1>8, <2>3, <2>4, <2>5
<1>9. ASSUME NEW u \in Typists, CommitSave(u) PROVE Goal
  BY <1>9, CommitSpares
<1> HIDE DEF Goal
<1>10. ASSUME UNCHANGED captureVars PROVE Goal
  BY <1>1, <1>10 DEF captureVars
<1>11. ASSUME CaptureNext PROVE Goal
  BY <1>2, <1>3, <1>4, <1>5, <1>6, <1>7, <1>8, <1>9, <1>11, Zenon DEF CaptureNext
<1>12. Goal
  BY <1>10, <1>11
<1> QED BY <1>12 DEF Goal

(* A save changes only what its user typed (component_tabs.py bulk_save and *)
(* the page's own bookkeeping), whatever others save or edit meanwhile.     *)
THEOREM OnlyTypingChanges == CaptureSpec => SavesChangeWhatWasTyped
<1>1. CaptureInit => CaptureInv
  <2> SUFFICES ASSUME CaptureInit PROVE CaptureInv
    OBVIOUS
  <2>1. PICK line \in [Fields -> {Missing, Text("1.0")}] : lines = [r \in {1} |-> line]
    BY DEF CaptureInit
  <2>2. \A u \in Typists : page[u] = NoPage
    BY DEF CaptureInit
  <2>3. IsFiniteSet({}) /\ DOMAIN <<>> = {}
    BY FS_EmptySet
  <2>4. PageHolds(NoPage)
    BY <2>3 DEF PageHolds, NoPage
  <2> HIDE DEF PageHolds
  <2> QED BY <2>1, <2>2, <2>4 DEF CaptureInit, CaptureInv, Ids
<1>2. CaptureInv /\ [CaptureNext]_captureVars => CaptureInv'
  BY CaptureStep
<1>3. CaptureInv /\ [CaptureNext]_captureVars => [\A u \in Typists : Spared(u)]_captureVars
  BY CaptureStep
<1>4. CaptureSpec => [][\A u \in Typists : Spared(u)]_captureVars
  BY <1>1, <1>2, <1>3, PTL DEF CaptureSpec
<1> QED BY <1>4, PTL DEF SavesChangeWhatWasTyped, Spared
=============================================================================
