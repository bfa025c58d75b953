------------------------------- MODULE Orders -------------------------------
(***************************************************************************)
(* Service orders and what hangs on them: containers, movements,           *)
(* milestones, the payments that name containers, and attachments          *)
(* (backend/app/modules/operations/service.py, repository.py and models.py;*)
(* core/storage.py).                                                       *)
(*                                                                         *)
(* No command here takes a lock: each reads the order and the rows it      *)
(* checks, and writes later.  Between the two, any other request may       *)
(* commit.  The database adds the unique container number and the foreign  *)
(* keys; the movements' numbers and the milestones' codes have no          *)
(* constraint.                                                             *)
(***************************************************************************)
EXTENDS Integers, FiniteSets, FiniteSetsExt

CONSTANTS
    Jobs,       \* the service orders there may be
    Clerks,     \* concurrent requests (bound)
    MaxBoxes,   \* containers (bound)
    Labels,     \* container numbers
    Unlabelled, \* a container prepared from a quotation has no number yet
    MaxLegs,    \* movements (bound)
    MaxMarks,   \* milestones (bound)
    MaxLeg,     \* highest movement number used (bound)
    Codes,      \* milestone codes
    Files,      \* uploads
    NoJob,      \* the order of a row that does not exist
    MaxClerking \* requests that ever start (bound)

ASSUME OrdersAssumption ==
    /\ {MaxBoxes, MaxLegs, MaxMarks, MaxLeg, MaxClerking} \subseteq Nat
    /\ Unlabelled \notin Labels
    /\ NoJob \notin Jobs

VARIABLES
    jobs,      \* rows of service_orders
    boxes,     \* rows of service_order_containers
    legs,      \* rows of service_order_movements
    marks,     \* rows of service_order_milestones
    files,     \* rows of attachments, with their link
    objects,   \* the objects in the attachment store
    clerking,  \* where each request is
    desk,      \* what each request has read and been asked
    clerked,   \* how many requests have started
    late,      \* history: orders written by a request that had read them,
               \* or a row under them, before another request changed it
    halved     \* history: uploads whose request ended between the store
               \* and the database

orderRows == <<jobs, boxes, legs, marks>>
fileRows == <<files, objects>>
orderVars == <<orderRows, fileRows, clerking, desk, clerked, late, halved>>

(* Rows are known by their place in the table; a new one takes a free one. *)
Boxes == 1 .. MaxBoxes
Legs == 1 .. MaxLegs
Marks == 1 .. MaxMarks
FreeRow(table) == {i \in DOMAIN table : table[i].job = NoJob}
JobStatus == {"ABSENT", "ACTIVE", "FINISHED", "INACTIVE", "ERASED"}
(* paying: the containers the order's payments name (JSON).  charges and   *)
(* documents: whether rows of service_order_charges, and of the finance    *)
(* tables, refer to it.                                                    *)
Job == [status : JobStatus, paying : SUBSET Boxes, charged : BOOLEAN, financed : BOOLEAN]
Box == [job : Jobs \cup {NoJob}, label : Labels \cup {Unlabelled}]
Leg == [job : Jobs \cup {NoJob}, seq : 0 .. MaxLeg]
Mark == [job : Jobs \cup {NoJob}, code : Codes]
File == [status : {"ABSENT", "LIVE", "DELETED"}, link : Jobs \cup {NoJob}]
AnyCode == CHOOSE c \in Codes : TRUE
NoBox == [job |-> NoJob, label |-> Unlabelled]
NoLeg == [job |-> NoJob, seq |-> 0]
NoMark == [job |-> NoJob, code |-> AnyCode]
NoFile == [status |-> "ABSENT", link |-> NoJob]
AbsentJob == [status |-> "ABSENT", paying |-> {}, charged |-> FALSE, financed |-> FALSE]
ClerkingSteps == {"idle", "save", "status", "erase", "add_box", "drop_box", "add_leg",
                  "renumber", "add_mark", "store_file", "link_file", "delete_file"}

(* What a request can see of one order: its row and the rows under it.     *)
Seen(j) == [job |-> jobs[j],
            boxes |-> {b \in Boxes : boxes[b].job = j},
            numbered |-> {b \in Boxes : boxes[b].job = j /\ boxes[b].label # Unlabelled},
            seqs |-> {legs[l].seq : l \in {k \in Legs : legs[k].job = j}},
            codes |-> {marks[m].code : m \in {k \in Marks : marks[k].job = j}}]
SeenType == [job : Job, boxes : SUBSET Boxes, numbered : SUBSET Boxes,
             seqs : SUBSET (0 .. MaxLeg), codes : SUBSET Codes]
Blank == [job |-> AbsentJob, boxes |-> {}, numbered |-> {}, seqs |-> {}, codes |-> {}]
(* row, file: what it works on, 0 for a row it will add; the other fields: *)
(* what it will write.                                                     *)
Desk == [job : Jobs \cup {NoJob}, seen : SeenType,
         row : Nat, file : Files \cup {NoJob},
         to : JobStatus, paying : SUBSET Boxes,
         label : Labels \cup {Unlabelled}, seq : 0 .. MaxLeg, code : Codes]
ClearDesk == [job |-> NoJob, seen |-> Blank, row |-> 0, file |-> NoJob, to |-> "ABSENT", paying |-> {},
              label |-> Unlabelled, seq |-> 0, code |-> AnyCode]

JobExists(j) == jobs[j].status \notin {"ABSENT", "ERASED"}
Open(j) == jobs[j].status \in {"ACTIVE", "FINISHED"}

StartClerk(r) ==
    /\ clerking[r] = "idle" /\ clerked < MaxClerking
    /\ clerked' = clerked + 1
(* The request reads order j and goes on to the step it has chosen.        *)
ReadJob(r, j, step, asked) ==
    /\ StartClerk(r) /\ JobExists(j)
    /\ clerking' = [clerking EXCEPT ![r] = step]
    /\ desk' = [desk EXCEPT ![r] = [asked EXCEPT !.job = j, !.seen = Seen(j)]]
    /\ UNCHANGED <<orderRows, fileRows, late, halved>>
EndClerk(r) ==
    /\ clerking' = [clerking EXCEPT ![r] = "idle"]
    /\ desk' = [desk EXCEPT ![r] = ClearDesk]
    /\ UNCHANGED clerked
(* The request commits to the order it read: by a foreign key, or because  *)
(* it updates the row, the order must still exist.                         *)
CommitJob(r, step) ==
    LET j == desk[r].job IN
    /\ clerking[r] = step /\ JobExists(j)
    /\ late' = IF Seen(j) = desk[r].seen THEN late ELSE late \cup {j}
    /\ EndClerk(r)
    /\ UNCHANGED <<fileRows, halved>>

-----------------------------------------------------------------------------
(* save_service_order without an id, or a conversion, which prepares one   *)
(* container without a number per box the quotation asks for.              *)
CreateJob(j, prepared) ==
    /\ jobs[j].status = "ABSENT"
    /\ \A b \in prepared : boxes[b].job = NoJob
    /\ jobs' = [jobs EXCEPT ![j].status = "ACTIVE"]
    /\ boxes' = [b \in Boxes |-> IF b \in prepared
                                 THEN [job |-> j, label |-> Unlabelled] ELSE boxes[b]]
    /\ UNCHANGED <<legs, marks, fileRows, clerking, desk, clerked, late, halved>>

(* save_service_order with an id, with or without containerPayments: the   *)
(* JSON as read is merged with the payload and written whole.              *)
ReadToSave(r, j, paying, supplied) ==
    ReadJob(r, j, "save",
        [ClearDesk EXCEPT !.paying = IF supplied THEN paying ELSE jobs[j].paying])
SaveJob(r) ==
    /\ CommitJob(r, "save")
    /\ jobs' = [jobs EXCEPT ![desk[r].job].paying = desk[r].paying]
    /\ UNCHANGED <<boxes, legs, marks>>

(* finish_service_order refuses an inactive order; a save, and             *)
(* set_service_order_status, write any status.                             *)
ReadToFinish(r, j) ==
    /\ Open(j) /\ jobs[j].status # "FINISHED"
    /\ ReadJob(r, j, "status", [ClearDesk EXCEPT !.to = "FINISHED"])
ReadToSetStatus(r, j, to) ==
    /\ jobs[j].status # to
    /\ ReadJob(r, j, "status", [ClearDesk EXCEPT !.to = to])
WriteStatus(r) ==
    /\ CommitJob(r, "status")
    /\ jobs' = [jobs EXCEPT ![desk[r].job].status = desk[r].to]
    /\ UNCHANGED <<boxes, legs, marks>>

(* delete_service_orders checks that the order is inactive and that no     *)
(* document, journal line or charge refers to it ...                       *)
Erasable(j) == jobs[j].status = "INACTIVE" /\ ~jobs[j].financed /\ ~jobs[j].charged
ReadToErase(r, j) == Erasable(j) /\ ReadJob(r, j, "erase", ClearDesk)
(* ... and deletes it.  The finance tables' foreign keys refuse; the rows  *)
(* under the order, its charges among them, go with it (cascade).          *)
EraseJob(r) ==
    LET j == desk[r].job IN
    /\ CommitJob(r, "erase")
    /\ ~jobs[j].financed
    /\ jobs' = [jobs EXCEPT ![j] = [AbsentJob EXCEPT !.status = "ERASED"]]
    /\ boxes' = [b \in Boxes |-> IF boxes[b].job = j THEN NoBox ELSE boxes[b]]
    /\ legs' = [l \in Legs |-> IF legs[l].job = j THEN NoLeg ELSE legs[l]]
    /\ marks' = [m \in Marks |-> IF marks[m].job = j THEN NoMark ELSE marks[m]]

(* A charge is saved, or a document drawn up, under the order (Billing).   *)
ChargeJob(j, financed) ==
    /\ JobExists(j)
    /\ jobs' = IF financed THEN [jobs EXCEPT ![j].financed = TRUE]
               ELSE [jobs EXCEPT ![j].charged = TRUE]
    /\ UNCHANGED <<boxes, legs, marks, fileRows, clerking, desk, clerked, late, halved>>

-----------------------------------------------------------------------------
Taken(label) == \E b \in Boxes : boxes[b].label = label
(* add_container, for a new container (b = 0) or one under the order: the  *)
(* number is looked for among all containers ...                           *)
ReadToAddBox(r, j, b, label) ==
    /\ Open(j) /\ b # 0 => boxes[b].job = j
    /\ ~Taken(label)
    /\ ReadJob(r, j, "add_box", [ClearDesk EXCEPT !.row = b, !.label = label])
(* ... and is unique in the table.                                         *)
AddBox(r) ==
    LET b == IF desk[r].row = 0 THEN Min(FreeRow(boxes)) ELSE desk[r].row IN
    /\ CommitJob(r, "add_box")
    /\ ~Taken(desk[r].label)
    /\ IF desk[r].row = 0 THEN FreeRow(boxes) # {} ELSE boxes[b].job = desk[r].job
    /\ boxes' = [boxes EXCEPT ![b] = [job |-> desk[r].job, label |-> desk[r].label]]
    /\ UNCHANGED <<jobs, legs, marks>>

Payable(j, b) == b \in jobs[j].paying /\ boxes[b].label # Unlabelled
(* Mutant: the payments are not looked at.                                 *)
DroppableUnseen(j, b) == boxes[b].job = j
Droppable(j, b) == boxes[b].job = j /\ ~Payable(j, b)
(* delete_containers: a container a payment names is refused.              *)
ReadToDropBox(r, j, b) ==
    Droppable(j, b) /\ ReadJob(r, j, "drop_box", [ClearDesk EXCEPT !.row = b])
DropBox(r) ==
    LET b == desk[r].row IN
    /\ CommitJob(r, "drop_box")
    /\ boxes[b].job = desk[r].job
    /\ boxes' = [boxes EXCEPT ![b] = NoBox]
    /\ UNCHANGED <<jobs, legs, marks>>

-----------------------------------------------------------------------------
SeqsOf(j) == {legs[l].seq : l \in {k \in Legs : legs[k].job = j}}
(* save_movement without an id: the number, asked for or one above the     *)
(* highest, must be free on the order.                                     *)
ReadToAddLeg(r, j, seq) ==
    /\ Open(j) /\ seq \notin SeqsOf(j)
    /\ ReadJob(r, j, "add_leg", [ClearDesk EXCEPT !.seq = seq])
AddLeg(r) ==
    /\ CommitJob(r, "add_leg")
    /\ FreeRow(legs) # {}
    /\ legs' = [legs EXCEPT ![Min(FreeRow(legs))] = [job |-> desk[r].job, seq |-> desk[r].seq]]
    /\ UNCHANGED <<jobs, boxes, marks>>

(* Mutant: a renumbering is not compared with the other movements.         *)
RenumberableAnyway(j, l, seq) == legs[l].job = j /\ legs[l].seq # seq
Renumberable(j, l, seq) == legs[l].job = j /\ seq \notin SeqsOf(j)
(* save_movement with an id and another number.                            *)
ReadToRenumber(r, j, l, seq) ==
    /\ Open(j) /\ Renumberable(j, l, seq)
    /\ ReadJob(r, j, "renumber", [ClearDesk EXCEPT !.row = l, !.seq = seq])
Renumber(r) ==
    LET l == desk[r].row IN
    /\ CommitJob(r, "renumber")
    /\ legs[l].job = desk[r].job
    /\ legs' = [legs EXCEPT ![l].seq = desk[r].seq]
    /\ UNCHANGED <<jobs, boxes, marks>>

(* delete_movements and delete_milestones check nothing but the order.     *)
DropLeg(j, l) ==
    /\ JobExists(j) /\ legs[l].job = j
    /\ legs' = [legs EXCEPT ![l] = NoLeg]
    /\ UNCHANGED <<jobs, boxes, marks, fileRows, clerking, desk, clerked, late, halved>>
DropMark(j, m) ==
    /\ JobExists(j) /\ marks[m].job = j
    /\ marks' = [marks EXCEPT ![m] = NoMark]
    /\ UNCHANGED <<jobs, boxes, legs, fileRows, clerking, desk, clerked, late, halved>>

(* save_milestone without an id: the code must be free on the order.       *)
ReadToAddMark(r, j, code) ==
    /\ Open(j)
    /\ \A k \in Marks : marks[k].job = j => marks[k].code # code
    /\ ReadJob(r, j, "add_mark", [ClearDesk EXCEPT !.code = code])
AddMark(r) ==
    /\ CommitJob(r, "add_mark")
    /\ FreeRow(marks) # {}
    /\ marks' = [marks EXCEPT ![Min(FreeRow(marks))] =
                    [job |-> desk[r].job, code |-> desk[r].code]]
    /\ UNCHANGED <<jobs, boxes, legs>>

-----------------------------------------------------------------------------
(* store_upload puts the object in the store ...                           *)
PutObject(r, f, j) ==
    /\ StartClerk(r)
    /\ files[f].status = "ABSENT" /\ f \notin objects
    /\ objects' = objects \cup {f}
    /\ clerking' = [clerking EXCEPT ![r] = "store_file"]
    /\ desk' = [desk EXCEPT ![r] = [ClearDesk EXCEPT !.file = f, !.job = j]]
    /\ UNCHANGED <<orderRows, files, late, halved>>
(* ... then commits its row ...                                            *)
CommitFile(r) ==
    /\ clerking[r] = "store_file"
    /\ files' = [files EXCEPT ![desk[r].file].status = "LIVE"]
    /\ IF desk[r].job = NoJob THEN EndClerk(r)
       ELSE clerking' = [clerking EXCEPT ![r] = "link_file"] /\ UNCHANGED <<desk, clerked>>
    /\ UNCHANGED <<orderRows, objects, late, halved>>
(* ... and link_attachment links it in a transaction of its own.  The link *)
(* is to a number, not by a foreign key, and its record may be gone.       *)
LinkFile(r) ==
    /\ clerking[r] = "link_file"
    /\ files' = [files EXCEPT ![desk[r].file].link = desk[r].job]
    /\ EndClerk(r)
    /\ UNCHANGED <<orderRows, objects, late, halved>>

(* delete_attachments removes the object, or fails to, before its commit.  *)
DropObject(r, f, fails) ==
    /\ StartClerk(r)
    /\ files[f].status = "LIVE"
    /\ objects' = IF fails THEN objects ELSE objects \ {f}
    /\ halved' = IF fails THEN halved \cup {f} ELSE halved
    /\ clerking' = [clerking EXCEPT ![r] = "delete_file"]
    /\ desk' = [desk EXCEPT ![r] = [ClearDesk EXCEPT !.file = f]]
    /\ UNCHANGED <<orderRows, files, late>>
(* Mutant: the links go, and the row's flag is forgotten.                  *)
UnlinkFile(r) ==
    /\ clerking[r] = "delete_file"
    /\ files' = [files EXCEPT ![desk[r].file].link = NoJob]
    /\ EndClerk(r)
    /\ UNCHANGED <<orderRows, objects, late, halved>>
DeleteFile(r) ==
    /\ clerking[r] = "delete_file"
    /\ files' = [files EXCEPT ![desk[r].file] = [status |-> "DELETED", link |-> NoJob]]
    /\ EndClerk(r)
    /\ UNCHANGED <<orderRows, objects, late, halved>>

(* The request is refused or dies, and what it had not committed is rolled *)
(* back; what it did to the store is not.                                  *)
AbandonClerk(r) ==
    /\ clerking[r] # "idle"
    /\ halved' = IF clerking[r] \in {"store_file", "delete_file"}
                 THEN halved \cup {desk[r].file} ELSE halved
    /\ EndClerk(r)
    /\ UNCHANGED <<orderRows, fileRows, late>>

-----------------------------------------------------------------------------
OrdersInit ==
    /\ jobs = [j \in Jobs |-> AbsentJob]
    /\ boxes = [b \in Boxes |-> NoBox]
    /\ legs = [l \in Legs |-> NoLeg]
    /\ marks = [m \in Marks |-> NoMark]
    /\ files = [f \in Files |-> NoFile]
    /\ objects = {}
    /\ clerking = [r \in Clerks |-> "idle"]
    /\ desk = [r \in Clerks |-> ClearDesk]
    /\ clerked = 0
    /\ late = {}
    /\ halved = {}

Reading(r, j) ==
    \/ \E paying \in SUBSET Boxes, supplied \in BOOLEAN : ReadToSave(r, j, paying, supplied)
    \/ ReadToFinish(r, j)
    \/ \E to \in {"ACTIVE", "INACTIVE"} : ReadToSetStatus(r, j, to)
    \/ ReadToErase(r, j)
    \/ \E b \in 0 .. MaxBoxes, label \in Labels : ReadToAddBox(r, j, b, label)
    \/ \E b \in Boxes : ReadToDropBox(r, j, b)
    \/ \E seq \in 1 .. MaxLeg : ReadToAddLeg(r, j, seq)
    \/ \E l \in Legs, seq \in 1 .. MaxLeg : ReadToRenumber(r, j, l, seq)
    \/ \E code \in Codes : ReadToAddMark(r, j, code)
Writing(r) ==
    \/ SaveJob(r) \/ WriteStatus(r) \/ EraseJob(r) \/ AddBox(r) \/ DropBox(r)
    \/ AddLeg(r) \/ Renumber(r) \/ AddMark(r)
Filing(r) ==
    \/ \E f \in Files, j \in Jobs \cup {NoJob} : PutObject(r, f, j)
    \/ CommitFile(r) \/ LinkFile(r)
    \/ \E f \in Files, fails \in BOOLEAN : DropObject(r, f, fails)
    \/ DeleteFile(r)
OrdersNext ==
    \/ \E j \in Jobs, prepared \in SUBSET Boxes : CreateJob(j, prepared)
    \/ \E j \in Jobs, financed \in BOOLEAN : ChargeJob(j, financed)
    \/ \E j \in Jobs, l \in Legs : DropLeg(j, l)
    \/ \E j \in Jobs, m \in Marks : DropMark(j, m)
    \/ \E r \in Clerks, j \in Jobs : Reading(r, j)
    \/ \E r \in Clerks : Writing(r) \/ Filing(r) \/ AbandonClerk(r)

OrdersSpec == OrdersInit /\ [][OrdersNext]_orderVars

-----------------------------------------------------------------------------
(* Every variable holds what its table or its process may hold.            *)
OrdersTypeOK ==
    /\ jobs \in [Jobs -> Job]
    /\ boxes \in [Boxes -> Box]
    /\ legs \in [Legs -> Leg]
    /\ marks \in [Marks -> Mark]
    /\ files \in [Files -> File]
    /\ objects \subseteq Files
    /\ clerking \in [Clerks -> ClerkingSteps]
    /\ desk \in [Clerks -> Desk]
    /\ clerked \in 0 .. MaxClerking
    /\ late \subseteq Jobs
    /\ halved \subseteq Files

(* What save_movement and save_milestone promise of an order ("sequence_no *)
(* is unique per order"): two of its movements never share a number, nor   *)
(* two of its milestones a code - unless a request wrote to the order      *)
(* after another one had changed what it had read.                         *)
RowsNumberedApart == \A j \in Jobs \ late :
    /\ \A k, l \in Legs : legs[k].job = j /\ legs[l].job = j /\ legs[k].seq = legs[l].seq => k = l
    /\ \A k, m \in Marks : marks[k].job = j /\ marks[m].job = j /\ marks[k].code = marks[m].code => k = m

(* What the deletions check still holds when they delete: an order goes    *)
(* only while inactive and uncharged, a numbered container only while no   *)
(* payment names it, with the same exception - and an order with financial *)
(* documents never goes at all (delete_service_orders, delete_containers). *)
DeletionsTakeWhatTheyChecked == [][\A j \in Jobs :
    /\ JobExists(j) /\ ~JobExists(j)' =>
        /\ ~jobs[j].financed
        /\ j \notin late' => jobs[j].status = "INACTIVE" /\ ~jobs[j].charged
    /\ j \notin late' /\ JobExists(j)' => \A b \in Boxes :
        boxes[b].job = j /\ Payable(j, b) => boxes'[b].job = j]_orderVars

(* A stored object is there exactly for the uploads whose row says so, as  *)
(* long as no request on them ended half-way or found the store failing:   *)
(* nothing is served that is gone, nothing kept that was deleted           *)
(* (store_upload, delete_attachments).                                     *)
StoreMatchesRows == \A f \in Files \ halved :
    (\A r \in Clerks : clerking[r] \in {"store_file", "delete_file"} => desk[r].file # f) =>
        (f \in objects <=> files[f].status = "LIVE")

(* What the requests about an order checked still holds when they write:   *)
(* its rows stay numbered apart and deletions take what they checked; and  *)
(* the store has the objects of its uploads.                               *)
ChecksOutliveTheWait == [](RowsNumberedApart /\ StoreMatchesRows) /\ DeletionsTakeWhatTheyChecked
=============================================================================
