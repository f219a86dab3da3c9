---------------------------- MODULE AssetCustody ----------------------------
(***************************************************************************)
(* Who holds which unit of equipment: stock_items.available, the rows of   *)
(* assigned_systems, and the calls of AssetService that move units between *)
(* them.  As everywhere in this server a call is a sequence of SQL         *)
(* statements that commit one by one; each is a step, and the steps of two *)
(* calls interleave.                                                       *)
(*                                                                         *)
(* A row's asset_id is a number here: it matters only that the next one is *)
(* worked out from the largest one in the table and that the table has a   *)
(* unique index on it.  A row's item is the stock item a return increments *)
(* (stock_item_id, or for old rows the one its asset_id names).  Audit     *)
(* rows, emails, regions and the stock catalogue itself are left out.      *)
(***************************************************************************)
EXTENDS Integers, FiniteSets, FiniteSetsExt

CONSTANTS
  Employees, StockItems,
  Quantity,     \* stock_items.quantity
  MaxRows,      \* bound: rows ever inserted into assigned_systems
  MaxRecords,   \* bound: offboarding records (used by Offboarding)
  Calls,        \* bound: calls in progress at a time
  Endpoints     \* the endpoints the environment calls

Nobody == "nobody"
NoItem == "no item"

ASSUME CustodyAssumption ==
  /\ Quantity \in [StockItems -> Nat] /\ NoItem \notin StockItems
  /\ MaxRows \in Nat /\ MaxRecords \in Nat
  /\ IsFiniteSet(Calls)

Rows == 1..MaxRows
Records == 1..MaxRecords

VARIABLES
  avail,    \* stock_items.available
  asg,      \* assigned_systems
  late,     \* history: rows whose holder got them after a release had listed the holder's rows
  listed,   \* history: the employees whose rows a release has listed
  call      \* the calls in progress

assetVars == <<avail, asg, late, listed>>

Row == [st : {"none", "live", "gone"}, item : StockItems \cup {NoItem},
        user : Employees \cup {Nobody}, mail : Employees \cup {Nobody}, tag : 0..MaxRows]

NoRow == [st |-> "none", item |-> NoItem, user |-> Nobody, mail |-> Nobody, tag |-> 0]

Live == {i \in Rows : asg[i].st = "live"}
HeldBy(e) == {i \in Live : asg[i].user = e}
NextRow == 1 + Cardinality({i \in Rows : asg[i].st # "none"})

AssetLabels == {"assignStock", "assignTag", "assignInsert", "assignDecrement",
                "listByUser", "listByMail", "returnSelect", "returnDelete", "returnIncrement"}

NoCall == [pc |-> "idle", e |-> Nobody, s |-> NoItem, tag |-> 0, todo |-> {}, i |-> 0,
           r |-> 0, st |-> "none", then |-> "return"]

At(c, label) == call[c].pc = label
Goto(c, label) == call' = [call EXCEPT ![c].pc = label]
Return(c) == call' = [call EXCEPT ![c] = NoCall]
Begin(c, rec) == At(c, "idle") /\ call' = [call EXCEPT ![c] = rec]

AssetInit ==
  /\ avail = Quantity
  /\ asg = [i \in Rows |-> NoRow]
  /\ late = {}
  /\ listed = {}
  /\ call = [c \in Calls |-> NoCall]

\* History: row i is handed to employee e.
HandOver(i, e) == late' = IF e \in listed THEN late \cup {i} ELSE late \ {i}

-----------------------------------------------------------------------------
(* assignFromStock, called by IT or by the laptop task of an onboarding. *)

\* The SELECT of the stock item and the test of the units it has left.
AssignStart(c, s, e) ==
  /\ avail[s] > 0
  /\ Begin(c, [NoCall EXCEPT !.pc = "assignTag", !.s = s, !.e = e])
  /\ UNCHANGED assetVars

\* Onboarding assigns the laptop unless the employee already has one of these.
LaptopStart(c, s, e) ==
  /\ \A i \in HeldBy(e) : asg[i].item # s
  /\ Begin(c, [NoCall EXCEPT !.pc = "assignStock", !.s = s, !.e = e])
  /\ UNCHANGED assetVars

AssignStock(c) ==
  /\ At(c, "assignStock")
  /\ IF avail[call[c].s] > 0 THEN Goto(c, "assignTag") ELSE Return(c)
  /\ UNCHANGED assetVars

\* One more than the largest asset_id in the table.
NextTag == IF Live = {} THEN 1 ELSE 1 + Max({asg[i].tag : i \in Live})

AssignTag(c) ==
  /\ At(c, "assignTag")
  /\ call' = [call EXCEPT ![c].tag = NextTag, ![c].pc = "assignInsert"]
  /\ UNCHANGED assetVars

TagTaken(tag) == \E i \in Live : asg[i].tag = tag

Insert(s, e, tag) ==
  /\ NextRow \in Rows
  /\ asg' = [asg EXCEPT ![NextRow] = [st |-> "live", item |-> s, user |-> e, mail |-> e, tag |-> tag]]
  /\ HandOver(NextRow, e)

\* Mutant: the unit is taken from stock whether or not the INSERT succeeds.
AssignInsertTakesFirst(c) ==
  /\ At(c, "assignInsert")
  /\ \/ /\ TagTaken(call[c].tag)
        /\ Goto(c, "assignDecrement")
        /\ UNCHANGED assetVars
     \/ /\ ~TagTaken(call[c].tag)
        /\ Insert(call[c].s, call[c].e, call[c].tag)
        /\ Goto(c, "assignDecrement")
        /\ UNCHANGED <<avail, listed>>

\* The INSERT; the unique index refuses an asset_id another call has taken.
AssignInsert(c) ==
  /\ At(c, "assignInsert")
  /\ \/ /\ TagTaken(call[c].tag)
        /\ Return(c)
        /\ UNCHANGED assetVars
     \/ /\ ~TagTaken(call[c].tag)
        /\ Insert(call[c].s, call[c].e, call[c].tag)
        /\ Goto(c, "assignDecrement")
        /\ UNCHANGED <<avail, listed>>

AssignDecrement(c) ==
  /\ At(c, "assignDecrement")
  /\ avail' = [avail EXCEPT ![call[c].s] = @ - 1]
  /\ Return(c)
  /\ UNCHANGED <<asg, late, listed>>

-----------------------------------------------------------------------------
(* The rows entered and edited by hand. *)

\* createSystem inserts a row and leaves the stock alone.
CreateSystem(c, s, e) ==
  /\ At(c, "idle")
  /\ Insert(s, e, NextTag)
  /\ UNCHANGED <<avail, listed, call>>

\* updateSystem gives a row to another employee, with their email or without.
UpdateSystem(c, i, e, mail) ==
  /\ At(c, "idle")
  /\ i \in Live
  /\ asg' = [asg EXCEPT ![i].user = e, ![i].mail = IF mail THEN e ELSE @]
  /\ HandOver(i, e)
  /\ UNCHANGED <<avail, listed, call>>

DeleteSystem(c, i) ==
  /\ i \in Live
  /\ Begin(c, [NoCall EXCEPT !.pc = "returnSelect", !.todo = {i}])
  /\ UNCHANGED assetVars

-----------------------------------------------------------------------------
(* returnAssignmentToStock for every row of call[c].todo, and the two      *)
(* queries that collect the rows of an employee.                           *)

\* SELECT the next row; one that is gone is skipped.
ReturnSelect(c) ==
  /\ At(c, "returnSelect")
  /\ \E i \in call[c].todo :
       call' = [call EXCEPT ![c].todo = @ \ {i},
                            ![c].i = IF i \in Live THEN i ELSE 0,
                            ![c].pc = IF i \in Live THEN "returnDelete" ELSE @]
  /\ UNCHANGED assetVars

\* DELETE ... WHERE id: whether the row was still there is not looked at.
ReturnDelete(c) ==
  /\ At(c, "returnDelete")
  /\ asg' = [asg EXCEPT ![call[c].i].st = "gone"]
  /\ Goto(c, "returnIncrement")
  /\ UNCHANGED <<avail, late, listed>>

\* UPDATE stock_items SET available = available + 1.
ReturnIncrement(c) ==
  /\ At(c, "returnIncrement")
  /\ LET s == asg[call[c].i].item IN
       avail' = IF s = NoItem THEN avail ELSE [avail EXCEPT ![s] = @ + 1]
  /\ Goto(c, "returnSelect")
  /\ UNCHANGED <<asg, late, listed>>

ReturnDone(c) ==
  /\ At(c, "returnSelect")
  /\ call[c].todo = {}
  /\ call[c].then = "return"
  /\ Return(c)
  /\ UNCHANGED assetVars

\* The rows that name the employee by user_id ...
ListByUser(c) ==
  /\ At(c, "listByUser")
  /\ call' = [call EXCEPT ![c].todo = HeldBy(call[c].e), ![c].pc = "listByMail"]
  /\ listed' = listed \cup {call[c].e}
  /\ UNCHANGED <<avail, asg, late>>

\* ... and those that name them by email.
ListByMail(c) ==
  /\ At(c, "listByMail")
  /\ call' = [call EXCEPT ![c].todo = @ \cup {i \in Live : asg[i].mail = call[c].e},
                          ![c].pc = "returnSelect"]
  /\ UNCHANGED assetVars

-----------------------------------------------------------------------------
Release(c) ==
  \/ ListByUser(c) \/ ListByMail(c)
  \/ ReturnSelect(c) \/ ReturnDelete(c) \/ ReturnIncrement(c) \/ ReturnDone(c)

Assign(c) == AssignStock(c) \/ AssignTag(c) \/ AssignInsert(c) \/ AssignDecrement(c)

StartAssets(c) ==
  \/ \E s \in StockItems, e \in Employees :
       \/ "assign" \in Endpoints /\ AssignStart(c, s, e)
       \/ "laptop" \in Endpoints /\ LaptopStart(c, s, e)
       \/ "createSystem" \in Endpoints /\ CreateSystem(c, s, e)
  \/ \E i \in Rows :
       \/ "deleteSystem" \in Endpoints /\ DeleteSystem(c, i)
       \/ \E e \in Employees, mail \in BOOLEAN :
            "updateSystem" \in Endpoints /\ UpdateSystem(c, i, e, mail)

AssetStep(c) == StartAssets(c) \/ Assign(c) \/ Release(c)

Held(s) == Cardinality({i \in Live : asg[i].item = s})

AssetTypes ==
  /\ avail \in [StockItems -> Int]
  /\ asg \in [Rows -> Row]
  /\ \A i \in Live : asg[i].tag \in 1..MaxRows
  /\ late \subseteq Rows
  /\ listed \subseteq Employees

\* A unit never disappears: when no call is under way every unit that no
\* assignment accounts for is available in stock, however assignments,
\* returns and failed INSERTs raced (AssetService.ts:254-282,
\* AssetRepository.ts:77-96).  The converse is not true: see the README.
UnitsNotLost ==
  (\A c \in Calls : At(c, "idle")) => \A s \in StockItems : avail[s] >= Quantity[s] - Held(s)
=============================================================================
