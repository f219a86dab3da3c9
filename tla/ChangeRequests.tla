--------------------------- MODULE ChangeRequests ---------------------------
(***************************************************************************)
(* ChangeRequestService: an employee asks for changes of their own         *)
(* profile, HR approves or rejects them one by one or in bulk, and         *)
(* approving writes the employee's row.  Beside it run the other writers   *)
(* of that row, HR's direct edit and the two maintenance jobs on profile   *)
(* photos (EmployeeService), the job that moves the photos of requests to  *)
(* SharePoint, and the cached pictures HR reviews a request with.          *)
(*                                                                         *)
(* A value is its content and how it is held: "data" for a photo as a      *)
(* base64 data URL, "file" for the link of the employee's own photo file   *)
(* in SharePoint (uploadAvatarToSharePoint names it after the employee, so *)
(* every upload replaces it and a link shows what was uploaded last), and  *)
(* "kept" for anything else that never changes: the link of a file made    *)
(* for one request, or a field that is not a photo.  An upload may fail,   *)
(* or SharePoint be absent, and the photo then stays base64.  There is one *)
(* employee: requests of two employees touch different rows.  The change   *)
(* log of the profile (which swallows its errors), emails, regions and the *)
(* cache of employee photos are left out.                                  *)
(***************************************************************************)
EXTENDS Integers, FiniteSets

CONSTANTS
  Fields,       \* the editable columns in use
  Photo,        \* the one that is a photo (avatar)
  Contents,     \* what a field may hold
  Before,       \* what every field holds at first
  MaxRequests,  \* bound: requests ever submitted
  Viewed,       \* bound: the photos, by request and side, that HR looks at
  Calls,        \* bound: calls in progress at a time
  MaxStarts,    \* bound: calls ever started
  Endpoints     \* the endpoints the environment calls

ASSUME ChangeRequestsAssumption ==
  /\ Photo \in Fields
  /\ MaxRequests \in Nat
  /\ MaxStarts \in Nat

Ids == 1..MaxRequests
Sides == {"old", "new"}
Nobody == 0
HR == -1
Missing == "missing"

VARIABLES
  profile,  \* the employee's row; by names who put the content there: a request, HR or nobody (history)
  file,     \* the employee's photo file in SharePoint
  req,      \* change_requests
  asked,    \* history: the contents each request was submitted with
  seen,     \* the server's cache of the photos of requests, by request and side
  call,     \* the calls in progress
  started   \* how many were started, of MaxStarts

vars == <<profile, file, req, asked, seen, call, started>>

Value == [content : Contents \cup {Before}, held : {"data", "kept", "file"}]
Origin == Ids \cup {Nobody, HR}
FileLink == [content |-> Before, held |-> "file"]
Initial == [content |-> Before, held |-> "kept"]

\* What a reader of a value sees, and who put it there.
Shown(v) == IF v.held = "file" THEN file.content ELSE v.content
ShownBy(v, by) == IF v.held = "file" THEN file.by ELSE by

NoRequest == [st |-> "none", field |-> Photo, old |-> Initial, new |-> Initial]
InTable(i) == req[i].st \in {"pending", "approved", "rejected"}
NextId == 1 + Cardinality({i \in Ids : req[i].st # "none"})

Labels == {"idle", "insert", "find", "upload", "apply", "mark", "reject", "fetch", "moveRow", "moveNew",
           "edit", "uploadPhoto", "download", "savePhoto"}

NoCall == [pc |-> "idle", fields |-> {}, rows |-> {}, i |-> 0, side |-> "new", value |-> Initial,
           by |-> Nobody, read |-> [f \in Fields |-> Initial], old |-> [i \in Ids |-> Initial],
           new |-> [i \in Ids |-> Initial]]

At(c, label) == call[c].pc = label
Return(c) == call' = [call EXCEPT ![c] = NoCall]
Begin(c, rec) == At(c, "idle") /\ call' = [call EXCEPT ![c] = rec]

\* The next turn of a call's loop, or its end when nothing is left to do.
Loop(c, rec) == call' = [call EXCEPT ![c] = IF rec.rows = {} /\ rec.fields = {} THEN NoCall ELSE rec]

\* The value of a field, and what is stored in it.
Plain(f) == [content |-> profile[f].content, held |-> profile[f].held]
Stored(v, by) == [content |-> v.content, held |-> v.held, by |-> IF v.held = "file" THEN Nobody ELSE by]
Upload(content, by) == file' = [content |-> content, by |-> by]

Init ==
  /\ profile = [f \in Fields |-> Stored(IF f = Photo THEN FileLink ELSE Initial, Nobody)]
  /\ file = [content |-> Before, by |-> Nobody]
  /\ req = [i \in Ids |-> NoRequest]
  /\ asked = [i \in Ids |-> [s \in Sides |-> Before]]
  /\ seen = [i \in Ids |-> [s \in Sides |-> Missing]]
  /\ call = [c \in Calls |-> NoCall]
  /\ started = 0

-----------------------------------------------------------------------------
(* submitRequest (one field) and submitBulkRequest (several). *)

\* The SELECT of the employee: the old values of all requests come from it.
SubmitStart(c, fs) ==
  /\ Begin(c, [NoCall EXCEPT !.pc = "insert", !.fields = fs,
                             !.read = [f \in Fields |-> IF f \in fs THEN Plain(f) ELSE Initial]])
  /\ UNCHANGED <<profile, file, req, asked, seen>>

\* normalizeAvatarValueForStorage: a base64 photo becomes the link of a file
\* of its own if the upload succeeds.
StoredForms(f) == IF f = Photo THEN {"data", "kept"} ELSE {"kept"}

\* The upload and the INSERT of the next field.
SubmitInsert(c) ==
  /\ At(c, "insert")
  /\ NextId \in Ids
  /\ \E f \in call[c].fields : \E content \in Contents, held \in StoredForms(f) :
       LET old == call[c].read[f] IN
       /\ req' = [req EXCEPT ![NextId] = [st |-> "pending", field |-> f, old |-> old,
                                          new |-> [content |-> content, held |-> held]]]
       /\ asked' = [asked EXCEPT ![NextId] = [s \in Sides |-> IF s = "old" THEN Shown(old) ELSE content]]
       /\ Loop(c, [call[c] EXCEPT !.fields = @ \ {f}, !.read[f] = Initial])
  /\ UNCHANGED <<profile, file, seen>>

-----------------------------------------------------------------------------
(* approveRequest (one request) and bulkApprove (several, where a failure  *)
(* is noted and the loop goes on).                                         *)

\* A request that is not pending by now never will be, and the loop skips it.
ApproveStart(c, is) ==
  /\ \A i \in is : req[i].st = "pending"
  /\ Begin(c, [NoCall EXCEPT !.pc = "find", !.rows = is])
  /\ UNCHANGED <<profile, file, req, asked, seen>>

\* findPendingById: anything else is "already processed".
ApproveFind(c) ==
  /\ At(c, "find")
  /\ \E i \in call[c].rows :
       LET rec == [call[c] EXCEPT !.rows = @ \ {i}] IN
       IF req[i].st = "pending"
         THEN Loop(c, [rec EXCEPT !.pc = IF req[i].new.held = "data" THEN "upload" ELSE "apply",
                                  !.i = i, !.fields = {req[i].field}, !.value = req[i].new])
         ELSE Loop(c, rec)
  /\ UNCHANGED <<profile, file, req, asked, seen>>

\* Neither applied nor marked: the call goes on with the next request.
Skip(c) == Loop(c, [call[c] EXCEPT !.pc = "find", !.value = Initial, !.fields = {}, !.i = 0])

\* normalizeAvatarValueForApply: the photo replaces the employee's file, or
\* stays base64, or is refused as no photo at all.
ApproveUpload(c) ==
  /\ At(c, "upload")
  /\ \/ /\ Upload(call[c].value.content, call[c].i)
        /\ call' = [call EXCEPT ![c].pc = "apply", ![c].value = FileLink]
     \/ call' = [call EXCEPT ![c].pc = "apply"] /\ UNCHANGED file
     \/ Skip(c) /\ UNCHANGED file
  /\ UNCHANGED <<profile, req, asked, seen>>

\* UPDATE employees SET <field> = value; a column other than the photo may
\* refuse the value.
ApproveApply(c) ==
  /\ At(c, "apply")
  /\ \E f \in call[c].fields :
       \/ /\ profile' = [profile EXCEPT ![f] = Stored(call[c].value, call[c].i)]
          /\ call' = [call EXCEPT ![c].pc = "mark", ![c].value = Initial, ![c].fields = {}]
       \/ f # Photo /\ Skip(c) /\ UNCHANGED profile
  /\ UNCHANGED <<file, req, asked, seen>>

\* Mutant: only a request that is still pending is marked.
MarkPendingOnly(c) ==
  /\ At(c, "mark")
  /\ req' = IF req[call[c].i].st = "pending" THEN [req EXCEPT ![call[c].i].st = "approved"] ELSE req
  /\ Loop(c, [call[c] EXCEPT !.pc = "find", !.i = 0])
  /\ UNCHANGED <<profile, file, asked, seen>>

\* markApproved: UPDATE ... WHERE id, whatever the status is by now.
ApproveMark(c) ==
  /\ At(c, "mark")
  /\ req' = IF InTable(call[c].i) THEN [req EXCEPT ![call[c].i].st = "approved"] ELSE req
  /\ Loop(c, [call[c] EXCEPT !.pc = "find", !.i = 0])
  /\ UNCHANGED <<profile, file, asked, seen>>

-----------------------------------------------------------------------------
(* rejectRequest and deleteRequest. *)

RejectStart(c, i) ==
  /\ req[i].st = "pending"
  /\ Begin(c, [NoCall EXCEPT !.pc = "reject", !.i = i])
  /\ UNCHANGED <<profile, file, req, asked, seen>>

\* markRejected: UPDATE ... WHERE id AND status = 'pending'.
RejectUpdate(c) ==
  /\ At(c, "reject")
  /\ req' = IF req[call[c].i].st = "pending" THEN [req EXCEPT ![call[c].i].st = "rejected"] ELSE req
  /\ Return(c)
  /\ UNCHANGED <<profile, file, asked, seen>>

\* A request of any status is deleted by one statement.
DeleteRequest(c, i) ==
  /\ At(c, "idle")
  /\ InTable(i)
  /\ req' = [req EXCEPT ![i] = [NoRequest EXCEPT !.st = "deleted"]]
  /\ asked' = [asked EXCEPT ![i] = [s \in Sides |-> Before]]
  /\ UNCHANGED <<profile, file, seen, call>>

-----------------------------------------------------------------------------
(* getAvatarImageBinary: the row is read, the cache asked, the photo       *)
(* fetched, and the cache filled.                                          *)

ViewStart(c, i, side) ==
  /\ InTable(i) /\ req[i].field = Photo
  /\ seen[i][side] = Missing
  /\ Begin(c, [NoCall EXCEPT !.pc = "fetch", !.i = i, !.side = side, !.value = req[i][side]])
  /\ UNCHANGED <<profile, file, req, asked, seen>>

\* Mutant: a fetch that fails is cached too.
ViewFetchCachesFailure(c) ==
  /\ At(c, "fetch")
  /\ \E photo \in {Shown(call[c].value), "null"} : seen' = [seen EXCEPT ![call[c].i][call[c].side] = photo]
  /\ Return(c)
  /\ UNCHANGED <<profile, file, req, asked>>

\* The fetch may fail: then nothing is cached.
ViewFetch(c) ==
  /\ At(c, "fetch")
  /\ \/ seen' = [seen EXCEPT ![call[c].i][call[c].side] = Shown(call[c].value)]
     \/ UNCHANGED seen
  /\ Return(c)
  /\ UNCHANGED <<profile, file, req, asked>>

\* An entry lives for ten minutes.
CacheExpires(i, side) ==
  /\ seen[i][side] # Missing
  /\ seen' = [seen EXCEPT ![i][side] = Missing]
  /\ UNCHANGED <<profile, file, req, asked, call>>

-----------------------------------------------------------------------------
(* migrateAvatarsToSharePoint of the requests.                             *)

HasData(i) == InTable(i) /\ req[i].field = Photo /\ (req[i].old.held = "data" \/ req[i].new.held = "data")

\* The SELECT: ids and both values.
MigrateStart(c) ==
  LET rows == {i \in Ids : HasData(i)} IN
  /\ rows # {}
  /\ Begin(c, [NoCall EXCEPT !.pc = "moveRow", !.rows = rows,
                             !.old = [i \in Ids |-> IF i \in rows THEN req[i].old ELSE Initial],
                             !.new = [i \in Ids |-> IF i \in rows THEN req[i].new ELSE Initial]])
  /\ UNCHANGED <<profile, file, req, asked, seen>>

\* updateValueColumn, and the cache entry it makes stale.
WriteLink(i, side, v) ==
  /\ req' = IF InTable(i) THEN [req EXCEPT ![i][side] = [v EXCEPT !.held = "kept"]] ELSE req
  /\ seen' = [seen EXCEPT ![i][side] = Missing]

\* Upload and UPDATE of a row's old photo; an upload that yields no link
\* leaves it, one that throws ends the row.
MigrateOld(c) ==
  /\ At(c, "moveRow")
  /\ \E i \in call[c].rows :
       LET v == call[c].old[i] IN
       \/ /\ v.held = "data" /\ WriteLink(i, "old", v)
          /\ call' = [call EXCEPT ![c].rows = @ \ {i}, ![c].pc = "moveNew", ![c].i = i, ![c].old[i] = Initial]
       \/ /\ call' = [call EXCEPT ![c].rows = @ \ {i}, ![c].pc = "moveNew", ![c].i = i, ![c].old[i] = Initial]
          /\ UNCHANGED <<req, seen>>
       \/ /\ v.held = "data"
          /\ Loop(c, [call[c] EXCEPT !.rows = @ \ {i}, !.old[i] = Initial, !.new[i] = Initial])
          /\ UNCHANGED <<req, seen>>
  /\ UNCHANGED <<profile, file, asked>>

\* Mutant: the link of the new photo goes into the other column.
MigrateNewSwapped(c) ==
  LET i == call[c].i  v == call[c].new[i] IN
  /\ At(c, "moveNew")
  /\ IF v.held = "data" THEN WriteLink(i, "old", v) ELSE UNCHANGED <<req, seen>>
  /\ Loop(c, [call[c] EXCEPT !.pc = "moveRow", !.i = 0, !.new[i] = Initial])
  /\ UNCHANGED <<profile, file, asked>>

\* The same for its new photo.
MigrateNew(c) ==
  LET i == call[c].i  v == call[c].new[i] IN
  /\ At(c, "moveNew")
  /\ \/ v.held = "data" /\ WriteLink(i, "new", v)
     \/ UNCHANGED <<req, seen>>
  /\ Loop(c, [call[c] EXCEPT !.pc = "moveRow", !.i = 0, !.new[i] = Initial])
  /\ UNCHANGED <<profile, file, asked>>

-----------------------------------------------------------------------------
(* The other writers of the employee's row (EmployeeService).              *)

\* update: HR writes a field; a base64 photo replaces the file if it can.
HREdit(c, f, content) ==
  /\ \/ /\ At(c, "idle")
        /\ \E held \in StoredForms(f) :
             profile' = [profile EXCEPT ![f] = Stored([content |-> content, held |-> held], HR)]
        /\ UNCHANGED <<file, call>>
     \/ /\ f = Photo
        /\ Upload(content, HR)
        /\ Begin(c, [NoCall EXCEPT !.pc = "edit"])
        /\ UNCHANGED profile
  /\ UNCHANGED <<req, asked, seen>>

HREditSave(c) ==
  /\ At(c, "edit")
  /\ profile' = [profile EXCEPT ![Photo] = Stored(FileLink, HR)]
  /\ Return(c)
  /\ UNCHANGED <<file, req, asked, seen>>

\* migrateAvatarsToSharePoint and migrateAvatarsFromUrls read the photo ...
PhotoStart(c, helds, label) ==
  /\ profile[Photo].held \in helds
  /\ Begin(c, [NoCall EXCEPT !.pc = label, !.value = Plain(Photo), !.by = profile[Photo].by])
  /\ UNCHANGED <<profile, file, req, asked, seen>>

\* ... and upload it, unless that fails, ...
PhotoUpload(c) ==
  /\ At(c, "uploadPhoto")
  /\ \/ /\ Upload(call[c].value.content, call[c].by)
        /\ call' = [call EXCEPT ![c].pc = "savePhoto", ![c].value = FileLink, ![c].by = Nobody]
     \/ Return(c) /\ UNCHANGED file
  /\ UNCHANGED <<profile, req, asked, seen>>

\* ... or download it ...
PhotoDownload(c) ==
  LET v == call[c].value IN
  /\ At(c, "download")
  /\ \/ call' = [call EXCEPT ![c].pc = "savePhoto", ![c].value = [content |-> Shown(v), held |-> "data"],
                             ![c].by = ShownBy(v, @)]
     \/ Return(c)
  /\ UNCHANGED <<profile, file, req, asked, seen>>

\* ... and write what they got, whatever the row holds by now.
PhotoSave(c) ==
  /\ At(c, "savePhoto")
  /\ profile' = [profile EXCEPT ![Photo] = Stored(call[c].value, call[c].by)]
  /\ Return(c)
  /\ UNCHANGED <<file, req, asked, seen>>

-----------------------------------------------------------------------------
Start(c) ==
  \/ \E fs \in SUBSET Fields \ {{}} : "submit" \in Endpoints /\ SubmitStart(c, fs)
  \/ \E is \in SUBSET Ids \ {{}} : "approve" \in Endpoints /\ ApproveStart(c, is)
  \/ \E i \in Ids :
       \/ "reject" \in Endpoints /\ RejectStart(c, i)
       \/ "delete" \in Endpoints /\ DeleteRequest(c, i)
       \/ \E side \in Sides : <<i, side>> \in Viewed /\ ViewStart(c, i, side)
  \/ "migrate" \in Endpoints /\ MigrateStart(c)
  \/ \E f \in Fields, v \in Contents : "edit" \in Endpoints /\ HREdit(c, f, v)
  \/ "photosToLinks" \in Endpoints /\ PhotoStart(c, {"data"}, "uploadPhoto")
  \/ "photosFromLinks" \in Endpoints /\ PhotoStart(c, {"kept", "file"}, "download")

Continue(c) ==
  \/ SubmitInsert(c) \/ ApproveFind(c) \/ ApproveUpload(c) \/ ApproveApply(c) \/ ApproveMark(c)
  \/ RejectUpdate(c) \/ ViewFetch(c) \/ MigrateOld(c) \/ MigrateNew(c)
  \/ HREditSave(c) \/ PhotoUpload(c) \/ PhotoDownload(c) \/ PhotoSave(c)

Next ==
  \/ \E c \in Calls : Start(c) /\ started < MaxStarts /\ started' = started + 1
  \/ \E c \in Calls : Continue(c) /\ UNCHANGED started
  \/ \E i \in Ids, side \in Sides : CacheExpires(i, side) /\ UNCHANGED started

Spec == Init /\ [][Next]_vars

-----------------------------------------------------------------------------
(* What must hold. *)

CallRecord ==
  [pc : Labels, fields : SUBSET Fields, rows : SUBSET Ids, i : Ids \cup {0}, side : Sides, value : Value,
   by : Origin, read : [Fields -> Value], old : [Ids -> Value], new : [Ids -> Value]]

\* The tables, the cache and the calls in progress hold values of their types.
TypeOK ==
  /\ profile \in [Fields -> [content : Contents \cup {Before}, held : {"data", "kept", "file"}, by : Origin]]
  /\ file \in [content : Contents \cup {Before}, by : Origin]
  /\ req \in [Ids -> [st : {"none", "pending", "approved", "rejected", "deleted"}, field : Fields,
                      old : Value, new : Value]]
  /\ asked \in [Ids -> [Sides -> Contents \cup {Before}]]
  /\ seen \in [Ids -> [Sides -> Contents \cup {Before, Missing}]]
  /\ call \in [Calls -> CallRecord]
  /\ started \in 0..MaxStarts

Approving(i) == \E c \in Calls : call[c].pc \in {"apply", "mark"} /\ call[c].i = i

\* What a profile shows and a request put there is approved: however
\* approvals, rejections, bulk approvals and the photo jobs race, no field
\* goes on showing the value of a request that was rejected or still waits.
\* The unguarded markApproved is what makes it so (ChangeRequestService.ts
\* approveRequest, rejectRequest and bulkApprove).
ProfileBacked ==
  \A f \in Fields : LET i == ShownBy(profile[f], profile[f].by) IN
    i \in Ids => req[i].st \in {"approved", "deleted"} \/ Approving(i)

\* HR reviews the photos the request was made with, unless the old one is
\* the employee's own file (which later uploads replace): neither the migration of the two columns, run
\* twice at once or beside a review, nor the cache ever shows another
\* (ChangeRequestService.ts getAvatarImageBinary, migrateAvatarsToSharePoint).
ShowsItsPhotos ==
  \A i \in Ids, side \in Sides : InTable(i) /\ req[i][side].held # "file" =>
    /\ req[i][side].content = asked[i][side]
    /\ seen[i][side] \in {Missing, asked[i][side]}
=============================================================================
