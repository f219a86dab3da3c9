------------------------ MODULE ChangeRequestsProofs ------------------------
(* Theorems about ChangeRequests, for every set of fields, contents,       *)
(* endpoints and calls, and any number of requests and starts.             *)
EXTENDS ChangeRequests, FiniteSetTheorems, TLAPS

ProfileRecord == [content : Contents \cup {Before}, held : {"data", "kept", "file"}, by : Origin]
FileRecord == [content : Contents \cup {Before}, by : Origin]
RequestRecord ==
  [st : {"none", "pending", "approved", "rejected", "deleted"}, field : Fields, old : Value, new : Value]
Over == {"approved", "deleted"}

\* What the record of a call holds at its statements: the request it works on,
\* which was inserted, and that only a photo is uploaded.
Argued(k) ==
  /\ k.pc \in {"upload", "apply", "mark", "reject", "fetch", "moveNew"} => k.i \in Ids
  /\ k.pc = "upload" => k.fields = {Photo}
  /\ k.pc \in {"upload", "apply", "mark", "fetch"} => req[k.i].st # "none"

\* A call that holds what request i asked for and is bound to approve it: what
\* it applies cannot be refused.
Backing(k, i) == k.i = i /\ (k.pc = "mark" \/ (k.pc = "apply" /\ k.fields = {Photo}))
Backed(by) == by \in Ids => req[by].st \in Over \/ \E c \in Calls : Backing(call[c], by)

\* v is the photo the request was made with, if that one never changes.
Faithful(v, i, side) ==
  InTable(i) /\ req[i][side].held # "file" => v.held # "file" /\ v.content = asked[i][side]

\* v is what the migration read of a side of request i.
Listed(v, i, side) ==
  v.held = "data" =>
    /\ req[i].st # "none"
    /\ InTable(i) => req[i][side].held # "file" /\ v.content = asked[i][side]

\* The photos a call holds.
Carries(k) ==
  /\ k.pc = "fetch" => Faithful(k.value, k.i, k.side)
  /\ \A i \in Ids : Listed(k.old[i], i, "old") /\ Listed(k.new[i], i, "new")

ProfileTyped == profile \in [Fields -> ProfileRecord] /\ file \in FileRecord
RequestsTyped ==
  /\ req \in [Ids -> RequestRecord]
  /\ asked \in [Ids -> [Sides -> Contents \cup {Before}]]
  /\ seen \in [Ids -> [Sides -> Contents \cup {Before, Missing}]]
InOrder == \E n \in 0..MaxRequests : \A i \in Ids : req[i].st # "none" <=> i <= n
DataIsPhoto == \A i \in Ids : req[i].new.held = "data" => req[i].field = Photo
PhotosKept ==
  \A i \in Ids, side \in Sides :
    /\ InTable(i) /\ req[i][side].held # "file" =>
         req[i][side].content = asked[i][side] /\ seen[i][side] \in {Missing, asked[i][side]}
    /\ req[i].st = "none" => seen[i][side] = Missing
Requests == RequestsTyped /\ InOrder /\ DataIsPhoto /\ PhotosKept

Origins == Backed(file.by) /\ \A f \in Fields : Backed(profile[f].by)
CallsKnow ==
  /\ call \in [Calls -> CallRecord]
  /\ \A c \in Calls : Argued(call[c]) /\ Carries(call[c]) /\ Backed(call[c].by)

Inv == ProfileTyped /\ Requests /\ Origins /\ CallsKnow

\* What calls know of the requests stays true, and a request that is over stays over.
KnowledgeStays ==
  /\ \A k \in CallRecord : Argued(k) /\ Carries(k) => Argued(k)' /\ Carries(k)'
  /\ \A i \in Ids : req[i].st \in Over => req'[i].st \in Over

-----------------------------------------------------------------------------
LEMMA Constants == Photo \in Fields /\ MaxRequests \in Nat /\ Ids \subseteq Int /\ Nobody \notin Ids /\ HR \notin Ids
BY ChangeRequestsAssumption DEF Ids, Nobody, HR

LEMMA NoCallKnows ==
  NoCall \in CallRecord /\ Argued(NoCall) /\ Carries(NoCall) /\ Backed(NoCall.by) /\ NoCall.pc = "idle"
<1>1. Initial \in Value /\ Nobody \in Origin /\ Initial.held = "kept"
  BY DEF Initial, Value, Origin
<1>2. NoCall \in CallRecord
  BY <1>1 DEF NoCall, CallRecord, Labels, Sides
<1>3. \A i \in Ids : NoCall.old[i] = Initial /\ NoCall.new[i] = Initial
  BY DEF NoCall
<1>4. NoCall.pc = "idle" /\ NoCall.by = Nobody
  BY DEF NoCall
<1> HIDE DEF Nobody
<1>5. QED
  BY <1>1, <1>2, <1>3, <1>4, Constants DEF Argued, Carries, Listed, Backed

\* A call record and the tables it is about.
LEMMA CallKnows ==
  ASSUME Inv, NEW c \in Calls
  PROVE  call[c] \in CallRecord /\ Argued(call[c]) /\ Carries(call[c]) /\ Backed(call[c].by) /\ call \in [Calls -> CallRecord]
BY DEF Inv, CallsKnow

\* What is backed stays so if the call that is the backing stays bound, or the
\* request is over now.
LEMMA BackedStays ==
  ASSUME Inv, KnowledgeStays, NEW c \in Calls, NEW x, call' = [call EXCEPT ![c] = x],
         \A i \in Ids : Backing(call[c], i) => Backing(x, i) \/ req'[i].st \in Over,
         NEW by, Backed(by) \/ Backing(x, by)
  PROVE  Backed(by)'
<1>0. call \in [Calls -> CallRecord] /\ call'[c] = x /\ \A d \in Calls : d # c => call'[d] = call[d]
  BY CallKnows
<1>1. SUFFICES ASSUME by \in Ids, req'[by].st \notin Over
               PROVE  \E d \in Calls : Backing(call'[d], by)
  BY DEF Backed, Backing
<1>2. CASE Backing(x, by)
  BY <1>0, <1>2
<1>3. CASE Backed(by)
  <2>1. PICK d \in Calls : Backing(call[d], by)
    BY <1>1, <1>3 DEF Backed, KnowledgeStays
  <2>2. CASE d = c
    BY <1>0, <1>1, <2>1, <2>2
  <2>3. CASE d # c
    BY <1>0, <2>1, <2>3
  <2>4. QED
    BY <2>2, <2>3
<1>4. QED
  BY <1>2, <1>3

\* A step of one call, whose record becomes x.
LEMMA StepKeeps ==
  ASSUME Inv, KnowledgeStays, NEW c \in Calls, NEW x \in CallRecord, call' = [call EXCEPT ![c] = x],
         Argued(x)', Carries(x)', Backed(x.by) \/ Backing(x, x.by),
         \A i \in Ids : Backing(call[c], i) => Backing(x, i) \/ req'[i].st \in Over,
         Requests', ProfileTyped',
         Backed(file'.by) \/ Backing(x, file'.by),
         \A f \in Fields : Backed(profile'[f].by) \/ Backing(x, profile'[f].by)
  PROVE  Inv'
<1>0. call \in [Calls -> CallRecord] /\ call' \in [Calls -> CallRecord]
      /\ call'[c] = x /\ \A d \in Calls : d # c => call'[d] = call[d]
  BY CallKnows
<1>1. ASSUME NEW by, Backed(by) \/ Backing(x, by)
      PROVE  by \in Ids => req'[by].st \in Over \/ \E d \in Calls : Backing(call'[d], by)
  <2>1. Backed(by)'
    BY <1>1, BackedStays
  <2>2. QED
    BY <2>1 DEF Backed, Backing
<1>2. ASSUME NEW d \in Calls
      PROVE  (Argued(call[d]) /\ Carries(call[d]) /\ Backed(call[d].by))'
  <2>1. PICK k \in CallRecord : k = call'[d]
    BY <1>0
  <2>2. Argued(k)' /\ Carries(k)' /\ (Backed(k.by) \/ Backing(x, k.by))
    <3>1. CASE d = c
      BY <1>0, <2>1, <3>1
    <3>2. CASE d # c
      <4>1. k = call[d]
        BY <1>0, <2>1, <3>2
      <4>2. Argued(k) /\ Carries(k) /\ Backed(k.by)
        BY <4>1, CallKnows
      <4>3. QED
        BY <4>2 DEF KnowledgeStays
    <3>3. QED
      BY <3>1, <3>2
  <2>3. Argued(call[d])'
    BY <2>1, <2>2 DEF Argued
  <2>4. Carries(call[d])'
    BY <2>1, <2>2 DEF Carries, Faithful, Listed, InTable
  <2>5. Backed(call[d].by)'
    BY <1>1, <2>1, <2>2 DEF Backed, Backing
  <2>6. QED
    BY <2>3, <2>4, <2>5
<1>3. Origins'
  BY <1>1 DEF Origins, Backed, Backing
<1>4. QED
  BY <1>0, <1>2, <1>3 DEF Inv, CallsKnow

\* One that writes no request and no cached photo.
LEMMA MoveKeeps ==
  ASSUME Inv, NEW c \in Calls, NEW x \in CallRecord, call' = [call EXCEPT ![c] = x],
         Argued(x), Carries(x), Backed(x.by) \/ Backing(x, x.by),
         \A i \in Ids : Backing(call[c], i) => Backing(x, i),
         UNCHANGED <<req, asked, seen>>, ProfileTyped',
         Backed(file'.by) \/ Backing(x, file'.by),
         \A f \in Fields : Backed(profile'[f].by) \/ Backing(x, profile'[f].by)
  PROVE  Inv'
<1>1. KnowledgeStays
  BY DEF KnowledgeStays, Argued, Carries, Faithful, Listed, InTable
<1>2. Argued(x)' /\ Carries(x)'
  BY DEF Argued, Carries, Faithful, Listed, InTable
<1>3. Requests'
  BY DEF Inv, Requests, RequestsTyped, InOrder, DataIsPhoto, PhotosKept, InTable
<1>4. QED
  BY <1>1, <1>2, <1>3, StepKeeps

\* One that writes no table, of a call that backs no request.
LEMMA CallMoves ==
  ASSUME Inv, NEW c \in Calls, NEW x \in CallRecord, call' = [call EXCEPT ![c] = x],
         Argued(x), Carries(x), Backed(x.by),
         \A i \in Ids : Backing(call[c], i) => Backing(x, i),
         UNCHANGED <<profile, file, req, asked, seen>>
  PROVE  Inv'
<1>1. ProfileTyped' /\ Backed(file'.by) /\ \A f \in Fields : Backed(profile'[f].by)
  BY DEF Inv, ProfileTyped, Origins
<1>2. QED
  BY <1>1, MoveKeeps

\* One that writes no value of the profile.
LEMMA WriteKeeps ==
  ASSUME Inv, KnowledgeStays, NEW c \in Calls, NEW x \in CallRecord, call' = [call EXCEPT ![c] = x],
         Argued(x)', Carries(x)', Backed(x.by),
         \A i \in Ids : Backing(call[c], i) => Backing(x, i) \/ req'[i].st \in Over,
         UNCHANGED <<profile, file>>, Requests'
  PROVE  Inv'
<1>1. ProfileTyped' /\ Backed(file'.by) /\ \A f \in Fields : Backed(profile'[f].by)
  BY DEF Inv, ProfileTyped, Origins
<1>2. QED
  BY <1>1, StepKeeps

\* A turn of a loop goes on or ends the call.
LEMMA LoopBecomes ==
  ASSUME NEW c \in Calls, NEW rec, Loop(c, rec)
  PROVE  \E x \in {NoCall, rec} : call' = [call EXCEPT ![c] = x]
BY DEF Loop
\* A call that carries what another does, and does not fetch.
LEMMA CarriesToo ==
  ASSUME NEW k \in CallRecord, NEW x \in CallRecord, Carries(k), x.pc # "fetch",
         \A i \in Ids : (x.old[i] = k.old[i] \/ x.old[i] = Initial) /\ (x.new[i] = k.new[i] \/ x.new[i] = Initial)
  PROVE  Carries(x)
BY DEF Carries, Listed, Initial

LEMMA BeginMoves ==
  ASSUME Inv, NEW c \in Calls, NEW x \in CallRecord, Begin(c, x), Argued(x), Carries(x), Backed(x.by),
         UNCHANGED <<profile, file, req, asked, seen>>
  PROVE  Inv'
<1>1. call[c].pc = "idle" /\ call' = [call EXCEPT ![c] = x]
  BY DEF Begin, At
<1>2. \A i \in Ids : Backing(call[c], i) => Backing(x, i)
  BY <1>1 DEF Backing
<1>3. QED
  BY <1>1, <1>2, CallMoves

LEMMA ReturnMoves ==
  ASSUME Inv, NEW c \in Calls, Return(c), call[c].pc \notin {"apply", "mark"},
         UNCHANGED <<profile, file, req, asked, seen>>
  PROVE  Inv'
<1>1. call' = [call EXCEPT ![c] = NoCall]
  BY DEF Return
<1>2. \A i \in Ids : Backing(call[c], i) => Backing(NoCall, i)
  BY DEF Backing
<1>3. QED
  BY <1>1, <1>2, NoCallKnows, CallMoves

LEMMA LoopMoves ==
  ASSUME Inv, NEW c \in Calls, NEW rec \in CallRecord, Loop(c, rec), Argued(rec), Carries(rec), Backed(rec.by),
         \A i \in Ids : ~Backing(call[c], i),
         UNCHANGED <<profile, file, req, asked, seen>>
  PROVE  Inv'
<1>1. PICK x \in {NoCall, rec} : call' = [call EXCEPT ![c] = x]
  BY LoopBecomes
<1>2. x \in CallRecord /\ Argued(x) /\ Carries(x) /\ Backed(x.by)
  BY NoCallKnows
<1>3. QED
  BY <1>1, <1>2, CallMoves

-----------------------------------------------------------------------------
(* Submission.                                                             *)

LEMMA ProfileValues ==
  ASSUME Inv, NEW f \in Fields
  PROVE  Plain(f) \in Value /\ profile[f].by \in Origin /\ Backed(profile[f].by) /\ file.content \in Contents \cup {Before}
BY DEF Inv, ProfileTyped, ProfileRecord, FileRecord, Plain, Value, Origins

LEMMA SubmitStartKeeps ==
  ASSUME Inv, NEW c \in Calls, NEW fs \in SUBSET Fields, SubmitStart(c, fs)
  PROVE  Inv'
<1> DEFINE r == [f \in Fields |-> IF f \in fs THEN Plain(f) ELSE Initial]
           x == [NoCall EXCEPT !.pc = "insert", !.fields = fs, !.read = r]
<1>1. Begin(c, x) /\ UNCHANGED <<profile, file, req, asked, seen>>
  BY DEF SubmitStart
<1>2. r \in [Fields -> Value]
  BY ProfileValues DEF Initial, Value
<1> HIDE DEF r
<1>3. x \in CallRecord /\ x.pc = "insert" /\ x.old = NoCall.old /\ x.new = NoCall.new /\ x.by = NoCall.by
  BY <1>2, NoCallKnows DEF CallRecord, Labels
<1> HIDE DEF x
<1>4. Argued(x) /\ Carries(x) /\ Backed(x.by)
  BY <1>3, NoCallKnows, CarriesToo DEF Argued
<1>5. QED
  BY <1>1, <1>3, <1>4, BeginMoves

\* The next request is one nobody has submitted.
LEMMA NextIdFresh ==
  ASSUME Inv, NextId \in Ids
  PROVE  req[NextId].st = "none" /\ \A i \in Ids : (req[i].st # "none" \/ i = NextId) <=> i <= NextId
<1>1. PICK n \in 0..MaxRequests : \A i \in Ids : req[i].st # "none" <=> i <= n
  BY DEF Inv, Requests, InOrder
<1>2. n \in Nat /\ 1 \in Int /\ MaxRequests \in Nat
  BY Constants
<1>3. {i \in Ids : req[i].st # "none"} = 1..n
  BY <1>1, <1>2 DEF Ids
<1>4. Cardinality(1..n) = n
  BY <1>2, FS_Interval
<1>5. NextId = 1 + n
  BY <1>3, <1>4 DEF NextId
<1>6. QED
  BY <1>1, <1>2, <1>5 DEF Ids

LEMMA SubmitInsertKeeps ==
  ASSUME Inv, NEW c \in Calls, SubmitInsert(c)
  PROVE  Inv'
<1> DEFINE k == call[c]
           n == NextId
<1>k. k \in CallRecord /\ Argued(k) /\ Carries(k) /\ Backed(k.by) /\ k.pc = "insert" /\ n \in Ids
  BY CallKnows DEF SubmitInsert, At
<1>n. req[n].st = "none" /\ \A i \in Ids : (req[i].st # "none" \/ i = n) <=> i <= n
  BY <1>k, NextIdFresh
<1>f. PICK f \in k.fields : \E content \in Contents, held \in StoredForms(f) :
        /\ req' = [req EXCEPT ![n] = [st |-> "pending", field |-> f, old |-> k.read[f],
                                      new |-> [content |-> content, held |-> held]]]
        /\ asked' = [asked EXCEPT ![n] = [s \in Sides |-> IF s = "old" THEN Shown(k.read[f]) ELSE content]]
        /\ Loop(c, [k EXCEPT !.fields = @ \ {f}, !.read[f] = Initial])
  BY DEF SubmitInsert
<1>1. PICK content \in Contents, held \in StoredForms(f) :
        /\ req' = [req EXCEPT ![n] = [st |-> "pending", field |-> f, old |-> k.read[f],
                                      new |-> [content |-> content, held |-> held]]]
        /\ asked' = [asked EXCEPT ![n] = [s \in Sides |-> IF s = "old" THEN Shown(k.read[f]) ELSE content]]
        /\ Loop(c, [k EXCEPT !.fields = @ \ {f}, !.read[f] = Initial])
  BY <1>f
<1>u. UNCHANGED <<profile, file, seen>>
  BY DEF SubmitInsert
<1> DEFINE old == k.read[f]
           new == [content |-> content, held |-> held]
           r == [st |-> "pending", field |-> f, old |-> old, new |-> new]
           a == [s \in Sides |-> IF s = "old" THEN Shown(old) ELSE content]
           rec == [k EXCEPT !.fields = @ \ {f}, !.read[f] = Initial]
<1>2. f \in Fields /\ held \in {"data", "kept"} /\ (held = "data" => f = Photo) /\ old \in Value
  BY <1>k, <1>f, <1>1 DEF CallRecord, StoredForms
<1>3. rec \in CallRecord /\ rec.pc = "insert" /\ rec.old = k.old /\ rec.new = k.new /\ rec.by = k.by
  <2>1. [k.read EXCEPT ![f] = Initial] \in [Fields -> Value]
    BY <1>k, <1>2 DEF CallRecord, Initial, Value
  <2>2. QED
    BY <1>k, <2>1 DEF CallRecord
<1>4. Loop(c, rec) /\ req' = [req EXCEPT ![n] = r] /\ asked' = [asked EXCEPT ![n] = a]
  BY <1>1
<1>5. old.content \in Contents \cup {Before} /\ Shown(old) \in Contents \cup {Before}
      /\ (old.held # "file" => Shown(old) = old.content)
  BY <1>2 DEF Shown, Value, Inv, ProfileTyped, FileRecord
<1>6. r \in RequestRecord /\ r.st = "pending" /\ r.field = f /\ r.old = old /\ r.new = new
      /\ new.content = content /\ new.held = held
  BY <1>2 DEF RequestRecord, Value
<1>7. a \in [Sides -> Contents \cup {Before}] /\ a["old"] = Shown(old) /\ a["new"] = content
  BY <1>5 DEF Sides
<1>8. r["old"] = old /\ r["new"] = new
  OBVIOUS
<1> HIDE DEF n, old, new, r, a, rec
<1>9. /\ req' \in [Ids -> RequestRecord] /\ req'[n] = r /\ \A i \in Ids : i # n => req'[i] = req[i]
      /\ asked' \in [Ids -> [Sides -> Contents \cup {Before}]] /\ asked'[n] = a
      /\ \A i \in Ids : i # n => asked'[i] = asked[i]
  BY <1>k, <1>4, <1>6, <1>7 DEF Inv, Requests, RequestsTyped
<1>10. \A side \in Sides : seen[n][side] = Missing
  BY <1>k, <1>n DEF Inv, Requests, PhotosKept
<1>11. KnowledgeStays
  <2>1. ASSUME NEW z \in CallRecord, Argued(z), Carries(z)
        PROVE  Argued(z)' /\ Carries(z)'
    <3>1. z.pc \in {"upload", "apply", "mark", "fetch"} => z.i # n /\ z.i \in Ids
      BY <1>n, <2>1 DEF Argued
    <3>2. Argued(z)'
      BY <1>9, <2>1, <3>1 DEF Argued
    <3>3. z.pc = "fetch" => Faithful(z.value, z.i, z.side)'
      BY <1>9, <2>1, <3>1 DEF Carries, Faithful, InTable
    <3>4. ASSUME NEW i \in Ids
          PROVE  Listed(z.old[i], i, "old")' /\ Listed(z.new[i], i, "new")'
      <4>1. Listed(z.old[i], i, "old") /\ Listed(z.new[i], i, "new")
        BY <2>1 DEF Carries
      <4>2. CASE i = n
        BY <1>n, <4>1, <4>2 DEF Listed
      <4>3. CASE i # n
        BY <1>9, <4>1, <4>3 DEF Listed, InTable
      <4>4. QED
        BY <4>2, <4>3
    <3>5. QED
      BY <3>2, <3>3, <3>4 DEF Carries
  <2>2. \A i \in Ids : req[i].st \in Over => req'[i].st \in Over
    BY <1>n, <1>9 DEF Over
  <2>3. QED
    BY <2>1, <2>2 DEF KnowledgeStays
<1>12. Requests'
  <2>1. RequestsTyped'
    BY <1>9, <1>u DEF Inv, Requests, RequestsTyped
  <2>2. InOrder'
    <3>1. n \in 0..MaxRequests
      BY <1>k, Constants DEF Ids
    <3>2. \A i \in Ids : req'[i].st # "none" <=> i <= n
      BY <1>n, <1>6, <1>9
    <3>3. QED
      BY <3>1, <3>2 DEF InOrder
  <2>3. DataIsPhoto'
    BY <1>2, <1>6, <1>9 DEF Inv, Requests, DataIsPhoto
  <2>4. ASSUME NEW i \in Ids, NEW side \in Sides
        PROVE  /\ InTable(i)' /\ req'[i][side].held # "file" =>
                    req'[i][side].content = asked'[i][side] /\ seen'[i][side] \in {Missing, asked'[i][side]}
               /\ req'[i].st = "none" => seen'[i][side] = Missing
    <3>1. CASE i = n
      <4>1. seen'[n][side] = Missing
        BY <1>u, <1>10
      <4>2. r[side].held # "file" => r[side].content = a[side]
        BY <1>5, <1>6, <1>7, <1>8 DEF Sides
      <4>3. QED
        BY <1>9, <3>1, <4>1, <4>2
    <3>2. CASE i # n
      BY <1>9, <1>u, <3>2 DEF Inv, Requests, PhotosKept, InTable
    <3>3. QED
      BY <3>1, <3>2
  <2>5. QED
    BY <2>1, <2>2, <2>3, <2>4 DEF Requests, PhotosKept
<1>13. PICK x \in {NoCall, rec} : call' = [call EXCEPT ![c] = x]
  BY <1>4, LoopBecomes
<1>14. x \in CallRecord /\ Argued(x) /\ Carries(x) /\ Backed(x.by)
  BY <1>k, <1>3, NoCallKnows, CarriesToo DEF Argued
<1>15. Argued(x)' /\ Carries(x)'
  BY <1>11, <1>14 DEF KnowledgeStays
<1>16. \A i \in Ids : ~Backing(k, i)
  BY <1>k DEF Backing
<1>17. QED
  BY <1>11, <1>12, <1>13, <1>14, <1>15, <1>16, <1>u, WriteKeeps
-----------------------------------------------------------------------------
(* Approval.                                                               *)

LEMMA ApproveStartKeeps ==
  ASSUME Inv, NEW c \in Calls, NEW is \in SUBSET Ids, ApproveStart(c, is)
  PROVE  Inv'
<1> DEFINE x == [NoCall EXCEPT !.pc = "find", !.rows = is]
<1>1. Begin(c, x) /\ UNCHANGED <<profile, file, req, asked, seen>>
  BY DEF ApproveStart
<1>2. x \in CallRecord /\ x.pc = "find" /\ x.old = NoCall.old /\ x.new = NoCall.new /\ x.by = NoCall.by
  BY NoCallKnows DEF CallRecord, Labels
<1> HIDE DEF x
<1>3. Argued(x) /\ Carries(x) /\ Backed(x.by)
  BY <1>2, NoCallKnows, CarriesToo DEF Argued
<1>4. QED
  BY <1>1, <1>2, <1>3, BeginMoves

LEMMA ApproveFindKeeps ==
  ASSUME Inv, NEW c \in Calls, ApproveFind(c)
  PROVE  Inv'
<1> DEFINE k == call[c]
<1>k. k \in CallRecord /\ Argued(k) /\ Carries(k) /\ Backed(k.by) /\ k.pc = "find"
      /\ UNCHANGED <<profile, file, req, asked, seen>>
  BY CallKnows DEF ApproveFind, At
<1>b. \A i \in Ids : ~Backing(k, i)
  BY <1>k DEF Backing
<1>1. PICK i \in k.rows :
        IF req[i].st = "pending"
          THEN Loop(c, [[k EXCEPT !.rows = @ \ {i}]
                          EXCEPT !.pc = IF req[i].new.held = "data" THEN "upload" ELSE "apply",
                                 !.i = i, !.fields = {req[i].field}, !.value = req[i].new])
          ELSE Loop(c, [k EXCEPT !.rows = @ \ {i}])
  BY DEF ApproveFind
<1>2. i \in Ids /\ req[i] \in RequestRecord /\ (req[i].new.held = "data" => req[i].field = Photo)
  BY <1>k DEF CallRecord, Inv, Requests, RequestsTyped, DataIsPhoto
<1> DEFINE rec == [k EXCEPT !.rows = @ \ {i}]
           l == IF req[i].new.held = "data" THEN "upload" ELSE "apply"
           r == [rec EXCEPT !.pc = l, !.i = i, !.fields = {req[i].field}, !.value = req[i].new]
<1>3. rec \in CallRecord /\ rec.pc = "find" /\ rec.old = k.old /\ rec.new = k.new /\ rec.by = k.by
  BY <1>k DEF CallRecord
<1> HIDE DEF rec
<1>4. l \in {"upload", "apply"} /\ (l = "upload" => req[i].field = Photo)
  BY <1>2
<1>5. r \in CallRecord /\ r.pc = l /\ r.i = i /\ r.fields = {req[i].field} /\ r.old = k.old /\ r.new = k.new /\ r.by = k.by
  <2>1. l \in Labels /\ req[i].new \in Value /\ req[i].field \in Fields /\ i \in Ids \cup {0}
    BY <1>2, <1>4 DEF Labels, RequestRecord
  <2> HIDE DEF l
  <2>2. QED
    BY <1>3, <2>1 DEF CallRecord
<1> HIDE DEF l, r
<1>6. CASE req[i].st = "pending"
  <2>1. Loop(c, r)
    BY <1>1, <1>6 DEF r, rec, l
  <2>2. Argued(r) /\ Carries(r)
    BY <1>k, <1>2, <1>4, <1>5, <1>6, CarriesToo DEF Argued
  <2>3. QED
    BY <1>k, <1>b, <1>5, <2>1, <2>2, LoopMoves
<1>7. CASE req[i].st # "pending"
  <2>1. Loop(c, rec)
    BY <1>1, <1>7 DEF rec
  <2>2. Argued(rec) /\ Carries(rec)
    BY <1>k, <1>3, CarriesToo DEF Argued
  <2>3. QED
    BY <1>k, <1>b, <1>3, <2>1, <2>2, LoopMoves
<1>8. QED
  BY <1>6, <1>7

LEMMA SkipKeeps ==
  ASSUME Inv, NEW c \in Calls, Skip(c), \A i \in Ids : ~Backing(call[c], i),
         UNCHANGED <<profile, file, req, asked, seen>>
  PROVE  Inv'
<1> DEFINE k == call[c]
           rec == [k EXCEPT !.pc = "find", !.value = Initial, !.fields = {}, !.i = 0]
<1>k. k \in CallRecord /\ Argued(k) /\ Carries(k) /\ Backed(k.by)
  BY CallKnows
<1>1. rec \in CallRecord /\ rec.pc = "find" /\ rec.old = k.old /\ rec.new = k.new /\ rec.by = k.by
  BY <1>k DEF CallRecord, Labels, Initial, Value
<1>2. Loop(c, rec)
  BY DEF Skip
<1> HIDE DEF rec
<1>3. Argued(rec) /\ Carries(rec)
  BY <1>k, <1>1, CarriesToo DEF Argued
<1>4. QED
  BY <1>k, <1>1, <1>2, <1>3, LoopMoves

\* Whoever uploads the photo of a request is bound to approve it.
LEMMA ApproveUploadKeeps ==
  ASSUME Inv, NEW c \in Calls, ApproveUpload(c)
  PROVE  Inv'
<1> DEFINE k == call[c]
<1>k. k \in CallRecord /\ Argued(k) /\ Carries(k) /\ Backed(k.by) /\ k.pc = "upload" /\ k.i \in Ids /\ k.fields = {Photo}
      /\ req[k.i].st # "none" /\ call \in [Calls -> CallRecord]
  BY CallKnows DEF ApproveUpload, At, Argued
<1>b. \A i \in Ids : ~Backing(k, i)
  BY <1>k DEF Backing
<1>u. UNCHANGED <<profile, req, asked, seen>>
  BY DEF ApproveUpload
<1>p. ProfileTyped /\ Origins
  BY DEF Inv
\* The photo is in the file, or still in the call.
<1>s. ASSUME NEW v \in Value, call' = [call EXCEPT ![c] = [k EXCEPT !.pc = "apply", !.value = v]],
             file' = file \/ Upload(k.value.content, k.i)
      PROVE  Inv'
  <2> DEFINE x == [k EXCEPT !.pc = "apply", !.value = v]
  <2>1. x \in CallRecord /\ x.pc = "apply" /\ x.i = k.i /\ x.fields = {Photo} /\ x.old = k.old /\ x.new = k.new /\ x.by = k.by
    BY <1>k DEF CallRecord, Labels
  <2>2. call' = [call EXCEPT ![c] = x]
    BY <1>s
  <2> HIDE DEF x
  <2>3. Argued(x) /\ Carries(x) /\ Backing(x, k.i)
    BY <1>k, <2>1, CarriesToo DEF Argued, Backing
  <2>4. file' = file \/ file' = [content |-> k.value.content, by |-> k.i]
    BY <1>s DEF Upload
  <2>5. ProfileTyped' /\ (file'.by = file.by \/ file'.by = k.i)
    BY <1>k, <1>u, <1>p, <2>4 DEF ProfileTyped, FileRecord, CallRecord, Value, Origin
  <2>6. /\ Backed(file'.by) \/ Backing(x, file'.by)
        /\ \A f \in Fields : Backed(profile'[f].by)
    BY <1>u, <1>p, <2>3, <2>5 DEF Origins
  <2>7. QED
    BY <1>k, <1>b, <1>u, <2>1, <2>2, <2>3, <2>5, <2>6, MoveKeeps
<1>1. CASE Upload(k.value.content, k.i) /\ call' = [call EXCEPT ![c].pc = "apply", ![c].value = FileLink]
  <2>1. FileLink \in Value
    BY DEF FileLink, Value
  <2>2. call' = [call EXCEPT ![c] = [k EXCEPT !.pc = "apply", !.value = FileLink]]
    BY <1>k, <1>1 DEF CallRecord
  <2>3. QED
    BY <1>s, <1>1, <2>1, <2>2
<1>2. CASE call' = [call EXCEPT ![c].pc = "apply"] /\ UNCHANGED file
  <2>1. k.value \in Value
    BY <1>k DEF CallRecord
  <2>2. call' = [call EXCEPT ![c] = [k EXCEPT !.pc = "apply", !.value = k.value]]
    BY <1>k, <1>2 DEF CallRecord
  <2>3. QED
    BY <1>s, <1>2, <2>1, <2>2
<1>3. CASE Skip(c) /\ UNCHANGED file
  BY <1>b, <1>u, <1>3, SkipKeeps
<1>4. QED
  BY <1>1, <1>2, <1>3 DEF ApproveUpload

LEMMA StoredBy ==
  ASSUME NEW v \in Value, NEW by \in Origin
  PROVE  Stored(v, by) \in ProfileRecord /\ Stored(v, by).by \in {Nobody, by}
BY DEF Stored, Value, ProfileRecord, Origin

LEMMA ApproveApplyKeeps ==
  ASSUME Inv, NEW c \in Calls, ApproveApply(c)
  PROVE  Inv'
<1> DEFINE k == call[c]
<1>k. k \in CallRecord /\ Argued(k) /\ Carries(k) /\ Backed(k.by) /\ k.pc = "apply" /\ k.i \in Ids /\ req[k.i].st # "none"
      /\ call \in [Calls -> CallRecord] /\ UNCHANGED <<file, req, asked, seen>>
  BY CallKnows DEF ApproveApply, At, Argued
<1>p. ProfileTyped /\ Origins
  BY DEF Inv
<1>1. PICK f \in k.fields :
       \/ /\ profile' = [profile EXCEPT ![f] = Stored(k.value, k.i)]
          /\ call' = [call EXCEPT ![c].pc = "mark", ![c].value = Initial, ![c].fields = {}]
       \/ f # Photo /\ Skip(c) /\ UNCHANGED profile
  BY DEF ApproveApply
<1>2. f \in Fields /\ k.value \in Value /\ k.i \in Origin
  BY <1>k DEF CallRecord, Origin
<1>3. CASE /\ profile' = [profile EXCEPT ![f] = Stored(k.value, k.i)]
           /\ call' = [call EXCEPT ![c].pc = "mark", ![c].value = Initial, ![c].fields = {}]
  <2> DEFINE x == [k EXCEPT !.pc = "mark", !.value = Initial, !.fields = {}]
  <2>1. call' = [call EXCEPT ![c] = x]
    BY <1>k, <1>3 DEF CallRecord
  <2>2. x \in CallRecord /\ x.pc = "mark" /\ x.i = k.i /\ x.old = k.old /\ x.new = k.new /\ x.by = k.by
    BY <1>k DEF CallRecord, Labels, Initial, Value
  <2> HIDE DEF x
  <2>3. Argued(x) /\ Carries(x) /\ Backing(x, k.i) /\ \A i \in Ids : Backing(k, i) => Backing(x, i)
    BY <1>k, <2>2, CarriesToo DEF Argued, Backing
  <2> DEFINE p == Stored(k.value, k.i)
  <2>4. p \in ProfileRecord /\ p.by \in {Nobody, k.i}
    BY <1>2, StoredBy
  <2>5. profile' = [profile EXCEPT ![f] = p]
    BY <1>3
  <2> HIDE DEF p
  <2>6. ProfileTyped'
    BY <1>k, <1>p, <2>4, <2>5 DEF ProfileTyped
  <2>7. \A g \in Fields : profile'[g].by \in {Nobody, k.i} \/ profile'[g] = profile[g]
    BY <1>2, <1>p, <2>4, <2>5 DEF ProfileTyped
  <2>8. Backed(Nobody)
    BY Constants DEF Backed
  <2>9. \A g \in Fields : Backed(profile'[g].by) \/ Backing(x, profile'[g].by)
    BY <1>p, <2>3, <2>7, <2>8 DEF Origins
  <2>10. Backed(file'.by)
    BY <1>k, <1>p DEF Origins
  <2>11. QED
    BY <1>k, <2>1, <2>2, <2>3, <2>6, <2>9, <2>10, MoveKeeps
<1>4. CASE f # Photo /\ Skip(c) /\ UNCHANGED profile
  <2>1. \A i \in Ids : ~Backing(k, i)
    BY <1>k, <1>4 DEF Backing
  <2>2. QED
    BY <1>k, <1>4, <2>1, SkipKeeps
<1>5. QED
  BY <1>1, <1>3, <1>4
-----------------------------------------------------------------------------
(* Statuses: marks, rejections and deletions.                              *)

\* A request that was inserted gets another status, or is gone for good.
LEMMA StatusWritten ==
  ASSUME Inv, NEW j \in Ids, NEW r \in RequestRecord, req' = [req EXCEPT ![j] = r], seen' = seen,
         req[j].st # "none", r.st # "none", req[j].st \in Over => r.st \in Over,
         \/ r.st = "deleted" /\ r.new.held # "data" /\ (\E a \in [Sides -> {Before}] : asked' = [asked EXCEPT ![j] = a])
         \/ InTable(j) /\ r = [req[j] EXCEPT !.st = r.st] /\ asked' = asked
  PROVE  KnowledgeStays /\ Requests'
<1>1. RequestsTyped /\ InOrder /\ DataIsPhoto /\ PhotosKept
  BY DEF Inv, Requests
<1>2. req' \in [Ids -> RequestRecord] /\ req'[j] = r /\ \A i \in Ids : i # j => req'[i] = req[i]
  BY <1>1 DEF RequestsTyped
<1>3. asked' \in [Ids -> [Sides -> Contents \cup {Before}]] /\ \A i \in Ids : i # j => asked'[i] = asked[i]
  BY <1>1 DEF RequestsTyped
<1>4. (r.st = "deleted" /\ r.new.held # "data")
      \/ (/\ InTable(j) /\ asked'[j] = asked[j]
          /\ r["old"] = req[j]["old"] /\ r["new"] = req[j]["new"] /\ r.field = req[j].field /\ r.new = req[j].new)
  <2>1. CASE r.st = "deleted" /\ r.new.held # "data"
    BY <2>1
  <2>2. CASE InTable(j) /\ r = [req[j] EXCEPT !.st = r.st] /\ asked' = asked
    <3> DEFINE q == req[j]
               s == r.st
    <3>1. q \in RequestRecord /\ r = [q EXCEPT !.st = s]
      BY <1>1, <2>2 DEF RequestsTyped
    <3> HIDE DEF q, s
    <3>2. r["old"] = q["old"] /\ r["new"] = q["new"] /\ r.field = q.field /\ r.new = q.new
      BY <3>1 DEF RequestRecord
    <3>3. QED
      BY <2>2, <3>2 DEF q
  <2>3. QED
    BY <2>1, <2>2
<1>5. \A i \in Ids : (req'[i].st = "none" <=> req[i].st = "none") /\ (req[i].st \in Over => req'[i].st \in Over)
  BY <1>2
\* Whatever is still in the table is as it was, but for its status.
<1>6. \A i \in Ids, side \in Sides :
        InTable(i)' => InTable(i) /\ req'[i][side] = req[i][side] /\ asked'[i] = asked[i]
  BY <1>2, <1>3, <1>4 DEF InTable, Sides
<1>7. ASSUME NEW z \in CallRecord, Argued(z), Carries(z)
      PROVE  Argued(z)' /\ Carries(z)'
  <2>1. Argued(z)'
    BY <1>5, <1>7 DEF Argued
  <2>2. z.pc = "fetch" => Faithful(z.value, z.i, z.side)'
    <3>1. z.pc = "fetch" => z.i \in Ids /\ z.side \in Sides /\ Faithful(z.value, z.i, z.side)
      BY <1>7 DEF Argued, Carries, CallRecord
    <3>2. QED
      BY <1>6, <3>1 DEF Faithful
  <2>3. ASSUME NEW i \in Ids
        PROVE  Listed(z.old[i], i, "old")' /\ Listed(z.new[i], i, "new")'
    <3>1. Listed(z.old[i], i, "old") /\ Listed(z.new[i], i, "new")
      BY <1>7 DEF Carries
    <3>2. "old" \in Sides /\ "new" \in Sides
      BY DEF Sides
    <3>3. QED
      BY <1>5, <1>6, <3>1, <3>2 DEF Listed
  <2>4. QED
    BY <2>1, <2>2, <2>3 DEF Carries
<1>8. KnowledgeStays
  BY <1>5, <1>7 DEF KnowledgeStays
<1>9. RequestsTyped'
  BY <1>1, <1>2, <1>3 DEF RequestsTyped
<1>10. InOrder'
  BY <1>1, <1>5 DEF InOrder
<1>11. DataIsPhoto'
  BY <1>1, <1>2, <1>4 DEF DataIsPhoto
<1>12. PhotosKept'
  BY <1>1, <1>5, <1>6 DEF PhotosKept
<1>13. QED
  BY <1>8, <1>9, <1>10, <1>11, <1>12 DEF Requests

\* No request changes.
LEMMA RequestsStay ==
  ASSUME Inv, UNCHANGED <<req, asked, seen>>
  PROVE  KnowledgeStays /\ Requests'
BY DEF Inv, KnowledgeStays, Argued, Carries, Faithful, Listed, InTable, Requests, RequestsTyped, InOrder, DataIsPhoto,
       PhotosKept

LEMMA RequestTypes ==
  ASSUME Inv, NEW i \in Ids
  PROVE  req[i] \in RequestRecord /\ req \in [Ids -> RequestRecord]
BY DEF Inv, Requests, RequestsTyped

\* markApproved, whatever the status is by now: the request is approved after
\* it, unless it was deleted.
LEMMA ApproveMarkKeeps ==
  ASSUME Inv, NEW c \in Calls, ApproveMark(c)
  PROVE  Inv'
<1> DEFINE k == call[c]
           j == k.i
           rec == [k EXCEPT !.pc = "find", !.i = 0]
           r == [req[j] EXCEPT !.st = "approved"]
<1>k. k \in CallRecord /\ Argued(k) /\ Carries(k) /\ Backed(k.by) /\ k.pc = "mark" /\ j \in Ids /\ req[j].st # "none"
      /\ UNCHANGED <<profile, file, asked, seen>>
  BY CallKnows DEF ApproveMark, At, Argued
<1>1. Loop(c, rec) /\ req' = IF InTable(j) THEN [req EXCEPT ![j].st = "approved"] ELSE req
  BY DEF ApproveMark
<1>2. rec \in CallRecord /\ rec.pc = "find" /\ rec.old = k.old /\ rec.new = k.new /\ rec.by = k.by
  BY <1>k DEF CallRecord, Labels
<1>3. req[j] \in RequestRecord /\ req \in [Ids -> RequestRecord]
  BY <1>k, RequestTypes
<1>4. KnowledgeStays /\ Requests' /\ req'[j].st \in Over
  <2>1. CASE InTable(j)
    <3>1. r \in RequestRecord /\ r.st = "approved" /\ req' = [req EXCEPT ![j] = r] /\ req'[j] = r
      BY <1>1, <1>3, <1>k, <2>1 DEF RequestRecord
    <3>2. r = [req[j] EXCEPT !.st = r.st] /\ r.st \in Over /\ r.st # "none"
      BY <3>1 DEF Over
    <3> HIDE DEF r, j
    <3>3. QED
      BY <1>k, <2>1, <3>1, <3>2, StatusWritten
  <2>2. CASE ~InTable(j)
    <3>1. req' = req /\ req[j].st = "deleted"
      BY <1>1, <1>3, <1>k, <2>2 DEF InTable, RequestRecord
    <3>2. QED
      BY <1>k, <3>1, RequestsStay DEF Over
  <2>3. QED
    BY <2>1, <2>2
<1>5. PICK x \in {NoCall, rec} : call' = [call EXCEPT ![c] = x]
  BY <1>1, LoopBecomes
<1> HIDE DEF rec
<1>6. x \in CallRecord /\ Argued(x) /\ Carries(x) /\ Backed(x.by)
  BY <1>k, <1>2, NoCallKnows, CarriesToo DEF Argued
<1>7. Argued(x)' /\ Carries(x)'
  BY <1>4, <1>6 DEF KnowledgeStays
<1>8. \A i \in Ids : Backing(k, i) => req'[i].st \in Over
  BY <1>4 DEF Backing
<1>9. QED
  BY <1>k, <1>4, <1>5, <1>6, <1>7, <1>8, WriteKeeps

LEMMA RejectStartKeeps ==
  ASSUME Inv, NEW c \in Calls, NEW i \in Ids, RejectStart(c, i)
  PROVE  Inv'
<1> DEFINE x == [NoCall EXCEPT !.pc = "reject", !.i = i]
<1>1. Begin(c, x) /\ UNCHANGED <<profile, file, req, asked, seen>>
  BY DEF RejectStart
<1>2. x \in CallRecord /\ x.pc = "reject" /\ x.i = i /\ x.old = NoCall.old /\ x.new = NoCall.new /\ x.by = NoCall.by
  BY NoCallKnows DEF CallRecord, Labels
<1> HIDE DEF x
<1>3. Argued(x) /\ Carries(x) /\ Backed(x.by)
  BY <1>2, NoCallKnows, CarriesToo DEF Argued
<1>4. QED
  BY <1>1, <1>2, <1>3, BeginMoves

LEMMA RejectUpdateKeeps ==
  ASSUME Inv, NEW c \in Calls, RejectUpdate(c)
  PROVE  Inv'
<1> DEFINE k == call[c]
           j == k.i
           r == [req[j] EXCEPT !.st = "rejected"]
<1>k. k.pc = "reject" /\ j \in Ids /\ UNCHANGED <<profile, file, asked, seen>> /\ call' = [call EXCEPT ![c] = NoCall]
      /\ req' = IF req[j].st = "pending" THEN [req EXCEPT ![j].st = "rejected"] ELSE req
  BY CallKnows DEF RejectUpdate, At, Argued, Return
<1>3. req[j] \in RequestRecord /\ req \in [Ids -> RequestRecord]
  BY <1>k, RequestTypes
<1>4. KnowledgeStays /\ Requests'
  <2>1. CASE req[j].st = "pending"
    <3>1. r \in RequestRecord /\ r.st = "rejected" /\ req' = [req EXCEPT ![j] = r]
      BY <1>3, <1>k, <2>1 DEF RequestRecord
    <3>2. r = [req[j] EXCEPT !.st = r.st] /\ r.st # "none" /\ InTable(j) /\ req[j].st \notin Over /\ req[j].st # "none"
      BY <2>1, <3>1 DEF InTable, Over
    <3> HIDE DEF r, j
    <3>3. QED
      BY <1>k, <3>1, <3>2, StatusWritten
  <2>2. CASE req[j].st # "pending"
    BY <1>k, <2>2, RequestsStay
  <2>3. QED
    BY <2>1, <2>2
<1>5. Argued(NoCall)' /\ Carries(NoCall)'
  BY <1>4, NoCallKnows DEF KnowledgeStays
<1>6. \A i \in Ids : ~Backing(k, i)
  BY <1>k DEF Backing
<1>7. QED
  BY <1>k, <1>4, <1>5, <1>6, NoCallKnows, WriteKeeps

LEMMA DeleteKeeps ==
  ASSUME Inv, NEW c \in Calls, NEW j \in Ids, DeleteRequest(c, j)
  PROVE  Inv'
<1> DEFINE k == call[c]
           r == [NoRequest EXCEPT !.st = "deleted"]
           a == [s \in Sides |-> Before]
<1>k. k \in CallRecord /\ Argued(k) /\ Carries(k) /\ Backed(k.by) /\ call \in [Calls -> CallRecord]
  BY CallKnows
<1>1. UNCHANGED <<profile, file, seen, call>> /\ InTable(j) /\ req' = [req EXCEPT ![j] = r] /\ asked' = [asked EXCEPT ![j] = a]
  BY DEF DeleteRequest
<1>2. r \in RequestRecord /\ r.st = "deleted" /\ r.new.held # "data"
  BY Constants DEF NoRequest, RequestRecord, Initial, Value
<1>3. a \in [Sides -> {Before}]
  OBVIOUS
<1> HIDE DEF r, a
<1>4. KnowledgeStays /\ Requests'
  BY <1>1, <1>2, <1>3, StatusWritten DEF InTable, Over
<1>5. call' = [call EXCEPT ![c] = k]
  BY <1>k, <1>1
<1>6. PICK x \in CallRecord : x = k
  BY <1>k
<1>7. Argued(x)' /\ Carries(x)'
  BY <1>k, <1>4, <1>6 DEF KnowledgeStays
<1>8. call' = [call EXCEPT ![c] = x]
  BY <1>5, <1>6
<1>9. QED
  BY <1>k, <1>1, <1>4, <1>6, <1>7, <1>8, WriteKeeps
-----------------------------------------------------------------------------
(* The pictures HR reviews a request with, and the migration of them.      *)

LEMMA SideTypes ==
  ASSUME Inv, NEW i \in Ids, NEW side \in Sides
  PROVE  req[i][side] \in Value
<1>1. req[i].old \in Value /\ req[i].new \in Value
  BY RequestTypes DEF RequestRecord
<1>2. QED
  BY <1>1 DEF Sides

LEMMA ViewStartKeeps ==
  ASSUME Inv, NEW c \in Calls, NEW i \in Ids, NEW side \in Sides, ViewStart(c, i, side)
  PROVE  Inv'
<1> DEFINE v == req[i][side]
           x == [NoCall EXCEPT !.pc = "fetch", !.i = i, !.side = side, !.value = v]
<1>1. Begin(c, x) /\ InTable(i) /\ UNCHANGED <<profile, file, req, asked, seen>>
  BY DEF ViewStart
<1>2. v \in Value /\ Faithful(v, i, side)
  BY SideTypes DEF Faithful, Inv, Requests, PhotosKept
<1> HIDE DEF v
<1>3. x \in CallRecord /\ x.pc = "fetch" /\ x.i = i /\ x.side = side /\ x.value = v
      /\ x.old = NoCall.old /\ x.new = NoCall.new /\ x.by = NoCall.by
  BY <1>2, NoCallKnows DEF CallRecord, Labels
<1> HIDE DEF x
<1>4. Argued(x) /\ Carries(x) /\ Backed(x.by)
  BY <1>1, <1>2, <1>3, NoCallKnows DEF Argued, Carries, InTable
<1>5. QED
  BY <1>1, <1>3, <1>4, BeginMoves

\* A photo that was fetched is cached, also if the request changed meanwhile.
LEMMA ViewFetchKeeps ==
  ASSUME Inv, NEW c \in Calls, ViewFetch(c)
  PROVE  Inv'
<1> DEFINE k == call[c]
           j == k.i
           side == k.side
           v == k.value
<1>k. /\ k.pc = "fetch" /\ j \in Ids /\ side \in Sides /\ v \in Value /\ Faithful(v, j, side) /\ req[j].st # "none"
      /\ Return(c) /\ UNCHANGED <<profile, file, req, asked>>
  BY CallKnows DEF ViewFetch, At, Argued, Carries, CallRecord
<1>1. CASE UNCHANGED seen
  BY <1>k, <1>1, ReturnMoves
<1>2. CASE seen' = [seen EXCEPT ![k.i][k.side] = Shown(k.value)]
  <2> DEFINE s == Shown(v)
  <2>1. s \in Contents \cup {Before} /\ (v.held # "file" => s = v.content)
    BY <1>k DEF Shown, Value, Inv, ProfileTyped, FileRecord
  <2>2. seen' = [seen EXCEPT ![j][side] = s]
    BY <1>2
  <2> HIDE DEF j, side, v, s
  <2>3. /\ seen' \in [Ids -> [Sides -> Contents \cup {Before, Missing}]] /\ seen'[j][side] = s
        /\ \A i \in Ids, o \in Sides : i # j \/ o # side => seen'[i][o] = seen[i][o]
    BY <1>k, <2>1, <2>2 DEF Inv, Requests, RequestsTyped
  <2>4. PhotosKept'
    <3>1. ASSUME NEW i \in Ids, NEW o \in Sides
          PROVE  /\ InTable(i) /\ req[i][o].held # "file" =>
                      req[i][o].content = asked[i][o] /\ seen'[i][o] \in {Missing, asked[i][o]}
                 /\ req[i].st = "none" => seen'[i][o] = Missing
      <4>1. CASE i = j /\ o = side
        BY <1>k, <2>1, <2>3, <4>1 DEF Inv, Requests, PhotosKept, Faithful
      <4>2. CASE i # j \/ o # side
        BY <2>3, <4>2 DEF Inv, Requests, PhotosKept
      <4>3. QED
        BY <4>1, <4>2
    <3>2. QED
      BY <1>k, <3>1 DEF PhotosKept, InTable
  <2>5. Requests'
    BY <1>k, <2>3, <2>4 DEF Inv, Requests, RequestsTyped, InOrder, DataIsPhoto
  <2>6. KnowledgeStays
    BY <1>k DEF KnowledgeStays, Argued, Carries, Faithful, Listed, InTable
  <2>7. Argued(NoCall)' /\ Carries(NoCall)'
    BY <2>6, NoCallKnows DEF KnowledgeStays
  <2>8. call' = [call EXCEPT ![c] = NoCall] /\ \A i \in Ids : ~Backing(k, i)
    BY <1>k DEF Return, Backing
  <2>9. QED
    BY <1>k, <2>5, <2>6, <2>7, <2>8, NoCallKnows, WriteKeeps
<1>3. QED
  BY <1>1, <1>2 DEF ViewFetch

LEMMA CacheExpiresKeeps ==
  ASSUME Inv, NEW j \in Ids, NEW side \in Sides, CacheExpires(j, side)
  PROVE  Inv'
<1>1. UNCHANGED <<profile, file, req, asked, call>> /\ seen' = [seen EXCEPT ![j][side] = Missing]
  BY DEF CacheExpires
<1>2. /\ seen' \in [Ids -> [Sides -> Contents \cup {Before, Missing}]]
      /\ \A i \in Ids, o \in Sides : seen'[i][o] \in {Missing, seen[i][o]}
  BY <1>1 DEF Inv, Requests, RequestsTyped
<1>3. PhotosKept'
  BY <1>1, <1>2 DEF Inv, Requests, PhotosKept, InTable
<1>4. Requests'
  BY <1>1, <1>2, <1>3 DEF Inv, Requests, RequestsTyped, InOrder, DataIsPhoto
<1>5. ProfileTyped' /\ Origins'
  BY <1>1 DEF Inv, ProfileTyped, Origins, Backed, Backing
<1>6. CallsKnow'
  BY <1>1 DEF Inv, CallsKnow, Argued, Carries, Faithful, Listed, InTable, Backed, Backing
<1>7. QED
  BY <1>4, <1>5, <1>6 DEF Inv

LEMMA MigrateStartKeeps ==
  ASSUME Inv, NEW c \in Calls, MigrateStart(c)
  PROVE  Inv'
<1> DEFINE rows == {i \in Ids : HasData(i)}
           old == [i \in Ids |-> IF i \in rows THEN req[i].old ELSE Initial]
           new == [i \in Ids |-> IF i \in rows THEN req[i].new ELSE Initial]
           x == [NoCall EXCEPT !.pc = "moveRow", !.rows = rows, !.old = old, !.new = new]
<1>1. Begin(c, x) /\ UNCHANGED <<profile, file, req, asked, seen>>
  BY DEF MigrateStart
<1>2. Initial \in Value /\ Initial.held = "kept"
  BY DEF Initial, Value
<1>3. ASSUME NEW i \in Ids
      PROVE  old[i] \in Value /\ new[i] \in Value /\ Listed(old[i], i, "old") /\ Listed(new[i], i, "new")
  <2>1. CASE i \in rows
    <3>1. req[i].old \in Value /\ req[i].new \in Value /\ InTable(i)
      BY <2>1, RequestTypes DEF RequestRecord, HasData
    <3>2. "old" \in Sides /\ "new" \in Sides
      BY DEF Sides
    <3>3. /\ req[i]["old"].held # "file" => req[i]["old"].content = asked[i]["old"]
          /\ req[i]["new"].held # "file" => req[i]["new"].content = asked[i]["new"]
      BY <3>1, <3>2 DEF Inv, Requests, PhotosKept
    <3>4. req[i].old = req[i]["old"] /\ req[i].new = req[i]["new"]
      OBVIOUS
    <3>5. old[i] = req[i].old /\ new[i] = req[i].new
      BY <2>1
    <3> HIDE DEF old, new
    <3>6. QED
      BY <3>1, <3>3, <3>4, <3>5 DEF Listed, InTable
  <2>2. CASE i \notin rows
    <3>1. old[i] = Initial /\ new[i] = Initial
      BY <2>2
    <3> HIDE DEF old, new
    <3>2. QED
      BY <1>2, <3>1 DEF Listed
  <2>3. QED
    BY <2>1, <2>2
<1>4. old \in [Ids -> Value] /\ new \in [Ids -> Value] /\ rows \in SUBSET Ids
  BY <1>3
<1> HIDE DEF old, new, rows
<1>5. x \in CallRecord /\ x.pc = "moveRow" /\ x.old = old /\ x.new = new /\ x.by = NoCall.by
  BY <1>4, NoCallKnows DEF CallRecord, Labels
<1> HIDE DEF x
<1>6. Argued(x) /\ Carries(x) /\ Backed(x.by)
  BY <1>3, <1>5, NoCallKnows DEF Argued, Carries
<1>7. QED
  BY <1>1, <1>5, <1>6, BeginMoves

\* The link of a photo takes its place in the request, if that is still there.
LEMMA LinkWritten ==
  ASSUME Inv, NEW j \in Ids, NEW side \in Sides, NEW v \in Value, v.held = "data", Listed(v, j, side),
         WriteLink(j, side, v), asked' = asked
  PROVE  KnowledgeStays /\ Requests'
<1> DEFINE w == [v EXCEPT !.held = "kept"]
<1>1. RequestsTyped /\ InOrder /\ DataIsPhoto /\ PhotosKept
  BY DEF Inv, Requests
<1>2. req[j].st # "none" /\ (InTable(j) => req[j][side].held # "file" /\ v.content = asked[j][side])
  BY DEF Listed
<1>3. w \in Value /\ w.held = "kept" /\ w.content = v.content
  BY DEF Value
<1>4. req' = (IF InTable(j) THEN [req EXCEPT ![j][side] = w] ELSE req) /\ seen' = [seen EXCEPT ![j][side] = Missing]
  BY DEF WriteLink
<1> HIDE DEF w
<1>5. /\ seen' \in [Ids -> [Sides -> Contents \cup {Before, Missing}]] /\ seen'[j][side] = Missing
      /\ \A i \in Ids, o \in Sides : i # j \/ o # side => seen'[i][o] = seen[i][o]
  BY <1>1, <1>4 DEF RequestsTyped
<1>6. /\ req' \in [Ids -> RequestRecord]
      /\ \A i \in Ids : req'[i].st = req[i].st /\ req'[i].field = req[i].field
      /\ \A i \in Ids, o \in Sides : i # j \/ o # side \/ ~InTable(j) => req'[i][o] = req[i][o]
      /\ InTable(j) => req'[j][side] = w
      /\ \A i \in Ids : req'[i].new.held = "data" => req[i].new.held = "data"
  <2>1. CASE InTable(j)
    <3> DEFINE q == req[j]
               r == [q EXCEPT ![side] = w]
    <3>1. q \in RequestRecord /\ req \in [Ids -> RequestRecord]
      BY RequestTypes
    <3>2. req' = [req EXCEPT ![j] = r]
      BY <1>4, <2>1, <3>1
    <3> HIDE DEF q
    <3>3. /\ r \in RequestRecord /\ r.st = q.st /\ r.field = q.field /\ r[side] = w
          /\ \A o \in Sides : o # side => r[o] = q[o]
          /\ r.new = q.new \/ r.new = w
      BY <1>3, <3>1 DEF RequestRecord, Sides
    <3> HIDE DEF r
    <3>4. req' \in [Ids -> RequestRecord] /\ req'[j] = r /\ \A i \in Ids : i # j => req'[i] = req[i]
      BY <3>1, <3>2, <3>3
    <3>5. QED
      BY <1>3, <2>1, <3>3, <3>4 DEF q
  <2>2. CASE ~InTable(j)
    BY <1>1, <1>4, <2>2 DEF RequestsTyped
  <2>3. QED
    BY <2>1, <2>2
<1>7. \A i \in Ids : InTable(i)' <=> InTable(i)
  BY <1>6 DEF InTable
\* No side of a request in the table becomes a file or stops being one.
<1>8. \A i \in Ids, o \in Sides :
        InTable(i) => (req'[i][o].held = "file" <=> req[i][o].held = "file")
  <2>1. ASSUME NEW i \in Ids, NEW o \in Sides, InTable(i)
        PROVE  req'[i][o].held = "file" <=> req[i][o].held = "file"
    <3>1. CASE i = j /\ o = side
      BY <1>2, <1>3, <1>6, <2>1, <3>1
    <3>2. CASE i # j \/ o # side
      BY <1>6, <3>2
    <3>3. QED
      BY <3>1, <3>2
  <2>2. QED
    BY <2>1
<1>9. ASSUME NEW z \in CallRecord, Argued(z), Carries(z)
      PROVE  Argued(z)' /\ Carries(z)'
  <2>1. Argued(z)'
    BY <1>6, <1>9 DEF Argued
  <2>2. z.pc = "fetch" => Faithful(z.value, z.i, z.side)'
    <3>1. z.pc = "fetch" => z.i \in Ids /\ z.side \in Sides /\ Faithful(z.value, z.i, z.side)
      BY <1>9 DEF Argued, Carries, CallRecord
    <3>2. QED
      BY <1>7, <1>8, <3>1 DEF Faithful
  <2>3. ASSUME NEW i \in Ids
        PROVE  Listed(z.old[i], i, "old")' /\ Listed(z.new[i], i, "new")'
    <3>1. Listed(z.old[i], i, "old") /\ Listed(z.new[i], i, "new")
      BY <1>9 DEF Carries
    <3>2. "old" \in Sides /\ "new" \in Sides
      BY DEF Sides
    <3>3. QED
      BY <1>6, <1>7, <1>8, <3>1, <3>2 DEF Listed
  <2>4. QED
    BY <2>1, <2>2, <2>3 DEF Carries
<1>10. KnowledgeStays
  BY <1>6, <1>9 DEF KnowledgeStays
<1>11. RequestsTyped' /\ InOrder' /\ DataIsPhoto'
  BY <1>1, <1>5, <1>6 DEF RequestsTyped, InOrder, DataIsPhoto
<1>12. ASSUME NEW i \in Ids, NEW o \in Sides
       PROVE  /\ InTable(i)' /\ req'[i][o].held # "file" =>
                   req'[i][o].content = asked'[i][o] /\ seen'[i][o] \in {Missing, asked'[i][o]}
              /\ req'[i].st = "none" => seen'[i][o] = Missing
  <2>1. CASE i = j /\ o = side
    BY <1>2, <1>3, <1>5, <1>6, <1>7, <2>1
  <2>2. CASE i # j \/ o # side
    BY <1>1, <1>5, <1>6, <1>7, <2>2 DEF PhotosKept
  <2>3. QED
    BY <2>1, <2>2
<1>13. QED
  BY <1>10, <1>11, <1>12 DEF Requests, PhotosKept
\* Where the migration of a photo leaves its call.
LEMMA MigrateStepKeeps ==
  ASSUME Inv, NEW c \in Calls, call[c].pc \in {"moveRow", "moveNew"}, KnowledgeStays, Requests',
         UNCHANGED <<profile, file>>, NEW x \in CallRecord, call' = [call EXCEPT ![c] = x],
         Argued(x), Carries(x), Backed(x.by)
  PROVE  Inv'
<1>1. Argued(x)' /\ Carries(x)'
  BY DEF KnowledgeStays
<1>2. \A i \in Ids : ~Backing(call[c], i)
  BY DEF Backing
<1>3. QED
  BY <1>1, <1>2, WriteKeeps

LEMMA MigrateOldKeeps ==
  ASSUME Inv, NEW c \in Calls, MigrateOld(c)
  PROVE  Inv'
<1> DEFINE k == call[c]
<1>k. k \in CallRecord /\ Argued(k) /\ Carries(k) /\ Backed(k.by) /\ k.pc = "moveRow" /\ call \in [Calls -> CallRecord]
      /\ UNCHANGED <<profile, file, asked>>
  BY CallKnows DEF MigrateOld, At
<1>1. PICK i \in k.rows :
       \/ /\ k.old[i].held = "data" /\ WriteLink(i, "old", k.old[i])
          /\ call' = [call EXCEPT ![c].rows = @ \ {i}, ![c].pc = "moveNew", ![c].i = i, ![c].old[i] = Initial]
       \/ /\ call' = [call EXCEPT ![c].rows = @ \ {i}, ![c].pc = "moveNew", ![c].i = i, ![c].old[i] = Initial]
          /\ UNCHANGED <<req, seen>>
       \/ /\ k.old[i].held = "data"
          /\ Loop(c, [k EXCEPT !.rows = @ \ {i}, !.old[i] = Initial, !.new[i] = Initial])
          /\ UNCHANGED <<req, seen>>
  BY DEF MigrateOld
<1>2. i \in Ids /\ k.old[i] \in Value /\ Listed(k.old[i], i, "old") /\ Initial \in Value
  BY <1>k DEF CallRecord, Carries, Initial, Value
<1> DEFINE o == [k.old EXCEPT ![i] = Initial]
           n == [k.new EXCEPT ![i] = Initial]
           x == [k EXCEPT !.rows = @ \ {i}, !.pc = "moveNew", !.i = i, !.old = o]
           rec == [k EXCEPT !.rows = @ \ {i}, !.old = o, !.new = n]
<1>3. /\ o \in [Ids -> Value] /\ n \in [Ids -> Value]
      /\ \A j \in Ids : (o[j] = k.old[j] \/ o[j] = Initial) /\ (n[j] = k.new[j] \/ n[j] = Initial)
  BY <1>k, <1>2 DEF CallRecord
<1> HIDE DEF o, n
<1>4. x \in CallRecord /\ x.pc = "moveNew" /\ x.i = i /\ x.old = o /\ x.new = k.new /\ x.by = k.by
  BY <1>k, <1>2, <1>3 DEF CallRecord, Labels
<1>5. rec \in CallRecord /\ rec.pc = "moveRow" /\ rec.old = o /\ rec.new = n /\ rec.by = k.by
  BY <1>k, <1>3 DEF CallRecord
<1> HIDE DEF x, rec
<1>6. Argued(x) /\ Carries(x) /\ Backed(x.by)
  BY <1>k, <1>2, <1>3, <1>4, CarriesToo DEF Argued
<1>7. Argued(rec) /\ Carries(rec) /\ Backed(rec.by)
  BY <1>k, <1>3, <1>5, CarriesToo DEF Argued
<1>8. CASE call' = [call EXCEPT ![c].rows = @ \ {i}, ![c].pc = "moveNew", ![c].i = i, ![c].old[i] = Initial]
  <2>1. call' = [call EXCEPT ![c] = x]
    BY <1>k, <1>8 DEF x, o, CallRecord
  <2>2. KnowledgeStays /\ Requests'
    <3>1. CASE WriteLink(i, "old", k.old[i]) /\ k.old[i].held = "data"
      BY <1>k, <1>2, <3>1, LinkWritten DEF Sides
    <3>2. CASE UNCHANGED <<req, seen>>
      BY <1>k, <3>2, RequestsStay
    <3>3. CASE Loop(c, [k EXCEPT !.rows = @ \ {i}, !.old[i] = Initial, !.new[i] = Initial]) /\ UNCHANGED <<req, seen>>
      BY <1>k, <3>3, RequestsStay
    <3>4. QED
      BY <1>1, <3>1, <3>2, <3>3
  <2>3. QED
    BY <1>k, <1>4, <1>6, <2>1, <2>2, MigrateStepKeeps
<1>9. CASE Loop(c, [k EXCEPT !.rows = @ \ {i}, !.old[i] = Initial, !.new[i] = Initial]) /\ UNCHANGED <<req, seen>>
  <2>1. Loop(c, rec)
    BY <1>k, <1>9 DEF rec, o, n, CallRecord
  <2>2. \A j \in Ids : ~Backing(k, j)
    BY <1>k DEF Backing
  <2>3. QED
    BY <1>k, <1>5, <1>7, <1>9, <2>1, <2>2, LoopMoves
<1>10. QED
  BY <1>1, <1>8, <1>9

LEMMA MigrateNewKeeps ==
  ASSUME Inv, NEW c \in Calls, MigrateNew(c)
  PROVE  Inv'
<1> DEFINE k == call[c]
           i == k.i
           v == k.new[i]
           n == [k.new EXCEPT ![i] = Initial]
           rec == [k EXCEPT !.pc = "moveRow", !.i = 0, !.new = n]
<1>k. k \in CallRecord /\ Argued(k) /\ Carries(k) /\ Backed(k.by) /\ k.pc = "moveNew" /\ i \in Ids
      /\ UNCHANGED <<profile, file, asked>>
  BY CallKnows DEF MigrateNew, At, Argued
<1>1. (v.held = "data" /\ WriteLink(i, "new", v)) \/ UNCHANGED <<req, seen>>
  BY DEF MigrateNew
<1>2. v \in Value /\ Listed(v, i, "new") /\ Initial \in Value
  BY <1>k DEF CallRecord, Carries, Initial, Value
<1>3. n \in [Ids -> Value] /\ \A j \in Ids : n[j] = k.new[j] \/ n[j] = Initial
  BY <1>k, <1>2 DEF CallRecord
<1>4. Loop(c, rec)
  BY <1>k DEF MigrateNew, CallRecord
<1> HIDE DEF n
<1>5. rec \in CallRecord /\ rec.pc = "moveRow" /\ rec.old = k.old /\ rec.new = n /\ rec.by = k.by
  BY <1>k, <1>3 DEF CallRecord, Labels
<1> HIDE DEF rec
<1>6. Argued(rec) /\ Carries(rec) /\ Backed(rec.by)
  BY <1>k, <1>3, <1>5, CarriesToo DEF Argued
<1>7. KnowledgeStays /\ Requests'
  <2>1. CASE v.held = "data" /\ WriteLink(i, "new", v)
    <3> HIDE DEF v, i
    <3>1. QED
      BY <1>k, <1>2, <2>1, LinkWritten DEF Sides
  <2>2. CASE UNCHANGED <<req, seen>>
    BY <1>k, <2>2, RequestsStay
  <2>3. QED
    BY <1>1, <2>1, <2>2
<1>8. PICK x \in {NoCall, rec} : call' = [call EXCEPT ![c] = x]
  BY <1>4, LoopBecomes
<1>9. x \in CallRecord /\ Argued(x) /\ Carries(x) /\ Backed(x.by)
  BY <1>5, <1>6, NoCallKnows
<1>10. QED
  BY <1>k, <1>7, <1>8, <1>9, MigrateStepKeeps

-----------------------------------------------------------------------------
(* The other writers of the employee's row.                                *)

\* The row or the file gets a value whose origin is backed already.
LEMMA ProfileWritten ==
  ASSUME Inv, NEW c \in Calls, call[c].pc \notin {"apply", "mark"},
         NEW x \in CallRecord, call' = [call EXCEPT ![c] = x], Argued(x), Carries(x), Backed(x.by),
         UNCHANGED <<req, asked, seen>>,
         NEW by \in Origin, Backed(by),
         \/ \E f \in Fields, v \in Value : profile' = [profile EXCEPT ![f] = Stored(v, by)] /\ file' = file
         \/ \E content \in Contents \cup {Before} : Upload(content, by) /\ profile' = profile
  PROVE  Inv'
<1>p. ProfileTyped /\ Origins
  BY DEF Inv
<1>b. \A i \in Ids : Backing(call[c], i) => Backing(x, i)
  BY DEF Backing
<1>0. Backed(Nobody)
  BY Constants DEF Backed
<1>1. ASSUME NEW f \in Fields, NEW v \in Value, profile' = [profile EXCEPT ![f] = Stored(v, by)], file' = file
      PROVE  Inv'
  <2> DEFINE p == Stored(v, by)
  <2>1. p \in ProfileRecord /\ p.by \in {Nobody, by}
    BY StoredBy
  <2>2. profile' = [profile EXCEPT ![f] = p]
    BY <1>1
  <2> HIDE DEF p
  <2>3. ProfileTyped' /\ \A g \in Fields : profile'[g].by \in {Nobody, by} \/ profile'[g] = profile[g]
    BY <1>p, <1>1, <2>1, <2>2 DEF ProfileTyped
  <2>4. Backed(file'.by) /\ \A g \in Fields : Backed(profile'[g].by)
    BY <1>p, <1>0, <1>1, <2>3 DEF Origins
  <2>5. QED
    BY <1>b, <2>3, <2>4, MoveKeeps
<1>2. ASSUME NEW content \in Contents \cup {Before}, Upload(content, by), profile' = profile
      PROVE  Inv'
  <2>1. file' = [content |-> content, by |-> by]
    BY <1>2 DEF Upload
  <2>2. ProfileTyped' /\ file'.by = by
    BY <1>p, <1>2, <2>1 DEF ProfileTyped, FileRecord
  <2>3. Backed(file'.by) /\ \A g \in Fields : Backed(profile'[g].by)
    BY <1>p, <1>2, <2>2 DEF Origins
  <2>4. QED
    BY <1>b, <2>2, <2>3, MoveKeeps
<1>3. QED
  BY <1>1, <1>2

LEMMA FileLinkValue == FileLink \in Value /\ HR \in Origin /\ Nobody \in Origin /\ Backed(HR) /\ Backed(Nobody)
BY Constants DEF FileLink, Value, Origin, Backed

LEMMA HREditKeeps ==
  ASSUME Inv, NEW c \in Calls, NEW f \in Fields, NEW content \in Contents, HREdit(c, f, content)
  PROVE  Inv'
<1> DEFINE k == call[c]
<1>k. k \in CallRecord /\ Argued(k) /\ Carries(k) /\ Backed(k.by) /\ call \in [Calls -> CallRecord]
      /\ k.pc = "idle" /\ UNCHANGED <<req, asked, seen>>
  BY CallKnows DEF HREdit, At, Begin
<1>1. ASSUME NEW held \in StoredForms(f), UNCHANGED <<file, call>>,
             profile' = [profile EXCEPT ![f] = Stored([content |-> content, held |-> held], HR)]
      PROVE  Inv'
  <2>1. [content |-> content, held |-> held] \in Value
    BY <1>1 DEF Value, StoredForms
  <2>2. call' = [call EXCEPT ![c] = k]
    BY <1>k, <1>1
  <2> HIDE DEF k
  <2>3. QED
    BY <1>k, <1>1, <2>1, <2>2, FileLinkValue, ProfileWritten DEF k
<1>2. CASE Upload(content, HR) /\ Begin(c, [NoCall EXCEPT !.pc = "edit"]) /\ UNCHANGED profile
  <2> DEFINE x == [NoCall EXCEPT !.pc = "edit"]
  <2>1. x \in CallRecord /\ x.pc = "edit" /\ x.old = NoCall.old /\ x.new = NoCall.new /\ x.by = NoCall.by
    BY NoCallKnows DEF CallRecord, Labels
  <2>2. call' = [call EXCEPT ![c] = x]
    BY <1>2 DEF Begin
  <2> HIDE DEF x
  <2>3. Argued(x) /\ Carries(x) /\ Backed(x.by)
    BY <2>1, NoCallKnows, CarriesToo DEF Argued
  <2>4. QED
    BY <1>k, <1>2, <2>1, <2>2, <2>3, FileLinkValue, ProfileWritten
<1>3. QED
  BY <1>1, <1>2 DEF HREdit

LEMMA SavesKeep ==
  ASSUME Inv, NEW c \in Calls, HREditSave(c) \/ PhotoSave(c)
  PROVE  Inv'
<1> DEFINE k == call[c]
<1>k. k \in CallRecord /\ Backed(k.by) /\ k.pc \in {"edit", "savePhoto"} /\ UNCHANGED <<file, req, asked, seen>>
      /\ call' = [call EXCEPT ![c] = NoCall]
  BY CallKnows DEF HREditSave, PhotoSave, At, Return
<1>1. k.value \in Value /\ k.by \in Origin /\ Photo \in Fields
  BY <1>k, Constants DEF CallRecord
<1>2. CASE HREditSave(c)
  <2>1. profile' = [profile EXCEPT ![Photo] = Stored(FileLink, HR)]
    BY <1>2 DEF HREditSave
  <2>2. QED
    BY <1>k, <1>1, <2>1, NoCallKnows, FileLinkValue, ProfileWritten
<1>3. CASE PhotoSave(c)
  <2>1. profile' = [profile EXCEPT ![Photo] = Stored(k.value, k.by)]
    BY <1>3 DEF PhotoSave
  <2>2. QED
    BY <1>k, <1>1, <2>1, NoCallKnows, ProfileWritten
<1>4. QED
  BY <1>2, <1>3

LEMMA PhotoStartKeeps ==
  ASSUME Inv, NEW c \in Calls, NEW helds, NEW label \in {"uploadPhoto", "download"}, PhotoStart(c, helds, label)
  PROVE  Inv'
<1> DEFINE v == Plain(Photo)
           by == profile[Photo].by
           x == [NoCall EXCEPT !.pc = label, !.value = v, !.by = by]
<1>1. Begin(c, x) /\ UNCHANGED <<profile, file, req, asked, seen>>
  BY DEF PhotoStart
<1>2. v \in Value /\ by \in Origin /\ Backed(by)
  BY Constants, ProfileValues
<1> HIDE DEF v, by
<1>3. x \in CallRecord /\ x.pc = label /\ x.old = NoCall.old /\ x.new = NoCall.new /\ x.by = by
  BY <1>2, NoCallKnows DEF CallRecord, Labels
<1> HIDE DEF x
<1>4. Argued(x) /\ Carries(x)
  BY <1>3, NoCallKnows, CarriesToo DEF Argued
<1>5. QED
  BY <1>1, <1>2, <1>3, <1>4, BeginMoves

LEMMA PhotoUploadKeeps ==
  ASSUME Inv, NEW c \in Calls, PhotoUpload(c)
  PROVE  Inv'
<1> DEFINE k == call[c]
<1>k. k \in CallRecord /\ Argued(k) /\ Carries(k) /\ Backed(k.by) /\ k.pc = "uploadPhoto" /\ call \in [Calls -> CallRecord]
      /\ UNCHANGED <<profile, req, asked, seen>>
  BY CallKnows DEF PhotoUpload, At
<1>1. CASE /\ Upload(k.value.content, k.by)
           /\ call' = [call EXCEPT ![c].pc = "savePhoto", ![c].value = FileLink, ![c].by = Nobody]
  <2> DEFINE x == [k EXCEPT !.pc = "savePhoto", !.value = FileLink, !.by = Nobody]
  <2>1. call' = [call EXCEPT ![c] = x]
    BY <1>k, <1>1 DEF CallRecord
  <2>2. x \in CallRecord /\ x.pc = "savePhoto" /\ x.old = k.old /\ x.new = k.new /\ x.by = Nobody
    BY <1>k, FileLinkValue DEF CallRecord, Labels
  <2> HIDE DEF x
  <2>3. Argued(x) /\ Carries(x)
    BY <1>k, <2>2, CarriesToo DEF Argued
  <2>4. k.value.content \in Contents \cup {Before} /\ k.by \in Origin
    BY <1>k DEF CallRecord, Value
  <2>5. QED
    BY <1>k, <1>1, <2>1, <2>2, <2>3, <2>4, FileLinkValue, ProfileWritten
<1>2. CASE Return(c) /\ UNCHANGED file
  BY <1>k, <1>2, ReturnMoves
<1>3. QED
  BY <1>1, <1>2 DEF PhotoUpload

LEMMA PhotoDownloadKeeps ==
  ASSUME Inv, NEW c \in Calls, PhotoDownload(c)
  PROVE  Inv'
<1> DEFINE k == call[c]
           w == [content |-> Shown(k.value), held |-> "data"]
           by == ShownBy(k.value, k.by)
           x == [k EXCEPT !.pc = "savePhoto", !.value = w, !.by = by]
<1>k. k \in CallRecord /\ Argued(k) /\ Carries(k) /\ Backed(k.by) /\ k.pc = "download" /\ call \in [Calls -> CallRecord]
      /\ UNCHANGED <<profile, file, req, asked, seen>>
  BY CallKnows DEF PhotoDownload, At
<1>1. w \in Value /\ by \in Origin /\ Backed(by)
  BY <1>k DEF Shown, ShownBy, CallRecord, Value, Inv, ProfileTyped, FileRecord, Origins
<1>2. CASE call' = [call EXCEPT ![c].pc = "savePhoto", ![c].value = w, ![c].by = ShownBy(k.value, @)]
  <2>1. call' = [call EXCEPT ![c] = x]
    BY <1>k, <1>2 DEF CallRecord
  <2> HIDE DEF w, by
  <2>2. x \in CallRecord /\ x.pc = "savePhoto" /\ x.old = k.old /\ x.new = k.new /\ x.by = by
    BY <1>k, <1>1 DEF CallRecord, Labels
  <2> HIDE DEF x
  <2>3. Argued(x) /\ Carries(x) /\ \A i \in Ids : ~Backing(k, i)
    BY <1>k, <2>2, CarriesToo DEF Argued, Backing
  <2>4. QED
    BY <1>k, <1>1, <2>1, <2>2, <2>3, CallMoves
<1>3. CASE Return(c)
  BY <1>k, <1>3, ReturnMoves
<1>4. QED
  BY <1>2, <1>3 DEF PhotoDownload

-----------------------------------------------------------------------------
LEMMA InitHolds == Init => Inv /\ started = 0
<1> SUFFICES ASSUME Init PROVE Inv /\ started = 0
  OBVIOUS
<1>1. Initial \in Value /\ Initial.held = "kept" /\ FileLink \in Value /\ Nobody \in Origin /\ Backed(Nobody)
  BY FileLinkValue DEF Initial, Value
<1>2. /\ profile = [f \in Fields |-> Stored(IF f = Photo THEN FileLink ELSE Initial, Nobody)]
      /\ file = [content |-> Before, by |-> Nobody]
      /\ req = [i \in Ids |-> NoRequest]
      /\ asked = [i \in Ids |-> [s \in Sides |-> Before]]
      /\ seen = [i \in Ids |-> [s \in Sides |-> Missing]]
      /\ call = [c \in Calls |-> NoCall] /\ started = 0
  BY DEF Init
<1>3. ASSUME NEW f \in Fields
      PROVE  profile[f] \in ProfileRecord /\ profile[f].by = Nobody
  BY <1>1, <1>2, StoredBy
<1>4. ProfileTyped /\ Origins
  BY <1>1, <1>2, <1>3 DEF ProfileTyped, FileRecord, Origins
<1>5. NoRequest \in RequestRecord /\ NoRequest.st = "none" /\ NoRequest.new.held = "kept"
  BY <1>1, Constants DEF NoRequest, RequestRecord
<1>6. \A i \in Ids : req[i] = NoRequest
  BY <1>2
<1>7. RequestsTyped
  BY <1>2, <1>5 DEF RequestsTyped
<1>8. InOrder
  <2>1. 0 \in 0..MaxRequests
    BY Constants
  <2>2. \A i \in Ids : ~(i <= 0)
    BY DEF Ids
  <2>3. \A i \in Ids : req[i].st # "none" <=> i <= 0
    BY <1>5, <1>6, <2>2
  <2>4. QED
    BY <2>1, <2>3 DEF InOrder
<1>9. DataIsPhoto
  BY <1>5, <1>6 DEF DataIsPhoto
<1>10. PhotosKept
  BY <1>2, <1>5, <1>6 DEF PhotosKept, InTable
<1>11. CallsKnow
  BY <1>2, NoCallKnows DEF CallsKnow
<1>12. QED
  BY <1>2, <1>4, <1>7, <1>8, <1>9, <1>10, <1>11 DEF Inv, Requests

LEMMA StepHolds == Inv /\ [Next]_vars => Inv'
<1> SUFFICES ASSUME Inv, [Next]_vars PROVE Inv'
  OBVIOUS
<1>1. ASSUME NEW c \in Calls, Start(c) PROVE Inv'
  <2>1. ASSUME NEW fs \in SUBSET Fields \ {{}}, SubmitStart(c, fs) PROVE Inv'
    BY <2>1, SubmitStartKeeps
  <2>2. ASSUME NEW is \in SUBSET Ids \ {{}}, ApproveStart(c, is) PROVE Inv'
    BY <2>2, ApproveStartKeeps
  <2>3. ASSUME NEW i \in Ids, RejectStart(c, i) \/ DeleteRequest(c, i) \/ \E side \in Sides : ViewStart(c, i, side)
        PROVE  Inv'
    BY <2>3, RejectStartKeeps, DeleteKeeps, ViewStartKeeps
  <2>4. CASE MigrateStart(c)
    BY <2>4, MigrateStartKeeps
  <2>5. ASSUME NEW f \in Fields, NEW v \in Contents, HREdit(c, f, v) PROVE Inv'
    BY <2>5, HREditKeeps
  <2>6. CASE PhotoStart(c, {"data"}, "uploadPhoto") \/ PhotoStart(c, {"kept", "file"}, "download")
    BY <2>6, PhotoStartKeeps
  <2>7. QED
    BY <1>1, <2>1, <2>2, <2>3, <2>4, <2>5, <2>6 DEF Start
<1>2. ASSUME NEW c \in Calls, Continue(c) PROVE Inv'
  BY <1>2, SubmitInsertKeeps, ApproveFindKeeps, ApproveUploadKeeps, ApproveApplyKeeps, ApproveMarkKeeps,
     RejectUpdateKeeps, ViewFetchKeeps, MigrateOldKeeps, MigrateNewKeeps, SavesKeep, PhotoUploadKeeps,
     PhotoDownloadKeeps DEF Continue
<1>3. ASSUME NEW i \in Ids, NEW side \in Sides, CacheExpires(i, side) PROVE Inv'
  BY <1>3, CacheExpiresKeeps
<1>4. CASE UNCHANGED vars
  <2>1. UNCHANGED <<profile, file, req, asked, seen, call>>
    BY <1>4 DEF vars
  <2>2. Requests'
    BY <2>1, RequestsStay
  <2>3. ProfileTyped' /\ Origins'
    BY <2>1 DEF Inv, ProfileTyped, Origins, Backed, Backing
  <2>4. CallsKnow'
    BY <2>1 DEF Inv, CallsKnow, Argued, Carries, Faithful, Listed, InTable, Backed, Backing
  <2>5. QED
    BY <2>2, <2>3, <2>4 DEF Inv
<1>5. QED
  BY <1>1, <1>2, <1>3, <1>4 DEF Next

LEMMA AlwaysHolds == Spec => []Inv
BY InitHolds, StepHolds, PTL DEF Spec

Counted == started \in 0..MaxStarts

LEMMA AlwaysCounted == Spec => []Counted
<1>1. Init => Counted
  BY ChangeRequestsAssumption, InitHolds DEF Counted
<1>2. Counted /\ [Next]_vars => Counted'
  <2> SUFFICES ASSUME Counted, [Next]_vars PROVE Counted'
    OBVIOUS
  <2>1. started' = started \/ (started < MaxStarts /\ started' = started + 1)
    BY DEF Next, vars
  <2>2. QED
    BY <2>1, ChangeRequestsAssumption DEF Counted
<1>3. QED
  BY <1>1, <1>2, PTL DEF Spec

\* The tables, the cache of photos and the calls in progress hold values of
\* their types (ChangeRequestService.ts; EmployeeService.ts).
THEOREM TypesHold == Spec => []TypeOK
<1>1. Inv /\ Counted => TypeOK
  BY DEF Inv, ProfileTyped, Requests, RequestsTyped, CallsKnow, ProfileRecord, FileRecord, RequestRecord, TypeOK, Counted
<1>2. QED
  BY <1>1, AlwaysHolds, AlwaysCounted, PTL

\* What the profile shows and a request put there is approved, or about to be,
\* however approvals, rejections, deletions, failing updates and the photo jobs
\* interleave (ChangeRequestService.ts approveRequest, rejectRequest, bulkApprove).
THEOREM OnlyApprovedShown == Spec => []ProfileBacked
<1>1. Inv => ProfileBacked
  <2> SUFFICES ASSUME Inv, NEW f \in Fields,
                      NEW i, i = ShownBy(profile[f], profile[f].by), i \in Ids
               PROVE  req[i].st \in {"approved", "deleted"} \/ Approving(i)
    BY DEF ProfileBacked
  <2>1. Backed(i)
    BY DEF Inv, Origins, ShownBy
  <2>2. QED
    BY <2>1 DEF Backed, Backing, Over, Approving
<1>2. QED
  BY <1>1, AlwaysHolds, PTL

\* HR reviews the photos a request was made with: neither the migration nor the
\* cache ever shows another (ChangeRequestService.ts getAvatarImageBinary,
\* migrateAvatarsToSharePoint).
THEOREM ReviewShowsRequested == Spec => []ShowsItsPhotos
<1>1. Inv => ShowsItsPhotos
  BY DEF Inv, Requests, PhotosKept, ShowsItsPhotos
<1>2. QED
  BY <1>1, AlwaysHolds, PTL

=============================================================================
