----------------------------- MODULE ImageProofs -----------------------------
(***************************************************************************)
(* Theorems about the product-image pipeline, for any number of items,     *)
(* requests, jobs and faults.                                              *)
(***************************************************************************)
EXTENDS ImageProperties, TLAPS

-----------------------------------------------------------------------------
(* The type invariant, strengthened: a slot that holds a message names an   *)
(* item, without which a step that reads row[...] has no type.              *)

GoodReq(q) ==
  /\ q \in Req
  /\ q.pc \notin {"unsent", "done"} /\ q.op # "create" => q.item \in Items
  /\ q.pc \in {"find", "exists", "delImg", "delTemp", "delRow"} =>
       q.op # "create"
  /\ q.op = "create" => q.old = NoKey

GoodCall(m) == m \in CallRec /\ (m.pc # "none" => m.item \in Items)

GoodJob(m) == m \in JobRec /\ (m.pc # "idle" => m.item \in Items)

RowsTyped  == row \in [Items -> Row] /\ created \subseteq Items
ReqsTyped  == req \in [Requests -> Req] /\ \A r \in Requests : GoodReq(req[r])
CallsTyped == call \in [Calls -> CallRec] /\ \A c \in Calls : GoodCall(call[c])
JobsTyped  == job \in [Jobs -> JobRec] /\ \A j \in Jobs : GoodJob(job[j])

(* An RPC with somebody to answer to has exactly one job waiting for it. *)
RepliesMatched ==
  \A c \in Calls : call[c].from # NoJob =>
    /\ job[call[c].from].pc = "wait"
    /\ \A d \in Calls : call[d].from = call[c].from => d = c

Typed ==
  /\ StorageTypeOK
  /\ RowsTyped
  /\ ReqsTyped
  /\ CallsTyped
  /\ JobsTyped
  /\ RepliesMatched
  /\ faults \subseteq Faults

LEMMA TypedImpliesTypeOK == Typed => TypeOK
  BY DEF Typed, TypeOK, WardrobeTypeOK, RowsTyped, ReqsTyped, CallsTyped,
         JobsTyped

-----------------------------------------------------------------------------
(* Lemmas about the operators the actions are built from. *)

LEMMA NewKeyType ==
  UnusedKeys # {} => NewKey \in Keys /\ prefix[NewKey] = "none"
  BY DEF UnusedKeys, NewKey

LEMMA FreeJobType ==
  FreeJobs # {} => FreeJob \in Jobs /\ job[FreeJob].pc = "idle"
  BY DEF FreeJobs, FreeJob

LEMMA UploadType ==
  ASSUME StorageTypeOK, NEW p \in {"tmp", "user"}, Upload(p)
  PROVE  StorageTypeOK' /\ NewKey \in Keys
  BY NewKeyType DEF StorageTypeOK, Upload

LEMMA DeleteObjectType ==
  ASSUME StorageTypeOK, NEW k, DeleteObject(k)
  PROVE  StorageTypeOK'
  BY DEF StorageTypeOK, DeleteObject

LEMMA FaultType ==
  ASSUME faults \subseteq Faults, NEW kind, Fault(kind) \/ TimedOut
  PROVE  (faults \subseteq Faults)'
  BY DEF Fault, TimedOut

LEMMA BlankTypes ==
  /\ NoRow \in Row /\ NewEntity \in Row
  /\ Unsent \in Req /\ Unsent.pc = "unsent"
  /\ Done \in Req /\ Done.pc = "done" /\ Done.old = NoKey
  /\ NoCall \in CallRec /\ NoCall.pc = "none"
  /\ IdleJob \in JobRec /\ IdleJob.pc = "idle"
<1>1. NoRow \in Row /\ NewEntity \in Row
  BY DEF NoRow, NewEntity, Row
<1>2. Unsent \in Req /\ Unsent.pc = "unsent"
  BY <1>1 DEF Unsent, Message, PhotoStep, Req, ReqPc
<1>3. Done \in Req /\ Done.pc = "done" /\ Done.old = NoKey
  BY <1>2 DEF Done, Unsent, Message, Req, ReqPc
<1>4. NoCall \in CallRec /\ NoCall.pc = "none"
  BY DEF NoCall, CallRec
<1>5. IdleJob \in JobRec /\ IdleJob.pc = "idle"
  BY DEF IdleJob, JobRec
<1> QED
  BY <1>1, <1>2, <1>3, <1>4, <1>5

LEMMA PhotoStepType ==
  ASSUME NEW photo \in {"none", "plain", "generate"}
  PROVE  PhotoStep(photo) \in {"save", "storeTmp", "storeImg"}
  BY DEF PhotoStep

LEMMA MessageType ==
  ASSUME NEW op \in {"create", "update", "retry", "delete"},
         NEW photo \in {"none", "plain", "generate"},
         NEW i \in Items \cup {NoItem},
         op # "create" => i \in Items
  PROVE  GoodReq(Message(op, photo, i))
<1>1. Message(op, photo, i).pc \in {"find", "save", "storeTmp", "storeImg"}
  BY PhotoStepType DEF Message
<1>2. Message(op, photo, i) \in Req
  BY <1>1, BlankTypes DEF Message, Req, ReqPc
<1>3. /\ Message(op, photo, i).op = op /\ Message(op, photo, i).item = i
      /\ Message(op, photo, i).old = NoKey
  BY DEF Message
<1>4. op = "create" => Message(op, photo, i).pc \in {"save", "storeTmp", "storeImg"}
  BY PhotoStepType DEF Message
<1> QED
  BY <1>1, <1>2, <1>3, <1>4 DEF GoodReq

(* A handler's next state, whichever locals a step changes. *)
LEMMA LocalsType ==
  ASSUME NEW q \in Req, NEW pc \in ReqPc, NEW e \in Row,
         NEW k \in Keys \cup {NoKey}
  PROVE  /\ [q EXCEPT !.pc = pc] \in Req
         /\ [q EXCEPT !.pc = pc, !.entity = e] \in Req
         /\ [q EXCEPT !.pc = pc, !.entity = e, !.old = k] \in Req
  BY DEF Req

(* One request changes: the others keep their types. *)
LEMMA ReqStep ==
  ASSUME ReqsTyped, NEW r \in Requests, NEW q, GoodReq(q),
         req' = [req EXCEPT ![r] = q]
  PROVE  ReqsTyped'
  BY DEF ReqsTyped, GoodReq

LEMMA JobStep ==
  ASSUME JobsTyped, NEW j \in Jobs, NEW m, GoodJob(m),
         job' = [job EXCEPT ![j] = m]
  PROVE  JobsTyped'
  BY DEF JobsTyped, GoodJob

LEMMA CallStep ==
  ASSUME CallsTyped, NEW c \in Calls, NEW m, GoodCall(m),
         call' = [call EXCEPT ![c] = m]
  PROVE  CallsTyped'
  BY DEF CallsTyped, GoodCall

LEMMA AckedType ==
  ASSUME ReqsTyped, NEW r \in Requests, Acked(r)
  PROVE  ReqsTyped'
  BY ReqStep, BlankTypes DEF Acked, GoodReq

(* Only a create may lack an item, and it never reaches a step that needs one. *)
LEMMA GotoType ==
  ASSUME ReqsTyped, NEW r \in Requests, NEW pc \in ReqPc, Goto(r, pc),
         req[r].pc \notin {"unsent", "done"},
         pc \in {"find", "exists", "delImg", "delTemp", "delRow"} =>
           req[r].op # "create"
  PROVE  ReqsTyped'
<1> DEFINE q == [req[r] EXCEPT !.pc = pc]
<1>1. req[r] \in Req
  BY DEF ReqsTyped
<1>2. /\ q \in Req /\ q.pc = pc /\ q.item = req[r].item
      /\ q.op = req[r].op /\ q.old = req[r].old
  BY <1>1 DEF Req
<1>3. GoodReq(q)
  BY <1>2 DEF GoodReq, ReqsTyped
<1>4. req' = [req EXCEPT ![r] = q]
  BY DEF Goto
<1> QED
  BY <1>3, <1>4, ReqStep

LEMMA LoadType ==
  ASSUME ReqsTyped, RowsTyped, NEW r \in Requests, NEW pc \in ReqPc,
         req[r].item \in Items, req[r].op # "create", Load(r, pc)
  PROVE  ReqsTyped'
<1> DEFINE q == [req[r] EXCEPT !.pc = pc, !.entity = row[req[r].item],
                               !.old = row[req[r].item].temp]
<1>1. req[r] \in Req /\ row[req[r].item] \in Row
  BY DEF ReqsTyped, RowsTyped
<1>2. row[req[r].item].temp \in Keys \cup {NoKey}
  BY <1>1 DEF Row
<1>3. q \in Req /\ q.item = req[r].item /\ q.op = req[r].op
  BY <1>1, <1>2 DEF Req
<1>4. GoodReq(q)
  BY <1>3 DEF GoodReq
<1>5. req' = [req EXCEPT ![r] = q]
  BY DEF Load
<1> QED
  BY <1>4, <1>5, ReqStep

(* The answered call `m` no longer has anybody to answer to. *)
LEMMA AnswerType ==
  ASSUME CallsTyped, JobsTyped, RepliesMatched, NEW c \in Calls,
         NEW outcome, Answer(c, outcome),
         NEW m, m.from = NoJob, call' = [call EXCEPT ![c] = m]
  PROVE  JobsTyped' /\ RepliesMatched'
<1> DEFINE j == call[c].from
           next == AfterOutcome(call[c].status, outcome)
           n == IF next = "idle" THEN IdleJob ELSE [job[j] EXCEPT !.pc = next]
<1>1. next \in {"idle", "cleanup", "discard", "discardGone"}
  BY DEF AfterOutcome
<1>2. call[c] \in CallRec
  BY DEF CallsTyped
<1>3. j \in Jobs \cup {NoJob}
  BY <1>2 DEF CallRec
<1>4. CASE j = NoJob
  <2>1. job' = job
    BY <1>4 DEF Answer
  <2>2. JobsTyped'
    BY <2>1 DEF JobsTyped, GoodJob
  <2>3. RepliesMatched'
    BY <2>1 DEF RepliesMatched, CallsTyped
  <2> QED
    BY <2>2, <2>3
<1>5. CASE j # NoJob
  <2>1. j \in Jobs /\ job' = [job EXCEPT ![j] = n]
    BY <1>3, <1>5 DEF Answer
  <2>2. job[j] \in JobRec /\ job[j].pc = "wait" /\ job[j].item \in Items
    BY <1>5, <2>1 DEF JobsTyped, GoodJob, RepliesMatched
  <2>3. next = "idle" => GoodJob(n)
    BY BlankTypes DEF GoodJob
  <2>4. next # "idle" => GoodJob(n)
    BY <1>1, <2>2 DEF GoodJob, JobRec
  <2>5. JobsTyped'
    BY <2>1, <2>3, <2>4, JobStep
  <2>6. \A x \in Jobs : x # j => job'[x] = job[x]
    BY <2>1 DEF JobsTyped
  <2>7. \A d \in Calls : d # c => call'[d] = call[d] /\ call[d].from # j
    BY <1>5 DEF RepliesMatched, CallsTyped
  <2>8. call'[c].from = NoJob
    BY DEF CallsTyped
  <2>9. \A d \in Calls : call[d].from \in Jobs \cup {NoJob}
    BY DEF CallsTyped, CallRec
  <2>10. RepliesMatched'
    BY <2>6, <2>7, <2>8, <2>9 DEF RepliesMatched
  <2> QED
    BY <2>5, <2>10
<1> QED
  BY <1>4, <1>5

(* A step of one job that does not start or end its wait keeps the match. *)
LEMMA MatchStep ==
  ASSUME CallsTyped, JobsTyped, RepliesMatched, UNCHANGED call,
         NEW j \in Jobs, NEW m, job[j].pc # "wait",
         job' = [job EXCEPT ![j] = m]
  PROVE  RepliesMatched'
  BY DEF RepliesMatched, JobsTyped, CallsTyped, CallRec

(* Nor does a step that makes calls answer to nobody, or none at all. *)
LEMMA MatchKept ==
  ASSUME RepliesMatched, UNCHANGED job,
         \A c \in Calls : call'[c].from \in {call[c].from, NoJob}
  PROVE  RepliesMatched'
  BY DEF RepliesMatched

LEMMA EmitType ==
  ASSUME CallsTyped, JobsTyped, RepliesMatched, UNCHANGED call,
         faults \subseteq Faults, NEW i \in Items,
         NEW k \in Keys \cup {NoKey}, Emit(i, k)
  PROVE  JobsTyped' /\ RepliesMatched' /\ (faults \subseteq Faults)'
<1> DEFINE m == [IdleJob EXCEPT !.pc = "queued", !.item = i, !.temp = k]
<1>1. GoodJob(m)
  BY DEF IdleJob, JobRec, GoodJob
<1>2. CASE FreeJobs # {} /\ job' = [job EXCEPT ![FreeJob] = m] /\ UNCHANGED faults
  <2>1. FreeJob \in Jobs /\ job[FreeJob].pc # "wait"
    BY <1>2, FreeJobType
  <2> QED
    BY <1>1, <1>2, <2>1, JobStep, MatchStep
<1>3. CASE Fault("publish") /\ UNCHANGED job
  BY <1>3, FaultType DEF JobsTyped, GoodJob, RepliesMatched
<1> QED
  BY <1>2, <1>3 DEF Emit

-----------------------------------------------------------------------------
(* Init and every action keep Typed. *)

LEMMA TypedInit == Init => Typed
<1> SUFFICES ASSUME Init PROVE Typed
  OBVIOUS
<1>1. StorageTypeOK
  BY DEF Init, StorageInit, StorageTypeOK
<1>2. RowsTyped /\ faults \subseteq Faults
  BY BlankTypes DEF Init, WardrobeInit, RowsTyped
<1>3. Unsent.op = "create" /\ Unsent.old = NoKey
  BY DEF Unsent, Message
<1>4. ReqsTyped
  BY <1>3, BlankTypes DEF Init, WardrobeInit, ReqsTyped, GoodReq
<1>5. CallsTyped /\ JobsTyped
  BY BlankTypes DEF Init, WardrobeInit, CallsTyped, JobsTyped, GoodCall, GoodJob
<1>6. RepliesMatched
  BY DEF Init, WardrobeInit, RepliesMatched, NoCall
<1> QED
  BY <1>1, <1>2, <1>4, <1>5, <1>6 DEF Typed

(* What an action leaves alone keeps its part of Typed. *)
LEMMA Frame ==
  ASSUME Typed
  PROVE  /\ UNCHANGED storageVars => StorageTypeOK'
         /\ UNCHANGED <<row, created>> => RowsTyped'
         /\ UNCHANGED req => ReqsTyped'
         /\ UNCHANGED call => CallsTyped'
         /\ UNCHANGED job => JobsTyped'
         /\ UNCHANGED <<call, job>> => RepliesMatched'
         /\ UNCHANGED faults => (faults \subseteq Faults)'
  BY DEF Typed, RepliesMatched, storageVars, StorageTypeOK, RowsTyped, ReqsTyped, CallsTyped,
         JobsTyped, GoodReq, GoodCall, GoodJob

LEMMA TypedSubmit ==
  ASSUME Typed, Submit
  PROVE  Typed'
<1>1. PICK r \in Requests, op \in Ops, photo \in Photos \cup {"none"},
           i \in created \cup {NoItem} :
        /\ op = "create" <=> i = NoItem
        /\ req' = [req EXCEPT ![r] = Message(op, photo, i)]
  BY DEF Submit
<1>2. /\ op \in {"create", "update", "retry", "delete"}
      /\ photo \in {"none", "plain", "generate"}
      /\ i \in Items \cup {NoItem}
      /\ op # "create" => i \in Items
  BY <1>1, PipelineAssumption DEF Typed, RowsTyped
<1>3. GoodReq(Message(op, photo, i))
  BY <1>2, MessageType
<1>4. ReqsTyped'
  BY <1>1, <1>3, ReqStep DEF Typed
<1> QED
  BY <1>4, Frame DEF Submit, Typed

LEMMA TypedFinds ==
  ASSUME Typed, NEW r \in Requests,
         FindMissing(r) \/ RetryFind(r) \/ UpdateFind(r) \/ DeleteFind(r)
  PROVE  Typed'
<1>1. /\ ReqsTyped /\ RowsTyped /\ GoodReq(req[r]) /\ req[r].pc = "find"
      /\ req[r].item \in Items /\ req[r].op # "create"
  BY DEF Typed, ReqsTyped, GoodReq, FindMissing, RetryFind, UpdateFind,
         DeleteFind
<1>2. req[r].photo \in {"none", "plain", "generate"}
  BY <1>1 DEF GoodReq, Req
<1>3. CASE FindMissing(r)
  BY <1>1, <1>3, GotoType, Frame DEF FindMissing, Unacked, Typed, ReqPc
<1>4. CASE RetryFind(r)
  BY <1>1, <1>4, LoadType, AckedType, Frame DEF RetryFind, Typed, ReqPc
<1>5. CASE UpdateFind(r)
  BY <1>1, <1>2, <1>5, LoadType, PhotoStepType, Frame
  DEF UpdateFind, Typed, ReqPc
<1>6. CASE DeleteFind(r)
  BY <1>1, <1>6, LoadType, Frame DEF DeleteFind, DropOriginal, Typed, ReqPc
<1> QED
  BY <1>3, <1>4, <1>5, <1>6

LEMMA TypedCheckOriginal ==
  ASSUME Typed, NEW r \in Requests, CheckOriginal(r)
  PROVE  Typed'
<1> DEFINE e == AwaitingImage(req[r].entity, req[r].entity.temp)
           q == [req[r] EXCEPT !.pc = "save", !.entity = e]
<1>1. /\ ReqsTyped /\ req[r] \in Req /\ req[r].op # "create"
      /\ req[r].item \in Items
  BY DEF Typed, ReqsTyped, GoodReq, CheckOriginal
<1>2. e \in Row
  BY <1>1 DEF AwaitingImage, Req, Row
<1>3. q \in Req /\ q.pc = "save" /\ q.op = req[r].op /\ q.item = req[r].item
  BY <1>1, <1>2 DEF Req, ReqPc
<1>6. GoodReq(q)
  BY <1>1, <1>3 DEF GoodReq
<1>4. CASE req' = [req EXCEPT ![r].pc = "save", ![r].entity = e]
  <2>1. req' = [req EXCEPT ![r] = q]
    BY <1>1, <1>4 DEF ReqsTyped
  <2>2. ReqsTyped'
    BY <2>1, <1>1, <1>6, ReqStep
  <2> QED
    BY <2>2, Frame, FaultType DEF CheckOriginal, Typed
<1>5. CASE Acked(r)
  BY <1>1, <1>5, AckedType, Frame, FaultType DEF CheckOriginal, Typed
<1> QED
  BY <1>4, <1>5 DEF CheckOriginal

LEMMA TypedDeleteImage ==
  ASSUME Typed, NEW r \in Requests, DeleteImage(r)
  PROVE  Typed'
<1>1. GoodReq(req[r]) /\ req[r].pc = "delImg" /\ req[r].op # "create"
  BY DEF Typed, ReqsTyped, GoodReq, DeleteImage
<1>2. ReqsTyped'
  BY <1>1, GotoType DEF DeleteImage, DropOriginal, Unacked, Typed, ReqPc
<1>3. StorageTypeOK' /\ (faults \subseteq Faults)'
  BY DeleteObjectType, FaultType, Frame DEF DeleteImage, Typed
<1> QED
  BY <1>2, <1>3, Frame DEF DeleteImage, Typed

LEMMA TypedStorePhoto ==
  ASSUME Typed, NEW r \in Requests, StorePhoto(r)
  PROVE  Typed'
<1>1. GoodReq(req[r]) /\ req[r].pc \in {"storeTmp", "storeImg"}
  BY DEF Typed, ReqsTyped, StorePhoto
<1>2. CASE Fault("storage") /\ Unacked(r) /\ UNCHANGED storageVars
  BY <1>1, <1>2, GotoType, FaultType, Frame
  DEF StorePhoto, Unacked, Typed, ReqPc
<1>3. CASE Upload(PhotoPrefix(req[r].pc)) /\ UNCHANGED faults
  <2> DEFINE e == IF req[r].pc = "storeTmp"
                  THEN AwaitingImage(req[r].entity, NewKey)
                  ELSE ShowingPhoto(req[r].entity, NewKey)
             pc == IF req[r].old # NoKey THEN "delTemp" ELSE "save"
             q == [req[r] EXCEPT !.pc = pc, !.entity = e]
  <2>1. StorageTypeOK' /\ NewKey \in Keys
    BY <1>3, UploadType DEF PhotoPrefix, Typed
  <2>2. e \in Row
    BY <1>1, <2>1 DEF GoodReq, Req, Row, AwaitingImage, ShowingPhoto
  <2>3. q \in Req /\ q.pc = pc /\ q.op = req[r].op /\ q.old = req[r].old
        /\ q.item = req[r].item
    BY <1>1, <2>2 DEF GoodReq, Req, ReqPc
  <2>4. GoodReq(q)
    BY <1>1, <2>3 DEF GoodReq
  <2>5. CASE req' = [req EXCEPT ![r] = q]
    <3>1. ReqsTyped'
      BY <2>4, <2>5, ReqStep DEF Typed
    <3> QED
      BY <1>3, <2>1, <3>1, Frame DEF StorePhoto, Typed
  <2>6. CASE Unacked(r) /\ Fault("storage")
    BY <1>1, <1>3, <2>1, <2>6, GotoType, FaultType, Frame
    DEF StorePhoto, Unacked, Typed, ReqPc
  <2> QED
    BY <2>5, <2>6 DEF StorePhoto
<1> QED
  BY <1>2, <1>3 DEF StorePhoto

LEMMA TypedDeleteOriginal ==
  ASSUME Typed, NEW r \in Requests, DeleteOriginal(r)
  PROVE  Typed'
<1>1. GoodReq(req[r]) /\ req[r].pc = "delTemp" /\ req[r].op # "create"
  BY DEF Typed, ReqsTyped, GoodReq, DeleteOriginal
<1>2. ReqsTyped'
  BY <1>1, GotoType DEF DeleteOriginal, Typed, ReqPc
<1>3. StorageTypeOK' /\ (faults \subseteq Faults)'
  BY DeleteObjectType, FaultType, Frame DEF DeleteOriginal, Typed
<1> QED
  BY <1>2, <1>3, Frame DEF DeleteOriginal, Typed

LEMMA TypedSave ==
  ASSUME Typed, NEW r \in Requests, Save(r)
  PROVE  Typed'
<1>1. GoodReq(req[r]) /\ req[r].pc = "save" /\ Goto(r, "reply")
  BY DEF Typed, ReqsTyped, Save
<1>2. PICK i \in Items :
        /\ row' = [row EXCEPT ![i] = req[r].entity]
        /\ created' = created \cup {i}
        /\ \/ Emit(i, req[r].entity.temp)
           \/ UNCHANGED <<job, faults>>
  BY DEF Save
<1>3. req[r].entity \in Row /\ req[r].entity.temp \in Keys \cup {NoKey}
  BY <1>1 DEF GoodReq, Req, Row
<1>4. RowsTyped'
  BY <1>2, <1>3 DEF Typed, RowsTyped
<1>5. ReqsTyped'
  BY <1>1, GotoType DEF Typed, ReqPc
<1>6. UNCHANGED <<storageVars, call>>
  BY DEF Save
<1>7. JobsTyped' /\ RepliesMatched' /\ (faults \subseteq Faults)'
  BY <1>2, <1>3, <1>6, EmitType, Frame DEF Typed
<1> QED
  BY <1>4, <1>5, <1>6, <1>7, Frame DEF Typed

LEMMA TypedReply ==
  ASSUME Typed, NEW r \in Requests, Reply(r)
  PROVE  Typed'
<1>1. GoodReq(req[r]) /\ req[r].pc = "reply"
  BY DEF Typed, ReqsTyped, Reply
<1>2. ReqsTyped'
  BY <1>1, GotoType, AckedType DEF Reply, Unacked, Typed, ReqPc
<1>3. (faults \subseteq Faults)'
  BY FaultType, Frame DEF Reply, Typed
<1> QED
  BY <1>2, <1>3, Frame DEF Reply, Typed

LEMMA TypedDeleteRow ==
  ASSUME Typed, NEW r \in Requests, DeleteRow(r)
  PROVE  Typed'
<1>1. RowsTyped'
  BY BlankTypes DEF DeleteRow, Typed, RowsTyped
<1>2. ReqsTyped'
  BY AckedType DEF DeleteRow, Typed
<1> QED
  BY <1>1, <1>2, Frame DEF DeleteRow, Typed

LEMMA TypedApplyUpdate ==
  ASSUME Typed, NEW c \in Calls, ApplyUpdate(c)
  PROVE  Typed'
<1> DEFINE i == call[c].item
           e == WithResult(row[i], call[c].status, call[c].img)
           m == [call[c] EXCEPT !.pc = "applied", !.prev = Replaced(row[i], e)]
           n == [call[c] EXCEPT !.pc = "missed"]
<1>1. /\ CallsTyped /\ RowsTyped /\ GoodCall(call[c]) /\ i \in Items
      /\ row[i] \in Row
  BY DEF Typed, CallsTyped, RowsTyped, GoodCall, ApplyUpdate
<1>2. e \in Row
  BY <1>1 DEF GoodCall, CallRec, WithResult, Row
<1>3. Replaced(row[i], e) \in Keys \cup {NoKey}
  BY <1>1, <1>2 DEF Replaced, Row
<1>4. m \in CallRec /\ m.item = i /\ m.from = call[c].from
  BY <1>1, <1>3 DEF GoodCall, CallRec
<1>5. n \in CallRec /\ n.item = i /\ n.from = call[c].from
  BY <1>1 DEF GoodCall, CallRec
<1>6. GoodCall(m) /\ GoodCall(n)
  BY <1>1, <1>4, <1>5 DEF GoodCall
<1>7. call' = [call EXCEPT ![c] = m] \/ call' = [call EXCEPT ![c] = n]
  BY <1>1 DEF ApplyUpdate, CallsTyped
<1>8. CallsTyped'
  BY <1>1, <1>6, <1>7, CallStep
<1>9. RowsTyped'
  BY <1>1, <1>2 DEF ApplyUpdate, RowsTyped
<1>10. \A d \in Calls : call'[d].from = call[d].from
  BY <1>1, <1>4, <1>5, <1>7 DEF CallsTyped
<1>11. RepliesMatched'
  BY <1>10, MatchKept DEF ApplyUpdate, Typed
<1> QED
  BY <1>8, <1>9, <1>11, Frame DEF ApplyUpdate, Typed

LEMMA TypedApplyLookup ==
  ASSUME Typed, NEW c \in Calls, ApplyLookup(c)
  PROVE  Typed'
<1>1. NoCall.from = NoJob /\ GoodCall(NoCall)
  BY BlankTypes DEF NoCall, GoodCall
<1>2. CallsTyped'
  BY <1>1, CallStep DEF ApplyLookup, Typed
<1>3. PICK outcome \in {"not_found", "not_pending"} : Answer(c, outcome)
  BY DEF ApplyLookup
<1>4. JobsTyped' /\ RepliesMatched'
  BY <1>1, <1>3, AnswerType DEF ApplyLookup, Typed
<1> QED
  BY <1>2, <1>4, Frame DEF ApplyLookup, Typed

LEMMA TypedApplyFinish ==
  ASSUME Typed, NEW c \in Calls, ApplyFinish(c)
  PROVE  Typed'
<1> DEFINE m == [call[c] EXCEPT !.pc = "unacked", !.from = NoJob]
<1>1. CallsTyped /\ GoodCall(call[c]) /\ call[c].item \in Items
  BY DEF Typed, CallsTyped, GoodCall, ApplyFinish
<1>2. NoCall.from = NoJob /\ GoodCall(NoCall)
  BY BlankTypes DEF NoCall, GoodCall
<1>3. m \in CallRec /\ m.item = call[c].item /\ m.from = NoJob
  BY <1>1 DEF GoodCall, CallRec
<1>4. GoodCall(m)
  BY <1>1, <1>3 DEF GoodCall
<1>5. CASE /\ Answer(c, "applied")
           /\ call' = [call EXCEPT ![c] = NoCall]
           /\ UNCHANGED faults
  <2>1. CallsTyped'
    BY <1>1, <1>2, <1>5, CallStep
  <2>2. JobsTyped' /\ RepliesMatched'
    BY <1>2, <1>5, AnswerType DEF Typed
  <2> QED
    BY <1>5, <2>1, <2>2, DeleteObjectType, Frame DEF ApplyFinish, Typed
<1>6. CASE /\ Fault("storage")
           /\ Answer(c, "error")
           /\ call' = [call EXCEPT ![c].pc = "unacked", ![c].from = NoJob]
           /\ UNCHANGED storageVars
  <2>1. call' = [call EXCEPT ![c] = m]
    BY <1>1, <1>6 DEF CallsTyped
  <2>2. CallsTyped'
    BY <1>1, <1>4, <2>1, CallStep
  <2>3. JobsTyped' /\ RepliesMatched'
    BY <1>3, <1>6, <2>1, AnswerType DEF Typed
  <2> QED
    BY <1>6, <2>2, <2>3, FaultType, Frame DEF ApplyFinish, Typed
<1> QED
  BY <1>5, <1>6 DEF ApplyFinish

LEMMA TypedClock ==
  ASSUME Typed, Sweep \/ \E i \in Items : BecomeStale(i)
  PROVE  Typed'
<1>1. RowsTyped
  BY DEF Typed
<1>2. \A i \in Items : GivenUp(row[i]) \in Row
  BY <1>1 DEF RowsTyped, GivenUp, Row
<1>3. \A i \in Items : [row[i] EXCEPT !.since = "stale"] \in Row
  BY <1>1 DEF RowsTyped, Row
<1>4. CASE Sweep
  <2>1. row' \in [Items -> Row]
    BY <1>1, <1>2, <1>4 DEF Sweep, RowsTyped
  <2> QED
    BY <1>1, <1>4, <2>1, Frame DEF Sweep, Typed, RowsTyped
<1>5. ASSUME NEW i \in Items, BecomeStale(i) PROVE Typed'
  <2>1. row' = [row EXCEPT ![i] = [row[i] EXCEPT !.since = "stale"]]
    BY <1>1, <1>5 DEF BecomeStale, RowsTyped
  <2>2. RowsTyped'
    BY <1>1, <1>3, <1>5, <2>1 DEF BecomeStale, RowsTyped
  <2> QED
    BY <1>5, <2>2, Frame DEF BecomeStale, Typed
<1> QED
  BY <1>4, <1>5

(* Every message the crash puts back is one its handler can start on. *)
LEMMA TypedWardrobeCrash ==
  ASSUME Typed, WardrobeCrash
  PROVE  Typed'
<1> DEFINE Again(r) == Message(req[r].op, req[r].photo,
                         IF req[r].op = "create" THEN NoItem ELSE req[r].item)
           Resent(c) == [call[c] EXCEPT !.pc = "sent", !.prev = NoKey]
<1>1. ASSUME NEW r \in Requests PROVE GoodReq(req'[r])
  <2>1. GoodReq(req[r]) /\ req[r] \in Req
    BY DEF Typed, ReqsTyped
  <2>2. CASE req[r].pc \in {"unsent", "done"}
    BY <2>1, <2>2 DEF WardrobeCrash
  <2>3. CASE req[r].pc \notin {"unsent", "done"}
    <3>1. /\ req[r].op \in {"create", "update", "retry", "delete"}
          /\ req[r].photo \in {"none", "plain", "generate"}
          /\ req[r].op # "create" => req[r].item \in Items
      BY <2>1, <2>3 DEF GoodReq, Req
    <3>2. GoodReq(Again(r))
      BY <3>1, MessageType
    <3> QED
      BY <2>3, <3>2 DEF WardrobeCrash
  <2> QED
    BY <2>2, <2>3
<1>2. ReqsTyped'
  <2>1. req' = [r \in Requests |-> req'[r]]
    BY DEF WardrobeCrash
  <2>2. req' \in [Requests -> Req]
    BY <1>1, <2>1 DEF GoodReq
  <2> QED
    BY <1>1, <2>2 DEF ReqsTyped
<1>3. ASSUME NEW c \in Calls
      PROVE  GoodCall(call'[c]) /\ call'[c].from \in {call[c].from, NoJob}
  <2>1. call[c] \in CallRec /\ GoodCall(call[c])
    BY DEF Typed, CallsTyped
  <2>2. CASE call[c].pc = "none"
    BY <2>1, <2>2, BlankTypes DEF WardrobeCrash, GoodCall, NoCall
  <2>3. CASE call[c].pc # "none"
    <3>1. /\ Resent(c) \in CallRec /\ Resent(c).item = call[c].item
          /\ Resent(c).from = call[c].from
      BY <2>1 DEF CallRec
    <3>2. GoodCall(Resent(c))
      BY <2>1, <2>3, <3>1 DEF GoodCall
    <3>3. call'[c] = Resent(c)
      BY <2>3 DEF WardrobeCrash
    <3> QED
      BY <3>1, <3>2, <3>3
  <2> QED
    BY <2>2, <2>3
<1>4. CallsTyped'
  <2>1. call' = [c \in Calls |-> call'[c]]
    BY DEF WardrobeCrash
  <2>2. call' \in [Calls -> CallRec]
    BY <1>3, <2>1 DEF GoodCall
  <2> QED
    BY <1>3, <2>2 DEF CallsTyped
<1>5. RepliesMatched'
  BY <1>3, MatchKept DEF WardrobeCrash, Typed
<1> QED
  BY <1>2, <1>4, <1>5, FaultType, Frame DEF WardrobeCrash, Typed

-----------------------------------------------------------------------------
(* The consumer. *)

LEMMA JobGotoType ==
  ASSUME JobsTyped, NEW j \in Jobs, job[j].pc # "idle",
         NEW pc \in {"load", "model", "wait", "queued"}, JobGoto(j, pc)
  PROVE  JobsTyped'
<1> DEFINE m == [job[j] EXCEPT !.pc = pc]
<1>1. GoodJob(job[j])
  BY DEF JobsTyped
<1>2. m \in JobRec /\ m.item = job[j].item
  BY <1>1 DEF GoodJob, JobRec
<1>3. GoodJob(m)
  BY <1>1, <1>2 DEF GoodJob
<1>4. job' = [job EXCEPT ![j] = m]
  BY DEF JobGoto
<1> QED
  BY <1>3, <1>4, JobStep

LEMMA AckJobType ==
  ASSUME JobsTyped, NEW j \in Jobs, AckJob(j)
  PROVE  JobsTyped'
  BY BlankTypes, JobStep DEF AckJob, GoodJob

(* Until it waits, a job has no RPC to answer to, so it may take any step. *)
LEMMA TypedJobStarts ==
  ASSUME Typed, NEW j \in Jobs,
         CheckPending(j) \/ SkipUnreadable(j) \/ LoadOriginal(j)
  PROVE  Typed'
<1>1. JobsTyped /\ job[j].pc \in {"queued", "load"} /\ UNCHANGED call
  BY DEF Typed, CheckPending, SkipUnreadable, LoadOriginal
<1>2. JobGoto(j, "load") \/ JobGoto(j, "model") \/ AckJob(j)
  BY DEF CheckPending, SkipUnreadable, LoadOriginal
<1>3. JobsTyped'
  BY <1>1, <1>2, JobGotoType, AckJobType
<1>4. \E m : job' = [job EXCEPT ![j] = m]
  BY <1>2 DEF JobGoto, AckJob
<1>5. RepliesMatched'
  BY <1>1, <1>4, MatchStep DEF Typed
<1>6. (faults \subseteq Faults)'
  BY FaultType, Frame DEF Typed, CheckPending, SkipUnreadable, LoadOriginal
<1> QED
  BY <1>3, <1>5, <1>6, Frame
  DEF Typed, CheckPending, SkipUnreadable, LoadOriginal

LEMMA TypedSendResult ==
  ASSUME Typed, NEW j \in Jobs, job[j].pc \notin {"idle", "wait"},
         NEW status \in {"ready", "failed"}, NEW img \in Keys \cup {NoKey},
         SendResult(j, status, img),
         UNCHANGED <<storageVars, row, created, req, faults>>
  PROVE  Typed'
<1> DEFINE Free == {c \in Calls : call[c].pc = "none"}
           c == CHOOSE d \in Free : TRUE
           m == [NoCall EXCEPT !.pc = "sent", !.item = job[j].item,
                               !.status = status, !.img = img, !.from = j]
<1>1. c \in Calls /\ call[c].pc = "none" /\ call' = [call EXCEPT ![c] = m]
  BY DEF SendResult
<1>2. JobsTyped /\ CallsTyped /\ RepliesMatched /\ GoodJob(job[j])
  BY DEF Typed, JobsTyped
<1>3. m.from = j /\ GoodCall(m)
  BY <1>2 DEF NoCall, CallRec, GoodCall, GoodJob
<1>4. CallsTyped'
  BY <1>1, <1>2, <1>3, CallStep
<1>5. JobsTyped'
  BY <1>2, JobGotoType DEF SendResult
<1>6. job'[j].pc = "wait" /\ \A x \in Jobs : x # j => job'[x] = job[x]
  <2>1. job[j] \in JobRec
    BY <1>2 DEF GoodJob
  <2>2. [job[j] EXCEPT !.pc = "wait"].pc = "wait"
    BY <2>1 DEF JobRec
  <2> QED
    BY <1>2, <2>2 DEF SendResult, JobGoto, JobsTyped
<1>7. call'[c].from = j /\ \A d \in Calls : d # c => call'[d] = call[d]
  BY <1>1, <1>2, <1>3 DEF CallsTyped
<1>8. \A d \in Calls : call[d].from # j /\ call[d].from \in Jobs \cup {NoJob}
  BY <1>2, PipelineAssumption DEF RepliesMatched, CallsTyped, CallRec
<1>9. RepliesMatched'
  <2> HIDE DEF c
  <2> SUFFICES ASSUME NEW d \in Calls, call'[d].from # NoJob
               PROVE  /\ job'[call'[d].from].pc = "wait"
                      /\ \A e \in Calls : call'[e].from = call'[d].from => e = d
    BY DEF RepliesMatched
  <2>1. CASE d = c
    BY <1>6, <1>7, <1>8, <2>1
  <2>2. CASE d # c
    BY <1>2, <1>6, <1>7, <1>8, <2>2 DEF RepliesMatched
  <2> QED
    BY <2>1, <2>2
<1> QED
  BY <1>4, <1>5, <1>9, Frame DEF Typed

LEMMA TypedGenerate ==
  ASSUME Typed, NEW j \in Jobs,
         GenerationFails(j) \/ StoreGenerated(j) \/ GenerationSucceeds(j)
  PROVE  Typed'
<1>1. GoodJob(job[j]) /\ job[j].pc \notin {"idle", "wait"}
  BY DEF Typed, JobsTyped, GenerationFails, StoreGenerated, GenerationSucceeds
<1>2. CASE GenerationFails(j)
  BY <1>1, <1>2, TypedSendResult DEF GenerationFails
<1>3. CASE GenerationSucceeds(j)
  <2>1. job[j].img \in Keys \cup {NoKey}
    BY <1>1 DEF GoodJob, JobRec
  <2> QED
    BY <1>1, <1>3, <2>1, TypedSendResult DEF GenerationSucceeds
<1>4. CASE StoreGenerated(j)
  <2> DEFINE m == [job[j] EXCEPT !.pc = "generated", !.img = NewKey]
  <2>1. StorageTypeOK' /\ NewKey \in Keys
    BY <1>4, UploadType DEF StoreGenerated, Typed
  <2>2. m \in JobRec /\ m.item = job[j].item
    BY <1>1, <2>1 DEF GoodJob, JobRec
  <2>3. GoodJob(m)
    BY <1>1, <2>2 DEF GoodJob
  <2>4. job' = [job EXCEPT ![j] = m]
    BY <1>4 DEF StoreGenerated, Typed, JobsTyped
  <2>5. JobsTyped'
    BY <2>3, <2>4, JobStep DEF Typed
  <2>6. RepliesMatched'
    BY <1>1, <1>4, <2>4, MatchStep DEF StoreGenerated, Typed
  <2> QED
    BY <1>4, <2>1, <2>5, <2>6, Frame DEF StoreGenerated, Typed
<1> QED
  BY <1>2, <1>3, <1>4

(* No RPC answers to a job that has given up waiting. *)
LEMMA TypedOutcomeTimeout ==
  ASSUME Typed, NEW j \in Jobs, OutcomeTimeout(j)
  PROVE  Typed'
<1> DEFINE Dropped(c) == [call[c] EXCEPT !.from = NoJob]
<1>1. JobsTyped /\ CallsTyped /\ RepliesMatched
  BY DEF Typed
<1>2. ASSUME NEW c \in Calls
      PROVE  /\ GoodCall(call'[c])
             /\ call'[c].from \in {call[c].from, NoJob} \ {j}
  <2>1. GoodCall(call[c]) /\ call[c] \in CallRec
    BY <1>1 DEF CallsTyped
  <2>2. CASE call[c].from = j
    <3>1. /\ Dropped(c) \in CallRec /\ Dropped(c).item = call[c].item
          /\ Dropped(c).pc = call[c].pc /\ Dropped(c).from = NoJob
      BY <2>1 DEF CallRec
    <3>2. GoodCall(Dropped(c))
      BY <2>1, <3>1 DEF GoodCall
    <3>3. call'[c] = Dropped(c)
      BY <2>2 DEF OutcomeTimeout
    <3> QED
      BY <3>1, <3>2, <3>3, PipelineAssumption
  <2>3. CASE call[c].from # j
    BY <2>1, <2>3 DEF OutcomeTimeout
  <2> QED
    BY <2>2, <2>3
<1>3. CallsTyped'
  <2>1. call' = [c \in Calls |-> call'[c]]
    BY DEF OutcomeTimeout
  <2>2. call' \in [Calls -> CallRec]
    BY <1>2, <2>1 DEF GoodCall
  <2> QED
    BY <1>2, <2>2 DEF CallsTyped
<1>4. JobsTyped'
  BY <1>1, AckJobType DEF OutcomeTimeout
<1>5. \A x \in Jobs : x # j => job'[x] = job[x]
  BY <1>1 DEF OutcomeTimeout, AckJob, JobsTyped
<1>6. \A c \in Calls : call[c].from \in Jobs \cup {NoJob}
  BY <1>1 DEF CallsTyped, CallRec
<1>7. RepliesMatched'
  BY <1>1, <1>2, <1>5, <1>6 DEF RepliesMatched
<1>8. (faults \subseteq Faults)'
  BY FaultType DEF OutcomeTimeout, Typed
<1> QED
  BY <1>3, <1>4, <1>7, <1>8, Frame DEF OutcomeTimeout, Typed

LEMMA DeleteQuietlyType ==
  ASSUME Typed, NEW k, DeleteQuietly(k)
  PROVE  StorageTypeOK' /\ (faults \subseteq Faults)'
  BY DeleteObjectType, FaultType, Frame DEF DeleteQuietly, Typed

LEMMA TypedCleanUp ==
  ASSUME Typed, NEW j \in Jobs, DiscardImage(j) \/ DeleteTempOriginal(j)
  PROVE  Typed'
<1> DEFINE m == [job[j] EXCEPT !.pc = "cleanup", !.img = NoKey]
<1>1. /\ JobsTyped /\ UNCHANGED call
      /\ GoodJob(job[j]) /\ job[j].pc \notin {"idle", "wait"}
  BY DEF Typed, JobsTyped, DiscardImage, DeleteTempOriginal
<1>2. StorageTypeOK' /\ (faults \subseteq Faults)'
  BY DeleteQuietlyType DEF DiscardImage, DeleteTempOriginal
<1>3. m \in JobRec /\ m.item = job[j].item
  BY <1>1 DEF GoodJob, JobRec
<1>4. GoodJob(m)
  BY <1>1, <1>3 DEF GoodJob
<1>5. AckJob(j) \/ job' = [job EXCEPT ![j] = m]
  BY <1>1 DEF DiscardImage, DeleteTempOriginal, JobsTyped
<1>6. JobsTyped'
  BY <1>1, <1>4, <1>5, AckJobType, JobStep
<1>7. RepliesMatched'
  BY <1>1, <1>5, MatchStep DEF AckJob, Typed
<1> QED
  BY <1>2, <1>6, <1>7, Frame DEF DiscardImage, DeleteTempOriginal, Typed

-----------------------------------------------------------------------------
(* Faults of the environment. *)

LEMMA TypedRedeliver ==
  ASSUME Typed, NEW j \in Jobs, Redeliver(j)
  PROVE  Typed'
<1> DEFINE m == [IdleJob EXCEPT !.pc = "queued", !.item = job[j].item,
                                !.temp = job[j].temp]
<1>1. GoodJob(job[j]) /\ job[j].pc # "idle"
  BY DEF Typed, JobsTyped, Redeliver, InFlight
<1>2. GoodJob(m)
  BY <1>1 DEF IdleJob, JobRec, GoodJob
<1>3. FreeJob \in Jobs /\ job[FreeJob].pc # "wait"
  BY FreeJobType DEF Redeliver
<1>4. job' = [job EXCEPT ![FreeJob] = m] /\ UNCHANGED call
  BY DEF Redeliver
<1>5. JobsTyped' /\ RepliesMatched'
  BY <1>2, <1>3, <1>4, JobStep, MatchStep DEF Typed
<1>6. (faults \subseteq Faults)'
  BY FaultType DEF Redeliver, Typed
<1> QED
  BY <1>5, <1>6, Frame DEF Redeliver, Typed

LEMMA TypedConsumerCrash ==
  ASSUME Typed, ConsumerCrash
  PROVE  Typed'
<1> DEFINE Requeued(j) == [job[j] EXCEPT !.pc = "queued", !.img = NoKey]
           Dropped(c) == [call[c] EXCEPT !.from = NoJob]
<1>1. ASSUME NEW j \in Jobs PROVE GoodJob(job'[j])
  <2>1. GoodJob(job[j]) /\ job[j] \in JobRec
    BY DEF Typed, JobsTyped
  <2>2. Requeued(j) \in JobRec /\ Requeued(j).item = job[j].item
    BY <2>1 DEF JobRec
  <2>3. InFlight(j) => GoodJob(Requeued(j))
    BY <2>1, <2>2 DEF GoodJob, InFlight
  <2>4. job'[j] = IF InFlight(j) THEN Requeued(j) ELSE job[j]
    BY DEF ConsumerCrash
  <2> QED
    BY <2>1, <2>3, <2>4
<1>2. JobsTyped'
  <2>1. job' = [j \in Jobs |-> job'[j]]
    BY DEF ConsumerCrash
  <2>2. job' \in [Jobs -> JobRec]
    BY <1>1, <2>1 DEF GoodJob
  <2> QED
    BY <1>1, <2>2 DEF JobsTyped
<1>3. ASSUME NEW c \in Calls PROVE GoodCall(call'[c]) /\ call'[c].from = NoJob
  <2>1. GoodCall(call[c]) /\ call[c] \in CallRec
    BY DEF Typed, CallsTyped
  <2>2. /\ Dropped(c) \in CallRec /\ Dropped(c).item = call[c].item
        /\ Dropped(c).pc = call[c].pc /\ Dropped(c).from = NoJob
    BY <2>1 DEF CallRec
  <2>3. GoodCall(Dropped(c))
    BY <2>1, <2>2 DEF GoodCall
  <2>4. call'[c] = Dropped(c)
    BY DEF ConsumerCrash
  <2> QED
    BY <2>2, <2>3, <2>4
<1>4. CallsTyped'
  <2>1. call' = [c \in Calls |-> call'[c]]
    BY DEF ConsumerCrash
  <2>2. call' \in [Calls -> CallRec]
    BY <1>3, <2>1 DEF GoodCall
  <2> QED
    BY <1>3, <2>2 DEF CallsTyped
<1>5. RepliesMatched'
  BY <1>3 DEF RepliesMatched
<1>6. (faults \subseteq Faults)'
  BY FaultType DEF ConsumerCrash, Typed
<1> QED
  BY <1>2, <1>4, <1>5, <1>6, Frame DEF ConsumerCrash, Typed

LEMMA TypedExpiry ==
  ASSUME Typed, NEW k \in Keys, Expiry(k)
  PROVE  Typed'
<1>1. StorageTypeOK'
  BY DEF Expiry, ExpireObject, Typed, StorageTypeOK
<1>2. (faults \subseteq Faults)'
  BY FaultType DEF Expiry, Typed
<1> QED
  BY <1>1, <1>2, Frame DEF Expiry, Typed

-----------------------------------------------------------------------------
LEMMA TypedHandler ==
  ASSUME Typed, NEW r \in Requests, Handler(r)
  PROVE  Typed'
  BY TypedFinds, TypedCheckOriginal, TypedDeleteImage, TypedStorePhoto,
     TypedDeleteOriginal, TypedSave, TypedReply, TypedDeleteRow
  DEF Handler

LEMMA TypedConsumer ==
  ASSUME Typed, NEW j \in Jobs, Consumer(j)
  PROVE  Typed'
  BY TypedJobStarts, TypedGenerate, TypedOutcomeTimeout, TypedCleanUp
  DEF Consumer

LEMMA TypedEnvironment ==
  ASSUME Typed, Environment
  PROVE  Typed'
  BY TypedClock, TypedRedeliver, TypedExpiry, TypedConsumerCrash,
     TypedWardrobeCrash
  DEF Environment

LEMMA TypedNext ==
  ASSUME Typed, [Next]_vars
  PROVE  Typed'
<1>1. CASE Submit
  BY <1>1, TypedSubmit
<1>2. CASE \E r \in Requests : Handler(r)
  BY <1>2, TypedHandler
<1>3. CASE \E c \in Calls : ApplyResult(c)
  BY <1>3, TypedApplyUpdate, TypedApplyLookup, TypedApplyFinish DEF ApplyResult
<1>4. CASE \E j \in Jobs : Consumer(j)
  BY <1>4, TypedConsumer
<1>5. CASE Sweep
  BY <1>5, TypedClock
<1>6. CASE Environment
  BY <1>6, TypedEnvironment
<1>7. CASE UNCHANGED vars
  BY <1>7, Frame DEF vars, wardrobeVars, Typed
<1> QED
  BY <1>1, <1>2, <1>3, <1>4, <1>5, <1>6, <1>7 DEF Next

LEMMA AlwaysTyped == Spec => []Typed
  BY TypedInit, TypedNext, PTL DEF Spec

(* Every variable keeps its type in every behaviour: in particular a handler, *)
(* RPC or job that reads an item's row always holds the id of one, and no     *)
(* step writes a status or a slot state outside its enumeration.              *)
THEOREM TypeCorrect == Spec => []TypeOK
  BY AlwaysTyped, TypedImpliesTypeOK, PTL

-----------------------------------------------------------------------------
(* An RPC that has somebody to answer to carries that job's item and image. *)

RepliesCarried ==
  \A c \in Calls : call[c].from # NoJob =>
    /\ job[call[c].from].item = call[c].item
    /\ call[c].status = "ready" => job[call[c].from].img = call[c].img

(* The result a job sends, in a slot that was free. *)
LEMMA SendFields ==
  ASSUME Typed, NEW j \in Jobs, NEW status, NEW img, SendResult(j, status, img)
  PROVE  \E d \in Calls :
           /\ call[d].pc = "none" /\ \A c \in Calls : c # d => call'[c] = call[c]
           /\ call'[d].pc = "sent" /\ call'[d].item = job[j].item
           /\ call'[d].status = status /\ call'[d].img = img /\ call'[d].prev = NoKey
           /\ call'[d].from = j
           /\ \A x \in Jobs : x # j => job'[x] = job[x]
           /\ job'[j].pc = "wait" /\ job'[j].item = job[j].item
           /\ job'[j].temp = job[j].temp /\ job'[j].img = job[j].img
<1>1. PICK m : m = [NoCall EXCEPT !.pc = "sent", !.item = job[j].item,
                                  !.status = status, !.img = img, !.from = j]
  OBVIOUS
<1>2. /\ m.pc = "sent" /\ m.item = job[j].item /\ m.status = status /\ m.img = img
      /\ m.prev = NoKey /\ m.from = j
  BY <1>1 DEF NoCall
<1>3. PICK d \in Calls : call[d].pc = "none" /\ call' = [call EXCEPT ![d] = m]
  BY <1>1 DEF SendResult
<1>4. call'[d] = m /\ \A c \in Calls : c # d => call'[c] = call[c]
  BY <1>3 DEF Typed, CallsTyped
<1>5. /\ \A x \in Jobs : x # j => job'[x] = job[x]
      /\ job'[j].pc = "wait" /\ job'[j].item = job[j].item
      /\ job'[j].temp = job[j].temp /\ job'[j].img = job[j].img
  BY DEF SendResult, JobGoto, Typed, JobsTyped, JobRec
<1> QED
  BY <1>2, <1>3, <1>4, <1>5

LEMMA RepliesCarriedNext ==
  ASSUME Typed, RepliesCarried, [Next]_vars
  PROVE  RepliesCarried'
<1>1. call \in [Calls -> CallRec] /\ \A d \in Calls : call[d] \in CallRec
  BY DEF Typed, CallsTyped
<1>2. \A c \in Calls : call[c].from # NoJob =>
        /\ call[c].from \in Jobs /\ job[call[c].from].pc = "wait"
        /\ \A d \in Calls : call[d].from = call[c].from => d = c
  BY <1>1 DEF Typed, RepliesMatched, CallRec
<1>3. ASSUME \A c \in Calls :
               call'[c].from # NoJob =>
                 /\ call'[c].from = call[c].from /\ call'[c].item = call[c].item
                 /\ call'[c].status = call[c].status /\ call'[c].img = call[c].img
                 /\ job'[call[c].from] = job[call[c].from]
      PROVE  RepliesCarried'
  BY <1>3 DEF RepliesCarried
<1>4. FreeJobs # {} => FreeJob \in Jobs /\ job[FreeJob].pc # "wait"
  BY FreeJobType
<1>5. ASSUME \A j \in Jobs : job[j].pc = "wait" => job'[j] = job[j], UNCHANGED call
      PROVE  RepliesCarried'
  BY <1>2, <1>3, <1>5
<1>6. job \in [Jobs -> JobRec]
  BY DEF Typed, JobsTyped
<1>7. ASSUME NEW r \in Requests, Handler(r) PROVE RepliesCarried'
  <2>1. UNCHANGED call /\ \A j \in Jobs : job[j].pc = "wait" => job'[j] = job[j]
    BY <1>4, <1>6, <1>7
    DEF Handler, FindMissing, RetryFind, UpdateFind, DeleteFind, CheckOriginal,
        DeleteImage, StorePhoto, DeleteOriginal, Save, Emit, Reply, DeleteRow
  <2> QED
    BY <1>5, <2>1
<1>8. ASSUME NEW c \in Calls, ApplyUpdate(c) PROVE RepliesCarried'
  <2>1. \A d \in Calls :
          /\ call'[d].from = call[d].from /\ call'[d].item = call[d].item
          /\ call'[d].status = call[d].status /\ call'[d].img = call[d].img
    BY <1>1, <1>8 DEF ApplyUpdate, CallRec
  <2> QED
    BY <1>3, <1>8, <2>1 DEF ApplyUpdate
<1>9. ASSUME NEW c \in Calls, ApplyLookup(c) \/ ApplyFinish(c) PROVE RepliesCarried'
  <2>1. \A d \in Calls : d # c => call'[d] = call[d]
    BY <1>1, <1>9 DEF ApplyLookup, ApplyFinish
  <2>2. call'[c].from = NoJob
    BY <1>1, <1>9 DEF ApplyLookup, ApplyFinish, NoCall, CallRec
  <2>3. \E outcome : Answer(c, outcome)
    BY <1>9 DEF ApplyLookup, ApplyFinish
  <2>4. \A j \in Jobs : j # call[c].from => job'[j] = job[j]
    BY <1>6, <2>3 DEF Answer
  <2>5. \A d \in Calls : d # c /\ call[d].from # NoJob => job'[call[d].from] = job[call[d].from]
    BY <1>2, <2>4
  <2> QED
    BY <1>3, <2>1, <2>2, <2>5
<1>10. ASSUME NEW j \in Jobs, NEW status, NEW img, SendResult(j, status, img),
              job[j].pc # "wait", status = "ready" => img = job[j].img
       PROVE  RepliesCarried'
  <2>1. PICK d \in Calls :
          /\ \A c \in Calls : c # d => call'[c] = call[c]
          /\ call'[d].item = job[j].item /\ call'[d].status = status /\ call'[d].img = img
          /\ call'[d].from = j
          /\ \A x \in Jobs : x # j => job'[x] = job[x]
          /\ job'[j].item = job[j].item /\ job'[j].img = job[j].img
    BY <1>10, SendFields
  <2>2. \A c \in Calls : c # d /\ call[c].from # NoJob => job'[call[c].from] = job[call[c].from]
    BY <1>2, <1>10, <2>1
  <2> QED
    BY <1>10, <2>1, <2>2 DEF RepliesCarried
<1>11. ASSUME NEW j \in Jobs, OutcomeTimeout(j) PROVE RepliesCarried'
  <2>1. \A c \in Calls : call'[c] = IF call[c].from = j THEN [call[c] EXCEPT !.from = NoJob]
                                    ELSE call[c]
    BY <1>11 DEF OutcomeTimeout
  <2>2. \A x \in Jobs : x # j => job'[x] = job[x]
    BY <1>6, <1>11 DEF OutcomeTimeout, AckJob
  <2> QED
    BY <1>1, <1>2, <1>3, <2>1, <2>2 DEF CallRec
<1>12. ASSUME NEW j \in Jobs, Consumer(j) PROVE RepliesCarried'
  <2>1. CASE GenerationFails(j)
    BY <1>10, <2>1 DEF GenerationFails
  <2>2. CASE GenerationSucceeds(j)
    BY <1>10, <2>2 DEF GenerationSucceeds
  <2>3. CASE OutcomeTimeout(j)
    BY <1>11, <2>3
  <2>4. CASE \/ CheckPending(j) \/ SkipUnreadable(j) \/ LoadOriginal(j) \/ StoreGenerated(j)
             \/ DiscardImage(j) \/ DeleteTempOriginal(j)
    <3>1. UNCHANGED call /\ job[j].pc # "wait" /\ \A x \in Jobs : x # j => job'[x] = job[x]
      BY <1>6, <2>4 DEF CheckPending, SkipUnreadable, LoadOriginal, StoreGenerated,
                        DiscardImage, DeleteTempOriginal, JobGoto, AckJob
    <3> QED
      BY <1>5, <3>1
  <2> QED
    BY <1>12, <2>1, <2>2, <2>3, <2>4 DEF Consumer
<1>13. CASE Environment
  <2>1. ASSUME ConsumerCrash PROVE \A c \in Calls : call'[c].from = NoJob
    BY <1>1, <2>1 DEF ConsumerCrash, CallRec
  <2>2. CASE ConsumerCrash
    BY <1>3, <2>1, <2>2
  <2>3. CASE WardrobeCrash
    <3>1. \A c \in Calls : call'[c] = NoCall
                           \/ call'[c] = [call[c] EXCEPT !.pc = "sent", !.prev = NoKey]
      BY <2>3 DEF WardrobeCrash
    <3>2. UNCHANGED job /\ NoCall.from = NoJob
      BY <2>3 DEF WardrobeCrash, NoCall
    <3> QED
      BY <1>1, <1>3, <3>1, <3>2 DEF CallRec
  <2>4. ASSUME NEW j \in Jobs, Redeliver(j)
        PROVE  UNCHANGED call /\ \A x \in Jobs : job[x].pc = "wait" => job'[x] = job[x]
    BY <1>4, <1>6, <2>4 DEF Redeliver
  <2>5. CASE \/ \E i \in Items : BecomeStale(i)
             \/ \E k \in Keys : Expiry(k)
    BY <1>5, <2>5 DEF BecomeStale, Expiry
  <2> QED
    BY <1>5, <1>13, <2>2, <2>3, <2>4, <2>5 DEF Environment
<1>14. CASE Submit \/ Sweep \/ UNCHANGED vars
  BY <1>5, <1>14 DEF Submit, Sweep, vars, wardrobeVars
<1> QED
  BY <1>7, <1>8, <1>9, <1>12, <1>13, <1>14 DEF Next, ApplyResult

LEMMA RepliesCarriedInit == Init => RepliesCarried
  BY DEF Init, WardrobeInit, RepliesCarried, NoCall

(* An outcome that reaches the consumer always reaches a job that is waiting, *)
(* the one that stored the image the outcome is about, and no job ever gets   *)
(* two: crashes and time-outs only ever lose answers.                         *)
THEOREM AnswersMatched == Spec => [](RepliesMatched /\ RepliesCarried)
  BY AlwaysTyped, RepliesCarriedInit, RepliesCarriedNext, PTL DEF Typed, Spec

-----------------------------------------------------------------------------
(* Safety under every interleaving of handlers, jobs, RPCs, crashes and      *)
(* storage errors.  Each invariant of the rows is strengthened with the same *)
(* fact about the copies of rows that handlers hold, since save() writes     *)
(* such a copy back.                                                         *)

(* The image columns agree. *)

AgreeReq(q) ==
  /\ Consistent(q.entity)
  /\ q.pc = "exists" => q.entity.temp # NoKey

Agree == RowsConsistent /\ \A r \in Requests : AgreeReq(req[r])

LEMMA BlankConsistent ==
  /\ Consistent(NoRow) /\ Consistent(NewEntity)
  /\ Unsent.entity = NewEntity /\ Done.entity = NewEntity
  /\ Unsent.pc = "unsent" /\ Done.pc = "done"
<1>1. Consistent(NoRow) /\ Consistent(NewEntity)
  BY DEF Consistent, NoRow, NewEntity
<1>2. Unsent.entity = NewEntity /\ Unsent.pc = "unsent"
  BY DEF Unsent, Message
<1>3. Done.entity = NewEntity /\ Done.pc = "done"
  BY DEF Done, Unsent, Message
<1> QED
  BY <1>1, <1>2, <1>3

LEMMA AwaitingConsistent ==
  ASSUME NEW e \in Row, NEW k \in Keys
  PROVE  Consistent(AwaitingImage(e, k))
  BY NoKeyAssumption DEF Consistent, AwaitingImage, Row

LEMMA ShowingConsistent ==
  ASSUME NEW e \in Row, NEW k \in Keys
  PROVE  Consistent(ShowingPhoto(e, k))
  BY DEF Consistent, ShowingPhoto, Row

LEMMA ResultConsistent ==
  ASSUME NEW e \in Row, Consistent(e), AwaitsResult(e),
         NEW status \in {"ready", "failed"}, NEW img
  PROVE  Consistent(WithResult(e, status, img))
  BY DEF Consistent, AwaitsResult, WithResult, Row

LEMMA ClockConsistent ==
  ASSUME NEW e \in Row, Consistent(e)
  PROVE  /\ e.status = "pending" => Consistent(GivenUp(e))
         /\ e.since = "fresh" => Consistent([e EXCEPT !.since = "stale"])
  BY DEF Consistent, GivenUp, Row

(* One request changes, and nothing else that Agree speaks of. *)
LEMMA AgreeStep ==
  ASSUME Typed, Agree, NEW r \in Requests, NEW q, AgreeReq(q),
         req' = [req EXCEPT ![r] = q]
  PROVE  \A s \in Requests : AgreeReq(req[s])'
  BY DEF Typed, ReqsTyped, Agree, AgreeReq, Consistent

LEMMA AgreeRows ==
  ASSUME RowsConsistent, UNCHANGED row
  PROVE  RowsConsistent'
  BY DEF RowsConsistent, Consistent

LEMMA AgreeGoto ==
  ASSUME Typed, Agree, NEW r \in Requests, NEW pc \in ReqPc, pc # "exists",
         Goto(r, pc)
  PROVE  \A s \in Requests : AgreeReq(req[s])'
<1> DEFINE q == [req[r] EXCEPT !.pc = pc]
<1>1. q.entity = req[r].entity /\ q.pc = pc
  BY DEF Typed, ReqsTyped, Req
<1>2. AgreeReq(q)
  BY <1>1 DEF AgreeReq, Agree
<1>3. req' = [req EXCEPT ![r] = q]
  BY DEF Goto
<1> QED
  BY <1>2, <1>3, AgreeStep

LEMMA AgreeAcked ==
  ASSUME Typed, Agree, NEW r \in Requests, Acked(r)
  PROVE  \A s \in Requests : AgreeReq(req[s])'
  BY AgreeStep, BlankConsistent DEF Acked, AgreeReq

LEMMA AgreeLoad ==
  ASSUME Typed, Agree, NEW r \in Requests, NEW pc \in ReqPc, Load(r, pc),
         req[r].item \in Items,
         pc = "exists" => row[req[r].item].temp # NoKey
  PROVE  \A s \in Requests : AgreeReq(req[s])'
<1> DEFINE q == [req[r] EXCEPT !.pc = pc, !.entity = row[req[r].item],
                               !.old = row[req[r].item].temp]
<1>1. q.entity = row[req[r].item] /\ q.pc = pc
  BY DEF Typed, ReqsTyped, Req
<1>2. AgreeReq(q)
  BY <1>1 DEF AgreeReq, Agree, RowsConsistent
<1>3. req' = [req EXCEPT ![r] = q]
  BY DEF Load
<1> QED
  BY <1>2, <1>3, AgreeStep

LEMMA AgreeSubmit ==
  ASSUME Typed, Agree, Submit
  PROVE  Agree'
<1>1. PICK r \in Requests, op \in Ops, photo \in Photos \cup {"none"},
           i \in created \cup {NoItem} :
        req' = [req EXCEPT ![r] = Message(op, photo, i)]
  BY DEF Submit
<1>2. /\ Message(op, photo, i).entity = NewEntity
      /\ Message(op, photo, i).pc # "exists"
  BY DEF Message, PhotoStep
<1>3. AgreeReq(Message(op, photo, i))
  BY <1>2, BlankConsistent DEF AgreeReq
<1> QED
  BY <1>1, <1>3, AgreeStep, AgreeRows DEF Agree, Submit

LEMMA AgreeFinds ==
  ASSUME Typed, Agree, NEW r \in Requests,
         FindMissing(r) \/ RetryFind(r) \/ UpdateFind(r) \/ DeleteFind(r)
  PROVE  Agree'
<1>1. req[r].pc = "find" /\ GoodReq(req[r]) /\ req[r].item \in Items
  BY DEF Typed, ReqsTyped, GoodReq, FindMissing, RetryFind, UpdateFind,
         DeleteFind
<1>2. req[r].photo \in {"none", "plain", "generate"}
  BY <1>1 DEF GoodReq, Req
<1>3. RowsConsistent'
  BY AgreeRows DEF Agree, FindMissing, RetryFind, UpdateFind, DeleteFind
<1>4. CASE FindMissing(r)
  BY <1>3, <1>4, AgreeGoto DEF FindMissing, Unacked, Agree, ReqPc
<1>5. CASE RetryFind(r)
  BY <1>1, <1>3, <1>5, AgreeLoad, AgreeAcked
  DEF RetryFind, Retryable, Agree, ReqPc
<1>6. CASE UpdateFind(r)
  BY <1>1, <1>2, <1>3, <1>6, AgreeLoad, PhotoStepType
  DEF UpdateFind, Agree, ReqPc
<1>7. CASE DeleteFind(r)
  BY <1>1, <1>3, <1>7, AgreeLoad DEF DeleteFind, DropOriginal, Agree, ReqPc
<1> QED
  BY <1>4, <1>5, <1>6, <1>7

LEMMA AgreeCheckOriginal ==
  ASSUME Typed, Agree, NEW r \in Requests, CheckOriginal(r)
  PROVE  Agree'
<1> DEFINE e == AwaitingImage(req[r].entity, req[r].entity.temp)
           q == [req[r] EXCEPT !.pc = "save", !.entity = e]
<1>1. /\ req \in [Requests -> Req] /\ req[r] \in Req
      /\ req[r].entity \in Row /\ req[r].entity.temp \in Keys
  BY DEF Typed, ReqsTyped, Req, Row, Agree, AgreeReq, CheckOriginal
<1>2. q.entity = e /\ q.pc = "save"
  BY <1>1 DEF Req
<1>3. AgreeReq(q)
  BY <1>1, <1>2, AwaitingConsistent DEF AgreeReq
<1>4. req' = [req EXCEPT ![r] = q] \/ Acked(r)
  BY <1>1 DEF CheckOriginal
<1>5. \A s \in Requests : AgreeReq(req[s])'
  BY <1>3, <1>4, AgreeStep, AgreeAcked
<1> QED
  BY <1>5, AgreeRows DEF Agree, CheckOriginal

LEMMA AgreeStorePhoto ==
  ASSUME Typed, Agree, NEW r \in Requests, StorePhoto(r)
  PROVE  Agree'
<1> DEFINE e == IF req[r].pc = "storeTmp"
                THEN AwaitingImage(req[r].entity, NewKey)
                ELSE ShowingPhoto(req[r].entity, NewKey)
           pc == IF req[r].old # NoKey THEN "delTemp" ELSE "save"
           q == [req[r] EXCEPT !.pc = pc, !.entity = e]
<1>1. req[r] \in Req /\ req[r].entity \in Row
  BY DEF Typed, ReqsTyped, Req
<1>2. CASE Upload(PhotoPrefix(req[r].pc)) /\ req' = [req EXCEPT ![r] = q]
  <2>1. NewKey \in Keys
    BY <1>2, NewKeyType DEF Upload
  <2>2. Consistent(e)
    BY <1>1, <2>1, AwaitingConsistent, ShowingConsistent
  <2>3. q.entity = e /\ q.pc = pc
    BY <1>1 DEF Req
  <2>4. AgreeReq(q)
    BY <2>2, <2>3 DEF AgreeReq
  <2> QED
    BY <1>2, <2>4, AgreeStep, AgreeRows DEF Agree, StorePhoto
<1>3. CASE Unacked(r)
  BY <1>3, AgreeGoto, AgreeRows DEF Agree, StorePhoto, Unacked, ReqPc
<1> QED
  BY <1>2, <1>3 DEF StorePhoto

(* Steps that move a handler on without touching its copy or the row. *)
LEMMA AgreeDeletes ==
  ASSUME Typed, Agree, NEW r \in Requests,
         DeleteImage(r) \/ DeleteOriginal(r) \/ Reply(r)
  PROVE  Agree'
<1>1. /\ UNCHANGED row
      /\ \/ Acked(r)
         \/ \E pc \in ReqPc \ {"exists"} : Goto(r, pc)
  BY DEF DeleteImage, DeleteOriginal, Reply, Unacked, DropOriginal, ReqPc
<1> QED
  BY <1>1, AgreeGoto, AgreeAcked, AgreeRows DEF Agree

LEMMA AgreeSave ==
  ASSUME Typed, Agree, NEW r \in Requests, Save(r)
  PROVE  Agree'
<1>1. PICK i \in Items : row' = [row EXCEPT ![i] = req[r].entity]
  BY DEF Save
<1>2. Consistent(req[r].entity)
  BY DEF Agree, AgreeReq
<1>3. RowsConsistent'
  BY <1>1, <1>2 DEF Agree, RowsConsistent, Consistent, Typed, RowsTyped
<1>4. \A s \in Requests : AgreeReq(req[s])'
  BY AgreeGoto DEF Save, ReqPc
<1> QED
  BY <1>3, <1>4 DEF Agree

LEMMA AgreeDeleteRow ==
  ASSUME Typed, Agree, NEW r \in Requests, DeleteRow(r)
  PROVE  Agree'
<1>1. RowsConsistent'
  BY BlankConsistent
  DEF DeleteRow, Agree, RowsConsistent, Consistent, Typed, RowsTyped
<1> QED
  BY <1>1, AgreeAcked DEF DeleteRow, Agree

LEMMA AgreeApply ==
  ASSUME Typed, Agree, NEW c \in Calls, ApplyUpdate(c)
  PROVE  Agree'
<1> DEFINE i == call[c].item
           e == WithResult(row[i], call[c].status, call[c].img)
<1>1. /\ row \in [Items -> Row] /\ i \in Items /\ row[i] \in Row
      /\ call[c].status \in {"ready", "failed"}
  BY DEF Typed, RowsTyped, CallsTyped, GoodCall, CallRec, ApplyUpdate
<1>2. CASE AwaitsResult(row[i])
  <2>1. Consistent(e)
    BY <1>1, <1>2, ResultConsistent DEF Agree, RowsConsistent
  <2>2. row' = [row EXCEPT ![i] = e]
    BY <1>2 DEF ApplyUpdate
  <2>3. RowsConsistent'
    BY <1>1, <2>1, <2>2 DEF Agree, RowsConsistent, Consistent
  <2> QED
    BY <2>3 DEF Agree, AgreeReq, Consistent, ApplyUpdate
<1>3. CASE ~AwaitsResult(row[i])
  BY <1>3, AgreeRows DEF Agree, AgreeReq, Consistent, ApplyUpdate
<1> QED
  BY <1>2, <1>3

LEMMA AgreeClock ==
  ASSUME Typed, Agree, Sweep \/ \E i \in Items : BecomeStale(i)
  PROVE  Agree'
<1>1. row \in [Items -> Row] /\ \A i \in Items : Consistent(row[i])
  BY DEF Typed, RowsTyped, Agree, RowsConsistent
<1>2. \A i \in Items :
        /\ row[i].status = "pending" => Consistent(GivenUp(row[i]))
        /\ row[i].since = "fresh" => Consistent([row[i] EXCEPT !.since = "stale"])
  BY <1>1, ClockConsistent
<1>3. ASSUME NEW i \in Items PROVE Consistent(row'[i])
  <2>1. CASE Sweep
    BY <1>1, <1>2, <2>1 DEF Sweep
  <2>2. CASE \E k \in Items : BecomeStale(k)
    <3>1. PICK k \in Items : BecomeStale(k)
      BY <2>2
    <3>2. row' = [row EXCEPT ![k] = [row[k] EXCEPT !.since = "stale"]]
      BY <1>1, <3>1 DEF BecomeStale
    <3>3. row[k].since = "fresh"
      BY <3>1 DEF BecomeStale
    <3>4. CASE i = k
      BY <1>1, <1>2, <3>2, <3>3, <3>4
    <3>5. CASE i # k
      BY <1>1, <3>2, <3>5
    <3> QED
      BY <3>4, <3>5
  <2> QED
    BY <2>1, <2>2
<1>4. UNCHANGED req
  BY DEF Sweep, BecomeStale
<1> QED
  BY <1>3, <1>4 DEF Agree, AgreeReq, RowsConsistent, Consistent

LEMMA AgreeWardrobeCrash ==
  ASSUME Typed, Agree, WardrobeCrash
  PROVE  Agree'
<1> DEFINE Again(r) == Message(req[r].op, req[r].photo,
                         IF req[r].op = "create" THEN NoItem ELSE req[r].item)
<1>1. \A r \in Requests : AgreeReq(Again(r))
  <2>1. \A r \in Requests : Again(r).entity = NewEntity /\ Again(r).pc # "exists"
    BY DEF Message, PhotoStep
  <2> QED
    BY <2>1, BlankConsistent DEF AgreeReq
<1>2. \A r \in Requests : req'[r] = req[r] \/ req'[r] = Again(r)
  BY DEF WardrobeCrash
<1>3. \A r \in Requests : AgreeReq(req[r])'
  BY <1>1, <1>2 DEF Agree, AgreeReq, Consistent
<1> QED
  BY <1>3, AgreeRows DEF Agree, WardrobeCrash

LEMMA AgreeNext ==
  ASSUME Typed, Agree, [Next]_vars
  PROVE  Agree'
<1>1. CASE Submit
  BY <1>1, AgreeSubmit
<1>2. ASSUME NEW r \in Requests, Handler(r) PROVE Agree'
  BY <1>2, AgreeFinds, AgreeCheckOriginal, AgreeStorePhoto, AgreeDeletes,
     AgreeSave, AgreeDeleteRow
  DEF Handler
<1>3. ASSUME NEW c \in Calls, ApplyUpdate(c) PROVE Agree'
  BY <1>3, AgreeApply
<1>4. CASE Sweep \/ \E i \in Items : BecomeStale(i)
  BY <1>4, AgreeClock
<1>5. CASE WardrobeCrash
  BY <1>5, AgreeWardrobeCrash
<1>6. CASE UNCHANGED <<row, req>>
  BY <1>6 DEF Agree, AgreeReq, RowsConsistent, Consistent
<1>7. ASSUME NEW j \in Jobs, Consumer(j) PROVE UNCHANGED <<row, req>>
  BY <1>7
  DEF Consumer, CheckPending, SkipUnreadable, LoadOriginal, GenerationFails,
      StoreGenerated, GenerationSucceeds, OutcomeTimeout, DiscardImage,
      DeleteTempOriginal
<1>8. ASSUME NEW c \in Calls, ApplyLookup(c) \/ ApplyFinish(c)
      PROVE  UNCHANGED <<row, req>>
  BY <1>8 DEF ApplyLookup, ApplyFinish
<1>9. ASSUME \/ \E j \in Jobs : Redeliver(j)
             \/ \E k \in Keys : Expiry(k)
             \/ ConsumerCrash
             \/ UNCHANGED vars
      PROVE  UNCHANGED <<row, req>>
  BY <1>9 DEF Redeliver, Expiry, ConsumerCrash, vars, wardrobeVars
<1> QED
  BY <1>1, <1>2, <1>3, <1>4, <1>5, <1>6, <1>7, <1>8, <1>9
  DEF Next, ApplyResult, Environment

LEMMA AgreeInit == Init => Agree
  BY BlankConsistent
  DEF Init, WardrobeInit, Agree, AgreeReq, RowsConsistent

LEMMA AlwaysAgree == Spec => [](Typed /\ Agree)
<1>1. Init => Typed /\ Agree
  BY TypedInit, AgreeInit
<1>2. Typed /\ Agree /\ [Next]_vars => Typed' /\ Agree'
  BY TypedNext, AgreeNext
<1> QED
  BY <1>1, <1>2, PTL DEF Spec

(* A pending item always carries the time stamp the sweep tests and the       *)
(* original its job needs, a failed one the original a retry needs, a ready   *)
(* one neither: whatever the handlers of save(), of the terminal UPDATE and   *)
(* of the sweep interleave to, and whichever of them is run again.            *)
THEOREM ImageColumnsAgree == Spec => []RowsConsistent
  BY AlwaysAgree, PTL DEF Agree

-----------------------------------------------------------------------------
(* Only clients change an item that is ready. *)

(* An id that has not been handed out has no row. *)
RowsCreated == \A i \in Items : row[i].status # "absent" => i \in created

(* The steps that write a row. *)
LEMMA RowWriters ==
  ASSUME [Next]_vars
  PROVE  \/ UNCHANGED <<row, created>>
         \/ \E r \in Requests : Save(r) \/ DeleteRow(r)
         \/ \E c \in Calls : ApplyUpdate(c)
         \/ Sweep
         \/ \E i \in Items : BecomeStale(i)
<1>1. CASE Submit \/ UNCHANGED vars
  BY <1>1 DEF Submit, vars, wardrobeVars
<1>2. ASSUME NEW r \in Requests, Handler(r)
      PROVE  Save(r) \/ DeleteRow(r) \/ UNCHANGED <<row, created>>
  BY <1>2
  DEF Handler, FindMissing, RetryFind, UpdateFind, DeleteFind, CheckOriginal,
      DeleteImage, StorePhoto, DeleteOriginal, Reply
<1>3. ASSUME NEW c \in Calls, ApplyResult(c)
      PROVE  ApplyUpdate(c) \/ UNCHANGED <<row, created>>
  BY <1>3 DEF ApplyResult, ApplyLookup, ApplyFinish
<1>4. ASSUME NEW j \in Jobs, Consumer(j) PROVE UNCHANGED <<row, created>>
  BY <1>4
  DEF Consumer, CheckPending, SkipUnreadable, LoadOriginal, GenerationFails,
      StoreGenerated, GenerationSucceeds, OutcomeTimeout, DiscardImage,
      DeleteTempOriginal
<1>5. ASSUME Environment
      PROVE  UNCHANGED <<row, created>> \/ \E i \in Items : BecomeStale(i)
  BY <1>5 DEF Environment, Redeliver, Expiry, ConsumerCrash, WardrobeCrash
<1> QED
  BY <1>1, <1>2, <1>3, <1>4, <1>5 DEF Next

LEMMA RowsCreatedNext ==
  ASSUME Typed, RowsCreated, [Next]_vars
  PROVE  RowsCreated'
<1>1. row \in [Items -> Row] /\ created \subseteq Items
  BY DEF Typed, RowsTyped
<1>2. CASE UNCHANGED <<row, created>>
  BY <1>2 DEF RowsCreated
<1>3. ASSUME NEW r \in Requests, Save(r) PROVE RowsCreated'
  <2>1. PICK i \in Items :
          /\ row' = [row EXCEPT ![i] = req[r].entity]
          /\ created' = created \cup {i}
    BY <1>3 DEF Save
  <2> QED
    BY <1>1, <2>1 DEF RowsCreated
<1>4. ASSUME NEW r \in Requests, DeleteRow(r) PROVE RowsCreated'
  BY <1>1, <1>4 DEF RowsCreated, DeleteRow, NoRow
<1>5. ASSUME NEW c \in Calls, ApplyUpdate(c) PROVE RowsCreated'
  <2>1. CASE AwaitsResult(row[call[c].item])
    BY <1>1, <1>5, <2>1
    DEF RowsCreated, ApplyUpdate, AwaitsResult
  <2>2. CASE ~AwaitsResult(row[call[c].item])
    BY <1>2, <1>5, <2>2 DEF ApplyUpdate
  <2> QED
    BY <2>1, <2>2
<1>6. CASE Sweep
  BY <1>1, <1>6 DEF RowsCreated, Sweep
<1>7. ASSUME NEW i \in Items, BecomeStale(i) PROVE RowsCreated'
  <2>1. row'[i].status = row[i].status
    BY <1>1, <1>7 DEF BecomeStale, Row
  <2> QED
    BY <1>1, <1>7, <2>1 DEF RowsCreated, BecomeStale
<1> QED
  BY <1>2, <1>3, <1>4, <1>5, <1>6, <1>7, RowWriters

LEMMA ReadyStep ==
  ASSUME Typed, Agree, RowsCreated, [Next]_vars
  PROVE  OnlyClientsChangeReady
<1> SUFFICES ASSUME NEW i \in Items, row[i].status = "ready", row'[i] # row[i]
             PROVE  ClientChanges(i)
  BY DEF OnlyClientsChangeReady
<1>1. row \in [Items -> Row] /\ Consistent(row[i])
  BY DEF Typed, RowsTyped, Agree, RowsConsistent
<1>2. ASSUME NEW r \in Requests, Save(r) PROVE ClientChanges(i)
  <2>1. /\ req[r].pc = "save" /\ req'[r].pc = "reply"
        /\ req'[r].item = req[r].item
    BY <1>2 DEF Save, Goto, Typed, ReqsTyped, Req
  <2>2. row' = [row EXCEPT ![req[r].item] = req[r].entity]
    <3>1. PICK k \in Items :
            /\ row' = [row EXCEPT ![k] = req[r].entity]
            /\ k \in created => k = req[r].item
      BY <1>2 DEF Save
    <3>2. i = k
      BY <1>1, <3>1
    <3>3. i \in created
      BY DEF RowsCreated
    <3> QED
      BY <3>1, <3>2, <3>3
  <2>3. i = req[r].item
    BY <1>1, <2>2
  <2> QED
    BY <2>1, <2>3 DEF ClientChanges
<1>3. ASSUME NEW r \in Requests, DeleteRow(r) PROVE ClientChanges(i)
  <2>1. i = req[r].item /\ req[r].pc = "delRow"
    BY <1>1, <1>3 DEF DeleteRow
  <2>2. req'[r].pc = "done"
    BY <1>3, BlankTypes DEF DeleteRow, Acked, Typed, ReqsTyped
  <2> QED
    BY <2>1, <2>2 DEF ClientChanges
<1>4. ASSUME NEW c \in Calls, ApplyUpdate(c) PROVE FALSE
  BY <1>1, <1>4 DEF ApplyUpdate, AwaitsResult
<1>5. CASE Sweep
  BY <1>1, <1>5 DEF Sweep
<1>6. ASSUME NEW k \in Items, BecomeStale(k) PROVE FALSE
  BY <1>1, <1>6 DEF BecomeStale, Consistent
<1> QED
  BY <1>2, <1>3, <1>4, <1>5, <1>6, RowWriters

LEMMA AlwaysCreated == Spec => [](Typed /\ Agree /\ RowsCreated)
<1>1. Init => RowsCreated
  BY DEF Init, WardrobeInit, RowsCreated, NoRow
<1>2. Typed /\ RowsCreated /\ [Next]_vars => RowsCreated'
  BY RowsCreatedNext
<1> QED
  BY <1>1, <1>2, AlwaysAgree, PTL DEF Spec

(* Once an item is ready, its image columns change only by a client's own     *)
(* save or delete: no delivery of its job, however late or often repeated,    *)
(* no RPC run again after a crash and no sweep touches it.                    *)
THEOREM ReadyIsFinal == Spec => ReadyLeftAlone
<1>1. Typed /\ Agree /\ RowsCreated /\ [Next]_vars => [OnlyClientsChangeReady]_vars
  BY ReadyStep
<1> QED
  BY <1>1, AlwaysCreated, PTL DEF Spec, ReadyLeftAlone

=============================================================================
