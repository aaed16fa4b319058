------------------------- MODULE ImageStorageProofs -------------------------
(***************************************************************************)
(* Where the pipeline's objects lie, and whose they are: no image an item  *)
(* shows is ever under the prefix the bucket's lifecycle rule sweeps, and  *)
(* no two items share an object.                                           *)
(***************************************************************************)
EXTENDS ImageProofs

(* The image and the original that `e` names lie under their prefixes. *)
Placed(f, e) ==
  /\ e.img # NoKey => f[e.img] = "user"
  /\ e.temp # NoKey => f[e.temp] = "tmp"

ImagePlaced(f, k) == k # NoKey => f[k] = "user"

RowsPlaced  == \A i \in Items : Placed(prefix, row[i])
ReqsPlaced  == \A r \in Requests : Placed(prefix, req[r].entity)
CallsPlaced == \A c \in Calls : ImagePlaced(prefix, call[c].img)
JobsPlaced  == \A j \in Jobs : ImagePlaced(prefix, job[j].img)

(* A row's image comes from a handler's copy or an RPC, which took it from a *)
(* handler's or a job's upload: all four are placed together.                *)
Placement == RowsPlaced /\ ReqsPlaced /\ CallsPlaced /\ JobsPlaced

-----------------------------------------------------------------------------
(* An upload takes an unused name: no name in use ever changes its prefix. *)

KeepsPrefixes == \A k \in Keys : prefix[k] # "none" => prefix'[k] = prefix[k]

LEMMA UploadPlaces ==
  ASSUME Typed, NEW p, Upload(p)
  PROVE  NewKey \in Keys /\ prefix'[NewKey] = p /\ KeepsPrefixes
  BY NewKeyType DEF Upload, Typed, StorageTypeOK, KeepsPrefixes

LEMMA PrefixStep ==
  ASSUME Typed, [Next]_vars
  PROVE  KeepsPrefixes
<1>1. CASE UNCHANGED prefix
  BY <1>1 DEF KeepsPrefixes
<1>2. ASSUME NEW r \in Requests, Handler(r)
      PROVE  UNCHANGED prefix \/ \E p : Upload(p)
  BY <1>2
  DEF Handler, FindMissing, RetryFind, UpdateFind, DeleteFind, CheckOriginal,
      DeleteImage, StorePhoto, DeleteOriginal, Save, Reply, DeleteRow,
      DeleteObject, storageVars
<1>3. ASSUME NEW c \in Calls, ApplyResult(c) PROVE UNCHANGED prefix
  BY <1>3 DEF ApplyResult, ApplyUpdate, ApplyLookup, ApplyFinish,
              DeleteObject, storageVars
<1>4. ASSUME NEW j \in Jobs, Consumer(j)
      PROVE  UNCHANGED prefix \/ \E p : Upload(p)
  BY <1>4
  DEF Consumer, CheckPending, SkipUnreadable, LoadOriginal, GenerationFails,
      StoreGenerated, GenerationSucceeds, OutcomeTimeout, DiscardImage,
      DeleteTempOriginal, DeleteQuietly, DeleteObject, storageVars
<1>5. ASSUME Environment PROVE UNCHANGED prefix
  BY <1>5
  DEF Environment, BecomeStale, Redeliver, Expiry, ExpireObject, ConsumerCrash,
      WardrobeCrash, storageVars
<1>6. CASE Submit \/ Sweep \/ UNCHANGED vars
  BY <1>1, <1>6 DEF Submit, Sweep, vars, storageVars
<1> QED
  BY <1>1, <1>2, <1>3, <1>4, <1>5, <1>6, UploadPlaces DEF Next

LEMMA PlacedKept ==
  ASSUME KeepsPrefixes
  PROVE  /\ \A e \in Row : Placed(prefix, e) => Placed(prefix', e)
         /\ \A k \in Keys \cup {NoKey} :
              ImagePlaced(prefix, k) => ImagePlaced(prefix', k)
<1>1. ASSUME NEW k \in Keys, prefix[k] = "user" \/ prefix[k] = "tmp"
      PROVE  prefix'[k] = prefix[k]
  BY <1>1 DEF KeepsPrefixes
<1>2. ASSUME NEW e \in Row, Placed(prefix, e) PROVE Placed(prefix', e)
  <2>1. e.img \in Keys \cup {NoKey} /\ e.temp \in Keys \cup {NoKey}
    BY DEF Row
  <2> QED
    BY <1>1, <1>2, <2>1 DEF Placed
<1>3. ASSUME NEW k \in Keys \cup {NoKey}, ImagePlaced(prefix, k)
      PROVE  ImagePlaced(prefix', k)
  BY <1>1, <1>3 DEF ImagePlaced
<1> QED
  BY <1>2, <1>3

(* What the handlers build their copies with. *)
LEMMA PlacedCopies ==
  ASSUME NEW f, NEW e \in Row, NEW k \in Keys
  PROVE  /\ Placed(f, NoRow) /\ Placed(f, NewEntity)
         /\ Placed(f, e) /\ f[k] = "tmp" => Placed(f, AwaitingImage(e, k))
         /\ f[k] = "user" => Placed(f, ShowingPhoto(e, k))
         /\ Placed(f, e) => Placed(f, GivenUp(e))
         /\ Placed(f, e) => Placed(f, [e EXCEPT !.since = "stale"])
<1>1. Placed(f, NoRow) /\ Placed(f, NewEntity)
  BY DEF Placed, NoRow, NewEntity
<1>2. /\ AwaitingImage(e, k).img = e.img /\ AwaitingImage(e, k).temp = k
      /\ ShowingPhoto(e, k).img = k /\ ShowingPhoto(e, k).temp = NoKey
  BY DEF AwaitingImage, ShowingPhoto, Row
<1>3. /\ GivenUp(e).img = e.img /\ GivenUp(e).temp = e.temp
      /\ [e EXCEPT !.since = "stale"].img = e.img
      /\ [e EXCEPT !.since = "stale"].temp = e.temp
  BY DEF GivenUp, Row
<1> QED
  BY <1>1, <1>2, <1>3 DEF Placed

-----------------------------------------------------------------------------
(* One step of each kind of holder. *)

LEMMA PlacedReq ==
  ASSUME Typed, ReqsPlaced, KeepsPrefixes, NEW r \in Requests, NEW q,
         Placed(prefix', q.entity), req' = [req EXCEPT ![r] = q]
  PROVE  ReqsPlaced'
<1>1. \A s \in Requests : req[s].entity \in Row
  BY DEF Typed, ReqsTyped, Req
<1>2. \A s \in Requests : Placed(prefix', req[s].entity)
  BY <1>1, PlacedKept DEF ReqsPlaced
<1>3. \A s \in Requests : req'[s] = q \/ req'[s] = req[s]
  BY DEF Typed, ReqsTyped
<1>4. \A s \in Requests : Placed(prefix', req'[s].entity)
  BY <1>2, <1>3
<1> QED
  BY <1>4 DEF ReqsPlaced, Placed

LEMMA PlacedGoto ==
  ASSUME Typed, ReqsPlaced, KeepsPrefixes, NEW r \in Requests, NEW pc,
         Goto(r, pc) \/ Acked(r)
  PROVE  ReqsPlaced'
<1>1. CASE Goto(r, pc)
  <2> DEFINE q == [req[r] EXCEPT !.pc = pc]
  <2>1. q.entity = req[r].entity /\ req[r].entity \in Row
    BY DEF Typed, ReqsTyped, Req
  <2>2. Placed(prefix', q.entity)
    BY <2>1, PlacedKept DEF ReqsPlaced
  <2>3. req' = [req EXCEPT ![r] = q]
    BY <1>1 DEF Goto
  <2> QED
    BY <2>2, <2>3, PlacedReq
<1>2. CASE Acked(r)
  <2>1. Placed(prefix', Done.entity)
    BY BlankConsistent, BlankTypes, PlacedCopies DEF Placed, NewEntity, NoRow
  <2> QED
    BY <1>2, <2>1, PlacedReq DEF Acked
<1> QED
  BY <1>1, <1>2

LEMMA PlacedLoad ==
  ASSUME Typed, RowsPlaced, ReqsPlaced, KeepsPrefixes, NEW r \in Requests,
         NEW pc, req[r].item \in Items, Load(r, pc)
  PROVE  ReqsPlaced'
<1> DEFINE q == [req[r] EXCEPT !.pc = pc, !.entity = row[req[r].item],
                               !.old = row[req[r].item].temp]
<1>1. q.entity = row[req[r].item] /\ row[req[r].item] \in Row
  BY DEF Typed, ReqsTyped, RowsTyped, Req
<1>2. Placed(prefix', q.entity)
  BY <1>1, PlacedKept DEF RowsPlaced
<1>3. req' = [req EXCEPT ![r] = q]
  BY DEF Load
<1> QED
  BY <1>2, <1>3, PlacedReq

LEMMA PlacedCheckOriginal ==
  ASSUME Typed, Agree, ReqsPlaced, KeepsPrefixes, NEW r \in Requests,
         CheckOriginal(r)
  PROVE  ReqsPlaced'
<1> DEFINE e == AwaitingImage(req[r].entity, req[r].entity.temp)
           q == [req[r] EXCEPT !.pc = "save", !.entity = e]
<1>1. /\ req \in [Requests -> Req] /\ req[r] \in Req
      /\ req[r].entity \in Row /\ req[r].entity.temp \in Keys
  BY DEF Typed, ReqsTyped, Req, Row, Agree, AgreeReq, CheckOriginal
<1>2. q.entity = e
  BY <1>1 DEF Req
<1>3. Placed(prefix', req[r].entity)
  BY <1>1, PlacedKept DEF ReqsPlaced
<1>4. prefix'[req[r].entity.temp] = "tmp"
  BY <1>1, <1>3, NoKeyAssumption DEF Placed
<1>7. Placed(prefix', e)
  BY <1>1, <1>3, <1>4, PlacedCopies
<1>5. Placed(prefix', q.entity)
  BY <1>2, <1>7
<1>6. req' = [req EXCEPT ![r] = q] \/ Acked(r)
  BY <1>1 DEF CheckOriginal
<1> QED
  BY <1>5, <1>6, PlacedReq, PlacedGoto

LEMMA PlacedStorePhoto ==
  ASSUME Typed, ReqsPlaced, KeepsPrefixes, NEW r \in Requests, StorePhoto(r)
  PROVE  ReqsPlaced'
<1> DEFINE e == IF req[r].pc = "storeTmp"
                THEN AwaitingImage(req[r].entity, NewKey)
                ELSE ShowingPhoto(req[r].entity, NewKey)
           pc == IF req[r].old # NoKey THEN "delTemp" ELSE "save"
           q == [req[r] EXCEPT !.pc = pc, !.entity = e]
<1>1. req[r] \in Req /\ req[r].entity \in Row
  BY DEF Typed, ReqsTyped, Req
<1>2. CASE Upload(PhotoPrefix(req[r].pc)) /\ req' = [req EXCEPT ![r] = q]
  <2>1. NewKey \in Keys /\ prefix'[NewKey] = PhotoPrefix(req[r].pc)
    BY <1>2, UploadPlaces
  <2>2. Placed(prefix', req[r].entity)
    BY <1>1, PlacedKept DEF ReqsPlaced
  <2>3. q.entity = e
    BY <1>1 DEF Req
  <2>4. Placed(prefix', e)
    <3>1. req[r].pc = "storeTmp" =>
            Placed(prefix', AwaitingImage(req[r].entity, NewKey))
      BY <1>1, <2>1, <2>2, PlacedCopies DEF PhotoPrefix
    <3>2. req[r].pc # "storeTmp" =>
            Placed(prefix', ShowingPhoto(req[r].entity, NewKey))
      BY <1>1, <2>1, PlacedCopies DEF PhotoPrefix
    <3> QED
      BY <3>1, <3>2
  <2>5. Placed(prefix', q.entity)
    BY <2>3, <2>4
  <2> QED
    BY <1>2, <2>5, PlacedReq
<1>3. CASE Unacked(r)
  BY <1>3, PlacedGoto DEF Unacked
<1> QED
  BY <1>2, <1>3 DEF StorePhoto

LEMMA PlacedReqsNext ==
  ASSUME Typed, Agree, Placement, [Next]_vars
  PROVE  ReqsPlaced'
<1> USE PrefixStep DEF Placement
<1>1. CASE Submit
  <2>1. PICK r \in Requests, op \in Ops, photo \in Photos \cup {"none"},
             i \in created \cup {NoItem} :
          req' = [req EXCEPT ![r] = Message(op, photo, i)]
    BY <1>1 DEF Submit
  <2>2. Placed(prefix', Message(op, photo, i).entity)
    BY DEF Message, Placed, NewEntity, NoRow
  <2> QED
    BY <2>1, <2>2, PlacedReq
<1>2. ASSUME NEW r \in Requests, Handler(r) PROVE ReqsPlaced'
  <2>1. CASE CheckOriginal(r)
    BY <2>1, PlacedCheckOriginal
  <2>2. CASE StorePhoto(r)
    BY <2>2, PlacedStorePhoto
  <2>3. CASE FindMissing(r) \/ RetryFind(r) \/ UpdateFind(r) \/ DeleteFind(r)
    <3>1. req[r].item \in Items
      BY <2>3 DEF Typed, ReqsTyped, GoodReq, FindMissing, RetryFind, UpdateFind,
                  DeleteFind
    <3>2. (\E pc : Goto(r, pc) \/ Load(r, pc)) \/ Acked(r)
      BY <2>3 DEF FindMissing, RetryFind, UpdateFind, DeleteFind, Unacked
    <3> QED
      BY <3>1, <3>2, PlacedGoto, PlacedLoad
  <2>4. CASE \/ DeleteImage(r) \/ DeleteOriginal(r) \/ Save(r) \/ Reply(r)
             \/ DeleteRow(r)
    <3>1. (\E pc : Goto(r, pc)) \/ Acked(r)
      BY <2>4 DEF DeleteImage, DeleteOriginal, Save, Reply, DeleteRow, Unacked
    <3> QED
      BY <3>1, PlacedGoto
  <2> QED
    BY <1>2, <2>1, <2>2, <2>3, <2>4 DEF Handler
<1>3. CASE WardrobeCrash
  <2>1. \A r \in Requests : req'[r] = req[r] \/ req'[r].entity = NewEntity
    BY <1>3 DEF WardrobeCrash, Message
  <2>2. \A r \in Requests :
          req[r].entity \in Row /\ Placed(prefix', req[r].entity)
    BY PlacedKept DEF Typed, ReqsTyped, Req, ReqsPlaced
  <2>3. Placed(prefix', NewEntity)
    BY DEF Placed, NewEntity, NoRow
  <2>4. \A r \in Requests : Placed(prefix', req'[r].entity)
    BY <2>1, <2>2, <2>3
  <2> QED
    BY <2>4 DEF ReqsPlaced, Placed
<1>4. CASE UNCHANGED req
  <2>1. \A r \in Requests :
          req[r].entity \in Row /\ Placed(prefix', req[r].entity)
    BY PlacedKept DEF Typed, ReqsTyped, Req, ReqsPlaced
  <2> QED
    BY <1>4, <2>1 DEF ReqsPlaced, Placed
<1>5. ASSUME NEW c \in Calls, ApplyResult(c) PROVE UNCHANGED req
  BY <1>5 DEF ApplyResult, ApplyUpdate, ApplyLookup, ApplyFinish
<1>6. ASSUME NEW j \in Jobs, Consumer(j) PROVE UNCHANGED req
  BY <1>6
  DEF Consumer, CheckPending, SkipUnreadable, LoadOriginal, GenerationFails,
      StoreGenerated, GenerationSucceeds, OutcomeTimeout, DiscardImage,
      DeleteTempOriginal
<1>7. ASSUME Environment PROVE WardrobeCrash \/ UNCHANGED req
  BY <1>7 DEF Environment, BecomeStale, Redeliver, Expiry, ConsumerCrash
<1>8. ASSUME Sweep \/ UNCHANGED vars PROVE UNCHANGED req
  BY <1>8 DEF Sweep, vars, wardrobeVars
<1> QED
  BY <1>1, <1>2, <1>3, <1>4, <1>5, <1>6, <1>7, <1>8 DEF Next

LEMMA PlacedRowsNext ==
  ASSUME Typed, Placement, [Next]_vars
  PROVE  RowsPlaced'
<1>1. /\ row \in [Items -> Row]
      /\ \A i \in Items : row[i] \in Row /\ Placed(prefix', row[i])
  BY PrefixStep, PlacedKept DEF Typed, RowsTyped, Placement, RowsPlaced
<1> SUFFICES ASSUME NEW i \in Items PROVE Placed(prefix', row'[i])
  BY DEF RowsPlaced, Placed
<1>2. CASE UNCHANGED row
  BY <1>1, <1>2
<1>3. ASSUME NEW r \in Requests, Save(r) PROVE Placed(prefix', row'[i])
  <2>1. req[r].entity \in Row /\ Placed(prefix', req[r].entity)
    BY PrefixStep, PlacedKept
    DEF Typed, ReqsTyped, Req, Placement, ReqsPlaced
  <2>2. row'[i] = row[i] \/ row'[i] = req[r].entity
    BY <1>1, <1>3 DEF Save
  <2> QED
    BY <1>1, <2>1, <2>2
<1>4. ASSUME NEW r \in Requests, DeleteRow(r) PROVE Placed(prefix', row'[i])
  <2>1. row'[i] = row[i] \/ row'[i] = NoRow
    BY <1>1, <1>4 DEF DeleteRow
  <2>2. Placed(prefix', NoRow)
    BY DEF Placed, NoRow
  <2> QED
    BY <1>1, <2>1, <2>2
<1>5. ASSUME NEW c \in Calls, ApplyUpdate(c) PROVE Placed(prefix', row'[i])
  <2> DEFINE k == call[c].item
             e == WithResult(row[k], call[c].status, call[c].img)
  <2>1. call[c].img \in Keys \cup {NoKey} /\ k \in Items
    BY <1>5 DEF Typed, CallsTyped, GoodCall, CallRec, ApplyUpdate
  <2>2. ImagePlaced(prefix', call[c].img)
    BY <2>1, PrefixStep, PlacedKept DEF Placement, CallsPlaced
  <2>3. Placed(prefix', row[k])
    BY <1>1, <2>1
  <2>4. Placed(prefix', e)
    BY <2>2, <2>3 DEF WithResult, Placed, ImagePlaced
  <2>5. row'[i] = row[i] \/ row'[i] = e
    BY <1>1, <1>5 DEF ApplyUpdate
  <2> QED
    BY <1>1, <2>4, <2>5
<1>6. CASE Sweep
  <2>1. Placed(prefix', GivenUp(row[i]))
    BY <1>1 DEF Placed, GivenUp, Row
  <2> QED
    BY <1>1, <1>6, <2>1 DEF Sweep
<1>7. ASSUME NEW k \in Items, BecomeStale(k) PROVE Placed(prefix', row'[i])
  <2>1. row'[i] = row[i] \/ row'[i] = [row[i] EXCEPT !.since = "stale"]
    BY <1>1, <1>7 DEF BecomeStale
  <2>2. Placed(prefix', [row[i] EXCEPT !.since = "stale"])
    BY <1>1 DEF Placed, Row
  <2> QED
    BY <1>1, <2>1, <2>2
<1> QED
  BY <1>2, <1>3, <1>4, <1>5, <1>6, <1>7, RowWriters

(* An RPC takes its image from the job that sends it. *)
LEMMA PlacedCallsNext ==
  ASSUME Typed, Placement, [Next]_vars
  PROVE  CallsPlaced'
<1>1. \A c \in Calls : ImagePlaced(prefix', call[c].img)
  BY PrefixStep, PlacedKept DEF Typed, CallsTyped, CallRec, Placement, CallsPlaced
<1>2. \A j \in Jobs : ImagePlaced(prefix', job[j].img)
  BY PrefixStep, PlacedKept DEF Typed, JobsTyped, JobRec, Placement, JobsPlaced
<1>3. NoCall.img = NoKey /\ ImagePlaced(prefix', NoKey)
  BY DEF NoCall, ImagePlaced
<1>4. call \in [Calls -> CallRec]
  BY DEF Typed, CallsTyped
<1>5. SUFFICES ASSUME NEW c \in Calls
               PROVE  ImagePlaced(prefix', call'[c].img)
  BY DEF CallsPlaced, ImagePlaced
<1>6. CASE call'[c].img = call[c].img
  BY <1>1, <1>6
<1>7. CASE call'[c] = NoCall
  BY <1>3, <1>7
<1>8. ASSUME NEW d \in Calls, ApplyResult(d)
      PROVE  call'[c].img = call[c].img \/ call'[c] = NoCall
  BY <1>4, <1>8 DEF ApplyResult, ApplyUpdate, ApplyLookup, ApplyFinish, CallRec
<1>9. ASSUME NEW j \in Jobs, NEW status, NEW img \in {NoKey, job[j].img},
             SendResult(j, status, img)
      PROVE  ImagePlaced(prefix', call'[c].img)
  <2> DEFINE m == [NoCall EXCEPT !.pc = "sent", !.item = job[j].item,
                                 !.status = status, !.img = img, !.from = j]
  <2>3. m.img = img
    BY DEF NoCall
  <2>1. PICK d : call' = [call EXCEPT ![d] = m]
    BY <1>9 DEF SendResult
  <2>2. call'[c].img = call[c].img \/ call'[c].img = img
    BY <1>4, <2>1, <2>3
  <2> QED
    BY <1>1, <1>2, <1>3, <2>2
<1>10. ASSUME NEW j \in Jobs, Consumer(j)
       PROVE  ImagePlaced(prefix', call'[c].img)
  <2>1. CASE GenerationFails(j) \/ GenerationSucceeds(j)
    BY <1>9, <2>1 DEF GenerationFails, GenerationSucceeds
  <2>2. CASE OutcomeTimeout(j)
    <3>1. call'[c].img = call[c].img
      BY <1>4, <2>2 DEF OutcomeTimeout, CallRec
    <3> QED
      BY <1>6, <3>1
  <2>3. CASE UNCHANGED call
    BY <1>6, <2>3
  <2> QED
    BY <1>10, <2>1, <2>2, <2>3
    DEF Consumer, CheckPending, SkipUnreadable, LoadOriginal, StoreGenerated,
        DiscardImage, DeleteTempOriginal
<1>11. ASSUME Environment
       PROVE  call'[c].img = call[c].img \/ call'[c] = NoCall
  <2>1. call[c] \in CallRec
    BY <1>4
  <2>2. /\ [call[c] EXCEPT !.from = NoJob].img = call[c].img
        /\ [call[c] EXCEPT !.pc = "sent", !.prev = NoKey].img = call[c].img
    BY <2>1 DEF CallRec
  <2>3. ConsumerCrash => call'[c] = [call[c] EXCEPT !.from = NoJob]
    BY DEF ConsumerCrash
  <2>4. WardrobeCrash =>
          \/ call'[c] = NoCall
          \/ call'[c] = [call[c] EXCEPT !.pc = "sent", !.prev = NoKey]
    BY DEF WardrobeCrash
  <2>5. ConsumerCrash \/ WardrobeCrash \/ UNCHANGED call
    BY <1>11 DEF Environment, BecomeStale, Redeliver, Expiry
  <2> QED
    BY <2>2, <2>3, <2>4, <2>5
<1>12. ASSUME \/ Submit \/ Sweep \/ UNCHANGED vars
              \/ \E r \in Requests : Handler(r)
       PROVE  UNCHANGED call
  BY <1>12
  DEF Submit, Sweep, vars, wardrobeVars, Handler, FindMissing, RetryFind,
      UpdateFind, DeleteFind, CheckOriginal, DeleteImage, StorePhoto,
      DeleteOriginal, Save, Reply, DeleteRow
<1> QED
  BY <1>6, <1>7, <1>8, <1>10, <1>11, <1>12 DEF Next

(* A job's image is the one it stored below the users' folder. *)
LEMMA PlacedJobsNext ==
  ASSUME Typed, Placement, [Next]_vars
  PROVE  JobsPlaced'
<1>1. \A j \in Jobs : ImagePlaced(prefix', job[j].img)
  BY PrefixStep, PlacedKept DEF Typed, JobsTyped, JobRec, Placement, JobsPlaced
<1>2. job \in [Jobs -> JobRec] /\ \A j \in Jobs : job[j] \in JobRec
  BY DEF Typed, JobsTyped
<1>3. SUFFICES ASSUME NEW x \in Jobs PROVE ImagePlaced(prefix', job'[x].img)
  BY DEF JobsPlaced, ImagePlaced
<1>4. CASE job'[x].img \in {job[x].img, NoKey}
  BY <1>1, <1>4 DEF ImagePlaced
<1>5. ASSUME NEW j \in Jobs, NEW pc, JobGoto(j, pc) \/ AckJob(j)
      PROVE  job'[x].img \in {job[x].img, NoKey}
  BY <1>2, <1>5 DEF JobGoto, AckJob, IdleJob, JobRec
<1>7. ASSUME NEW r \in Requests, Handler(r)
      PROVE  job'[x].img \in {job[x].img, NoKey}
  <2>1. ASSUME Save(r) PROVE job'[x].img \in {job[x].img, NoKey}
    <3>1. PICK i \in Items : Emit(i, req[r].entity.temp) \/ UNCHANGED job
      BY <2>1 DEF Save
    <3> DEFINE m == [IdleJob EXCEPT !.pc = "queued", !.item = i,
                                    !.temp = req[r].entity.temp]
    <3>2. m.img = NoKey
      BY DEF IdleJob
    <3>3. job' = job \/ job' = [job EXCEPT ![FreeJob] = m]
      BY <3>1 DEF Emit
    <3> QED
      BY <1>2, <3>2, <3>3
  <2> QED
    BY <1>7, <2>1
    DEF Handler, FindMissing, RetryFind, UpdateFind, DeleteFind, CheckOriginal,
        DeleteImage, StorePhoto, DeleteOriginal, Reply, DeleteRow
<1>8. ASSUME NEW c \in Calls, NEW outcome, Answer(c, outcome)
      PROVE  job'[x].img \in {job[x].img, NoKey}
  <2> DEFINE j == call[c].from
             next == AfterOutcome(call[c].status, outcome)
             n == IF next = "idle" THEN IdleJob ELSE [job[j] EXCEPT !.pc = next]
  <2>6. call[c] \in CallRec
    BY DEF Typed, CallsTyped
  <2>7. j \in Jobs \cup {NoJob}
    BY <2>6 DEF CallRec
  <2>1. job' = job \/ (j \in Jobs /\ job' = [job EXCEPT ![j] = n])
    BY <1>8, <2>7 DEF Answer
  <2>2. IdleJob.img = NoKey
    BY DEF IdleJob
  <2>3. [job[x] EXCEPT !.pc = next].img = job[x].img
    BY <1>2 DEF JobRec
  <2>4. x = j => n.img \in {job[x].img, NoKey}
    BY <2>2, <2>3
  <2>5. job'[x] = job[x] \/ (x = j /\ job'[x] = n)
    <3> HIDE DEF n
    <3> QED
      BY <1>2, <2>1
  <2> QED
    BY <2>4, <2>5
<1>9. ASSUME NEW c \in Calls, ApplyResult(c)
      PROVE  job'[x].img \in {job[x].img, NoKey}
  BY <1>8, <1>9 DEF ApplyResult, ApplyUpdate, ApplyLookup, ApplyFinish
<1>10. ASSUME NEW j \in Jobs, StoreGenerated(j)
       PROVE  ImagePlaced(prefix', job'[x].img)
  <2> DEFINE m == [job[j] EXCEPT !.pc = "generated", !.img = NewKey]
  <2>1. prefix'[NewKey] = "user"
    BY <1>10, UploadPlaces DEF StoreGenerated
  <2>2. m.img = NewKey
    BY <1>2 DEF JobRec
  <2>3. job' = [job EXCEPT ![j] = m]
    BY <1>2, <1>10 DEF StoreGenerated
  <2>4. job'[x] = job[x] \/ job'[x] = m
    BY <1>2, <2>3
  <2>5. ImagePlaced(prefix', m.img)
    BY <2>1, <2>2 DEF ImagePlaced
  <2> QED
    BY <1>1, <2>4, <2>5
<1>11. ASSUME NEW j \in Jobs, DiscardImage(j)
       PROVE  job'[x].img \in {job[x].img, NoKey}
  <2> DEFINE m == [job[j] EXCEPT !.pc = "cleanup", !.img = NoKey]
  <2>1. m.img = NoKey
    BY <1>2 DEF JobRec
  <2>2. AckJob(j) \/ job' = [job EXCEPT ![j] = m]
    BY <1>2, <1>11 DEF DiscardImage
  <2>3. AckJob(j) => job'[x].img \in {job[x].img, NoKey}
    BY <1>5
  <2>4. job' = [job EXCEPT ![j] = m] => job'[x] = job[x] \/ job'[x] = m
    BY <1>2
  <2> QED
    BY <2>1, <2>2, <2>3, <2>4
<1>12. ASSUME NEW j \in Jobs, Consumer(j)
       PROVE  ImagePlaced(prefix', job'[x].img)
  <2>1. StoreGenerated(j) \/ DiscardImage(j) \/ AckJob(j) \/ \E pc : JobGoto(j, pc)
    BY <1>12
    DEF Consumer, CheckPending, SkipUnreadable, LoadOriginal, GenerationFails,
        GenerationSucceeds, SendResult, OutcomeTimeout, DeleteTempOriginal
  <2> QED
    BY <1>4, <1>5, <1>10, <1>11, <2>1
<1>13. ASSUME Environment PROVE job'[x].img \in {job[x].img, NoKey}
  <2>1. ASSUME ConsumerCrash PROVE job'[x].img \in {job[x].img, NoKey}
    BY <1>2, <2>1 DEF ConsumerCrash, JobRec
  <2>2. ASSUME NEW j \in Jobs, Redeliver(j)
        PROVE  job'[x].img \in {job[x].img, NoKey}
    <3> DEFINE m == [IdleJob EXCEPT !.pc = "queued", !.item = job[j].item,
                                    !.temp = job[j].temp]
    <3>1. m.img = NoKey
      BY DEF IdleJob
    <3>2. job' = [job EXCEPT ![FreeJob] = m]
      BY <2>2 DEF Redeliver
    <3> QED
      BY <1>2, <3>1, <3>2
  <2> QED
    BY <1>13, <2>1, <2>2
    DEF Environment, BecomeStale, Expiry, WardrobeCrash
<1>14. ASSUME Submit \/ Sweep \/ UNCHANGED vars PROVE UNCHANGED job
  BY <1>14 DEF Submit, Sweep, vars, wardrobeVars
<1> QED
  BY <1>4, <1>7, <1>9, <1>12, <1>13, <1>14 DEF Next

LEMMA PlacementInit == Init => Placement
  BY BlankConsistent
  DEF Init, WardrobeInit, Placement, RowsPlaced, ReqsPlaced, CallsPlaced,
      JobsPlaced, Placed, ImagePlaced, NoRow, NewEntity, NoCall, IdleJob

LEMMA PlacementNext ==
  ASSUME Typed, Agree, Placement, [Next]_vars
  PROVE  Placement'
  BY PlacedRowsNext, PlacedReqsNext, PlacedCallsNext, PlacedJobsNext
  DEF Placement

(* No image that an item shows ever lies below tmp/, where the seven-day rule *)
(* would delete it, and every original that an item retains does: however     *)
(* uploads, late results and copies of rows interleave.                       *)
THEOREM ImagesOutliveTheRule == Spec => []PrefixesKept
<1>1. Placement => PrefixesKept
  BY DEF Placement, RowsPlaced, Placed, PrefixesKept
<1>2. Spec => []Placement
  BY AlwaysAgree, PlacementInit, PlacementNext, PTL DEF Spec
<1> QED
  BY <1>1, <1>2, PTL

-----------------------------------------------------------------------------
(* No two items share an object.  An item's objects are named by its row, by *)
(* requests and RPCs about it and by its jobs; a photo just uploaded for an  *)
(* item that has no id yet, by the create alone.                             *)

RowNames(e, k) == k \in {e.img, e.temp}
ReqNames(q, i, k) == q.item = i /\ k \in {q.entity.img, q.entity.temp, q.old}
CallNames(m, i, k) == m.item = i /\ m.img = k
JobNames(m, i, k) == m.item = i /\ k \in {m.img, m.temp}

ItemNames(i, k) ==
  \/ RowNames(row[i], k)
  \/ \E r \in Requests : ReqNames(req[r], i, k)
  \/ \E c \in Calls : CallNames(call[c], i, k)
  \/ \E j \in Jobs : JobNames(job[j], i, k)

(* A create that has saved its row keeps the entity, but writes it no more.  *)
CreateNames(q, k) ==
  /\ q.op = "create" /\ q.pc \notin {"reply", "unacked"}
  /\ k \in {q.entity.img, q.entity.temp}

NamesApart ==
  \A k \in Keys :
    /\ \A i, l \in Items : ItemNames(i, k) /\ ItemNames(l, k) => i = l
    /\ \A r \in Requests, i \in Items : ~ (CreateNames(req[r], k) /\ ItemNames(i, k))
    /\ \A r, s \in Requests : CreateNames(req[r], k) /\ CreateNames(req[s], k) => r = s

(* What is named has been stored under that name. *)
NamesUsed ==
  \A k \in Keys : prefix[k] = "none" =>
    /\ \A i \in Items : ~ ItemNames(i, k)
    /\ \A r \in Requests : ~ CreateNames(req[r], k)

Apart == NamesApart /\ NamesUsed

-----------------------------------------------------------------------------
(* A step that gives nobody a name keeps them apart. *)

RowsKeep == \A k \in Keys : \A i \in Items : RowNames(row'[i], k) => ItemNames(i, k)
ReqsKeep == \A k \in Keys : \A i \in Items : \A r \in Requests :
              ReqNames(req'[r], i, k) => ItemNames(i, k)
CallsKeep == \A k \in Keys : \A i \in Items : \A c \in Calls :
              CallNames(call'[c], i, k) => ItemNames(i, k)
JobsKeep == \A k \in Keys : \A i \in Items : \A j \in Jobs :
              JobNames(job'[j], i, k) => ItemNames(i, k)
CreatesKeep == \A k \in Keys : \A r \in Requests :
                 CreateNames(req'[r], k) => CreateNames(req[r], k)

(* A name taken by an upload, for an item or for a create; and the names an  *)
(* item takes over from the create that made it.                             *)
Taken(x, n) ==
  \A k \in Keys : \A i \in Items : ItemNames(i, k)' => ItemNames(i, k) \/ (i = x /\ k = n)

LEMMA AllKeep ==
  ASSUME RowsKeep, ReqsKeep, CallsKeep, JobsKeep
  PROVE  \A k \in Keys : \A i \in Items : ItemNames(i, k)' => ItemNames(i, k)
BY DEF RowsKeep, ReqsKeep, CallsKeep, JobsKeep, ItemNames, RowNames, ReqNames, CallNames,
   JobNames

LEMMA UsedStays ==
  ASSUME Typed, KeepsPrefixes
  PROVE  \A k \in Keys : prefix'[k] = "none" => prefix[k] = "none"
BY DEF KeepsPrefixes

LEMMA ApartKept ==
  ASSUME Typed, Apart, KeepsPrefixes, RowsKeep, ReqsKeep, CallsKeep, JobsKeep, CreatesKeep
  PROVE  Apart'
<1>1. \A k \in Keys : \A i \in Items : ItemNames(i, k)' => ItemNames(i, k)
  BY AllKeep
<1>2. \A k \in Keys : \A r \in Requests :
        CreateNames(req[r], k)' => CreateNames(req[r], k)
  BY DEF CreatesKeep, CreateNames
<1>3. NamesApart'
  BY <1>1, <1>2 DEF Apart, NamesApart
<1>4. NamesUsed'
  BY <1>1, <1>2, UsedStays DEF Apart, NamesUsed
<1> QED
  BY <1>3, <1>4 DEF Apart

LEMMA ApartUpload ==
  ASSUME Typed, Apart, KeepsPrefixes, NEW n \in Keys, prefix[n] = "none", prefix'[n] # "none",
         NEW x \in Items, Taken(x, n), CreatesKeep
  PROVE  Apart'
<1>1. \A k \in Keys : \A r \in Requests :
        CreateNames(req[r], k)' => CreateNames(req[r], k)
  BY DEF CreatesKeep, CreateNames
<1>2. /\ \A i \in Items : ~ ItemNames(i, n)
      /\ \A r \in Requests : ~ CreateNames(req[r], n)
  BY DEF Apart, NamesUsed
<1>3. NamesApart'
  BY <1>1, <1>2 DEF Taken, Apart, NamesApart
<1>4. NamesUsed'
  BY <1>1, UsedStays DEF Taken, Apart, NamesUsed
<1> QED
  BY <1>3, <1>4 DEF Apart

LEMMA ApartCreate ==
  ASSUME Typed, Apart, KeepsPrefixes, NEW n \in Keys, prefix[n] = "none", prefix'[n] # "none",
         NEW x \in Requests, RowsKeep, ReqsKeep, CallsKeep, JobsKeep,
         \A k \in Keys : \A r \in Requests :
           CreateNames(req'[r], k) => CreateNames(req[r], k) \/ (r = x /\ k = n)
  PROVE  Apart'
<1>1. \A k \in Keys : \A i \in Items : ItemNames(i, k)' => ItemNames(i, k)
  BY AllKeep
<1>2. \A k \in Keys : \A r \in Requests :
        CreateNames(req[r], k)' => CreateNames(req[r], k) \/ (r = x /\ k = n)
  BY DEF CreateNames
<1>3. /\ \A i \in Items : ~ ItemNames(i, n)
      /\ \A r \in Requests : ~ CreateNames(req[r], n)
  BY DEF Apart, NamesUsed
<1>4. NamesApart'
  BY <1>1, <1>2, <1>3 DEF Apart, NamesApart
<1>5. NamesUsed'
  BY <1>1, <1>2, UsedStays DEF Apart, NamesUsed
<1> QED
  BY <1>4, <1>5 DEF Apart

LEMMA ApartSaved ==
  ASSUME Typed, Apart, KeepsPrefixes, NEW x \in Items, NEW r \in Requests,
         \A k \in Keys : \A i \in Items :
           ItemNames(i, k)' => ItemNames(i, k) \/ (i = x /\ CreateNames(req[r], k)),
         \A k \in Keys : \A s \in Requests :
           CreateNames(req'[s], k) => CreateNames(req[s], k) /\ s # r
  PROVE  Apart'
<1>1. \A k \in Keys : \A s \in Requests :
        CreateNames(req[s], k)' => CreateNames(req[s], k) /\ s # r
  BY DEF CreateNames
<1>2. NamesApart'
  BY <1>1 DEF Apart, NamesApart
<1>3. NamesUsed'
  BY <1>1, UsedStays DEF Apart, NamesUsed
<1> QED
  BY <1>2, <1>3 DEF Apart

-----------------------------------------------------------------------------
(* Who may name an object after a step. *)

LEMMA SameKeep ==
  /\ UNCHANGED row => RowsKeep
  /\ UNCHANGED req => ReqsKeep /\ CreatesKeep
  /\ UNCHANGED call => CallsKeep
  /\ UNCHANGED job => JobsKeep
<1>1. UNCHANGED row => RowsKeep
  BY DEF RowsKeep, ItemNames
<1>2. UNCHANGED req => ReqsKeep /\ CreatesKeep
  BY DEF ReqsKeep, CreatesKeep, ItemNames
<1>3. UNCHANGED call => CallsKeep
  BY DEF CallsKeep, ItemNames
<1>4. UNCHANGED job => JobsKeep
  BY DEF JobsKeep, ItemNames
<1> QED
  BY <1>1, <1>2, <1>3, <1>4

LEMMA NamesOfBlanks ==
  ASSUME NEW k \in Keys
  PROVE  /\ ~ RowNames(NoRow, k) /\ ~ RowNames(NewEntity, k)
         /\ \A i : ~ CallNames(NoCall, i, k) /\ ~ JobNames(IdleJob, i, k)
         /\ \A op, photo, x, i : /\ ~ ReqNames(Message(op, photo, x), i, k)
                                 /\ ~ CreateNames(Message(op, photo, x), k)
         /\ \A i : ~ ReqNames(Done, i, k) /\ ~ CreateNames(Done, k)
<1>1. k # NoKey
  BY NoKeyAssumption
<1>2. NewEntity.img = NoKey /\ NewEntity.temp = NoKey
  BY DEF NewEntity, NoRow
<1>3. ~ RowNames(NoRow, k) /\ ~ RowNames(NewEntity, k)
  BY <1>1, <1>2 DEF RowNames, NoRow
<1>4. \A i : ~ CallNames(NoCall, i, k) /\ ~ JobNames(IdleJob, i, k)
  BY <1>1 DEF CallNames, JobNames, NoCall, IdleJob
<1>5. \A op, photo, x : /\ Message(op, photo, x).entity = NewEntity
                        /\ Message(op, photo, x).old = NoKey
  BY DEF Message
<1>6. Done.entity = NewEntity /\ Done.old = NoKey
  BY DEF Done, Unsent, Message
<1> QED
  BY <1>1, <1>2, <1>3, <1>4, <1>5, <1>6 DEF ReqNames, CreateNames

LEMMA KeepReq ==
  ASSUME Typed, NEW r \in Requests, NEW q, req' = [req EXCEPT ![r] = q],
         \A k \in Keys : \A i \in Items : ReqNames(q, i, k) => ItemNames(i, k),
         \A k \in Keys : CreateNames(q, k) => CreateNames(req[r], k)
  PROVE  ReqsKeep /\ CreatesKeep
<1>1. \A s \in Requests : req'[s] = IF s = r THEN q ELSE req[s]
  BY DEF Typed, ReqsTyped
<1>2. \A k \in Keys : \A i \in Items : \A s \in Requests :
        ReqNames(req[s], i, k) => ItemNames(i, k)
  BY DEF ItemNames
<1> QED
  BY <1>1, <1>2 DEF ReqsKeep, CreatesKeep

LEMMA KeepGoto ==
  ASSUME Typed, NEW r \in Requests, NEW pc, Goto(r, pc) \/ Acked(r),
         req[r].pc \notin {"reply", "unacked"} \/ pc \in {"reply", "unacked"}
  PROVE  ReqsKeep /\ CreatesKeep
<1>1. CASE Goto(r, pc)
  <2>1. PICK q : q = [req[r] EXCEPT !.pc = pc]
    OBVIOUS
  <2>2. /\ q.pc = pc /\ q.op = req[r].op /\ q.item = req[r].item
        /\ q.entity = req[r].entity /\ q.old = req[r].old
    BY <2>1 DEF Typed, ReqsTyped, Req
  <2>3. req' = [req EXCEPT ![r] = q]
    BY <1>1, <2>1 DEF Goto
  <2>4. \A k \in Keys : \A i \in Items : ReqNames(q, i, k) => ItemNames(i, k)
    BY <2>2 DEF ReqNames, ItemNames
  <2>5. \A k \in Keys : CreateNames(q, k) => CreateNames(req[r], k)
    BY <2>2 DEF CreateNames
  <2> QED
    BY <2>3, <2>4, <2>5, KeepReq
<1>2. CASE Acked(r)
  BY <1>2, NamesOfBlanks, KeepReq DEF Acked
<1> QED
  BY <1>1, <1>2

LEMMA KeepLoad ==
  ASSUME Typed, NEW r \in Requests, NEW pc, req[r].item \in Items, req[r].op # "create",
         Load(r, pc)
  PROVE  ReqsKeep /\ CreatesKeep
<1>1. PICK x \in Items : x = req[r].item
  OBVIOUS
<1>2. PICK q : q = [req[r] EXCEPT !.pc = pc, !.entity = row[x], !.old = row[x].temp]
  OBVIOUS
<1>3. /\ q.op = req[r].op /\ q.item = x /\ q.entity = row[x] /\ q.old = row[x].temp
  BY <1>1, <1>2 DEF Typed, ReqsTyped, Req
<1>4. req' = [req EXCEPT ![r] = q]
  BY <1>1, <1>2 DEF Load
<1>5. \A k \in Keys : \A i \in Items : ReqNames(q, i, k) => ItemNames(i, k)
  BY <1>3 DEF ReqNames, RowNames, ItemNames
<1>6. \A k \in Keys : ~ CreateNames(q, k)
  BY <1>3 DEF CreateNames
<1> QED
  BY <1>4, <1>5, <1>6, KeepReq

LEMMA KeepCheckOriginal ==
  ASSUME Typed, NEW r \in Requests, CheckOriginal(r)
  PROVE  ReqsKeep /\ CreatesKeep
<1>1. req[r] \in Req /\ req[r].entity \in Row /\ req[r].pc = "exists" /\ req[r].op # "create"
  BY DEF Typed, ReqsTyped, GoodReq, Req, CheckOriginal
<1>2. PICK e : e = AwaitingImage(req[r].entity, req[r].entity.temp)
  OBVIOUS
<1>3. e.img = req[r].entity.img /\ e.temp = req[r].entity.temp
  BY <1>1, <1>2 DEF AwaitingImage, Row
<1>4. PICK q : q = [req[r] EXCEPT !.pc = "save", !.entity = e]
  OBVIOUS
<1>5. /\ q.op = req[r].op /\ q.item = req[r].item /\ q.entity = e /\ q.old = req[r].old
  BY <1>1, <1>4 DEF Req
<1>6. req' = [req EXCEPT ![r] = q] \/ Acked(r)
  BY <1>1, <1>2, <1>4 DEF CheckOriginal, Typed, ReqsTyped
<1>7. \A k \in Keys : \A i \in Items : ReqNames(q, i, k) => ItemNames(i, k)
  BY <1>3, <1>5 DEF ReqNames, ItemNames
<1>8. \A k \in Keys : ~ CreateNames(q, k)
  BY <1>1, <1>5 DEF CreateNames
<1>9. CASE req' = [req EXCEPT ![r] = q]
  BY <1>7, <1>8, <1>9, KeepReq
<1>10. CASE Acked(r)
  BY <1>1, <1>10, KeepGoto
<1> QED
  BY <1>6, <1>9, <1>10

LEMMA ReqsKeepNext ==
  ASSUME Typed, [Next]_vars, \A r \in Requests : StorePhoto(r) => Unacked(r)
  PROVE  ReqsKeep /\ CreatesKeep
<1>1. CASE Submit
  <2>1. PICK r \in Requests, op \in Ops, photo \in Photos \cup {"none"},
             i \in created \cup {NoItem} :
          req' = [req EXCEPT ![r] = Message(op, photo, i)]
    BY <1>1 DEF Submit
  <2> QED
    BY <2>1, NamesOfBlanks, KeepReq
<1>2. ASSUME NEW r \in Requests, Handler(r) PROVE ReqsKeep /\ CreatesKeep
  <2>1. CASE CheckOriginal(r)
    BY <2>1, KeepCheckOriginal
  <2>2. CASE StorePhoto(r)
    BY <2>2, KeepGoto DEF Unacked
  <2>3. CASE FindMissing(r) \/ RetryFind(r) \/ UpdateFind(r) \/ DeleteFind(r)
    <3>1. req[r].item \in Items /\ req[r].op # "create" /\ req[r].pc = "find"
      BY <2>3 DEF Typed, ReqsTyped, GoodReq, FindMissing, RetryFind, UpdateFind,
                  DeleteFind
    <3>2. (\E pc : Goto(r, pc) \/ Load(r, pc)) \/ Acked(r)
      BY <2>3 DEF FindMissing, RetryFind, UpdateFind, DeleteFind, Unacked
    <3> QED
      BY <3>1, <3>2, KeepGoto, KeepLoad
  <2>4. CASE DeleteImage(r) \/ DeleteOriginal(r) \/ Save(r) \/ DeleteRow(r)
    <3>1. (\E pc : Goto(r, pc)) \/ Acked(r)
      BY <2>4 DEF DeleteImage, DeleteOriginal, Save, DeleteRow, Unacked
    <3>2. req[r].pc \notin {"reply", "unacked"}
      BY <2>4 DEF DeleteImage, DeleteOriginal, Save, DeleteRow
    <3> QED
      BY <3>1, <3>2, KeepGoto
  <2>5. CASE Reply(r)
    BY <2>5, KeepGoto DEF Reply, Unacked
  <2> QED
    BY <1>2, <2>1, <2>2, <2>3, <2>4, <2>5 DEF Handler
<1>3. CASE WardrobeCrash
  <2>1. \A r \in Requests :
          req'[r] = req[r] \/ \E op, photo, x : req'[r] = Message(op, photo, x)
    BY <1>3 DEF WardrobeCrash
  <2>2. \A k \in Keys : \A i \in Items : \A r \in Requests :
          ReqNames(req[r], i, k) => ItemNames(i, k)
    BY DEF ItemNames
  <2> QED
    BY <2>1, <2>2, NamesOfBlanks DEF ReqsKeep, CreatesKeep
<1>4. ASSUME NEW c \in Calls, ApplyResult(c) PROVE UNCHANGED req
  BY <1>4 DEF ApplyResult, ApplyUpdate, ApplyLookup, ApplyFinish
<1>5. ASSUME NEW j \in Jobs, Consumer(j) PROVE UNCHANGED req
  BY <1>5
  DEF Consumer, CheckPending, SkipUnreadable, LoadOriginal, GenerationFails,
      StoreGenerated, GenerationSucceeds, OutcomeTimeout, DiscardImage,
      DeleteTempOriginal
<1>6. ASSUME Environment PROVE WardrobeCrash \/ UNCHANGED req
  BY <1>6 DEF Environment, BecomeStale, Redeliver, Expiry, ConsumerCrash
<1>7. ASSUME Sweep \/ UNCHANGED vars PROVE UNCHANGED req
  BY <1>7 DEF Sweep, vars, wardrobeVars
<1> QED
  BY <1>1, <1>2, <1>3, <1>4, <1>5, <1>6, <1>7, SameKeep DEF Next

LEMMA RowsKeepNext ==
  ASSUME Typed, [Next]_vars, \A r \in Requests : Save(r) => req[r].op # "create"
  PROVE  RowsKeep
<1>1. row \in [Items -> Row] /\ \A i \in Items : row[i] \in Row
  BY DEF Typed, RowsTyped
<1> SUFFICES ASSUME NEW k \in Keys, NEW i \in Items, RowNames(row'[i], k)
             PROVE  ItemNames(i, k)
  BY DEF RowsKeep
<1>2. RowNames(row[i], k) => ItemNames(i, k)
  BY DEF ItemNames
<1>3. CASE UNCHANGED row
  BY <1>2, <1>3
<1>4. ASSUME NEW r \in Requests, Save(r) PROVE ItemNames(i, k)
  <2>1. PICK x \in Items : x = req[r].item /\ row' = [row EXCEPT ![x] = req[r].entity]
    BY <1>4 DEF Save
  <2>2. CASE i = x
    <3>1. row'[i] = req[r].entity
      BY <1>1, <2>1, <2>2
    <3>2. ReqNames(req[r], i, k)
      BY <2>1, <2>2, <3>1 DEF RowNames, ReqNames
    <3> QED
      BY <3>2 DEF ItemNames
  <2>3. CASE i # x
    BY <1>1, <1>2, <2>1, <2>3
  <2> QED
    BY <2>2, <2>3
<1>5. ASSUME NEW r \in Requests, DeleteRow(r) PROVE ItemNames(i, k)
  <2>1. row'[i] = row[i] \/ row'[i] = NoRow
    BY <1>1, <1>5 DEF DeleteRow
  <2> QED
    BY <1>2, <2>1, NamesOfBlanks
<1>6. ASSUME NEW c \in Calls, ApplyUpdate(c) PROVE ItemNames(i, k)
  <2>1. PICK x \in Items : x = call[c].item
    BY <1>6 DEF Typed, CallsTyped, GoodCall, ApplyUpdate
  <2>2. PICK e : e = WithResult(row[x], call[c].status, call[c].img)
    OBVIOUS
  <2>3. e.img \in {row[x].img, call[c].img} /\ e.temp \in {row[x].temp, NoKey}
    BY <2>2 DEF WithResult
  <2>4. row'[i] = row[i] \/ (i = x /\ row'[i] = e)
    BY <1>1, <1>6, <2>1, <2>2 DEF ApplyUpdate
  <2>5. CASE row'[i] = row[i]
    BY <1>2, <2>5
  <2>6. CASE i = x /\ row'[i] = e
    <3>1. RowNames(row[i], k) \/ CallNames(call[c], i, k)
      BY <2>1, <2>3, <2>6, NoKeyAssumption DEF RowNames, CallNames
    <3> QED
      BY <3>1 DEF ItemNames
  <2> QED
    BY <2>4, <2>5, <2>6
<1>7. CASE Sweep
  <2>1. GivenUp(row[i]).img = row[i].img /\ GivenUp(row[i]).temp = row[i].temp
    BY <1>1 DEF GivenUp, Row
  <2>2. row'[i] = row[i] \/ row'[i] = GivenUp(row[i])
    BY <1>7 DEF Sweep
  <2> QED
    BY <1>2, <2>1, <2>2 DEF RowNames
<1>8. ASSUME NEW x \in Items, BecomeStale(x) PROVE ItemNames(i, k)
  <2>1. PICK e : e = [row[i] EXCEPT !.since = "stale"]
    OBVIOUS
  <2>2. e.img = row[i].img /\ e.temp = row[i].temp
    BY <1>1, <2>1 DEF Row
  <2>3. row'[i] = row[i] \/ row'[i] = e
    BY <1>1, <1>8, <2>1 DEF BecomeStale
  <2> QED
    BY <1>2, <2>2, <2>3 DEF RowNames
<1> QED
  BY <1>3, <1>4, <1>5, <1>6, <1>7, <1>8, RowWriters

(* An RPC is about its job's item and image. *)
LEMMA CallsKeepNext ==
  ASSUME Typed, [Next]_vars
  PROVE  CallsKeep
<1>1. call \in [Calls -> CallRec] /\ \A c \in Calls : call[c] \in CallRec
  BY DEF Typed, CallsTyped
<1>2. SUFFICES ASSUME NEW k \in Keys, NEW i \in Items, NEW c \in Calls,
                      CallNames(call'[c], i, k)
               PROVE  ItemNames(i, k)
  BY DEF CallsKeep
<1>3. CASE call'[c].img = call[c].img /\ call'[c].item = call[c].item
  BY <1>2, <1>3 DEF CallNames, ItemNames
<1>4. CASE call'[c] = NoCall
  BY <1>2, <1>4, NamesOfBlanks
<1>5. ASSUME NEW d \in Calls, ApplyResult(d)
      PROVE  \/ call'[c].img = call[c].img /\ call'[c].item = call[c].item
             \/ call'[c] = NoCall
  BY <1>1, <1>5 DEF ApplyResult, ApplyUpdate, ApplyLookup, ApplyFinish, CallRec
<1>6. ASSUME NEW j \in Jobs, NEW status, NEW img \in {NoKey, job[j].img},
             SendResult(j, status, img)
      PROVE  ItemNames(i, k)
  <2>1. PICK m : m = [NoCall EXCEPT !.pc = "sent", !.item = job[j].item,
                                    !.status = status, !.img = img, !.from = j]
    OBVIOUS
  <2>2. m.img = img /\ m.item = job[j].item
    BY <2>1 DEF NoCall
  <2>3. PICK d : call' = [call EXCEPT ![d] = m]
    BY <1>6, <2>1 DEF SendResult
  <2>4. call'[c] = call[c] \/ call'[c] = m
    BY <1>1, <2>3
  <2>5. CASE call'[c] = m
    BY <1>2, <2>2, <2>5, NoKeyAssumption DEF CallNames, JobNames, ItemNames
  <2> QED
    BY <1>3, <2>4, <2>5
<1>7. ASSUME NEW j \in Jobs, Consumer(j)
      PROVE  ItemNames(i, k)
  <2>1. CASE GenerationFails(j) \/ GenerationSucceeds(j)
    BY <1>6, <2>1 DEF GenerationFails, GenerationSucceeds
  <2>2. CASE OutcomeTimeout(j)
    <3>1. call'[c].img = call[c].img /\ call'[c].item = call[c].item
      BY <1>1, <2>2 DEF OutcomeTimeout, CallRec
    <3> QED
      BY <1>3, <3>1
  <2>3. CASE UNCHANGED call
    BY <1>3, <2>3
  <2> QED
    BY <1>7, <2>1, <2>2, <2>3
    DEF Consumer, CheckPending, SkipUnreadable, LoadOriginal, StoreGenerated,
        DiscardImage, DeleteTempOriginal
<1>8. ASSUME Environment
      PROVE  \/ call'[c].img = call[c].img /\ call'[c].item = call[c].item
             \/ call'[c] = NoCall
  <2>1. ConsumerCrash => call'[c] = [call[c] EXCEPT !.from = NoJob]
    BY DEF ConsumerCrash
  <2>2. WardrobeCrash => \/ call'[c] = NoCall
                         \/ call'[c] = [call[c] EXCEPT !.pc = "sent", !.prev = NoKey]
    BY DEF WardrobeCrash
  <2>3. /\ [call[c] EXCEPT !.from = NoJob].img = call[c].img
        /\ [call[c] EXCEPT !.from = NoJob].item = call[c].item
        /\ [call[c] EXCEPT !.pc = "sent", !.prev = NoKey].img = call[c].img
        /\ [call[c] EXCEPT !.pc = "sent", !.prev = NoKey].item = call[c].item
    BY <1>1 DEF CallRec
  <2>4. ConsumerCrash \/ WardrobeCrash \/ UNCHANGED call
    BY <1>8 DEF Environment, BecomeStale, Redeliver, Expiry
  <2> QED
    BY <2>1, <2>2, <2>3, <2>4
<1>9. ASSUME \/ Submit \/ Sweep \/ UNCHANGED vars
             \/ \E r \in Requests : Handler(r)
      PROVE  UNCHANGED call
  BY <1>9
  DEF Submit, Sweep, vars, wardrobeVars, Handler, FindMissing, RetryFind,
      UpdateFind, DeleteFind, CheckOriginal, DeleteImage, StorePhoto,
      DeleteOriginal, Save, Reply, DeleteRow
<1> QED
  BY <1>3, <1>4, <1>5, <1>7, <1>8, <1>9 DEF Next

(* What a job names after a step, its own upload aside, is what some job or, *)
(* for a job just queued, the request that queued it named.                  *)
LEMMA JobsFollow ==
  ASSUME Typed, [Next]_vars, NEW x \in Jobs
  PROVE  \/ /\ job'[x].item = job[x].item
            /\ job'[x].temp = job[x].temp /\ job'[x].img \in {job[x].img, NoKey}
         \/ job'[x] = IdleJob
         \/ StoreGenerated(x)
         \/ \E j \in Jobs : /\ job'[x].item = job[j].item /\ job'[x].temp = job[j].temp
                            /\ job'[x].img = NoKey
         \/ \E r \in Requests, i \in Items :
              /\ Save(r) /\ row' = [row EXCEPT ![i] = req[r].entity]
              /\ req[r].op # "create" => i = req[r].item
              /\ job'[x].item = i /\ job'[x].temp = req[r].entity.temp
              /\ job'[x].img = NoKey
<1> DEFINE Same == /\ job'[x].item = job[x].item
                   /\ job'[x].temp = job[x].temp /\ job'[x].img \in {job[x].img, NoKey}
<1>1. job \in [Jobs -> JobRec] /\ \A j \in Jobs : job[j] \in JobRec
  BY DEF Typed, JobsTyped
<1>2. CASE UNCHANGED job
  BY <1>2
<1>3. ASSUME NEW j \in Jobs, NEW pc, JobGoto(j, pc) \/ AckJob(j)
      PROVE  Same \/ job'[x] = IdleJob
  BY <1>1, <1>3 DEF JobGoto, AckJob, JobRec
<1>4. ASSUME NEW r \in Requests, Save(r)
      PROVE  \/ Same
             \/ \E i \in Items :
                  /\ row' = [row EXCEPT ![i] = req[r].entity]
                  /\ req[r].op # "create" => i = req[r].item
                  /\ job'[x].item = i /\ job'[x].temp = req[r].entity.temp
                  /\ job'[x].img = NoKey
  <2>1. PICK i \in Items :
          /\ row' = [row EXCEPT ![i] = req[r].entity]
          /\ req[r].op # "create" => i = req[r].item
          /\ Emit(i, req[r].entity.temp) \/ UNCHANGED job
    BY <1>4 DEF Save
  <2>2. PICK m : m = [IdleJob EXCEPT !.pc = "queued", !.item = i,
                                     !.temp = req[r].entity.temp]
    OBVIOUS
  <2>3. m.img = NoKey /\ m.item = i /\ m.temp = req[r].entity.temp
    BY <2>2 DEF IdleJob
  <2>4. job' = job \/ job' = [job EXCEPT ![FreeJob] = m]
    BY <2>1, <2>2 DEF Emit
  <2>5. job'[x] = job[x] \/ job'[x] = m
    BY <1>1, <2>4
  <2> QED
    BY <2>1, <2>3, <2>5
<1>5. ASSUME NEW r \in Requests, Handler(r) PROVE Save(r) \/ UNCHANGED job
  BY <1>5
  DEF Handler, FindMissing, RetryFind, UpdateFind, DeleteFind, CheckOriginal,
      DeleteImage, StorePhoto, DeleteOriginal, Reply, DeleteRow
<1>6. ASSUME NEW c \in Calls, NEW outcome, Answer(c, outcome)
      PROVE  Same \/ job'[x] = IdleJob
  <2>1. PICK j, next : /\ j = call[c].from /\ j \in Jobs \cup {NoJob}
                       /\ next = AfterOutcome(call[c].status, outcome)
    BY DEF Typed, CallsTyped, CallRec
  <2>2. PICK n : n = IF next = "idle" THEN IdleJob ELSE [job[j] EXCEPT !.pc = next]
    OBVIOUS
  <2>3. job' = job \/ (j \in Jobs /\ job' = [job EXCEPT ![j] = n])
    BY <1>6, <2>1, <2>2 DEF Answer
  <2>4. job'[x] = job[x] \/ (x = j /\ job'[x] = n)
    BY <1>1, <2>3
  <2>5. x = j => \/ n = IdleJob
                 \/ n.item = job[x].item /\ n.temp = job[x].temp /\ n.img = job[x].img
    BY <1>1, <2>2 DEF JobRec
  <2> QED
    BY <2>4, <2>5
<1>7. ASSUME NEW c \in Calls, ApplyResult(c) PROVE Same \/ job'[x] = IdleJob
  BY <1>6, <1>7 DEF ApplyResult, ApplyUpdate, ApplyLookup, ApplyFinish
<1>8. ASSUME NEW j \in Jobs, DiscardImage(j) PROVE Same \/ job'[x] = IdleJob
  <2>1. PICK m : m = [job[j] EXCEPT !.pc = "cleanup", !.img = NoKey]
    OBVIOUS
  <2>2. m.img = NoKey /\ m.item = job[j].item /\ m.temp = job[j].temp
    BY <1>1, <2>1 DEF JobRec
  <2>3. AckJob(j) \/ job' = [job EXCEPT ![j] = m]
    BY <1>1, <1>8, <2>1 DEF DiscardImage
  <2>4. CASE AckJob(j)
    BY <1>3, <2>4
  <2>5. CASE job' = [job EXCEPT ![j] = m]
    BY <1>1, <2>2, <2>5
  <2> QED
    BY <2>3, <2>4, <2>5
<1>9. ASSUME NEW j \in Jobs, StoreGenerated(j) PROVE Same \/ x = j
  BY <1>1, <1>9 DEF StoreGenerated
<1>10. ASSUME NEW j \in Jobs, Consumer(j)
       PROVE  Same \/ job'[x] = IdleJob \/ StoreGenerated(x)
  <2>1. StoreGenerated(j) \/ DiscardImage(j) \/ AckJob(j) \/ \E pc : JobGoto(j, pc)
    BY <1>10
    DEF Consumer, CheckPending, SkipUnreadable, LoadOriginal, GenerationFails,
        GenerationSucceeds, SendResult, OutcomeTimeout, DeleteTempOriginal
  <2>2. CASE StoreGenerated(j)
    <3>1. Same \/ x = j
      BY <1>9, <2>2
    <3> HIDE DEF Same
    <3> QED
      BY <2>2, <3>1
  <2>3. CASE DiscardImage(j) \/ AckJob(j) \/ \E pc : JobGoto(j, pc)
    BY <1>3, <1>8, <2>3
  <2> QED
    BY <2>1, <2>2, <2>3
<1>11. ASSUME ConsumerCrash PROVE Same
  <2>1. job'[x] = job[x] \/ job'[x] = [job[x] EXCEPT !.pc = "queued", !.img = NoKey]
    BY <1>11 DEF ConsumerCrash
  <2> QED
    BY <1>1, <2>1 DEF JobRec
<1>12. ASSUME NEW j \in Jobs, Redeliver(j)
       PROVE  \/ Same
              \/ /\ job'[x].item = job[j].item /\ job'[x].temp = job[j].temp
                 /\ job'[x].img = NoKey
  <2>1. PICK m : m = [IdleJob EXCEPT !.pc = "queued", !.item = job[j].item,
                                     !.temp = job[j].temp]
    OBVIOUS
  <2>2. m.img = NoKey /\ m.item = job[j].item /\ m.temp = job[j].temp
    BY <2>1 DEF IdleJob
  <2>3. job' = [job EXCEPT ![FreeJob] = m]
    BY <1>12, <2>1 DEF Redeliver
  <2>4. job'[x] = job[x] \/ job'[x] = m
    BY <1>1, <2>3
  <2> QED
    BY <2>2, <2>4
<1>13. ASSUME Environment
       PROVE  ConsumerCrash \/ (\E j \in Jobs : Redeliver(j)) \/ UNCHANGED job
  BY <1>13 DEF Environment, BecomeStale, Expiry, WardrobeCrash
<1>14. ASSUME Submit \/ Sweep \/ UNCHANGED vars PROVE UNCHANGED job
  BY <1>14 DEF Submit, Sweep, vars, wardrobeVars
<1> HIDE DEF Same
<1>15. CASE \/ Submit \/ Sweep \/ UNCHANGED vars
            \/ \E r \in Requests : Handler(r)
  BY <1>2, <1>4, <1>5, <1>14, <1>15 DEF Same
<1>16. CASE \/ \E c \in Calls : ApplyResult(c)
            \/ \E j \in Jobs : Consumer(j)
            \/ Environment
  BY <1>2, <1>7, <1>10, <1>11, <1>12, <1>13, <1>16 DEF Same
<1> QED
  BY <1>15, <1>16 DEF Next

LEMMA JobsKeepNext ==
  ASSUME Typed, [Next]_vars, \A r \in Requests : Save(r) => req[r].op # "create",
         \A j \in Jobs : ~ StoreGenerated(j)
  PROVE  JobsKeep
<1> SUFFICES ASSUME NEW k \in Keys, NEW i \in Items, NEW x \in Jobs,
                    JobNames(job'[x], i, k)
             PROVE  ItemNames(i, k)
  BY DEF JobsKeep
<1>1. k # NoKey
  BY NoKeyAssumption
<1>2. CASE /\ job'[x].item = job[x].item
           /\ job'[x].temp = job[x].temp /\ job'[x].img \in {job[x].img, NoKey}
  BY <1>1, <1>2 DEF JobNames, ItemNames
<1>3. CASE job'[x] = IdleJob
  BY <1>3, NamesOfBlanks
<1>4. ASSUME NEW j \in Jobs,
             job'[x].item = job[j].item, job'[x].temp = job[j].temp, job'[x].img = NoKey
      PROVE  ItemNames(i, k)
  BY <1>1, <1>4 DEF JobNames, ItemNames
<1>5. ASSUME NEW r \in Requests, NEW l \in Items, Save(r), req[r].op # "create" => l = req[r].item,
             job'[x].item = l, job'[x].temp = req[r].entity.temp, job'[x].img = NoKey
      PROVE  ItemNames(i, k)
  BY <1>1, <1>5 DEF JobNames, ReqNames, ItemNames
<1> QED
  BY <1>2, <1>3, <1>4, <1>5, JobsFollow

-----------------------------------------------------------------------------
(* The steps that do give a name. *)

(* A create is about no item; what it makes gets its number when it is saved.  *)
CreatesUnnumbered == \A r \in Requests : req[r].op = "create" => req[r].item = NoItem

LEMMA CreatesUnnumberedNext ==
  ASSUME Typed, CreatesUnnumbered, [Next]_vars
  PROVE  CreatesUnnumbered'
<1>1. CASE Submit
  <2>1. PICK r \in Requests, op \in Ops, photo \in Photos \cup {"none"},
             i \in created \cup {NoItem} :
          (op = "create" <=> i = NoItem) /\ req' = [req EXCEPT ![r] = Message(op, photo, i)]
    BY <1>1 DEF Submit
  <2>2. Message(op, photo, i).op = op /\ Message(op, photo, i).item = i
    BY DEF Message
  <2> QED
    BY <2>1, <2>2 DEF CreatesUnnumbered, Typed, ReqsTyped
<1>2. ASSUME NEW r \in Requests, Handler(r) PROVE CreatesUnnumbered'
  <2>1. \/ \E pc : Goto(r, pc) \/ Load(r, pc)
        \/ Acked(r)
        \/ CheckOriginal(r)
        \/ StorePhoto(r)
    BY <1>2
    DEF Handler, FindMissing, RetryFind, UpdateFind, DeleteFind, DeleteImage,
        DeleteOriginal, Save, Reply, DeleteRow, Unacked
  <2>2. req \in [Requests -> Req] /\ req[r] \in Req
    BY DEF Typed, ReqsTyped
  <2>3. Done.op = "create" /\ Done.item = NoItem
    BY DEF Done, Unsent, Message
  <2>4. /\ req'[r].op = req[r].op /\ req'[r].item = req[r].item
        \/ req'[r] = Done
    <3>1. CASE \E pc : Goto(r, pc) \/ Load(r, pc)
      BY <2>2, <3>1 DEF Goto, Load, Req
    <3>2. CASE Acked(r)
      BY <2>2, <3>2 DEF Acked
    <3>3. CASE CheckOriginal(r)
      BY <2>2, <3>3 DEF CheckOriginal, Acked, Req
    <3>4. CASE StorePhoto(r)
      BY <2>2, <3>4 DEF StorePhoto, Unacked, Goto, Req
    <3> QED
      BY <2>1, <3>1, <3>2, <3>3, <3>4
  <2>5. \A s \in Requests : s # r => req'[s] = req[s]
    BY <2>1, <2>2 DEF Goto, Load, Acked, CheckOriginal, StorePhoto, Unacked
  <2> QED
    BY <2>3, <2>4, <2>5 DEF CreatesUnnumbered
<1>3. CASE WardrobeCrash
  <2>1. \A r \in Requests :
          \/ req'[r] = req[r]
          \/ req'[r] = Message(req[r].op, req[r].photo,
                         IF req[r].op = "create" THEN NoItem ELSE req[r].item)
    BY <1>3 DEF WardrobeCrash
  <2>2. ASSUME NEW op, NEW photo, NEW i
        PROVE  Message(op, photo, i).op = op /\ Message(op, photo, i).item = i
    BY DEF Message
  <2>3. ASSUME NEW r \in Requests, req'[r].op = "create" PROVE req'[r].item = NoItem
    <3>1. PICK op, i : op = req[r].op /\ i = req[r].item
      OBVIOUS
    <3>2. req'[r] = req[r]
          \/ req'[r] = Message(op, req[r].photo, IF op = "create" THEN NoItem ELSE i)
      BY <2>1, <3>1
    <3> QED
      BY <2>2, <2>3, <3>1, <3>2 DEF CreatesUnnumbered
  <2> QED
    BY <2>3 DEF CreatesUnnumbered
<1>4. ASSUME NEW c \in Calls, ApplyResult(c) PROVE UNCHANGED req
  BY <1>4 DEF ApplyResult, ApplyUpdate, ApplyLookup, ApplyFinish
<1>5. ASSUME NEW j \in Jobs, Consumer(j) PROVE UNCHANGED req
  BY <1>5
  DEF Consumer, CheckPending, SkipUnreadable, LoadOriginal, GenerationFails,
      StoreGenerated, GenerationSucceeds, OutcomeTimeout, DiscardImage,
      DeleteTempOriginal
<1>6. ASSUME Environment PROVE WardrobeCrash \/ UNCHANGED req
  BY <1>6 DEF Environment, BecomeStale, Redeliver, Expiry, ConsumerCrash
<1>7. ASSUME Sweep \/ UNCHANGED vars PROVE UNCHANGED req
  BY <1>7 DEF Sweep, vars, wardrobeVars
<1>8. CASE UNCHANGED req
  BY <1>8 DEF CreatesUnnumbered
<1> QED
  BY <1>1, <1>2, <1>3, <1>4, <1>5, <1>6, <1>7, <1>8 DEF Next

LEMMA UploadNew ==
  ASSUME Typed, NEW p, Upload(p), p # "none"
  PROVE  NewKey \in Keys /\ prefix[NewKey] = "none" /\ prefix'[NewKey] # "none"
BY UploadPlaces, NewKeyType DEF Upload

LEMMA ApartStorePhoto ==
  ASSUME Typed, CreatesUnnumbered, Apart, KeepsPrefixes, NEW r \in Requests, StorePhoto(r),
         ~ Unacked(r)
  PROVE  Apart'
<1>1. PICK n : n = NewKey
  OBVIOUS
<1>2. PICK e : e = IF req[r].pc = "storeTmp" THEN AwaitingImage(req[r].entity, n)
                   ELSE ShowingPhoto(req[r].entity, n)
  OBVIOUS
<1>3. PICK pc : pc = IF req[r].old # NoKey THEN "delTemp" ELSE "save"
  OBVIOUS
<1>4. PICK q : q = [req[r] EXCEPT !.pc = pc, !.entity = e]
  OBVIOUS
<1>5. /\ req' = [req EXCEPT ![r] = q] /\ Upload(PhotoPrefix(req[r].pc))
      /\ UNCHANGED <<row, created, call, job>> /\ req[r].pc \in {"storeTmp", "storeImg"}
  BY <1>1, <1>2, <1>3, <1>4 DEF StorePhoto
<1>6. n \in Keys /\ prefix[n] = "none" /\ prefix'[n] # "none"
  BY <1>1, <1>5, UploadNew DEF PhotoPrefix
<1>7. /\ req[r] \in Req /\ req[r].entity \in Row /\ req \in [Requests -> Req]
      /\ req[r].op # "create" => req[r].item \in Items
  BY <1>5 DEF Typed, ReqsTyped, GoodReq, Req
<1>8. {e.img, e.temp} \subseteq {req[r].entity.img, n, NoKey}
  BY <1>2, <1>7 DEF AwaitingImage, ShowingPhoto, Row
<1>9. /\ q.op = req[r].op /\ q.item = req[r].item /\ q.entity = e /\ q.old = req[r].old
      /\ q.pc = pc
  BY <1>4, <1>7 DEF Req
<1>10. RowsKeep /\ CallsKeep /\ JobsKeep
  BY <1>5, SameKeep
<1>11. \A s \in Requests : req'[s] = IF s = r THEN q ELSE req[s]
  BY <1>5, <1>7
<1>12. \A k \in Keys : \A i \in Items : \A s \in Requests :
        ReqNames(req[s], i, k) => ItemNames(i, k)
  BY DEF ItemNames
<1>13. CASE req[r].op = "create"
  <2>1. req[r].item \notin Items
    BY <1>13, PipelineAssumption DEF CreatesUnnumbered
  <2>2. ReqsKeep
    BY <1>9, <1>11, <1>12, <2>1 DEF ReqsKeep, ReqNames
  <2>3. \A k \in Keys : \A s \in Requests :
          CreateNames(req'[s], k) => CreateNames(req[s], k) \/ (s = r /\ k = n)
    BY <1>5, <1>8, <1>9, <1>11, NoKeyAssumption DEF CreateNames
  <2> QED
    BY <1>6, <1>10, <2>2, <2>3, ApartCreate
<1>14. CASE req[r].op # "create"
  <2>1. CreatesKeep
    BY <1>9, <1>11, <1>14 DEF CreatesKeep, CreateNames
  <2>2. PICK x \in Items : x = req[r].item
    BY <1>7, <1>14
  <2>3. \A k \in Keys : \A i \in Items : \A s \in Requests :
          ReqNames(req'[s], i, k) => ItemNames(i, k) \/ (i = x /\ k = n)
    BY <1>8, <1>9, <1>11, <1>12, <2>2, NoKeyAssumption DEF ReqNames
  <2>4. Taken(x, n)
    BY <1>10, <2>3 DEF Taken, RowsKeep, CallsKeep, JobsKeep, ItemNames, RowNames, ReqNames,
       CallNames, JobNames
  <2> QED
    BY <1>6, <2>1, <2>2, <2>4, ApartUpload
<1> QED
  BY <1>13, <1>14

LEMMA ApartStoreGenerated ==
  ASSUME Typed, Apart, KeepsPrefixes, NEW j \in Jobs, StoreGenerated(j)
  PROVE  Apart'
<1>1. PICK n : n = NewKey
  OBVIOUS
<1>2. n \in Keys /\ prefix[n] = "none" /\ prefix'[n] # "none"
  BY <1>1, UploadNew DEF StoreGenerated
<1>3. job \in [Jobs -> JobRec] /\ job[j] \in JobRec /\ job[j].item \in Items
  BY DEF Typed, JobsTyped, GoodJob, StoreGenerated
<1>4. PICK m : m = [job[j] EXCEPT !.pc = "generated", !.img = n]
  OBVIOUS
<1>5. m.item = job[j].item /\ m.temp = job[j].temp /\ m.img = n
  BY <1>3, <1>4 DEF JobRec
<1>6. job' = [job EXCEPT ![j] = m] /\ UNCHANGED <<row, req, call>>
  BY <1>1, <1>3, <1>4 DEF StoreGenerated
<1>7. \A x \in Jobs : job'[x] = IF x = j THEN m ELSE job[x]
  BY <1>3, <1>6
<1>8. RowsKeep /\ ReqsKeep /\ CreatesKeep /\ CallsKeep
  BY <1>6, SameKeep
<1>9. PICK y \in Items : y = job[j].item
  BY <1>3
<1>10. \A k \in Keys : \A i \in Items : \A x \in Jobs :
         JobNames(job'[x], i, k) => ItemNames(i, k) \/ (i = y /\ k = n)
  BY <1>5, <1>7, <1>9 DEF JobNames, ItemNames
<1>11. Taken(y, n)
  BY <1>8, <1>10 DEF Taken, RowsKeep, ReqsKeep, CallsKeep, ItemNames, RowNames, ReqNames,
     CallNames, JobNames
<1> QED
  BY <1>2, <1>8, <1>9, <1>11, ApartUpload

LEMMA ApartSave ==
  ASSUME Typed, CreatesUnnumbered, Apart, KeepsPrefixes, [Next]_vars, NEW r \in Requests,
         Save(r), req[r].op = "create"
  PROVE  Apart'
<1>1. PICK x \in Items :
        /\ row' = [row EXCEPT ![x] = req[r].entity] /\ Goto(r, "reply") /\ UNCHANGED call
        /\ Emit(x, req[r].entity.temp) \/ UNCHANGED job
  BY DEF Save
<1>2. /\ row \in [Items -> Row] /\ req \in [Requests -> Req] /\ job \in [Jobs -> JobRec]
      /\ req[r] \in Req /\ req[r].pc = "save"
  BY DEF Typed, RowsTyped, ReqsTyped, JobsTyped, Save
<1>3. \A k \in Keys : RowNames(req[r].entity, k) => CreateNames(req[r], k)
  BY <1>2 DEF RowNames, CreateNames
<1>4. \A k \in Keys : \A i \in Items :
        RowNames(row'[i], k) => ItemNames(i, k) \/ (i = x /\ CreateNames(req[r], k))
  <2>1. \A i \in Items : row'[i] = IF i = x THEN req[r].entity ELSE row[i]
    BY <1>1, <1>2
  <2> QED
    BY <1>3, <2>1 DEF ItemNames
<1>5. PICK q : q = [req[r] EXCEPT !.pc = "reply"]
  OBVIOUS
<1>6. /\ q.op = req[r].op /\ q.item = req[r].item /\ q.entity = req[r].entity
      /\ q.old = req[r].old /\ q.pc = "reply"
  BY <1>2, <1>5 DEF Req
<1>7. \A s \in Requests : req'[s] = IF s = r THEN q ELSE req[s]
  BY <1>1, <1>2, <1>5 DEF Goto
<1>8. ReqsKeep
  BY <1>6, <1>7 DEF ReqsKeep, ReqNames, ItemNames
<1>9. \A k \in Keys : \A s \in Requests :
        CreateNames(req'[s], k) => CreateNames(req[s], k) /\ s # r
  BY <1>6, <1>7 DEF CreateNames
<1>10. CallsKeep
  BY <1>1, SameKeep
<1>11. PICK m : m = [IdleJob EXCEPT !.pc = "queued", !.item = x, !.temp = req[r].entity.temp]
  OBVIOUS
<1>12. m.img = NoKey /\ m.item = x /\ m.temp = req[r].entity.temp
  BY <1>11 DEF IdleJob
<1>13. \A j \in Jobs : job'[j] = job[j] \/ job'[j] = m
  <2>1. job' = job \/ job' = [job EXCEPT ![FreeJob] = m]
    BY <1>1, <1>11 DEF Emit
  <2> QED
    BY <1>2, <2>1
<1>14. \A k \in Keys : \A i \in Items : \A j \in Jobs :
         JobNames(job'[j], i, k) => ItemNames(i, k) \/ (i = x /\ CreateNames(req[r], k))
  <2>1. \A k \in Keys : \A i \in Items :
          JobNames(m, i, k) => i = x /\ CreateNames(req[r], k)
    BY <1>3, <1>12, NoKeyAssumption DEF JobNames, RowNames
  <2>2. \A k \in Keys : \A i \in Items : \A j \in Jobs :
          JobNames(job[j], i, k) => ItemNames(i, k)
    BY DEF ItemNames
  <2> QED
    BY <1>13, <2>1, <2>2
<1>15. \A k \in Keys : \A i \in Items :
         ItemNames(i, k)' => ItemNames(i, k) \/ (i = x /\ CreateNames(req[r], k))
  BY <1>4, <1>8, <1>10, <1>14 DEF ReqsKeep, CallsKeep, ItemNames, RowNames, ReqNames,
     CallNames, JobNames
<1> QED
  BY <1>9, <1>15, ApartSaved

LEMMA ApartNext ==
  ASSUME Typed, CreatesUnnumbered, Apart, [Next]_vars
  PROVE  Apart'
<1>1. KeepsPrefixes
  BY PrefixStep
<1>2. CASE \E r \in Requests : StorePhoto(r) /\ ~ Unacked(r)
  BY <1>1, <1>2, ApartStorePhoto
<1>3. CASE \E j \in Jobs : StoreGenerated(j)
  BY <1>1, <1>3, ApartStoreGenerated
<1>4. CASE \E r \in Requests : Save(r) /\ req[r].op = "create"
  BY <1>1, <1>4, ApartSave
<1>5. CASE /\ \A r \in Requests : StorePhoto(r) => Unacked(r)
           /\ \A j \in Jobs : ~ StoreGenerated(j)
           /\ \A r \in Requests : Save(r) => req[r].op # "create"
  BY <1>1, <1>5, RowsKeepNext, ReqsKeepNext, CallsKeepNext, JobsKeepNext, ApartKept
<1> QED
  BY <1>2, <1>3, <1>4, <1>5

LEMMA ApartInit == Init => Apart /\ CreatesUnnumbered
<1> SUFFICES ASSUME Init
             PROVE  Apart /\ CreatesUnnumbered
  OBVIOUS
<1>1. /\ \A i \in Items : row[i] = NoRow
      /\ \A r \in Requests : req[r] = Unsent
      /\ \A c \in Calls : call[c] = NoCall
      /\ \A j \in Jobs : job[j] = IdleJob
  BY DEF Init, WardrobeInit
<1>2. Unsent.entity = NewEntity /\ Unsent.old = NoKey /\ Unsent.item = NoItem
  BY DEF Unsent, Message
<1>3. \A k \in Keys : \A i : ~ ReqNames(Unsent, i, k) /\ ~ CreateNames(Unsent, k)
  BY <1>2, NoKeyAssumption DEF ReqNames, CreateNames, NewEntity, NoRow
<1>4. \A k \in Keys : /\ \A i \in Items : ~ ItemNames(i, k)
                      /\ \A r \in Requests : ~ CreateNames(req[r], k)
  BY <1>1, <1>3, NamesOfBlanks DEF ItemNames
<1> QED
  BY <1>1, <1>2, <1>4 DEF Apart, NamesApart, NamesUsed, CreatesUnnumbered

LEMMA AlwaysApart == Spec => [](Apart /\ CreatesUnnumbered)
BY AlwaysTyped, ApartInit, ApartNext, CreatesUnnumberedNext, PTL DEF Spec

(* No two items ever share an object, so dropping one item's files by name   *)
(* never takes another's away: for any number of items and requests, and     *)
(* whatever crashes and redeliveries repeat.                                 *)
THEOREM ItemsShareNothing == Spec => []NoSharedObject
<1>1. Apart => NoSharedObject
  <2> SUFFICES ASSUME Apart, NEW i \in Items, NEW l \in Items, i # l,
                      NEW k, k \in {row[i].img, row[i].temp}, k \in {row[l].img, row[l].temp},
                      k \in Keys
               PROVE  FALSE
    BY DEF NoSharedObject
  <2>1. ItemNames(i, k) /\ ItemNames(l, k)
    BY DEF ItemNames, RowNames
  <2> QED
    BY <2>1 DEF Apart, NamesApart
<1> QED
  BY <1>1, AlwaysApart, PTL

=============================================================================
