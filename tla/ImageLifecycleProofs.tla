------------------------ MODULE ImageLifecycleProofs ------------------------
(***************************************************************************)
(* What the pipeline promises a client who waits for an answer before the  *)
(* next request and leaves an item alone while a job of it runs, as long   *)
(* as the wardrobe service does not die: the lifecycle of an item, and     *)
(* that no image or original in use is deleted or forgotten.  Redelivered  *)
(* jobs, time-outs, late results, the sweep, storage errors and crashes of *)
(* the consumer stay arbitrary, and so do the numbers of items, jobs,      *)
(* calls and requests.                                                     *)
(***************************************************************************)
EXTENDS ImageStorageProofs, FiniteSetTheorems

-----------------------------------------------------------------------------
(* A run of the pipeline in which the gateway waits for each answer, clients *)
(* update an item only while no job of it runs, and the wardrobe service does *)
(* not die: what the properties of the second group need (see the README).    *)
OneAtATime ==
  /\ QuietUpdates
  /\ Concurrent <= 1
  /\ IsFiniteSet(Requests)
  /\ "wardrobeCrash" \notin Faults

(* One handler at a time, no job of an item that is being updated.           *)
Alone == \A r, s \in Requests : InProgress(r) /\ InProgress(s) => r = s

UpdatesQuiet ==
  \A r \in Requests : Writing(r) /\ req[r].op = "update" => Quiet(req[r].item)

(* The awaits each kind of request goes through. *)
GoesThrough(q) ==
  /\ q.op = "create" => q.pc \in {"unsent", "storeImg", "storeTmp", "save", "reply",
                                  "unacked", "done"}
  /\ q.op = "update" => q.pc \in {"find", "delImg", "storeImg", "storeTmp", "delTemp",
                                  "save", "reply", "unacked"}
  /\ q.op = "retry"  => q.pc \in {"find", "exists", "save", "reply", "unacked"}
  /\ q.op = "delete" => q.pc \in {"find", "delImg", "delTemp", "delRow", "unacked"}
  /\ q.op \in {"retry", "delete"} => q.photo = "none"
  /\ q.pc = "storeTmp" => q.photo = "generate"
  /\ q.pc = "storeImg" => q.photo = "plain"
  /\ q.op = "update" /\ q.pc = "delImg" => q.photo = "plain"
  /\ q.op = "update" /\ q.pc = "delTemp" => q.photo # "none"

OnTheWay == \A r \in Requests : GoesThrough(req[r])

(* What a handler is about to save, against the row as it is by then.        *)
CreateFits(q) ==
  /\ q.item = NoItem
  /\ q.pc \in {"storeImg", "storeTmp"} \/ q.photo = "none" => q.entity = NewEntity
  /\ q.entity.status \in {"pending", "ready"}
  /\ q.entity.status = "pending" => q.entity.img = NoKey
  /\ q.pc \notin {"storeImg", "storeTmp"} =>
       /\ q.photo = "generate" => q.entity.status = "pending"
       /\ q.photo = "plain" => q.entity.status = "ready" /\ q.entity.img \in Keys

RetryFits(q, w) ==
  /\ w.status = "failed"
  /\ q.entity.img = w.img /\ q.entity.temp = w.temp
  /\ q.pc = "save" => q.entity.status = "pending"

(* The sweep may give an item up that an update has read as pending.         *)
AsRead(e, w) ==
  /\ e.img = w.img /\ e.temp = w.temp
  /\ e.status = w.status \/ (e.status = "pending" /\ w.status = "failed")

UpdateFits(q, w) ==
  /\ q.old = w.temp
  /\ q.pc \notin {"delTemp", "save"} \/ q.photo = "none" => AsRead(q.entity, w)
  /\ q.pc \in {"delTemp", "save"} /\ q.photo = "generate" =>
       /\ q.entity.status = "pending" /\ q.entity.img = w.img
       /\ q.entity.temp \in Keys \ {w.temp}
  /\ q.pc \in {"delTemp", "save"} /\ q.photo = "plain" =>
       /\ q.entity.status = "ready" /\ q.entity.temp = NoKey
       /\ q.entity.img \in Keys \ {w.img}

Fits(r) ==
  Writing(r) =>
    IF req[r].op = "create" THEN CreateFits(req[r])
    ELSE /\ req[r].item \in created
         /\ req[r].pc # "find" =>
              /\ row[req[r].item].status # "absent"
              /\ req[r].op = "retry" => RetryFits(req[r], row[req[r].item])
              /\ req[r].op = "update" => UpdateFits(req[r], row[req[r].item])

AllFit == \A r \in Requests : Fits(r)

(* An image on its way to a row: sent, or stored and not yet sent.           *)
Sent(c, k) == call[c].pc = "sent" /\ call[c].img = k
Generated(j, k) == job[j].pc = "generated" /\ job[j].img = k
Result(k) == (\E c \in Calls : Sent(c, k)) \/ (\E j \in Jobs : Generated(j, k))

(* An image that will be deleted. *)
Discarded(k) ==
  \/ \E c \in Calls : call[c].pc = "missed" /\ call[c].from # NoJob /\ call[c].img = k
  \/ \E c \in Calls : call[c].pc = "applied" /\ call[c].prev = k
  \/ \E j \in Jobs : job[j].pc \in {"discard", "discardGone"} /\ job[j].img = k

(* A handler that works on a copy of the row it will save. *)
Holds(r) == Writing(r) /\ req[r].pc # "find"
Saver(r) == Holds(r) /\ req[r].op # "delete"

(* Each result is an image of its own: it is stored, no row shows it yet, no *)
(* handler's copy has it, and nobody is about to delete it.  What somebody   *)
(* is about to delete no row shows and no handler saves.                     *)
ResultsApart ==
  \A k \in Keys :
    /\ \A c, d \in Calls : Sent(c, k) /\ Sent(d, k) => c = d
    /\ \A i, j \in Jobs : Generated(i, k) /\ Generated(j, k) => i = j
    /\ \A c \in Calls, j \in Jobs : ~ (Sent(c, k) /\ Generated(j, k))
    /\ Result(k) => /\ \A i \in Items : row[i].img # k
                    /\ \A r \in Requests : Holds(r) => req[r].entity.img # k
                    /\ ~ Discarded(k)
                    /\ k \in stored
    /\ Discarded(k) => /\ \A i \in Items : row[i].img # k
                       /\ \A r \in Requests : Saver(r) => req[r].entity.img # k

(* A result that reports success names an image.                             *)
ReadyNamed ==
  /\ \A c \in Calls : call[c].pc # "none" => (call[c].status = "ready" <=> call[c].img # NoKey)
  /\ \A j \in Jobs : job[j].pc = "generated" => job[j].img # NoKey

(* When the image a row shows may be gone already: an update or a delete of  *)
(* the item has deleted it and will write the row, or failed in between.     *)
ImageExcuse(i) ==
  \E r \in Requests :
    /\ req[r].item = i
    /\ \/ req[r].op \in {"update", "delete"} /\ req[r].pc = "unacked"
       \/ req[r].op = "delete" /\ req[r].pc \in {"delTemp", "delRow"}
       \/ req[r].op = "update" /\ req[r].photo = "plain"
          /\ req[r].pc \in {"storeImg", "delTemp", "save"}

(* A handler whose entity carries what it has uploaded, if anything. *)
HasUploaded(q, photo) ==
  /\ q.pc \notin {"unsent", "unacked", "done", "reply"}
  /\ q.op = "create" \/ (q.photo = photo /\ q.pc \in {"delTemp", "save"})

(* The images that rows show and that handlers have uploaded are stored.     *)
ImagesThere ==
  /\ \A i \in Items : row[i].img \in stored \cup {NoKey} \/ ImageExcuse(i)
  /\ \A r \in Requests :
       HasUploaded(req[r], "plain") => req[r].entity.img \in stored \cup {NoKey}

(* An original its job is about to delete, or will when the answer arrives.  *)
Doomed(k) ==
  \/ \E j \in Jobs : job[j].pc \in {"cleanup", "discardGone"} /\ job[j].temp = k
  \/ \E c \in Calls : /\ call[c].pc = "applied" /\ call[c].status = "ready"
                      /\ call[c].from # NoJob /\ job[call[c].from].temp = k

(* No row retains it any more, and no handler will put it back.              *)
DoomedGone ==
  \A k \in Keys : Doomed(k) =>
    /\ \A i \in Items : row[i].temp # k
    /\ \A r \in Requests : Saver(r) => req[r].entity.temp # k

(* When the original a row retains may be gone already.                      *)
Excuse(i) ==
  \E r \in Requests :
    /\ req[r].item = i
    /\ \/ req[r].op \in {"update", "delete"} /\ req[r].pc = "unacked"
       \/ req[r].op = "delete" /\ req[r].pc = "delRow"
       \/ req[r].op = "update" /\ req[r].photo # "none" /\ req[r].pc = "save"

(* Else it is stored or was taken by the rule.                               *)
OriginalsThere ==
  /\ \A i \in Items : row[i].temp \in stored \cup expired \cup {NoKey} \/ Excuse(i)
  /\ \A r \in Requests :
       HasUploaded(req[r], "generate") =>
         req[r].entity.temp \in stored \cup expired \cup {NoKey}

(* Leftovers to delete lie where an object of their kind lies.               *)
PrevPlaced == \A c \in Calls : call[c].prev # NoKey => prefix[call[c].prev] = "user"
OldPlaced == \A r \in Requests : req[r].old # NoKey => prefix[req[r].old] = "tmp"

-----------------------------------------------------------------------------
(* What a step of a handler does to its request, field by field. *)

Same(q, p) == p.op = q.op /\ p.photo = q.photo /\ p.item = q.item

LEMMA GotoFields ==
  ASSUME Typed, NEW r \in Requests, NEW pc, Goto(r, pc)
  PROVE  /\ Same(req[r], req'[r]) /\ req'[r].pc = pc
         /\ req'[r].entity = req[r].entity /\ req'[r].old = req[r].old
  BY DEF Typed, ReqsTyped, Goto, Req, Same

LEMMA LoadFields ==
  ASSUME Typed, NEW r \in Requests, NEW pc, Load(r, pc)
  PROVE  /\ Same(req[r], req'[r]) /\ req'[r].pc = pc
         /\ req'[r].entity = row[req[r].item] /\ req'[r].old = row[req[r].item].temp
<1>1. PICK i : i = req[r].item
  OBVIOUS
<1>2. PICK w : w = row[i]
  OBVIOUS
<1>3. PICK q : q = [req[r] EXCEPT !.pc = pc, !.entity = w, !.old = w.temp]
  OBVIOUS
<1>4. req[r] \in Req /\ req' = [req EXCEPT ![r] = q]
  BY <1>1, <1>2, <1>3 DEF Typed, ReqsTyped, Load
<1>5. Same(req[r], q) /\ q.pc = pc /\ q.entity = w /\ q.old = w.temp
  BY <1>3, <1>4 DEF Req, Same
<1>6. req'[r] = q
  BY <1>4 DEF Typed, ReqsTyped
<1> QED
  BY <1>1, <1>2, <1>5, <1>6

LEMMA AckedFields ==
  ASSUME Typed, NEW r \in Requests, Acked(r)
  PROVE  req'[r] = Done
  BY DEF Typed, ReqsTyped, Acked

LEMMA BlankFields ==
  /\ Done.pc = "done" /\ Done.op = "create" /\ Done.photo = "none" /\ Done.item = NoItem
  /\ Done.entity = NewEntity /\ Done.old = NoKey
  /\ Unsent.pc = "unsent" /\ Unsent.op = "create" /\ Unsent.photo = "none"
  /\ Unsent.item = NoItem /\ Unsent.entity = NewEntity /\ Unsent.old = NoKey
<1>1. /\ Unsent.pc = "unsent" /\ Unsent.op = "create" /\ Unsent.photo = "none"
      /\ Unsent.item = NoItem /\ Unsent.entity = NewEntity /\ Unsent.old = NoKey
  BY DEF Unsent, Message
<1>2. Done = [Unsent EXCEPT !.pc = "done"] /\ Unsent \in Req
  BY BlankTypes DEF Done
<1> QED
  BY <1>1, <1>2 DEF Req

LEMMA MessageFields ==
  ASSUME NEW op, NEW photo, NEW i, NEW q, q = Message(op, photo, i)
  PROVE  /\ q.pc = IF op = "create" THEN PhotoStep(photo) ELSE "find"
         /\ q.op = op /\ q.photo = photo /\ q.item = i
         /\ q.entity = NewEntity /\ q.old = NoKey
  BY DEF Message

(* The upload of a photo: `n` is its name, `e` what the entity becomes.       *)
LEMMA StoreFields ==
  ASSUME Typed, NEW r \in Requests, StorePhoto(r), ~ Unacked(r)
  PROVE  \E n \in Keys :
           /\ n = NewKey /\ prefix[n] = "none" /\ n \in stored'
           /\ stored \subseteq stored' /\ UNCHANGED expired
           /\ Same(req[r], req'[r]) /\ req'[r].old = req[r].old
           /\ req'[r].pc = IF req[r].old # NoKey THEN "delTemp" ELSE "save"
           /\ req'[r].entity = IF req[r].pc = "storeTmp"
                               THEN AwaitingImage(req[r].entity, n)
                               ELSE ShowingPhoto(req[r].entity, n)
<1>1. PICK n : n = NewKey
  OBVIOUS
<1>2. PICK e : e = IF req[r].pc = "storeTmp" THEN AwaitingImage(req[r].entity, n)
                   ELSE ShowingPhoto(req[r].entity, n)
  OBVIOUS
<1>3. PICK pc : pc = IF req[r].old # NoKey THEN "delTemp" ELSE "save"
  OBVIOUS
<1>4. PICK q : q = [req[r] EXCEPT !.pc = pc, !.entity = e]
  OBVIOUS
<1>5. req' = [req EXCEPT ![r] = q] /\ Upload(PhotoPrefix(req[r].pc))
  BY <1>1, <1>2, <1>3, <1>4 DEF StorePhoto
<1>6. n \in Keys /\ prefix[n] = "none" /\ n \in stored' /\ stored \subseteq stored'
      /\ UNCHANGED expired
  BY <1>1, <1>5, NewKeyType DEF Upload
<1>7. Same(req[r], q) /\ q.old = req[r].old /\ q.pc = pc /\ q.entity = e
  BY <1>4 DEF Typed, ReqsTyped, Req, Same
<1>8. req'[r] = q
  BY <1>5 DEF Typed, ReqsTyped
<1> QED
  BY <1>1, <1>2, <1>3, <1>6, <1>7, <1>8

LEMMA CheckFields ==
  ASSUME Typed, NEW r \in Requests, CheckOriginal(r), ~ Acked(r)
  PROVE  /\ Same(req[r], req'[r]) /\ req'[r].pc = "save" /\ req'[r].old = req[r].old
         /\ req'[r].entity = AwaitingImage(req[r].entity, req[r].entity.temp)
<1>1. PICK e : e = AwaitingImage(req[r].entity, req[r].entity.temp)
  OBVIOUS
<1>2. req' = [req EXCEPT ![r].pc = "save", ![r].entity = e]
  BY <1>1 DEF CheckOriginal
<1>3. req \in [Requests -> Req] /\ req[r] \in Req
  BY DEF Typed, ReqsTyped
<1>4. Same(req[r], req'[r]) /\ req'[r].pc = "save" /\ req'[r].old = req[r].old
      /\ req'[r].entity = e
  BY <1>2, <1>3 DEF Req, Same
<1> QED
  BY <1>1, <1>4

(* Only the request that is at work changes. *)
LEMMA OneMoves ==
  ASSUME Typed, NEW r \in Requests, Handler(r)
  PROVE  /\ InProgress(r)
         /\ \A s \in Requests : s # r => req'[s] = req[s]
         /\ req[r].pc \notin {"unsent", "unacked", "done"}
<1>1. req[r].pc \in {"find", "exists", "delImg", "storeTmp", "storeImg", "delTemp",
                     "save", "reply", "delRow"}
  BY DEF Handler, FindMissing, RetryFind, UpdateFind, DeleteFind, CheckOriginal, DeleteImage,
         StorePhoto, DeleteOriginal, Save, Reply, DeleteRow
<1>2. \A s \in Requests : s # r => req'[s] = req[s]
  BY DEF Typed, ReqsTyped, Handler, FindMissing, RetryFind, UpdateFind, DeleteFind,
         CheckOriginal, DeleteImage, StorePhoto, DeleteOriginal, Save, Reply, DeleteRow,
         Goto, Load, Acked, Unacked
<1> QED
  BY <1>1, <1>2 DEF InProgress

LEMMA OthersIdle ==
  ASSUME Typed, Alone, NEW r \in Requests, Handler(r)
  PROVE  \A s \in Requests : s # r => req'[s] = req[s] /\ ~ InProgress(s)
  BY OneMoves DEF Alone

LEMMA NoneAtWork ==
  ASSUME OneAtATime, Submit
  PROVE  \A r \in Requests : ~ InProgress(r)
<1> DEFINE S == {r \in Requests : InProgress(r)}
<1>1. IsFiniteSet(S)
  BY FS_Subset DEF OneAtATime
<1>2. Cardinality(S) \in Nat /\ Cardinality(S) < Concurrent
  BY <1>1, FS_CardinalityType DEF Submit
<1>3. Cardinality(S) = 0
  BY <1>2, PipelineAssumption DEF OneAtATime
<1> QED
  BY <1>1, <1>3, FS_EmptySet

(* What is not a handler's step leaves the requests alone. *)
LEMMA ReqWriters ==
  ASSUME OneAtATime, [Next]_vars
  PROVE  Submit \/ (\E r \in Requests : Handler(r)) \/ UNCHANGED req
<1>1. ASSUME NEW c \in Calls, ApplyResult(c) PROVE UNCHANGED req
  BY <1>1 DEF ApplyResult, ApplyUpdate, ApplyLookup, ApplyFinish
<1>2. ASSUME NEW j \in Jobs, Consumer(j) PROVE UNCHANGED req
  BY <1>2
  DEF Consumer, CheckPending, SkipUnreadable, LoadOriginal, GenerationFails,
      StoreGenerated, GenerationSucceeds, OutcomeTimeout, DiscardImage,
      DeleteTempOriginal
<1>3. ~ WardrobeCrash
  BY DEF OneAtATime, WardrobeCrash, Fault
<1>4. ASSUME Environment PROVE UNCHANGED req
  BY <1>3, <1>4 DEF Environment, BecomeStale, Redeliver, Expiry, ConsumerCrash
<1>5. ASSUME Sweep \/ UNCHANGED vars PROVE UNCHANGED req
  BY <1>5 DEF Sweep, vars, wardrobeVars
<1> QED
  BY <1>1, <1>2, <1>4, <1>5 DEF Next

LEMMA AloneNext ==
  ASSUME OneAtATime, Typed, Alone, [Next]_vars
  PROVE  Alone'
<1>1. CASE Submit
  <2>1. PICK r : \A s \in Requests : s # r => req'[s] = req[s]
    BY <1>1 DEF Submit, Typed, ReqsTyped
  <2> QED
    BY <1>1, <2>1, NoneAtWork DEF Alone, InProgress
<1>2. ASSUME NEW r \in Requests, Handler(r) PROVE Alone'
  BY <1>2, OthersIdle DEF Alone, InProgress
<1>3. CASE UNCHANGED req
  BY <1>3 DEF Alone, InProgress
<1> QED
  BY <1>1, <1>2, <1>3, ReqWriters

LEMMA BlankGoesThrough ==
  /\ GoesThrough(Unsent) /\ GoesThrough(Done)
  /\ \A op \in {"create", "update", "retry", "delete"},
        photo \in {"none", "plain", "generate"} : \A i :
       (op \in {"retry", "delete"} => photo = "none") => GoesThrough(Message(op, photo, i))
<1>1. GoesThrough(Unsent) /\ GoesThrough(Done)
  BY BlankFields DEF GoesThrough
<1>2. ASSUME NEW op \in {"create", "update", "retry", "delete"},
             NEW photo \in {"none", "plain", "generate"}, NEW i,
             op \in {"retry", "delete"} => photo = "none"
      PROVE  GoesThrough(Message(op, photo, i))
  <2>1. PICK q : q = Message(op, photo, i)
    OBVIOUS
  <2> QED
    BY <1>2, <2>1, MessageFields DEF GoesThrough, PhotoStep
<1> QED
  BY <1>1, <1>2

LEMMA OnTheWayMove ==
  ASSUME Typed, OnTheWay, NEW r \in Requests, Handler(r)
  PROVE  GoesThrough(req'[r])
<1>1. GoesThrough(req[r]) /\ req[r].op \in {"create", "update", "retry", "delete"}
      /\ req[r].photo \in {"none", "plain", "generate"} /\ GoodReq(req[r])
  BY DEF OnTheWay, Typed, ReqsTyped, Req
<1>2. CASE Acked(r)
  BY <1>2, AckedFields, BlankGoesThrough
<1>3. CASE Unacked(r)
  BY <1>1, <1>3, GotoFields DEF Unacked, GoesThrough, Same
<1>4. CASE RetryFind(r) /\ ~ Acked(r)
  <2>1. Load(r, "exists") /\ req[r].op = "retry"
    BY <1>4 DEF RetryFind
  <2> QED
    BY <1>1, <2>1, LoadFields DEF GoesThrough, Same
<1>5. CASE UpdateFind(r)
  <2>1. PICK pc : pc = IF req[r].photo = "plain" /\ row[req[r].item].img # NoKey
                       THEN "delImg" ELSE PhotoStep(req[r].photo)
    OBVIOUS
  <2>2. Load(r, pc) /\ req[r].op = "update"
    BY <1>5, <2>1 DEF UpdateFind
  <2> QED
    BY <1>1, <2>1, <2>2, LoadFields DEF GoesThrough, Same, PhotoStep
<1>6. CASE DeleteFind(r)
  <2>1. PICK pc : pc = IF row[req[r].item].img # NoKey THEN "delImg"
                       ELSE DropOriginal(row[req[r].item].temp)
    OBVIOUS
  <2>2. Load(r, pc) /\ req[r].op = "delete"
    BY <1>6, <2>1 DEF DeleteFind
  <2> QED
    BY <1>1, <2>1, <2>2, LoadFields DEF GoesThrough, Same, DropOriginal
<1>7. CASE CheckOriginal(r) /\ ~ Acked(r)
  <2>1. req[r].op = "retry"
    BY <1>1, <1>7 DEF GoesThrough, GoodReq, CheckOriginal
  <2> QED
    BY <1>1, <1>7, <2>1, CheckFields DEF GoesThrough, Same
<1>8. CASE DeleteImage(r) /\ ~ Unacked(r)
  <2>1. PICK pc : pc = IF req[r].op = "update" THEN "storeImg" ELSE DropOriginal(req[r].old)
    OBVIOUS
  <2>2. Goto(r, pc) /\ req[r].pc = "delImg"
    BY <1>8, <2>1 DEF DeleteImage
  <2> QED
    BY <1>1, <2>1, <2>2, GotoFields DEF GoesThrough, GoodReq, Same, DropOriginal
<1>9. CASE StorePhoto(r) /\ ~ Unacked(r)
  <2>1. req[r].pc \in {"storeTmp", "storeImg"}
    BY <1>9 DEF StorePhoto
  <2> QED
    BY <1>1, <1>9, <2>1, StoreFields DEF GoesThrough, GoodReq, Same
<1>10. CASE DeleteOriginal(r)
  <2>1. PICK pc : pc = IF req[r].op = "update" THEN "save" ELSE "delRow"
    OBVIOUS
  <2>2. Goto(r, pc) /\ req[r].pc = "delTemp"
    BY <1>10, <2>1 DEF DeleteOriginal
  <2> QED
    BY <1>1, <2>1, <2>2, GotoFields DEF GoesThrough, GoodReq, Same
<1>11. CASE Save(r)
  <2>1. Goto(r, "reply") /\ req[r].pc = "save"
    BY <1>11 DEF Save
  <2> QED
    BY <1>1, <2>1, GotoFields DEF GoesThrough, Same
<1> QED
  BY <1>2, <1>3, <1>4, <1>5, <1>6, <1>7, <1>8, <1>9, <1>10, <1>11
  DEF Handler, FindMissing, Reply, DeleteRow

LEMMA SubmitFields ==
  ASSUME Typed, Submit
  PROVE  \E r \in Requests, op \in {"create", "update", "retry", "delete"},
            photo \in {"none", "plain", "generate"}, i \in created \cup {NoItem} :
           /\ req[r].pc = "unsent" /\ req'[r] = Message(op, photo, i)
           /\ \A s \in Requests : s # r => req'[s] = req[s]
           /\ op = "create" <=> i = NoItem
           /\ op \in {"retry", "delete"} => photo = "none"
           /\ op = "update" /\ QuietUpdates => Quiet(i)
<1>1. PICK r \in Requests, op \in Ops, photo \in Photos \cup {"none"},
           i \in created \cup {NoItem} :
        /\ req[r].pc = "unsent" /\ req' = [req EXCEPT ![r] = Message(op, photo, i)]
        /\ op = "create" <=> i = NoItem
        /\ photo \in PhotosOf(op)
        /\ op = "update" /\ QuietUpdates => Quiet(i)
  BY DEF Submit
<1>2. op \in {"create", "update", "retry", "delete"} /\ photo \in {"none", "plain", "generate"}
  BY PipelineAssumption
<1>3. op \in {"retry", "delete"} => photo = "none"
  BY <1>1 DEF PhotosOf
<1>4. req'[r] = Message(op, photo, i) /\ \A s \in Requests : s # r => req'[s] = req[s]
  BY <1>1 DEF Typed, ReqsTyped
<1> QED
  BY <1>1, <1>2, <1>3, <1>4

LEMMA OnTheWayNext ==
  ASSUME OneAtATime, Typed, OnTheWay, [Next]_vars
  PROVE  OnTheWay'
<1>1. CASE Submit
  BY <1>1, SubmitFields, BlankGoesThrough DEF OnTheWay
<1>2. ASSUME NEW r \in Requests, Handler(r) PROVE OnTheWay'
  BY <1>2, OneMoves, OnTheWayMove DEF OnTheWay
<1>3. CASE UNCHANGED req
  BY <1>3 DEF OnTheWay
<1> QED
  BY <1>1, <1>2, <1>3, ReqWriters

-----------------------------------------------------------------------------
(* No job of an item appears while an update of it is at work.               *)

LEMMA CallItems ==
  ASSUME Typed, [Next]_vars, NEW c \in Calls
  PROVE  \/ call'[c].item \in {call[c].item, NoItem}
         \/ \E j \in Jobs : call'[c].item = job[j].item
<1>1. call \in [Calls -> CallRec] /\ \A d \in Calls : call[d] \in CallRec
  BY DEF Typed, CallsTyped
<1>2. NoCall.item = NoItem
  BY DEF NoCall
<1>3. ASSUME NEW d \in Calls, ApplyResult(d) PROVE call'[c].item \in {call[c].item, NoItem}
  BY <1>1, <1>2, <1>3 DEF ApplyResult, ApplyUpdate, ApplyLookup, ApplyFinish, CallRec
<1>4. ASSUME NEW j \in Jobs, NEW status, NEW img, SendResult(j, status, img)
      PROVE  call'[c].item \in {call[c].item, job[j].item}
  <2>1. PICK m : m = [NoCall EXCEPT !.pc = "sent", !.item = job[j].item,
                                    !.status = status, !.img = img, !.from = j]
    OBVIOUS
  <2>2. m.item = job[j].item
    BY <2>1 DEF NoCall
  <2>3. PICK d : call' = [call EXCEPT ![d] = m]
    BY <1>4, <2>1 DEF SendResult
  <2> QED
    BY <1>1, <2>2, <2>3
<1>5. ASSUME NEW j \in Jobs, OutcomeTimeout(j) PROVE call'[c].item = call[c].item
  BY <1>1, <1>5 DEF OutcomeTimeout, CallRec
<1>6. ASSUME NEW j \in Jobs, Consumer(j)
      PROVE  \/ GenerationFails(j) \/ GenerationSucceeds(j)
             \/ OutcomeTimeout(j)
             \/ UNCHANGED call
  BY <1>6 DEF Consumer, CheckPending, SkipUnreadable, LoadOriginal, StoreGenerated,
              DiscardImage, DeleteTempOriginal
<1>7. ASSUME Environment PROVE call'[c].item \in {call[c].item, NoItem}
  <2>1. CASE ConsumerCrash
    BY <1>1, <2>1 DEF ConsumerCrash, CallRec
  <2>2. CASE WardrobeCrash
    BY <1>1, <1>2, <2>2 DEF WardrobeCrash, CallRec
  <2> QED
    BY <1>7, <2>1, <2>2 DEF Environment, BecomeStale, Redeliver, Expiry
<1>8. ASSUME \/ Submit \/ Sweep \/ UNCHANGED vars
             \/ \E r \in Requests : Handler(r)
      PROVE  UNCHANGED call
  BY <1>8
  DEF Submit, Sweep, vars, wardrobeVars, Handler, FindMissing, RetryFind,
      UpdateFind, DeleteFind, CheckOriginal, DeleteImage, StorePhoto,
      DeleteOriginal, Save, Reply, DeleteRow
<1> QED
  BY <1>3, <1>4, <1>5, <1>6, <1>7, <1>8 DEF Next, GenerationFails, GenerationSucceeds

LEMMA NoSaveUnlessReq ==
  ASSUME Typed, UNCHANGED req, NEW r \in Requests
  PROVE  ~ Save(r)
<1> SUFFICES ASSUME Save(r) PROVE FALSE
  OBVIOUS
<1>1. Goto(r, "reply") /\ req[r].pc = "save"
  BY DEF Save
<1> QED
  BY <1>1, GotoFields

LEMMA QuietKept ==
  ASSUME Typed, [Next]_vars, UNCHANGED req, NEW i \in Items, Quiet(i)
  PROVE  Quiet(i)'
<1>1. i # NoItem
  BY PipelineAssumption
<1>2. \A j \in Jobs : job[j].item # i
  BY DEF Quiet
<1>3. \A c \in Calls : call[c].item # i
  BY DEF Quiet
<1>4. ASSUME NEW x \in Jobs PROVE job'[x].item # i
  <2>1. IdleJob.item = NoItem
    BY DEF IdleJob
  <2>2. StoreGenerated(x) => job'[x].item = job[x].item
    BY DEF StoreGenerated, Typed, JobsTyped, JobRec
  <2>3. \A r \in Requests : ~ Save(r)
    BY NoSaveUnlessReq
  <2> QED
    BY <1>1, <1>2, <2>1, <2>2, <2>3, JobsFollow
<1>5. ASSUME NEW c \in Calls PROVE call'[c].item # i
  BY <1>1, <1>2, <1>3, CallItems
<1> QED
  BY <1>4, <1>5 DEF Quiet

LEMMA UpdatesQuietNext ==
  ASSUME OneAtATime, Typed, Alone, OnTheWay, UpdatesQuiet, [Next]_vars
  PROVE  UpdatesQuiet'
<1> SUFFICES ASSUME NEW r \in Requests, Writing(r)', req'[r].op = "update"
             PROVE  /\ \A j \in Jobs : job'[j].item # req'[r].item
                    /\ \A c \in Calls : call'[c].item # req'[r].item
  BY DEF UpdatesQuiet, Quiet
<1>1. req'[r].pc \notin {"unsent", "unacked", "done", "reply"}
  BY DEF Writing, InProgress
<1>2. CASE Submit
  <2>1. UNCHANGED <<call, job>>
    BY <1>2 DEF Submit
  <2>2. PICK s \in Requests, op \in {"create", "update", "retry", "delete"},
             photo \in {"none", "plain", "generate"}, i \in created \cup {NoItem} :
           /\ req'[s] = Message(op, photo, i)
           /\ \A x \in Requests : x # s => req'[x] = req[x]
           /\ op = "update" /\ QuietUpdates => Quiet(i)
    BY <1>2, SubmitFields
  <2>3. s = r
    BY <1>1, <1>2, <2>2, NoneAtWork DEF InProgress
  <2>4. req'[r].op = op /\ req'[r].item = i
    BY <2>2, <2>3, MessageFields
  <2>5. Quiet(i)
    BY <2>2, <2>4 DEF OneAtATime
  <2> QED
    BY <2>1, <2>4, <2>5 DEF Quiet
<1>3. ASSUME NEW s \in Requests, Handler(s)
      PROVE  /\ \A j \in Jobs : job'[j].item # req'[r].item
             /\ \A c \in Calls : call'[c].item # req'[r].item
  <2>1. s = r
    BY <1>1, <1>3, OthersIdle DEF InProgress
  <2>2. ~ Acked(r)
    BY <1>1, AckedFields, BlankFields
  <2>3. ~ Save(r)
    BY <1>1, GotoFields DEF Save
  <2>4. UNCHANGED <<call, job>>
    BY <1>3, <2>1, <2>3
    DEF Handler, FindMissing, RetryFind, UpdateFind, DeleteFind, CheckOriginal, DeleteImage,
        StorePhoto, DeleteOriginal, Reply, DeleteRow
  <2>5. Same(req[r], req'[r])
    <3>1. \/ \E pc : Goto(r, pc) \/ Load(r, pc)
          \/ StorePhoto(r) /\ ~ Unacked(r)
          \/ CheckOriginal(r)
      BY <1>3, <2>1, <2>2
      DEF Handler, FindMissing, RetryFind, UpdateFind, DeleteFind, DeleteImage, StorePhoto,
          DeleteOriginal, Save, Reply, DeleteRow, Unacked
    <3> QED
      BY <2>2, <3>1, GotoFields, LoadFields, StoreFields, CheckFields
  <2>6. Writing(r) /\ req[r].op = "update"
    <3>1. req[r].op = "update" /\ InProgress(r)
      BY <1>3, <2>1, <2>5, OneMoves DEF Same
    <3>2. req[r].pc # "reply"
      BY <1>1, <1>3, <2>1, <2>2, GotoFields
      DEF Handler, FindMissing, RetryFind, UpdateFind, DeleteFind, CheckOriginal, DeleteImage,
          StorePhoto, DeleteOriginal, Save, Reply, DeleteRow, Unacked
    <3> QED
      BY <3>1, <3>2 DEF Writing
  <2>7. Quiet(req[r].item)
    BY <2>6 DEF UpdatesQuiet
  <2> QED
    BY <2>4, <2>5, <2>7 DEF Quiet, Same
<1>4. CASE UNCHANGED req
  <2>1. PICK i : i = req[r].item
    OBVIOUS
  <2>2. Writing(r) /\ req[r].op = "update"
    BY <1>4 DEF Writing, InProgress
  <2>3. i \in Items /\ Quiet(i)
    BY <2>1, <2>2 DEF UpdatesQuiet, Typed, ReqsTyped, GoodReq, Writing, InProgress
  <2>4. Quiet(i)'
    BY <1>4, <2>3, QuietKept
  <2> QED
    BY <1>4, <2>1, <2>4 DEF Quiet
<1> QED
  BY <1>2, <1>3, <1>4, ReqWriters

-----------------------------------------------------------------------------
(* What a handler saves fits the row it finds. *)

(* The rows while no handler moves: the sweep, the clock and a result. *)
LEMMA RowMoves ==
  ASSUME Typed, RowsConsistent, [Next]_vars, UNCHANGED req, NEW i \in Items
  PROVE  /\ UNCHANGED created
         /\ \/ row'[i] = row[i]
            \/ /\ row[i].status = "pending" /\ row'[i].status \in {"pending", "failed"}
               /\ row'[i].img = row[i].img /\ row'[i].temp = row[i].temp
            \/ \E c \in Calls :
                 /\ ApplyUpdate(c) /\ call[c].item = i /\ row[i].status = "pending"
                 /\ row'[i] = WithResult(row[i], call[c].status, call[c].img)
<1>1. row \in [Items -> Row] /\ row[i] \in Row /\ Consistent(row[i])
  BY DEF Typed, RowsTyped, RowsConsistent
<1>2. \A r \in Requests : ~ Save(r) /\ ~ DeleteRow(r)
  <2> SUFFICES ASSUME NEW r \in Requests, Save(r) \/ DeleteRow(r) PROVE FALSE
    OBVIOUS
  <2>1. DeleteRow(r) => Acked(r) /\ req[r].pc = "delRow"
    BY DEF DeleteRow
  <2> QED
    BY <2>1, NoSaveUnlessReq, AckedFields, BlankFields
<1>3. CASE UNCHANGED <<row, created>>
  BY <1>3
<1>4. ASSUME NEW c \in Calls, ApplyUpdate(c)
      PROVE  /\ UNCHANGED created
             /\ \/ row'[i] = row[i]
                \/ /\ call[c].item = i /\ row[i].status = "pending"
                   /\ row'[i] = WithResult(row[i], call[c].status, call[c].img)
  <2>1. PICK l : l = call[c].item
    OBVIOUS
  <2>2. PICK e : e = WithResult(row[l], call[c].status, call[c].img)
    OBVIOUS
  <2>3. UNCHANGED row \/ (row[l].status = "pending" /\ row' = [row EXCEPT ![l] = e])
    BY <1>4, <2>1, <2>2 DEF ApplyUpdate, AwaitsResult
  <2>4. row'[i] = row[i] \/ (i = l /\ row[l].status = "pending" /\ row'[i] = e)
    BY <1>1, <2>3
  <2> QED
    BY <1>4, <2>1, <2>2, <2>4 DEF ApplyUpdate
<1>5. CASE Sweep
  BY <1>1, <1>5 DEF Sweep, GivenUp, Row
<1>6. ASSUME NEW l \in Items, BecomeStale(l)
      PROVE  /\ UNCHANGED created
             /\ \/ row'[i] = row[i]
                \/ /\ row[i].status = "pending" /\ row'[i].status = "pending"
                   /\ row'[i].img = row[i].img /\ row'[i].temp = row[i].temp
  BY <1>1, <1>6 DEF BecomeStale, Consistent, Row
<1> QED
  BY <1>2, <1>3, <1>4, <1>5, <1>6, RowWriters

(* A name just taken is none that the item's row knows. *)
LEMMA NewToRow ==
  ASSUME Typed, Apart, NEW i \in Items, NEW n \in Keys, prefix[n] = "none"
  PROVE  row[i].img # n /\ row[i].temp # n
  BY DEF Apart, NamesUsed, ItemNames, RowNames

LEMMA FitsIdle ==
  ASSUME NEW r \in Requests, ~ Writing(r)'
  PROVE  Fits(r)'
  BY DEF Fits

LEMMA FitsFind ==
  ASSUME Typed, RowsConsistent, NEW r \in Requests, Fits(r),
         RetryFind(r) \/ UpdateFind(r) \/ DeleteFind(r)
  PROVE  Fits(r)'
<1>1. PICK i : i = req[r].item
  OBVIOUS
<1>2. PICK w : w = row[i]
  OBVIOUS
<1>3. /\ req[r].pc = "find" /\ req[r].op # "create" /\ i \in Items /\ i \in created
      /\ w.status # "absent" /\ UNCHANGED <<row, created>>
  BY <1>1, <1>2 DEF RetryFind, UpdateFind, DeleteFind, Fits, Writing, InProgress, Typed,
                    ReqsTyped, GoodReq
<1>4. CASE Acked(r)
  BY <1>4, AckedFields, BlankFields, FitsIdle DEF Writing, InProgress
<1>5. ASSUME NEW pc, Load(r, pc), pc # "find",
             req[r].op = "retry" => pc # "save" /\ w.status = "failed",
             req[r].op = "update" => pc # "delTemp" /\ (pc = "save" => req[r].photo = "none")
      PROVE  Fits(r)'
  <2>1. /\ req'[r].op = req[r].op /\ req'[r].item = i /\ req'[r].photo = req[r].photo
        /\ req'[r].pc = pc /\ req'[r].entity = w /\ req'[r].old = w.temp
    BY <1>1, <1>2, <1>5, LoadFields DEF Same
  <2>2. row'[i] = w /\ i \in created'
    BY <1>2, <1>3
  <2>3. req'[r].op = "retry" => RetryFits(req'[r], w)
    BY <1>5, <2>1 DEF RetryFits
  <2>4. req'[r].op = "update" => UpdateFits(req'[r], w)
    BY <1>5, <2>1 DEF UpdateFits, AsRead
  <2> QED
    BY <1>3, <2>1, <2>2, <2>3, <2>4 DEF Fits
<1>6. CASE RetryFind(r) /\ ~ Acked(r)
  <2>1. Load(r, "exists") /\ req[r].op = "retry" /\ Retryable(w)
    BY <1>1, <1>2, <1>6 DEF RetryFind
  <2>2. Consistent(w) /\ w \in Row
    BY <1>2, <1>3 DEF RowsConsistent, Typed, RowsTyped
  <2>3. w.status = "failed"
    BY <2>1, <2>2 DEF Consistent, Retryable, Row
  <2> QED
    BY <1>5, <2>1, <2>3
<1>7. CASE UpdateFind(r)
  <2>1. PICK pc : pc = IF req[r].photo = "plain" /\ w.img # NoKey
                       THEN "delImg" ELSE PhotoStep(req[r].photo)
    OBVIOUS
  <2>2. Load(r, pc) /\ req[r].op = "update"
    BY <1>1, <1>2, <1>7, <2>1 DEF UpdateFind
  <2> QED
    BY <1>5, <2>1, <2>2 DEF PhotoStep
<1>8. CASE DeleteFind(r)
  <2>1. PICK pc : pc = IF w.img # NoKey THEN "delImg" ELSE DropOriginal(w.temp)
    OBVIOUS
  <2>2. Load(r, pc) /\ req[r].op = "delete"
    BY <1>1, <1>2, <1>8, <2>1 DEF DeleteFind
  <2> QED
    BY <1>5, <2>1, <2>2 DEF DropOriginal
<1> QED
  BY <1>4, <1>6, <1>7, <1>8

(* The row's side of Fits stands still while the handler goes on. *)
LEMMA FitsGoes ==
  ASSUME Typed, NEW r \in Requests, Fits(r), UNCHANGED <<row, created>>, Writing(r),
         req[r].pc # "find", Same(req[r], req'[r]), req'[r].pc # "find",
         req[r].op = "create" /\ CreateFits(req[r]) => CreateFits(req'[r]),
         req[r].op = "retry" /\ RetryFits(req[r], row[req[r].item])
           => RetryFits(req'[r], row[req[r].item]),
         req[r].op = "update" /\ UpdateFits(req[r], row[req[r].item])
           => UpdateFits(req'[r], row[req[r].item])
  PROVE  Fits(r)'
<1>1. PICK i : i = req[r].item
  OBVIOUS
<1>2. PICK w : w = row[i]
  OBVIOUS
<1>3. req'[r].op = req[r].op /\ req'[r].item = i /\ row'[i] = w
  BY <1>1, <1>2 DEF Same
<1>4. CASE req[r].op = "create"
  BY <1>3, <1>4 DEF Fits
<1>5. CASE req[r].op # "create"
  <2>1. /\ i \in created' /\ w.status # "absent"
        /\ req'[r].op = "retry" => RetryFits(req'[r], w)
        /\ req'[r].op = "update" => UpdateFits(req'[r], w)
    BY <1>1, <1>2, <1>3, <1>5 DEF Fits
  <2> QED
    BY <1>3, <1>5, <2>1 DEF Fits
<1> QED
  BY <1>4, <1>5

LEMMA FitsMove ==
  ASSUME Typed, OnTheWay, Apart, NEW r \in Requests, Fits(r),
         \/ CheckOriginal(r) /\ ~ Acked(r)
         \/ DeleteImage(r) /\ ~ Unacked(r)
         \/ StorePhoto(r) /\ ~ Unacked(r)
         \/ DeleteOriginal(r)
  PROVE  Fits(r)'
<1>1. UNCHANGED <<row, created>>
  BY DEF CheckOriginal, DeleteImage, StorePhoto, DeleteOriginal
<1>2. /\ req[r].pc \in {"exists", "delImg", "storeTmp", "storeImg", "delTemp"}
      /\ Writing(r)
  BY DEF CheckOriginal, DeleteImage, StorePhoto, DeleteOriginal, Writing, InProgress
<1>3. GoesThrough(req[r]) /\ GoodReq(req[r]) /\ req[r] \in Req /\ req[r].entity \in Row
  BY DEF OnTheWay, Typed, ReqsTyped, Req
<1>4. PICK w : w = row[req[r].item]
  OBVIOUS
<1>5. CASE CheckOriginal(r) /\ ~ Acked(r)
  <2>1. req[r].pc = "exists" /\ req[r].op = "retry"
    BY <1>3, <1>5 DEF CheckOriginal, GoesThrough, GoodReq, Req
  <2>2. PICK e : e = AwaitingImage(req[r].entity, req[r].entity.temp)
    OBVIOUS
  <2>3. e.status = "pending" /\ e.img = req[r].entity.img /\ e.temp = req[r].entity.temp
    BY <1>3, <2>2 DEF AwaitingImage, Row
  <2>4. /\ Same(req[r], req'[r]) /\ req'[r].pc = "save" /\ req'[r].entity = e
    BY <1>5, <2>2, CheckFields
  <2>5. RetryFits(req[r], w) => RetryFits(req'[r], w)
    BY <2>3, <2>4 DEF RetryFits
  <2> QED
    BY <1>1, <1>2, <1>4, <2>1, <2>4, <2>5, FitsGoes
<1>6. ASSUME NEW pc, Goto(r, pc), pc # "find",
             req[r].op \notin {"create", "retry"},
             req[r].op = "update" =>
               \/ req[r].pc = "delImg" /\ pc = "storeImg"
               \/ req[r].pc = "delTemp" /\ pc = "save" /\ req[r].photo # "none"
      PROVE  Fits(r)'
  <2>1. /\ Same(req[r], req'[r]) /\ req'[r].pc = pc
        /\ req'[r].entity = req[r].entity /\ req'[r].old = req[r].old
    BY <1>6, GotoFields
  <2>2. req[r].op = "update" /\ UpdateFits(req[r], w) => UpdateFits(req'[r], w)
    BY <1>6, <2>1 DEF UpdateFits, Same
  <2> QED
    BY <1>1, <1>2, <1>4, <1>6, <2>1, <2>2, FitsGoes
<1>7. CASE DeleteImage(r) /\ ~ Unacked(r)
  <2>1. PICK pc : pc = IF req[r].op = "update" THEN "storeImg" ELSE DropOriginal(req[r].old)
    OBVIOUS
  <2>2. Goto(r, pc) /\ req[r].pc = "delImg"
    BY <1>7, <2>1 DEF DeleteImage
  <2>3. pc # "find" /\ (req[r].op = "update" => pc = "storeImg")
    BY <2>1 DEF DropOriginal
  <2> QED
    BY <1>3, <1>6, <2>2, <2>3 DEF GoesThrough
<1>8. CASE DeleteOriginal(r)
  <2>1. PICK pc : pc = IF req[r].op = "update" THEN "save" ELSE "delRow"
    OBVIOUS
  <2>2. Goto(r, pc) /\ req[r].pc = "delTemp"
    BY <1>8, <2>1 DEF DeleteOriginal
  <2>3. req[r].op \notin {"create", "retry"} /\ (req[r].op = "update" => req[r].photo # "none")
    BY <1>3, <2>2 DEF GoesThrough
  <2> QED
    BY <1>6, <2>1, <2>2, <2>3
<1>9. CASE StorePhoto(r) /\ ~ Unacked(r)
  <2>1. PICK n \in Keys :
          /\ prefix[n] = "none"
          /\ Same(req[r], req'[r]) /\ req'[r].old = req[r].old
          /\ req'[r].pc = IF req[r].old # NoKey THEN "delTemp" ELSE "save"
          /\ req'[r].entity = IF req[r].pc = "storeTmp"
                              THEN AwaitingImage(req[r].entity, n)
                              ELSE ShowingPhoto(req[r].entity, n)
    BY <1>9, StoreFields
  <2>2. \/ req[r].pc = "storeTmp" /\ req[r].photo = "generate"
        \/ req[r].pc = "storeImg" /\ req[r].photo = "plain"
    BY <1>3, <1>9 DEF StorePhoto, GoesThrough
  <2>3. req[r].op \in {"create", "update"}
    BY <1>3, <2>2 DEF GoesThrough, Req
  <2>4. PICK e, f : e = req[r].entity /\ f = req'[r].entity
    OBVIOUS
  <2>5. /\ req[r].pc = "storeTmp" => f.status = "pending" /\ f.img = e.img /\ f.temp = n
        /\ req[r].pc = "storeImg" => f.status = "ready" /\ f.img = n /\ f.temp = NoKey
    BY <1>3, <2>1, <2>4 DEF AwaitingImage, ShowingPhoto, Row
  <2>6. CreateFits(req[r]) => CreateFits(req'[r])
    BY <2>1, <2>2, <2>4, <2>5 DEF CreateFits, NewEntity, NoRow, Same
  <2>7. req[r].op = "update" => w.img # n /\ w.temp # n
    BY <1>2, <1>3, <1>4, <2>1, NewToRow DEF GoodReq
  <2>8. req[r].op = "update" /\ UpdateFits(req[r], w) => UpdateFits(req'[r], w)
    BY <2>1, <2>2, <2>4, <2>5, <2>7 DEF UpdateFits, AsRead, Same
  <2>9. req'[r].pc # "find"
    BY <2>1
  <2> QED
    BY <1>1, <1>2, <1>4, <2>1, <2>2, <2>3, <2>6, <2>8, <2>9, FitsGoes
<1> QED
  BY <1>5, <1>7, <1>8, <1>9

LEMMA FitsHandler ==
  ASSUME Typed, RowsConsistent, OnTheWay, Apart, NEW r \in Requests, Fits(r), Handler(r)
  PROVE  Fits(r)'
<1>1. CASE Acked(r) \/ Unacked(r) \/ Save(r)
  <2>1. req'[r].pc \in {"done", "unacked", "reply"}
    BY <1>1, AckedFields, BlankFields, GotoFields DEF Unacked, Save
  <2> QED
    BY <2>1, FitsIdle DEF Writing, InProgress
<1>2. CASE RetryFind(r) \/ UpdateFind(r) \/ DeleteFind(r)
  BY <1>2, FitsFind
<1> QED
  BY <1>1, <1>2, FitsMove DEF Handler, FindMissing, Reply, DeleteRow

LEMMA FitsRows ==
  ASSUME OneAtATime, Typed, RowsConsistent, OnTheWay, UpdatesQuiet, [Next]_vars, UNCHANGED req,
         NEW r \in Requests, Fits(r)
  PROVE  Fits(r)'
<1> SUFFICES ASSUME Writing(r) PROVE Fits(r)'
  BY DEF Fits, Writing, InProgress
<1>1. CASE req[r].op = "create"
  BY <1>1 DEF Fits
<1>2. CASE req[r].op # "create"
  <2>1. PICK i \in Items : i = req[r].item
    BY <1>2 DEF Typed, ReqsTyped, GoodReq, Writing, InProgress
  <2>2. PICK w : w = row[i]
    OBVIOUS
  <2>3. PICK v : v = row'[i]
    OBVIOUS
  <2>4. PICK q : q = req[r]
    OBVIOUS
  <2>5. /\ UNCHANGED created
        /\ \/ v = w
           \/ /\ w.status = "pending" /\ v.status \in {"pending", "failed"}
              /\ v.img = w.img /\ v.temp = w.temp
           \/ \E c \in Calls :
                /\ ApplyUpdate(c) /\ call[c].item = i /\ w.status = "pending"
                /\ v = WithResult(w, call[c].status, call[c].img)
    BY <2>1, <2>2, <2>3, RowMoves
  <2>6. CASE q.pc = "find"
    BY <1>2, <2>1, <2>4, <2>5, <2>6 DEF Fits
  <2>7. CASE q.pc # "find"
    <3>1. /\ i \in created /\ w.status # "absent"
          /\ q.op = "retry" => RetryFits(q, w)
          /\ q.op = "update" => UpdateFits(q, w)
      BY <1>2, <2>1, <2>2, <2>4, <2>7 DEF Fits
    <3>2. v.status # "absent"
      BY <2>5, <3>1 DEF WithResult, Typed, CallsTyped, CallRec
    <3>3. q.op = "retry" => RetryFits(q, v)
      BY <2>5, <3>1 DEF RetryFits
    <3>4. q.op = "update" => Quiet(i)
      BY <2>1, <2>4 DEF UpdatesQuiet
    <3>5. q.op = "update" => UpdateFits(q, v)
      BY <2>5, <3>1, <3>4 DEF UpdateFits, AsRead, Quiet
    <3> QED
      BY <1>2, <2>1, <2>3, <2>4, <2>5, <3>1, <3>2, <3>3, <3>5 DEF Fits
  <2> QED
    BY <2>6, <2>7
<1> QED
  BY <1>1, <1>2

LEMMA FitsSubmit ==
  ASSUME OneAtATime, Typed, AllFit, Submit
  PROVE  AllFit'
<1>1. UNCHANGED <<row, created>>
  BY DEF Submit
<1>2. PICK s \in Requests, op \in {"create", "update", "retry", "delete"},
           photo \in {"none", "plain", "generate"}, i \in created \cup {NoItem} :
        /\ req'[s] = Message(op, photo, i)
        /\ \A x \in Requests : x # s => req'[x] = req[x]
        /\ op = "create" <=> i = NoItem
  BY SubmitFields
<1>3. /\ req'[s].pc = IF op = "create" THEN PhotoStep(photo) ELSE "find"
      /\ req'[s].op = op /\ req'[s].item = i /\ req'[s].entity = NewEntity
      /\ req'[s].photo = photo
  BY <1>2, MessageFields
<1>4. op = "create" => CreateFits(req'[s])
  BY <1>2, <1>3 DEF CreateFits, NewEntity, NoRow, PhotoStep
<1>5. Fits(s)'
  BY <1>1, <1>2, <1>3, <1>4 DEF Fits
<1>6. \A x \in Requests : x # s => Fits(x)'
  BY <1>2, NoneAtWork DEF Fits, Writing, InProgress
<1> QED
  BY <1>5, <1>6 DEF AllFit

LEMMA AllFitNext ==
  ASSUME OneAtATime, Typed, RowsConsistent, Apart, Alone, OnTheWay, UpdatesQuiet, AllFit,
         [Next]_vars
  PROVE  AllFit'
<1>1. ASSUME NEW r \in Requests, Handler(r) PROVE AllFit'
  <2>1. Fits(r)'
    BY <1>1, FitsHandler DEF AllFit
  <2>2. \A s \in Requests : s # r => Fits(s)'
    BY <1>1, OthersIdle DEF Fits, Writing, InProgress
  <2> QED
    BY <2>1, <2>2 DEF AllFit
<1>2. CASE UNCHANGED req
  BY <1>2, FitsRows DEF AllFit
<1> QED
  BY <1>1, <1>2, FitsSubmit, ReqWriters

(* All that is said of requests: none of it needs the images. *)
Single == Alone /\ OnTheWay /\ UpdatesQuiet /\ AllFit

LEMMA SingleInit == Init => Single
<1>1. Init => \A r \in Requests : req[r] = Unsent
  BY DEF Init, WardrobeInit
<1> QED
  BY <1>1, BlankFields, BlankGoesThrough
  DEF Single, Alone, OnTheWay, UpdatesQuiet, AllFit, Fits, Writing, InProgress

LEMMA SingleNext ==
  ASSUME OneAtATime, Typed, RowsConsistent, Apart, Single, [Next]_vars
  PROVE  Single'
  BY AloneNext, OnTheWayNext, UpdatesQuietNext, AllFitNext DEF Single

-----------------------------------------------------------------------------
(* Where the objects lie that an RPC, a handler or a job is going to delete. *)

TempsPlaced == \A j \in Jobs : job[j].temp # NoKey => prefix[job[j].temp] = "tmp"

Leavings == PrevPlaced /\ OldPlaced /\ TempsPlaced

LEMMA KeptPrefix ==
  ASSUME Typed, [Next]_vars
  PROVE  \A k \in Keys : /\ prefix[k] = "user" => prefix'[k] = "user"
                         /\ prefix[k] = "tmp" => prefix'[k] = "tmp"
  BY PrefixStep DEF KeepsPrefixes

LEMMA PrevPlacedNext ==
  ASSUME Typed, Placement, PrevPlaced, [Next]_vars
  PROVE  PrevPlaced'
<1>1. call \in [Calls -> CallRec] /\ \A d \in Calls : call[d] \in CallRec
  BY DEF Typed, CallsTyped
<1> SUFFICES ASSUME NEW c \in Calls, call'[c].prev # NoKey
             PROVE  prefix'[call'[c].prev] = "user"
  BY DEF PrevPlaced
<1>2. CASE call'[c].prev = call[c].prev
  BY <1>1, <1>2, KeptPrefix DEF PrevPlaced, CallRec
<1>3. NoCall.prev = NoKey
  BY DEF NoCall
<1>4. ASSUME NEW d \in Calls, ApplyUpdate(d) PROVE prefix'[call'[c].prev] = "user"
  <2>1. PICK i \in Items : i = call[d].item
    BY <1>4 DEF Typed, CallsTyped, GoodCall, ApplyUpdate
  <2>2. PICK p : p = Replaced(row[i], WithResult(row[i], call[d].status, call[d].img))
    OBVIOUS
  <2>3. p \in {NoKey, row[i].img}
    BY <2>2 DEF Replaced
  <2>4. call'[c].prev \in {call[c].prev, p}
    BY <1>1, <1>4, <2>1, <2>2 DEF ApplyUpdate, CallRec
  <2>5. row[i].img \in Keys \cup {NoKey} /\ (row[i].img # NoKey => prefix[row[i].img] = "user")
    BY DEF Typed, RowsTyped, Row, Placement, RowsPlaced, Placed
  <2> QED
    BY <1>2, <2>3, <2>4, <2>5, KeptPrefix
<1>5. ASSUME NEW d \in Calls, ApplyLookup(d) \/ ApplyFinish(d)
      PROVE  call'[c].prev \in {call[c].prev, NoKey}
  BY <1>1, <1>3, <1>5 DEF ApplyLookup, ApplyFinish, CallRec
<1>6. ASSUME NEW j \in Jobs, Consumer(j) PROVE call'[c].prev \in {call[c].prev, NoKey}
  <2>1. CASE GenerationFails(j) \/ GenerationSucceeds(j)
    <3>1. \E status, img : SendResult(j, status, img)
      BY <2>1 DEF GenerationFails, GenerationSucceeds
    <3> QED
      BY <3>1, SendFields
  <2>2. CASE OutcomeTimeout(j)
    BY <1>1, <2>2 DEF OutcomeTimeout, CallRec
  <2>3. CASE UNCHANGED call
    BY <2>3
  <2> QED
    BY <1>6, <2>1, <2>2, <2>3
    DEF Consumer, CheckPending, SkipUnreadable, LoadOriginal, StoreGenerated,
        DiscardImage, DeleteTempOriginal
<1>7. ASSUME Environment PROVE call'[c].prev \in {call[c].prev, NoKey}
  <2>1. CASE ConsumerCrash
    BY <1>1, <2>1 DEF ConsumerCrash, CallRec
  <2>2. CASE WardrobeCrash
    BY <1>1, <1>3, <2>2 DEF WardrobeCrash, CallRec
  <2> QED
    BY <1>7, <2>1, <2>2 DEF Environment, BecomeStale, Redeliver, Expiry
<1>8. ASSUME \/ Submit \/ Sweep \/ UNCHANGED vars
             \/ \E r \in Requests : Handler(r)
      PROVE  UNCHANGED call
  BY <1>8
  DEF Submit, Sweep, vars, wardrobeVars, Handler, FindMissing, RetryFind,
      UpdateFind, DeleteFind, CheckOriginal, DeleteImage, StorePhoto,
      DeleteOriginal, Save, Reply, DeleteRow
<1> QED
  BY <1>2, <1>4, <1>5, <1>6, <1>7, <1>8 DEF Next, ApplyResult

LEMMA OldPlacedNext ==
  ASSUME OneAtATime, Typed, Placement, OldPlaced, [Next]_vars
  PROVE  OldPlaced'
<1> SUFFICES ASSUME NEW r \in Requests, req'[r].old # NoKey
             PROVE  prefix'[req'[r].old] = "tmp"
  BY DEF OldPlaced
<1>1. CASE req'[r].old = req[r].old
  BY <1>1, KeptPrefix DEF OldPlaced, Typed, ReqsTyped, Req
<1>2. CASE Submit
  BY <1>1, <1>2, SubmitFields, MessageFields
<1>3. ASSUME NEW s \in Requests, Handler(s), s = r PROVE prefix'[req'[r].old] = "tmp"
  <2>1. ~ Acked(r)
    BY AckedFields, BlankFields
  <2>2. CASE \E pc : Goto(r, pc)
    BY <1>1, <2>2, GotoFields
  <2>3. CASE RetryFind(r) \/ UpdateFind(r) \/ DeleteFind(r)
    <3>1. req[r].item \in Items /\ \E pc : Load(r, pc)
      BY <2>1, <2>3 DEF Typed, ReqsTyped, GoodReq, RetryFind, UpdateFind, DeleteFind
    <3>2. PICK i \in Items : i = req[r].item
      BY <3>1
    <3>3. row[i].temp \in Keys \cup {NoKey} /\ (row[i].temp # NoKey => prefix[row[i].temp] = "tmp")
      BY DEF Typed, RowsTyped, Row, Placement, RowsPlaced, Placed
    <3>4. req'[r].old = row[i].temp
      BY <3>1, <3>2, LoadFields
    <3> QED
      BY <3>3, <3>4, KeptPrefix
  <2>4. CASE StorePhoto(r) /\ ~ Unacked(r)
    BY <1>1, <2>4, StoreFields
  <2>5. CASE CheckOriginal(r)
    BY <1>1, <2>1, <2>5, CheckFields
  <2> QED
    BY <1>3, <2>1, <2>2, <2>3, <2>4, <2>5
    DEF Handler, FindMissing, DeleteImage, DeleteOriginal, Save, Reply, DeleteRow, StorePhoto,
        Unacked
<1>4. ASSUME NEW s \in Requests, Handler(s), s # r PROVE req'[r].old = req[r].old
  BY <1>4, OneMoves
<1>5. CASE UNCHANGED req
  BY <1>1, <1>5
<1> QED
  BY <1>1, <1>2, <1>3, <1>4, <1>5, ReqWriters

LEMMA TempsPlacedNext ==
  ASSUME Typed, Placement, TempsPlaced, [Next]_vars
  PROVE  TempsPlaced'
<1> SUFFICES ASSUME NEW x \in Jobs, job'[x].temp # NoKey
             PROVE  prefix'[job'[x].temp] = "tmp"
  BY DEF TempsPlaced
<1>1. \A j \in Jobs : job[j].temp \in Keys \cup {NoKey}
  BY DEF Typed, JobsTyped, JobRec
<1>2. ASSUME NEW j \in Jobs, job'[x].temp = job[j].temp PROVE prefix'[job'[x].temp] = "tmp"
  BY <1>1, <1>2, KeptPrefix DEF TempsPlaced
<1>3. ASSUME NEW r \in Requests, job'[x].temp = req[r].entity.temp
      PROVE  prefix'[job'[x].temp] = "tmp"
  BY <1>3, KeptPrefix DEF Typed, ReqsTyped, Req, Row, Placement, ReqsPlaced, Placed
<1>4. StoreGenerated(x) => job'[x].temp = job[x].temp
  BY DEF StoreGenerated, Typed, JobsTyped, JobRec
<1>5. IdleJob.temp = NoKey
  BY DEF IdleJob
<1> QED
  BY <1>2, <1>3, <1>4, <1>5, JobsFollow

-----------------------------------------------------------------------------
(* How the images on their way come and go. *)

LEMMA SentFrom ==
  ASSUME OneAtATime, Typed, [Next]_vars, NEW c \in Calls, NEW k \in Keys, Sent(c, k)'
  PROVE  \/ Sent(c, k) /\ \A d \in Calls : ApplyUpdate(d) => d # c
         \/ \E j \in Jobs : /\ GenerationSucceeds(j) /\ Generated(j, k) /\ call[c].pc = "none"
                            /\ \A d \in Calls : d # c => call'[d] = call[d]
<1>1. call \in [Calls -> CallRec] /\ \A d \in Calls : call[d] \in CallRec
  BY DEF Typed, CallsTyped
<1>2. call'[c].pc = "sent" /\ call'[c].img = k
  BY DEF Sent
<1>3. NoCall.pc = "none"
  BY DEF NoCall
<1>4. ASSUME NEW d \in Calls, ApplyUpdate(d) PROVE Sent(c, k) /\ d # c
  <2>1. call'[d].pc \in {"applied", "missed"}
    BY <1>1, <1>4 DEF ApplyUpdate, CallRec
  <2>2. \A e \in Calls : e # d => call'[e] = call[e]
    BY <1>1, <1>4 DEF ApplyUpdate
  <2> QED
    BY <1>2, <2>1, <2>2 DEF Sent
<1>5. ASSUME call'[c] = call[c] PROVE Sent(c, k)
  BY <1>2, <1>5 DEF Sent
<1>6. ASSUME NEW d \in Calls, ApplyLookup(d) \/ ApplyFinish(d) PROVE Sent(c, k)
  <2>1. call'[d].pc \in {"none", "unacked"}
    BY <1>1, <1>3, <1>6 DEF ApplyLookup, ApplyFinish, CallRec
  <2>2. \A e \in Calls : e # d => call'[e] = call[e]
    BY <1>1, <1>6 DEF ApplyLookup, ApplyFinish
  <2> QED
    BY <1>2, <1>5, <2>1, <2>2
<1>7. ASSUME NEW j \in Jobs, NEW status, NEW img, SendResult(j, status, img)
      PROVE  \/ Sent(c, k)
             \/ k = img /\ call[c].pc = "none" /\ \A d \in Calls : d # c => call'[d] = call[d]
  <2>1. PICK d \in Calls : /\ call[d].pc = "none" /\ \A e \in Calls : e # d => call'[e] = call[e]
                           /\ call'[d].img = img
    BY <1>7, SendFields
  <2> QED
    BY <1>2, <1>5, <2>1
<1>8. ASSUME NEW j \in Jobs, Consumer(j)
      PROVE  \/ Sent(c, k)
             \/ /\ GenerationSucceeds(j) /\ Generated(j, k) /\ call[c].pc = "none"
                /\ \A d \in Calls : d # c => call'[d] = call[d]
  <2>1. CASE GenerationFails(j)
    BY <1>7, <2>1, NoKeyAssumption DEF GenerationFails
  <2>2. CASE GenerationSucceeds(j)
    BY <1>7, <2>2 DEF GenerationSucceeds, Generated
  <2>3. CASE OutcomeTimeout(j)
    BY <1>1, <1>2, <2>3 DEF OutcomeTimeout, Sent, CallRec
  <2> QED
    BY <1>5, <1>8, <2>1, <2>2, <2>3
    DEF Consumer, CheckPending, SkipUnreadable, LoadOriginal, StoreGenerated,
        DiscardImage, DeleteTempOriginal
<1>9. ASSUME Environment PROVE Sent(c, k)
  <2>1. ~ WardrobeCrash
    BY DEF OneAtATime, WardrobeCrash, Fault
  <2>2. CASE ConsumerCrash
    BY <1>1, <1>2, <2>2 DEF ConsumerCrash, Sent, CallRec
  <2> QED
    BY <1>5, <1>9, <2>1, <2>2 DEF Environment, BecomeStale, Redeliver, Expiry
<1>10. ASSUME \/ Submit \/ Sweep \/ UNCHANGED vars
              \/ \E r \in Requests : Handler(r)
       PROVE  UNCHANGED call
  BY <1>10
  DEF Submit, Sweep, vars, wardrobeVars, Handler, FindMissing, RetryFind,
      UpdateFind, DeleteFind, CheckOriginal, DeleteImage, StorePhoto,
      DeleteOriginal, Save, Reply, DeleteRow
<1>11. \A d \in Calls : ApplyUpdate(d) => d # c
  BY <1>4
<1> QED
  BY <1>4, <1>5, <1>6, <1>8, <1>9, <1>10, <1>11 DEF Next, ApplyResult

(* What a step of one job does to the jobs. *)
LEMMA GotoJobFields ==
  ASSUME Typed, NEW j \in Jobs, NEW pc, JobGoto(j, pc) \/ AckJob(j)
  PROVE  /\ \A x \in Jobs : x # j => job'[x] = job[x]
         /\ \/ job'[j] = IdleJob
            \/ job'[j].pc = pc /\ job'[j].item = job[j].item
               /\ job'[j].temp = job[j].temp /\ job'[j].img = job[j].img
  BY DEF JobGoto, AckJob, Typed, JobsTyped, JobRec

LEMMA AnswerFields ==
  ASSUME Typed, NEW c \in Calls, NEW outcome, Answer(c, outcome), NEW x \in Jobs
  PROVE  \/ job'[x] = job[x]
         \/ x = call[c].from /\ job'[x] = IdleJob
         \/ /\ x = call[c].from /\ call[c].status = "ready"
            /\ job'[x].pc = AfterOutcome("ready", outcome)
            /\ job'[x].pc \in {"cleanup", "discard", "discardGone"}
            /\ job'[x].item = job[x].item /\ job'[x].temp = job[x].temp
            /\ job'[x].img = job[x].img
<1>1. job \in [Jobs -> JobRec] /\ job[x] \in JobRec
  BY DEF Typed, JobsTyped
<1>2. PICK j : j = call[c].from
  OBVIOUS
<1>3. PICK next : next = AfterOutcome(call[c].status, outcome)
  OBVIOUS
<1>4. PICK n : n = IF next = "idle" THEN IdleJob ELSE [job[j] EXCEPT !.pc = next]
  OBVIOUS
<1>5. job' = job \/ job' = [job EXCEPT ![j] = n]
  BY <1>2, <1>3, <1>4 DEF Answer
<1>6. job'[x] = job[x] \/ (x = j /\ job'[x] = n)
  BY <1>1, <1>5
<1>7. next # "idle" => /\ call[c].status = "ready"
                       /\ next \in {"cleanup", "discard", "discardGone"}
  BY <1>3 DEF AfterOutcome
<1>8. x = j /\ next # "idle" => /\ n.pc = next /\ n.item = job[x].item
                                /\ n.temp = job[x].temp /\ n.img = job[x].img
  BY <1>1, <1>4
  DEF JobRec
<1> QED
  BY <1>2, <1>3, <1>4, <1>6, <1>7, <1>8

LEMMA GeneratedFrom ==
  ASSUME Typed, [Next]_vars, NEW x \in Jobs, NEW k, Generated(x, k)'
  PROVE  \/ Generated(x, k) /\ ~ GenerationSucceeds(x)
         \/ StoreGenerated(x) /\ k = NewKey
<1>1. job \in [Jobs -> JobRec] /\ \A j \in Jobs : job[j] \in JobRec
  BY DEF Typed, JobsTyped
<1>2. job'[x].pc = "generated" /\ job'[x].img = k
  BY DEF Generated
<1>3. IdleJob.pc = "idle"
  BY DEF IdleJob
<1>4. ~ GenerationSucceeds(x)
  <2> SUFFICES ASSUME GenerationSucceeds(x) PROVE FALSE
    OBVIOUS
  <2>1. \E status, img : SendResult(x, status, img)
    BY DEF GenerationSucceeds
  <2> QED
    BY <1>2, <2>1, SendFields
<1>5. CASE job'[x] = job[x]
  BY <1>2, <1>4, <1>5 DEF Generated
<1>6. ASSUME NEW r \in Requests, Handler(r) PROVE job'[x] = job[x]
  <2>1. PICK m : m.pc = "queued" /\ (job' = job \/ job' = [job EXCEPT ![FreeJob] = m])
    <3>1. UNCHANGED job \/ \E i, t : Emit(i, t)
      BY <1>6 DEF Handler, FindMissing, RetryFind, UpdateFind, DeleteFind, CheckOriginal,
                  DeleteImage, StorePhoto, DeleteOriginal, Save, Reply, DeleteRow
    <3>2. \A i, t : [IdleJob EXCEPT !.pc = "queued", !.item = i, !.temp = t].pc = "queued"
      BY DEF IdleJob
    <3>3. CASE UNCHANGED job
      BY <3>2, <3>3
    <3> QED
      BY <3>1, <3>2, <3>3 DEF Emit
  <2> QED
    BY <1>1, <1>2, <2>1
<1>7. ASSUME NEW c \in Calls, ApplyResult(c) PROVE job'[x] = job[x]
  BY <1>2, <1>3, <1>7, AnswerFields DEF ApplyResult, ApplyUpdate, ApplyLookup, ApplyFinish
<1>8. ASSUME NEW j \in Jobs, Consumer(j)
      PROVE  job'[x] = job[x] \/ (StoreGenerated(x) /\ k = NewKey)
  <2>1. ASSUME NEW pc, JobGoto(j, pc) \/ AckJob(j), pc # "generated" PROVE job'[x] = job[x]
    BY <1>2, <1>3, <2>1, GotoJobFields
  <2>2. CASE StoreGenerated(j)
    <3>1. PICK n : n = NewKey
      OBVIOUS
    <3>2. job' = [job EXCEPT ![j].pc = "generated", ![j].img = n]
      BY <2>2, <3>1 DEF StoreGenerated
    <3>3. x # j => job'[x] = job[x]
      BY <1>1, <3>2
    <3>4. job'[j].img = n
      BY <1>1, <3>2 DEF JobRec
    <3> QED
      BY <1>2, <2>2, <3>1, <3>3, <3>4
  <2>3. CASE DiscardImage(j)
    <3>1. x # j => job'[x] = job[x]
      BY <1>1, <2>3 DEF DiscardImage, AckJob
    <3>2. job'[j].pc \in {"idle", "cleanup"}
      BY <1>1, <1>3, <2>3 DEF DiscardImage, AckJob, JobRec
    <3> QED
      BY <1>2, <3>1, <3>2
  <2>4. CASE GenerationFails(j) \/ GenerationSucceeds(j)
    BY <2>1, <2>4 DEF GenerationFails, GenerationSucceeds, SendResult
  <2> QED
    BY <1>8, <2>1, <2>2, <2>3, <2>4
    DEF Consumer, CheckPending, SkipUnreadable, LoadOriginal, OutcomeTimeout,
        DeleteTempOriginal
<1>9. ASSUME Environment PROVE job'[x] = job[x]
  <2>1. CASE ConsumerCrash
    BY <1>1, <1>2, <2>1 DEF ConsumerCrash, JobRec
  <2>2. ASSUME NEW j \in Jobs, Redeliver(j) PROVE job'[x] = job[x]
    <3>1. PICK m : m = [IdleJob EXCEPT !.pc = "queued", !.item = job[j].item,
                                       !.temp = job[j].temp]
      OBVIOUS
    <3>2. m.pc = "queued"
      BY <3>1 DEF IdleJob
    <3>3. job' = [job EXCEPT ![FreeJob] = m]
      BY <2>2, <3>1 DEF Redeliver
    <3> QED
      BY <1>1, <1>2, <3>2, <3>3
  <2> QED
    BY <1>9, <2>1, <2>2 DEF Environment, BecomeStale, Expiry, WardrobeCrash
<1>10. ASSUME Submit \/ Sweep \/ UNCHANGED vars PROVE UNCHANGED job
  BY <1>10 DEF Submit, Sweep, vars, wardrobeVars
<1> QED
  BY <1>5, <1>6, <1>7, <1>8, <1>9, <1>10 DEF Next

(* A job gets an image to discard by the answer to the result it sent. *)
LEMMA DiscardFrom ==
  ASSUME Typed, RepliesCarried, [Next]_vars, NEW x \in Jobs, NEW k \in Keys,
         job'[x].pc \in {"discard", "discardGone"}, job'[x].img = k
  PROVE  Discarded(k)
<1>1. job \in [Jobs -> JobRec] /\ \A j \in Jobs : job[j] \in JobRec
  BY DEF Typed, JobsTyped
<1>2. CASE job'[x] = job[x]
  BY <1>2 DEF Discarded
<1>3. IdleJob.pc = "idle"
  BY DEF IdleJob
<1>4. ASSUME NEW r \in Requests, Handler(r) PROVE job'[x] = job[x]
  <2>1. PICK m : m.pc = "queued" /\ (job' = job \/ job' = [job EXCEPT ![FreeJob] = m])
    <3>1. UNCHANGED job \/ \E i, t : Emit(i, t)
      BY <1>4 DEF Handler, FindMissing, RetryFind, UpdateFind, DeleteFind, CheckOriginal,
                  DeleteImage, StorePhoto, DeleteOriginal, Save, Reply, DeleteRow
    <3>2. \A i, t : [IdleJob EXCEPT !.pc = "queued", !.item = i, !.temp = t].pc = "queued"
      BY DEF IdleJob
    <3>3. CASE UNCHANGED job
      BY <3>2, <3>3
    <3> QED
      BY <3>1, <3>2, <3>3 DEF Emit
  <2> QED
    BY <1>1, <2>1
<1>5. ASSUME NEW c \in Calls, NEW outcome, Answer(c, outcome), call[c].pc = "missed"
      PROVE  Discarded(k)
  <2>1. CASE job'[x] = job[x]
    BY <1>2, <2>1
  <2>2. CASE x = call[c].from /\ call[c].status = "ready" /\ job'[x].img = job[x].img
    <3>1. call[c].from # NoJob
      BY <2>2, PipelineAssumption
    <3>2. call[c].img = k
      BY <2>2, <3>1 DEF RepliesCarried
    <3> QED
      BY <1>5, <3>1, <3>2 DEF Discarded
  <2> QED
    BY <1>3, <1>5, <2>1, <2>2, AnswerFields
<1>6. ASSUME NEW c \in Calls, NEW outcome \in {"applied", "error"}, Answer(c, outcome)
      PROVE  job'[x] = job[x]
  BY <1>3, <1>6, AnswerFields DEF AfterOutcome
<1>7. ASSUME NEW c \in Calls, ApplyResult(c) PROVE Discarded(k)
  <2>1. CASE ApplyUpdate(c)
    BY <1>2, <2>1 DEF ApplyUpdate
  <2>2. CASE ApplyLookup(c)
    BY <1>5, <2>2 DEF ApplyLookup
  <2>3. CASE ApplyFinish(c)
    BY <1>2, <1>6, <2>3 DEF ApplyFinish
  <2> QED
    BY <1>7, <2>1, <2>2, <2>3 DEF ApplyResult
<1>8. ASSUME NEW j \in Jobs, Consumer(j) PROVE job'[x] = job[x]
  <2>1. ASSUME NEW pc, JobGoto(j, pc) \/ AckJob(j), pc \notin {"discard", "discardGone"}
        PROVE  job'[x] = job[x]
    BY <1>3, <2>1, GotoJobFields
  <2>2. CASE StoreGenerated(j)
    <3>1. x # j => job'[x] = job[x]
      BY <1>1, <2>2 DEF StoreGenerated
    <3>2. job'[j].pc = "generated"
      BY <1>1, <2>2 DEF StoreGenerated, JobRec
    <3> QED
      BY <3>1, <3>2
  <2>3. CASE DiscardImage(j)
    <3>1. x # j => job'[x] = job[x]
      BY <1>1, <2>3 DEF DiscardImage, AckJob
    <3>2. job'[j].pc \in {"idle", "cleanup"}
      BY <1>1, <1>3, <2>3 DEF DiscardImage, AckJob, JobRec
    <3> QED
      BY <3>1, <3>2
  <2>4. CASE GenerationFails(j) \/ GenerationSucceeds(j)
    BY <2>1, <2>4 DEF GenerationFails, GenerationSucceeds, SendResult
  <2> QED
    BY <1>8, <2>1, <2>2, <2>3, <2>4
    DEF Consumer, CheckPending, SkipUnreadable, LoadOriginal, OutcomeTimeout,
        DeleteTempOriginal
<1>9. ASSUME Environment PROVE job'[x] = job[x]
  <2>1. CASE ConsumerCrash
    BY <1>1, <2>1 DEF ConsumerCrash, JobRec, InFlight
  <2>2. ASSUME NEW j \in Jobs, Redeliver(j) PROVE job'[x] = job[x]
    <3>1. PICK m : m = [IdleJob EXCEPT !.pc = "queued", !.item = job[j].item,
                                       !.temp = job[j].temp]
      OBVIOUS
    <3>2. m.pc = "queued"
      BY <3>1 DEF IdleJob
    <3>3. job' = [job EXCEPT ![FreeJob] = m]
      BY <2>2, <3>1 DEF Redeliver
    <3> QED
      BY <1>1, <3>2, <3>3
  <2> QED
    BY <1>9, <2>1, <2>2 DEF Environment, BecomeStale, Expiry, WardrobeCrash
<1>10. ASSUME Submit \/ Sweep \/ UNCHANGED vars PROVE UNCHANGED job
  BY <1>10 DEF Submit, Sweep, vars, wardrobeVars
<1> QED
  BY <1>2, <1>4, <1>7, <1>8, <1>9, <1>10 DEF Next

(* An RPC that has hit or missed its row did so in this step or before it. *)
LEMMA SettledCalls ==
  ASSUME OneAtATime, Typed, [Next]_vars, NEW c \in Calls, call'[c].pc \in {"missed", "applied"}
  PROVE  \/ ApplyUpdate(c)
         \/ /\ call'[c].pc = call[c].pc /\ call'[c].img = call[c].img
            /\ call'[c].prev = call[c].prev /\ call'[c].status = call[c].status
            /\ call'[c].item = call[c].item /\ call'[c].from \in {call[c].from, NoJob}
<1>1. call \in [Calls -> CallRec] /\ \A d \in Calls : call[d] \in CallRec
  BY DEF Typed, CallsTyped
<1>2. NoCall.pc = "none"
  BY DEF NoCall
<1>3. ASSUME NEW d \in Calls, ApplyResult(d) PROVE ApplyUpdate(c) \/ call'[c] = call[c]
  <2>1. CASE d = c
    BY <1>1, <1>2, <1>3, <2>1 DEF ApplyResult, ApplyLookup, ApplyFinish, CallRec
  <2>2. CASE d # c
    BY <1>1, <1>3, <2>2 DEF ApplyResult, ApplyUpdate, ApplyLookup, ApplyFinish
  <2> QED
    BY <2>1, <2>2
<1>4. ASSUME NEW j \in Jobs, Consumer(j)
      PROVE  call'[c] = call[c] \/ call'[c] = [call[c] EXCEPT !.from = NoJob]
  <2>1. CASE GenerationFails(j) \/ GenerationSucceeds(j)
    <3>1. \E status, img : SendResult(j, status, img)
      BY <2>1 DEF GenerationFails, GenerationSucceeds
    <3> QED
      BY <3>1, SendFields
  <2>2. CASE OutcomeTimeout(j)
    BY <2>2 DEF OutcomeTimeout
  <2> QED
    BY <1>4, <2>1, <2>2
    DEF Consumer, CheckPending, SkipUnreadable, LoadOriginal, StoreGenerated,
        DiscardImage, DeleteTempOriginal
<1>5. ASSUME Environment
      PROVE  call'[c] = call[c] \/ call'[c] = [call[c] EXCEPT !.from = NoJob]
  <2>1. ~ WardrobeCrash
    BY DEF OneAtATime, WardrobeCrash, Fault
  <2> QED
    BY <1>5, <2>1 DEF Environment, BecomeStale, Redeliver, Expiry, ConsumerCrash
<1>6. ASSUME \/ Submit \/ Sweep \/ UNCHANGED vars
             \/ \E r \in Requests : Handler(r)
      PROVE  UNCHANGED call
  BY <1>6
  DEF Submit, Sweep, vars, wardrobeVars, Handler, FindMissing, RetryFind,
      UpdateFind, DeleteFind, CheckOriginal, DeleteImage, StorePhoto,
      DeleteOriginal, Save, Reply, DeleteRow
<1>7. call'[c] = [call[c] EXCEPT !.from = NoJob] =>
        /\ call'[c].pc = call[c].pc /\ call'[c].img = call[c].img
        /\ call'[c].prev = call[c].prev /\ call'[c].status = call[c].status
        /\ call'[c].item = call[c].item /\ call'[c].from = NoJob
  BY <1>1 DEF CallRec
<1> QED
  BY <1>3, <1>4, <1>5, <1>6, <1>7 DEF Next

(* What the terminal UPDATE does, hit or miss. *)
LEMMA UpdateFields ==
  ASSUME Typed, NEW c \in Calls, ApplyUpdate(c)
  PROVE  \E i \in Items :
           /\ i = call[c].item /\ call[c].pc = "sent"
           /\ \A d \in Calls : d # c => call'[d] = call[d]
           /\ call'[c].item = i /\ call'[c].status = call[c].status
           /\ call'[c].img = call[c].img /\ call'[c].from = call[c].from
           /\ \/ /\ row[i].status = "pending" /\ call'[c].pc = "applied"
                 /\ row'[i] = WithResult(row[i], call[c].status, call[c].img)
                 /\ call'[c].prev = Replaced(row[i], row'[i])
                 /\ \A l \in Items : l # i => row'[l] = row[l]
              \/ /\ row[i].status # "pending" /\ call'[c].pc = "missed"
                 /\ call'[c].prev = call[c].prev
                 /\ UNCHANGED row
<1>1. PICK i \in Items : i = call[c].item
  BY DEF ApplyUpdate, Typed, CallsTyped, GoodCall
<1>2. PICK e : e = WithResult(row[i], call[c].status, call[c].img)
  OBVIOUS
<1>3. PICK p : p = Replaced(row[i], e)
  OBVIOUS
<1>4. /\ call[c].pc = "sent"
      /\ \/ /\ row[i].status = "pending" /\ row' = [row EXCEPT ![i] = e]
            /\ call' = [call EXCEPT ![c].pc = "applied", ![c].prev = p]
         \/ /\ row[i].status # "pending" /\ UNCHANGED row
            /\ call' = [call EXCEPT ![c].pc = "missed"]
  BY <1>1, <1>2, <1>3 DEF ApplyUpdate, AwaitsResult
<1>5. call \in [Calls -> CallRec] /\ call[c] \in CallRec /\ row \in [Items -> Row]
  BY DEF Typed, CallsTyped, RowsTyped
<1>6. /\ \A d \in Calls : d # c => call'[d] = call[d]
      /\ call'[c].item = call[c].item /\ call'[c].status = call[c].status
      /\ call'[c].img = call[c].img /\ call'[c].from = call[c].from
  BY <1>4, <1>5 DEF CallRec
<1>7. CASE row[i].status = "pending"
  <2>1. call'[c].pc = "applied" /\ call'[c].prev = p
    BY <1>4, <1>5, <1>7 DEF CallRec
  <2>2. row'[i] = e /\ \A l \in Items : l # i => row'[l] = row[l]
    BY <1>4, <1>5, <1>7
  <2> QED
    BY <1>1, <1>2, <1>3, <1>4, <1>6, <1>7, <2>1, <2>2
<1>8. CASE row[i].status # "pending"
  <2>1. call'[c].pc = "missed" /\ call'[c].prev = call[c].prev /\ UNCHANGED row
    BY <1>4, <1>5, <1>8 DEF CallRec
  <2> QED
    BY <1>1, <1>4, <1>6, <1>8, <2>1
<1> QED
  BY <1>7, <1>8

LEMMA DiscardedFrom ==
  ASSUME OneAtATime, Typed, RepliesCarried, [Next]_vars, NEW k \in Keys, Discarded(k)'
  PROVE  \/ Discarded(k)
         \/ \E c \in Calls : /\ ApplyUpdate(c) /\ row[call[c].item].status # "pending"
                             /\ Sent(c, k)
         \/ \E c \in Calls : /\ ApplyUpdate(c) /\ row[call[c].item].status = "pending"
                             /\ k = row[call[c].item].img /\ row'[call[c].item].img # k
<1>1. CASE \E x \in Jobs : job'[x].pc \in {"discard", "discardGone"} /\ job'[x].img = k
  BY <1>1, DiscardFrom
<1>2. ASSUME NEW c \in Calls, ~ ApplyUpdate(c),
             \/ call'[c].pc = "missed" /\ call'[c].from # NoJob /\ call'[c].img = k
             \/ call'[c].pc = "applied" /\ call'[c].prev = k
      PROVE  Discarded(k)
  BY <1>2, SettledCalls DEF Discarded
<1>3. ASSUME NEW c \in Calls, ApplyUpdate(c), call'[c].pc = "missed", call'[c].img = k
      PROVE  row[call[c].item].status # "pending" /\ Sent(c, k)
  BY <1>3, UpdateFields DEF Sent
<1>4. ASSUME NEW c \in Calls, ApplyUpdate(c), call'[c].pc = "applied", call'[c].prev = k
      PROVE  /\ row[call[c].item].status = "pending"
             /\ k = row[call[c].item].img /\ row'[call[c].item].img # k
  BY <1>4, UpdateFields, NoKeyAssumption DEF Replaced
<1> QED
  BY <1>1, <1>2, <1>3, <1>4 DEF Discarded

-----------------------------------------------------------------------------
(* What the rows and the handlers' copies of them show. *)

LEMMA SaveFields ==
  ASSUME Typed, NEW r \in Requests, Save(r)
  PROVE  \E i \in Items :
           /\ req[r].op = "create" => i \notin created
           /\ req[r].op # "create" => i = req[r].item
           /\ row'[i] = req[r].entity /\ \A l \in Items : l # i => row'[l] = row[l]
           /\ created' = created \cup {i}
           /\ req[r].pc = "save" /\ req'[r].pc = "reply" /\ UNCHANGED <<storageVars, call>>
  BY GotoFields DEF Save, Typed, RowsTyped

LEMMA DeleteRowFields ==
  ASSUME Typed, NEW r \in Requests, DeleteRow(r)
  PROVE  /\ req[r].item \in Items /\ row'[req[r].item] = NoRow
         /\ \A l \in Items : l # req[r].item => row'[l] = row[l]
         /\ req[r].pc = "delRow" /\ req'[r].pc = "done"
         /\ UNCHANGED <<storageVars, created, call, job>>
<1>1. req[r].item \in Items /\ req[r].pc = "delRow"
  BY DEF DeleteRow, Typed, ReqsTyped, GoodReq
<1>2. PICK i \in Items : i = req[r].item
  BY <1>1
<1>3. row'[i] = NoRow /\ \A l \in Items : l # i => row'[l] = row[l]
  BY <1>2 DEF DeleteRow, Typed, RowsTyped
<1>4. req'[r].pc = "done"
  BY AckedFields, BlankFields DEF DeleteRow
<1> QED
  BY <1>1, <1>2, <1>3, <1>4 DEF DeleteRow

LEMMA RowsOfHandler ==
  ASSUME NEW r \in Requests, Handler(r)
  PROVE  Save(r) \/ DeleteRow(r) \/ UNCHANGED <<row, created>>
  BY DEF Handler, FindMissing, RetryFind, UpdateFind, DeleteFind, CheckOriginal, DeleteImage,
         StorePhoto, DeleteOriginal, Reply

(* A row's image is its own, one a handler saves, or the result of a job.    *)
LEMMA RowImgFrom ==
  ASSUME OneAtATime, Typed, RowsConsistent, [Next]_vars, NEW i \in Items, NEW k \in Keys,
         row'[i].img = k
  PROVE  \/ row[i].img = k
         \/ \E r \in Requests : Save(r) /\ req[r].entity.img = k
         \/ \E c \in Calls : /\ ApplyUpdate(c) /\ Sent(c, k) /\ call[c].item = i
                             /\ row[i].status = "pending"
<1>1. k # NoKey
  BY NoKeyAssumption
<1>2. ASSUME NEW r \in Requests, Handler(r)
      PROVE  row[i].img = k \/ \E s \in Requests : Save(s) /\ req[s].entity.img = k
  <2>1. CASE Save(r)
    BY <2>1, SaveFields
  <2>2. CASE DeleteRow(r)
    BY <1>1, <2>2, DeleteRowFields DEF NoRow
  <2> QED
    BY <1>2, <2>1, <2>2, RowsOfHandler
<1>3. CASE Submit
  BY <1>3 DEF Submit
<1>4. CASE UNCHANGED req
  <2>1. CASE row'[i].img = row[i].img
    BY <2>1
  <2>2. CASE \E c \in Calls :
               /\ ApplyUpdate(c) /\ call[c].item = i /\ row[i].status = "pending"
               /\ row'[i] = WithResult(row[i], call[c].status, call[c].img)
    <3>1. PICK c \in Calls :
               /\ ApplyUpdate(c) /\ call[c].item = i /\ row[i].status = "pending"
               /\ row'[i] = WithResult(row[i], call[c].status, call[c].img)
      BY <2>2
    <3>2. call[c].pc = "sent"
      BY <3>1 DEF ApplyUpdate
    <3>3. row'[i].img = row[i].img \/ row'[i].img = call[c].img
      BY <3>1 DEF WithResult
    <3> QED
      BY <3>1, <3>2, <3>3 DEF Sent
  <2> QED
    BY <1>4, <2>1, <2>2, RowMoves
<1> QED
  BY <1>2, <1>3, <1>4, ReqWriters

(* A handler's copy shows what it showed, what the row does, or a photo it   *)
(* has just uploaded.                                                        *)
LEMMA HoldsFrom ==
  ASSUME OneAtATime, Typed, [Next]_vars, NEW r \in Requests, NEW k \in Keys,
         Holds(r)', req'[r].entity.img = k
  PROVE  \/ /\ Holds(r) /\ req[r].entity.img = k
            /\ req'[r].op = req[r].op /\ req'[r].item = req[r].item
         \/ \E i \in Items : row[i].img = k /\ UNCHANGED row
         \/ prefix[k] = "none" /\ StorePhoto(r)
<1>1. k # NoKey
  BY NoKeyAssumption
<1>2. req'[r].pc \notin {"unsent", "unacked", "done", "reply", "find"}
  BY DEF Holds, Writing, InProgress
<1>3. ASSUME req'[r] = req[r] PROVE Holds(r) /\ req[r].entity.img = k
  BY <1>2, <1>3 DEF Holds, Writing, InProgress
<1>4. CASE Submit
  <2>1. PICK s \in Requests, op \in {"create", "update", "retry", "delete"},
            photo \in {"none", "plain", "generate"}, i \in created \cup {NoItem} :
           /\ req'[s] = Message(op, photo, i)
           /\ \A x \in Requests : x # s => req'[x] = req[x]
    BY <1>4, SubmitFields
  <2>2. s # r
    BY <1>1, <2>1, MessageFields DEF NewEntity, NoRow
  <2> QED
    BY <1>3, <2>1, <2>2
<1>5. ASSUME NEW s \in Requests, Handler(s), s # r PROVE req'[r] = req[r]
  BY <1>5, OneMoves
<1>6. CASE Handler(r)
  <2>1. ~ Acked(r)
    BY <1>2, AckedFields, BlankFields
  <2>2. /\ ~ Unacked(r) /\ ~ Save(r)
    BY <1>2, GotoFields DEF Unacked, Save
  <2>3. CASE RetryFind(r) \/ UpdateFind(r) \/ DeleteFind(r)
    <3>1. req[r].item \in Items /\ UNCHANGED row /\ \E pc : Load(r, pc)
      BY <2>1, <2>3 DEF RetryFind, UpdateFind, DeleteFind, Typed, ReqsTyped, GoodReq
    <3>2. req'[r].entity = row[req[r].item]
      BY <3>1, LoadFields
    <3> QED
      BY <3>1, <3>2
  <2>4. CASE CheckOriginal(r)
    <3>1. PICK e : e = req[r].entity
      OBVIOUS
    <3>2. AwaitingImage(e, e.temp).img = e.img
      BY <3>1 DEF Typed, ReqsTyped, Req, Row, AwaitingImage
    <3>3. Same(req[r], req'[r]) /\ req'[r].entity.img = req[r].entity.img
      BY <2>1, <2>4, <3>1, <3>2, CheckFields
    <3> QED
      BY <2>4, <3>3 DEF CheckOriginal, Same, Holds, Writing, InProgress
  <2>5. CASE DeleteImage(r) \/ DeleteOriginal(r)
    <3>1. req[r].pc \in {"delImg", "delTemp"} /\ \E pc : Goto(r, pc)
      BY <2>2, <2>5 DEF DeleteImage, DeleteOriginal
    <3>2. Same(req[r], req'[r]) /\ req'[r].entity = req[r].entity
      BY <3>1, GotoFields
    <3> QED
      BY <3>1, <3>2 DEF Same, Holds, Writing, InProgress
  <2>6. CASE StorePhoto(r)
    <3>1. PICK e : e = req[r].entity
      OBVIOUS
    <3>2. e \in Row
      BY <3>1 DEF Typed, ReqsTyped, Req
    <3>3. PICK n \in Keys :
            /\ prefix[n] = "none" /\ Same(req[r], req'[r])
            /\ req'[r].entity = IF req[r].pc = "storeTmp" THEN AwaitingImage(e, n)
                                ELSE ShowingPhoto(e, n)
      BY <2>2, <2>6, <3>1, StoreFields
    <3>4. req'[r].entity.img \in {e.img, n}
      BY <3>2, <3>3 DEF AwaitingImage, ShowingPhoto, Row
    <3>5. req[r].pc \in {"storeTmp", "storeImg"}
      BY <2>6 DEF StorePhoto
    <3> QED
      BY <2>6, <3>1, <3>3, <3>4, <3>5 DEF Same, Holds, Writing, InProgress
  <2> QED
    BY <1>6, <2>1, <2>2, <2>3, <2>4, <2>5, <2>6 DEF Handler, FindMissing, Reply, DeleteRow
<1> QED
  BY <1>3, <1>4, <1>5, <1>6, ReqWriters

(* Who deletes an object. *)
LEMMA ObjectsGo ==
  ASSUME [Next]_vars, NEW k \in stored, k \notin stored'
  PROVE  \/ \E r \in Requests : /\ DeleteImage(r) /\ req[r].entity.img = k
                                /\ UNCHANGED <<prefix, expired>>
         \/ \E r \in Requests : /\ DeleteOriginal(r) /\ req[r].old = k
                                /\ UNCHANGED <<prefix, expired>>
         \/ \E c \in Calls : ApplyFinish(c) /\ call[c].pc = "applied" /\ call[c].prev = k
         \/ \E j \in Jobs : DiscardImage(j) /\ job[j].img = k
         \/ \E j \in Jobs : DeleteTempOriginal(j) /\ job[j].temp = k
         \/ Expiry(k)
<1>1. ASSUME UNCHANGED storageVars PROVE FALSE
  BY <1>1 DEF storageVars
<1>2. ASSUME NEW p, Upload(p) PROVE FALSE
  BY <1>2 DEF Upload
<1>3. ASSUME NEW x, DeleteObject(x) PROVE x = k /\ UNCHANGED <<prefix, expired>>
  BY <1>3 DEF DeleteObject
<1>4. ASSUME NEW r \in Requests, Handler(r)
      PROVE  UNCHANGED <<prefix, expired>> /\ \/ DeleteImage(r) /\ req[r].entity.img = k
                                              \/ DeleteOriginal(r) /\ req[r].old = k
  <2>1. CASE DeleteImage(r)
    BY <1>1, <1>3, <2>1 DEF DeleteImage
  <2>2. CASE DeleteOriginal(r)
    BY <1>1, <1>3, <2>2 DEF DeleteOriginal
  <2>3. CASE StorePhoto(r)
    BY <1>1, <1>2, <2>3 DEF StorePhoto
  <2> QED
    BY <1>1, <1>4, <2>1, <2>2, <2>3
    DEF Handler, FindMissing, RetryFind, UpdateFind, DeleteFind, CheckOriginal, Save, Reply,
        DeleteRow
<1>5. ASSUME NEW c \in Calls, ApplyResult(c)
      PROVE  ApplyFinish(c) /\ call[c].pc = "applied" /\ call[c].prev = k
  BY <1>1, <1>3, <1>5 DEF ApplyResult, ApplyUpdate, ApplyLookup, ApplyFinish
<1>6. ASSUME NEW j \in Jobs, Consumer(j)
      PROVE  \/ DiscardImage(j) /\ job[j].img = k
             \/ DeleteTempOriginal(j) /\ job[j].temp = k
  <2>1. CASE DiscardImage(j)
    BY <1>1, <1>3, <2>1 DEF DiscardImage, DeleteQuietly
  <2>2. CASE DeleteTempOriginal(j)
    BY <1>1, <1>3, <2>2 DEF DeleteTempOriginal, DeleteQuietly
  <2>3. CASE StoreGenerated(j)
    BY <1>2, <2>3 DEF StoreGenerated
  <2> QED
    BY <1>1, <1>6, <2>1, <2>2, <2>3
    DEF Consumer, CheckPending, SkipUnreadable, LoadOriginal, GenerationFails,
        GenerationSucceeds, OutcomeTimeout
<1>7. ASSUME Environment PROVE Expiry(k)
  <2>1. ASSUME NEW x \in Keys, Expiry(x) PROVE Expiry(k)
    BY <2>1 DEF Expiry, ExpireObject
  <2> QED
    BY <1>1, <1>7, <2>1 DEF Environment, BecomeStale, Redeliver, ConsumerCrash, WardrobeCrash
<1>8. ASSUME Submit \/ Sweep \/ UNCHANGED vars PROVE FALSE
  BY <1>1, <1>8 DEF Submit, Sweep, vars
<1> QED
  BY <1>4, <1>5, <1>6, <1>7, <1>8 DEF Next

-----------------------------------------------------------------------------
(* A result is nobody's yet, and what is to be deleted nobody's any more.    *)

Shown(k) == \/ \E i \in Items : row[i].img = k
            \/ \E r \in Requests : Holds(r) /\ req[r].entity.img = k
Kept(k) == \/ \E i \in Items : row[i].img = k
           \/ \E r \in Requests : Saver(r) /\ req[r].entity.img = k

Apply(k) == \E c \in Calls : /\ ApplyUpdate(c) /\ Sent(c, k)
                             /\ row[call[c].item].status = "pending"

(* Nothing speaks of a name that has not been taken. *)
LEMMA UnknownName ==
  ASSUME Typed, Placement, PrevPlaced, NEW k \in Keys, prefix[k] = "none"
  PROVE  ~ Result(k) /\ ~ Discarded(k) /\ ~ Shown(k)
<1>1. k # NoKey
  BY NoKeyAssumption
<1>2. \A c \in Calls : call[c].img # k /\ call[c].prev # k
  BY <1>1 DEF Placement, CallsPlaced, ImagePlaced, PrevPlaced
<1>3. \A j \in Jobs : job[j].img # k
  BY <1>1 DEF Placement, JobsPlaced, ImagePlaced
<1>4. \A i \in Items : row[i].img # k
  BY <1>1 DEF Placement, RowsPlaced, Placed
<1>5. \A r \in Requests : req[r].entity.img # k
  BY <1>1 DEF Placement, ReqsPlaced, Placed
<1> QED
  BY <1>2, <1>3, <1>4, <1>5 DEF Result, Sent, Generated, Discarded, Shown

LEMMA ShownFrom ==
  ASSUME OneAtATime, Typed, RowsConsistent, OnTheWay, [Next]_vars, NEW k \in Keys
  PROVE  /\ Shown(k)' => Shown(k) \/ prefix[k] = "none" \/ Apply(k)
         /\ Kept(k)' => Kept(k) \/ prefix[k] = "none" \/ Apply(k)
<1>1. ASSUME NEW r \in Requests, Save(r) PROVE Saver(r)
  <2>1. req[r].pc = "save" /\ GoesThrough(req[r])
    BY <1>1 DEF Save, OnTheWay
  <2> QED
    BY <2>1 DEF Saver, Holds, Writing, InProgress, GoesThrough
<1>2. ASSUME NEW i \in Items, row'[i].img = k PROVE Kept(k) \/ Apply(k)
  BY <1>1, <1>2, RowImgFrom DEF Kept, Apply
<1>3. ASSUME NEW r \in Requests, Holds(r)', req'[r].entity.img = k
      PROVE  Shown(k) \/ prefix[k] = "none"
  BY <1>3, HoldsFrom DEF Shown
<1>4. ASSUME NEW r \in Requests, Saver(r)', req'[r].entity.img = k
      PROVE  Kept(k) \/ prefix[k] = "none"
  <2>1. Holds(r)' /\ req'[r].op # "delete"
    BY <1>4 DEF Saver
  <2> QED
    BY <1>4, <2>1, HoldsFrom DEF Kept, Saver
<1>5. Kept(k) => Shown(k)
  BY DEF Kept, Shown, Saver
<1> QED
  BY <1>2, <1>3, <1>4, <1>5 DEF Shown, Kept

LEMMA ResultFrom ==
  ASSUME OneAtATime, Typed, Placement, PrevPlaced, ResultsApart, [Next]_vars, NEW k \in Keys,
         Result(k)'
  PROVE  \/ Result(k) /\ ~ Apply(k)
         \/ \E j \in Jobs : StoreGenerated(j) /\ k = NewKey /\ prefix[k] = "none"
<1>1. ASSUME NEW j \in Jobs, StoreGenerated(j), k = NewKey PROVE prefix[k] = "none"
  BY <1>1, NewKeyType DEF StoreGenerated, Upload
<1>2. ASSUME NEW c \in Calls, Sent(c, k)' PROVE Result(k) /\ ~ Apply(k)
  BY <1>2, SentFrom DEF Result, Apply, ResultsApart
<1>3. ASSUME NEW j \in Jobs, Generated(j, k)', Generated(j, k) PROVE Result(k) /\ ~ Apply(k)
  BY <1>3 DEF Result, Apply, ResultsApart
<1> QED
  BY <1>1, <1>2, <1>3, GeneratedFrom DEF Result

LEMMA OneCarrierNext ==
  ASSUME OneAtATime, Typed, Placement, PrevPlaced, ResultsApart, [Next]_vars, NEW k \in Keys
  PROVE  /\ \A c, d \in Calls : Sent(c, k)' /\ Sent(d, k)' => c = d
         /\ \A i, j \in Jobs : Generated(i, k)' /\ Generated(j, k)' => i = j
         /\ \A c \in Calls, j \in Jobs : ~ (Sent(c, k)' /\ Generated(j, k)')
<1>1. ASSUME NEW j \in Jobs, StoreGenerated(j), k = NewKey
      PROVE  /\ \A c \in Calls : ~ Sent(c, k)
             /\ \A i \in Jobs : ~ Generated(i, k)
             /\ \A i \in Jobs : StoreGenerated(i) => i = j
  <2>1. prefix[k] = "none"
    BY <1>1, NewKeyType DEF StoreGenerated, Upload
  <2>2. ~ Result(k)
    BY <2>1, UnknownName
  <2>3. \A i \in Jobs : i # j => job'[i] = job[i]
    BY <1>1 DEF StoreGenerated, Typed, JobsTyped
  <2>4. ASSUME NEW i \in Jobs, StoreGenerated(i) PROVE job[i].pc = "model" /\ job'[i].pc = "generated"
    BY <2>4 DEF StoreGenerated, Typed, JobsTyped, JobRec
  <2> QED
    BY <2>2, <2>3, <2>4 DEF Result
<1>2. ASSUME NEW c \in Calls, NEW d \in Calls, Sent(c, k)', Sent(d, k)' PROVE c = d
  <2>1. CASE Sent(c, k) /\ Sent(d, k)
    BY <2>1 DEF ResultsApart
  <2>2. call'[c].pc = "sent" /\ call'[d].pc = "sent"
    BY <1>2 DEF Sent
  <2>3. CASE \E j \in Jobs : Generated(j, k)
    BY <1>2, <2>2, <2>3, SentFrom DEF ResultsApart
  <2> QED
    BY <1>2, <2>1, <2>3, SentFrom
<1>3. ASSUME NEW i \in Jobs, NEW j \in Jobs, Generated(i, k)', Generated(j, k)' PROVE i = j
  BY <1>1, <1>3, GeneratedFrom DEF ResultsApart
<1>4. ASSUME NEW c \in Calls, NEW j \in Jobs, Sent(c, k)', Generated(j, k)' PROVE FALSE
  BY <1>1, <1>4, SentFrom, GeneratedFrom DEF ResultsApart
<1> QED
  BY <1>2, <1>3, <1>4

(* No handler is about to save the objects of an item that is gone, or of    *)
(* one that a result finds pending.                                          *)
LEMMA NoSaverOf ==
  ASSUME Typed, Apart, Single, NEW c \in Calls, call[c].pc # "none",
         NEW i \in Items, i = call[c].item, row[i].status \in {"pending", "absent"},
         NEW k \in Keys, ItemNames(i, k)
  PROVE  /\ \A l \in Items : l # i => row[l].img # k /\ row[l].temp # k
         /\ \A r \in Requests : Saver(r) => req[r].entity.img # k /\ req[r].entity.temp # k
<1>1. \A l \in Items : l # i => row[l].img # k /\ row[l].temp # k
  BY DEF Apart, NamesApart, ItemNames, RowNames
<1>2. ASSUME NEW r \in Requests, Saver(r), k \in {req[r].entity.img, req[r].entity.temp}
      PROVE  FALSE
  <2>1. /\ req[r].pc \notin {"unsent", "unacked", "done", "reply", "find"} /\ req[r].op # "delete"
        /\ Writing(r) /\ req[r].op \in {"create", "update", "retry", "delete"}
    BY <1>2 DEF Saver, Holds, Writing, InProgress, Typed, ReqsTyped, Req
  <2>2. req[r].op # "create"
    BY <1>2, <2>1 DEF CreateNames, Apart, NamesApart
  <2>3. req[r].item = i
    <3>1. PICK l \in Items : l = req[r].item
      BY <2>1, <2>2 DEF Typed, ReqsTyped, GoodReq
    <3>2. ItemNames(l, k)
      BY <1>2, <3>1 DEF ItemNames, ReqNames
    <3> QED
      BY <3>1, <3>2 DEF Apart, NamesApart
  <2>4. req[r].op # "update"
    BY <2>1, <2>3 DEF Single, UpdatesQuiet, Quiet
  <2>5. Fits(r)
    BY DEF Single, AllFit
  <2> QED
    BY <2>1, <2>2, <2>3, <2>4, <2>5 DEF Fits, RetryFits
<1> QED
  BY <1>1, <1>2

LEMMA ResultsApartNext ==
  ASSUME OneAtATime, Typed, RowsConsistent, Placement, Leavings, Apart, Single, RepliesCarried,
         ResultsApart, [Next]_vars
  PROVE  ResultsApart'
<1> SUFFICES ASSUME NEW k \in Keys
             PROVE  /\ Result(k)' => ~ Shown(k)' /\ ~ Discarded(k)' /\ k \in stored'
                    /\ Discarded(k)' => ~ Kept(k)'
  BY OneCarrierNext DEF ResultsApart, Shown, Kept, Leavings
<1>1. /\ Result(k) => ~ Shown(k) /\ ~ Discarded(k) /\ k \in stored
      /\ Discarded(k) => ~ Kept(k)
      /\ Kept(k) => Shown(k)
  BY DEF ResultsApart, Shown, Kept, Saver
<1>2. prefix[k] = "none" => ~ Result(k) /\ ~ Discarded(k) /\ ~ Shown(k)
  BY UnknownName DEF Leavings
<1>3. /\ Shown(k)' => Shown(k) \/ prefix[k] = "none" \/ Apply(k)
      /\ Kept(k)' => Kept(k) \/ prefix[k] = "none" \/ Apply(k)
  BY ShownFrom DEF Single
<1>4. Apply(k) => Result(k)
  BY DEF Apply, Result
<1>5. \/ ~ Discarded(k)'
      \/ Discarded(k)
      \/ \E c \in Calls : /\ ApplyUpdate(c) /\ row[call[c].item].status # "pending" /\ Sent(c, k)
      \/ \E c \in Calls : /\ ApplyUpdate(c) /\ row[call[c].item].status = "pending"
                          /\ k = row[call[c].item].img /\ row'[call[c].item].img # k
  BY DiscardedFrom
<1>6. ASSUME NEW c \in Calls, ApplyUpdate(c), k = row[call[c].item].img
      PROVE  Kept(k)
  BY <1>6 DEF ApplyUpdate, Kept, Typed, CallsTyped, GoodCall
<1>7. CASE \E j \in Jobs : StoreGenerated(j) /\ k = NewKey /\ prefix[k] = "none"
  <2>1. PICK j \in Jobs : StoreGenerated(j) /\ k = NewKey /\ prefix[k] = "none"
    BY <1>7
  <2>2. UNCHANGED <<row, req>> /\ k \in stored' /\ \A c \in Calls : ~ ApplyUpdate(c)
    <3>1. UNCHANGED <<row, req, call>> /\ k \in stored'
      BY <2>1 DEF StoreGenerated, Upload
    <3>2. ASSUME NEW c \in Calls, ApplyUpdate(c) PROVE FALSE
      <4>1. call'[c].pc # "sent" /\ call[c].pc = "sent"
        BY <3>2, UpdateFields
      <4> QED
        BY <3>1, <4>1
    <3> QED
      BY <3>1, <3>2
  <2>3. ~ Discarded(k)'
    BY <1>2, <1>5, <2>1, <2>2
  <2>4. ~ Shown(k)'
    BY <1>2, <2>1, <2>2 DEF Shown, Holds, Writing, InProgress
  <2> QED
    BY <2>2, <2>3, <2>4
<1>8. CASE Result(k) /\ ~ Apply(k)
  <2>1. ~ Shown(k)'
    BY <1>1, <1>2, <1>3, <1>8
  <2>2. ~ Kept(k)'
    BY <1>1, <1>2, <1>3, <1>8
  <2>3. prefix[k] = "user"
    <3>1. k # NoKey
      BY NoKeyAssumption
    <3> QED
      BY <1>8, <3>1 DEF Result, Sent, Generated, Placement, CallsPlaced, JobsPlaced, ImagePlaced
  <2>4. k \in stored'
    <3>1. k \in stored /\ k # NoKey
      BY <1>1, <1>8, NoKeyAssumption
    <3>2. ASSUME NEW r \in Requests, DeleteImage(r), req[r].entity.img = k PROVE FALSE
      BY <1>1, <1>8, <3>2 DEF DeleteImage, Shown, Holds, Writing, InProgress
    <3>3. ASSUME NEW r \in Requests, req[r].old = k PROVE FALSE
      BY <2>3, <3>1, <3>3 DEF Leavings, OldPlaced
    <3>4. ASSUME NEW c \in Calls, call[c].pc = "applied", call[c].prev = k PROVE FALSE
      BY <1>1, <1>8, <3>4 DEF Discarded
    <3>5. ASSUME NEW j \in Jobs, DiscardImage(j), job[j].img = k PROVE FALSE
      BY <1>1, <1>8, <3>5 DEF DiscardImage, Discarded
    <3>6. ASSUME NEW j \in Jobs, job[j].temp = k PROVE FALSE
      BY <2>3, <3>1, <3>6 DEF Leavings, TempsPlaced
    <3>7. ~ Expiry(k)
      BY <2>3 DEF Expiry, ExpireObject
    <3> QED
      BY <3>1, <3>2, <3>3, <3>4, <3>5, <3>6, <3>7, ObjectsGo
  <2>5. Result(k)' => ~ Discarded(k)'
    <3>1. ASSUME Result(k)', NEW c \in Calls, ApplyUpdate(c), Sent(c, k) PROVE FALSE
      <4>1. ASSUME NEW d \in Calls, Sent(d, k)' PROVE FALSE
        BY <3>1, <4>1, SentFrom DEF ResultsApart
      <4>2. ASSUME NEW j \in Jobs, Generated(j, k)' PROVE FALSE
        <5>1. ~ Generated(j, k)
          BY <3>1 DEF ResultsApart
        <5>2. StoreGenerated(j) /\ k = NewKey
          BY <4>2, <5>1, GeneratedFrom
        <5> QED
          BY <1>2, <1>8, <5>2, NewKeyType DEF StoreGenerated, Upload
      <4> QED
        BY <3>1, <4>1, <4>2 DEF Result
    <3> QED
      BY <1>1, <1>5, <1>6, <1>8, <3>1
  <2> QED
    BY <2>1, <2>2, <2>4, <2>5
<1>9. CASE ~ Result(k)'
  <2>1. CASE Discarded(k)
    BY <1>1, <1>2, <1>3, <1>4, <1>9, <2>1
  <2>2. ASSUME NEW c \in Calls, Sent(c, k) PROVE ~ Kept(k)' \/ Apply(k)
    BY <1>1, <1>2, <1>3, <2>2 DEF Result
  <2>3. ASSUME NEW c \in Calls, ApplyUpdate(c), row[call[c].item].status # "pending", Sent(c, k)
        PROVE  ~ Kept(k)'
    <3>1. UNCHANGED <<row, req>>
      BY <2>3 DEF ApplyUpdate, AwaitsResult
    <3>2. ~ Kept(k)
      BY <1>1, <2>3 DEF Result
    <3> QED
      BY <3>1, <3>2 DEF Kept, Saver, Holds, Writing, InProgress
  <2>4. ASSUME NEW c \in Calls, ApplyUpdate(c), row[call[c].item].status = "pending",
               k = row[call[c].item].img, row'[call[c].item].img # k
        PROVE  ~ Kept(k)'
    <3>1. PICK i \in Items : /\ i = call[c].item /\ call[c].pc = "sent"
                             /\ \A l \in Items : l # i => row'[l] = row[l]
      BY <2>4, UpdateFields
    <3>2. UNCHANGED req
      BY <2>4 DEF ApplyUpdate
    <3>3. /\ \A l \in Items : l # i => row[l].img # k
          /\ \A r \in Requests : Saver(r) => req[r].entity.img # k
      BY <2>4, <3>1, NoSaverOf DEF ItemNames, RowNames
    <3> QED
      BY <2>4, <3>1, <3>2, <3>3 DEF Kept, Saver, Holds, Writing, InProgress
  <2> QED
    BY <1>5, <1>9, <2>1, <2>3, <2>4
<1> QED
  BY <1>7, <1>8, <1>9, ResultFrom DEF Leavings

(* A ready result names its image, a failed one none. *)
LEMMA ReadyNamedNext ==
  ASSUME Typed, ReadyNamed, [Next]_vars
  PROVE  ReadyNamed'
<1>1. call \in [Calls -> CallRec] /\ \A d \in Calls : call[d] \in CallRec
  BY DEF Typed, CallsTyped
<1>2. ASSUME NEW x \in Jobs, job'[x].pc = "generated" PROVE job'[x].img # NoKey
  <2>1. PICK k : k = job'[x].img
    OBVIOUS
  <2>2. Generated(x, k)'
    BY <1>2, <2>1 DEF Generated
  <2>3. CASE Generated(x, k)
    BY <2>1, <2>3 DEF ReadyNamed, Generated
  <2>4. CASE StoreGenerated(x) /\ k = NewKey
    BY <2>1, <2>4, NewKeyType, NoKeyAssumption DEF StoreGenerated, Upload
  <2> QED
    BY <2>2, <2>3, <2>4, GeneratedFrom
<1>3. SUFFICES ASSUME NEW c \in Calls, call'[c].pc # "none"
               PROVE  call'[c].status = "ready" <=> call'[c].img # NoKey
  BY <1>2 DEF ReadyNamed
<1>4. ASSUME call[c].pc # "none", call'[c].status = call[c].status, call'[c].img = call[c].img
      PROVE  call'[c].status = "ready" <=> call'[c].img # NoKey
  BY <1>4 DEF ReadyNamed
<1>5. ASSUME call'[c] = call[c] PROVE call'[c].status = "ready" <=> call'[c].img # NoKey
  BY <1>3, <1>4, <1>5
<1>6. ASSUME NEW d \in Calls, ApplyResult(d)
      PROVE  \/ call'[c] = call[c] \/ call'[c] = NoCall
             \/ /\ call[c].pc # "none" /\ call'[c].status = call[c].status
                /\ call'[c].img = call[c].img
  <2>1. CASE ApplyUpdate(d)
    BY <2>1, UpdateFields
  <2>2. CASE ApplyLookup(d) \/ ApplyFinish(d)
    BY <1>1, <2>2 DEF ApplyLookup, ApplyFinish, CallRec
  <2> QED
    BY <1>6, <2>1, <2>2 DEF ApplyResult
<1>7. NoCall.pc = "none"
  BY DEF NoCall
<1>8. ASSUME NEW j \in Jobs, Consumer(j)
      PROVE  call'[c].status = "ready" <=> call'[c].img # NoKey
  <2>1. CASE GenerationFails(j)
    <3>1. SendResult(j, "failed", NoKey)
      BY <2>1 DEF GenerationFails
    <3> QED
      BY <1>5, <3>1, SendFields
  <2>2. CASE GenerationSucceeds(j)
    <3>1. SendResult(j, "ready", job[j].img) /\ job[j].img # NoKey
      BY <2>2 DEF GenerationSucceeds, ReadyNamed
    <3> QED
      BY <1>5, <3>1, SendFields
  <2>3. CASE OutcomeTimeout(j)
    <3>1. call'[c].pc = call[c].pc /\ call'[c].status = call[c].status /\ call'[c].img = call[c].img
      BY <1>1, <2>3 DEF OutcomeTimeout, CallRec
    <3> QED
      BY <1>3, <1>4, <3>1
  <2> QED
    BY <1>5, <1>8, <2>1, <2>2, <2>3
    DEF Consumer, CheckPending, SkipUnreadable, LoadOriginal, StoreGenerated,
        DiscardImage, DeleteTempOriginal
<1>9. ASSUME Environment
      PROVE  \/ call'[c] = call[c] \/ call'[c] = NoCall
             \/ /\ call[c].pc # "none" /\ call'[c].status = call[c].status
                /\ call'[c].img = call[c].img
  <2>1. CASE ConsumerCrash
    <3>1. call'[c].pc = call[c].pc /\ call'[c].status = call[c].status /\ call'[c].img = call[c].img
      BY <1>1, <2>1 DEF ConsumerCrash, CallRec
    <3> QED
      BY <1>3, <3>1
  <2>2. CASE WardrobeCrash
    BY <1>1, <2>2 DEF WardrobeCrash, CallRec
  <2> QED
    BY <1>9, <2>1, <2>2 DEF Environment, BecomeStale, Redeliver, Expiry
<1>10. ASSUME \/ Submit \/ Sweep \/ UNCHANGED vars
              \/ \E r \in Requests : Handler(r)
      PROVE  UNCHANGED call
  BY <1>10
  DEF Submit, Sweep, vars, wardrobeVars, Handler, FindMissing, RetryFind,
      UpdateFind, DeleteFind, CheckOriginal, DeleteImage, StorePhoto,
      DeleteOriginal, Save, Reply, DeleteRow
<1> QED
  BY <1>3, <1>4, <1>5, <1>6, <1>7, <1>8, <1>9, <1>10 DEF Next

-----------------------------------------------------------------------------
(* One client at a time: the invariant. *)

Ground == Typed /\ Agree /\ RowsCreated /\ Placement /\ Apart /\ RepliesCarried
Tidy == Single /\ Leavings /\ ResultsApart /\ ReadyNamed

LEMMA AlwaysGround == Spec => []Ground
<1>1. Spec => []Placement
  BY AlwaysAgree, PlacementInit, PlacementNext, PTL DEF Spec
<1> QED
  BY <1>1, AlwaysTyped, AlwaysCreated, AlwaysApart, AnswersMatched, PTL DEF Ground

LEMMA TidyInit == Init => Tidy
<1> SUFFICES ASSUME Init PROVE Tidy
  OBVIOUS
<1>1. /\ \A i \in Items : row[i] = NoRow
      /\ \A r \in Requests : req[r] = Unsent
      /\ \A c \in Calls : call[c] = NoCall
      /\ \A j \in Jobs : job[j] = IdleJob
  BY DEF Init, WardrobeInit
<1>2. NoCall.pc = "none" /\ NoCall.prev = NoKey /\ IdleJob.pc = "idle" /\ IdleJob.temp = NoKey
  BY DEF NoCall, IdleJob
<1>3. Leavings /\ ReadyNamed
  BY <1>1, <1>2, BlankFields DEF Leavings, PrevPlaced, OldPlaced, TempsPlaced, ReadyNamed
<1>4. ResultsApart
  BY <1>1, <1>2 DEF ResultsApart, Result, Sent, Generated, Discarded
<1> QED
  BY <1>3, <1>4, SingleInit DEF Tidy

LEMMA TidyNext ==
  ASSUME OneAtATime, Ground, Tidy, [Next]_vars
  PROVE  Tidy'
<1>1. RowsConsistent
  BY DEF Ground, Agree
<1>2. Single' /\ ReadyNamed'
  BY <1>1, SingleNext, ReadyNamedNext DEF Ground, Tidy
<1>3. ResultsApart'
  BY <1>1, ResultsApartNext DEF Ground, Tidy
<1>4. Leavings'
  BY PrevPlacedNext, OldPlacedNext, TempsPlacedNext DEF Ground, Tidy, Leavings
<1> QED
  BY <1>2, <1>3, <1>4 DEF Tidy

(* What every state satisfies for such clients.                              *)
LEMMA AlwaysTidy == ASSUME OneAtATime PROVE Spec => [](Ground /\ Tidy)
<1>1. Ground /\ Tidy /\ [Next]_vars => Tidy'
  BY TidyNext
<1> QED
  BY <1>1, TidyInit, AlwaysGround, PTL DEF Spec

-----------------------------------------------------------------------------
(* The refinement: each step is one of the lifecycle's, or none.             *)

(* One item changes. *)
LEMMA OneItem ==
  ASSUME NEW i \in Items,
         \A l \in Items : l # i => row'[l] = row[l] /\ (l \in created' <=> l \in created),
         NEW s, s = StateOf(i)', NEW m, m = row'[i].img
  PROVE  ItemStates' = [ItemStates EXCEPT ![i] = s] /\ ItemImages' = [ItemImages EXCEPT ![i] = m]
<1>1. \A l \in Items : l # i => StateOf(l)' = StateOf(l) /\ row'[l].img = row[l].img
  BY DEF StateOf
<1> QED
  BY <1>1 DEF ItemStates, ItemImages

LEMMA ItemKept ==
  ASSUME NEW i \in Items,
         \A l \in Items : l # i => row'[l] = row[l] /\ (l \in created' <=> l \in created),
         StateOf(i)' = StateOf(i), row'[i].img = row[i].img
  PROVE  UNCHANGED <<ItemStates, ItemImages>>
<1>1. \A l \in Items : StateOf(l)' = StateOf(l) /\ row'[l].img = row[l].img
  BY DEF StateOf
<1> QED
  BY <1>1 DEF ItemStates, ItemImages

(* A request that is over. *)
Blank(phase) ==
  [phase |-> phase, op |-> "none", photo |-> "none", item |-> NoItem, read |-> "none"]

LEMMA BlankAsks ==
  /\ Lifecycle!Unsent = Blank("unsent") /\ Lifecycle!Over = Blank("over")
  BY DEF Lifecycle!Unsent, Lifecycle!Over, Blank

(* One request changes. *)
LEMMA OneAsk ==
  ASSUME NEW r \in Requests, \A s \in Requests : s # r => req'[s] = req[s],
         NEW a, a = AskedOf(r)'
  PROVE  Asks' = [Asks EXCEPT ![r] = a]
<1>1. \A s \in Requests : s # r => AskedOf(s)' = AskedOf(s)
  BY DEF AskedOf, Writing, InProgress
<1> QED
  BY <1>1 DEF Asks

LEMMA AsksKept ==
  ASSUME \A s \in Requests : req'[s] = req[s]
  PROVE  UNCHANGED Asks
<1>1. \A s \in Requests : AskedOf(s)' = AskedOf(s)
  BY DEF AskedOf, Writing, InProgress
<1> QED
  BY <1>1 DEF Asks

(* Before its save a handler works on an open request. *)
LEMMA OpenAsk ==
  ASSUME NEW r \in Requests, Writing(r)
  PROVE  /\ Lifecycle!Asked(r, req[r].op, req[r].item)
         /\ Asks[r].photo = req[r].photo
         /\ Asks[r].read = IF req[r].op = "update" /\ req[r].photo = "none"
                              /\ req[r].pc # "find"
                           THEN req[r].entity.status ELSE "none"
  BY DEF Asks, AskedOf, Lifecycle!Asked

(* Its save, or an answer without one, settles it. *)
LEMMA SettledAsk ==
  ASSUME NEW r \in Requests, \A s \in Requests : s # r => req'[s] = req[s],
         req'[r].pc \in {"reply", "unacked", "done"}
  PROVE  Lifecycle!Settled(r)
<1>1. AskedOf(r)' = Blank("over")
  BY DEF AskedOf, Writing, InProgress, Blank
<1>2. PICK a : a = AskedOf(r)'
  OBVIOUS
<1> QED
  BY <1>1, <1>2, OneAsk, BlankAsks DEF Lifecycle!Settled

LEMMA LifecycleSave ==
  ASSUME Ground, Tidy, NEW r \in Requests, Save(r)
  PROVE  Lifecycle!Next
<1>1. PICK i \in Items :
        /\ req[r].op = "create" => i \notin created
        /\ req[r].op # "create" => i = req[r].item
        /\ row'[i] = req[r].entity /\ \A l \in Items : l # i => row'[l] = row[l]
        /\ created' = created \cup {i} /\ req[r].pc = "save" /\ req'[r].pc = "reply"
  BY SaveFields DEF Ground
<1>2. PICK w : w = row[i]
  OBVIOUS
<1>3. PICK e : e = req[r].entity
  OBVIOUS
<1>4. w \in Row /\ Consistent(w) /\ (w.status # "absent" => i \in created)
  BY <1>2 DEF Ground, Typed, RowsTyped, Agree, RowsConsistent, RowsCreated
<1>5. /\ e \in Row /\ Consistent(e) /\ GoesThrough(req[r]) /\ Fits(r) /\ Writing(r)
      /\ req[r].op \in {"create", "update", "retry", "delete"}
      /\ req[r].photo \in {"none", "plain", "generate"} /\ GoodReq(req[r])
  BY <1>1, <1>3 DEF Ground, Typed, ReqsTyped, Req, Agree, AgreeReq, Tidy, Single, OnTheWay,
                    AllFit, Writing, InProgress
<1>6. \A l \in Items : l # i => row'[l] = row[l] /\ (l \in created' <=> l \in created)
  BY <1>1
<1>7. ItemStates[i] = StateOf(i) /\ ItemImages[i] = w.img
  BY <1>2 DEF ItemStates, ItemImages
<1>8. /\ StateOf(i)' = IF e.status = "absent" THEN "removed" ELSE e.status
      /\ row'[i].img = e.img
  BY <1>1, <1>3 DEF StateOf
<1>9. PICK s, m : s = StateOf(i)' /\ m = row'[i].img
  OBVIOUS
<1>10. ItemStates' = [ItemStates EXCEPT ![i] = s] /\ ItemImages' = [ItemImages EXCEPT ![i] = m]
  BY <1>6, <1>9, OneItem
<1>11. m = ItemImages[i] => UNCHANGED ItemImages
  BY <1>10 DEF ItemImages
<1>12. Handler(r)
  BY DEF Handler
<1>13. Lifecycle!Settled(r)
  BY <1>1, <1>12, OneMoves, SettledAsk DEF Ground
<1>14. /\ Lifecycle!Asked(r, req[r].op, req[r].item) /\ Asks[r].photo = req[r].photo
       /\ req[r].op = "update" /\ req[r].photo = "none" => Asks[r].read = e.status
  BY <1>1, <1>3, <1>5, OpenAsk
<1>15. CASE req[r].op = "create"
  <2>1. CreateFits(req[r]) /\ ItemStates[i] = "absent" /\ w.img = NoKey
    BY <1>1, <1>2, <1>4, <1>5, <1>7, <1>15 DEF Fits, StateOf, Consistent
  <2>2. /\ s = e.status /\ m = e.img
        /\ req[r].photo = "generate" => s = "pending" /\ m = ItemImages[i]
        /\ req[r].photo = "plain" => s = "ready" /\ m \in Keys
        /\ req[r].photo = "none" => s = "ready" /\ m = NoKey
    BY <1>1, <1>3, <1>7, <1>8, <1>9, <2>1 DEF CreateFits, NewEntity, NoRow
  <2>3. Lifecycle!Asked(r, "create", NoItem)
    BY <1>14, <1>15, <2>1 DEF CreateFits
  <2>4. Lifecycle!Add(r, i)
    BY <1>5, <1>10, <1>11, <1>13, <1>14, <2>1, <2>2, <2>3 DEF Lifecycle!Add
  <2> QED
    BY <2>4 DEF Lifecycle!Next
<1>16. CASE req[r].op # "create"
  <2>1. /\ w.status # "absent" /\ Lifecycle!Asked(r, req[r].op, i)
        /\ req[r].op = "retry" => RetryFits(req[r], w)
        /\ req[r].op = "update" => UpdateFits(req[r], w)
    BY <1>1, <1>2, <1>5, <1>14, <1>16 DEF Fits
  <2>2. /\ StateOf(i) = w.status /\ ItemStates[i] = w.status
        /\ w.status \in {"pending", "ready", "failed"} /\ Lifecycle!Live(i)
    BY <1>2, <1>4, <1>7, <2>1 DEF StateOf, Row, Lifecycle!Live
  <2>3. CASE req[r].op = "retry"
    <3>1. w.status = "failed" /\ e.status = "pending" /\ e.img = w.img
      BY <1>1, <1>3, <2>1, <2>3 DEF RetryFits
    <3>2. s = "pending" /\ m = ItemImages[i]
      BY <1>7, <1>8, <1>9, <3>1
    <3>3. Lifecycle!GenerateAgain(r, i)
      BY <1>10, <1>11, <1>13, <2>1, <2>2, <2>3, <3>1, <3>2 DEF Lifecycle!GenerateAgain
    <3> QED
      BY <3>3 DEF Lifecycle!Next
  <2>4. CASE req[r].op = "update" /\ req[r].photo = "none"
    <3>1. e.img = w.img /\ (e.status = w.status \/ (e.status = "pending" /\ w.status = "failed"))
      BY <1>3, <2>1, <2>4 DEF UpdateFits, AsRead
    <3>2. m = ItemImages[i]
      BY <1>7, <1>8, <1>9, <3>1
    <3>3. CASE e.status = w.status
      <4>1. StateOf(i)' = StateOf(i) /\ row'[i].img = row[i].img
        BY <1>2, <1>8, <2>1, <2>2, <3>1, <3>3
      <4>2. UNCHANGED <<ItemStates, ItemImages>>
        BY <1>6, <4>1, ItemKept
      <4>3. Lifecycle!NoEffect(r)
        BY <1>13, <1>14, <4>2 DEF Lifecycle!NoEffect, Lifecycle!Asked
      <4> QED
        BY <4>3 DEF Lifecycle!Next
    <3>4. CASE e.status = "pending" /\ w.status = "failed"
      <4>1. s = "pending"
        BY <1>8, <1>9, <3>4
      <4>2. Lifecycle!Edit(r, i)
        BY <1>10, <1>11, <1>13, <1>14, <2>1, <2>2, <2>4, <3>2, <3>4, <4>1 DEF Lifecycle!Edit
      <4> QED
        BY <4>2 DEF Lifecycle!Next
    <3> QED
      BY <3>1, <3>3, <3>4
  <2>5. CASE req[r].op = "update" /\ req[r].photo = "generate"
    <3>1. e.img = w.img /\ e.status = "pending"
      BY <1>1, <1>3, <2>1, <2>5 DEF UpdateFits
    <3>2. m = ItemImages[i] /\ s = "pending"
      BY <1>7, <1>8, <1>9, <3>1
    <3>3. Lifecycle!Replace(r, i)
      BY <1>10, <1>11, <1>13, <1>14, <2>1, <2>2, <2>5, <3>2 DEF Lifecycle!Replace
    <3> QED
      BY <3>3 DEF Lifecycle!Next
  <2>6. CASE req[r].op = "update" /\ req[r].photo = "plain"
    <3>1. e.img \in Keys \ {w.img} /\ e.status = "ready"
      BY <1>1, <1>3, <2>1, <2>6 DEF UpdateFits
    <3>2. m \in Keys \ {ItemImages[i]} /\ s = "ready"
      BY <1>7, <1>8, <1>9, <3>1
    <3>3. Lifecycle!Replace(r, i)
      BY <1>10, <1>13, <1>14, <2>1, <2>2, <2>6, <3>2 DEF Lifecycle!Replace
    <3> QED
      BY <3>3 DEF Lifecycle!Next
  <2>7. req[r].op # "delete"
    BY <1>1, <1>5 DEF GoesThrough
  <2> QED
    BY <1>5, <1>16, <2>3, <2>4, <2>5, <2>6, <2>7
<1> QED
  BY <1>15, <1>16

LEMMA LifecycleDelete ==
  ASSUME Ground, Tidy, NEW r \in Requests, DeleteRow(r)
  PROVE  Lifecycle!Next
<1>1. PICK i \in Items : i = req[r].item
  BY DeleteRowFields DEF Ground
<1>2. /\ row'[i] = NoRow /\ \A l \in Items : l # i => row'[l] = row[l]
      /\ req[r].pc = "delRow" /\ req'[r].pc = "done" /\ UNCHANGED created
  BY <1>1, DeleteRowFields DEF Ground
<1>3. /\ Fits(r) /\ Writing(r) /\ GoesThrough(req[r])
      /\ req[r].op \in {"create", "update", "retry", "delete"}
  BY <1>2 DEF Tidy, Single, OnTheWay, AllFit, Writing, InProgress, Ground, Typed, ReqsTyped, Req
<1>4. req[r].op = "delete"
  BY <1>2, <1>3 DEF GoesThrough
<1>5. i \in created /\ row[i].status # "absent" /\ row[i] \in Row
  BY <1>1, <1>2, <1>3, <1>4 DEF Fits, Ground, Typed, RowsTyped
<1>6. ItemStates[i] \in {"pending", "ready", "failed"}
  BY <1>5 DEF ItemStates, StateOf, Row
<1>7. StateOf(i)' = "removed" /\ row'[i].img = NoKey
  BY <1>2, <1>5 DEF StateOf, NoRow
<1>8. PICK s, m : s = StateOf(i)' /\ m = row'[i].img
  OBVIOUS
<1>9. ItemStates' = [ItemStates EXCEPT ![i] = s] /\ ItemImages' = [ItemImages EXCEPT ![i] = m]
  BY <1>2, <1>8, OneItem
<1>10. Handler(r)
  BY DEF Handler
<1>11. Lifecycle!Settled(r)
  BY <1>2, <1>10, OneMoves, SettledAsk DEF Ground
<1>12. Lifecycle!Asked(r, "delete", i)
  BY <1>1, <1>3, <1>4, OpenAsk
<1>13. Lifecycle!Remove(r, i)
  BY <1>6, <1>7, <1>8, <1>9, <1>11, <1>12 DEF Lifecycle!Remove, Lifecycle!Live
<1> QED
  BY <1>13 DEF Lifecycle!Next

LEMMA HandlerAt ==
  ASSUME NEW r \in Requests, Handler(r)
  PROVE  /\ req[r].pc = "delImg" => DeleteImage(r)
         /\ req[r].pc \in {"storeImg", "storeTmp"} => StorePhoto(r)
         /\ req[r].pc = "delTemp" => DeleteOriginal(r)
         /\ req[r].pc = "save" => Save(r)
         /\ req[r].pc = "delRow" => DeleteRow(r)
  BY DEF Handler, FindMissing, RetryFind, UpdateFind, DeleteFind, CheckOriginal, DeleteImage,
         StorePhoto, DeleteOriginal, Save, Reply, DeleteRow

(* A handler's other steps leave the question as it was put. *)
LEMMA HandlerSame ==
  ASSUME Typed, NEW r \in Requests, Handler(r), ~ Acked(r), ~ Unacked(r), ~ Save(r)
  PROVE  /\ Same(req[r], req'[r])
         /\ req'[r].pc \notin {"unsent", "find", "reply", "unacked", "done"}
<1>1. ASSUME NEW pc, Load(r, pc) \/ Goto(r, pc),
             pc \notin {"unsent", "find", "reply", "unacked", "done"}
      PROVE  /\ Same(req[r], req'[r])
             /\ req'[r].pc \notin {"unsent", "find", "reply", "unacked", "done"}
  BY <1>1, LoadFields, GotoFields
<1>2. CASE RetryFind(r)
  <2>1. Load(r, "exists")
    BY <1>2 DEF RetryFind
  <2> QED
    BY <1>1, <2>1
<1>3. CASE UpdateFind(r)
  <2>1. PICK pc : pc = IF req[r].photo = "plain" /\ row[req[r].item].img # NoKey
                       THEN "delImg" ELSE PhotoStep(req[r].photo)
    OBVIOUS
  <2>2. Load(r, pc)
    BY <1>3, <2>1 DEF UpdateFind
  <2>3. pc \in {"delImg", "save", "storeTmp", "storeImg"}
    BY <2>1 DEF PhotoStep
  <2> QED
    BY <1>1, <2>2, <2>3
<1>4. CASE DeleteFind(r)
  <2>1. PICK pc : pc = IF row[req[r].item].img # NoKey THEN "delImg"
                       ELSE DropOriginal(row[req[r].item].temp)
    OBVIOUS
  <2>2. Load(r, pc)
    BY <1>4, <2>1 DEF DeleteFind
  <2>3. pc \in {"delImg", "delTemp", "delRow"}
    BY <2>1 DEF DropOriginal
  <2> QED
    BY <1>1, <2>2, <2>3
<1>5. CASE CheckOriginal(r)
  BY <1>5, CheckFields
<1>6. CASE DeleteImage(r)
  <2>1. PICK pc : pc = IF req[r].op = "update" THEN "storeImg" ELSE DropOriginal(req[r].old)
    OBVIOUS
  <2>2. Goto(r, pc)
    BY <1>6, <2>1 DEF DeleteImage
  <2>3. pc \in {"storeImg", "delTemp", "delRow"}
    BY <2>1 DEF DropOriginal
  <2> QED
    BY <1>1, <2>2, <2>3
<1>7. CASE StorePhoto(r)
  BY <1>7, StoreFields
<1>8. CASE DeleteOriginal(r)
  <2>1. PICK pc : pc = IF req[r].op = "update" THEN "save" ELSE "delRow"
    OBVIOUS
  <2>2. Goto(r, pc)
    BY <1>8, <2>1 DEF DeleteOriginal
  <2> QED
    BY <1>1, <2>1, <2>2
<1> QED
  BY <1>2, <1>3, <1>4, <1>5, <1>6, <1>7, <1>8 DEF Handler, FindMissing, Reply, DeleteRow

(* The steps of a handler other than its save: the reading of an edit, an    *)
(* answer without a save, or nothing its client sees.                        *)
LEMMA LifecycleHandler ==
  ASSUME Ground, Tidy, NEW r \in Requests, Handler(r), ~ Save(r), ~ DeleteRow(r)
  PROVE  Lifecycle!Next \/ UNCHANGED <<ItemStates, ItemImages, Asks>>
<1>1. UNCHANGED <<ItemStates, ItemImages>>
  BY RowsOfHandler DEF ItemStates, ItemImages, StateOf
<1>2. /\ \A s \in Requests : s # r => req'[s] = req[s]
      /\ Typed /\ OnTheWay /\ GoesThrough(req[r]) /\ GoodReq(req[r])
      /\ req[r].pc \notin {"unsent", "unacked", "done"}
  BY OneMoves DEF Ground, Tidy, Single, OnTheWay, Typed, ReqsTyped
<1>3. CASE Acked(r) \/ Unacked(r)
  <2>1. req'[r].pc \in {"done", "unacked"}
    BY <1>2, <1>3, AckedFields, BlankFields, GotoFields DEF Unacked
  <2>2. Lifecycle!Settled(r)
    BY <1>2, <2>1, SettledAsk
  <2>3. CASE Writing(r)
    <3>1. Lifecycle!NoEffect(r)
      BY <1>1, <2>2, <2>3, OpenAsk DEF Lifecycle!NoEffect, Lifecycle!Asked
    <3> QED
      BY <3>1 DEF Lifecycle!Next
  <2>4. CASE ~ Writing(r)
    <3>1. Asks[r] = Blank("over")
      BY <1>2, <2>4 DEF Asks, AskedOf, Blank
    <3>2. UNCHANGED Asks
      <4>1. Asks' = [Asks EXCEPT ![r] = Asks[r]]
        BY <2>2, <3>1, BlankAsks DEF Lifecycle!Settled
      <4>2. Asks = [s \in Requests |-> Asks[s]]
        BY DEF Asks
      <4> QED
        BY <4>1, <4>2
    <3> QED
      BY <1>1, <3>2
  <2> QED
    BY <2>3, <2>4
<1>4. CASE ~ Acked(r) /\ ~ Unacked(r)
  <2>1. /\ Same(req[r], req'[r])
        /\ req'[r].pc \notin {"unsent", "find", "reply", "unacked", "done"}
    BY <1>2, <1>4, HandlerSame
  <2>2. req[r].pc # "save" /\ req[r].pc # "reply"
    <3>1. req[r].pc # "save"
      BY HandlerAt
    <3>2. ~ Reply(r)
      BY <1>4 DEF Reply
    <3> QED
      BY <3>1, <3>2 DEF Handler, FindMissing, RetryFind, UpdateFind, DeleteFind,
           CheckOriginal, DeleteImage, StorePhoto, DeleteOriginal, DeleteRow
  <2>3. Writing(r)
    BY <1>2, <2>2 DEF Writing, InProgress
  <2>4. Writing(r)'
    BY <2>1 DEF Writing, InProgress
  <2>5. CASE UpdateFind(r) /\ req[r].photo = "none"
    <3>1. Load(r, "save") /\ req[r].pc = "find" /\ req[r].op = "update"
      BY <2>5 DEF UpdateFind, PhotoStep
    <3>2. PICK i \in Items : i = req[r].item
      BY <1>2, <3>1 DEF GoodReq
    <3>3. req'[r].entity = row[i] /\ row[i].status # "absent" /\ req'[r].pc = "save"
      BY <1>2, <2>5, <3>1, <3>2, LoadFields DEF UpdateFind
    <3>4. row[i] \in Row
      BY DEF Ground, Typed, RowsTyped
    <3>5. /\ ItemStates[i] = row[i].status
          /\ ItemStates[i] \in {"pending", "ready", "failed"}
      BY <3>3, <3>4 DEF ItemStates, StateOf, Row
    <3>6. PICK a : a = AskedOf(r)'
      OBVIOUS
    <3>7. a = [Asks[r] EXCEPT !.read = ItemStates[i]]
      BY <2>1, <2>3, <2>4, <2>5, <3>1, <3>3, <3>5, <3>6
      DEF Asks, AskedOf, Writing, InProgress, Same
    <3>8. Asks' = [Asks EXCEPT ![r] = a]
      BY <1>2, <3>6, OneAsk
    <3>9. Asks' = [Asks EXCEPT ![r].read = ItemStates[i]]
      BY <3>7, <3>8
    <3>10. Lifecycle!Read(r, i)
      BY <1>1, <2>3, <2>5, <3>1, <3>2, <3>5, <3>9, OpenAsk DEF Lifecycle!Read, Lifecycle!Live
    <3> QED
      BY <3>10 DEF Lifecycle!Next
  <2>6. CASE ~ (UpdateFind(r) /\ req[r].photo = "none")
    <3>1. ~ (req[r].op = "update" /\ req[r].photo = "none")
      <4>1. SUFFICES ASSUME req[r].op = "update", req[r].photo = "none" PROVE FALSE
        OBVIOUS
      <4>2. req[r].pc = "find"
        BY <1>2, <2>2, <4>1 DEF GoesThrough
      <4>3. UpdateFind(r)
        BY <1>4, <4>1, <4>2 DEF Handler, FindMissing, RetryFind, DeleteFind, CheckOriginal,
             DeleteImage, StorePhoto, DeleteOriginal, Reply, Save, DeleteRow
      <4> QED
        BY <2>6, <4>1, <4>3
    <3>2. PICK a : a = AskedOf(r)'
      OBVIOUS
    <3>3. a = Asks[r]
      BY <2>1, <2>3, <2>4, <3>1, <3>2 DEF Asks, AskedOf, Writing, InProgress, Same
    <3>4. UNCHANGED Asks
      BY <1>2, <3>2, <3>3, OneAsk DEF Asks
    <3> QED
      BY <1>1, <3>4
  <2> QED
    BY <2>5, <2>6
<1> QED
  BY <1>3, <1>4

LEMMA LifecycleSubmit ==
  ASSUME Ground, Submit
  PROVE  Lifecycle!Next
<1>1. UNCHANGED <<ItemStates, ItemImages>>
  BY DEF Submit, ItemStates, ItemImages, StateOf
<1>2. Typed /\ created \subseteq Items /\ NoItem \notin Items
  BY PipelineAssumption DEF Ground, Typed, RowsTyped
<1>3. PICK r \in Requests, op \in {"create", "update", "retry", "delete"},
           photo \in {"none", "plain", "generate"}, i \in created \cup {NoItem} :
        /\ req[r].pc = "unsent" /\ req'[r] = Message(op, photo, i)
        /\ \A s \in Requests : s # r => req'[s] = req[s]
        /\ op = "create" <=> i = NoItem
        /\ op \in {"retry", "delete"} => photo = "none"
  BY <1>2, SubmitFields
<1>4. /\ req'[r].pc = IF op = "create" THEN PhotoStep(photo) ELSE "find"
      /\ req'[r].op = op /\ req'[r].photo = photo /\ req'[r].item = i
  BY <1>3, MessageFields
<1>5. req'[r].pc \notin {"unsent", "unacked", "done", "reply"}
  BY <1>4 DEF PhotoStep
<1>6. PICK a : a = AskedOf(r)'
  OBVIOUS
<1>7. a = [phase |-> "open", op |-> op, photo |-> photo, item |-> i, read |-> "none"]
  BY <1>3, <1>4, <1>5, <1>6 DEF AskedOf, Writing, InProgress
<1>8. Asks' = [Asks EXCEPT ![r] = a]
  BY <1>3, <1>6, OneAsk
<1>9. Asks[r] = Lifecycle!Unsent
  BY <1>3, BlankAsks DEF Asks, AskedOf, Writing, InProgress, Blank
<1>10. i # NoItem => i \in Items /\ ItemStates[i] # "absent"
  BY <1>2 DEF ItemStates, StateOf
<1>11. Lifecycle!Ask(r)
  BY <1>1, <1>2, <1>3, <1>7, <1>8, <1>9, <1>10 DEF Lifecycle!Ask
<1> QED
  BY <1>11 DEF Lifecycle!Next

LEMMA LifecycleResult ==
  ASSUME Ground, Tidy, NEW c \in Calls, ApplyUpdate(c)
  PROVE  Lifecycle!Next \/ UNCHANGED <<ItemStates, ItemImages, Asks>>
<1>1. UNCHANGED created /\ UNCHANGED Asks
  BY AsksKept DEF ApplyUpdate
<1>2. PICK i \in Items :
        /\ i = call[c].item /\ call[c].pc = "sent"
        /\ \/ /\ row[i].status = "pending"
              /\ row'[i] = WithResult(row[i], call[c].status, call[c].img)
              /\ \A l \in Items : l # i => row'[l] = row[l]
           \/ UNCHANGED row
  BY UpdateFields DEF Ground
<1>3. CASE UNCHANGED row
  BY <1>1, <1>3 DEF ItemStates, ItemImages, StateOf
<1>4. CASE row[i].status = "pending" /\ ~ UNCHANGED row
  <2>1. PICK w : w = row[i]
    OBVIOUS
  <2>2. PICK v : v = row'[i]
    OBVIOUS
  <2>3. PICK x, k : x = call[c].status /\ k = call[c].img
    OBVIOUS
  <2>4. /\ v.status = x
        /\ v.img = IF x = "ready" /\ k # NoKey THEN k ELSE w.img
    BY <1>2, <1>4, <2>1, <2>2, <2>3 DEF WithResult
  <2>5. x \in {"ready", "failed"} /\ k \in Keys \cup {NoKey} /\ (x = "ready" <=> k # NoKey)
    BY <1>2, <2>3 DEF Ground, Typed, CallsTyped, CallRec, Tidy, ReadyNamed
  <2>6. ItemStates[i] = "pending" /\ ItemImages[i] = w.img
    BY <1>4, <2>1 DEF ItemStates, StateOf, ItemImages
  <2>7. StateOf(i)' = x /\ row'[i].img = v.img
    BY <2>2, <2>4, <2>5 DEF StateOf
  <2>8. PICK s, m : s = StateOf(i)' /\ m = row'[i].img
    OBVIOUS
  <2>9. ItemStates' = [ItemStates EXCEPT ![i] = s] /\ ItemImages' = [ItemImages EXCEPT ![i] = m]
    BY <1>1, <1>2, <1>4, <2>8, OneItem
  <2>10. CASE x = "ready"
    <3>1. k \in Keys /\ w.img # k
      BY <1>2, <2>1, <2>3, <2>5, <2>10 DEF Tidy, ResultsApart, Result, Sent
    <3>2. s = "ready" /\ m \in Keys \ {ItemImages[i]}
      BY <2>4, <2>6, <2>7, <2>8, <2>10, <3>1, <2>5
    <3>3. Lifecycle!Succeed(i)
      BY <1>1, <2>6, <2>9, <3>2 DEF Lifecycle!Succeed
    <3> QED
      BY <3>3 DEF Lifecycle!Next
  <2>11. CASE x = "failed"
    <3>1. s = "failed" /\ m = ItemImages[i]
      BY <2>4, <2>6, <2>7, <2>8, <2>11
    <3>2. UNCHANGED ItemImages
      BY <2>9, <3>1 DEF ItemImages
    <3>3. ItemStates' = [l \in Items |-> IF l \in {i} THEN "failed" ELSE ItemStates[l]]
      BY <2>9, <3>1 DEF ItemStates
    <3>4. {i} \in SUBSET {l \in Items : ItemStates[l] = "pending"}
      BY <2>6
    <3>5. Lifecycle!Fail
      BY <1>1, <3>2, <3>3, <3>4 DEF Lifecycle!Fail
    <3> QED
      BY <3>5 DEF Lifecycle!Next
  <2> QED
    BY <2>5, <2>10, <2>11
<1> QED
  BY <1>2, <1>3, <1>4

LEMMA LifecycleClock ==
  ASSUME Ground, Sweep \/ \E i \in Items : BecomeStale(i)
  PROVE  Lifecycle!Next \/ UNCHANGED <<ItemStates, ItemImages, Asks>>
<1>1. row \in [Items -> Row] /\ \A l \in Items : row[l] \in Row
  BY DEF Ground, Typed, RowsTyped
<1>2. UNCHANGED Asks
  BY AsksKept DEF Sweep, BecomeStale
<1>3. CASE Sweep
  <2>1. PICK S : S = {l \in Items : row[l].status = "pending" /\ row[l].since = "stale"}
    OBVIOUS
  <2>2. UNCHANGED created /\ \A l \in Items :
          row'[l] = IF l \in S THEN GivenUp(row[l]) ELSE row[l]
    BY <1>3, <2>1 DEF Sweep
  <2>3. \A l \in Items : GivenUp(row[l]).status = "failed" /\ GivenUp(row[l]).img = row[l].img
    BY <1>1 DEF GivenUp, Row
  <2>4. \A l \in Items : /\ StateOf(l)' = IF l \in S THEN "failed" ELSE StateOf(l)
                         /\ row'[l].img = row[l].img
    BY <2>2, <2>3 DEF StateOf
  <2>5. ItemStates' = [l \in Items |-> IF l \in S THEN "failed" ELSE ItemStates[l]]
    BY <2>4 DEF ItemStates
  <2>6. UNCHANGED ItemImages
    BY <2>4 DEF ItemImages
  <2>7. S \in SUBSET {l \in Items : ItemStates[l] = "pending"}
    BY <2>1 DEF ItemStates, StateOf
  <2>8. Lifecycle!Fail
    BY <1>2, <2>5, <2>6, <2>7 DEF Lifecycle!Fail
  <2> QED
    BY <2>8 DEF Lifecycle!Next
<1>4. ASSUME NEW i \in Items, BecomeStale(i) PROVE UNCHANGED <<ItemStates, ItemImages>>
  <2>1. UNCHANGED created /\ \A l \in Items : l # i => row'[l] = row[l]
    BY <1>1, <1>4 DEF BecomeStale
  <2>2. row'[i].status = row[i].status /\ row'[i].img = row[i].img
    BY <1>1, <1>4 DEF BecomeStale, Row
  <2> QED
    BY <2>1, <2>2, ItemKept DEF StateOf
<1> QED
  BY <1>2, <1>3, <1>4

LEMMA LifecycleStep ==
  ASSUME OneAtATime, Ground, Tidy, [Next]_vars
  PROVE  [Lifecycle!Next]_(Lifecycle!lifecycleVars)
<1>1. SUFFICES Lifecycle!Next \/ UNCHANGED <<ItemStates, ItemImages, Asks>>
  BY DEF Lifecycle!lifecycleVars
<1>2. CASE Submit \/ \E r \in Requests : Handler(r)
  BY <1>2, LifecycleSubmit, LifecycleSave, LifecycleDelete, LifecycleHandler
<1>3. CASE UNCHANGED <<req, row, created>>
  <2>1. UNCHANGED Asks
    BY <1>3, AsksKept
  <2> QED
    BY <1>3, <2>1 DEF ItemStates, ItemImages, StateOf
<1> QED
  BY <1>2, <1>3, ReqWriters, RowWriters, LifecycleSave, LifecycleDelete, LifecycleResult,
     LifecycleClock

(* For any number of items, jobs and requests that come one at a time, the   *)
(* pipeline keeps what a client is promised: an item shows its old image     *)
(* until the new one is in place, a ready item changes only on request, a    *)
(* pending one gets an image it did not show before or fails, and a removed  *)
(* item never comes back - whatever the order of awaits, redeliveries,       *)
(* time-outs and sweeps.                                                     *)
THEOREM LifecycleKept == ASSUME OneAtATime PROVE Spec => LifecycleSpec
<1>1. ASSUME Init PROVE Lifecycle!Init
  <2>1. ItemStates = [i \in Items |-> "absent"] /\ ItemImages = [i \in Items |-> NoKey]
    BY <1>1 DEF Init, WardrobeInit, ItemStates, ItemImages, StateOf, NoRow
  <2>2. \A r \in Requests : req[r].pc = "unsent"
    BY <1>1, BlankFields DEF Init, WardrobeInit
  <2>3. Asks = [r \in Requests |-> Lifecycle!Unsent]
    BY <2>2, BlankAsks DEF Asks, AskedOf, Writing, InProgress, Blank
  <2> QED
    BY <2>1, <2>3 DEF Lifecycle!Init
<1>2. Ground /\ Tidy /\ [Next]_vars => [Lifecycle!Next]_(Lifecycle!lifecycleVars)
  BY LifecycleStep
<1> QED
  BY <1>1, <1>2, AlwaysTidy, PTL DEF Spec, LifecycleSpec, Lifecycle!Spec

-----------------------------------------------------------------------------
(* The images that items show are stored. *)

LEMMA UploadedFrom ==
  ASSUME OneAtATime, Ground, Tidy, [Next]_vars, NEW r \in Requests,
         NEW photo \in {"plain", "generate"}, HasUploaded(req'[r], photo)
  PROVE  \/ /\ HasUploaded(req[r], photo) /\ Saver(r)
            /\ req'[r].entity.img = req[r].entity.img
            /\ req'[r].entity.temp = req[r].entity.temp
         \/ req'[r].entity = NewEntity
         \/ /\ photo = "plain"
            /\ req'[r].entity.img \in stored' \cup {NoKey}
         \/ /\ photo = "generate"
            /\ req'[r].entity.temp \in stored' \cup {NoKey}
<1>1. /\ req'[r].pc \notin {"unsent", "unacked", "done", "reply"}
      /\ req'[r].op = "create" \/ (req'[r].photo = photo /\ req'[r].pc \in {"delTemp", "save"})
  BY DEF HasUploaded
<1>2. /\ GoodReq(req[r]) /\ req[r].entity \in Row /\ GoesThrough(req[r])
      /\ req[r].op = "create" /\ Writing(r) => CreateFits(req[r])
  BY DEF Ground, Typed, ReqsTyped, GoodReq, Req, Tidy, Single, OnTheWay, AllFit, Fits
<1>3. Typed
  BY DEF Ground
<1>4. ASSUME HasUploaded(req[r], photo) PROVE Saver(r)
  BY <1>2, <1>4 DEF HasUploaded, Saver, Holds, Writing, InProgress, GoodReq, GoesThrough
<1>5. CASE req'[r] = req[r]
  BY <1>1, <1>4, <1>5 DEF HasUploaded
<1>6. CASE Submit
  <2>1. PICK s \in Requests, op \in {"create", "update", "retry", "delete"},
            p \in {"none", "plain", "generate"}, i \in created \cup {NoItem} :
           /\ req'[s] = Message(op, p, i)
           /\ \A x \in Requests : x # s => req'[x] = req[x]
    BY <1>3, <1>6, SubmitFields
  <2> QED
    BY <1>5, <2>1, MessageFields
<1>7. CASE Handler(r)
  <2>1. ~ Acked(r)
    BY <1>2, <1>3, <1>7, AckedFields, BlankFields, <1>1
  <2>2. ~ Unacked(r) /\ ~ Save(r)
    BY <1>1, <1>3, GotoFields DEF Unacked, Save
  <2>3. CASE RetryFind(r) \/ UpdateFind(r) \/ DeleteFind(r)
    <3>1. req[r].pc = "find" /\ req[r].op # "create"
      BY <1>2, <2>3 DEF RetryFind, UpdateFind, DeleteFind, GoodReq
    <3>2. PICK pc : Load(r, pc) /\ (pc \in {"delTemp", "save"} => req[r].photo = "none")
      <4>1. CASE RetryFind(r)
        BY <2>1, <4>1 DEF RetryFind
      <4>2. CASE UpdateFind(r)
        BY <4>2, <1>2 DEF UpdateFind, PhotoStep, GoodReq, Req
      <4>3. CASE DeleteFind(r)
        BY <4>3, <1>2 DEF DeleteFind, GoesThrough
      <4> QED
        BY <2>3, <4>1, <4>2, <4>3
    <3>3. Same(req[r], req'[r]) /\ req'[r].pc = pc
      BY <1>3, <3>2, LoadFields
    <3> QED
      BY <1>1, <3>1, <3>2, <3>3 DEF Same
  <2>4. CASE CheckOriginal(r)
    <3>1. req[r].op = "retry" /\ req[r].photo = "none"
      BY <1>2, <2>4 DEF CheckOriginal, GoodReq, Req, GoesThrough
    <3>2. Same(req[r], req'[r])
      BY <1>3, <2>1, <2>4, CheckFields
    <3> QED
      BY <1>1, <3>1, <3>2 DEF Same
  <2>5. CASE DeleteImage(r) \/ DeleteOriginal(r)
    <3>1. PICK pc : /\ Goto(r, pc) /\ req[r].pc \in {"delImg", "delTemp"}
                    /\ req[r].pc = "delImg" /\ req[r].op = "update" => pc = "storeImg"
      BY <2>2, <2>5 DEF DeleteImage, DeleteOriginal
    <3>2. Same(req[r], req'[r]) /\ req'[r].pc = pc /\ req'[r].entity = req[r].entity
      BY <1>3, <3>1, GotoFields
    <3>3. HasUploaded(req[r], photo)
      BY <1>1, <1>2, <3>1, <3>2 DEF Same, HasUploaded, GoodReq, GoesThrough, Req
    <3> QED
      BY <1>4, <3>2, <3>3
  <2>6. CASE StorePhoto(r)
    <3>1. PICK e, f : e = req[r].entity /\ f = req'[r].entity
      OBVIOUS
    <3>2. PICK n \in Keys :
            /\ n \in stored' /\ n = NewKey /\ prefix[n] = "none"
            /\ Same(req[r], req'[r])
            /\ f = IF req[r].pc = "storeTmp" THEN AwaitingImage(e, n) ELSE ShowingPhoto(e, n)
      BY <1>3, <2>2, <2>6, <3>1, StoreFields
    <3>3. req[r].pc \in {"storeTmp", "storeImg"} /\ Writing(r)
      BY <2>6 DEF StorePhoto, Writing, InProgress
    <3>4. /\ req[r].pc = "storeTmp" => f.img = e.img /\ f.temp = n
          /\ req[r].pc = "storeImg" => f.img = n /\ f.temp = NoKey
      BY <1>2, <3>1, <3>2, <3>3 DEF AwaitingImage, ShowingPhoto, Row
    <3>5. req[r].op = "create" => e.img = NoKey
      BY <1>2, <3>1, <3>3 DEF CreateFits, NewEntity, NoRow
    <3>6. /\ req[r].pc = "storeTmp" => req[r].photo = "generate"
          /\ req[r].pc = "storeImg" => req[r].photo = "plain"
      BY <1>2 DEF GoesThrough
    <3> QED
      BY <1>1, <3>1, <3>2, <3>3, <3>4, <3>5, <3>6 DEF Same
  <2> QED
    BY <1>7, <2>1, <2>2, <2>3, <2>4, <2>5, <2>6 DEF Handler, FindMissing, Reply, DeleteRow
<1> QED
  BY <1>3, <1>5, <1>6, <1>7, ReqWriters, OneMoves

LEMMA RequestMoves ==
  ASSUME OneAtATime, Typed, [Next]_vars, NEW r \in Requests, req[r].pc # "unsent"
  PROVE  req'[r] = req[r] \/ Handler(r)
  BY SubmitFields, OneMoves, ReqWriters

(* Between its steps on the item's objects and its save, an update or a      *)
(* delete goes on excusing what is missing.                                  *)
LEMMA ImageExcuseKept ==
  ASSUME OneAtATime, Ground, Tidy, [Next]_vars, NEW i \in Items, ImageExcuse(i),
         \A r \in Requests : req[r].item = i =>
           ~ (Save(r) /\ req[r].op = "update" /\ req[r].photo = "plain") /\ ~ DeleteRow(r)
  PROVE  ImageExcuse(i)'
<1>1. PICK r \in Requests :
        /\ req[r].item = i
        /\ \/ req[r].op \in {"update", "delete"} /\ req[r].pc = "unacked"
           \/ req[r].op = "delete" /\ req[r].pc \in {"delTemp", "delRow"}
           \/ req[r].op = "update" /\ req[r].photo = "plain"
              /\ req[r].pc \in {"storeImg", "delTemp", "save"}
  BY DEF ImageExcuse
<1>2. Typed
  BY DEF Ground
<1>3. CASE req'[r] = req[r]
  BY <1>1, <1>3 DEF ImageExcuse
<1>4. CASE Handler(r)
  <2>1. req[r].pc # "unacked"
    BY <1>2, <1>4, OneMoves
  <2>2. CASE req[r].pc = "storeImg"
    <3>1. StorePhoto(r)
      BY <1>4, <2>2, HandlerAt
    <3>2. Same(req[r], req'[r]) /\ req'[r].pc \in {"delTemp", "save", "unacked"}
      BY <1>2, <3>1, StoreFields, GotoFields DEF Unacked
    <3> QED
      BY <1>1, <2>2, <3>2 DEF Same, ImageExcuse
  <2>3. CASE req[r].pc = "delTemp"
    <3>1. PICK pc : pc = IF req[r].op = "update" THEN "save" ELSE "delRow"
      OBVIOUS
    <3>2. Goto(r, pc)
      BY <1>4, <2>3, <3>1, HandlerAt DEF DeleteOriginal
    <3>3. Same(req[r], req'[r]) /\ req'[r].pc = pc
      BY <1>2, <3>2, GotoFields
    <3> QED
      BY <1>1, <2>3, <3>1, <3>3 DEF Same, ImageExcuse
  <2> QED
    BY <1>1, <1>4, <2>1, <2>2, <2>3, HandlerAt
<1> QED
  BY <1>1, <1>2, <1>3, <1>4, RequestMoves

(* An image that is shown, or about to be saved, goes only by the hand of a  *)
(* client: what jobs and RPCs delete is nobody's.                            *)
LEMMA ImageStays ==
  ASSUME OneAtATime, Ground, Tidy, [Next]_vars, NEW k \in Keys, k \in stored,
         prefix[k] = "user", Kept(k),
         \A r \in Requests : ~ (DeleteImage(r) /\ req[r].entity.img = k)
  PROVE  k \in stored'
<1>1. ~ Discarded(k)
  BY DEF Tidy, ResultsApart, Kept
<1>2. k # NoKey
  BY NoKeyAssumption
<1>3. ASSUME NEW r \in Requests, req[r].old = k PROVE FALSE
  BY <1>2, <1>3 DEF Tidy, Leavings, OldPlaced
<1>4. ASSUME NEW c \in Calls, call[c].pc = "applied", call[c].prev = k PROVE FALSE
  BY <1>1, <1>4 DEF Discarded
<1>5. ASSUME NEW j \in Jobs, DiscardImage(j), job[j].img = k PROVE FALSE
  BY <1>1, <1>5 DEF DiscardImage, Discarded
<1>6. ASSUME NEW j \in Jobs, job[j].temp = k PROVE FALSE
  BY <1>2, <1>6 DEF Tidy, Leavings, TempsPlaced
<1>7. ~ Expiry(k)
  BY DEF Expiry, ExpireObject
<1> QED
  BY <1>3, <1>4, <1>5, <1>6, <1>7, ObjectsGo

LEMMA DeletedImageExcused ==
  ASSUME Ground, Tidy, NEW r \in Requests, DeleteImage(r), NEW i \in Items,
         NEW k \in Keys, row[i].img = k, req[r].entity.img = k
  PROVE  ImageExcuse(i)'
<1>1. req[r].pc = "delImg" /\ GoodReq(req[r]) /\ GoesThrough(req[r]) /\ req[r] \in Req
  BY DEF DeleteImage, Ground, Typed, ReqsTyped, Tidy, Single, OnTheWay
<1>2. /\ req[r].op \in {"update", "delete"}
      /\ req[r].op = "update" => req[r].photo = "plain"
  BY <1>1 DEF Req, GoodReq, GoesThrough
<1>3. req[r].item = i
  <2>1. PICK l \in Items : l = req[r].item
    BY <1>1 DEF GoodReq
  <2>2. ItemNames(l, k) /\ ItemNames(i, k)
    BY <2>1 DEF ItemNames, ReqNames, RowNames
  <2> QED
    BY <2>1, <2>2 DEF Ground, Apart, NamesApart
<1>4. PICK pc : /\ Goto(r, pc)
                /\ \/ pc = "unacked" \/ (req[r].op = "update" /\ pc = "storeImg")
                   \/ (req[r].op = "delete" /\ pc \in {"delTemp", "delRow"})
  BY <1>2 DEF DeleteImage, Unacked, DropOriginal
<1>5. Same(req[r], req'[r]) /\ req'[r].pc = pc
  BY <1>4, GotoFields DEF Ground
<1> QED
  BY <1>2, <1>3, <1>4, <1>5 DEF Same, ImageExcuse

LEMMA OnlySaver ==
  ASSUME Ground, Tidy, NEW r \in Requests, Save(r) \/ DeleteRow(r)
  PROVE  \A s \in Requests : s # r => ~ Save(s) /\ ~ DeleteRow(s)
  BY OthersIdle DEF Ground, Tidy, Single, Handler, Save, DeleteRow, InProgress

LEMMA RowImagesNext ==
  ASSUME OneAtATime, Ground, Tidy, ImagesThere, [Next]_vars, NEW i \in Items
  PROVE  row'[i].img \in stored' \cup {NoKey} \/ ImageExcuse(i)'
<1>1. row[i].img \in stored \cup {NoKey} \/ ImageExcuse(i)
  BY DEF ImagesThere
<1>2. Typed /\ RowsConsistent /\ stored \subseteq Keys
  BY DEF Ground, Agree, Typed, StorageTypeOK
<1>3. ASSUME NEW r \in Requests, Save(r)
      PROVE  row'[i].img \in stored' \cup {NoKey} \/ ImageExcuse(i)'
  <2>1. PICK x \in Items :
          /\ req[r].op # "create" => x = req[r].item
          /\ row'[x] = req[r].entity /\ \A l \in Items : l # x => row'[l] = row[l]
          /\ req[r].pc = "save" /\ UNCHANGED storageVars
    BY <1>2, <1>3, SaveFields
  <2>2. stored' = stored
    BY <2>1 DEF storageVars
  <2>3. \A s \in Requests : s # r => ~ Save(s) /\ ~ DeleteRow(s)
    BY <1>3, OnlySaver
  <2>4. ~ DeleteRow(r)
    BY <2>1 DEF DeleteRow
  <2>5. CASE i # x
    <3>1. row'[i] = row[i]
      BY <2>1, <2>5
    <3>2. ImageExcuse(i) => ImageExcuse(i)'
      BY <2>1, <2>3, <2>4, <2>5, ImageExcuseKept
    <3> QED
      BY <1>1, <2>2, <3>1, <3>2
  <2>6. CASE i = x /\ (req[r].op = "create" \/ req[r].photo = "plain")
    <3>1. HasUploaded(req[r], "plain")
      BY <2>1, <2>6 DEF HasUploaded
    <3> QED
      BY <2>1, <2>2, <2>6, <3>1 DEF ImagesThere
  <2>7. CASE i = x /\ req[r].op # "create" /\ req[r].photo # "plain"
    <3>1. Fits(r) /\ Writing(r) /\ GoesThrough(req[r]) /\ req[r] \in Req
      BY <1>2, <2>1 DEF Tidy, Single, AllFit, OnTheWay, Typed, ReqsTyped, Writing, InProgress
    <3>2. req[r].op \in {"update", "retry"} /\ req[r].photo \in {"none", "generate"}
      BY <2>1, <2>7, <3>1 DEF GoesThrough, Req
    <3>3. req[r].entity.img = row[i].img
      BY <2>1, <2>7, <3>1, <3>2 DEF Fits, RetryFits, UpdateFits, AsRead
    <3>4. ImageExcuse(i) => ImageExcuse(i)'
      BY <2>3, <2>4, <2>7, ImageExcuseKept
    <3> QED
      BY <1>1, <2>1, <2>2, <2>7, <3>3, <3>4
  <2> QED
    BY <2>5, <2>6, <2>7
<1>4. ASSUME NEW r \in Requests, DeleteRow(r)
      PROVE  row'[i].img \in stored' \cup {NoKey} \/ ImageExcuse(i)'
  <2>1. /\ req[r].item \in Items /\ row'[req[r].item] = NoRow
        /\ \A l \in Items : l # req[r].item => row'[l] = row[l]
        /\ req[r].pc = "delRow" /\ UNCHANGED storageVars
    BY <1>2, <1>4, DeleteRowFields
  <2>2. stored' = stored
    BY <2>1 DEF storageVars
  <2>3. \A s \in Requests : s # r => ~ Save(s) /\ ~ DeleteRow(s)
    BY <1>4, OnlySaver
  <2>4. CASE i = req[r].item
    BY <2>1, <2>4 DEF NoRow
  <2>5. CASE i # req[r].item
    <3>1. ~ Save(r)
      BY <2>1 DEF Save
    <3>2. ImageExcuse(i) => ImageExcuse(i)'
      BY <2>3, <2>5, <3>1, ImageExcuseKept
    <3> QED
      BY <1>1, <2>1, <2>2, <2>5, <3>2
  <2> QED
    BY <2>4, <2>5
<1>5. CASE \A r \in Requests : ~ Save(r) /\ ~ DeleteRow(r)
  <2>1. PICK k : k = row'[i].img
    OBVIOUS
  <2>2. k \in Keys \cup {NoKey}
    BY <1>2, <2>1, TypedNext DEF Typed, RowsTyped, Row
  <2>3. ImageExcuse(i) => ImageExcuse(i)'
    BY <1>5, ImageExcuseKept
  <2>4. CASE k \in Keys /\ row[i].img = k
    <3>1. k # NoKey /\ Kept(k)
      BY <2>4, NoKeyAssumption DEF Kept
    <3>2. prefix[k] = "user"
      BY <2>4, <3>1 DEF Ground, Placement, RowsPlaced, Placed
    <3>3. CASE \E r \in Requests : DeleteImage(r) /\ req[r].entity.img = k
      BY <2>4, <3>3, DeletedImageExcused
    <3>4. CASE k \in stored /\ \A r \in Requests : ~ (DeleteImage(r) /\ req[r].entity.img = k)
      BY <2>1, <2>4, <3>1, <3>2, <3>4, ImageStays
    <3> QED
      BY <1>1, <2>3, <2>4, <3>1, <3>3, <3>4
  <2>5. ASSUME NEW c \in Calls, ApplyUpdate(c), Sent(c, k), k \in Keys
        PROVE  k \in stored'
    <3>1. k \in stored
      BY <2>5 DEF Tidy, ResultsApart, Result
    <3> QED
      BY <2>5, <3>1 DEF ApplyUpdate, storageVars
  <2> QED
    BY <1>2, <1>5, <2>1, <2>2, <2>4, <2>5, RowImgFrom
<1> QED
  BY <1>3, <1>4, <1>5

LEMMA ImagesThereNext ==
  ASSUME OneAtATime, Ground, Tidy, ImagesThere, [Next]_vars
  PROVE  ImagesThere'
<1> SUFFICES ASSUME NEW r \in Requests, HasUploaded(req'[r], "plain")
             PROVE  req'[r].entity.img \in stored' \cup {NoKey}
  BY RowImagesNext DEF ImagesThere, HasUploaded
<1>1. CASE req'[r].entity = NewEntity
  BY <1>1 DEF NewEntity, NoRow
<1>2. ASSUME HasUploaded(req[r], "plain"), Saver(r), req'[r].entity.img = req[r].entity.img
      PROVE  req'[r].entity.img \in stored' \cup {NoKey}
  <2>1. PICK k : k = req[r].entity.img
    OBVIOUS
  <2>2. k \in stored \cup {NoKey}
    BY <1>2, <2>1 DEF ImagesThere
  <2>3. CASE k \in stored
    <3>1. k \in Keys /\ k # NoKey /\ Kept(k)
      BY <1>2, <2>1, <2>3, NoKeyAssumption DEF Kept, Ground, Typed, StorageTypeOK
    <3>2. prefix[k] = "user"
      BY <2>1, <3>1 DEF Ground, Placement, ReqsPlaced, Placed
    <3>3. ASSUME NEW s \in Requests, DeleteImage(s) PROVE FALSE
      <4>1. s = r
        BY <1>2, <3>3 DEF DeleteImage, Tidy, Single, Alone, Saver, Holds, Writing, InProgress
      <4> QED
        BY <1>2, <3>3, <4>1 DEF DeleteImage, HasUploaded, Ground, Typed, ReqsTyped, GoodReq
    <3> QED
      BY <1>2, <2>1, <2>3, <3>1, <3>2, <3>3, ImageStays
  <2> QED
    BY <1>2, <2>1, <2>2, <2>3
<1> QED
  BY <1>1, <1>2, UploadedFrom

(* Without a crash and as long as a client waits for its answers and leaves  *)
(* an item alone while a job of it runs, the image an item shows is in the   *)
(* bucket: no job, redelivery or late result ever deletes it.                *)
THEOREM ShownImagesStored == ASSUME OneAtATime PROVE Spec => []ImageStored
<1>1. Init => ImagesThere
  BY BlankFields DEF Init, WardrobeInit, ImagesThere, HasUploaded, NoRow
<1>2. Ground /\ Tidy /\ ImagesThere /\ [Next]_vars => ImagesThere'
  BY ImagesThereNext
<1>3. ImagesThere => ImageStored
  BY DEF ImagesThere, ImageStored, ImageExcuse, BeingChanged, Busy
<1> QED
  BY <1>1, <1>2, <1>3, AlwaysTidy, PTL DEF Spec

-----------------------------------------------------------------------------
(* The originals that items retain are stored, until the rule takes them.    *)

LEMMA RowTempFrom ==
  ASSUME OneAtATime, Typed, RowsConsistent, [Next]_vars, NEW i \in Items, NEW k \in Keys,
         row'[i].temp = k
  PROVE  row[i].temp = k \/ \E r \in Requests : Save(r) /\ req[r].entity.temp = k
<1>1. k # NoKey
  BY NoKeyAssumption
<1>2. ASSUME NEW r \in Requests, Handler(r)
      PROVE  row[i].temp = k \/ \E s \in Requests : Save(s) /\ req[s].entity.temp = k
  <2>1. CASE Save(r)
    BY <2>1, SaveFields
  <2>2. CASE DeleteRow(r)
    BY <1>1, <2>2, DeleteRowFields DEF NoRow
  <2> QED
    BY <1>2, <2>1, <2>2, RowsOfHandler
<1>3. CASE Submit
  BY <1>3 DEF Submit
<1>4. CASE UNCHANGED req
  <2>1. \A e, status, img : WithResult(e, status, img).temp \in {NoKey, e.temp}
    BY DEF WithResult
  <2> QED
    BY <1>1, <1>4, <2>1, RowMoves
<1> QED
  BY <1>2, <1>3, <1>4, ReqWriters

LEMMA SaverTempFrom ==
  ASSUME OneAtATime, Typed, [Next]_vars, NEW r \in Requests, NEW k \in Keys,
         Saver(r)', req'[r].entity.temp = k
  PROVE  \/ Saver(r) /\ req[r].entity.temp = k
         \/ \E i \in Items : row[i].temp = k
         \/ prefix[k] = "none"
<1>1. k # NoKey
  BY NoKeyAssumption
<1>2. req'[r].pc \notin {"unsent", "unacked", "done", "reply", "find"} /\ req'[r].op # "delete"
  BY DEF Saver, Holds, Writing, InProgress
<1>3. ASSUME req'[r] = req[r] PROVE Saver(r) /\ req[r].entity.temp = k
  BY <1>2, <1>3 DEF Saver, Holds, Writing, InProgress
<1>4. CASE Submit
  <2>1. PICK s \in Requests, op \in {"create", "update", "retry", "delete"},
            photo \in {"none", "plain", "generate"}, i \in created \cup {NoItem} :
           /\ req'[s] = Message(op, photo, i)
           /\ \A x \in Requests : x # s => req'[x] = req[x]
    BY <1>4, SubmitFields
  <2>2. s # r
    BY <1>1, <2>1, MessageFields DEF NewEntity, NoRow
  <2> QED
    BY <1>3, <2>1, <2>2
<1>5. ASSUME NEW s \in Requests, Handler(s), s # r PROVE req'[r] = req[r]
  BY <1>5, OneMoves
<1>6. CASE Handler(r)
  <2>1. ~ Acked(r)
    BY <1>2, AckedFields, BlankFields
  <2>2. /\ ~ Unacked(r) /\ ~ Save(r)
    BY <1>2, GotoFields DEF Unacked, Save
  <2>3. CASE RetryFind(r) \/ UpdateFind(r) \/ DeleteFind(r)
    <3>1. req[r].item \in Items /\ UNCHANGED row /\ \E pc : Load(r, pc)
      BY <2>1, <2>3 DEF RetryFind, UpdateFind, DeleteFind, Typed, ReqsTyped, GoodReq
    <3>2. req'[r].entity = row[req[r].item]
      BY <3>1, LoadFields
    <3> QED
      BY <3>1, <3>2
  <2>4. CASE CheckOriginal(r)
    <3>1. PICK e : e = req[r].entity
      OBVIOUS
    <3>2. AwaitingImage(e, e.temp).temp = e.temp
      BY <3>1 DEF Typed, ReqsTyped, Req, Row, AwaitingImage
    <3>3. Same(req[r], req'[r]) /\ req'[r].entity.temp = req[r].entity.temp
      BY <2>1, <2>4, <3>1, <3>2, CheckFields
    <3> QED
      BY <1>2, <2>4, <3>3 DEF CheckOriginal, Same, Saver, Holds, Writing, InProgress
  <2>5. CASE DeleteImage(r) \/ DeleteOriginal(r)
    <3>1. req[r].pc \in {"delImg", "delTemp"} /\ \E pc : Goto(r, pc)
      BY <2>2, <2>5 DEF DeleteImage, DeleteOriginal
    <3>2. Same(req[r], req'[r]) /\ req'[r].entity = req[r].entity
      BY <3>1, GotoFields
    <3> QED
      BY <1>2, <3>1, <3>2 DEF Same, Saver, Holds, Writing, InProgress
  <2>6. CASE StorePhoto(r)
    <3>1. PICK e : e = req[r].entity
      OBVIOUS
    <3>2. e \in Row
      BY <3>1 DEF Typed, ReqsTyped, Req
    <3>3. PICK n \in Keys :
            /\ prefix[n] = "none"
            /\ req'[r].entity = IF req[r].pc = "storeTmp" THEN AwaitingImage(e, n)
                                ELSE ShowingPhoto(e, n)
      BY <2>2, <2>6, <3>1, StoreFields
    <3>4. req'[r].entity.temp \in {NoKey, n}
      BY <3>2, <3>3 DEF AwaitingImage, ShowingPhoto, Row
    <3> QED
      BY <1>1, <3>3, <3>4
  <2> QED
    BY <1>6, <2>1, <2>2, <2>3, <2>4, <2>5, <2>6 DEF Handler, FindMissing, Reply, DeleteRow
<1> QED
  BY <1>3, <1>4, <1>5, <1>6, ReqWriters

(* A job that waits, or that tidies up, keeps its original until it is done. *)
LEMMA OriginalOfJob ==
  ASSUME Typed, [Next]_vars, NEW x \in Jobs, job'[x].pc \in {"wait", "cleanup", "discardGone"}
  PROVE  job'[x].temp = job[x].temp
<1>1. job \in [Jobs -> JobRec] /\ \A j \in Jobs : job[j] \in JobRec
  BY DEF Typed, JobsTyped
<1>2. IdleJob.pc = "idle"
  BY DEF IdleJob
<1>3. ASSUME NEW m, m.pc = "queued", job' = [job EXCEPT ![FreeJob] = m]
      PROVE  job'[x].temp = job[x].temp
  BY <1>1, <1>3
<1>4. ASSUME NEW r \in Requests, Handler(r) PROVE job'[x].temp = job[x].temp
  <2>1. CASE UNCHANGED job
    BY <2>1
  <2>2. CASE \E i, k : Emit(i, k)
    <3>1. PICK i, k : Emit(i, k)
      BY <2>2
    <3>2. PICK m : m = [IdleJob EXCEPT !.pc = "queued", !.item = i, !.temp = k]
      OBVIOUS
    <3>3. m.pc = "queued"
      BY <3>2 DEF IdleJob
    <3> QED
      BY <1>3, <3>1, <3>2, <3>3 DEF Emit
  <2> QED
    BY <1>4, <2>1, <2>2
    DEF Handler, FindMissing, RetryFind, UpdateFind, DeleteFind, CheckOriginal, DeleteImage,
        StorePhoto, DeleteOriginal, Save, Reply, DeleteRow
<1>5. ASSUME NEW c \in Calls, ApplyResult(c) PROVE job'[x].temp = job[x].temp
  <2>1. CASE UNCHANGED job
    BY <2>1
  <2>2. CASE \E outcome : Answer(c, outcome)
    BY <1>2, <2>2, AnswerFields
  <2> QED
    BY <1>5, <2>1, <2>2 DEF ApplyResult, ApplyUpdate, ApplyLookup, ApplyFinish
<1>6. ASSUME NEW j \in Jobs, Consumer(j) PROVE job'[x].temp = job[x].temp
  <2>1. CASE \E pc : JobGoto(j, pc) \/ AckJob(j)
    BY <1>2, <2>1, GotoJobFields
  <2>2. CASE StoreGenerated(j)
    BY <1>1, <2>2 DEF StoreGenerated, JobRec
  <2>3. CASE DiscardImage(j)
    BY <1>1, <1>2, <2>3 DEF DiscardImage, AckJob, JobRec
  <2> QED
    BY <1>6, <2>1, <2>2, <2>3
    DEF Consumer, CheckPending, SkipUnreadable, LoadOriginal, OutcomeTimeout,
        GenerationFails, GenerationSucceeds, SendResult, DeleteTempOriginal
<1>7. ASSUME Environment PROVE job'[x].temp = job[x].temp
  <2>1. CASE ConsumerCrash
    BY <1>1, <2>1 DEF ConsumerCrash, JobRec
  <2>2. ASSUME NEW j \in Jobs, Redeliver(j) PROVE job'[x].temp = job[x].temp
    <3>1. PICK m : m = [IdleJob EXCEPT !.pc = "queued", !.item = job[j].item,
                                       !.temp = job[j].temp]
      OBVIOUS
    <3>2. m.pc = "queued"
      BY <3>1 DEF IdleJob
    <3> QED
      BY <1>3, <2>2, <3>1, <3>2 DEF Redeliver
  <2> QED
    BY <1>7, <2>1, <2>2 DEF Environment, BecomeStale, Expiry, WardrobeCrash
<1>8. ASSUME Submit \/ Sweep \/ UNCHANGED vars PROVE UNCHANGED job
  BY <1>8 DEF Submit, Sweep, vars, wardrobeVars
<1> QED
  BY <1>4, <1>5, <1>6, <1>7, <1>8 DEF Next

LEMMA CleanFrom ==
  ASSUME Typed, [Next]_vars, NEW x \in Jobs, job'[x].pc \in {"cleanup", "discardGone"}
  PROVE  \/ job[x].pc \in {"cleanup", "discardGone"}
         \/ \E c \in Calls : /\ call[c].from = x /\ call[c].status = "ready"
                             /\ call[c].pc = "applied"
         \/ \E c \in Calls : /\ call[c].from = x /\ call[c].status = "ready" /\ ApplyLookup(c)
                             /\ row[call[c].item].status = "absent"
<1>1. job \in [Jobs -> JobRec] /\ \A j \in Jobs : job[j] \in JobRec
  BY DEF Typed, JobsTyped
<1>2. IdleJob.pc = "idle"
  BY DEF IdleJob
<1>3. ASSUME NEW m, m.pc = "queued", job' = [job EXCEPT ![FreeJob] = m]
      PROVE  job'[x] = job[x]
  BY <1>1, <1>3
<1>4. ASSUME NEW r \in Requests, Handler(r) PROVE job'[x] = job[x]
  <2>1. CASE UNCHANGED job
    BY <2>1
  <2>2. CASE \E i, k : Emit(i, k)
    <3>1. PICK i, k : Emit(i, k)
      BY <2>2
    <3>2. PICK m : m = [IdleJob EXCEPT !.pc = "queued", !.item = i, !.temp = k]
      OBVIOUS
    <3>3. m.pc = "queued"
      BY <3>2 DEF IdleJob
    <3> QED
      BY <1>3, <3>1, <3>2, <3>3 DEF Emit
  <2> QED
    BY <1>4, <2>1, <2>2
    DEF Handler, FindMissing, RetryFind, UpdateFind, DeleteFind, CheckOriginal, DeleteImage,
        StorePhoto, DeleteOriginal, Save, Reply, DeleteRow
<1>5. ASSUME NEW c \in Calls, ApplyUpdate(c) PROVE job'[x] = job[x]
  BY <1>5 DEF ApplyUpdate
<1>6. ASSUME NEW c \in Calls, ApplyFinish(c)
      PROVE  \/ job'[x] = job[x]
             \/ call[c].from = x /\ call[c].status = "ready" /\ call[c].pc = "applied"
  <2>1. call[c].pc = "applied" /\ \E outcome : Answer(c, outcome)
    BY <1>6 DEF ApplyFinish
  <2> QED
    BY <1>2, <2>1, AnswerFields
<1>7. ASSUME NEW c \in Calls, ApplyLookup(c)
      PROVE  \/ job'[x] = job[x]
             \/ /\ call[c].from = x /\ call[c].status = "ready"
                /\ row[call[c].item].status = "absent"
  <2>1. PICK outcome :
          /\ Answer(c, outcome)
          /\ outcome = IF row[call[c].item].status = "absent" THEN "not_found" ELSE "not_pending"
    BY <1>7 DEF ApplyLookup
  <2>2. AfterOutcome("ready", "not_pending") = "discard"
    BY DEF AfterOutcome
  <2> QED
    BY <1>2, <2>1, <2>2, AnswerFields
<1>8. ASSUME NEW j \in Jobs, Consumer(j)
      PROVE  job'[x] = job[x] \/ job[x].pc \in {"cleanup", "discardGone"}
  <2>1. CASE \E pc \in {"load", "model", "wait"} : JobGoto(j, pc) \/ AckJob(j)
    BY <1>2, <2>1, GotoJobFields
  <2>2. CASE StoreGenerated(j)
    BY <1>1, <2>2 DEF StoreGenerated, JobRec
  <2>3. CASE DiscardImage(j)
    BY <1>1, <1>2, <2>3 DEF DiscardImage, AckJob, JobRec
  <2> QED
    BY <1>8, <2>1, <2>2, <2>3
    DEF Consumer, CheckPending, SkipUnreadable, LoadOriginal, OutcomeTimeout,
        GenerationFails, GenerationSucceeds, SendResult, DeleteTempOriginal
<1>9. ASSUME Environment PROVE job'[x] = job[x]
  <2>1. CASE ConsumerCrash
    BY <1>1, <2>1 DEF ConsumerCrash, JobRec, InFlight
  <2>2. ASSUME NEW j \in Jobs, Redeliver(j) PROVE job'[x] = job[x]
    <3>1. PICK m : m = [IdleJob EXCEPT !.pc = "queued", !.item = job[j].item,
                                       !.temp = job[j].temp]
      OBVIOUS
    <3>2. m.pc = "queued"
      BY <3>1 DEF IdleJob
    <3> QED
      BY <1>3, <2>2, <3>1, <3>2 DEF Redeliver
  <2> QED
    BY <1>9, <2>1, <2>2 DEF Environment, BecomeStale, Expiry, WardrobeCrash
<1>10. ASSUME Submit \/ Sweep \/ UNCHANGED vars PROVE UNCHANGED job
  BY <1>10 DEF Submit, Sweep, vars, wardrobeVars
<1> QED
  BY <1>4, <1>5, <1>6, <1>7, <1>8, <1>9, <1>10 DEF Next, ApplyResult

(* An original is doomed once a result has taken its place, or once its item *)
(* is found gone.                                                            *)
NewlyDoomed(c, k) ==
  /\ call[c].from # NoJob /\ call[c].status = "ready" /\ job[call[c].from].temp = k
  /\ \/ ApplyUpdate(c) /\ row[call[c].item].status = "pending"
     \/ ApplyLookup(c) /\ row[call[c].item].status = "absent"

LEMMA DoomedFrom ==
  ASSUME OneAtATime, Typed, Typed', [Next]_vars, NEW k \in Keys, Doomed(k)'
  PROVE  Doomed(k) \/ \E c \in Calls : NewlyDoomed(c, k)
<1>1. \A c \in Calls : call[c].from \in Jobs \cup {NoJob}
  BY DEF Typed, CallsTyped, CallRec
<1>2. NoJob \notin Jobs
  BY PipelineAssumption
<1>3. ASSUME NEW x \in Jobs, job'[x].pc \in {"cleanup", "discardGone"}, job'[x].temp = k
      PROVE  Doomed(k) \/ \E c \in Calls : NewlyDoomed(c, k)
  <2>1. job[x].temp = k
    BY <1>3, OriginalOfJob
  <2> QED
    BY <1>2, <1>3, <2>1, CleanFrom DEF Doomed, NewlyDoomed
<1>4. ASSUME NEW c \in Calls, call'[c].pc = "applied", call'[c].status = "ready",
             call'[c].from # NoJob, job'[call'[c].from].temp = k
      PROVE  Doomed(k) \/ NewlyDoomed(c, k)
  <2>1. PICK x \in Jobs : x = call'[c].from
    BY <1>4 DEF Typed, CallsTyped, CallRec
  <2>2. job'[x].pc = "wait"
    BY <1>4, <2>1 DEF Typed, RepliesMatched
  <2>3. job[x].temp = k
    BY <1>4, <2>1, <2>2, OriginalOfJob
  <2>4. CASE ApplyUpdate(c)
    BY <1>4, <2>1, <2>3, <2>4, UpdateFields DEF NewlyDoomed
  <2>5. CASE /\ call[c].pc = "applied" /\ call'[c].status = call[c].status
             /\ call'[c].from \in {call[c].from, NoJob}
    BY <1>4, <2>1, <2>3, <2>5 DEF Doomed
  <2> QED
    BY <1>4, <2>4, <2>5, SettledCalls
<1> QED
  BY <1>3, <1>4 DEF Doomed

LEMMA DoomedPlaced ==
  ASSUME Ground, Tidy, NEW k \in Keys, Doomed(k)
  PROVE  prefix[k] = "tmp"
<1>1. \A c \in Calls : call[c].from \in Jobs \cup {NoJob}
  BY DEF Ground, Typed, CallsTyped, CallRec
<1>2. k # NoKey
  BY NoKeyAssumption
<1> QED
  BY <1>1, <1>2 DEF Doomed, Tidy, Leavings, TempsPlaced

LEMMA DoomedGoneNext ==
  ASSUME OneAtATime, Ground, Tidy, DoomedGone, [Next]_vars
  PROVE  DoomedGone'
<1>1. Typed /\ RowsConsistent /\ Typed'
  BY TypedNext DEF Ground, Agree
<1>2. SUFFICES ASSUME NEW k \in Keys, Doomed(k)'
               PROVE  /\ \A i \in Items : row'[i].temp # k
                      /\ \A r \in Requests : Saver(r)' => req'[r].entity.temp # k
  BY DEF DoomedGone
<1>3. k # NoKey
  BY NoKeyAssumption
<1>4. CASE Doomed(k)
  <2>1. /\ \A i \in Items : row[i].temp # k
        /\ \A r \in Requests : Saver(r) => req[r].entity.temp # k
    BY <1>4 DEF DoomedGone
  <2>2. prefix[k] # "none"
    BY <1>4, DoomedPlaced
  <2>3. ASSUME NEW r \in Requests, Save(r) PROVE Saver(r)
    <3>1. req[r].pc = "save" /\ GoesThrough(req[r])
      BY <2>3 DEF Save, Tidy, Single, OnTheWay
    <3> QED
      BY <3>1 DEF Saver, Holds, Writing, InProgress, GoesThrough
  <2>4. \A i \in Items : row'[i].temp # k
    BY <1>1, <2>1, <2>3, RowTempFrom
  <2>5. \A r \in Requests : Saver(r)' => req'[r].entity.temp # k
    BY <1>1, <2>1, <2>2, SaverTempFrom
  <2> QED
    BY <2>4, <2>5
<1>5. ASSUME NEW c \in Calls, NewlyDoomed(c, k)
      PROVE  /\ \A i \in Items : row'[i].temp # k
             /\ \A r \in Requests : Saver(r)' => req'[r].entity.temp # k
  <2>1. PICK j \in Jobs : j = call[c].from
    BY <1>1, <1>5 DEF NewlyDoomed, Typed, CallsTyped, CallRec
  <2>2. call[c].pc # "none"
    BY <1>5 DEF NewlyDoomed, ApplyUpdate, ApplyLookup
  <2>3. PICK i \in Items : i = call[c].item
    BY <1>1, <2>2 DEF Typed, CallsTyped, GoodCall
  <2>4. job[j].item = i /\ job[j].temp = k
    BY <1>5, <2>1, <2>3 DEF Ground, RepliesCarried, NewlyDoomed
  <2>5. ItemNames(i, k)
    BY <2>4 DEF ItemNames, JobNames
  <2>6. row[i].status \in {"pending", "absent"}
    BY <1>5, <2>3 DEF NewlyDoomed
  <2>7. /\ \A l \in Items : l # i => row[l].temp # k
        /\ \A r \in Requests : Saver(r) => req[r].entity.temp # k
    BY <1>1, <2>2, <2>3, <2>5, <2>6, NoSaverOf DEF Ground, Tidy
  <2>8. UNCHANGED req
    BY <1>5 DEF NewlyDoomed, ApplyUpdate, ApplyLookup
  <2>9. row'[i].temp # k /\ \A l \in Items : l # i => row'[l] = row[l]
    <3>1. CASE ApplyUpdate(c) /\ row[i].status = "pending"
      <4>1. \A e, img : WithResult(e, "ready", img).temp = NoKey
        BY DEF WithResult
      <4>2. call[c].status = "ready"
        BY <1>5 DEF NewlyDoomed
      <4> QED
        BY <1>1, <1>3, <2>3, <3>1, <4>1, <4>2, UpdateFields
    <3>2. CASE ApplyLookup(c) /\ row[i].status = "absent"
      <4>1. row[i].temp = NoKey
        BY <1>1, <3>2 DEF RowsConsistent, Consistent
      <4> QED
        BY <1>3, <3>2, <4>1 DEF ApplyLookup
    <3> QED
      BY <1>5, <2>3, <3>1, <3>2 DEF NewlyDoomed
  <2> QED
    BY <2>7, <2>8, <2>9 DEF Saver, Holds, Writing, InProgress
<1> QED
  BY <1>1, <1>2, <1>4, <1>5, DoomedFrom

LEMMA DoomedGoneInit == Init => DoomedGone
<1>1. Init => /\ \A c \in Calls : call[c] = NoCall
              /\ \A j \in Jobs : job[j] = IdleJob
  BY DEF Init, WardrobeInit
<1>2. NoCall.pc = "none" /\ IdleJob.pc = "idle"
  BY DEF NoCall, IdleJob
<1> QED
  BY <1>1, <1>2 DEF DoomedGone, Doomed

(* What the rule has taken it does not give back. *)
LEMMA ExpiredStays ==
  ASSUME [Next]_vars
  PROVE  expired \subseteq expired'
<1>1. UNCHANGED storageVars => expired \subseteq expired'
  BY DEF storageVars
<1>2. \A p : Upload(p) => expired \subseteq expired'
  BY DEF Upload
<1>3. \A k : DeleteObject(k) => expired \subseteq expired'
  BY DEF DeleteObject
<1>4. ASSUME NEW r \in Requests, Handler(r) PROVE expired \subseteq expired'
  <2>1. CASE DeleteImage(r) \/ DeleteOriginal(r) \/ StorePhoto(r)
    BY <1>1, <1>2, <1>3, <2>1 DEF DeleteImage, DeleteOriginal, StorePhoto
  <2> QED
    BY <1>1, <1>4, <2>1
    DEF Handler, FindMissing, RetryFind, UpdateFind, DeleteFind, CheckOriginal, Save, Reply,
        DeleteRow
<1>5. ASSUME NEW c \in Calls, ApplyResult(c) PROVE expired \subseteq expired'
  BY <1>1, <1>3, <1>5 DEF ApplyResult, ApplyUpdate, ApplyLookup, ApplyFinish
<1>6. ASSUME NEW j \in Jobs, Consumer(j) PROVE expired \subseteq expired'
  <2>1. CASE DiscardImage(j) \/ DeleteTempOriginal(j) \/ StoreGenerated(j)
    BY <1>1, <1>2, <1>3, <2>1
    DEF DiscardImage, DeleteTempOriginal, StoreGenerated, DeleteQuietly
  <2> QED
    BY <1>1, <1>6, <2>1
    DEF Consumer, CheckPending, SkipUnreadable, LoadOriginal, GenerationFails,
        GenerationSucceeds, OutcomeTimeout
<1>7. ASSUME Environment PROVE expired \subseteq expired'
  <2>1. \A k : Expiry(k) => expired \subseteq expired'
    BY DEF Expiry, ExpireObject
  <2> QED
    BY <1>1, <1>7, <2>1
    DEF Environment, BecomeStale, Redeliver, ConsumerCrash, WardrobeCrash
<1>8. ASSUME Submit \/ Sweep \/ UNCHANGED vars PROVE expired \subseteq expired'
  BY <1>1, <1>8 DEF Submit, Sweep, vars
<1> QED
  BY <1>4, <1>5, <1>6, <1>7, <1>8 DEF Next

LEMMA ExcuseKept ==
  ASSUME OneAtATime, Ground, Tidy, [Next]_vars, NEW i \in Items, Excuse(i),
         \A r \in Requests : req[r].item = i =>
           ~ (Save(r) /\ req[r].op = "update" /\ req[r].photo # "none") /\ ~ DeleteRow(r)
  PROVE  Excuse(i)'
<1>1. PICK r \in Requests :
        /\ req[r].item = i
        /\ \/ req[r].op \in {"update", "delete"} /\ req[r].pc = "unacked"
           \/ req[r].op = "delete" /\ req[r].pc = "delRow"
           \/ req[r].op = "update" /\ req[r].photo # "none" /\ req[r].pc = "save"
  BY DEF Excuse
<1>2. Typed
  BY DEF Ground
<1>3. CASE req'[r] = req[r]
  BY <1>1, <1>3 DEF Excuse
<1>4. CASE Handler(r)
  BY <1>1, <1>2, <1>4, OneMoves, HandlerAt
<1> QED
  BY <1>1, <1>2, <1>3, <1>4, RequestMoves

(* An original that no result has replaced goes by the rule, or by the hand  *)
(* of a client.                                                              *)
LEMMA OriginalStays ==
  ASSUME OneAtATime, Ground, Tidy, [Next]_vars, NEW k \in Keys, k \in stored,
         prefix[k] = "tmp", ~ Doomed(k),
         \A r \in Requests : ~ (DeleteOriginal(r) /\ req[r].old = k)
  PROVE  k \in stored' \cup expired'
<1>1. k # NoKey
  BY NoKeyAssumption
<1>2. ASSUME NEW r \in Requests, req[r].entity.img = k PROVE FALSE
  BY <1>1, <1>2 DEF Ground, Placement, ReqsPlaced, Placed
<1>3. ASSUME NEW c \in Calls, call[c].prev = k PROVE FALSE
  BY <1>1, <1>3 DEF Tidy, Leavings, PrevPlaced
<1>4. ASSUME NEW j \in Jobs, job[j].img = k PROVE FALSE
  BY <1>1, <1>4 DEF Ground, Placement, JobsPlaced, ImagePlaced
<1>5. ASSUME NEW j \in Jobs, DeleteTempOriginal(j), job[j].temp = k PROVE FALSE
  BY <1>5 DEF DeleteTempOriginal, Doomed
<1>6. Expiry(k) => k \in expired'
  BY DEF Expiry, ExpireObject
<1> QED
  BY <1>2, <1>3, <1>4, <1>5, <1>6, ObjectsGo

LEMMA DeletedOriginalExcused ==
  ASSUME Ground, Tidy, NEW r \in Requests, DeleteOriginal(r), NEW i \in Items,
         NEW k \in Keys, row[i].temp = k, req[r].old = k
  PROVE  Excuse(i)'
<1>1. req[r].pc = "delTemp" /\ GoodReq(req[r]) /\ GoesThrough(req[r]) /\ req[r] \in Req
  BY DEF DeleteOriginal, Ground, Typed, ReqsTyped, Tidy, Single, OnTheWay
<1>2. /\ req[r].op \in {"update", "delete"}
      /\ req[r].op = "update" => req[r].photo # "none"
  BY <1>1 DEF Req, GoodReq, GoesThrough
<1>3. req[r].item = i
  <2>1. PICK l \in Items : l = req[r].item
    BY <1>1 DEF GoodReq
  <2>2. ItemNames(l, k) /\ ItemNames(i, k)
    BY <2>1 DEF ItemNames, ReqNames, RowNames
  <2> QED
    BY <2>1, <2>2 DEF Ground, Apart, NamesApart
<1>4. PICK pc : /\ pc = IF req[r].op = "update" THEN "save" ELSE "delRow"
                /\ Goto(r, pc)
  BY DEF DeleteOriginal
<1>5. Same(req[r], req'[r]) /\ req'[r].pc = pc
  BY <1>4, GotoFields DEF Ground
<1> QED
  BY <1>2, <1>3, <1>4, <1>5 DEF Same, Excuse

LEMMA RowOriginalsNext ==
  ASSUME OneAtATime, Ground, Tidy, DoomedGone, OriginalsThere, [Next]_vars, NEW i \in Items
  PROVE  row'[i].temp \in stored' \cup expired' \cup {NoKey} \/ Excuse(i)'
<1>1. row[i].temp \in stored \cup expired \cup {NoKey} \/ Excuse(i)
  BY DEF OriginalsThere
<1>2. Typed /\ RowsConsistent /\ stored \subseteq Keys /\ expired \subseteq expired'
  BY ExpiredStays DEF Ground, Agree, Typed, StorageTypeOK
<1>3. ASSUME NEW r \in Requests, Save(r)
      PROVE  row'[i].temp \in stored' \cup expired' \cup {NoKey} \/ Excuse(i)'
  <2>1. PICK x \in Items :
          /\ req[r].op # "create" => x = req[r].item
          /\ row'[x] = req[r].entity /\ \A l \in Items : l # x => row'[l] = row[l]
          /\ req[r].pc = "save" /\ UNCHANGED storageVars
    BY <1>2, <1>3, SaveFields
  <2>2. stored' = stored
    BY <2>1 DEF storageVars
  <2>3. \A s \in Requests : s # r => ~ Save(s) /\ ~ DeleteRow(s)
    BY <1>3, OnlySaver
  <2>4. ~ DeleteRow(r)
    BY <2>1 DEF DeleteRow
  <2>5. CASE i # x
    <3>1. row'[i] = row[i]
      BY <2>1, <2>5
    <3>2. Excuse(i) => Excuse(i)'
      BY <2>1, <2>3, <2>4, <2>5, ExcuseKept
    <3> QED
      BY <1>1, <1>2, <2>2, <3>1, <3>2
  <2>6. CASE i = x /\ (req[r].op = "create" \/ req[r].photo = "generate")
    <3>1. HasUploaded(req[r], "generate")
      BY <2>1, <2>6 DEF HasUploaded
    <3> QED
      BY <1>2, <2>1, <2>2, <2>6, <3>1 DEF OriginalsThere
  <2>7. CASE i = x /\ req[r].op # "create" /\ req[r].photo # "generate"
    <3>1. Fits(r) /\ Writing(r) /\ GoesThrough(req[r]) /\ req[r] \in Req
      BY <1>2, <2>1 DEF Tidy, Single, AllFit, OnTheWay, Typed, ReqsTyped, Writing, InProgress
    <3>2. req[r].op \in {"update", "retry"} /\ req[r].photo \in {"none", "plain"}
      BY <2>1, <2>7, <3>1 DEF GoesThrough, Req
    <3>3. CASE req[r].op = "update" /\ req[r].photo = "plain"
      BY <2>1, <2>7, <3>1, <3>3 DEF Fits, UpdateFits
    <3>4. CASE req[r].op = "retry" \/ req[r].photo = "none"
      <4>1. req[r].entity.temp = row[i].temp
        BY <2>1, <2>7, <3>1, <3>2, <3>4 DEF Fits, RetryFits, UpdateFits, AsRead
      <4>2. Excuse(i) => Excuse(i)'
        BY <2>3, <2>4, <2>7, <3>4, ExcuseKept
      <4> QED
        BY <1>1, <1>2, <2>1, <2>2, <2>7, <4>1, <4>2
    <3> QED
      BY <3>2, <3>3, <3>4
  <2> QED
    BY <2>5, <2>6, <2>7
<1>4. ASSUME NEW r \in Requests, DeleteRow(r)
      PROVE  row'[i].temp \in stored' \cup expired' \cup {NoKey} \/ Excuse(i)'
  <2>1. /\ req[r].item \in Items /\ row'[req[r].item] = NoRow
        /\ \A l \in Items : l # req[r].item => row'[l] = row[l]
        /\ req[r].pc = "delRow" /\ UNCHANGED storageVars
    BY <1>2, <1>4, DeleteRowFields
  <2>2. stored' = stored
    BY <2>1 DEF storageVars
  <2>3. \A s \in Requests : s # r => ~ Save(s) /\ ~ DeleteRow(s)
    BY <1>4, OnlySaver
  <2>4. CASE i = req[r].item
    BY <2>1, <2>4 DEF NoRow
  <2>5. CASE i # req[r].item
    <3>1. ~ Save(r)
      BY <2>1 DEF Save
    <3>2. Excuse(i) => Excuse(i)'
      BY <2>3, <2>5, <3>1, ExcuseKept
    <3> QED
      BY <1>1, <1>2, <2>1, <2>2, <2>5, <3>2
  <2> QED
    BY <2>4, <2>5
<1>5. CASE \A r \in Requests : ~ Save(r) /\ ~ DeleteRow(r)
  <2>1. PICK k : k = row'[i].temp
    OBVIOUS
  <2>2. k \in Keys \cup {NoKey}
    BY <1>2, <2>1, TypedNext DEF Typed, RowsTyped, Row
  <2>3. Excuse(i) => Excuse(i)'
    BY <1>5, ExcuseKept
  <2>4. CASE k \in Keys
    <3>1. k # NoKey /\ row[i].temp = k
      BY <1>2, <1>5, <2>1, <2>4, RowTempFrom, NoKeyAssumption
    <3>2. prefix[k] = "tmp" /\ ~ Doomed(k)
      BY <2>4, <3>1 DEF Ground, Placement, RowsPlaced, Placed, DoomedGone
    <3>3. CASE \E r \in Requests : DeleteOriginal(r) /\ req[r].old = k
      BY <2>4, <3>1, <3>3, DeletedOriginalExcused
    <3>4. CASE k \in stored /\ \A r \in Requests : ~ (DeleteOriginal(r) /\ req[r].old = k)
      BY <2>1, <2>4, <3>2, <3>4, OriginalStays
    <3> QED
      BY <1>1, <1>2, <2>1, <2>3, <3>1, <3>3, <3>4
  <2> QED
    BY <2>1, <2>2, <2>4
<1> QED
  BY <1>3, <1>4, <1>5

LEMMA OriginalsThereNext ==
  ASSUME OneAtATime, Ground, Tidy, DoomedGone, OriginalsThere, [Next]_vars
  PROVE  OriginalsThere'
<1> SUFFICES ASSUME NEW r \in Requests, HasUploaded(req'[r], "generate")
             PROVE  req'[r].entity.temp \in stored' \cup expired' \cup {NoKey}
  BY RowOriginalsNext DEF OriginalsThere, HasUploaded
<1>1. CASE req'[r].entity = NewEntity
  BY <1>1 DEF NewEntity, NoRow
<1>2. ASSUME HasUploaded(req[r], "generate"), Saver(r),
             req'[r].entity.temp = req[r].entity.temp
      PROVE  req'[r].entity.temp \in stored' \cup expired' \cup {NoKey}
  <2>1. PICK k : k = req[r].entity.temp
    OBVIOUS
  <2>2. k \in stored \cup expired \cup {NoKey}
    BY <1>2, <2>1 DEF OriginalsThere
  <2>3. CASE k \in stored
    <3>1. k \in Keys /\ k # NoKey
      BY <2>3, NoKeyAssumption DEF Ground, Typed, StorageTypeOK
    <3>2. prefix[k] = "tmp" /\ ~ Doomed(k)
      BY <1>2, <2>1, <3>1 DEF Ground, Placement, ReqsPlaced, Placed, DoomedGone
    <3>3. ASSUME NEW s \in Requests, DeleteOriginal(s), req[s].old = k PROVE FALSE
      <4>1. s = r /\ req[r].pc = "delTemp" /\ Writing(r) /\ req[r].op # "create"
        BY <1>2, <3>3
        DEF DeleteOriginal, Tidy, Single, Alone, Saver, Holds, Writing, InProgress,
            Ground, Typed, ReqsTyped, GoodReq
      <4>2. Fits(r) /\ req[r].photo = "generate" /\ GoesThrough(req[r])
        BY <1>2, <4>1 DEF HasUploaded, Tidy, Single, AllFit, OnTheWay
      <4>3. req[r].op = "update"
        BY <4>1, <4>2 DEF GoesThrough, Ground, Typed, ReqsTyped, Req
      <4>4. UpdateFits(req[r], row[req[r].item])
        BY <4>1, <4>2, <4>3 DEF Fits
      <4> QED
        BY <2>1, <3>3, <4>1, <4>2, <4>4 DEF UpdateFits
    <3> QED
      BY <1>2, <2>1, <2>3, <3>1, <3>2, <3>3, OriginalStays
  <2> QED
    BY <1>2, <2>1, <2>2, <2>3, ExpiredStays
<1> QED
  BY <1>1, <1>2, UploadedFrom

(* Without a crash, and as long as a client waits for its answers and leaves *)
(* an item alone while a job of it runs, a pending or failed item keeps the  *)
(* photo it was created from, unless the rule has taken it: no late result   *)
(* and no second delivery of its job drops it, so a retry finds it.          *)
THEOREM OriginalsKept == ASSUME OneAtATime PROVE Spec => []OriginalRetained
<1>1. Init => OriginalsThere
  BY BlankFields DEF Init, WardrobeInit, OriginalsThere, HasUploaded, NoRow
<1>2. Ground /\ Tidy /\ DoomedGone /\ OriginalsThere /\ [Next]_vars
        => DoomedGone' /\ OriginalsThere'
  BY DoomedGoneNext, OriginalsThereNext
<1>3. Ground /\ OriginalsThere => OriginalRetained
  BY DEF Ground, Agree, RowsConsistent, Consistent, OriginalsThere, OriginalRetained, Excuse,
         BeingChanged, Busy
<1> QED
  BY <1>1, <1>2, <1>3, DoomedGoneInit, AlwaysTidy, PTL DEF Spec

-----------------------------------------------------------------------------
(* Nothing is lost: without a fault every original, and in any step every    *)
(* image, keeps an owner that will see to it.                                *)

(* The jobs of an item work on the original its row retains, if it still     *)
(* retains one.                                                              *)
JobOriginals ==
  \A j \in Jobs : job[j].item # NoItem =>
    /\ job[j].item \in created
    /\ row[job[j].item].temp \in {job[j].temp, NoKey}

(* Only faults leave a result without its sender.                            *)
CallsHeard == faults = {} => \A c \in Calls : call[c].pc # "none" => call[c].from # NoJob

FindsFresh == \A r \in Requests : req[r].pc = "find" => req[r].entity = NewEntity

(* A result may take the original of an item that is being deleted. *)
DeletesFit ==
  \A r \in Requests : Holds(r) /\ req[r].op = "delete" =>
    /\ row[req[r].item].temp \in {req[r].old, NoKey}
    /\ req[r].pc = "delRow" /\ faults = {} => req[r].old \notin stored
    /\ req[r].pc \in {"delTemp", "delRow"} => req[r].entity.img \notin stored

(* An update deletes what it replaces before it saves.                       *)
UpdatesTidy ==
  \A r \in Requests : Writing(r) /\ req[r].op = "update" =>
    /\ req[r].pc = "save" /\ req[r].photo # "none" /\ faults = {} =>
         req[r].old \notin stored
    /\ req[r].pc \in {"storeImg", "delTemp", "save"} /\ req[r].photo = "plain" =>
         row[req[r].item].img \notin stored

Careful == JobOriginals /\ CallsHeard /\ FindsFresh /\ DeletesFit /\ UpdatesTidy

(* The owners of an original. *)
Awaited(k) ==
  \/ \E i \in Items : row[i].temp = k
  \/ \E r \in Requests : HasUploaded(req[r], "generate") /\ req[r].entity.temp = k

(* Without a fault an object under tmp/ has an owner or will be deleted.     *)
OriginalsHeld ==
  faults = {} => \A k \in stored : prefix[k] = "tmp" => Awaited(k) \/ Doomed(k)

LEMMA FaultsGrow ==
  ASSUME [Next]_vars
  PROVE  faults \subseteq faults'
<1>1. (\A kind : Fault(kind) => faults \subseteq faults') /\ (TimedOut => faults \subseteq faults')
  BY DEF Fault, TimedOut
<1>2. UNCHANGED faults => faults \subseteq faults'
  OBVIOUS
<1>3. ASSUME NEW r \in Requests, Handler(r) PROVE faults \subseteq faults'
  <2>1. CASE Save(r)
    BY <1>1, <1>2, <2>1 DEF Save, Emit
  <2>2. CASE CheckOriginal(r) \/ DeleteImage(r) \/ StorePhoto(r) \/ DeleteOriginal(r) \/ Reply(r)
    BY <1>1, <1>2, <2>2 DEF CheckOriginal, DeleteImage, StorePhoto, DeleteOriginal, Reply
  <2> QED
    BY <1>2, <1>3, <2>1, <2>2
    DEF Handler, FindMissing, RetryFind, UpdateFind, DeleteFind, DeleteRow
<1>4. ASSUME NEW c \in Calls, ApplyResult(c) PROVE faults \subseteq faults'
  BY <1>1, <1>2, <1>4 DEF ApplyResult, ApplyUpdate, ApplyLookup, ApplyFinish
<1>5. ASSUME NEW j \in Jobs, Consumer(j) PROVE faults \subseteq faults'
  BY <1>1, <1>2, <1>5
  DEF Consumer, CheckPending, SkipUnreadable, LoadOriginal, GenerationFails, StoreGenerated,
      GenerationSucceeds, OutcomeTimeout, DiscardImage, DeleteTempOriginal, DeleteQuietly
<1>6. ASSUME Environment PROVE faults \subseteq faults'
  BY <1>1, <1>2, <1>6
  DEF Environment, BecomeStale, Redeliver, Expiry, ConsumerCrash, WardrobeCrash
<1>7. ASSUME Submit \/ Sweep \/ UNCHANGED vars PROVE faults \subseteq faults'
  BY <1>2, <1>7 DEF Submit, Sweep, vars, wardrobeVars
<1> QED
  BY <1>3, <1>4, <1>5, <1>6, <1>7 DEF Next

LEMMA FaultShows ==
  /\ \A kind : Fault(kind) => faults' # {} /\ faults' # faults
  /\ TimedOut => faults' # {}
  BY DEF Fault, TimedOut

(* A name that is gone is never stored under again. *)
LEMMA NotRestored ==
  ASSUME Typed, [Next]_vars, NEW k \in Keys \cup {NoKey}, k \notin stored,
         k # NoKey => prefix[k] # "none"
  PROVE  k \notin stored'
<1>1. ASSUME NEW p, Upload(p) PROVE k \notin stored'
  <2>1. NewKey \in Keys /\ prefix[NewKey] = "none"
    BY <1>1 DEF Upload, NewKey, UnusedKeys
  <2> QED
    BY <1>1, <2>1, NoKeyAssumption DEF Upload
<1>2. ASSUME stored' \subseteq stored PROVE k \notin stored'
  BY <1>2
<1>3. UNCHANGED storageVars => stored' \subseteq stored
  BY DEF storageVars
<1>4. \A x : DeleteObject(x) \/ ExpireObject(x) => stored' \subseteq stored
  BY DEF DeleteObject, ExpireObject
<1>5. ASSUME NEW r \in Requests, Handler(r) PROVE k \notin stored'
  <2>1. CASE DeleteImage(r) \/ DeleteOriginal(r) \/ StorePhoto(r)
    BY <1>1, <1>2, <1>3, <1>4, <2>1 DEF DeleteImage, DeleteOriginal, StorePhoto
  <2> QED
    BY <1>2, <1>3, <1>5, <2>1
    DEF Handler, FindMissing, RetryFind, UpdateFind, DeleteFind, CheckOriginal, Save, Reply,
        DeleteRow
<1>6. ASSUME NEW c \in Calls, ApplyResult(c) PROVE k \notin stored'
  BY <1>2, <1>3, <1>4, <1>6 DEF ApplyResult, ApplyUpdate, ApplyLookup, ApplyFinish
<1>7. ASSUME NEW j \in Jobs, Consumer(j) PROVE k \notin stored'
  <2>1. CASE DiscardImage(j) \/ DeleteTempOriginal(j) \/ StoreGenerated(j)
    BY <1>1, <1>2, <1>3, <1>4, <2>1
    DEF DiscardImage, DeleteTempOriginal, StoreGenerated, DeleteQuietly
  <2> QED
    BY <1>2, <1>3, <1>7, <2>1
    DEF Consumer, CheckPending, SkipUnreadable, LoadOriginal, GenerationFails,
        GenerationSucceeds, OutcomeTimeout
<1>8. ASSUME Environment PROVE k \notin stored'
  BY <1>2, <1>3, <1>4, <1>8
  DEF Environment, BecomeStale, Redeliver, ConsumerCrash, WardrobeCrash, Expiry
<1>9. ASSUME Submit \/ Sweep \/ UNCHANGED vars PROVE k \notin stored'
  BY <1>2, <1>3, <1>9 DEF Submit, Sweep, vars
<1> QED
  BY <1>5, <1>6, <1>7, <1>8, <1>9 DEF Next

LEMMA CreatedGrows ==
  ASSUME [Next]_vars
  PROVE  created \subseteq created'
<1>1. \A r \in Requests : Save(r) => created \subseteq created'
  BY DEF Save
<1>2. \A r \in Requests : DeleteRow(r) => created' = created
  BY DEF DeleteRow
<1>3. \A c \in Calls : ApplyUpdate(c) => created' = created
  BY DEF ApplyUpdate
<1>4. Sweep \/ (\E i \in Items : BecomeStale(i)) => created' = created
  BY DEF Sweep, BecomeStale
<1> QED
  BY <1>1, <1>2, <1>3, <1>4, RowWriters

LEMMA FindsFreshNext ==
  ASSUME OneAtATime, Typed, FindsFresh, [Next]_vars
  PROVE  FindsFresh'
<1> SUFFICES ASSUME NEW r \in Requests, req'[r].pc = "find" PROVE req'[r].entity = NewEntity
  BY DEF FindsFresh
<1>1. CASE req'[r] = req[r]
  BY <1>1 DEF FindsFresh
<1>2. CASE Submit
  <2>1. PICK s \in Requests, op \in {"create", "update", "retry", "delete"},
            photo \in {"none", "plain", "generate"}, i \in created \cup {NoItem} :
           /\ req'[s] = Message(op, photo, i)
           /\ \A x \in Requests : x # s => req'[x] = req[x]
    BY <1>2, SubmitFields
  <2> QED
    BY <1>1, <2>1, MessageFields
<1>3. CASE Handler(r)
  <2>1. ~ Acked(r)
    BY AckedFields, BlankFields
  <2>2. \A pc : Goto(r, pc) => pc = "find"
    BY GotoFields
  <2>3. \A pc : Load(r, pc) => pc = "find"
    BY LoadFields
  <2>4. ~ StorePhoto(r) \/ Unacked(r)
    BY StoreFields
  <2>5. ~ CheckOriginal(r)
    BY <2>1, CheckFields
  <2>6. ~ RetryFind(r) /\ ~ UpdateFind(r) /\ ~ DeleteFind(r)
    <3>1. UpdateFind(r) => \E pc : pc # "find" /\ Load(r, pc)
      BY DEF UpdateFind, PhotoStep
    <3>2. DeleteFind(r) => \E pc : pc # "find" /\ Load(r, pc)
      BY DEF DeleteFind, DropOriginal
    <3>3. RetryFind(r) => Acked(r) \/ Load(r, "exists")
      BY DEF RetryFind
    <3> QED
      BY <2>1, <2>3, <3>1, <3>2, <3>3
  <2>7. DeleteImage(r) => \E pc : pc # "find" /\ Goto(r, pc)
    BY DEF DeleteImage, Unacked, DropOriginal
  <2> QED
    BY <1>3, <2>1, <2>2, <2>4, <2>5, <2>6, <2>7
    DEF Handler, FindMissing, DeleteOriginal, Save, Reply, DeleteRow, Unacked
<1> QED
  BY <1>1, <1>2, <1>3, ReqWriters, OneMoves

LEMMA JobOriginalsNext ==
  ASSUME OneAtATime, Ground, Tidy, JobOriginals, [Next]_vars
  PROVE  JobOriginals'
<1> SUFFICES ASSUME NEW x \in Jobs, NEW i \in Items, job'[x].item = i
             PROVE  i \in created' /\ row'[i].temp \in {job'[x].temp, NoKey}
  <2>1. Typed' /\ \A j \in Jobs : job'[j].item \in Items \cup {NoItem}
    BY TypedNext DEF Ground, Typed, JobsTyped, JobRec
  <2> QED
    BY <2>1 DEF JobOriginals
<1>1. Typed /\ RowsConsistent /\ i # NoItem
  BY PipelineAssumption DEF Ground, Agree
<1>2. ASSUME NEW j \in Jobs, job[j].item = i, job'[x].temp = job[j].temp
      PROVE  i \in created' /\ row'[i].temp \in {job'[x].temp, NoKey}
  <2>1. i \in created /\ row[i].temp \in {job[j].temp, NoKey}
    BY <1>1, <1>2 DEF JobOriginals
  <2>2. CASE row'[i].temp \in {row[i].temp, NoKey}
    BY <1>2, <2>1, <2>2, CreatedGrows
  <2>3. ASSUME NEW r \in Requests, Save(r), row'[i].temp # row[i].temp PROVE FALSE
    <3>1. PICK l \in Items :
            /\ req[r].op = "create" => l \notin created
            /\ req[r].op # "create" => l = req[r].item
            /\ row'[l] = req[r].entity /\ \A m \in Items : m # l => row'[m] = row[m]
            /\ req[r].pc = "save"
      BY <1>1, <2>3, SaveFields
    <3>2. l = i /\ req[r].op # "create" /\ req[r].item = i
      BY <2>1, <2>3, <3>1
    <3>3. Fits(r) /\ Writing(r) /\ GoesThrough(req[r]) /\ req[r] \in Req
      BY <1>1, <3>1 DEF Tidy, Single, AllFit, OnTheWay, Typed, ReqsTyped, Writing, InProgress
    <3>4. req[r].op # "update"
      BY <1>2, <3>2, <3>3 DEF Tidy, Single, UpdatesQuiet, Quiet
    <3>5. req[r].op = "retry"
      BY <3>1, <3>2, <3>3, <3>4 DEF GoesThrough, Req
    <3> QED
      BY <2>3, <3>1, <3>2, <3>3, <3>5 DEF Fits, RetryFits
  <2>4. CASE \A r \in Requests : ~ Save(r)
    <3>1. PICK k : k = row'[i].temp
      OBVIOUS
    <3>2. k \in Keys \cup {NoKey}
      BY <1>1, <3>1, TypedNext DEF Typed, RowsTyped, Row
    <3> QED
      BY <1>1, <2>2, <2>4, <3>1, <3>2, RowTempFrom
  <2> QED
    BY <2>2, <2>3, <2>4
<1>3. ASSUME NEW r \in Requests, NEW l \in Items, Save(r), job'[x].item = l,
             row' = [row EXCEPT ![l] = req[r].entity], job'[x].temp = req[r].entity.temp,
             req[r].op # "create" => l = req[r].item
      PROVE  i \in created' /\ row'[i].temp \in {job'[x].temp, NoKey}
  <2>1. row'[i].temp = job'[x].temp
    BY <1>1, <1>3 DEF Typed, RowsTyped
  <2>2. i \in created'
    <3>1. PICK m \in Items : row'[m] = req[r].entity /\ created' = created \cup {m}
                             /\ \A n \in Items : n # m => row'[n] = row[n]
      BY <1>1, <1>3, SaveFields
    <3>2. CASE m = i
      BY <3>1, <3>2
    <3>3. CASE m # i
      <4>1. row'[i] = row[i] /\ row'[i] = req[r].entity
        BY <1>1, <1>3, <3>1, <3>3 DEF Typed, RowsTyped
      <4>2. Fits(r) /\ Writing(r)
        BY <1>3 DEF Save, Tidy, Single, AllFit, Writing, InProgress
      <4>3. CASE req[r].op = "create"
        BY <3>1, <4>1, <4>2, <4>3 DEF Fits, CreateFits, Ground, RowsCreated
      <4>4. CASE req[r].op # "create"
        BY <1>1, <1>3, <3>1, <4>2, <4>4 DEF Fits
      <4> QED
        BY <4>3, <4>4
    <3> QED
      BY <3>2, <3>3
  <2> QED
    BY <2>1, <2>2
<1>4. IdleJob.item = NoItem
  BY DEF IdleJob
<1>5. StoreGenerated(x) => job'[x].item = job[x].item /\ job'[x].temp = job[x].temp
  BY DEF StoreGenerated, Ground, Typed, JobsTyped, JobRec
<1> QED
  BY <1>1, <1>2, <1>3, <1>4, <1>5, JobsFollow

LEMMA CallsHeardNext ==
  ASSUME OneAtATime, Typed, CallsHeard, [Next]_vars
  PROVE  CallsHeard'
<1> SUFFICES ASSUME faults' = {}, NEW c \in Calls, call'[c].pc # "none"
             PROVE  call'[c].from # NoJob
  BY DEF CallsHeard
<1>1. call \in [Calls -> CallRec] /\ \A d \in Calls : call[d] \in CallRec
  BY DEF Typed, CallsTyped
<1>2. \A d \in Calls : call[d].pc # "none" => call[d].from # NoJob
  BY FaultsGrow DEF CallsHeard
<1>3. call'[c] = call[c] => call'[c].from # NoJob
  BY <1>2
<1>4. NoCall.pc = "none"
  BY DEF NoCall
<1>5. ASSUME NEW d \in Calls, ApplyUpdate(d) PROVE call'[c].from # NoJob
  BY <1>2, <1>3, <1>5, UpdateFields
<1>6. ASSUME NEW d \in Calls, ApplyLookup(d) \/ ApplyFinish(d) PROVE call'[c] = call[c]
  BY <1>1, <1>4, <1>6, FaultShows DEF ApplyLookup, ApplyFinish
<1>7. ASSUME NEW j \in Jobs, NEW status, NEW img, SendResult(j, status, img)
      PROVE  call'[c].from # NoJob
  <2>1. j # NoJob
    BY PipelineAssumption
  <2> QED
    BY <1>3, <1>7, <2>1, SendFields
<1>8. ASSUME NEW j \in Jobs, Consumer(j) PROVE call'[c].from # NoJob
  BY <1>3, <1>7, <1>8, FaultShows
  DEF Consumer, CheckPending, SkipUnreadable, LoadOriginal, GenerationFails, StoreGenerated,
      GenerationSucceeds, OutcomeTimeout, DiscardImage, DeleteTempOriginal
<1>9. ASSUME Environment PROVE UNCHANGED call
  BY <1>9, FaultShows DEF Environment, BecomeStale, Redeliver, Expiry, ConsumerCrash, WardrobeCrash
<1>10. ASSUME \/ Submit \/ Sweep \/ UNCHANGED vars
              \/ \E r \in Requests : Handler(r)
       PROVE  UNCHANGED call
  BY <1>10
  DEF Submit, Sweep, vars, wardrobeVars, Handler, FindMissing, RetryFind,
      UpdateFind, DeleteFind, CheckOriginal, DeleteImage, StorePhoto,
      DeleteOriginal, Save, Reply, DeleteRow
<1> QED
  BY <1>3, <1>5, <1>6, <1>8, <1>9, <1>10 DEF Next, ApplyResult

(* What a delete or an update has deleted stays deleted. *)
LEMMA NamesStayGone ==
  ASSUME Ground, Tidy, [Next]_vars
  PROVE  /\ \A r \in Requests : req[r].old \notin stored => req[r].old \notin stored'
         /\ \A r \in Requests :
              req[r].entity.img \notin stored => req[r].entity.img \notin stored'
         /\ \A i \in Items : row[i].img \notin stored => row[i].img \notin stored'
<1>1. Typed
  BY DEF Ground
<1>2. ASSUME NEW r \in Requests, req[r].old \notin stored PROVE req[r].old \notin stored'
  <2>1. PICK k \in Keys \cup {NoKey} : k = req[r].old
    BY <1>1 DEF Typed, ReqsTyped, Req
  <2>2. k # NoKey => prefix[k] = "tmp"
    BY <2>1 DEF Tidy, Leavings, OldPlaced
  <2> QED
    BY <1>1, <1>2, <2>1, <2>2, NotRestored
<1>3. ASSUME NEW r \in Requests, req[r].entity.img \notin stored
      PROVE  req[r].entity.img \notin stored'
  <2>1. PICK k \in Keys \cup {NoKey} : k = req[r].entity.img
    BY <1>1 DEF Typed, ReqsTyped, Req, Row
  <2>2. k # NoKey => prefix[k] = "user"
    BY <2>1 DEF Ground, Placement, ReqsPlaced, Placed
  <2> QED
    BY <1>1, <1>3, <2>1, <2>2, NotRestored
<1>4. ASSUME NEW i \in Items, row[i].img \notin stored PROVE row[i].img \notin stored'
  <2>1. PICK k \in Keys \cup {NoKey} : k = row[i].img
    BY <1>1 DEF Typed, RowsTyped, Row
  <2>2. k # NoKey => prefix[k] = "user"
    BY <2>1 DEF Ground, Placement, RowsPlaced, Placed
  <2> QED
    BY <1>1, <1>4, <2>1, <2>2, NotRestored
<1> QED
  BY <1>2, <1>3, <1>4

LEMMA NothingStored ==
  ASSUME Typed
  PROVE  NoKey \notin stored
  BY NoKeyAssumption DEF Typed, StorageTypeOK

LEMMA DeletesFitNext ==
  ASSUME OneAtATime, Ground, Tidy, DeletesFit, [Next]_vars
  PROVE  DeletesFit'
<1> SUFFICES ASSUME NEW r \in Requests, Holds(r)', req'[r].op = "delete"
             PROVE  /\ row'[req'[r].item].temp \in {req'[r].old, NoKey}
                    /\ req'[r].pc = "delRow" /\ faults' = {} => req'[r].old \notin stored'
                    /\ req'[r].pc \in {"delTemp", "delRow"} => req'[r].entity.img \notin stored'
  BY DEF DeletesFit
<1>1. Typed /\ RowsConsistent /\ GoodReq(req[r]) /\ req[r] \in Req /\ GoesThrough(req[r])
  BY DEF Ground, Agree, Typed, ReqsTyped, Tidy, Single, OnTheWay
<1>2. req'[r].pc \notin {"unsent", "unacked", "done", "reply", "find"}
  BY DEF Holds, Writing, InProgress
<1>3. faults' = {} => faults = {}
  BY FaultsGrow
<1>4. CASE req'[r] = req[r]
  <2>1. Holds(r) /\ req[r].op = "delete"
    BY <1>2, <1>4 DEF Holds, Writing, InProgress
  <2>2. PICK i \in Items : i = req[r].item
    BY <1>1, <2>1 DEF GoodReq, Holds, Writing, InProgress
  <2>3. PICK k : k = row'[i].temp
    OBVIOUS
  <2>4. k \in Keys \cup {NoKey}
    BY <1>1, <2>3, TypedNext DEF Typed, RowsTyped, Row
  <2>5. \A s \in Requests : ~ Save(s)
    <3> SUFFICES ASSUME NEW s \in Requests, Save(s) PROVE FALSE
      OBVIOUS
    <3>1. s = r
      BY <2>1 DEF Save, Tidy, Single, Alone, Holds, Writing, InProgress
    <3> QED
      BY <1>1, <1>4, <3>1, SaveFields
  <2>6. row'[i].temp \in {row[i].temp, NoKey}
    BY <1>1, <2>3, <2>4, <2>5, RowTempFrom
  <2> QED
    BY <1>3, <1>4, <2>1, <2>2, <2>6, NamesStayGone DEF DeletesFit
<1>5. CASE Submit
  <2>1. PICK s \in Requests, op \in {"create", "update", "retry", "delete"},
            photo \in {"none", "plain", "generate"}, i \in created \cup {NoItem} :
           /\ req'[s] = Message(op, photo, i)
           /\ \A x \in Requests : x # s => req'[x] = req[x]
    BY <1>1, <1>5, SubmitFields
  <2> QED
    BY <1>2, <1>4, <2>1, MessageFields
<1>6. CASE Handler(r)
  <2>1. ~ Acked(r)
    BY <1>1, <1>2, AckedFields, BlankFields
  <2>2. ~ Unacked(r) /\ ~ Save(r)
    BY <1>1, <1>2, GotoFields DEF Unacked, Save
  <2>3. Same(req[r], req'[r])
    <3>1. \/ \E pc : Goto(r, pc) \/ Load(r, pc)
          \/ StorePhoto(r) /\ ~ Unacked(r)
          \/ CheckOriginal(r)
      BY <1>6, <2>1
      DEF Handler, FindMissing, RetryFind, UpdateFind, DeleteFind, DeleteImage, StorePhoto,
          DeleteOriginal, Save, Reply, DeleteRow, Unacked
    <3> QED
      BY <1>1, <2>1, <3>1, GotoFields, LoadFields, StoreFields, CheckFields
  <2>4. req[r].op = "delete" /\ req[r].pc \in {"find", "delImg", "delTemp", "delRow"}
    BY <1>1, <1>6, <2>3, OneMoves DEF Same, GoesThrough
  <2>5. PICK i \in Items : i = req[r].item
    BY <1>1, <2>4 DEF GoodReq
  <2>6. CASE req[r].pc = "find"
    <3>1. DeleteFind(r)
      BY <1>6, <2>2, <2>4, <2>6
      DEF Handler, FindMissing, RetryFind, UpdateFind, DeleteFind, CheckOriginal, DeleteImage,
          StorePhoto, DeleteOriginal, Save, Reply, DeleteRow
    <3>2. PICK w : w = row[i]
      OBVIOUS
    <3>3. PICK pc : /\ pc = IF w.img # NoKey THEN "delImg" ELSE DropOriginal(w.temp)
                    /\ Load(r, pc) /\ UNCHANGED <<row, stored>>
      BY <2>5, <3>1, <3>2 DEF DeleteFind, storageVars
    <3>4. req'[r].pc = pc /\ req'[r].entity = w /\ req'[r].old = w.temp /\ req'[r].item = i
      BY <1>1, <2>5, <3>2, <3>3, LoadFields DEF Same
    <3> QED
      BY <1>1, <3>2, <3>3, <3>4, NothingStored DEF DropOriginal
  <2>7. CASE req[r].pc = "delImg"
    <3>1. PICK k : k = req[r].entity.img
      OBVIOUS
    <3>2. /\ DeleteObject(k) /\ Goto(r, DropOriginal(req[r].old))
          /\ UNCHANGED row
      BY <1>6, <2>2, <2>4, <2>7, <3>1, HandlerAt DEF DeleteImage
    <3>3. /\ req'[r].pc = DropOriginal(req[r].old) /\ req'[r].entity = req[r].entity
          /\ req'[r].old = req[r].old /\ req'[r].item = i
      BY <1>1, <2>5, <3>2, GotoFields DEF Same
    <3>4. row[i].temp \in {req[r].old, NoKey}
      BY <2>4, <2>5, <2>7 DEF DeletesFit, Holds, Writing, InProgress
    <3>5. k \notin stored' /\ NoKey \notin stored'
      BY <1>1, <3>2, NothingStored DEF DeleteObject
    <3> QED
      BY <3>1, <3>2, <3>3, <3>4, <3>5 DEF DropOriginal
  <2>8. CASE req[r].pc = "delTemp"
    <3>1. PICK k : k = req[r].old
      OBVIOUS
    <3>2. /\ DeleteObject(k) \/ Fault("storage")
          /\ Goto(r, "delRow") /\ UNCHANGED row
      BY <1>6, <2>4, <2>8, <3>1, HandlerAt DEF DeleteOriginal
    <3>3. /\ req'[r].pc = "delRow" /\ req'[r].entity = req[r].entity
          /\ req'[r].old = k /\ req'[r].item = i
      BY <1>1, <2>5, <3>1, <3>2, GotoFields DEF Same
    <3>4. row[i].temp \in {k, NoKey} /\ req[r].entity.img \notin stored
      BY <2>4, <2>5, <2>8, <3>1 DEF DeletesFit, Holds, Writing, InProgress
    <3>5. faults' = {} => k \notin stored'
      BY <3>2, FaultShows DEF DeleteObject
    <3>6. req[r].entity.img \notin stored'
      BY <3>4, NamesStayGone
    <3> QED
      BY <3>2, <3>3, <3>4, <3>5, <3>6
  <2>9. CASE req[r].pc = "delRow"
    BY <1>6, <2>1, <2>9, HandlerAt DEF DeleteRow
  <2> QED
    BY <2>4, <2>6, <2>7, <2>8, <2>9
<1> QED
  BY <1>1, <1>4, <1>5, <1>6, ReqWriters, OneMoves

LEMMA UpdatesTidyNext ==
  ASSUME OneAtATime, Ground, Tidy, UpdatesTidy, [Next]_vars
  PROVE  UpdatesTidy'
<1> SUFFICES ASSUME NEW r \in Requests, Writing(r)', req'[r].op = "update"
             PROVE  /\ req'[r].pc = "save" /\ req'[r].photo # "none" /\ faults' = {} =>
                         req'[r].old \notin stored'
                    /\ /\ req'[r].pc \in {"storeImg", "delTemp", "save"}
                       /\ req'[r].photo = "plain"
                       => row'[req'[r].item].img \notin stored'
  BY DEF UpdatesTidy
<1>1. Typed /\ RowsConsistent /\ GoodReq(req[r]) /\ req[r] \in Req /\ GoesThrough(req[r])
  BY DEF Ground, Agree, Typed, ReqsTyped, Tidy, Single, OnTheWay
<1>2. req'[r].pc \notin {"unsent", "unacked", "done", "reply"}
  BY DEF Writing, InProgress
<1>3. faults' = {} => faults = {}
  BY FaultsGrow
<1>4. CASE req'[r] = req[r]
  <2>1. Writing(r) /\ req[r].op = "update"
    BY <1>2, <1>4 DEF Writing, InProgress
  <2>2. PICK i \in Items : i = req[r].item
    BY <1>1, <2>1 DEF GoodReq, Writing, InProgress
  <2>3. Quiet(i)
    BY <2>1, <2>2 DEF Tidy, Single, UpdatesQuiet
  <2>4. row'[i].img = row[i].img
    <3>1. CASE UNCHANGED req
      BY <1>1, <2>3, <3>1, RowMoves DEF Quiet
    <3>2. CASE Submit
      BY <3>2 DEF Submit
    <3>3. ASSUME NEW s \in Requests, Handler(s) PROVE row'[i].img = row[i].img
      <4>1. s = r
        BY <1>1, <2>1, <3>3, OneMoves DEF Tidy, Single, Alone, Writing
      <4>2. ~ Save(r) /\ ~ DeleteRow(r)
        BY <1>1, <1>4, SaveFields, DeleteRowFields
      <4> QED
        BY <3>3, <4>1, <4>2, RowsOfHandler
    <3> QED
      BY <3>1, <3>2, <3>3, ReqWriters
  <2> QED
    BY <1>3, <1>4, <2>1, <2>2, <2>4, NamesStayGone DEF UpdatesTidy
<1>5. CASE Submit
  <2>1. PICK s \in Requests, op \in {"create", "update", "retry", "delete"},
            photo \in {"none", "plain", "generate"}, i \in created \cup {NoItem} :
           /\ req'[s] = Message(op, photo, i)
           /\ \A x \in Requests : x # s => req'[x] = req[x]
    BY <1>1, <1>5, SubmitFields
  <2> QED
    BY <1>4, <2>1, MessageFields
<1>6. CASE Handler(r)
  <2>1. ~ Acked(r)
    BY <1>1, <1>2, AckedFields, BlankFields
  <2>2. ~ Unacked(r) /\ ~ Save(r)
    BY <1>1, <1>2, GotoFields DEF Unacked, Save
  <2>3. Same(req[r], req'[r])
    <3>1. \/ \E pc : Goto(r, pc) \/ Load(r, pc)
          \/ StorePhoto(r) /\ ~ Unacked(r)
          \/ CheckOriginal(r)
      BY <1>6, <2>1
      DEF Handler, FindMissing, RetryFind, UpdateFind, DeleteFind, DeleteImage, StorePhoto,
          DeleteOriginal, Save, Reply, DeleteRow, Unacked
    <3> QED
      BY <1>1, <2>1, <3>1, GotoFields, LoadFields, StoreFields, CheckFields
  <2>4. req[r].op = "update"
        /\ req[r].pc \in {"find", "delImg", "storeImg", "storeTmp", "delTemp"}
    <3>1. req[r].op = "update" /\ req[r].pc # "save" /\ req[r].pc # "reply"
      BY <1>6, <2>1, <2>2, <2>3, HandlerAt
      DEF Same, Handler, FindMissing, RetryFind, UpdateFind, DeleteFind, CheckOriginal,
          DeleteImage, StorePhoto, DeleteOriginal, Reply, DeleteRow, Save
    <3> QED
      BY <1>1, <1>6, <3>1, OneMoves DEF GoesThrough
  <2>5. PICK i \in Items : i = req[r].item
    BY <1>1, <2>4 DEF GoodReq
  <2>6. Writing(r) /\ row' = row /\ req'[r].item = i /\ req'[r].photo = req[r].photo
    <3>1. ~ DeleteRow(r)
      BY <2>4 DEF DeleteRow
    <3> QED
      BY <1>6, <2>2, <2>3, <2>4, <2>5, <3>1, RowsOfHandler DEF Same, Writing, InProgress
  <2>7. CASE req[r].pc = "find"
    <3>1. UpdateFind(r)
      BY <1>6, <2>2, <2>4, <2>7
      DEF Handler, FindMissing, RetryFind, UpdateFind, DeleteFind, CheckOriginal, DeleteImage,
          StorePhoto, DeleteOriginal, Save, Reply, DeleteRow
    <3>2. PICK w : w = row[i]
      OBVIOUS
    <3>3. PICK pc : /\ pc = IF req[r].photo = "plain" /\ w.img # NoKey
                            THEN "delImg" ELSE PhotoStep(req[r].photo)
                    /\ Load(r, pc) /\ UNCHANGED stored
      BY <2>5, <3>1, <3>2 DEF UpdateFind, storageVars
    <3>4. req'[r].pc = pc
      BY <1>1, <3>3, LoadFields
    <3> QED
      BY <1>1, <2>6, <3>2, <3>3, <3>4, NothingStored DEF PhotoStep
  <2>8. CASE req[r].pc = "delImg"
    <3>1. PICK k : k = req[r].entity.img
      OBVIOUS
    <3>2. DeleteObject(k) /\ Goto(r, "storeImg")
      BY <1>6, <2>2, <2>4, <2>8, <3>1, HandlerAt DEF DeleteImage
    <3>3. req'[r].pc = "storeImg" /\ k \notin stored'
      BY <1>1, <3>2, GotoFields DEF DeleteObject
    <3>4. row[i].img = k
      BY <2>4, <2>5, <2>6, <2>8, <3>1 DEF Tidy, Single, AllFit, Fits, UpdateFits, AsRead
    <3> QED
      BY <2>6, <3>3, <3>4
  <2>9. CASE req[r].pc \in {"storeImg", "storeTmp"}
    <3>1. StorePhoto(r) /\ ~ Unacked(r)
      BY <1>6, <2>2, <2>9, HandlerAt
    <3>2. /\ req'[r].old = req[r].old
          /\ req'[r].pc = IF req[r].old # NoKey THEN "delTemp" ELSE "save"
      BY <1>1, <3>1, StoreFields
    <3>3. req'[r].pc = "save" => req'[r].old \notin stored'
      BY <1>1, <3>2, TypedNext, NoKeyAssumption DEF Typed, StorageTypeOK
    <3>4. req[r].photo = "plain" => row[i].img \notin stored
      BY <1>1, <2>4, <2>5, <2>6, <2>9 DEF UpdatesTidy, GoesThrough
    <3> QED
      BY <2>6, <3>2, <3>3, <3>4, NamesStayGone
  <2>10. CASE req[r].pc = "delTemp"
    <3>1. PICK k : k = req[r].old
      OBVIOUS
    <3>2. (DeleteObject(k) \/ Fault("storage")) /\ Goto(r, "save")
      BY <1>6, <2>4, <2>10, <3>1, HandlerAt DEF DeleteOriginal
    <3>3. req'[r].pc = "save" /\ req'[r].old = k
      BY <1>1, <3>1, <3>2, GotoFields
    <3>4. faults' = {} => k \notin stored'
      BY <3>2, FaultShows DEF DeleteObject
    <3>5. req[r].photo = "plain" => row[i].img \notin stored
      BY <2>4, <2>5, <2>6, <2>10 DEF UpdatesTidy
    <3> QED
      BY <2>6, <3>3, <3>4, <3>5, NamesStayGone
  <2> QED
    BY <2>4, <2>7, <2>8, <2>9, <2>10
<1> QED
  BY <1>1, <1>4, <1>5, <1>6, ReqWriters, OneMoves

LEMMA CarefulNext ==
  ASSUME OneAtATime, Ground, Tidy, Careful, [Next]_vars
  PROVE  Careful'
<1>1. Typed
  BY DEF Ground
<1> QED
  BY <1>1, JobOriginalsNext, CallsHeardNext, FindsFreshNext, DeletesFitNext, UpdatesTidyNext
  DEF Careful

LEMMA CarefulInit == Init => Careful
<1> SUFFICES ASSUME Init PROVE Careful
  OBVIOUS
<1>1. /\ \A r \in Requests : req[r] = Unsent
      /\ \A c \in Calls : call[c] = NoCall
      /\ \A j \in Jobs : job[j] = IdleJob
  BY DEF Init, WardrobeInit
<1>2. NoCall.pc = "none" /\ IdleJob.item = NoItem
  BY DEF NoCall, IdleJob
<1>3. JobOriginals /\ CallsHeard
  BY <1>1, <1>2 DEF JobOriginals, CallsHeard
<1> QED
  BY <1>1, <1>3, BlankFields
  DEF Careful, FindsFresh, DeletesFit, UpdatesTidy, Holds, Writing, InProgress

LEMMA JobStays ==
  ASSUME OneAtATime, Typed, [Next]_vars, NEW x \in Jobs,
         job[x].pc \in {"generated", "wait", "discard", "discardGone", "cleanup"}
  PROVE  \/ job'[x] = job[x]
         \/ GenerationSucceeds(x) \/ OutcomeTimeout(x) \/ DiscardImage(x)
         \/ DeleteTempOriginal(x)
         \/ \E c \in Calls : call[c].from = x /\ (ApplyLookup(c) \/ ApplyFinish(c))
         \/ ConsumerCrash
<1>1. job \in [Jobs -> JobRec]
  BY DEF Typed, JobsTyped
<1>2. ASSUME NEW m, job' = [job EXCEPT ![FreeJob] = m], FreeJobs # {} PROVE job'[x] = job[x]
  BY <1>1, <1>2, FreeJobType
<1>3. ASSUME NEW r \in Requests, Handler(r) PROVE job'[x] = job[x]
  <2>1. CASE UNCHANGED job
    BY <2>1
  <2>2. CASE \E i, k : Emit(i, k)
    BY <1>2, <2>2 DEF Emit
  <2> QED
    BY <1>3, <2>1, <2>2
    DEF Handler, FindMissing, RetryFind, UpdateFind, DeleteFind, CheckOriginal, DeleteImage,
        StorePhoto, DeleteOriginal, Save, Reply, DeleteRow
<1>4. ASSUME NEW c \in Calls, ApplyResult(c)
      PROVE  \/ job'[x] = job[x]
             \/ call[c].from = x /\ (ApplyLookup(c) \/ ApplyFinish(c))
  <2>1. ApplyUpdate(c) => job' = job
    BY DEF ApplyUpdate
  <2>2. ASSUME NEW outcome, Answer(c, outcome) PROVE job'[x] = job[x] \/ call[c].from = x
    BY <2>2, AnswerFields
  <2> QED
    BY <1>4, <2>1, <2>2 DEF ApplyResult, ApplyLookup, ApplyFinish
<1>5. ASSUME NEW j \in Jobs, Consumer(j), j # x PROVE job'[x] = job[x]
  BY <1>1, <1>5
  DEF Consumer, CheckPending, SkipUnreadable, LoadOriginal, GenerationFails, StoreGenerated,
      GenerationSucceeds, OutcomeTimeout, DiscardImage, DeleteTempOriginal, SendResult, JobGoto,
      AckJob
<1>6. ASSUME Consumer(x)
      PROVE  \/ GenerationSucceeds(x) \/ OutcomeTimeout(x) \/ DiscardImage(x)
             \/ DeleteTempOriginal(x)
  BY <1>6
  DEF Consumer, CheckPending, SkipUnreadable, LoadOriginal, GenerationFails, StoreGenerated
<1>7. ASSUME Environment PROVE job'[x] = job[x] \/ ConsumerCrash
  <2>1. \A j \in Jobs : Redeliver(j) => job'[x] = job[x]
    BY <1>2 DEF Redeliver
  <2> QED
    BY <1>7, <2>1 DEF Environment, BecomeStale, Expiry, WardrobeCrash
<1>8. ASSUME Submit \/ Sweep \/ UNCHANGED vars PROVE UNCHANGED job
  BY <1>8 DEF Submit, Sweep, vars, wardrobeVars
<1> QED
  BY <1>3, <1>4, <1>5, <1>6, <1>7, <1>8 DEF Next

LEMMA CallStays ==
  ASSUME OneAtATime, Typed, [Next]_vars, NEW c \in Calls, call[c].pc # "none"
  PROVE  \/ ApplyUpdate(c) \/ ApplyLookup(c) \/ ApplyFinish(c)
         \/ /\ call'[c].pc = call[c].pc /\ call'[c].status = call[c].status
            /\ call'[c].img = call[c].img /\ call'[c].prev = call[c].prev
            /\ call'[c].from = call[c].from \/ faults' # {}
<1>1. call \in [Calls -> CallRec] /\ \A d \in Calls : call[d] \in CallRec
  BY DEF Typed, CallsTyped
<1>2. ASSUME NEW d \in Calls, d # c, ApplyResult(d) PROVE call'[c] = call[c]
  BY <1>1, <1>2, UpdateFields DEF ApplyResult, ApplyLookup, ApplyFinish
<1>3. ASSUME NEW j \in Jobs, NEW status, NEW img, SendResult(j, status, img)
      PROVE  call'[c] = call[c]
  BY <1>3, SendFields
<1>4. ASSUME NEW j \in Jobs, Consumer(j)
      PROVE  /\ call'[c].pc = call[c].pc /\ call'[c].status = call[c].status
             /\ call'[c].img = call[c].img /\ call'[c].prev = call[c].prev
             /\ call'[c].from = call[c].from \/ faults' # {}
  <2>1. CASE OutcomeTimeout(j)
    BY <1>1, <2>1, FaultShows DEF OutcomeTimeout, CallRec
  <2> QED
    BY <1>3, <1>4, <2>1
    DEF Consumer, CheckPending, SkipUnreadable, LoadOriginal, GenerationFails, StoreGenerated,
        GenerationSucceeds, DiscardImage, DeleteTempOriginal
<1>5. ASSUME Environment
      PROVE  /\ call'[c].pc = call[c].pc /\ call'[c].status = call[c].status
             /\ call'[c].img = call[c].img /\ call'[c].prev = call[c].prev
             /\ call'[c].from = call[c].from \/ faults' # {}
  <2>1. ~ WardrobeCrash
    BY DEF OneAtATime, WardrobeCrash, Fault
  <2>2. CASE ConsumerCrash
    BY <1>1, <2>2, FaultShows DEF ConsumerCrash, CallRec
  <2> QED
    BY <1>5, <2>1, <2>2 DEF Environment, BecomeStale, Redeliver, Expiry
<1>6. ASSUME \/ Submit \/ Sweep \/ UNCHANGED vars
             \/ \E r \in Requests : Handler(r)
      PROVE  UNCHANGED call
  BY <1>6
  DEF Submit, Sweep, vars, wardrobeVars, Handler, FindMissing, RetryFind,
      UpdateFind, DeleteFind, CheckOriginal, DeleteImage, StorePhoto,
      DeleteOriginal, Save, Reply, DeleteRow
<1> QED
  BY <1>2, <1>4, <1>5, <1>6 DEF Next, ApplyResult

(* An object under tmp/ is as old as the step, or a client's photo. *)
LEMMA OriginalFrom ==
  ASSUME Typed, [Next]_vars, NEW k \in Keys, k \in stored', prefix'[k] = "tmp"
  PROVE  \/ k \in stored /\ prefix[k] = "tmp"
         \/ \E r \in Requests : /\ StorePhoto(r) /\ ~ Unacked(r) /\ req[r].pc = "storeTmp"
                                /\ k = NewKey
<1>1. prefix \in [Keys -> {"none", "tmp", "user"}] /\ stored \subseteq Keys
  BY DEF Typed, StorageTypeOK
<1>2. CASE UNCHANGED prefix /\ stored' \subseteq stored
  BY <1>2
<1>3. UNCHANGED storageVars => UNCHANGED prefix /\ stored' \subseteq stored
  BY DEF storageVars
<1>4. \A x : DeleteObject(x) \/ ExpireObject(x) => UNCHANGED prefix /\ stored' \subseteq stored
  BY DEF DeleteObject, ExpireObject
<1>5. ASSUME NEW p, Upload(p)
      PROVE  (k \in stored /\ prefix[k] = "tmp") \/ (p = "tmp" /\ k = NewKey)
  BY <1>1, <1>5 DEF Upload
<1>6. ASSUME NEW r \in Requests, Handler(r)
      PROVE  \/ UNCHANGED prefix /\ stored' \subseteq stored
             \/ k \in stored /\ prefix[k] = "tmp"
             \/ StorePhoto(r) /\ ~ Unacked(r) /\ req[r].pc = "storeTmp" /\ k = NewKey
  <2>1. CASE StorePhoto(r)
    <3>1. CASE UNCHANGED storageVars
      BY <1>3, <3>1
    <3>2. CASE Upload(PhotoPrefix(req[r].pc)) /\ ~ UNCHANGED storageVars
      <4>1. (k \in stored /\ prefix[k] = "tmp") \/ (PhotoPrefix(req[r].pc) = "tmp" /\ k = NewKey)
        BY <1>5, <3>2
      <4>2. PhotoPrefix(req[r].pc) = "tmp" => req[r].pc = "storeTmp"
        BY DEF PhotoPrefix
      <4>3. ~ Unacked(r)
        <5>1. req'[r].pc \in {"delTemp", "save"}
          BY <2>1, <3>2 DEF StorePhoto, Typed, ReqsTyped, Req
        <5> QED
          BY <5>1, GotoFields DEF Unacked
      <4> QED
        BY <2>1, <4>1, <4>2, <4>3
    <3> QED
      BY <2>1, <3>1, <3>2 DEF StorePhoto
  <2>2. CASE DeleteImage(r) \/ DeleteOriginal(r)
    BY <1>3, <1>4, <2>2 DEF DeleteImage, DeleteOriginal
  <2> QED
    BY <1>3, <1>6, <2>1, <2>2
    DEF Handler, FindMissing, RetryFind, UpdateFind, DeleteFind, CheckOriginal, Save, Reply,
        DeleteRow
<1>7. ASSUME NEW c \in Calls, ApplyResult(c) PROVE UNCHANGED prefix /\ stored' \subseteq stored
  BY <1>3, <1>4, <1>7 DEF ApplyResult, ApplyUpdate, ApplyLookup, ApplyFinish
<1>8. ASSUME NEW j \in Jobs, Consumer(j)
      PROVE  \/ UNCHANGED prefix /\ stored' \subseteq stored
             \/ k \in stored /\ prefix[k] = "tmp"
  <2>1. CASE StoreGenerated(j)
    BY <1>5, <2>1 DEF StoreGenerated
  <2> QED
    BY <1>3, <1>4, <1>8, <2>1
    DEF Consumer, CheckPending, SkipUnreadable, LoadOriginal, GenerationFails,
        GenerationSucceeds, OutcomeTimeout, DiscardImage, DeleteTempOriginal, DeleteQuietly
<1>9. ASSUME Environment PROVE UNCHANGED prefix /\ stored' \subseteq stored
  BY <1>3, <1>4, <1>9
  DEF Environment, BecomeStale, Redeliver, ConsumerCrash, WardrobeCrash, Expiry
<1>10. ASSUME Submit \/ Sweep \/ UNCHANGED vars
       PROVE  UNCHANGED prefix /\ stored' \subseteq stored
  BY <1>3, <1>10 DEF Submit, Sweep, vars
<1> QED
  BY <1>2, <1>6, <1>7, <1>8, <1>9, <1>10 DEF Next

LEMMA RowTempGoes ==
  ASSUME OneAtATime, Ground, Tidy, Careful, [Next]_vars, faults' = {}, NEW i \in Items,
         NEW k \in stored, row[i].temp = k, row'[i].temp # k
  PROVE  Doomed(k)'
<1>1. Typed /\ RowsConsistent /\ RowsCreated /\ k # NoKey /\ faults = {}
  BY NoKeyAssumption, FaultsGrow DEF Ground, Agree, Typed, StorageTypeOK
<1>2. ~ Submit
  BY DEF Submit
<1>3. ASSUME NEW r \in Requests, Save(r) PROVE FALSE
  <2>1. PICK x \in Items :
          /\ req[r].op = "create" => x \notin created
          /\ req[r].op # "create" => x = req[r].item
          /\ row'[x] = req[r].entity /\ \A l \in Items : l # x => row'[l] = row[l]
          /\ req[r].pc = "save"
    BY <1>1, <1>3, SaveFields
  <2>2. x = i
    BY <2>1
  <2>3. req[r].op # "create"
    BY <1>1, <2>1, <2>2 DEF RowsCreated, RowsConsistent, Consistent
  <2>4. Fits(r) /\ Writing(r) /\ GoesThrough(req[r]) /\ req[r] \in Req
    BY <1>1, <2>1 DEF Tidy, Single, AllFit, OnTheWay, Typed, ReqsTyped, Writing, InProgress
  <2>5. req[r].op \in {"update", "retry"}
    BY <2>1, <2>3, <2>4 DEF GoesThrough, Req
  <2>6. CASE req[r].op = "update" /\ req[r].photo # "none"
    <3>1. req[r].old = k
      BY <2>1, <2>2, <2>4, <2>6 DEF Fits, UpdateFits
    <3>2. req[r].old \notin stored
      BY <1>1, <2>1, <2>4, <2>6 DEF Careful, UpdatesTidy
    <3> QED
      BY <3>1, <3>2
  <2>7. CASE req[r].op = "retry" \/ req[r].photo = "none"
    BY <2>1, <2>2, <2>4, <2>5, <2>7 DEF Fits, RetryFits, UpdateFits, AsRead
  <2> QED
    BY <2>5, <2>6, <2>7
<1>4. ASSUME NEW r \in Requests, DeleteRow(r) PROVE FALSE
  <2>1. /\ \A l \in Items : l # req[r].item => row'[l] = row[l]
        /\ req[r].pc = "delRow"
    BY <1>1, <1>4, DeleteRowFields
  <2>2. i = req[r].item
    BY <2>1
  <2>3. Holds(r) /\ req[r].op = "delete"
    BY <1>1, <2>1
    DEF Holds, Writing, InProgress, Tidy, Single, OnTheWay, GoesThrough, Typed, ReqsTyped, Req
  <2> QED
    BY <1>1, <2>1, <2>2, <2>3 DEF Careful, DeletesFit
<1>5. UNCHANGED req
  BY <1>2, <1>3, <1>4, ReqWriters, RowsOfHandler
<1>6. PICK c \in Calls :
        /\ ApplyUpdate(c) /\ call[c].item = i /\ row[i].status = "pending"
        /\ row'[i] = WithResult(row[i], call[c].status, call[c].img)
  BY <1>1, <1>5, RowMoves
<1>7. call[c].status = "ready"
  BY <1>6 DEF WithResult
<1>8. /\ call'[c].pc = "applied" /\ call'[c].status = "ready"
      /\ call'[c].from = call[c].from /\ call[c].pc = "sent"
  BY <1>1, <1>6, <1>7, UpdateFields
<1>9. call[c].from # NoJob
  BY <1>1, <1>8 DEF Careful, CallsHeard
<1>10. PICK j \in Jobs : j = call[c].from
  BY <1>1, <1>9 DEF Typed, CallsTyped, CallRec
<1>11. job[j].item = i
  BY <1>6, <1>9, <1>10 DEF Ground, RepliesCarried
<1>12. job[j].temp = k
  BY <1>1, <1>11, PipelineAssumption DEF Careful, JobOriginals
<1>13. job' = job
  BY <1>6 DEF ApplyUpdate
<1> QED
  BY <1>8, <1>9, <1>10, <1>12, <1>13 DEF Doomed

LEMMA ClientKeeps ==
  ASSUME OneAtATime, Ground, Tidy, [Next]_vars, faults' = {}, NEW r \in Requests,
         NEW k \in Keys, HasUploaded(req[r], "generate"), req[r].entity.temp = k
  PROVE  Awaited(k)'
<1>1. /\ Typed /\ GoodReq(req[r]) /\ GoesThrough(req[r]) /\ req[r] \in Req
      /\ k # NoKey /\ faults = {}
  BY NoKeyAssumption, FaultsGrow DEF Ground, Typed, ReqsTyped, Tidy, Single, OnTheWay
<1>2. CASE req'[r] = req[r]
  BY <1>2 DEF Awaited
<1>3. CASE Handler(r)
  <2>1. req[r].op = "create" \/ (req[r].op = "update" /\ req[r].photo = "generate")
    BY <1>1 DEF HasUploaded, GoesThrough, Req
  <2>2. CASE req[r].pc \in {"storeImg", "storeTmp"}
    <3>1. Fits(r) /\ Writing(r)
      BY <2>2 DEF Tidy, Single, AllFit, Writing, InProgress
    <3>2. req[r].op = "create"
      BY <2>1, <2>2 DEF HasUploaded
    <3>3. req[r].entity.temp = NoKey
      BY <2>2, <3>1, <3>2 DEF Fits, CreateFits, NewEntity, NoRow
    <3> QED
      BY <1>1, <3>3
  <2>3. CASE req[r].pc = "delTemp"
    <3>1. req[r].op = "update"
      BY <1>1, <2>1, <2>3 DEF GoodReq
    <3>2. Goto(r, "save")
      BY <1>3, <2>3, <3>1, HandlerAt DEF DeleteOriginal
    <3>3. HasUploaded(req'[r], "generate") /\ req'[r].entity.temp = k
      BY <1>1, <2>1, <3>1, <3>2, GotoFields DEF HasUploaded, Same
    <3> QED
      BY <3>3 DEF Awaited
  <2>4. CASE req[r].pc = "save"
    <3>1. PICK x \in Items : row'[x] = req[r].entity
      BY <1>1, <1>3, <2>4, HandlerAt, SaveFields
    <3> QED
      BY <3>1 DEF Awaited
  <2> QED
    BY <1>1, <2>1, <2>2, <2>3, <2>4 DEF HasUploaded, GoesThrough
<1> QED
  BY <1>1, <1>2, <1>3, RequestMoves DEF HasUploaded

(* What follows the answer to an applied or missed result. *)
LEMMA Answered ==
  ASSUME Typed, NEW c \in Calls, NEW outcome \in {"applied", "not_found", "not_pending"},
         Answer(c, outcome), call[c].status = "ready", NEW j \in Jobs, call[c].from = j
  PROVE  /\ job'[j].temp = job[j].temp /\ job'[j].img = job[j].img
         /\ job'[j].pc = IF outcome = "applied" THEN "cleanup"
                         ELSE IF outcome = "not_pending" THEN "discard" ELSE "discardGone"
<1>1. PICK next : /\ next = IF outcome = "applied" THEN "cleanup"
                            ELSE IF outcome = "not_pending" THEN "discard" ELSE "discardGone"
                  /\ next = AfterOutcome("ready", outcome)
  BY DEF AfterOutcome
<1>2. next # "idle"
  BY <1>1
<1>3. job' = [job EXCEPT ![j] = [@ EXCEPT !.pc = next]]
  BY <1>1, <1>2, PipelineAssumption DEF Answer
<1> QED
  BY <1>1, <1>3 DEF Typed, JobsTyped, JobRec

LEMMA DoomedKept ==
  ASSUME OneAtATime, Typed, [Next]_vars, faults' = {}, NEW k \in stored, k \in stored',
         Doomed(k)
  PROVE  Doomed(k)'
<1>1. faults = {} /\ job \in [Jobs -> JobRec] /\ \A j \in Jobs : job[j] \in JobRec
  BY FaultsGrow DEF Typed, JobsTyped
<1>2. ~ ConsumerCrash /\ \A j \in Jobs : ~ OutcomeTimeout(j)
  BY FaultShows DEF ConsumerCrash, OutcomeTimeout
<1>3. ASSUME NEW j \in Jobs, job[j].pc \in {"cleanup", "discardGone"}, job[j].temp = k
      PROVE  Doomed(k)'
  <2>1. CASE job'[j] = job[j]
    BY <1>3, <2>1 DEF Doomed
  <2>2. CASE DiscardImage(j)
    <3>1. job[j].pc = "discardGone"
      BY <1>3, <2>2 DEF DiscardImage
    <3>2. job'[j].pc = "cleanup" /\ job'[j].temp = k
      BY <1>1, <1>3, <2>2, <3>1 DEF DiscardImage, JobRec
    <3> QED
      BY <3>2 DEF Doomed
  <2>3. CASE DeleteTempOriginal(j)
    BY <1>3, <2>3, FaultShows DEF DeleteTempOriginal, DeleteQuietly, DeleteObject
  <2>4. ASSUME NEW c \in Calls, call[c].from = j PROVE FALSE
    BY <1>3, <2>4, PipelineAssumption DEF Typed, RepliesMatched
  <2>5. ~ GenerationSucceeds(j)
    BY <1>3 DEF GenerationSucceeds
  <2> QED
    BY <1>2, <1>3, <2>1, <2>2, <2>3, <2>4, <2>5, JobStays
<1>4. ASSUME NEW c \in Calls, call[c].pc = "applied", call[c].status = "ready",
             NEW j \in Jobs, call[c].from = j, job[j].temp = k
      PROVE  Doomed(k)'
  <2>1. j # NoJob /\ job[j].pc = "wait" /\ \A d \in Calls : call[d].from = j => d = c
    BY <1>4, PipelineAssumption DEF Typed, RepliesMatched
  <2>2. CASE ApplyFinish(c)
    <3>1. Answer(c, "applied")
      BY <2>2, FaultShows DEF ApplyFinish
    <3>2. job'[j].pc = "cleanup" /\ job'[j].temp = k
      BY <1>4, <3>1, Answered
    <3> QED
      BY <3>2 DEF Doomed
  <2>3. CASE ~ ApplyFinish(c)
    <3>1. ~ ApplyUpdate(c) /\ ~ ApplyLookup(c)
      BY <1>4 DEF ApplyUpdate, ApplyLookup
    <3>2. call'[c].pc = "applied" /\ call'[c].status = "ready" /\ call'[c].from = j
      BY <1>4, <2>3, <3>1, CallStays
    <3>3. /\ ~ GenerationSucceeds(j) /\ ~ DiscardImage(j) /\ ~ DeleteTempOriginal(j)
          /\ \A d \in Calls : call[d].from = j => ~ ApplyLookup(d) /\ ~ ApplyFinish(d)
      BY <2>1, <2>3, <3>1 DEF GenerationSucceeds, DiscardImage, DeleteTempOriginal
    <3>4. job'[j] = job[j]
      BY <1>2, <2>1, <3>3, JobStays
    <3> QED
      BY <1>4, <2>1, <3>2, <3>4 DEF Doomed
  <2> QED
    BY <2>2, <2>3
<1>5. \A c \in Calls : call[c].from \in Jobs \cup {NoJob}
  BY DEF Typed, CallsTyped, CallRec
<1> QED
  BY <1>3, <1>4, <1>5 DEF Doomed

LEMMA OriginalsHeldNext ==
  ASSUME OneAtATime, Ground, Tidy, Careful, OriginalsHeld, [Next]_vars
  PROVE  OriginalsHeld'
<1> SUFFICES ASSUME faults' = {}, NEW k \in stored', prefix'[k] = "tmp"
             PROVE  Awaited(k)' \/ Doomed(k)'
  BY DEF OriginalsHeld
<1>1. Typed /\ faults = {} /\ k \in Keys
  BY FaultsGrow, TypedNext DEF Ground, Typed, StorageTypeOK
<1>2. CASE k \in stored /\ prefix[k] = "tmp"
  <2>1. Awaited(k) \/ Doomed(k)
    BY <1>1, <1>2 DEF OriginalsHeld
  <2>2. ASSUME NEW i \in Items, row[i].temp = k PROVE Awaited(k)' \/ Doomed(k)'
    BY <1>2, <2>2, RowTempGoes DEF Awaited
  <2>3. ASSUME NEW r \in Requests, HasUploaded(req[r], "generate"), req[r].entity.temp = k
        PROVE  Awaited(k)'
    BY <1>1, <2>3, ClientKeeps
  <2> QED
    BY <1>1, <1>2, <2>1, <2>2, <2>3, DoomedKept DEF Awaited
<1>3. ASSUME NEW r \in Requests, StorePhoto(r), ~ Unacked(r), req[r].pc = "storeTmp",
             k = NewKey
      PROVE  Awaited(k)'
  <2>1. PICK e \in Row : e = req[r].entity
    BY <1>1 DEF Typed, ReqsTyped, Req
  <2>2. /\ Same(req[r], req'[r]) /\ req'[r].pc \in {"delTemp", "save"}
        /\ req'[r].entity = AwaitingImage(e, k)
    BY <1>1, <1>3, <2>1, StoreFields
  <2>3. AwaitingImage(e, k).temp = k
    BY <2>1 DEF AwaitingImage, Row
  <2>4. req[r].photo = "generate"
    BY <1>3 DEF Tidy, Single, OnTheWay, GoesThrough
  <2> QED
    BY <2>2, <2>3, <2>4 DEF Awaited, HasUploaded, Same
<1> QED
  BY <1>1, <1>2, <1>3, OriginalFrom

(* Without a fault, and as long as a client waits for its answers and leaves *)
(* an item alone while a job of it runs, nothing under tmp/ is forgotten: a  *)
(* row, a handler or the job that will delete it still has the name.         *)
THEOREM OriginalsAreAccounted == ASSUME OneAtATime PROVE Spec => []OriginalsAccounted
<1>1. Init => OriginalsHeld
  BY DEF Init, StorageInit, OriginalsHeld
<1>2. Ground /\ Tidy /\ Careful /\ OriginalsHeld /\ [Next]_vars => Careful' /\ OriginalsHeld'
  BY CarefulNext, OriginalsHeldNext
<1>3. ASSUME Ground, OriginalsHeld PROVE OriginalsAccounted
  <2>1. \A r \in Requests : HasUploaded(req[r], "generate") => Writing(r)
    BY DEF HasUploaded, Writing, InProgress
  <2>2. \A c \in Calls : call[c].from \in Jobs \cup {NoJob}
    BY <1>3 DEF Ground, Typed, CallsTyped, CallRec
  <2>3. \A k : Awaited(k) \/ Doomed(k) => OriginalOwned(k)
    BY <2>1, <2>2 DEF Awaited, Doomed, OriginalOwned
  <2> QED
    BY <1>3, <2>3 DEF OriginalsHeld, OriginalsAccounted
<1> QED
  BY <1>1, <1>2, <1>3, CarefulInit, AlwaysTidy, PTL DEF Spec

-----------------------------------------------------------------------------
(* What becomes of an image that loses an owner. *)

LEMMA RowImgGoes ==
  ASSUME OneAtATime, Ground, Tidy, Careful, [Next]_vars, NEW i \in Items,
         NEW k \in stored, row[i].img = k, row'[i].img # k
  PROVE  \/ \E c \in Calls : call'[c].prev = k /\ call'[c].pc = "applied"
         \/ \E r \in Requests : /\ req[r].pc = "delRow" /\ req'[r].pc = "done"
                                /\ req[r].item = i /\ req[r].entity.img # k
<1>1. Typed /\ RowsConsistent /\ RowsCreated /\ k # NoKey
  BY NoKeyAssumption DEF Ground, Agree, Typed, StorageTypeOK
<1>2. ~ Submit
  BY DEF Submit
<1>3. ASSUME NEW r \in Requests, Save(r) PROVE FALSE
  <2>1. PICK x \in Items :
          /\ req[r].op = "create" => x \notin created
          /\ req[r].op # "create" => x = req[r].item
          /\ row'[x] = req[r].entity /\ \A l \in Items : l # x => row'[l] = row[l]
          /\ req[r].pc = "save"
    BY <1>1, <1>3, SaveFields
  <2>2. x = i
    BY <2>1
  <2>3. req[r].op # "create"
    BY <1>1, <2>1, <2>2 DEF RowsCreated, RowsConsistent, Consistent
  <2>4. Fits(r) /\ Writing(r) /\ GoesThrough(req[r]) /\ req[r] \in Req
    BY <1>1, <2>1 DEF Tidy, Single, AllFit, OnTheWay, Typed, ReqsTyped, Writing, InProgress
  <2>5. req[r].op \in {"update", "retry"}
    BY <2>1, <2>3, <2>4 DEF GoesThrough, Req
  <2>6. CASE req[r].op = "update" /\ req[r].photo = "plain"
    BY <2>1, <2>2, <2>4, <2>6 DEF Careful, UpdatesTidy
  <2>7. CASE req[r].op = "retry" \/ req[r].photo # "plain"
    <3>1. req[r].photo \in {"none", "generate"} \/ req[r].op = "retry"
      BY <2>4, <2>7 DEF Req
    <3> QED
      BY <2>1, <2>2, <2>4, <2>5, <3>1 DEF Fits, RetryFits, UpdateFits, AsRead
  <2> QED
    BY <2>5, <2>6, <2>7
<1>4. ASSUME NEW r \in Requests, DeleteRow(r)
      PROVE  /\ req[r].pc = "delRow" /\ req'[r].pc = "done"
             /\ req[r].item = i /\ req[r].entity.img # k
  <2>1. /\ \A l \in Items : l # req[r].item => row'[l] = row[l]
        /\ req[r].pc = "delRow" /\ req'[r].pc = "done"
    BY <1>1, <1>4, DeleteRowFields
  <2>2. Holds(r) /\ req[r].op = "delete"
    BY <1>1, <2>1
    DEF Holds, Writing, InProgress, Tidy, Single, OnTheWay, GoesThrough, Typed, ReqsTyped, Req
  <2>3. req[r].entity.img \notin stored
    BY <2>1, <2>2 DEF Careful, DeletesFit
  <2> QED
    BY <2>1, <2>3
<1>5. CASE UNCHANGED req
  <2>1. PICK c \in Calls :
          /\ ApplyUpdate(c) /\ call[c].item = i /\ row[i].status = "pending"
    BY <1>1, <1>5, RowMoves
  <2>2. call'[c].pc = "applied" /\ call'[c].prev = Replaced(row[i], row'[i])
    BY <1>1, <2>1, UpdateFields
  <2> QED
    BY <2>2 DEF Replaced
<1> QED
  BY <1>2, <1>3, <1>4, <1>5, ReqWriters, RowsOfHandler

LEMMA CopyImgGoes ==
  ASSUME OneAtATime, Ground, Tidy, Careful, [Next]_vars, faults' = faults,
         NEW r \in Requests, NEW k \in stored, k \in stored', Writing(r),
         req[r].entity.img = k
  PROVE  ImageOwned(k)'
<1>1. /\ Typed /\ GoodReq(req[r]) /\ GoesThrough(req[r]) /\ req[r] \in Req
      /\ k # NoKey /\ Fits(r)
  BY NoKeyAssumption
  DEF Ground, Typed, StorageTypeOK, ReqsTyped, Tidy, Single, OnTheWay, AllFit
<1>2. req[r].pc \notin {"unsent", "unacked", "done", "reply", "find"}
  BY <1>1 DEF Writing, InProgress, Careful, FindsFresh, NewEntity, NoRow
<1>3. ASSUME Writing(r)', req'[r].entity.img = k PROVE ImageOwned(k)'
  BY <1>3 DEF ImageOwned
<1>4. CASE req'[r] = req[r]
  BY <1>3, <1>4 DEF Writing, InProgress
<1>5. CASE Handler(r)
  <2>1. \A kind : ~ Fault(kind)
    BY FaultShows
  <2>2. CASE req[r].pc = "exists"
    <3>1. CheckOriginal(r) /\ req[r].op = "retry"
      BY <1>1, <1>5, <2>2
      DEF Handler, FindMissing, RetryFind, UpdateFind, DeleteFind, CheckOriginal, DeleteImage,
          StorePhoto, DeleteOriginal, Save, Reply, DeleteRow, GoesThrough, GoodReq, Req
    <3>2. CASE Acked(r)
      <4>1. PICK i \in Items : i = req[r].item
        BY <1>1, <3>1, <2>2 DEF GoodReq
      <4>2. row'[i].img = k
        BY <1>1, <2>2, <3>1, <4>1 DEF CheckOriginal, Fits, RetryFits
      <4> QED
        BY <4>2 DEF ImageOwned
    <3>3. CASE ~ Acked(r)
      <4>1. PICK e \in Row : e = req[r].entity
        BY <1>1 DEF Req
      <4>2. AwaitingImage(e, e.temp).img = e.img
        BY <4>1 DEF AwaitingImage, Row
      <4>3. req'[r].pc = "save" /\ req'[r].entity.img = k
        BY <1>1, <3>1, <3>3, <4>1, <4>2, CheckFields
      <4> QED
        BY <1>3, <4>3 DEF Writing, InProgress
    <3> QED
      BY <3>2, <3>3
  <2>3. req[r].pc # "delImg"
    BY <1>5, <2>1, HandlerAt DEF DeleteImage, DeleteObject
  <2>4. CASE req[r].pc \in {"storeImg", "storeTmp"}
    <3>1. StorePhoto(r)
      BY <1>5, <2>4, HandlerAt
    <3>2. ~ Unacked(r)
      <4>1. req'[r].pc \in {"delTemp", "save"}
        BY <1>1, <2>1, <3>1 DEF StorePhoto, Typed, ReqsTyped, Req
      <4> QED
        BY <1>1, <4>1, GotoFields DEF Unacked
    <3>3. PICK e \in Row : e = req[r].entity
      BY <1>1 DEF Req
    <3>4. PICK n \in Keys :
            /\ req'[r].pc \in {"delTemp", "save"}
            /\ req'[r].entity = IF req[r].pc = "storeTmp" THEN AwaitingImage(e, n)
                                ELSE ShowingPhoto(e, n)
      BY <1>1, <3>1, <3>2, <3>3, StoreFields
    <3>5. CASE req[r].pc = "storeTmp"
      <4>1. req'[r].entity.img = k
        BY <3>3, <3>4, <3>5 DEF AwaitingImage, Row
      <4> QED
        BY <1>3, <3>4, <4>1 DEF Writing, InProgress
    <3>6. CASE req[r].pc = "storeImg"
      <4>1. req[r].op # "create"
        BY <1>1, <3>6 DEF Fits, CreateFits, NewEntity, NoRow
      <4>2. req[r].op = "update"
        BY <1>1, <3>6, <4>1 DEF GoesThrough, Req
      <4>3. PICK i \in Items : i = req[r].item
        BY <1>1, <4>1, <3>6 DEF GoodReq
      <4>4. row[i].img = k
        BY <1>1, <3>6, <4>2, <4>3 DEF Fits, UpdateFits, AsRead
      <4>5. row' = row
        BY <3>1 DEF StorePhoto
      <4> QED
        BY <4>4, <4>5 DEF ImageOwned
    <3> QED
      BY <2>4, <3>5, <3>6
  <2>5. CASE req[r].pc = "delTemp"
    <3>1. PICK pc \in {"save", "delRow"} : Goto(r, pc)
      BY <1>5, <2>5, HandlerAt DEF DeleteOriginal
    <3>2. req'[r].pc = pc /\ req'[r].entity = req[r].entity
      BY <1>1, <3>1, GotoFields
    <3> QED
      BY <1>3, <3>2 DEF Writing, InProgress
  <2>6. CASE req[r].pc = "save"
    <3>1. PICK x \in Items : row'[x] = req[r].entity
      BY <1>1, <1>5, <2>6, HandlerAt, SaveFields
    <3> QED
      BY <3>1 DEF ImageOwned
  <2>7. CASE req[r].pc = "delRow"
    <3>1. Holds(r) /\ req[r].op = "delete"
      BY <1>1, <2>7 DEF Holds, Writing, InProgress, GoesThrough, Req
    <3> QED
      BY <2>7, <3>1 DEF Careful, DeletesFit
  <2> QED
    BY <1>1, <1>2, <2>2, <2>3, <2>4, <2>5, <2>6, <2>7 DEF Req, ReqPc
<1> QED
  BY <1>1, <1>2, <1>4, <1>5, RequestMoves

LEMMA JobImgGoes ==
  ASSUME OneAtATime, Typed, [Next]_vars, faults' = faults, NEW j \in Jobs,
         NEW k \in stored, k \in stored', job[j].img = k,
         job[j].pc \in {"generated", "discard", "discardGone"}
  PROVE  ImageOwned(k)'
<1>1. \A kind : ~ Fault(kind)
  BY FaultShows
<1>2. CASE job'[j] = job[j]
  BY <1>2 DEF ImageOwned
<1>3. CASE GenerationSucceeds(j)
  <2>1. SendResult(j, "ready", k)
    BY <1>3 DEF GenerationSucceeds
  <2>2. PICK d \in Calls : call'[d].pc = "sent" /\ call'[d].img = k
    BY <2>1, SendFields
  <2> QED
    BY <2>2 DEF ImageOwned
<1>4. ~ DiscardImage(j)
  BY <1>1 DEF DiscardImage, DeleteQuietly, DeleteObject
<1>5. ~ OutcomeTimeout(j) /\ ~ DeleteTempOriginal(j) /\ ~ ConsumerCrash
  BY <1>1 DEF OutcomeTimeout, DeleteTempOriginal, ConsumerCrash
<1>6. ASSUME NEW c \in Calls, call[c].from = j PROVE FALSE
  BY <1>6, PipelineAssumption DEF Typed, RepliesMatched
<1> QED
  BY <1>2, <1>3, <1>4, <1>5, <1>6, JobStays

LEMMA CallImgGoes ==
  ASSUME OneAtATime, Ground, Tidy, [Next]_vars, faults' = faults, NEW c \in Calls,
         NEW k \in stored, k \in stored', call[c].from # NoJob,
         call[c].img = k, call[c].pc \in {"sent", "missed"}
  PROVE  ImageOwned(k)'
<1>1. Typed /\ k # NoKey
  BY NoKeyAssumption DEF Ground, Typed, StorageTypeOK
<1>2. call[c].status = "ready"
  BY <1>1 DEF Tidy, ReadyNamed
<1>3. CASE ApplyUpdate(c)
  <2>1. PICK i \in Items :
          /\ call'[c].img = k
          /\ \/ row'[i] = WithResult(row[i], call[c].status, call[c].img)
             \/ call'[c].pc = "missed"
    BY <1>1, <1>3, UpdateFields
  <2>2. WithResult(row[i], "ready", k).img = k
    BY <1>1 DEF WithResult
  <2> QED
    BY <1>2, <2>1, <2>2 DEF ImageOwned
<1>4. CASE ApplyLookup(c)
  <2>1. PICK outcome \in {"not_found", "not_pending"} : Answer(c, outcome)
    BY <1>4 DEF ApplyLookup
  <2>2. PICK j \in Jobs : j = call[c].from
    BY <1>1 DEF Typed, CallsTyped, CallRec
  <2>3. job[j].img = k
    BY <1>2, <2>2 DEF Ground, RepliesCarried
  <2>4. job'[j].img = k /\ job'[j].pc \in {"discard", "discardGone"}
    BY <1>1, <1>2, <2>1, <2>2, <2>3, Answered
  <2> QED
    BY <2>4 DEF ImageOwned
<1>5. ~ ApplyFinish(c)
  BY DEF ApplyFinish
<1>6. CASE call'[c].pc = call[c].pc /\ call'[c].img = call[c].img
  BY <1>6 DEF ImageOwned
<1> QED
  BY <1>1, <1>3, <1>4, <1>5, <1>6, CallStays

LEMMA PrevGoes ==
  ASSUME OneAtATime, Typed, [Next]_vars, faults' = faults, NEW c \in Calls,
         NEW k \in stored, k \in stored', call[c].prev = k, call[c].pc = "applied"
  PROVE  ImageOwned(k)'
<1>1. k # NoKey
  BY NoKeyAssumption DEF Typed, StorageTypeOK
<1>2. ~ ApplyUpdate(c) /\ ~ ApplyLookup(c)
  BY DEF ApplyUpdate, ApplyLookup
<1>3. ~ ApplyFinish(c)
  BY <1>1, FaultShows DEF ApplyFinish, DeleteObject
<1>4. call'[c].pc = "applied" /\ call'[c].prev = k
  BY <1>2, <1>3, CallStays
<1> QED
  BY <1>4 DEF ImageOwned

(* As long as a client waits for its answers and leaves an item alone while  *)
(* a job of it runs, an image stays in the bucket without an owner only by a *)
(* fault, by a result that came too late, or by a delete that read the row   *)
(* before the image was there: whatever is redelivered or retried.           *)
THEOREM ImagesAreAccounted == ASSUME OneAtATime PROVE Spec => ImagesAccounted
<1> DEFINE Lost(k) == prefix[k] = "user" /\ ImageOwned(k) /\ ~ ImageOwned(k)'
           Cause(k) == \/ faults' # faults
                       \/ \E c \in Calls : call[c].img = k /\ call[c].from = NoJob
                       \/ \E r \in Requests : /\ req[r].pc = "delRow"
                                              /\ req'[r].pc = "done"
                                              /\ row[req[r].item].img = k
                                              /\ req[r].entity.img # k
<1>1. ASSUME OneAtATime, Ground, Tidy, Careful, [Next]_vars, NEW k \in stored \cap stored',
             Lost(k), ~ Cause(k)
      PROVE  FALSE
  <2>1. Typed /\ faults' = faults
    BY <1>1 DEF Ground
  <2>2. ASSUME NEW i \in Items, row[i].img = k PROVE FALSE
    <3>1. row'[i].img # k
      BY <1>1 DEF ImageOwned
    <3>2. ~ \E c \in Calls : call'[c].prev = k /\ call'[c].pc = "applied"
      BY <1>1 DEF ImageOwned
    <3> QED
      BY <1>1, <2>2, <3>1, <3>2, RowImgGoes
  <2>3. ASSUME NEW r \in Requests, Writing(r), req[r].entity.img = k PROVE FALSE
    BY <1>1, <2>1, <2>3, CopyImgGoes
  <2>4. ASSUME NEW j \in Jobs, job[j].img = k,
               job[j].pc \in {"generated", "discard", "discardGone"}
        PROVE  FALSE
    BY <1>1, <2>1, <2>4, JobImgGoes
  <2>5. ASSUME NEW c \in Calls, call[c].img = k, call[c].pc \in {"sent", "missed"}
        PROVE  FALSE
    BY <1>1, <2>1, <2>5, CallImgGoes
  <2>6. ASSUME NEW c \in Calls, call[c].prev = k, call[c].pc = "applied" PROVE FALSE
    BY <1>1, <2>1, <2>6, PrevGoes
  <2> QED
    BY <1>1, <2>2, <2>3, <2>4, <2>5, <2>6 DEF ImageOwned
<1>2. Ground /\ Tidy /\ Careful /\ [Next]_vars
        => Careful' /\ [\A k \in stored \cap stored' : Lost(k) => Cause(k)]_vars
  BY <1>1, CarefulNext
<1> QED
  BY <1>2, CarefulInit, AlwaysTidy, PTL DEF Spec, ImagesAccounted

=============================================================================
