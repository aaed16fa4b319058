--------------------------- MODULE WardrobeImages ---------------------------
(***************************************************************************)
(* The wardrobe service's side of the product-image pipeline: the image    *)
(* columns of wardrobe_item, the request handlers that change them, the    *)
(* terminal write of a generation job and the stale-job sweep.  A handler  *)
(* takes one step per await, so handlers interleave exactly where the      *)
(* event loop may switch between them.                                     *)
(***************************************************************************)
EXTENDS MediaStorage, Naturals, FiniteSets

CONSTANTS
  Items,        (* Ids the wardrobe_item sequence may hand out.              *)
  NoItem,
  Requests,     (* Messages from the gateway, each sent at most once.        *)
  Concurrent,   (* How many of them the gateway keeps in progress at a time. *)
  Ops,          (* Which of create, update, retry, delete clients call.      *)
  Photos,       (* none, plain or generate: the upload and generate_image.   *)
  Jobs,         (* Slots of the generation queue and of its consumer.        *)
  NoJob,
  QuietUpdates, (* TRUE: clients update an item only while no job of it runs. *)
  Calls,        (* Slots of applyGeneratedImage RPCs on the wardrobe queue.  *)
  Faults,       (* Faults that may happen.  Each one happens at most once,   *)
                (* except that an RPC may time out for every job.            *)
  MaxFaults     (* How many kinds one behaviour sees, beside time-outs.      *)

ASSUME PipelineAssumption ==
  /\ NoItem \notin Items
  /\ NoJob \notin Jobs
  /\ Concurrent \in Nat
  /\ QuietUpdates \in BOOLEAN
  /\ MaxFaults \in Nat
  /\ Ops \subseteq {"create", "update", "retry", "delete"}
  /\ Photos \subseteq {"none", "plain", "generate"}

VARIABLES
  row,       (* The image columns of each item.                              *)
  created,   (* Ids the sequence has handed out.                             *)
  req,       (* Each gateway message: its handler's progress and locals.     *)
  call,      (* Each applyGeneratedImage RPC.                                *)
  job,       (* Each generation job, from its emit to its ack.               *)
  faults     (* Faults that have happened.                                   *)

wardrobeVars == <<row, created, req, call, job, faults>>

-----------------------------------------------------------------------------
(* Mistaken forms of definitions below, one per property: Next uses none of  *)
(* them.  A run whose definition is replaced by one of these must find the   *)
(* property the mistake breaks violated.                                     *)

(* The sweep forgets to clear image_pending_since. *)
GivenUpKeepsSince(e) == [e EXCEPT !.status = "failed"]

(* The sweep writes a status outside the ImageStatus enum. *)
GivenUpAsStale(e) == [e EXCEPT !.status = "stale", !.since = "none"]

(* An item is queued for generation without a time stamp for the sweep. *)
AwaitingImageUndated(e, k) == [e EXCEPT !.status = "pending", !.temp = k]

(* Every upload goes below tmp/. *)
PhotoPrefixAlwaysTmp(pc) == "tmp"

(* The terminal UPDATE loses its WHERE image_status = 'pending'. *)
AwaitsResultUnguarded(e) == e.status # "absent"

(* The terminal UPDATE tests <> 'ready' instead. *)
AwaitsResultUnlessReady(e) == e.status \in {"pending", "failed"}

(* The previous image is deleted even when the result left it in place. *)
ReplacedAlways(old, new) == old.img

(* A delivery that lost the race also deletes the original it shared. *)
AfterOutcomeDropsShared(status, outcome) ==
  IF status # "ready" \/ outcome = "error" THEN "idle"
  ELSE IF outcome = "applied" THEN "cleanup" ELSE "discardGone"

(* The original is not deleted once the generated image is in place. *)
AfterOutcomeKeepsTemp(status, outcome) ==
  IF status # "ready" \/ outcome \in {"error", "applied"} THEN "idle"
  ELSE IF outcome = "not_pending" THEN "discard" ELSE "discardGone"

(* A delivery that lost the race leaves its image in the bucket. *)
AfterOutcomeKeepsImage(status, outcome) ==
  IF status # "ready" \/ outcome \in {"error", "not_pending"} THEN "idle"
  ELSE IF outcome = "applied" THEN "cleanup" ELSE "discardGone"

-----------------------------------------------------------------------------
(* Columns of an item.  Time is abstracted to what the sweep tests: whether *)
(* image_pending_since lies before its cutoff.                              *)

NoRow == [status |-> "absent", img |-> NoKey, temp |-> NoKey, since |-> "none"]
NewEntity == [NoRow EXCEPT !.status = "ready"]

Row == [status : {"absent", "pending", "ready", "failed"},
        img    : Keys \cup {NoKey},
        temp   : Keys \cup {NoKey},
        since  : {"none", "fresh", "stale"}]

(* An entity whose photo `k` is the input of a generation job. *)
AwaitingImage(e, k) ==
  [e EXCEPT !.status = "pending", !.temp = k, !.since = "fresh"]

(* An entity whose uploaded photo `k` is its image. *)
ShowingPhoto(e, k) ==
  [e EXCEPT !.status = "ready", !.img = k, !.temp = NoKey, !.since = "none"]

(* The SET list of applyGeneratedImage's UPDATE. *)
WithResult(e, status, img) ==
  [status |-> status,
   img    |-> IF status = "ready" /\ img # NoKey THEN img ELSE e.img,
   temp   |-> IF status = "ready" THEN NoKey ELSE e.temp,
   since  |-> "none"]

(* Its WHERE clause. *)
AwaitsResult(e) == e.status = "pending"

(* The image it replaced, when it did. *)
Replaced(old, new) == IF old.img = new.img THEN NoKey ELSE old.img

(* The guards of retryImageGeneration that need the row only. *)
Retryable(e) == e.status # "pending" /\ e.temp # NoKey

(* The folder an upload goes to. *)
PhotoPrefix(pc) == IF pc = "storeTmp" THEN "tmp" ELSE "user"

(* The SET list of failStalePendingImages. *)
GivenUp(e) == [e EXCEPT !.status = "failed", !.since = "none"]

-----------------------------------------------------------------------------
(* Handlers, RPCs and jobs are records; a slot that holds none is blank.    *)

ReqPc == {"unsent", "find", "exists", "delImg", "storeImg", "storeTmp",
          "delTemp", "save", "delRow", "reply", "unacked", "done"}

Req == [pc : ReqPc, op : {"create", "update", "retry", "delete"},
        photo : {"none", "plain", "generate"}, item : Items \cup {NoItem},
        entity : Row, old : Keys \cup {NoKey}]

(* Where the photo of a create or an update goes, if it comes with one. *)
PhotoStep(photo) ==
  IF photo = "none" THEN "save"
  ELSE IF photo = "generate" THEN "storeTmp" ELSE "storeImg"

(* A message as its handler starts on it, and one it has acked. *)
Message(op, photo, i) ==
  [pc     |-> IF op = "create" THEN PhotoStep(photo) ELSE "find",
   op     |-> op,
   photo  |-> photo,
   item   |-> i,
   entity |-> NewEntity,
   old    |-> NoKey]

Unsent == [Message("create", "none", NoItem) EXCEPT !.pc = "unsent"]
Done == [Unsent EXCEPT !.pc = "done"]

InProgress(r) == req[r].pc \notin {"unsent", "unacked", "done"}

CallRec == [pc : {"none", "sent", "applied", "missed", "unacked"},
            item : Items \cup {NoItem}, status : {"ready", "failed"},
            img : Keys \cup {NoKey}, prev : Keys \cup {NoKey},
            from : Jobs \cup {NoJob}]

NoCall == [pc |-> "none", item |-> NoItem, status |-> "failed",
           img |-> NoKey, prev |-> NoKey, from |-> NoJob]

JobRec == [pc : {"idle", "queued", "load", "model", "generated", "wait",
                 "discard", "discardGone", "cleanup"},
           item : Items \cup {NoItem}, temp : Keys \cup {NoKey},
           img : Keys \cup {NoKey}]

IdleJob == [pc |-> "idle", item |-> NoItem, temp |-> NoKey, img |-> NoKey]

WardrobeTypeOK ==
  /\ row \in [Items -> Row]
  /\ created \subseteq Items
  /\ req \in [Requests -> Req]
  /\ call \in [Calls -> CallRec]
  /\ job \in [Jobs -> JobRec]
  /\ faults \subseteq Faults

WardrobeInit ==
  /\ row = [i \in Items |-> NoRow]
  /\ created = {}
  /\ req = [r \in Requests |-> Unsent]
  /\ call = [c \in Calls |-> NoCall]
  /\ job = [j \in Jobs |-> IdleJob]
  /\ faults = {}

-----------------------------------------------------------------------------
(* Faults and queues. *)

Fault(kind) ==
  /\ kind \in Faults \ faults
  /\ Cardinality(faults \ {"timeout"}) < MaxFaults
  /\ faults' = faults \cup {kind}

TimedOut ==
  /\ "timeout" \in Faults
  /\ faults' = faults \cup {"timeout"}

FreeJobs == {j \in Jobs : job[j].pc = "idle"}
FreeJob == CHOOSE j \in FreeJobs : TRUE

(* emitGenerationRequest: fire-and-forget, a failed publish is only logged. *)
Emit(i, k) ==
  \/ /\ FreeJobs # {}
     /\ job' = [job EXCEPT ![FreeJob] =
                  [IdleJob EXCEPT !.pc = "queued", !.item = i, !.temp = k]]
     /\ UNCHANGED faults
  \/ /\ Fault("publish")
     /\ UNCHANGED job

Goto(r, pc) == req' = [req EXCEPT ![r].pc = pc]

(* An HttpException or a return acks the message; any other error leaves it *)
(* unacked, to be delivered again when the channel is reopened.             *)
Acked(r) == req' = [req EXCEPT ![r] = Done]
Unacked(r) == Goto(r, "unacked")

(* findOneByOrFail found the row: the handler works on a copy of it. *)
Load(r, pc) ==
  req' = [req EXCEPT ![r] = [@ EXCEPT !.pc = pc,
                                      !.entity = row[req[r].item],
                                      !.old = row[req[r].item].temp]]

-----------------------------------------------------------------------------
(* Request handlers. *)

Quiet(i) == /\ \A j \in Jobs : job[j].item # i
            /\ \A c \in Calls : call[c].item # i

PhotosOf(op) == IF op \in {"create", "update"} THEN Photos ELSE {"none"}

(* Requests are alike: they are sent in a fixed order. *)
NextUnsent == CHOOSE r \in Requests : req[r].pc = "unsent"

(* The gateway sends a request; ids come from earlier answers. *)
Submit ==
  /\ Cardinality({r \in Requests : InProgress(r)}) < Concurrent
  /\ \E r \in Requests, op \in Ops, photo \in Photos \cup {"none"},
        i \in created \cup {NoItem} :
       /\ req[r].pc = "unsent"
       /\ r = NextUnsent
       /\ op = "create" <=> i = NoItem
       /\ photo \in PhotosOf(op)
       /\ op = "update" /\ QuietUpdates => Quiet(i)
       /\ req' = [req EXCEPT ![r] = Message(op, photo, i)]
  /\ UNCHANGED <<storageVars, row, created, call, job, faults>>

(* findOneByOrFail throws EntityNotFoundError, which the filter never acks. *)
FindMissing(r) ==
  /\ req[r].pc = "find"
  /\ row[req[r].item].status = "absent"
  /\ Unacked(r)
  /\ UNCHANGED <<storageVars, row, created, call, job, faults>>

RetryFind(r) ==
  LET e == row[req[r].item] IN
  /\ req[r].pc = "find"
  /\ req[r].op = "retry"
  /\ e.status # "absent"
  /\ IF Retryable(e) THEN Load(r, "exists") ELSE Acked(r)
  /\ UNCHANGED <<storageVars, row, created, call, job, faults>>

UpdateFind(r) ==
  LET e == row[req[r].item] IN
  /\ req[r].pc = "find"
  /\ req[r].op = "update"
  /\ e.status # "absent"
  /\ Load(r, IF req[r].photo = "plain" /\ e.img # NoKey
             THEN "delImg" ELSE PhotoStep(req[r].photo))
  /\ UNCHANGED <<storageVars, row, created, call, job, faults>>

(* A delete drops the retained original, if there is one, then the row. *)
DropOriginal(k) == IF k # NoKey THEN "delTemp" ELSE "delRow"

DeleteFind(r) ==
  LET e == row[req[r].item] IN
  /\ req[r].pc = "find"
  /\ req[r].op = "delete"
  /\ e.status # "absent"
  /\ Load(r, IF e.img # NoKey THEN "delImg" ELSE DropOriginal(e.temp))
  /\ UNCHANGED <<storageVars, row, created, call, job, faults>>

(* hasTempOriginal: an unreadable answer counts as present. *)
CheckOriginal(r) ==
  LET e == req[r].entity IN
  /\ req[r].pc = "exists"
  /\ \/ /\ Exists(e.temp)
        /\ req' = [req EXCEPT ![r].pc = "save",
                              ![r].entity = AwaitingImage(e, e.temp)]
        /\ UNCHANGED faults
     \/ /\ ~Exists(e.temp)
        /\ Acked(r)
        /\ UNCHANGED faults
     \/ /\ Fault("storage")
        /\ req' = [req EXCEPT ![r].pc = "save",
                              ![r].entity = AwaitingImage(e, e.temp)]
  /\ UNCHANGED <<storageVars, row, created, call, job>>

(* The image a plain update replaces, or a delete drops: a throwing delete. *)
DeleteImage(r) ==
  /\ req[r].pc = "delImg"
  /\ \/ /\ DeleteObject(req[r].entity.img)
        /\ Goto(r, IF req[r].op = "update"
                   THEN "storeImg" ELSE DropOriginal(req[r].old))
        /\ UNCHANGED faults
     \/ /\ Fault("storage")
        /\ Unacked(r)
        /\ UNCHANGED storageVars
  /\ UNCHANGED <<row, created, call, job>>

(* Both uploads: what the entity becomes, then the previous original goes. *)
StorePhoto(r) ==
  /\ req[r].pc \in {"storeTmp", "storeImg"}
  /\ \/ /\ Upload(PhotoPrefix(req[r].pc))
        /\ req' = [req EXCEPT ![r] =
             [@ EXCEPT !.pc = IF req[r].old # NoKey THEN "delTemp" ELSE "save",
                       !.entity = IF req[r].pc = "storeTmp"
                                  THEN AwaitingImage(req[r].entity, NewKey)
                                  ELSE ShowingPhoto(req[r].entity, NewKey)]]
        /\ UNCHANGED faults
     \/ /\ Fault("storage")
        /\ Unacked(r)
        /\ UNCHANGED storageVars
  /\ UNCHANGED <<row, created, call, job>>

(* deleteQuietly: a failure is logged and the handler goes on. *)
DeleteOriginal(r) ==
  /\ req[r].pc = "delTemp"
  /\ \/ DeleteObject(req[r].old) /\ UNCHANGED faults
     \/ Fault("storage") /\ UNCHANGED storageVars
  /\ Goto(r, IF req[r].op = "update" THEN "save" ELSE "delRow")
  /\ UNCHANGED <<row, created, call, job>>

(* save() writes the whole entity, whatever the row has become meanwhile,   *)
(* inserts it again if the row is gone, and the job is emitted with it.     *)
Save(r) ==
  /\ req[r].pc = "save"
  /\ \E i \in Items :
       /\ IF req[r].op = "create"
          THEN i \notin created /\ i = CHOOSE x \in Items : x \notin created
          ELSE i = req[r].item
       /\ row' = [row EXCEPT ![i] = req[r].entity]
       /\ created' = created \cup {i}
       /\ Goto(r, "reply")
       /\ IF req[r].op = "retry" \/ req[r].photo = "generate"
          THEN Emit(i, req[r].entity.temp)
          ELSE UNCHANGED <<job, faults>>
  /\ UNCHANGED <<storageVars, call>>

(* The answer needs signed URLs: a storage error there is an unacked error. *)
Reply(r) ==
  /\ req[r].pc = "reply"
  /\ \/ Acked(r) /\ UNCHANGED faults
     \/ Fault("storage") /\ Unacked(r)
  /\ UNCHANGED <<storageVars, row, created, call, job>>

DeleteRow(r) ==
  /\ req[r].pc = "delRow"
  /\ row' = [row EXCEPT ![req[r].item] = NoRow]
  /\ Acked(r)
  /\ UNCHANGED <<storageVars, created, call, job, faults>>

-----------------------------------------------------------------------------
(* applyGeneratedImage. *)

(* What applyResult does next in the consumer, once an outcome reaches it.  *)
AfterOutcome(status, outcome) ==
  IF status # "ready" \/ outcome = "error" THEN "idle"
  ELSE IF outcome = "applied" THEN "cleanup"
  ELSE IF outcome = "not_pending" THEN "discard" ELSE "discardGone"

(* The reply moves on the job that waits for it, if one still does. *)
Answer(c, outcome) ==
  LET j == call[c].from
      next == AfterOutcome(call[c].status, outcome) IN
  job' = IF j = NoJob
         THEN job
         ELSE [job EXCEPT ![j] = IF next = "idle" THEN IdleJob
                                 ELSE [@ EXCEPT !.pc = next]]

(* UPDATE ... WHERE image_status = 'pending': one atomic statement. *)
ApplyUpdate(c) ==
  LET i == call[c].item
      e == WithResult(row[i], call[c].status, call[c].img) IN
  /\ call[c].pc = "sent"
  /\ IF AwaitsResult(row[i])
     THEN /\ row' = [row EXCEPT ![i] = e]
          /\ call' = [call EXCEPT ![c].pc = "applied",
                                  ![c].prev = Replaced(row[i], e)]
     ELSE /\ call' = [call EXCEPT ![c].pc = "missed"]
          /\ UNCHANGED row
  /\ UNCHANGED <<storageVars, created, req, job, faults>>

(* No row matched: a second query words the outcome. *)
ApplyLookup(c) ==
  /\ call[c].pc = "missed"
  /\ Answer(c, IF row[call[c].item].status = "absent"
               THEN "not_found" ELSE "not_pending")
  /\ call' = [call EXCEPT ![c] = NoCall]
  /\ UNCHANGED <<storageVars, row, created, req, faults>>

(* The replaced image is deleted after the write; an error there goes back  *)
(* to the consumer as one and leaves the RPC unacked.                       *)
ApplyFinish(c) ==
  /\ call[c].pc = "applied"
  /\ \/ /\ IF call[c].prev = NoKey
           THEN UNCHANGED storageVars
           ELSE DeleteObject(call[c].prev)
        /\ Answer(c, "applied")
        /\ call' = [call EXCEPT ![c] = NoCall]
        /\ UNCHANGED faults
     \/ /\ call[c].prev # NoKey
        /\ Fault("storage")
        /\ Answer(c, "error")
        /\ call' = [call EXCEPT ![c].pc = "unacked", ![c].from = NoJob]
        /\ UNCHANGED storageVars
  /\ UNCHANGED <<row, created, req>>

-----------------------------------------------------------------------------
(* failStalePendingImages, and the ten minutes that make an item stale. *)

Sweep ==
  LET Stale(i) == row[i].status = "pending" /\ row[i].since = "stale" IN
  /\ \E i \in Items : Stale(i)
  /\ row' = [i \in Items |-> IF Stale(i) THEN GivenUp(row[i]) ELSE row[i]]
  /\ UNCHANGED <<storageVars, created, req, call, job, faults>>

BecomeStale(i) ==
  /\ row[i].since = "fresh"
  /\ row' = [row EXCEPT ![i].since = "stale"]
  /\ UNCHANGED <<storageVars, created, req, call, job, faults>>

(* The service dies.  Every message it had not acked is delivered again.    *)
WardrobeCrash ==
  /\ Fault("wardrobeCrash")
  /\ req' = [r \in Requests |->
               IF req[r].pc \in {"unsent", "done"} THEN req[r]
               ELSE Message(req[r].op, req[r].photo,
                      IF req[r].op = "create" THEN NoItem ELSE req[r].item)]
  /\ call' = [c \in Calls |-> IF call[c].pc = "none" THEN NoCall
                              ELSE [call[c] EXCEPT !.pc = "sent",
                                                   !.prev = NoKey]]
  /\ UNCHANGED <<storageVars, row, created, job>>

=============================================================================
