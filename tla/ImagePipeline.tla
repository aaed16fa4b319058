---------------------------- MODULE ImagePipeline ----------------------------
(***************************************************************************)
(* The product-image pipeline: the wardrobe service of WardrobeImages, the *)
(* media store of MediaStorage, and the ai-assistant consumer that turns a *)
(* retained original into a generated image.  RabbitMQ delivers every job  *)
(* at least once; either service may die and be restarted.                 *)
(***************************************************************************)
EXTENDS WardrobeImages

vars == <<storageVars, wardrobeVars>>

TypeOK == StorageTypeOK /\ WardrobeTypeOK

Init == StorageInit /\ WardrobeInit

-----------------------------------------------------------------------------
(* ProductImageController.generateProductImage and the generator service.   *)

(* The handler always acks: its slot is free again. *)
AckJob(j) == job' = [job EXCEPT ![j] = IdleJob]
JobGoto(j, pc) == job' = [job EXCEPT ![j].pc = pc]

InFlight(j) == job[j].pc \notin {"idle", "queued"}

(* isStillPending: only a pending item is worth a paid generation. *)
CheckPending(j) ==
  /\ job[j].pc = "queued"
  /\ IF row[job[j].item].status = "pending"
     THEN JobGoto(j, "load")
     ELSE AckJob(j)
  /\ UNCHANGED <<storageVars, row, created, req, call, faults>>

(* The item could not be read back in time: the job is dropped. *)
SkipUnreadable(j) ==
  /\ job[j].pc = "queued"
  /\ TimedOut
  /\ AckJob(j)
  /\ UNCHANGED <<storageVars, row, created, req, call>>

LoadOriginal(j) ==
  /\ job[j].pc = "load"
  /\ Exists(job[j].temp)
  /\ JobGoto(j, "model")
  /\ UNCHANGED <<storageVars, row, created, req, call, faults>>

(* Send the terminal write to the wardrobe service and await its outcome. *)
SendResult(j, status, img) ==
  LET Free == {c \in Calls : call[c].pc = "none"} IN
  /\ Free # {}
  /\ call' = [call EXCEPT ![CHOOSE c \in Free : TRUE] =
                [NoCall EXCEPT !.pc = "sent", !.item = job[j].item,
                               !.status = status, !.img = img, !.from = j]]
  /\ JobGoto(j, "wait")

(* generate() never throws: a missing original, an unreachable bucket and a *)
(* model that returns no image all become a failed result.                  *)
GenerationFails(j) ==
  /\ job[j].pc \in {"load", "model"}
  /\ SendResult(j, "failed", NoKey)
  /\ UNCHANGED <<storageVars, row, created, req, faults>>

StoreGenerated(j) ==
  /\ job[j].pc = "model"
  /\ Upload("user")
  /\ job' = [job EXCEPT ![j].pc = "generated", ![j].img = NewKey]
  /\ UNCHANGED <<row, created, req, call, faults>>

GenerationSucceeds(j) ==
  /\ job[j].pc = "generated"
  /\ SendResult(j, "ready", job[j].img)
  /\ UNCHANGED <<storageVars, row, created, req, faults>>

(* A mistaken OutcomeTimeout: send() without a timeout waits for ever. *)
NoOutcomeTimeout(j) == FALSE /\ UNCHANGED vars

(* No outcome within WARDROBE_RPC_TIMEOUT_MS: the error is logged, the job  *)
(* acked.  The RPC itself stays on the wardrobe queue.                      *)
OutcomeTimeout(j) ==
  /\ job[j].pc = "wait"
  /\ TimedOut
  /\ AckJob(j)
  /\ call' = [c \in Calls |-> IF call[c].from = j
                              THEN [call[c] EXCEPT !.from = NoJob]
                              ELSE call[c]]
  /\ UNCHANGED <<storageVars, row, created, req>>

(* deleteObject swallows a storage error. *)
DeleteQuietly(k) ==
  \/ DeleteObject(k) /\ UNCHANGED faults
  \/ Fault("storage") /\ UNCHANGED storageVars

(* The result was not applied: nothing references the image just stored. *)
DiscardImage(j) ==
  /\ job[j].pc \in {"discard", "discardGone"}
  /\ DeleteQuietly(job[j].img)
  /\ IF job[j].pc = "discard"
     THEN AckJob(j)
     ELSE job' = [job EXCEPT ![j].pc = "cleanup", ![j].img = NoKey]
  /\ UNCHANGED <<row, created, req, call>>

DeleteTempOriginal(j) ==
  /\ job[j].pc = "cleanup"
  /\ DeleteQuietly(job[j].temp)
  /\ AckJob(j)
  /\ UNCHANGED <<row, created, req, call>>

-----------------------------------------------------------------------------
(* The channel drops while a handler runs: the broker delivers the message  *)
(* again although the first handler is still at work.                       *)
Redeliver(j) ==
  /\ InFlight(j)
  /\ FreeJobs # {}
  /\ Fault("redeliver")
  /\ job' = [job EXCEPT ![FreeJob] =
               [IdleJob EXCEPT !.pc = "queued", !.item = job[j].item,
                               !.temp = job[j].temp]]
  /\ UNCHANGED <<storageVars, row, created, req, call>>

(* The consumer dies: every job it held is delivered again, from the start, *)
(* and the outcomes it waited for reach nobody.                             *)
ConsumerCrash ==
  /\ \E j \in Jobs : InFlight(j)
  /\ Fault("consumerCrash")
  /\ job' = [j \in Jobs |-> IF InFlight(j)
                            THEN [job[j] EXCEPT !.pc = "queued", !.img = NoKey]
                            ELSE job[j]]
  /\ call' = [c \in Calls |-> [call[c] EXCEPT !.from = NoJob]]
  /\ UNCHANGED <<storageVars, row, created, req>>

(* Seven days pass for an object under tmp/. *)
Expiry(k) ==
  /\ Fault("expiry")
  /\ ExpireObject(k)
  /\ UNCHANGED <<row, created, req, call, job>>

-----------------------------------------------------------------------------
Handler(r) ==
  \/ FindMissing(r) \/ RetryFind(r) \/ UpdateFind(r) \/ DeleteFind(r)
  \/ CheckOriginal(r) \/ DeleteImage(r) \/ StorePhoto(r) \/ DeleteOriginal(r)
  \/ Save(r) \/ Reply(r) \/ DeleteRow(r)

ApplyResult(c) == ApplyUpdate(c) \/ ApplyLookup(c) \/ ApplyFinish(c)

Consumer(j) ==
  \/ CheckPending(j) \/ SkipUnreadable(j) \/ LoadOriginal(j)
  \/ GenerationFails(j) \/ StoreGenerated(j) \/ GenerationSucceeds(j)
  \/ OutcomeTimeout(j) \/ DiscardImage(j) \/ DeleteTempOriginal(j)

Environment ==
  \/ \E i \in Items : BecomeStale(i)
  \/ \E j \in Jobs : Redeliver(j)
  \/ \E k \in Keys : Expiry(k)
  \/ ConsumerCrash
  \/ WardrobeCrash

Next ==
  \/ Submit
  \/ \E r \in Requests : Handler(r)
  \/ \E c \in Calls : ApplyResult(c)
  \/ \E j \in Jobs : Consumer(j)
  \/ Sweep
  \/ Environment

Spec == Init /\ [][Next]_vars

=============================================================================
