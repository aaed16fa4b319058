-------------------------- MODULE ImageProperties --------------------------
(***************************************************************************)
(* What the product-image pipeline must guarantee.  The first group holds  *)
(* in every interleaving, crash included.  The second holds as long as no  *)
(* update overlaps a generation job and the wardrobe service stays up; the *)
(* README says which run shows each limit.                                 *)
(***************************************************************************)
EXTENDS ImagePipeline

Busy(r, ops) == req[r].op \in ops /\ req[r].pc \notin {"unsent", "find", "done"}

(* An update or a delete that has not finished (or never will: an error left *)
(* it unacked) may have removed an object of item i before saving the row.   *)
BeingChanged(i) ==
  \E r \in Requests : req[r].item = i /\ Busy(r, {"update", "delete"})

-----------------------------------------------------------------------------
(* Always. *)

Consistent(e) ==
  /\ e.status = "pending" <=> e.since # "none"
  /\ e.status \in {"pending", "failed"} <=> e.temp # NoKey
  /\ e.status = "absent" => e.img = NoKey

(* The three image columns always agree: a pending item carries the time     *)
(* stamp the sweep looks for (or it would be pending for ever), a pending or *)
(* failed one the original a retry needs, a ready one holds no original.     *)
(* They are written by six handlers, of which all but two save a copy read   *)
(* earlier.                                                                  *)
RowsConsistent == \A i \in Items : Consistent(row[i])

(* The image an item shows never lies under tmp/, where the seven-day rule   *)
(* would delete it, and the original it retains always does.                 *)
PrefixesKept ==
  \A i \in Items :
    /\ row[i].img # NoKey => prefix[row[i].img] = "user"
    /\ row[i].temp # NoKey => prefix[row[i].temp] = "tmp"

(* No two items share an object, so dropping one item's files, which every   *)
(* handler does by name alone, never takes another item's away.              *)
NoSharedObject ==
  \A i, k \in Items : i # k =>
    {row[i].img, row[i].temp} \cap {row[k].img, row[k].temp} \subseteq {NoKey}

ClientChanges(i) ==
  \E r \in Requests : /\ req[r].pc \in {"save", "delRow"}
                     /\ req'[r].pc # req[r].pc
                     /\ i \in {req[r].item, req'[r].item}

OnlyClientsChangeReady ==
  \A i \in Items :
    row[i].status = "ready" /\ row'[i] # row[i] => ClientChanges(i)

(* A job, a redelivered job, a late RPC or the sweep never touches an item   *)
(* that is ready: only a client's own save or delete does.                   *)
ReadyLeftAlone == [][OnlyClientsChangeReady]_vars

-----------------------------------------------------------------------------
(* While updates stay clear of jobs and the wardrobe service stays up. *)

(* A pending or failed item still has the photo it was created from, or the  *)
(* seven-day rule took it: "Generate again" works until then.                *)
OriginalRetained ==
  \A i \in Items :
    row[i].status \in {"pending", "failed"} =>
      \/ row[i].temp \in stored \cup expired
      \/ BeingChanged(i)

(* The image an item shows is in the bucket: no job, redelivery or late      *)
(* result deletes it.                                                        *)
ImageStored ==
  \A i \in Items :
    row[i].img # NoKey => row[i].img \in stored \/ BeingChanged(i)

(* A handler between its first step and its save or delete of the row. *)
Writing(r) == InProgress(r) /\ req[r].pc # "reply"

OriginalOwned(k) ==
  \/ \E i \in Items : row[i].temp = k
  \/ \E r \in Requests : Writing(r) /\ k \in {req[r].entity.temp, req[r].old}
  \/ \E j \in Jobs : job[j].temp = k

(* Without a crash, a timeout or a storage error every object under tmp/ is  *)
(* the original of an item or is still in the hands of a handler or a job:   *)
(* the lifecycle rule has nothing to sweep up.                               *)
OriginalsAccounted ==
  faults = {} => \A k \in stored : prefix[k] = "tmp" => OriginalOwned(k)

ImageOwned(k) ==
  \/ \E i \in Items : row[i].img = k
  \/ \E r \in Requests : Writing(r) /\ req[r].entity.img = k
  \/ \E j \in Jobs :
       job[j].img = k /\ job[j].pc \in {"generated", "discard", "discardGone"}
  \/ \E c \in Calls :
       \/ call[c].img = k /\ call[c].pc \in {"sent", "missed"}
       \/ call[c].prev = k /\ call[c].pc = "applied"

(* A stored image loses its last owner, and so stays in the bucket for good, *)
(* only by a fault, when a result no consumer waits for any more comes too   *)
(* late, or when a delete removes a row that has got an image since it was   *)
(* read.  In particular two deliveries of one job never orphan an image.     *)
ImagesAccounted ==
  [][\A k \in stored \cap stored' :
       prefix[k] = "user" /\ ImageOwned(k) /\ ~ImageOwned(k)' =>
         \/ faults' # faults
         \/ \E c \in Calls : call[c].img = k /\ call[c].from = NoJob
         \/ \E r \in Requests : /\ req[r].pc = "delRow"
                                /\ req'[r].pc = "done"
                                /\ row[req[r].item].img = k
                                /\ req[r].entity.img # k]_vars

(* A retry queues no second, paid generation: when it saves the row, some    *)
(* awaits after it read it, nothing has made the item pending in between.    *)
(* Run doubleretry: it holds for one retry at a time only.                   *)
NoSecondJob ==
  [][\A r \in Requests :
       req[r].pc = "save" /\ req[r].op = "retry" /\ req'[r].pc = "reply" =>
         row[req[r].item].status # "pending"]_vars

(* An item as its client sees it, and a request: open until it changes the   *)
(* row or ends otherwise; an edit without a photo carries the status it read.*)
StateOf(i) ==
  IF row[i].status = "absent" /\ i \in created THEN "removed" ELSE row[i].status

AskedOf(r) ==
  IF Writing(r)
  THEN [phase |-> "open", op |-> req[r].op, photo |-> req[r].photo,
        item |-> req[r].item,
        read |-> IF req[r].op = "update" /\ req[r].photo = "none" /\ req[r].pc # "find"
                 THEN req[r].entity.status ELSE "none"]
  ELSE [phase |-> IF req[r].pc = "unsent" THEN "unsent" ELSE "over",
        op |-> "none", photo |-> "none", item |-> NoItem, read |-> "none"]

ItemStates == [i \in Items |-> StateOf(i)]
ItemImages == [i \in Items |-> row[i].img]
Asks == [r \in Requests |-> AskedOf(r)]

Lifecycle ==
  INSTANCE ItemLifecycle
    WITH Images <- Keys, NoImage <- NoKey,
         state <- ItemStates, image <- ItemImages, asked <- Asks

(* The pipeline implements what a client is promised about an item.  A late  *)
(* result turns no failed item ready and no ready one to another image: for  *)
(* either there must be a request of its own, which takes effect only once.  *)
LifecycleSpec == Lifecycle!Spec

-----------------------------------------------------------------------------
(* Liveness. *)

(* The timer of the sweep, the clock and the consumer go on; nothing is      *)
(* assumed of clients, of the broker's redeliveries or of the wardrobe       *)
(* service's answer to a job.                                                *)
Fairness ==
  /\ WF_vars(Sweep)
  /\ \A i \in Items : WF_vars(BecomeStale(i))
  /\ \A j \in Jobs : WF_vars(Consumer(j))

FairSpec == Spec /\ Fairness

(* No item stays pending for ever, whatever happened to its job.             *)
PendingResolves ==
  \A i \in Items : row[i].status = "pending" ~> row[i].status # "pending"

(* The consumer never holds a message for ever: every job is acked, even if  *)
(* the wardrobe service never answers.                                       *)
JobsDrain == \A j \in Jobs : job[j].pc # "idle" ~> job[j].pc = "idle"

=============================================================================
