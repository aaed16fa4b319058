---------------------------- MODULE ItemLifecycle ----------------------------
(***************************************************************************)
(* What a client is promised about one item's image, whatever services,    *)
(* queues and buckets are behind it.  An item shows an image or none; while*)
(* it is pending a new image is being made and the old one stays visible.  *)
(* A pending item gets an image it did not show before, or fails.  Nothing *)
(* else happens to an item without a request for it, and a request has its *)
(* effect once: a failed item is generated again by a retry or a new photo *)
(* only, a ready one changes by a new photo or a removal only, and a       *)
(* removed one never comes back.  The one exception is Edit, a fault of    *)
(* the program that the model does not hide.                               *)
(***************************************************************************)
CONSTANTS Items, NoItem, Images, NoImage, Requests

VARIABLES state, image, asked

lifecycleVars == <<state, image, asked>>

Live(i) == state[i] \in {"pending", "ready", "failed"}

(* A request not sent yet, and one that has had its effect or never will.   *)
Unsent == [phase |-> "unsent", op |-> "none", photo |-> "none",
           item |-> NoItem, read |-> "none"]
Over == [Unsent EXCEPT !.phase = "over"]

Asked(r, op, i) ==
  asked[r].phase = "open" /\ asked[r].op = op /\ asked[r].item = i

Settled(r) == asked' = [asked EXCEPT ![r] = Over]

Init ==
  /\ state = [i \in Items |-> "absent"]
  /\ image = [i \in Items |-> NoImage]
  /\ asked = [r \in Requests |-> Unsent]

-----------------------------------------------------------------------------
(* Requests, each for an item there is or has been, or for a new one.       *)

Ask(r) ==
  /\ asked[r] = Unsent
  /\ \E op \in {"create", "update", "retry", "delete"},
        photo \in {"none", "plain", "generate"}, i \in Items \cup {NoItem} :
       /\ IF op = "create" THEN i = NoItem ELSE i # NoItem /\ state[i] # "absent"
       /\ op \in {"retry", "delete"} => photo = "none"
       /\ asked' = [asked EXCEPT ![r] = [phase |-> "open", op |-> op,
                      photo |-> photo, item |-> i, read |-> "none"]]
  /\ UNCHANGED <<state, image>>

(* An edit without a photo notes the state it will write back. *)
Read(r, i) ==
  /\ Asked(r, "update", i) /\ asked[r].photo = "none" /\ asked[r].read = "none"
  /\ Live(i)
  /\ asked' = [asked EXCEPT ![r].read = state[i]]
  /\ UNCHANGED <<state, image>>

(* Refused, failed, or nothing about the image to change. *)
NoEffect(r) ==
  /\ asked[r].phase = "open"
  /\ Settled(r)
  /\ UNCHANGED <<state, image>>

Add(r, i) ==
  /\ Asked(r, "create", NoItem)
  /\ state[i] = "absent"
  /\ \/ /\ asked[r].photo = "generate"
        /\ state' = [state EXCEPT ![i] = "pending"]
        /\ UNCHANGED image
     \/ /\ asked[r].photo # "generate"
        /\ state' = [state EXCEPT ![i] = "ready"]
        /\ \E m \in IF asked[r].photo = "plain" THEN Images ELSE {NoImage} :
             image' = [image EXCEPT ![i] = m]
  /\ Settled(r)

(* A client replaces the photo, as the image or as the input of a new one.  *)
Replace(r, i) ==
  /\ Asked(r, "update", i)
  /\ Live(i)
  /\ \/ /\ asked[r].photo = "generate"
        /\ state' = [state EXCEPT ![i] = "pending"]
        /\ UNCHANGED image
     \/ /\ asked[r].photo = "plain"
        /\ state' = [state EXCEPT ![i] = "ready"]
        /\ \E m \in Images \ {image[i]} : image' = [image EXCEPT ![i] = m]
  /\ Settled(r)

GenerateAgain(r, i) ==
  /\ Asked(r, "retry", i)
  /\ state[i] = "failed"
  /\ state' = [state EXCEPT ![i] = "pending"]
  /\ UNCHANGED image
  /\ Settled(r)

(* The fault: an edit that read the item as pending puts it back there,     *)
(* although it has failed since.                                            *)
Edit(r, i) ==
  /\ Asked(r, "update", i) /\ asked[r].photo = "none" /\ asked[r].read = "pending"
  /\ state[i] = "failed"
  /\ state' = [state EXCEPT ![i] = "pending"]
  /\ UNCHANGED image
  /\ Settled(r)

Remove(r, i) ==
  /\ Asked(r, "delete", i)
  /\ Live(i)
  /\ state' = [state EXCEPT ![i] = "removed"]
  /\ image' = [image EXCEPT ![i] = NoImage]
  /\ Settled(r)

-----------------------------------------------------------------------------
(* The outcome of a generation, which no request times. *)

Succeed(i) ==
  /\ state[i] = "pending"
  /\ state' = [state EXCEPT ![i] = "ready"]
  /\ \E m \in Images \ {image[i]} : image' = [image EXCEPT ![i] = m]
  /\ UNCHANGED asked

Fail ==
  \E S \in SUBSET {i \in Items : state[i] = "pending"} :
    /\ state' = [i \in Items |-> IF i \in S THEN "failed" ELSE state[i]]
    /\ UNCHANGED <<image, asked>>

Next ==
  \/ Fail
  \/ \E i \in Items : Succeed(i)
  \/ \E r \in Requests :
       \/ Ask(r) \/ NoEffect(r)
       \/ \E i \in Items : \/ Read(r, i) \/ Add(r, i) \/ Replace(r, i)
                           \/ GenerateAgain(r, i) \/ Edit(r, i) \/ Remove(r, i)

Spec == Init /\ [][Next]_lifecycleVars

=============================================================================
