---------------------------- MODULE MediaStorage ----------------------------
(***************************************************************************)
(* The bucket behind the media-storage service.  An upload is stored under *)
(* a fresh name (a UUID) below the tmp/ prefix or below the users' image   *)
(* folder; a delete is idempotent; the bucket's lifecycle rule removes     *)
(* tmp/ objects after seven days.  The object's bytes do not matter here,  *)
(* only which names exist and under which prefix they were stored.         *)
(***************************************************************************)

CONSTANTS
  Keys,    (* Object names a UUID may yield.  Their number bounds the model. *)
  NoKey    (* The null of img_path and temp_image_key.                       *)

ASSUME NoKeyAssumption == NoKey \notin Keys

VARIABLES
  prefix,   (* Prefix each name was stored under, "none" while it is unused.  *)
  stored,   (* The objects in the bucket.                                     *)
  expired   (* tmp/ objects the lifecycle rule removed.                       *)

storageVars == <<prefix, stored, expired>>

StorageTypeOK ==
  /\ prefix \in [Keys -> {"none", "tmp", "user"}]
  /\ stored \subseteq Keys
  /\ expired \subseteq Keys

StorageInit ==
  /\ prefix = [k \in Keys |-> "none"]
  /\ stored = {}
  /\ expired = {}

(* A mistaken UnusedKeys: objects are stored under their original names. *)
AnyKeys == Keys

(* uuidv4() never repeats: an upload takes a name nothing was stored under. *)
UnusedKeys == {k \in Keys : prefix[k] = "none"}
NewKey == CHOOSE k \in UnusedKeys : TRUE

Upload(p) ==
  /\ UnusedKeys # {}
  /\ prefix' = [prefix EXCEPT ![NewKey] = p]
  /\ stored' = stored \cup {NewKey}
  /\ UNCHANGED expired

(* DeleteObject succeeds whether or not the object is there. *)
DeleteObject(k) ==
  /\ stored' = stored \ {k}
  /\ UNCHANGED <<prefix, expired>>

Exists(k) == k \in stored

(* The rule ensureTempPrefixLifecycleRule installs covers tmp/ only. *)
ExpireObject(k) ==
  /\ k \in stored
  /\ prefix[k] = "tmp"
  /\ stored' = stored \ {k}
  /\ expired' = expired \cup {k}
  /\ UNCHANGED prefix

=============================================================================
