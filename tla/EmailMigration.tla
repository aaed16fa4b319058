---------------------------- MODULE EmailMigration ----------------------------
(***************************************************************************)
(* The migration NormaliseUserAccountEmail: `up` folds the e-mail of every *)
(* account and renames the later ones of those that then collide, `down`   *)
(* restores what `up` changed, and accounts are made in between.  The      *)
(* table's exact UNIQUE("email") is checked at every row written.          *)
(***************************************************************************)
EXTENDS EmailAddress, FiniteSetsExt, Functions

CONSTANTS
  OldIds,   (* Accounts from before the migration.                           *)
  NewIds,   (* Accounts made between up and down.                            *)
  OldMarks  (* The "+dup<id>" marks an old address may already have.         *)

ASSUME MigrationAssumption ==
  /\ OldIds \subseteq Nat /\ NewIds \subseteq Nat /\ OldIds \cap NewIds = {}
  /\ OldMarks \subseteq Seq(Nat)
  /\ "restore" \notin Mailboxes   (* A placeholder has no "@". *)

VARIABLES
  email,     (* The column, of each account.                                 *)
  original,  (* The column as the migration found it.                        *)
  backup,    (* The backup table.                                            *)
  phase,
  todo       (* The rows the current statement has still to write.           *)

migrationVars == <<email, original, backup, phase, todo>>

OldAddress == [box : Mailboxes, dup : OldMarks, form : Forms]
Placeholder(id) == [box |-> "restore", dup |-> <<id>>, form |-> "clean"]

MigrationTypeOK ==
  /\ phase # "old" => OldIds \subseteq DOMAIN email
  /\ DOMAIN email \subseteq OldIds \cup NewIds
  /\ \A id \in DOMAIN email : email[id] \in Address \cup {Placeholder(id)}
  /\ original \in [IF phase = "old" THEN {} ELSE OldIds -> OldAddress]
  /\ DOMAIN backup \subseteq OldIds
  /\ \A id \in DOMAIN backup : backup[id] = original[id]
  /\ phase \in {"old", "groups", "group", "guard", "up", "vacate", "restore", "down",
                "failed", "stuck"}
  /\ todo \subseteq OldIds

MigrationInit ==
  /\ original = <<>>
  /\ email = <<>>
  /\ backup = <<>>
  /\ phase = "old"
  /\ todo = {}

-------------------------------------------------------------------------------
Target(id) == Folded(original[id])
Group(target) == {id \in OldIds : Target(id) = target}
Winner(target) == Min(Group(target))

(* Mistaken forms of the next two definitions: the winner first; the backup  *)
(* written straight back.                                                    *)
WinnerFirst(ids) == Min(ids)
NotVacated(id) == email[id]

(* The order in which a group is written: the losers by id, then the winner. *)
NextOf(ids) ==
  LET losers == {id \in ids : id # Winner(Target(id))}
  IN  IF losers = {} THEN Min(ids) ELSE Min(losers)

(* What the first pass of down puts in a row's place. *)
Vacated(id) == Placeholder(id)

NewEmail(id) ==
  IF id = Winner(Target(id)) THEN Target(id) ELSE Renamed(Target(id), id)

(* UNIQUE("email") *)
Free(id, e) == \A other \in DOMAIN email \ {id} : email[other] # e

(* One row of an UPDATE, or the end of the transaction (whose rollback is    *)
(* left out: nothing happens after it).                                      *)
Write(id, e, failure) ==
  IF Free(id, e)
  THEN email' = [email EXCEPT ![id] = e] /\ UNCHANGED phase
  ELSE phase' = failure /\ UNCHANGED email

(* The accounts made so far: their addresses are distinct only as they are   *)
(* written.                                                                  *)
OldSignUps ==
  /\ phase = "old"
  /\ phase' = "groups"
  /\ original' \in {f \in [OldIds -> OldAddress] : IsInjective(f)}
  /\ email' = original'
  /\ UNCHANGED <<backup, todo>>

(* up: the groups in any order, of which the rows of each not yet written, *)
NextGroup ==
  /\ phase = "groups"
  /\ IF \A id \in OldIds : email[id] = NewEmail(id)
     THEN phase' = "guard" /\ UNCHANGED todo
     ELSE /\ phase' = "group"
          /\ \E id \in OldIds : /\ email[id] # NewEmail(id)
                                /\ todo' = Group(Target(id))
  /\ UNCHANGED <<email, original, backup>>

(* row by row, its old address in the backup first. *)
RewriteRow ==
  LET id == NextOf(todo) IN
  /\ phase = "group"
  /\ todo # {}
  /\ todo' = todo \ {id}
  /\ IF email[id] = NewEmail(id)
     THEN UNCHANGED <<email, backup, phase>>
     ELSE /\ backup' = [k \in DOMAIN backup \cup {id} |->
                          IF k = id THEN email[id] ELSE backup[k]]
          /\ Write(id, NewEmail(id), "failed")
  /\ UNCHANGED original

EndGroup ==
  /\ phase = "group"
  /\ todo = {}
  /\ phase' = "groups"
  /\ UNCHANGED <<email, original, backup, todo>>

(* The guard's query, then the unique index on lower(email). *)
Remaining == {id \in DOMAIN email :
               \E other \in DOMAIN email \ {id} : Lower(email[other]) = Lower(email[id])}

Guard ==
  /\ phase = "guard"
  /\ phase' = IF Remaining = {} THEN "up" ELSE "failed"
  /\ UNCHANGED <<email, original, backup, todo>>

(* A sign-up under the new index. *)
SignUp(id, e) ==
  /\ phase = "up"
  /\ id \notin DOMAIN email
  /\ \A other \in DOMAIN email : Lower(email[other]) # e
  /\ email' = [k \in DOMAIN email \cup {id} |-> IF k = id THEN e ELSE email[k]]
  /\ UNCHANGED <<original, backup, phase, todo>>

(* down: two statements over the rows of the backup, each in an order of the *)
(* database's choice.                                                        *)
BeginPass(from, next) ==
  /\ phase = from
  /\ phase' = next
  /\ todo' = DOMAIN backup
  /\ UNCHANGED <<email, original, backup>>

VacateRow(id) ==
  /\ phase = "vacate"
  /\ id \in todo
  /\ todo' = todo \ {id}
  /\ Write(id, Vacated(id), "stuck")
  /\ UNCHANGED <<original, backup>>

RestoreRow(id) ==
  /\ phase = "restore"
  /\ id \in todo
  /\ todo' = todo \ {id}
  /\ Write(id, backup[id], "stuck")
  /\ UNCHANGED <<original, backup>>

EndDown ==
  /\ phase = "restore"
  /\ todo = {}
  /\ phase' = "down"
  /\ backup' = <<>>
  /\ UNCHANGED <<email, original, todo>>

MigrationNext ==
  \/ OldSignUps \/ NextGroup \/ RewriteRow \/ EndGroup \/ Guard
  \/ \E id \in NewIds, box \in Mailboxes, dup \in OldMarks :
       SignUp(id, [box |-> box, dup |-> dup, form |-> "clean"])
  \/ BeginPass("up", "vacate")
  \/ todo = {} /\ BeginPass("vacate", "restore")
  \/ \E id \in OldIds : VacateRow(id) \/ RestoreRow(id)
  \/ EndDown

MigrationSpec == MigrationInit /\ [][MigrationNext]_migrationVars

-------------------------------------------------------------------------------
(* up fails only where an address had a +dup mark before, never by its       *)
(* guard.  Else every account has an address no other account has in lower   *)
(* case, and the oldest of each group its own.  down then always succeeds,   *)
(* whatever accounts were made, and gives every old account its very address *)
(* back.                                                                     *)
MigrationSound ==
  /\ phase = "failed" => \E id \in OldIds : original[id].dup # <<>>
  /\ phase \in {"guard", "up"} => Remaining = {}
  /\ phase = "up" => \A id \in OldIds : id = Winner(Target(id)) => email[id] = Target(id)
  /\ phase # "stuck"
  /\ phase = "down" => \A id \in OldIds : email[id] = original[id]

===============================================================================
