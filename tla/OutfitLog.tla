------------------------------ MODULE OutfitLog ------------------------------
(***************************************************************************)
(* The log of worn outfits in the wardrobe service: rows of outfit_log,    *)
(* their join rows in outfit_log_item, which no foreign key guards, and    *)
(* the removal of an item with its join rows.  Requests interleave at      *)
(* every await; one that ends in an error other than an HttpException is   *)
(* not acked and starts again when the service restarts.                   *)
(***************************************************************************)
EXTENDS Naturals, FiniteSets

CONSTANTS
  LogItems,     (* Item ids a request may name.                             *)
  MyItems,      (* Those of the account.                                    *)
  LogRequests,  (* Requests at work at once, removals of items apart.       *)
  MaxLogs,      (* Logs ever written: bounds the model.                     *)
  MaxRestarts   (* Restarts of the service: bounds the model.               *)

ASSUME OutfitLogAssumption ==
  MyItems \subseteq LogItems /\ MaxLogs \in Nat /\ MaxRestarts \in Nat

LogIds == 1..MaxLogs

VARIABLES
  wardrobe,    (* The account's items.                                       *)
  logs,        (* outfit_log                                                 *)
  logsWritten, (* Ids given to logs.                                         *)
  entries,     (* outfit_log_item.  `late`: written after the removal of its *)
               (* item had begun.                                            *)
  removing,    (* Items whose join rows a removal has deleted.               *)
  logRequest,  (* Progress of the requests.                                  *)
  restarts

logVars == <<wardrobe, logs, logsWritten, entries, removing, logRequest, restarts>>

Entry == [log : LogIds, item : LogItems, by : LogRequests, late : BOOLEAN]

(* `items` is the list of a request, `given` whether it has one, `kept` the  *)
(* join rows that save(log) will find in log.items.                          *)
LogRequest == [kind : {"none", "create", "update", "delete"},
               pc : {"idle", "start", "clear", "check", "insert", "save", "drop", "unacked"},
               log : LogIds \cup {0}, given : BOOLEAN, items : SUBSET LogItems,
               kept : SUBSET Entry]
NoRequest == [kind |-> "none", pc |-> "idle", log |-> 0, given |-> FALSE,
              items |-> {}, kept |-> {}]

LogTypeOK ==
  /\ wardrobe \subseteq MyItems
  /\ logs \subseteq LogIds
  /\ logsWritten \in 0..MaxLogs
  /\ entries \subseteq Entry
  /\ removing \subseteq MyItems
  /\ logRequest \in [LogRequests -> LogRequest]
  /\ restarts \in 0..MaxRestarts

LogInit ==
  /\ wardrobe = MyItems
  /\ logs = {}
  /\ logsWritten = 0
  /\ entries = {}
  /\ removing = {}
  /\ logRequest = [r \in LogRequests |-> NoRequest]
  /\ restarts = 0

-------------------------------------------------------------------------------
EntriesOf(log) == {e \in entries : e.log = log}

RequestGoto(r, pc) == logRequest' = [logRequest EXCEPT ![r].pc = pc]
RequestDone(r) == logRequest' = [logRequest EXCEPT ![r] = NoRequest]

(* RpcException, EntityNotFoundError and database errors. *)
RequestFails(r) == RequestGoto(r, "unacked")

AskLog(r) ==
  /\ logRequest[r].pc = "idle"
  /\ \E kind \in {"create", "update", "delete"}, log \in 0..logsWritten,
        given \in BOOLEAN, S \in SUBSET LogItems :
       /\ (kind = "create") <=> (log = 0)
       /\ (kind = "create" => given) /\ (kind = "delete" => ~given) /\ (~given => S = {})
       /\ logRequest' = [logRequest EXCEPT ![r] =
            [NoRequest EXCEPT !.kind = kind, !.pc = "start", !.log = log,
                              !.given = given, !.items = S]]
  /\ UNCHANGED <<wardrobe, logs, logsWritten, entries, removing, restarts>>

(* create: the log is saved before its items are looked at.  A date in the   *)
(* future is an error at once.                                               *)
SaveLog(r) ==
  /\ logRequest[r].pc = "start"
  /\ logRequest[r].kind = "create"
  /\ \/ /\ RequestFails(r)
        /\ UNCHANGED <<logs, logsWritten>>
     \/ /\ logsWritten < MaxLogs
        /\ logsWritten' = logsWritten + 1
        /\ logs' = logs \cup {logsWritten'}
        /\ logRequest' = [logRequest EXCEPT ![r].pc = "clear", ![r].log = logsWritten']
  /\ UNCHANGED <<wardrobe, entries, removing, restarts>>

(* update: the log is read with its items, *)
FindLog(r) ==
  /\ logRequest[r].pc = "start"
  /\ logRequest[r].kind = "update"
  /\ \/ RequestFails(r)
     \/ /\ logRequest[r].log \in logs
        /\ logRequest' = [logRequest EXCEPT
             ![r].pc = IF logRequest[r].given THEN "clear" ELSE "save",
             ![r].kept = EntriesOf(logRequest[r].log)]
  /\ UNCHANGED <<wardrobe, logs, logsWritten, entries, removing, restarts>>

AfterReplace(q) == IF q.kind = "create" THEN "idle" ELSE "save"

AfterClear(q) ==
  IF q.kind = "delete" THEN "drop"
  ELSE IF q.items = {} THEN AfterReplace(q) ELSE "check"

(* replaceItems, like delete, drops the old join rows first, *)
ClearEntries(r) ==
  /\ logRequest[r].pc = "clear"
  /\ entries' = entries \ EntriesOf(logRequest[r].log)
  /\ LET next == AfterClear(logRequest[r])
     IN IF next = "idle" THEN RequestDone(r)
        ELSE logRequest' = [logRequest EXCEPT ![r].pc = next, ![r].kept = {}]
  /\ UNCHANGED <<wardrobe, logs, logsWritten, removing, restarts>>

(* Mistaken forms: the items of another account pass; a removed item's join  *)
(* rows stay (BUG-011).                                                      *)
AnyOwned(items) == items \cap wardrobe # {}
JoinRowsForgotten(item) == {}

AllOwned(items) == items \subseteq wardrobe

(* then asks for the items, *)
CheckOwned(r) ==
  /\ logRequest[r].pc = "check"
  /\ IF AllOwned(logRequest[r].items) THEN RequestGoto(r, "insert") ELSE RequestFails(r)
  /\ UNCHANGED <<wardrobe, logs, logsWritten, entries, removing, restarts>>

(* then writes a join row for each. *)
InsertEntries(r) ==
  LET q == logRequest[r]
      new == {[log |-> q.log, item |-> i, by |-> r,
               late |-> i \in removing \/ i \notin wardrobe] : i \in q.items}
  IN
  /\ q.pc = "insert"
  /\ entries' = entries \cup new
  /\ IF AfterReplace(q) = "idle" THEN RequestDone(r)
     ELSE logRequest' = [logRequest EXCEPT ![r].pc = "save", ![r].kept = new]
  /\ UNCHANGED <<wardrobe, logs, logsWritten, removing, restarts>>

(* save(log) inserts a log that is gone meanwhile.  For join rows the loaded *)
(* list does not hold, the ORM sets their NOT NULL column to null: an error. *)
SaveUpdate(r) ==
  LET q == logRequest[r] IN
  /\ q.pc = "save"
  /\ \/ /\ RequestFails(r)
        /\ UNCHANGED logs
     \/ /\ q.log \in logs => EntriesOf(q.log) \subseteq q.kept
        /\ logs' = logs \cup {q.log}
        /\ RequestDone(r)
  /\ UNCHANGED <<wardrobe, logsWritten, entries, removing, restarts>>

(* delete: the log must be there; its join rows go, then the log. *)
FindDoomedLog(r) ==
  /\ logRequest[r].pc = "start"
  /\ logRequest[r].kind = "delete"
  /\ IF logRequest[r].log \in logs THEN RequestGoto(r, "clear") ELSE RequestFails(r)
  /\ UNCHANGED <<wardrobe, logs, logsWritten, entries, removing, restarts>>

DropLog(r) ==
  /\ logRequest[r].pc = "drop"
  /\ logs' = logs \ {logRequest[r].log}
  /\ RequestDone(r)
  /\ UNCHANGED <<wardrobe, logsWritten, entries, removing, restarts>>

-------------------------------------------------------------------------------
(* WardrobeService.delete, from its join rows on. *)
JoinRows(item) == {e \in entries : e.item = item}

RemoveJoinRows(item) ==
  /\ item \in wardrobe \ removing
  /\ removing' = removing \cup {item}
  /\ entries' = entries \ JoinRows(item)
  /\ UNCHANGED <<wardrobe, logs, logsWritten, logRequest, restarts>>

RemoveItemRow(item) ==
  /\ item \in removing
  /\ removing' = removing \ {item}
  /\ wardrobe' = wardrobe \ {item}
  /\ UNCHANGED <<logs, logsWritten, entries, logRequest, restarts>>

(* A restart: what was not acked is delivered again, from the start. *)
Restart ==
  /\ restarts < MaxRestarts
  /\ restarts' = restarts + 1
  /\ removing' = {}
  /\ logRequest' = [r \in LogRequests |->
       LET q == logRequest[r] IN
       IF q.pc = "idle" THEN q
       ELSE [q EXCEPT !.pc = "start", !.kept = {},
                      !.log = IF q.kind = "create" THEN 0 ELSE @]]
  /\ UNCHANGED <<wardrobe, logs, logsWritten, entries>>

LogNext ==
  \/ \E r \in LogRequests :
       \/ AskLog(r) \/ SaveLog(r) \/ FindLog(r) \/ ClearEntries(r) \/ CheckOwned(r)
       \/ InsertEntries(r) \/ SaveUpdate(r) \/ FindDoomedLog(r) \/ DropLog(r)
  \/ \E i \in MyItems : RemoveJoinRows(i) \/ RemoveItemRow(i)
  \/ Restart

LogSpec == LogInit /\ [][LogNext]_logVars

-------------------------------------------------------------------------------
(* Every join row names an item of the account, and one that still exists,   *)
(* unless it was written after the removal of that item had begun.           *)
NoDanglingEntries ==
  \A e \in entries : e.item \in MyItems /\ (e.item \in wardrobe \/ e.late)

===============================================================================
