---------------------------- MODULE ServiceProofs ----------------------------
(***************************************************************************)
(* Theorems about the services that keep a table or an answer of their     *)
(* own: the outfit log, the accounts, the migration of their addresses and *)
(* the image analysis; each for any number of rows, requests and restarts. *)
(* Last, that the run which checks them one at a time checks each as it is *)
(* specified.                                                              *)
(***************************************************************************)
EXTENDS MCServices, ConversationProofs, ToolLoopProofs, WellFoundedInduction

-------------------------------------------------------------------------------

(* Join rows are safe because of what a removal in progress keeps true: once *)
(* it has deleted an item's join rows, only rows marked late name that item. *)
(* A request about to insert has had its items checked.                      *)
EntriesSound ==
  /\ removing \subseteq wardrobe
  /\ \A e \in entries :
       e.item \in MyItems /\ (e.late \/ e.item \in wardrobe \ removing)

CheckedBeforeInsert ==
  \A r \in LogRequests : logRequest[r].pc = "insert" => logRequest[r].items \subseteq MyItems

(* A request past its first step is about a log that was written once.       *)
Underway == {"clear", "check", "insert", "save", "drop"}
LogKnown == \A r \in LogRequests : logRequest[r].pc \in Underway => logRequest[r].log \in LogIds

(* Logs, join rows and requests name logs that have been written, whichever   *)
(* of them are gone again; a request for a new log names none yet.            *)
OnlyWritten ==
  /\ logs \subseteq 1..logsWritten
  /\ \A e \in entries : e.log \in 1..logsWritten
  /\ \A r \in LogRequests : logRequest[r].log \in 0..logsWritten

LogInv == LogTypeOK /\ EntriesSound /\ CheckedBeforeInsert /\ LogKnown /\ OnlyWritten

-------------------------------------------------------------------------------
LEMMA NoRequestTyped == NoRequest \in LogRequest
BY DEF NoRequest, LogRequest

(* A typed request stays typed when a step of its handler changes it. *)
LEMMA RequestTyped ==
  ASSUME NEW q \in LogRequest
  PROVE  /\ \A next \in {"idle", "start", "clear", "check", "insert", "save", "drop", "unacked"} :
              [q EXCEPT !.pc = next] \in LogRequest
         /\ \A log \in LogIds \cup {0} : [q EXCEPT !.log = log] \in LogRequest
         /\ \A kept \in SUBSET Entry : [q EXCEPT !.kept = kept] \in LogRequest
BY DEF LogRequest

LEMMA GotoTyped ==
  ASSUME logRequest \in [LogRequests -> LogRequest], NEW r \in LogRequests,
         NEW next \in {"idle", "start", "clear", "check", "insert", "save", "drop", "unacked"}
  PROVE  /\ RequestGoto(r, next) => logRequest' \in [LogRequests -> LogRequest]
         /\ RequestDone(r) => logRequest' \in [LogRequests -> LogRequest]
<1>1. [logRequest[r] EXCEPT !.pc = next] \in LogRequest
  BY RequestTyped
<1> QED
  BY <1>1, NoRequestTyped DEF RequestGoto, RequestDone

LEMMA LogInitType == LogInit => LogTypeOK
BY OutfitLogAssumption, NoRequestTyped DEF LogInit, LogTypeOK, LogIds

LEMMA EntriesTyped ==
  ASSUME LogTypeOK, NEW log
  PROVE  EntriesOf(log) \in SUBSET Entry
BY DEF LogTypeOK, EntriesOf

LEMMA AskLogType ==
  ASSUME LogTypeOK, NEW r \in LogRequests, AskLog(r)
  PROVE  LogTypeOK'
<1> USE OutfitLogAssumption DEF LogTypeOK
<1>1. PICK kind \in {"create", "update", "delete"}, log \in 0..logsWritten,
           given \in BOOLEAN, S \in SUBSET LogItems :
        logRequest' = [logRequest EXCEPT ![r] =
            [NoRequest EXCEPT !.kind = kind, !.pc = "start", !.log = log,
                              !.given = given, !.items = S]]
  BY DEF AskLog
<1>2. log \in LogIds \cup {0}
  BY DEF LogIds
<1>3. [NoRequest EXCEPT !.kind = kind, !.pc = "start", !.log = log,
                        !.given = given, !.items = S] \in LogRequest
  BY <1>2 DEF NoRequest, LogRequest
<1> QED
  BY <1>1, <1>3 DEF AskLog

LEMMA SaveLogType ==
  ASSUME LogTypeOK, NEW r \in LogRequests, SaveLog(r)
  PROVE  LogTypeOK'
<1> USE OutfitLogAssumption DEF LogTypeOK
<1>1. CASE RequestFails(r) /\ UNCHANGED <<logs, logsWritten>>
  BY <1>1, GotoTyped DEF SaveLog, RequestFails
<1>2. CASE /\ logsWritten < MaxLogs
           /\ logsWritten' = logsWritten + 1
           /\ logs' = logs \cup {logsWritten'}
           /\ logRequest' = [logRequest EXCEPT ![r].pc = "clear", ![r].log = logsWritten']
  <2>1. logsWritten' \in LogIds /\ logsWritten' \in 0..MaxLogs
    BY <1>2 DEF LogIds
  <2>2. [logRequest[r] EXCEPT !.pc = "clear"] \in LogRequest
    BY RequestTyped
  <2>3. [logRequest[r] EXCEPT !.pc = "clear", !.log = logsWritten'] \in LogRequest
    BY <2>1, <2>2, RequestTyped
  <2>4. logRequest' \in [LogRequests -> LogRequest]
    BY <1>2, <2>3
  <2> QED
    BY <1>2, <2>1, <2>4 DEF SaveLog
<1> QED
  BY <1>1, <1>2 DEF SaveLog

LEMMA FindLogType ==
  ASSUME LogTypeOK, NEW r \in LogRequests, FindLog(r)
  PROVE  LogTypeOK'
<1> USE DEF LogTypeOK
<1>1. CASE RequestFails(r)
  BY <1>1, GotoTyped DEF FindLog, RequestFails
<1>2. ASSUME NEW next \in {"clear", "save"},
             logRequest' = [logRequest EXCEPT ![r].pc = next,
                              ![r].kept = EntriesOf(logRequest[r].log)]
      PROVE  logRequest' \in [LogRequests -> LogRequest]
  <2>1. EntriesOf(logRequest[r].log) \in SUBSET Entry
    BY EntriesTyped
  <2>2. [logRequest[r] EXCEPT !.pc = next] \in LogRequest
    BY RequestTyped
  <2>3. [logRequest[r] EXCEPT !.pc = next, !.kept = EntriesOf(logRequest[r].log)] \in LogRequest
    BY <2>1, <2>2, RequestTyped
  <2> QED
    BY <1>2, <2>3
<1> QED
  BY <1>1, <1>2 DEF FindLog

LEMMA ClearEntriesType ==
  ASSUME LogTypeOK, NEW r \in LogRequests, ClearEntries(r)
  PROVE  LogTypeOK'
<1> USE DEF LogTypeOK
<1>1. logRequest' \in [LogRequests -> LogRequest]
  <2>1. AfterClear(logRequest[r]) \in {"drop", "idle", "save", "check"}
    BY DEF AfterClear, AfterReplace
  <2>2. CASE AfterClear(logRequest[r]) = "idle"
    BY <2>2, GotoTyped DEF ClearEntries
  <2>3. CASE AfterClear(logRequest[r]) # "idle"
    <3>1. [logRequest[r] EXCEPT !.pc = AfterClear(logRequest[r])] \in LogRequest
      BY <2>1, RequestTyped
    <3>2. [logRequest[r] EXCEPT !.pc = AfterClear(logRequest[r]), !.kept = {}] \in LogRequest
      BY <3>1, RequestTyped
    <3> QED
      BY <2>3, <3>2 DEF ClearEntries
  <2> QED
    BY <2>2, <2>3
<1> QED
  BY <1>1 DEF ClearEntries

LEMMA CheckOwnedType ==
  ASSUME LogTypeOK, NEW r \in LogRequests, CheckOwned(r)
  PROVE  LogTypeOK'
BY GotoTyped DEF LogTypeOK, CheckOwned, RequestFails

(* A new join row says that it is late if the item is going or gone. *)
LEMMA NewEntry ==
  ASSUME NEW log, NEW i, NEW r
  PROVE  LET e == [log |-> log, item |-> i, by |-> r,
                   late |-> i \in removing \/ i \notin wardrobe]
         IN  /\ log \in LogIds /\ i \in LogItems /\ r \in LogRequests => e \in Entry
             /\ e.item = i
             /\ e.late \/ i \in wardrobe \ removing
<1> DEFINE late == i \in removing \/ i \notin wardrobe
<1>1. late \in BOOLEAN /\ (late \/ i \in wardrobe \ removing)
  OBVIOUS
<1> HIDE DEF late
<1> DEFINE e == [log |-> log, item |-> i, by |-> r, late |-> late]
<1>2. log \in LogIds /\ i \in LogItems /\ r \in LogRequests => e \in Entry
  BY <1>1 DEF Entry
<1>3. e.item = i /\ e.late = late
  OBVIOUS
<1>4. e.late \/ i \in wardrobe \ removing
  BY <1>1, <1>3
<1> QED
  BY <1>2, <1>3, <1>4, Zenon DEF late

LEMMA InsertEntriesType ==
  ASSUME LogTypeOK, LogKnown, NEW r \in LogRequests, InsertEntries(r)
  PROVE  LogTypeOK'
<1> USE DEF LogTypeOK
<1> DEFINE q == logRequest[r]
           new == {[log |-> q.log, item |-> i, by |-> r,
                    late |-> i \in removing \/ i \notin wardrobe] : i \in q.items}
<1>1. q \in LogRequest /\ q.pc = "insert"
  BY DEF InsertEntries
<1>2. q.log \in LogIds /\ q.items \subseteq LogItems
  BY <1>1 DEF LogKnown, Underway, LogRequest
<1>3. new \in SUBSET Entry
  BY <1>2, NewEntry
<1>4. entries' = entries \cup new
  BY DEF InsertEntries
<1>5. CASE AfterReplace(q) = "idle"
  BY <1>3, <1>4, <1>5, GotoTyped DEF InsertEntries
<1>6. CASE AfterReplace(q) # "idle"
  <2>1. [q EXCEPT !.pc = "save"] \in LogRequest
    BY <1>1, RequestTyped
  <2>2. [q EXCEPT !.pc = "save", !.kept = new] \in LogRequest
    BY <2>1, <1>3, RequestTyped
  <2>3. logRequest' = [logRequest EXCEPT ![r].pc = "save", ![r].kept = new]
    BY <1>6 DEF InsertEntries
  <2>4. logRequest' \in [LogRequests -> LogRequest]
    BY <2>2, <2>3
  <2> QED
    BY <1>3, <1>4, <2>4 DEF InsertEntries
<1> QED
  BY <1>5, <1>6

LEMMA SaveUpdateType ==
  ASSUME LogTypeOK, LogKnown, NEW r \in LogRequests, SaveUpdate(r)
  PROVE  LogTypeOK'
<1> USE DEF LogTypeOK
<1>1. logRequest' \in [LogRequests -> LogRequest]
  BY GotoTyped DEF SaveUpdate, RequestFails
<1>2. logRequest[r].log \in LogIds
  BY DEF LogKnown, Underway, SaveUpdate
<1> QED
  BY <1>1, <1>2 DEF SaveUpdate

LEMMA DeleteType ==
  ASSUME LogTypeOK, NEW r \in LogRequests, FindDoomedLog(r) \/ DropLog(r)
  PROVE  LogTypeOK'
BY GotoTyped DEF LogTypeOK, FindDoomedLog, DropLog, RequestFails

LEMMA RemovalType ==
  ASSUME LogTypeOK, NEW i \in MyItems, RemoveJoinRows(i) \/ RemoveItemRow(i)
  PROVE  LogTypeOK'
BY DEF LogTypeOK, RemoveJoinRows, RemoveItemRow

LEMMA RestartType ==
  ASSUME LogTypeOK, Restart
  PROVE  LogTypeOK'
<1> USE OutfitLogAssumption DEF LogTypeOK
<1>1. ASSUME NEW r \in LogRequests
      PROVE  [logRequest[r] EXCEPT !.pc = "start", !.kept = {},
                !.log = IF logRequest[r].kind = "create" THEN 0 ELSE @] \in LogRequest
  BY DEF LogRequest
<1>2. logRequest' \in [LogRequests -> LogRequest]
  BY <1>1 DEF Restart
<1>3. restarts < MaxRestarts /\ restarts' = restarts + 1
  BY Zenon DEF Restart
<1>4. restarts' \in 0..MaxRestarts
  BY <1>3
<1> QED
  BY <1>2, <1>4 DEF Restart

LEMMA TypeStep == LogInv /\ [LogNext]_logVars => LogTypeOK'
<1> SUFFICES ASSUME LogInv, [LogNext]_logVars
             PROVE  LogTypeOK'
  OBVIOUS
<1>1. LogTypeOK /\ LogKnown
  BY DEF LogInv
<1>2. ASSUME NEW r \in LogRequests,
             \/ AskLog(r) \/ SaveLog(r) \/ FindLog(r) \/ ClearEntries(r) \/ CheckOwned(r)
             \/ InsertEntries(r) \/ SaveUpdate(r) \/ FindDoomedLog(r) \/ DropLog(r)
      PROVE  LogTypeOK'
  BY <1>1, <1>2, AskLogType, SaveLogType, FindLogType, ClearEntriesType, CheckOwnedType,
     InsertEntriesType, SaveUpdateType, DeleteType
<1>3. ASSUME NEW i \in MyItems, RemoveJoinRows(i) \/ RemoveItemRow(i)
      PROVE  LogTypeOK'
  BY <1>1, <1>3, RemovalType
<1>4. CASE UNCHANGED logVars
  BY <1>1, <1>4 DEF LogTypeOK, logVars
<1> QED
  BY <1>1, <1>2, <1>3, <1>4, RestartType DEF LogNext

-------------------------------------------------------------------------------
(* What a request carries: a step of one handler moves one request. *)
LEMMA RequestsStep == LogInv /\ [LogNext]_logVars => CheckedBeforeInsert' /\ LogKnown'
<1> SUFFICES ASSUME LogInv, [LogNext]_logVars
             PROVE  CheckedBeforeInsert' /\ LogKnown'
  OBVIOUS
<1> USE DEF CheckedBeforeInsert, LogKnown, Underway
<1>1. /\ LogTypeOK /\ CheckedBeforeInsert /\ LogKnown
      /\ logRequest \in [LogRequests -> LogRequest]
      /\ logs \subseteq LogIds /\ wardrobe \subseteq MyItems
  BY DEF LogInv, LogTypeOK
<1>2. ASSUME NEW r \in LogRequests, AskLog(r)
      PROVE  CheckedBeforeInsert' /\ LogKnown'
  <2>1. \A s \in LogRequests \ {r} : logRequest'[s] = logRequest[s]
    BY <1>1, <1>2 DEF AskLog
  <2>2. logRequest'[r].pc = "start"
    BY <1>1, <1>2 DEF AskLog, NoRequest
  <2> QED
    BY <1>1, <2>1, <2>2
<1>3. ASSUME NEW r \in LogRequests, SaveLog(r)
      PROVE  CheckedBeforeInsert' /\ LogKnown'
  <2>1. \A s \in LogRequests \ {r} : logRequest'[s] = logRequest[s]
    BY <1>1, <1>3 DEF SaveLog, RequestFails, RequestGoto
  <2>2. \/ logRequest'[r].pc = "unacked"
        \/ logRequest'[r].pc = "clear" /\ logRequest'[r].log \in LogIds
    <3>1. logsWritten < MaxLogs => logsWritten + 1 \in LogIds
      BY <1>1, OutfitLogAssumption DEF LogTypeOK, LogIds
    <3>2. logRequest[r] \in LogRequest
      BY <1>1
    <3> QED
      BY <1>1, <1>3, <3>1, <3>2 DEF SaveLog, RequestFails, RequestGoto, LogRequest
  <2> QED
    BY <1>1, <2>1, <2>2
<1>4. ASSUME NEW r \in LogRequests,
             FindLog(r) \/ FindDoomedLog(r) \/ ClearEntries(r) \/ CheckOwned(r)
      PROVE  CheckedBeforeInsert' /\ LogKnown'
  <2>1. \A s \in LogRequests \ {r} : logRequest'[s] = logRequest[s]
    BY <1>1, <1>4 DEF FindLog, FindDoomedLog, ClearEntries, CheckOwned,
       RequestFails, RequestGoto, RequestDone
  <2>2. logRequest[r] \in LogRequest
    BY <1>1
  <2>3. CASE FindLog(r) \/ FindDoomedLog(r)
    <3>1. /\ logRequest'[r].pc \in {"unacked", "clear", "save"}
          /\ logRequest'[r].pc # "unacked" => logRequest'[r].log \in LogIds
      BY <1>1, <2>2, <2>3 DEF FindLog, FindDoomedLog, RequestFails, RequestGoto, LogRequest
    <3> QED
      BY <1>1, <2>1, <3>1
  <2>4. CASE ClearEntries(r)
    <3>1. AfterClear(logRequest[r]) \in {"idle", "drop", "check", "save"}
      BY DEF AfterClear, AfterReplace
    <3>2. logRequest[r].log \in LogIds
      BY <1>1, <2>4 DEF ClearEntries
    <3>3. \/ logRequest'[r].pc = "idle"
          \/ /\ logRequest'[r].pc \in {"drop", "check", "save"}
             /\ logRequest'[r].log \in LogIds
      BY <1>1, <2>2, <2>4, <3>1, <3>2 DEF ClearEntries, RequestDone, NoRequest, LogRequest
    <3> QED
      BY <1>1, <2>1, <3>3
  <2>5. CASE CheckOwned(r)
    <3>1. logRequest[r].log \in LogIds
      BY <1>1, <2>5 DEF CheckOwned
    <3>2. \/ logRequest'[r].pc = "unacked"
          \/ /\ logRequest'[r].pc = "insert"
             /\ logRequest'[r].items \subseteq MyItems
             /\ logRequest'[r].log \in LogIds
      BY <1>1, <2>2, <2>5, <3>1
         DEF CheckOwned, AllOwned, RequestFails, RequestGoto, LogRequest
    <3> QED
      BY <1>1, <2>1, <3>2
  <2> QED
    BY <1>4, <2>3, <2>4, <2>5
<1>5. ASSUME NEW r \in LogRequests, InsertEntries(r) \/ SaveUpdate(r) \/ DropLog(r)
      PROVE  CheckedBeforeInsert' /\ LogKnown'
  <2>1. \A s \in LogRequests \ {r} : logRequest'[s] = logRequest[s]
    BY <1>1, <1>5 DEF InsertEntries, SaveUpdate, DropLog, RequestFails, RequestGoto, RequestDone
  <2>2. logRequest[r] \in LogRequest
    BY <1>1
  <2>3. \/ logRequest'[r].pc \in {"idle", "unacked"}
        \/ logRequest'[r].pc = "save" /\ logRequest'[r].log = logRequest[r].log
                                     /\ logRequest[r].pc = "insert"
    BY <1>1, <1>5, <2>2
       DEF InsertEntries, SaveUpdate, DropLog, RequestFails, RequestGoto, RequestDone,
           NoRequest, LogRequest
  <2> QED
    BY <1>1, <2>1, <2>3
<1>6. ASSUME NEW i \in MyItems, RemoveJoinRows(i) \/ RemoveItemRow(i)
      PROVE  CheckedBeforeInsert' /\ LogKnown'
  BY <1>1, <1>6 DEF RemoveJoinRows, RemoveItemRow
<1>7. CASE Restart
  <2>1. \A r \in LogRequests : logRequest'[r].pc \in {"idle", "start"}
    BY <1>1, <1>7 DEF Restart, LogRequest
  <2> QED
    BY <2>1
<1>8. CASE UNCHANGED logVars
  BY <1>1, <1>8 DEF logVars
<1> QED
  BY <1>2, <1>3, <1>4, <1>5, <1>6, <1>7, <1>8 DEF LogNext

(* Join rows: only an insert adds some, only a removal ends an item. *)
LEMMA EntriesStep == LogInv /\ [LogNext]_logVars => EntriesSound'
<1> SUFFICES ASSUME LogInv, [LogNext]_logVars
             PROVE  EntriesSound'
  OBVIOUS
<1> USE DEF EntriesSound
<1>1. EntriesSound /\ CheckedBeforeInsert
  BY DEF LogInv
<1>2. ASSUME NEW r \in LogRequests, InsertEntries(r)
      PROVE  EntriesSound'
  <2> DEFINE q == logRequest[r]
             new == {[log |-> q.log, item |-> i, by |-> r,
                      late |-> i \in removing \/ i \notin wardrobe] : i \in q.items}
  <2>1. entries' = entries \cup new /\ UNCHANGED <<wardrobe, removing>>
    BY <1>2 DEF InsertEntries
  <2>2. q.items \subseteq MyItems
    BY <1>1, <1>2 DEF CheckedBeforeInsert, InsertEntries
  <2>3. \A e \in new : e.item \in MyItems /\ (e.late \/ e.item \in wardrobe \ removing)
    BY <2>2, NewEntry
  <2> QED
    BY <1>1, <2>1, <2>3
<1>3. ASSUME NEW r \in LogRequests,
             \/ AskLog(r) \/ SaveLog(r) \/ FindLog(r) \/ ClearEntries(r) \/ CheckOwned(r)
             \/ SaveUpdate(r) \/ FindDoomedLog(r) \/ DropLog(r)
      PROVE  EntriesSound'
  <2>1. entries' \subseteq entries /\ UNCHANGED <<wardrobe, removing>>
    BY <1>3 DEF AskLog, SaveLog, FindLog, ClearEntries, CheckOwned, SaveUpdate,
       FindDoomedLog, DropLog
  <2> QED
    BY <1>1, <2>1
<1>4. ASSUME NEW i \in MyItems, RemoveJoinRows(i)
      PROVE  EntriesSound'
  BY <1>1, <1>4 DEF RemoveJoinRows, JoinRows
<1>5. ASSUME NEW i \in MyItems, RemoveItemRow(i)
      PROVE  EntriesSound'
  BY <1>1, <1>5 DEF RemoveItemRow
<1>6. CASE Restart
  BY <1>1, <1>6 DEF Restart
<1>7. CASE UNCHANGED logVars
  BY <1>1, <1>7 DEF logVars
<1> QED
  BY <1>2, <1>3, <1>4, <1>5, <1>6, <1>7 DEF LogNext

(* Ids: only a new log adds one. *)
LEMMA WrittenStep == LogInv /\ [LogNext]_logVars => OnlyWritten'
<1> SUFFICES ASSUME LogInv, [LogNext]_logVars
             PROVE  OnlyWritten'
  OBVIOUS
<1> USE DEF OnlyWritten
<1>1. /\ OnlyWritten /\ LogKnown /\ logsWritten \in Nat
      /\ logRequest \in [LogRequests -> LogRequest]
      /\ \A r \in LogRequests : logRequest[r] \in LogRequest
  BY OutfitLogAssumption DEF LogInv, LogTypeOK
<1>2. ASSUME NEW r \in LogRequests, AskLog(r)
      PROVE  OnlyWritten'
  <2>1. UNCHANGED <<logs, logsWritten, entries>>
    BY <1>2 DEF AskLog
  <2>2. /\ \A s \in LogRequests \ {r} : logRequest'[s] = logRequest[s]
        /\ logRequest'[r].log \in 0..logsWritten
    BY <1>1, <1>2 DEF AskLog, NoRequest
  <2> QED
    BY <1>1, <2>1, <2>2
<1>3. ASSUME NEW r \in LogRequests, SaveLog(r)
      PROVE  OnlyWritten'
  <2>1. entries' = entries /\ \A s \in LogRequests \ {r} : logRequest'[s] = logRequest[s]
    BY <1>1, <1>3 DEF SaveLog, RequestFails, RequestGoto
  <2>2. CASE RequestFails(r) /\ UNCHANGED <<logs, logsWritten>>
    <3>1. logRequest'[r].log = logRequest[r].log
      BY <1>1, <2>2 DEF RequestFails, RequestGoto, LogRequest
    <3> QED
      BY <1>1, <2>1, <2>2, <3>1
  <2>3. CASE /\ logsWritten' = logsWritten + 1 /\ logs' = logs \cup {logsWritten'}
             /\ logRequest' = [logRequest EXCEPT ![r].pc = "clear", ![r].log = logsWritten']
    <3>1. logRequest'[r].log = logsWritten'
      BY <1>1, <2>3 DEF LogRequest
    <3>2. logsWritten' \in 1..logsWritten' /\ 0..logsWritten \subseteq 0..logsWritten'
      BY <1>1, <2>3
    <3> QED
      BY <1>1, <2>1, <2>3, <3>1, <3>2
  <2> QED
    BY <1>3, <2>2, <2>3 DEF SaveLog
<1>4. ASSUME NEW r \in LogRequests,
             \/ FindLog(r) \/ ClearEntries(r) \/ CheckOwned(r) \/ FindDoomedLog(r) \/ DropLog(r)
      PROVE  OnlyWritten'
  <2>1. logs' \subseteq logs /\ entries' \subseteq entries /\ UNCHANGED logsWritten
    BY <1>4 DEF FindLog, ClearEntries, CheckOwned, FindDoomedLog, DropLog
  <2>2. \A s \in LogRequests \ {r} : logRequest'[s] = logRequest[s]
    BY <1>1, <1>4 DEF FindLog, ClearEntries, CheckOwned, FindDoomedLog, DropLog,
       RequestFails, RequestGoto, RequestDone
  <2>3. logRequest'[r].log \in {logRequest[r].log, 0}
    BY <1>1, <1>4 DEF FindLog, ClearEntries, CheckOwned, FindDoomedLog, DropLog,
       RequestFails, RequestGoto, RequestDone, NoRequest, LogRequest
  <2> QED
    BY <1>1, <2>1, <2>2, <2>3
<1>5. ASSUME NEW r \in LogRequests, InsertEntries(r) \/ SaveUpdate(r)
      PROVE  OnlyWritten'
  <2>1. logRequest[r].log \in 1..logsWritten
    BY <1>1, <1>5 DEF InsertEntries, SaveUpdate, LogKnown, Underway, LogIds
  <2>2. /\ \A s \in LogRequests \ {r} : logRequest'[s] = logRequest[s]
        /\ UNCHANGED logsWritten
    BY <1>1, <1>5 DEF InsertEntries, SaveUpdate, RequestFails, RequestGoto, RequestDone
  <2>3. logRequest'[r].log \in {logRequest[r].log, 0}
    BY <1>1, <1>5 DEF InsertEntries, SaveUpdate, RequestFails, RequestGoto, RequestDone,
       NoRequest, LogRequest
  <2>4. logs' \subseteq logs \cup {logRequest[r].log}
    BY <1>5 DEF InsertEntries, SaveUpdate
  <2>5. \A e \in entries' : e \in entries \/ e.log = logRequest[r].log
    BY <1>5 DEF InsertEntries, SaveUpdate
  <2> QED
    BY <1>1, <2>1, <2>2, <2>3, <2>4, <2>5
<1>6. ASSUME NEW i \in MyItems, RemoveJoinRows(i) \/ RemoveItemRow(i)
      PROVE  OnlyWritten'
  BY <1>1, <1>6 DEF RemoveJoinRows, RemoveItemRow
<1>7. CASE Restart
  <2>1. ASSUME NEW r \in LogRequests
        PROVE  logRequest'[r].log \in {logRequest[r].log, 0}
    <3>1. PICK q \in LogRequest : q = logRequest[r]
      BY <1>1
    <3>2. PICK log : log = IF q.kind = "create" THEN 0 ELSE q.log
      OBVIOUS
    <3>3. \/ logRequest'[r] = q
          \/ logRequest'[r] = [q EXCEPT !.pc = "start", !.kept = {}, !.log = log]
      <4>1. logRequest'[r] = IF q.pc = "idle" THEN q
                             ELSE [q EXCEPT !.pc = "start", !.kept = {}, !.log = log]
        BY <1>7, <3>1, <3>2, Zenon DEF Restart
      <4> QED
        BY <4>1
    <3>4. [q EXCEPT !.pc = "start", !.kept = {}, !.log = log].log = log
      BY DEF LogRequest
    <3> QED
      BY <3>1, <3>2, <3>3, <3>4
  <2>2. UNCHANGED <<logs, logsWritten, entries>>
    BY <1>7, Zenon DEF Restart
  <2> QED
    BY <1>1, <2>1, <2>2
<1>8. CASE UNCHANGED logVars
  BY <1>1, <1>8 DEF logVars
<1> QED
  BY <1>2, <1>3, <1>4, <1>5, <1>6, <1>7, <1>8 DEF LogNext

-------------------------------------------------------------------------------
LEMMA LogInvariant == LogSpec => []LogInv
<1>1. LogInit => LogInv
  BY LogInitType DEF LogInit, LogInv, EntriesSound, CheckedBeforeInsert, LogKnown,
     OnlyWritten, Underway, NoRequest
<1>2. LogInv /\ [LogNext]_logVars => LogInv'
  BY TypeStep, RequestsStep, EntriesStep, WrittenStep DEF LogInv
<1> QED
  BY <1>1, <1>2, PTL DEF LogSpec

(* The rows and requests of the outfit log have their types, and no join row *)
(* and no request names a log that was never written: a redelivered create   *)
(* starts over without the id of its first try, an update or a delete finds  *)
(* its log before it goes on.                                                *)
THEOREM LogTypeCorrect == LogSpec => [](LogTypeOK /\ OnlyWritten)
<1>1. LogInv => LogTypeOK /\ OnlyWritten
  BY DEF LogInv
<1> QED
  BY <1>1, LogInvariant, PTL

(* Join rows name items of the account that exist, but for the one race left *)
(* open: a row written after the removal of its item had begun.              *)
THEOREM EntriesNameItems == LogSpec => []NoDanglingEntries
<1>1. LogInv => NoDanglingEntries
  BY DEF LogInv, EntriesSound, NoDanglingEntries
<1> QED
  BY <1>1, LogInvariant, PTL

-------------------------------------------------------------------------------
(* Accounts.  Every address stored is the normalised one of the sign-up that *)
(* made the account, and no two accounts have the same; a request other than *)
(* a sign-up is about an account that is there.                              *)
SignUpsNamed ==
  \A a \in DOMAIN accounts :
    /\ a \in DOMAIN setting
    /\ setting[a].kind = "signup"
    /\ accounts[a].email = Stored(setting[a].email)

AddressesDiffer ==
  \A a, b \in DOMAIN accounts : accounts[a].email = accounts[b].email => a = b

SettingsKnown ==
  \A s \in DOMAIN setting :
    IF setting[s].kind = "signup" THEN setting[s].account = s
    ELSE setting[s].account \in DOMAIN accounts

PushesOnly == \A s \in DOMAIN setting : setting[s].kind = "push" => setting[s].columns = {"push"}

AccountsInv ==
  /\ AccountsTypeOK
  /\ Len(setting) <= MaxSettings
  /\ SignUpsNamed /\ AddressesDiffer /\ SettingsKnown /\ PushesOnly

(* What is stored is in lower case already, and does not depend on how it    *)
(* was typed.                                                                *)
LEMMA StoredFolded ==
  ASSUME NEW e \in Address
  PROVE  /\ Stored(e) \in Address /\ Stored(e).form = "clean"
         /\ Lower(Stored(e)) = Stored(e)
         /\ \A form \in Forms : Folded([Stored(e) EXCEPT !.form = form]) = Stored(e)
BY DEF Address, Stored, Folded, Lower, Forms

LEMMA BlankTyped == Blank \in [Columns -> 0..MaxSettings]
BY AccountsAssumption DEF Blank

(* The kinds, states and columns of a request.                               *)
Kinds == {"signup", "profile", "push", "key"}
Progress == {"start", "save", "ack", "acked", "refused", "unacked"}

LEMMA SettingTyped ==
  ASSUME NEW q \in Setting
  PROVE  /\ q.kind \in Kinds /\ q.account \in SettingIds /\ q.email \in Address
         /\ q.columns \subseteq Columns /\ q.pc \in Progress
         /\ q.copy \in [Columns -> 0..MaxSettings]
         /\ \A next \in Progress : [q EXCEPT !.pc = next] \in Setting
         /\ \A next \in Progress, copy \in [Columns -> 0..MaxSettings] :
              [q EXCEPT !.pc = next, !.copy = copy] \in Setting
BY DEF Setting, Kinds, Progress

(* Requests keep what they ask for while they move on. *)
MovedOn ==
  /\ setting' \in Seq(Setting) /\ Len(setting') = Len(setting)
  /\ \A s \in DOMAIN setting :
       /\ setting'[s].kind = setting[s].kind /\ setting'[s].account = setting[s].account
       /\ setting'[s].email = setting[s].email /\ setting'[s].columns = setting[s].columns

LEMMA Moved ==
  ASSUME AccountsTypeOK, NEW s \in DOMAIN setting, NEW q \in Setting,
         q.kind = setting[s].kind, q.account = setting[s].account,
         q.email = setting[s].email, q.columns = setting[s].columns,
         setting' = [setting EXCEPT ![s] = q]
  PROVE  MovedOn
<1>1. setting \in [1..Len(setting) -> Setting]
  BY DEF AccountsTypeOK
<1>2. setting' \in [1..Len(setting) -> Setting]
  BY <1>1
<1>3. setting' \in Seq(Setting) /\ Len(setting') = Len(setting)
  BY <1>2, AccountsTypeOK DEF AccountsTypeOK
<1> QED
  BY <1>1, <1>3 DEF MovedOn

LEMMA SettleMoves ==
  ASSUME AccountsTypeOK, NEW s \in DOMAIN setting, NEW next \in Progress, Settle(s, next)
  PROVE  MovedOn /\ setting'[s].pc = next
<1>1. setting[s] \in Setting /\ setting \in [1..Len(setting) -> Setting]
  BY DEF AccountsTypeOK
<1>2. PICK q : q = [setting[s] EXCEPT !.pc = next]
  OBVIOUS
<1>3. /\ q \in Setting /\ q.kind = setting[s].kind /\ q.account = setting[s].account
      /\ q.email = setting[s].email /\ q.columns = setting[s].columns /\ q.pc = next
  BY <1>1, <1>2, SettingTyped DEF Setting
<1>4. setting' = [setting EXCEPT ![s] = q]
  BY <1>2 DEF Settle
<1>5. setting'[s] = q
  BY <1>1, <1>4
<1> QED
  BY <1>3, <1>4, <1>5, Moved

(* What the invariant says of the requests, when they only move on and the   *)
(* accounts keep their addresses.                                            *)
LEMMA MovedKeeps ==
  ASSUME AccountsInv, MovedOn, UNCHANGED outages,
         DOMAIN accounts' = DOMAIN accounts,
         \A a \in DOMAIN accounts :
           accounts'[a] \in AccountRow /\ accounts'[a].email = accounts[a].email
  PROVE  AccountsInv'
<1>1. DOMAIN setting' = DOMAIN setting
  BY DEF MovedOn, AccountsInv, AccountsTypeOK
<1>2. AccountsTypeOK' /\ (Len(setting) <= MaxSettings)'
  BY DEF MovedOn, AccountsInv, AccountsTypeOK
<1>3. SignUpsNamed' /\ AddressesDiffer'
  BY <1>1 DEF MovedOn, AccountsInv, SignUpsNamed, AddressesDiffer, Stored, Folded
<1>4. SettingsKnown' /\ PushesOnly'
  BY <1>1 DEF MovedOn, AccountsInv, SettingsKnown, PushesOnly
<1> QED
  BY <1>2, <1>3, <1>4 DEF AccountsInv

LEMMA RequestSettingStep ==
  ASSUME AccountsInv, RequestSetting
  PROVE  AccountsInv'
<1> USE AccountsAssumption
<1>1. PICK q : /\ setting' = Append(setting, q) /\ q \in Setting
               /\ IF q.kind = "signup" THEN q.account = Len(setting) + 1
                  ELSE q.account \in DOMAIN accounts
               /\ q.kind = "push" => q.columns = {"push"}
  <2>1. CASE \E box \in Mailboxes, form \in Forms :
          Requested("signup", Len(setting) + 1,
                  [box |-> box, dup |-> <<>>, form |-> form], {"name"})
    <3>1. PICK box \in Mailboxes, form \in Forms :
            Requested("signup", Len(setting) + 1,
                  [box |-> box, dup |-> <<>>, form |-> form], {"name"})
      BY <2>1
    <3>2. [box |-> box, dup |-> <<>>, form |-> form] \in Address
      BY DEF Address
    <3>3. Len(setting) + 1 \in SettingIds
      BY DEF RequestSetting, AccountsInv, AccountsTypeOK, SettingIds
    <3>4. PICK e \in Address, n \in SettingIds :
            /\ e = [box |-> box, dup |-> <<>>, form |-> form] /\ n = Len(setting) + 1
      BY <3>2, <3>3
    <3>5. PICK q : q = [kind |-> "signup", account |-> n, email |-> e,
                        columns |-> {"name"}, pc |-> "start", copy |-> Blank]
      OBVIOUS
    <3>6. q \in Setting
      BY <3>5, BlankTyped DEF Setting, Columns
    <3> QED
      BY <3>1, <3>4, <3>5, <3>6 DEF Requested
  <2>2. CASE \E a \in DOMAIN accounts, kind \in {"profile", "push", "key"} :
          \E columns \in Settable(kind) : Requested(kind, a, accounts[a].email, columns)
    <3>1. PICK a \in DOMAIN accounts, kind \in {"profile", "push", "key"} :
            \E columns \in Settable(kind) : Requested(kind, a, accounts[a].email, columns)
      BY <2>2
    <3>2. PICK columns \in Settable(kind) : Requested(kind, a, accounts[a].email, columns)
      BY <3>1
    <3>3. PICK e : e = accounts[a].email
      OBVIOUS
    <3>4. e \in Address /\ a \in SettingIds
      BY <3>3 DEF AccountsInv, AccountsTypeOK, AccountRow
    <3>5. columns \subseteq Columns /\ (kind = "push" => columns = {"push"})
      BY DEF Settable, Columns
    <3>6. PICK q : q = [kind |-> kind, account |-> a, email |-> e,
                        columns |-> columns, pc |-> "start", copy |-> Blank]
      OBVIOUS
    <3>7. q \in Setting
      BY <3>4, <3>5, <3>6, BlankTyped DEF Setting
    <3> QED
      BY <3>2, <3>3, <3>5, <3>6, <3>7 DEF Requested
  <2> QED
    BY <2>1, <2>2 DEF RequestSetting
<1>2. setting \in Seq(Setting) /\ Len(setting) < MaxSettings /\ Len(setting) \in Nat
  BY DEF AccountsInv, AccountsTypeOK, RequestSetting
<1>3. /\ setting' \in Seq(Setting) /\ Len(setting') = Len(setting) + 1
      /\ setting'[Len(setting) + 1] = q
      /\ \A s \in 1..Len(setting) : setting'[s] = setting[s]
  BY <1>1, <1>2, AppendProperties
<1>4. DOMAIN setting' = DOMAIN setting \cup {Len(setting) + 1} /\ UNCHANGED <<accounts, outages>>
  BY <1>2, <1>3 DEF RequestSetting
<1>5. DOMAIN setting = 1..Len(setting)
  BY <1>2
<1>6. AccountsTypeOK' /\ (Len(setting) <= MaxSettings)'
  BY <1>2, <1>3, <1>4 DEF AccountsInv, AccountsTypeOK
<1>7. SignUpsNamed' /\ AddressesDiffer'
  BY <1>3, <1>4, <1>5 DEF AccountsInv, SignUpsNamed, AddressesDiffer
<1>8. SettingsKnown' /\ PushesOnly'
  BY <1>1, <1>3, <1>4, <1>5 DEF AccountsInv, SettingsKnown, PushesOnly
<1> QED
  BY <1>6, <1>7, <1>8 DEF AccountsInv

LEMMA CreateUserStep ==
  ASSUME AccountsInv, NEW s \in SettingIds, CreateUser(s)
  PROVE  /\ AccountsInv'
         /\ s \in DOMAIN accounts => UNCHANGED accounts
<1>1. /\ s \in DOMAIN setting /\ setting[s] \in Setting /\ setting[s].kind = "signup"
      /\ UNCHANGED outages
  BY DEF CreateUser, Holding, AccountsInv, AccountsTypeOK
<1>2. PICK e : e = Stored(setting[s].email)
  OBVIOUS
<1>3. setting[s].email \in Address /\ setting[s].copy \in [Columns -> 0..MaxSettings]
  BY <1>1, SettingTyped
<1>4. e \in Address /\ Lower(e) = e
  BY <1>2, <1>3, StoredFolded
<1>5. \A a \in DOMAIN accounts : Lower(accounts[a].email) = accounts[a].email
  <2>1. \A a \in DOMAIN accounts : setting[a].email \in Address
    <3>1. \A a \in DOMAIN accounts : setting[a] \in Setting
      BY DEF AccountsInv, AccountsTypeOK, SignUpsNamed
    <3> QED
      BY <3>1, SettingTyped
  <2> QED
    BY <2>1, StoredFolded DEF AccountsInv, SignUpsNamed
<1>6. CASE Taken(e)
  <2>1. Settle(s, "unacked") /\ UNCHANGED accounts
    BY <1>2, <1>6 DEF CreateUser
  <2>2. MovedOn
    BY <1>1, <2>1, SettleMoves DEF AccountsInv, Progress
  <2>3. /\ DOMAIN accounts' = DOMAIN accounts
        /\ \A a \in DOMAIN accounts :
             accounts'[a] \in AccountRow /\ accounts'[a].email = accounts[a].email
    BY <2>1 DEF AccountsInv, AccountsTypeOK
  <2> QED
    BY <1>1, <2>1, <2>2, <2>3, MovedKeeps
<1>7. CASE ~Taken(e)
  <2>1. s \notin DOMAIN accounts
    BY <1>2, <1>7 DEF Taken, AccountsInv, SignUpsNamed
  <2>2. \A a \in DOMAIN accounts : accounts[a].email # e
    BY <1>4, <1>5, <1>7 DEF Taken
  <2>3. Changed(s) \in [Columns -> 0..MaxSettings]
    BY <1>3, AccountsAssumption DEF Changed, SettingIds
  <2>4. PICK row : row = [email |-> e, column |-> Changed(s)]
    OBVIOUS
  <2>5. row \in AccountRow /\ row.email = e
    BY <1>4, <2>3, <2>4 DEF AccountRow
  <2>6. /\ Settle(s, "ack")
        /\ accounts' = [a \in DOMAIN accounts \cup {s} |-> IF a = s THEN row ELSE accounts[a]]
    BY <1>2, <1>7, <2>4 DEF CreateUser
  <2>7. /\ DOMAIN accounts' = DOMAIN accounts \cup {s} /\ accounts'[s] = row
        /\ \A a \in DOMAIN accounts : accounts'[a] = accounts[a]
    BY <2>1, <2>6
  <2>8. MovedOn
    BY <1>1, <2>6, SettleMoves DEF AccountsInv, Progress
  <2>9. DOMAIN setting' = DOMAIN setting
    BY <2>8 DEF MovedOn, AccountsInv, AccountsTypeOK
  <2>10. AccountsTypeOK' /\ (Len(setting) <= MaxSettings)'
    BY <1>1, <2>5, <2>7, <2>8 DEF MovedOn, AccountsInv, AccountsTypeOK
  <2>11. SignUpsNamed'
    BY <1>1, <1>2, <2>5, <2>7, <2>8, <2>9 DEF MovedOn, AccountsInv, SignUpsNamed, Stored, Folded
  <2>12. AddressesDiffer'
    BY <2>2, <2>5, <2>7 DEF AccountsInv, AddressesDiffer
  <2>13. SettingsKnown' /\ PushesOnly'
    BY <2>7, <2>8, <2>9 DEF MovedOn, AccountsInv, SettingsKnown, PushesOnly
  <2> QED
    BY <2>1, <2>10, <2>11, <2>12, <2>13 DEF AccountsInv
<1> QED
  BY <1>6, <1>7

LEMMA ReadAccountStep ==
  ASSUME AccountsInv, NEW s \in SettingIds, ReadAccount(s)
  PROVE  AccountsInv'
<1>1. /\ s \in DOMAIN setting /\ setting[s] \in Setting
      /\ setting[s].kind # "signup" /\ UNCHANGED <<accounts, outages>>
  BY DEF ReadAccount, Holding, AccountsInv, AccountsTypeOK
<1>2. PICK copy : copy = accounts[setting[s].account].column
  OBVIOUS
<1>3. copy \in [Columns -> 0..MaxSettings]
  BY <1>1, <1>2 DEF AccountsInv, AccountsTypeOK, SettingsKnown, AccountRow
<1>4. PICK q : q = [setting[s] EXCEPT !.pc = "save", !.copy = copy]
  OBVIOUS
<1>5. q \in Setting
  BY <1>1, <1>3, <1>4, SettingTyped DEF Progress
<1>6. /\ q.kind = setting[s].kind /\ q.account = setting[s].account
      /\ q.email = setting[s].email /\ q.columns = setting[s].columns
  BY <1>1, <1>4 DEF Setting
<1>7. setting \in [1..Len(setting) -> Setting]
  BY DEF AccountsInv, AccountsTypeOK
<1>8. setting' = [setting EXCEPT ![s] = q]
  BY <1>1, <1>2, <1>4, <1>7 DEF ReadAccount
<1>9. MovedOn
  BY <1>1, <1>5, <1>6, <1>8, Moved DEF AccountsInv
<1>10. \A a \in DOMAIN accounts : accounts[a] \in AccountRow
  BY DEF AccountsInv, AccountsTypeOK
<1> QED
  BY <1>1, <1>9, <1>10, MovedKeeps

(* One account's columns are written, its address is not. *)
LEMMA ColumnWritten ==
  ASSUME AccountsTypeOK, NEW x, NEW column \in [Columns -> 0..MaxSettings],
         accounts' = [accounts EXCEPT ![x].column = column]
  PROVE  /\ DOMAIN accounts' = DOMAIN accounts
         /\ \A a \in DOMAIN accounts :
              /\ accounts'[a] \in AccountRow /\ accounts'[a].email = accounts[a].email
              /\ a # x => accounts'[a] = accounts[a]
              /\ a = x => accounts'[a].column = column
<1>1. \A a \in DOMAIN accounts :
        accounts'[a] = IF a = x THEN [accounts[a] EXCEPT !.column = column] ELSE accounts[a]
  OBVIOUS
<1>2. \A a \in DOMAIN accounts : accounts[a] \in AccountRow
  BY DEF AccountsTypeOK
<1>3. \A row \in AccountRow : /\ [row EXCEPT !.column = column] \in AccountRow
                              /\ [row EXCEPT !.column = column].email = row.email
                              /\ [row EXCEPT !.column = column].column = column
  BY DEF AccountRow
<1> QED
  BY <1>1, <1>2, <1>3

LEMMA ChangedTyped ==
  ASSUME NEW s \in SettingIds, setting[s] \in Setting
  PROVE  Changed(s) \in [Columns -> 0..MaxSettings]
<1>1. PICK copy : copy = setting[s].copy
  OBVIOUS
<1>2. copy \in [Columns -> 0..MaxSettings]
  BY <1>1, SettingTyped
<1>3. s \in 0..MaxSettings
  BY AccountsAssumption DEF SettingIds
<1>4. \A c \in Columns :
        (IF c \in setting[s].columns THEN s ELSE copy[c]) \in 0..MaxSettings
  BY <1>2, <1>3
<1> QED
  BY <1>1, <1>4 DEF Changed

LEMMA SaveAccountStep ==
  ASSUME AccountsInv, NEW s \in SettingIds, SaveAccount(s)
  PROVE  /\ AccountsInv' /\ setting'[s].pc = "ack"
         /\ \A a \in DOMAIN accounts : a # setting[s].account => accounts'[a] = accounts[a]
         /\ \A a \in DOMAIN accounts : a = setting[s].account => accounts'[a].column = Changed(s)
<1>1. /\ s \in DOMAIN setting /\ setting[s] \in Setting
      /\ UNCHANGED outages /\ Settle(s, "ack")
  BY DEF SaveAccount, Holding, AccountsInv, AccountsTypeOK
<1>2. PICK column : column = Changed(s)
  OBVIOUS
<1>3. PICK x : x = setting[s].account
  OBVIOUS
<1>4. column \in [Columns -> 0..MaxSettings]
  BY <1>1, <1>2, ChangedTyped
<1>5. accounts' = [accounts EXCEPT ![x].column = column]
  BY <1>2, <1>3 DEF SaveAccount
<1>6. /\ DOMAIN accounts' = DOMAIN accounts
      /\ \A a \in DOMAIN accounts :
           /\ accounts'[a] \in AccountRow /\ accounts'[a].email = accounts[a].email
           /\ a # x => accounts'[a] = accounts[a]
           /\ a = x => accounts'[a].column = column
  BY <1>4, <1>5, ColumnWritten DEF AccountsInv
<1>7. MovedOn /\ setting'[s].pc = "ack"
  BY <1>1, SettleMoves DEF AccountsInv, Progress
<1> QED
  BY <1>1, <1>2, <1>3, <1>6, <1>7, MovedKeeps

LEMMA UpsertPushTokenStep ==
  ASSUME AccountsInv, NEW s \in SettingIds, UpsertPushToken(s)
  PROVE  /\ AccountsInv' /\ setting'[s].pc = "ack"
         /\ \A a \in DOMAIN accounts : a # setting[s].account => accounts'[a] = accounts[a]
         /\ \A a \in DOMAIN accounts : \A c \in Columns :
              a = setting[s].account =>
                accounts'[a].column[c] = IF c = "push" THEN s ELSE accounts[a].column[c]
<1>1. /\ s \in DOMAIN setting /\ setting[s] \in Setting /\ setting[s].kind = "push"
      /\ UNCHANGED outages /\ Settle(s, "ack")
  BY DEF UpsertPushToken, Holding, AccountsInv, AccountsTypeOK
<1>2. PICK x : x = setting[s].account
  OBVIOUS
<1>3. x \in DOMAIN accounts /\ accounts[x] \in AccountRow
  BY <1>1, <1>2 DEF AccountsInv, SettingsKnown, AccountsTypeOK
<1>4. PICK column : column = [accounts[x].column EXCEPT !["push"] = s]
  OBVIOUS
<1>5. accounts[x].column \in [Columns -> 0..MaxSettings]
  BY <1>3 DEF AccountRow
<1>6. /\ column \in [Columns -> 0..MaxSettings]
      /\ \A c \in Columns : column[c] = IF c = "push" THEN s ELSE accounts[x].column[c]
  <2>1. PICK old \in [Columns -> 0..MaxSettings] : old = accounts[x].column
    BY <1>5
  <2>2. s \in 0..MaxSettings
    BY AccountsAssumption DEF SettingIds
  <2>3. column = [old EXCEPT !["push"] = s]
    BY <1>4, <2>1
  <2> QED
    BY <2>1, <2>2, <2>3
<1>7. accounts' = [accounts EXCEPT ![x].column = column]
  BY <1>2, <1>4 DEF UpsertPushToken
<1>8. /\ DOMAIN accounts' = DOMAIN accounts
      /\ \A a \in DOMAIN accounts :
           /\ accounts'[a] \in AccountRow /\ accounts'[a].email = accounts[a].email
           /\ a # x => accounts'[a] = accounts[a]
           /\ a = x => accounts'[a].column = column
  BY <1>6, <1>7, ColumnWritten DEF AccountsInv
<1>9. MovedOn /\ setting'[s].pc = "ack"
  BY <1>1, SettleMoves DEF AccountsInv, Progress
<1>10. AccountsInv'
  BY <1>1, <1>8, <1>9, MovedKeeps
<1> QED
  BY <1>2, <1>6, <1>8, <1>9, <1>10

LEMMA SettledStep ==
  ASSUME AccountsInv, NEW s \in SettingIds, CheckEmail(s) \/ AckSetting(s)
  PROVE  AccountsInv' /\ UNCHANGED accounts
<1>1. /\ s \in DOMAIN setting /\ UNCHANGED <<accounts, outages>>
      /\ \E next \in Progress : Settle(s, next)
  BY DEF CheckEmail, AckSetting, Holding, Progress
<1>2. MovedOn
  BY <1>1, SettleMoves DEF AccountsInv
<1>3. \A a \in DOMAIN accounts : accounts[a] \in AccountRow
  BY DEF AccountsInv, AccountsTypeOK
<1> QED
  BY <1>1, <1>2, <1>3, MovedKeeps

LEMMA OutageStep ==
  ASSUME AccountsInv, Outage
  PROVE  AccountsInv'
<1>1. setting \in [1..Len(setting) -> Setting] /\ setting \in Seq(Setting)
  BY DEF AccountsInv, AccountsTypeOK
<1>2. \A q \in Setting :
        LET new == [q EXCEPT !.pc = "start", !.copy = Blank]
        IN  /\ new \in Setting /\ new.kind = q.kind /\ new.account = q.account
            /\ new.email = q.email /\ new.columns = q.columns
  BY BlankTyped DEF Setting
<1>3. /\ DOMAIN setting' = 1..Len(setting)
      /\ setting' \in [1..Len(setting) -> Setting]
      /\ \A s \in DOMAIN setting :
           /\ setting'[s].kind = setting[s].kind /\ setting'[s].account = setting[s].account
           /\ setting'[s].email = setting[s].email /\ setting'[s].columns = setting[s].columns
  <2> DEFINE new(q) == [q EXCEPT !.pc = "start", !.copy = Blank]
  <2>1. setting' = [s \in DOMAIN setting |->
                      IF setting[s].pc \in {"acked", "refused"} THEN setting[s]
                      ELSE new(setting[s])]
    BY DEF Outage
  <2>2. \A q \in Setting : /\ new(q) \in Setting /\ new(q).kind = q.kind
                           /\ new(q).account = q.account
                           /\ new(q).email = q.email /\ new(q).columns = q.columns
    BY <1>2
  <2> HIDE DEF new
  <2> QED
    BY <1>1, <2>1, <2>2
<1>4. setting' \in Seq(Setting) /\ Len(setting') = Len(setting)
  BY <1>1, <1>3
<1>5. MovedOn
  BY <1>3, <1>4 DEF MovedOn
<1>6. outages' \in 0..MaxOutages /\ UNCHANGED accounts
  <2>1. outages < MaxOutages /\ outages' = outages + 1 /\ UNCHANGED accounts
    BY DEF Outage
  <2>2. outages \in 0..MaxOutages
    BY DEF AccountsInv, AccountsTypeOK
  <2> QED
    BY <2>1, <2>2, AccountsAssumption
<1>7. DOMAIN setting' = DOMAIN setting
  BY <1>1, <1>3
<1>8. AccountsTypeOK' /\ (Len(setting) <= MaxSettings)'
  BY <1>4, <1>6 DEF AccountsInv, AccountsTypeOK
<1>9. SignUpsNamed' /\ AddressesDiffer'
  <2>1. SignUpsNamed /\ AddressesDiffer
    BY DEF AccountsInv
  <2>2. SignUpsNamed'
    BY <1>5, <1>6, <1>7, <2>1 DEF MovedOn, SignUpsNamed, Stored, Folded
  <2>3. AddressesDiffer'
    BY <1>6, <2>1 DEF AddressesDiffer
  <2> QED
    BY <2>2, <2>3
<1>10. SettingsKnown' /\ PushesOnly'
  BY <1>5, <1>6, <1>7 DEF MovedOn, AccountsInv, SettingsKnown, PushesOnly
<1> QED
  BY <1>8, <1>9, <1>10 DEF AccountsInv

LEMMA AlwaysAccountsInv == AccountsSpec => []AccountsInv
<1>1. AccountsInit => AccountsInv
  BY AccountsAssumption DEF AccountsInit, AccountsInv, AccountsTypeOK, SignUpsNamed,
     AddressesDiffer, SettingsKnown, PushesOnly
<1>2. AccountsInv /\ [AccountsNext]_accountVars => AccountsInv'
  <2> SUFFICES ASSUME AccountsInv, [AccountsNext]_accountVars
               PROVE  AccountsInv'
    OBVIOUS
  <2>1. CASE RequestSetting
    BY <2>1, RequestSettingStep
  <2>2. ASSUME NEW s \in SettingIds,
               \/ CheckEmail(s) \/ CreateUser(s) \/ ReadAccount(s) \/ SaveAccount(s)
               \/ UpsertPushToken(s) \/ AckSetting(s)
        PROVE  AccountsInv'
    BY <2>2, SettledStep, CreateUserStep, ReadAccountStep, SaveAccountStep, UpsertPushTokenStep
  <2>3. CASE Outage
    BY <2>3, OutageStep
  <2>4. CASE UNCHANGED accountVars
    BY <2>4 DEF accountVars, AccountsInv, AccountsTypeOK, SignUpsNamed, AddressesDiffer,
       SettingsKnown, PushesOnly
  <2> QED
    BY <2>1, <2>2, <2>3, <2>4 DEF AccountsNext
<1> QED
  BY <1>1, <1>2, PTL DEF AccountsSpec

(* The rows and the requests have their types. *)
THEOREM AccountsTypeCorrect == AccountsSpec => []AccountsTypeOK
BY AlwaysAccountsInv, PTL DEF AccountsInv

(* checkEmail and login find an account by its address however it is typed,  *)
(* and never another's, whatever sign-ups race.                              *)
THEOREM LoginUnambiguous == AccountsSpec => []LoginFindsOne
<1>1. AccountsInv => LoginFindsOne
  <2> SUFFICES ASSUME AccountsInv, NEW a \in DOMAIN accounts, NEW form \in Forms
               PROVE  AccountsAt([accounts[a].email EXCEPT !.form = form]) = {a}
    BY DEF LoginFindsOne
  <2>1. a \in DOMAIN setting /\ setting[a] \in Setting
    BY DEF AccountsInv, AccountsTypeOK, SignUpsNamed
  <2>2. setting[a].email \in Address
    BY <2>1, SettingTyped
  <2>3. Folded([accounts[a].email EXCEPT !.form = form]) = accounts[a].email
    BY <2>2, StoredFolded DEF AccountsInv, SignUpsNamed
  <2> QED
    BY <2>3 DEF AccountsAt, AccountsInv, AddressesDiffer
<1> QED
  BY <1>1, AlwaysAccountsInv, PTL

(* A save puts back a column it does not set only to what its request read,  *)
(* and a push token is written alone: no write is undone otherwise.          *)
THEOREM ColumnsRespected == AccountsSpec => ColumnsKept
<1> DEFINE Kept == \A a \in DOMAIN accounts : \A c \in Columns :
       accounts'[a].column[c] # accounts[a].column[c] =>
         \E s \in DOMAIN setting :
           /\ setting[s].account = a
           /\ setting[s].pc \in {"start", "save"} /\ setting'[s].pc = "ack"
           /\ \/ c \in setting[s].columns /\ accounts'[a].column[c] = s
              \/ /\ setting[s].pc = "save"
                 /\ accounts'[a].column[c] = setting[s].copy[c]
<1>1. AccountsInv /\ [AccountsNext]_accountVars => [Kept]_accountVars
  <2> SUFFICES ASSUME AccountsInv, AccountsNext
               PROVE  Kept
    OBVIOUS
  <2>1. CASE RequestSetting \/ Outage
    BY <2>1 DEF RequestSetting, Outage
  <2>2. ASSUME NEW s \in SettingIds, CheckEmail(s) \/ AckSetting(s) \/ ReadAccount(s)
        PROVE  Kept
    BY <2>2 DEF CheckEmail, AckSetting, ReadAccount
  <2>3. ASSUME NEW s \in SettingIds, CreateUser(s)
        PROVE  Kept
    <3>1. \A a \in DOMAIN accounts : accounts'[a] = accounts[a]
      BY <2>3, CreateUserStep DEF CreateUser
    <3> QED
      BY <3>1
  <2>4. ASSUME NEW s \in SettingIds, SaveAccount(s)
        PROVE  Kept
    <3>1. s \in DOMAIN setting /\ setting[s].pc = "save"
      BY <2>4 DEF SaveAccount, Holding
    <3>2. \A c \in Columns : Changed(s)[c] = IF c \in setting[s].columns THEN s
                                             ELSE setting[s].copy[c]
      BY DEF Changed
    <3> QED
      BY <2>4, <3>1, <3>2, SaveAccountStep
  <2>5. ASSUME NEW s \in SettingIds, UpsertPushToken(s)
        PROVE  Kept
    <3>1. s \in DOMAIN setting /\ setting[s].pc = "start" /\ setting[s].columns = {"push"}
      BY <2>5 DEF UpsertPushToken, Holding, AccountsInv, PushesOnly
    <3> QED
      BY <2>5, <3>1, UpsertPushTokenStep
  <2> QED
    BY <2>1, <2>2, <2>3, <2>4, <2>5 DEF AccountsNext
<1> QED
  BY <1>1, AlwaysAccountsInv, PTL DEF AccountsSpec, ColumnsKept

-------------------------------------------------------------------------------
(* The migration.  The unique index keeps addresses apart all along; what    *)
(* has to be shown is that no write it refuses is ever tried.                *)
(*                                                                           *)
(* Addresses are distinct, and those the migration found were.               *)
AddressesUnique ==
  /\ \A a, b \in DOMAIN email : email[a] = email[b] => a = b
  /\ \A a, b \in DOMAIN original : original[a] = original[b] => a = b

(* Nothing is there before the accounts are. *)
NothingYet == phase = "old" => DOMAIN email = {} /\ DOMAIN backup = {}

(* While up runs, the backup has the rows it changed, each has the address   *)
(* meant for it, and of the group at hand those no longer to do are right.   *)
GroupUnderway(target) ==
  /\ todo \subseteq Group(target)
  /\ \A o \in Group(target) \ todo : email[o] = NewEmail(o)

UpRewrites ==
  /\ phase \in {"groups", "group", "guard", "up"} =>
       \A id \in OldIds :
         email[id] = IF id \in DOMAIN backup THEN NewEmail(id) ELSE original[id]
  /\ phase \in {"groups", "group", "guard"} => DOMAIN email \subseteq OldIds
  /\ phase \in {"guard", "up"} => \A id \in OldIds : email[id] = NewEmail(id)
  /\ phase = "group" => \E target : GroupUnderway(target)

(* An account made after up has a folded address that none of the old        *)
(* accounts' folds to.                                                       *)
SignUpsApart ==
  \A n \in DOMAIN email \ OldIds :
    /\ email[n] \in Address /\ email[n].form = "clean"
    /\ \A id \in OldIds : email[n] # Target(id)

(* Every row of the backup is moved out of the way before the first is       *)
(* written back.                                                             *)
DownRestores ==
  /\ phase \in {"vacate", "restore"} =>
       /\ todo \subseteq DOMAIN backup
       /\ \A id \in OldIds \ DOMAIN backup : email[id] = original[id]
  /\ phase = "vacate" => \A id \in DOMAIN backup \ todo : email[id] = Placeholder(id)
  /\ phase = "restore" => \A id \in DOMAIN backup :
                            email[id] = IF id \in todo THEN Placeholder(id) ELSE original[id]
  /\ phase = "down" => \A id \in OldIds : email[id] = original[id]

FailsForAMark ==
  /\ phase = "failed" => \E id \in OldIds : original[id].dup # <<>>
  /\ phase # "stuck"

MigrationInv ==
  /\ MigrationTypeOK
  /\ AddressesUnique /\ NothingYet /\ UpRewrites /\ SignUpsApart /\ DownRestores /\ FailsForAMark

-------------------------------------------------------------------------------
(* A set of numbers that is not empty has a least, which Min is. *)
LEMMA LeastExists ==
  ASSUME NEW T, T \subseteq Nat, T # {}
  PROVE  Min(T) \in T /\ \A n \in T : Min(T) <= n
<1>1. \E m \in T : \A n \in T : m <= n
  <2> DEFINE R == OpToRel(<, Nat)
  <2>1. IsWellFoundedOn(R, Nat)
    BY NatLessThanWellFounded
  <2>2. \A x, y \in Nat : x < y => <<x, y>> \in R
    BY DEF OpToRel
  <2> HIDE DEF R
  <2>3. PICK m \in T : \A n \in T : <<n, m>> \notin R
    BY <2>1, WFMin
  <2>4. \A n \in T : m \in Nat /\ n \in Nat /\ ~ (n < m)
    BY <2>2, <2>3
  <2>5. \A n \in T : m <= n
    BY <2>4
  <2> QED
    BY <2>5
<1> QED
  BY <1>1 DEF Min

LEMMA OldAddressesTyped ==
  ASSUME original \in [OldIds -> OldAddress]
  PROVE  \A id \in OldIds : original[id] \in Address /\ original[id] \in OldAddress
BY MigrationAssumption DEF OldAddress, Address

(* Folding, renaming, and what they leave apart. *)
LEMMA FoldedTyped ==
  ASSUME NEW e \in Address
  PROVE  /\ Folded(e) \in Address /\ Folded(e).form = "clean" /\ Folded(e).dup = e.dup
         /\ e.form = "clean" => Folded(e) = e
         /\ Lower(Folded(e)) = Folded(e)
         /\ e.form = "clean" => Lower(e) = e
BY DEF Address, Folded, Forms, Lower

LEMMA RenamedTyped ==
  ASSUME NEW e \in Address, NEW id \in Nat
  PROVE  /\ Renamed(e, id) \in Address /\ Renamed(e, id).form = e.form
         /\ Renamed(e, id).dup = Append(e.dup, id) /\ Renamed(e, id).box = e.box
<1>1. PICK old : old = e.dup
  OBVIOUS
<1>2. old \in Seq(Nat)
  BY <1>1 DEF Address
<1>3. Append(old, id) \in Seq(Nat)
  BY <1>2, AppendProperties
<1>4. PICK dup \in Seq(Nat) : dup = Append(old, id)
  BY <1>3
<1> QED
  BY <1>1, <1>4 DEF Address, Renamed

LEMMA PlaceholderApart ==
  ASSUME NEW id \in Nat, NEW other \in Nat
  PROVE  /\ Placeholder(id) \notin Address
         /\ Placeholder(id) = Placeholder(other) => id = other
<1>1. Placeholder(id).box = "restore" /\ Placeholder(id).dup = <<id>>
  BY DEF Placeholder
<1>2. Placeholder(other).dup = <<other>>
  BY DEF Placeholder
<1>3. Placeholder(id) \notin Address
  BY <1>1, MigrationAssumption DEF Address
<1>4. <<id>> = <<other>> => id = other
  OBVIOUS
<1> QED
  BY <1>1, <1>2, <1>3, <1>4

(* The winner of a group is one of it; the addresses meant for the accounts  *)
(* are folded.                                                               *)
LEMMA WinnerOfGroup ==
  ASSUME NEW id \in OldIds
  PROVE  /\ id \in Group(Target(id))
         /\ Winner(Target(id)) \in OldIds /\ Target(Winner(Target(id))) = Target(id)
<1>1. id \in Group(Target(id)) /\ Group(Target(id)) \subseteq Nat
  BY MigrationAssumption DEF Group
<1>2. PICK G : G = Group(Target(id))
  OBVIOUS
<1>3. Min(G) \in G
  BY <1>1, <1>2, LeastExists
<1> QED
  BY <1>1, <1>2, <1>3 DEF Winner, Group

LEMMA TargetTyped ==
  ASSUME original \in [OldIds -> OldAddress], NEW id \in OldIds
  PROVE  /\ Target(id) \in Address /\ Target(id).form = "clean"
         /\ Target(id).dup = original[id].dup
BY OldAddressesTyped, FoldedTyped DEF Target

LEMMA NewEmailTyped ==
  ASSUME original \in [OldIds -> OldAddress], NEW id \in OldIds
  PROVE  NewEmail(id) \in Address /\ NewEmail(id).form = "clean"
BY TargetTyped, RenamedTyped, MigrationAssumption DEF NewEmail

(* Without earlier marks, no two accounts are meant to have one address. *)
Unmarked == \A id \in OldIds : original[id].dup = <<>>

LEMMA LoserMarked ==
  ASSUME original \in [OldIds -> OldAddress], Unmarked, NEW id \in OldIds
  PROVE  NewEmail(id).dup = IF id = Winner(Target(id)) THEN <<>> ELSE <<id>>
<1>1. Target(id).dup = <<>> /\ Target(id) \in Address /\ id \in Nat
  BY TargetTyped, MigrationAssumption DEF Unmarked
<1>2. Append(<<>>, id) = <<id>>
  OBVIOUS
<1> QED
  BY <1>1, <1>2, RenamedTyped DEF NewEmail

LEMMA MeantApart ==
  ASSUME original \in [OldIds -> OldAddress], Unmarked,
         NEW a \in OldIds, NEW b \in OldIds, NewEmail(a) = NewEmail(b)
  PROVE  a = b
<1>1. NewEmail(a).dup = IF a = Winner(Target(a)) THEN <<>> ELSE <<a>>
  BY LoserMarked
<1>2. NewEmail(b).dup = IF b = Winner(Target(b)) THEN <<>> ELSE <<b>>
  BY LoserMarked
<1>3. CASE a # Winner(Target(a)) \/ b # Winner(Target(b))
  <2>1. <<a>> # <<>> /\ <<b>> # <<>> /\ (<<a>> = <<b>> => a = b)
    OBVIOUS
  <2> QED
    BY <1>1, <1>2, <1>3, <2>1
<1>4. CASE a = Winner(Target(a)) /\ b = Winner(Target(b))
  <2>1. NewEmail(a) = Target(a) /\ NewEmail(b) = Target(b)
    BY <1>4 DEF NewEmail
  <2> QED
    BY <1>4, <2>1
<1> QED
  BY <1>3, <1>4

(* The order in which a group is written. *)
LEMMA NextOfGroup ==
  ASSUME NEW ids, ids \subseteq OldIds, ids # {}
  PROVE  /\ NextOf(ids) \in ids
         /\ NextOf(ids) = Winner(Target(NextOf(ids))) =>
              \A o \in ids : o = Winner(Target(o))
<1>1. PICK losers : losers = {id \in ids : id # Winner(Target(id))}
  OBVIOUS
<1>2. NextOf(ids) = IF losers = {} THEN Min(ids) ELSE Min(losers)
  BY <1>1 DEF NextOf
<1>3. ids \subseteq Nat /\ losers \subseteq Nat
  BY <1>1, MigrationAssumption
<1>4. CASE losers = {}
  <2>1. NextOf(ids) \in ids
    BY <1>2, <1>3, <1>4, LeastExists
  <2> QED
    BY <1>1, <1>4, <2>1
<1>5. CASE losers # {}
  <2>1. NextOf(ids) \in losers
    BY <1>2, <1>3, <1>5, LeastExists
  <2> QED
    BY <1>1, <2>1
<1> QED
  BY <1>4, <1>5

(* What the original addresses determine stays as long as they do. *)
LEMMA MeantStays ==
  ASSUME UNCHANGED original
  PROVE  /\ \A id : Target(id)' = Target(id)
         /\ \A t : Group(t)' = Group(t)
         /\ \A id : NewEmail(id)' = NewEmail(id)
<1>1. \A id : Target(id)' = Target(id)
  BY DEF Target
<1>2. \A t : Group(t)' = Group(t)
  BY DEF Target, Group
<1>3. \A t : Winner(t)' = Winner(t)
  BY <1>2 DEF Winner
<1>4. \A id : NewEmail(id)' = NewEmail(id)
  <2> TAKE id
  <2>1. PICK t : t = Target(id)
    OBVIOUS
  <2>2. Target(id)' = t /\ Winner(t)' = Winner(t)
    BY <1>1, <1>3, <2>1
  <2>3. Winner(Target(id))' = Winner(t)
    BY <2>1, <2>2 DEF Winner, Group, Target
  <2> QED
    BY <2>1, <2>2, <2>3 DEF NewEmail
<1> QED
  BY <1>1, <1>2, <1>4

-------------------------------------------------------------------------------
(* The steps. *)
LEMMA OriginalTyped ==
  ASSUME MigrationTypeOK, phase # "old"
  PROVE  original \in [OldIds -> OldAddress]
BY DEF MigrationTypeOK

(* One row is written, or not. *)
LEMMA RowWritten ==
  ASSUME MigrationInv, NEW id \in DOMAIN email, NEW e, NEW failure,
         e \in Address \cup {Placeholder(id)}, Write(id, e, failure)
  PROVE  /\ DOMAIN email' = DOMAIN email
         /\ \A a \in DOMAIN email : email'[a] \in Address \cup {Placeholder(a)}
         /\ \A a \in DOMAIN email \ {id} : email'[a] = email[a]
         /\ \A a, b \in DOMAIN email : email'[a] = email'[b] => a = b
         /\ Free(id, e) => email'[id] = e /\ UNCHANGED phase
         /\ ~ Free(id, e) => phase' = failure
<1>1. CASE Free(id, e)
  <2>1. email' = [email EXCEPT ![id] = e] /\ UNCHANGED phase
    BY <1>1 DEF Write
  <2>2. /\ DOMAIN email' = DOMAIN email /\ email'[id] = e
        /\ \A a \in DOMAIN email \ {id} : email'[a] = email[a]
    BY <2>1
  <2>3. \A a \in DOMAIN email \ {id} : email[a] # e
    BY <1>1 DEF Free
  <2>4. \A a, b \in DOMAIN email : email'[a] = email'[b] => a = b
    BY <2>2, <2>3 DEF MigrationInv, AddressesUnique
  <2>5. \A a \in DOMAIN email : email'[a] \in Address \cup {Placeholder(a)}
    BY <2>2 DEF MigrationInv, MigrationTypeOK
  <2> QED
    BY <1>1, <2>1, <2>2, <2>4, <2>5
<1>2. CASE ~ Free(id, e)
  BY <1>2 DEF Write, MigrationInv, MigrationTypeOK, AddressesUnique
<1> QED
  BY <1>1, <1>2

LEMMA OldSignUpsStep ==
  ASSUME MigrationInv, OldSignUps
  PROVE  MigrationInv'
<1>1. PICK f \in [OldIds -> OldAddress] :
        /\ IsInjective(f) /\ original' = f /\ email' = f
        /\ phase = "old" /\ phase' = "groups" /\ UNCHANGED <<backup, todo>>
  BY DEF OldSignUps
<1>2. \A a, b \in OldIds : f[a] = f[b] => a = b
  BY <1>1 DEF IsInjective
<1>3. \A id \in OldIds : f[id] \in Address
  BY MigrationAssumption DEF OldAddress, Address
<1>4. DOMAIN f = OldIds /\ DOMAIN backup = {}
  BY <1>1 DEF MigrationInv, NothingYet
<1>5. MigrationTypeOK'
  BY <1>1, <1>3, <1>4 DEF MigrationInv, MigrationTypeOK
<1>6. AddressesUnique' /\ NothingYet' /\ SignUpsApart'
  BY <1>1, <1>2, <1>4 DEF AddressesUnique, NothingYet, SignUpsApart
<1>7. UpRewrites' /\ DownRestores' /\ FailsForAMark'
  BY <1>1, <1>4 DEF UpRewrites, DownRestores, FailsForAMark
<1> QED
  BY <1>5, <1>6, <1>7 DEF MigrationInv

LEMMA NextGroupStep ==
  ASSUME MigrationInv, NextGroup
  PROVE  MigrationInv'
<1>1. phase = "groups" /\ UNCHANGED <<email, original, backup>>
  BY DEF NextGroup
<1>2. /\ \A id : NewEmail(id)' = NewEmail(id) /\ Target(id)' = Target(id)
      /\ \A t : Group(t)' = Group(t)
  BY <1>1, MeantStays
<1>3. /\ \A id \in OldIds :
           email[id] = IF id \in DOMAIN backup THEN NewEmail(id) ELSE original[id]
      /\ DOMAIN email \subseteq OldIds
  BY <1>1 DEF MigrationInv, UpRewrites
<1>4. AddressesUnique' /\ NothingYet' /\ SignUpsApart'
  BY <1>1, <1>2, <1>3 DEF NextGroup, MigrationInv, AddressesUnique, NothingYet, SignUpsApart
<1>5. /\ phase' \in {"guard", "group"} /\ todo' \subseteq OldIds
      /\ phase' = "guard" => \A id \in OldIds : email[id] = NewEmail(id)
      /\ phase' = "group" => \E t : todo' = Group(t)
  BY DEF NextGroup, Group, MigrationInv, MigrationTypeOK
<1>6. MigrationTypeOK'
  BY <1>1, <1>5 DEF MigrationInv, MigrationTypeOK
<1>7. DownRestores' /\ FailsForAMark'
  BY <1>5 DEF DownRestores, FailsForAMark
<1>8. ASSUME phase' = "group"
      PROVE  \E target : GroupUnderway(target)'
  <2>1. PICK t : todo' = Group(t)
    BY <1>5, <1>8
  <2>2. GroupUnderway(t)'
    BY <1>2, <2>1 DEF GroupUnderway
  <2> QED
    BY <2>2
<1>9. UpRewrites'
  BY <1>1, <1>2, <1>3, <1>5, <1>8 DEF UpRewrites
<1> QED
  BY <1>4, <1>6, <1>7, <1>9 DEF MigrationInv

(* The heart of up: a row whose address is taken means an earlier mark.      *)
LEMMA RewriteFails ==
  ASSUME MigrationInv, phase = "group", NEW id \in todo, id = NextOf(todo),
         ~ Free(id, NewEmail(id))
  PROVE  ~ Unmarked
<1>1. original \in [OldIds -> OldAddress] /\ todo \subseteq OldIds
  BY DEF MigrationInv, MigrationTypeOK
<1>2. PICK other \in OldIds : other # id /\ email[other] = NewEmail(id)
  BY DEF Free, MigrationInv, UpRewrites
<1>3. PICK t : GroupUnderway(t)
  BY DEF MigrationInv, UpRewrites
<1>4. SUFFICES ASSUME Unmarked
               PROVE  FALSE
  OBVIOUS
<1>5. NewEmail(other) # NewEmail(id)
  BY <1>1, <1>2, <1>4, MeantApart
<1>6. email[other] = original[other]
  BY <1>2, <1>5 DEF MigrationInv, UpRewrites
<1>7. NewEmail(id).dup = IF id = Winner(Target(id)) THEN <<>> ELSE <<id>>
  BY <1>1, <1>4, LoserMarked
<1>8. id = Winner(Target(id))
  <2>1. original[other].dup = <<>>
    BY <1>4 DEF Unmarked
  <2>2. <<id>> # <<>>
    OBVIOUS
  <2> QED
    BY <1>2, <1>6, <1>7, <2>1, <2>2
<1>9. Target(other) = Target(id)
  <2>1. original[other] = Target(id)
    BY <1>2, <1>6, <1>8 DEF NewEmail
  <2>2. Target(id) \in Address /\ Target(id).form = "clean"
    BY <1>1, TargetTyped
  <2>3. Folded(Target(id)) = Target(id)
    BY <2>2, FoldedTyped
  <2> QED
    BY <2>1, <2>3 DEF Target
<1>10. other \in todo
  <2>1. other \in Group(t)
    BY <1>1, <1>3, <1>9 DEF GroupUnderway, Group
  <2> QED
    BY <1>2, <1>3, <1>5, <2>1 DEF GroupUnderway
<1>11. other = Winner(Target(other))
  BY <1>1, <1>8, <1>10, NextOfGroup
<1> QED
  BY <1>2, <1>8, <1>9, <1>11

LEMMA RewriteRowStep ==
  ASSUME MigrationInv, RewriteRow
  PROVE  MigrationInv'
<1>1. PICK id : id = NextOf(todo)
  OBVIOUS
<1>2. /\ phase = "group" /\ todo # {} /\ todo' = todo \ {id} /\ UNCHANGED original
      /\ IF email[id] = NewEmail(id)
         THEN UNCHANGED <<email, backup, phase>>
         ELSE /\ backup' = [k \in DOMAIN backup \cup {id} |->
                              IF k = id THEN email[id] ELSE backup[k]]
              /\ Write(id, NewEmail(id), "failed")
  BY <1>1 DEF RewriteRow
<1>3. /\ original \in [OldIds -> OldAddress] /\ todo \subseteq OldIds
      /\ OldIds \subseteq DOMAIN email /\ DOMAIN email \subseteq OldIds
      /\ \A k \in OldIds :
           email[k] = IF k \in DOMAIN backup THEN NewEmail(k) ELSE original[k]
  BY <1>2 DEF MigrationInv, MigrationTypeOK, UpRewrites
<1>4. id \in todo /\ id \in OldIds
  BY <1>1, <1>2, <1>3, NextOfGroup
<1>5. /\ \A k : NewEmail(k)' = NewEmail(k) /\ Target(k)' = Target(k)
      /\ \A t : Group(t)' = Group(t)
  BY <1>2, MeantStays
<1>6. PICK t : GroupUnderway(t)
  BY <1>2 DEF MigrationInv, UpRewrites
<1>7. CASE email[id] = NewEmail(id)
  <2>1. UNCHANGED <<email, backup, phase, original>>
    BY <1>2, <1>7
  <2>2. MigrationTypeOK' /\ AddressesUnique'
    BY <1>2, <2>1 DEF MigrationInv, MigrationTypeOK, AddressesUnique
  <2>3. NothingYet' /\ SignUpsApart' /\ DownRestores' /\ FailsForAMark'
    BY <1>2, <1>3, <2>1 DEF NothingYet, SignUpsApart, DownRestores, FailsForAMark
  <2>4. GroupUnderway(t)'
    BY <1>2, <1>5, <1>6, <1>7, <2>1 DEF GroupUnderway
  <2>5. UpRewrites'
    BY <1>2, <1>3, <1>5, <2>1, <2>4 DEF UpRewrites
  <2> QED
    BY <2>2, <2>3, <2>5 DEF MigrationInv
<1>8. CASE email[id] # NewEmail(id)
  <2>1. PICK e : e = NewEmail(id)
    OBVIOUS
  <2>2. e \in Address
    BY <1>3, <1>4, <2>1, NewEmailTyped
  <2>3. Write(id, e, "failed")
    BY <1>2, <1>8, <2>1
  <2>4. /\ DOMAIN email' = DOMAIN email
        /\ \A a \in DOMAIN email : email'[a] \in Address \cup {Placeholder(a)}
        /\ \A a \in DOMAIN email \ {id} : email'[a] = email[a]
        /\ \A a, b \in DOMAIN email : email'[a] = email'[b] => a = b
        /\ Free(id, e) => email'[id] = e /\ UNCHANGED phase
        /\ ~ Free(id, e) => phase' = "failed"
    BY <1>3, <1>4, <2>2, <2>3, RowWritten
  <2>5. id \notin DOMAIN backup /\ email[id] = original[id]
    BY <1>3, <1>4, <1>8
  <2>6. /\ DOMAIN backup' = DOMAIN backup \cup {id} /\ backup'[id] = original[id]
        /\ \A k \in DOMAIN backup : backup'[k] = backup[k]
    BY <1>2, <1>8, <2>5
  <2>7. phase' \in {"group", "failed"}
    BY <1>2, <2>4
  <2>8. MigrationTypeOK'
    BY <1>2, <1>3, <1>4, <2>4, <2>6, <2>7 DEF MigrationInv, MigrationTypeOK
  <2>9. AddressesUnique' /\ NothingYet' /\ SignUpsApart' /\ DownRestores'
    BY <1>2, <1>3, <2>4, <2>7
       DEF MigrationInv, AddressesUnique, NothingYet, SignUpsApart, DownRestores
  <2>10. CASE Free(id, e)
    <3>1. email'[id] = NewEmail(id) /\ phase' = "group"
      BY <1>2, <2>1, <2>4, <2>10
    <3>2. GroupUnderway(t)'
      <4>1. /\ todo \subseteq Group(t) /\ Group(t) \subseteq OldIds
            /\ \A o \in Group(t) \ todo : email[o] = NewEmail(o)
        BY <1>6 DEF GroupUnderway, Group
      <4> QED
        BY <1>2, <1>3, <1>5, <2>4, <3>1, <4>1 DEF GroupUnderway
    <3>3. \A k \in OldIds :
            email'[k] = IF k \in DOMAIN backup' THEN NewEmail(k) ELSE original[k]
      BY <1>3, <2>4, <2>6, <3>1
    <3>4. UpRewrites'
      BY <1>2, <1>3, <1>5, <2>4, <3>1, <3>2, <3>3 DEF UpRewrites
    <3>5. FailsForAMark'
      BY <3>1 DEF FailsForAMark
    <3> QED
      BY <2>8, <2>9, <3>4, <3>5 DEF MigrationInv
  <2>11. CASE ~ Free(id, e)
    <3>1. ~ Unmarked
      BY <1>1, <1>2, <1>4, <2>1, <2>11, RewriteFails
    <3>2. phase' = "failed"
      BY <2>4, <2>11
    <3>3. UpRewrites' /\ FailsForAMark'
      BY <1>2, <3>1, <3>2 DEF UpRewrites, FailsForAMark, Unmarked
    <3> QED
      BY <2>8, <2>9, <3>3 DEF MigrationInv
  <2> QED
    BY <2>10, <2>11
<1> QED
  BY <1>7, <1>8

LEMMA EndGroupStep ==
  ASSUME MigrationInv, EndGroup
  PROVE  MigrationInv'
<1>1. phase = "group" /\ phase' = "groups" /\ UNCHANGED <<email, original, backup, todo>>
  BY DEF EndGroup
<1>2. \A id : NewEmail(id)' = NewEmail(id) /\ Target(id)' = Target(id)
  BY <1>1, MeantStays
<1>3. MigrationTypeOK' /\ AddressesUnique' /\ NothingYet'
  BY <1>1 DEF MigrationInv, MigrationTypeOK, AddressesUnique, NothingYet
<1>4. SignUpsApart' /\ DownRestores' /\ FailsForAMark'
  BY <1>1, <1>2 DEF MigrationInv, SignUpsApart, DownRestores, FailsForAMark
<1>5. UpRewrites'
  BY <1>1, <1>2 DEF MigrationInv, UpRewrites
<1> QED
  BY <1>3, <1>4, <1>5 DEF MigrationInv

(* Once up has rewritten every row, all addresses are folded. *)
LEMMA AllFolded ==
  ASSUME MigrationInv, phase \in {"guard", "up"}
  PROVE  \A a \in DOMAIN email : /\ email[a] \in Address /\ email[a].form = "clean"
                                 /\ Lower(email[a]) = email[a]
<1>1. \A a \in OldIds : email[a] \in Address /\ email[a].form = "clean"
  <2>1. original \in [OldIds -> OldAddress]
    BY OriginalTyped DEF MigrationInv
  <2>2. \A a \in OldIds : email[a] = NewEmail(a)
    BY DEF MigrationInv, UpRewrites
  <2> QED
    BY <2>1, <2>2, NewEmailTyped
<1>2. \A a \in DOMAIN email : email[a] \in Address /\ email[a].form = "clean"
  BY <1>1 DEF MigrationInv, SignUpsApart
<1> QED
  BY <1>2, FoldedTyped

LEMMA NoneRemain ==
  ASSUME MigrationInv, phase \in {"guard", "up"}
  PROVE  Remaining = {}
<1>1. \A a \in DOMAIN email : Lower(email[a]) = email[a]
  BY AllFolded
<1> QED
  BY <1>1 DEF Remaining, MigrationInv, AddressesUnique

LEMMA GuardStep ==
  ASSUME MigrationInv, Guard
  PROVE  MigrationInv'
<1>1. phase = "guard" /\ phase' = "up" /\ UNCHANGED <<email, original, backup, todo>>
  BY NoneRemain DEF Guard
<1>2. \A id : NewEmail(id)' = NewEmail(id) /\ Target(id)' = Target(id)
  BY <1>1, MeantStays
<1>3. MigrationTypeOK' /\ AddressesUnique' /\ NothingYet'
  BY <1>1 DEF MigrationInv, MigrationTypeOK, AddressesUnique, NothingYet
<1>4. SignUpsApart' /\ DownRestores' /\ FailsForAMark'
  BY <1>1, <1>2 DEF MigrationInv, SignUpsApart, DownRestores, FailsForAMark
<1>5. UpRewrites'
  BY <1>1, <1>2 DEF MigrationInv, UpRewrites
<1> QED
  BY <1>3, <1>4, <1>5 DEF MigrationInv

LEMMA SignUpStep ==
  ASSUME MigrationInv, NEW n \in NewIds, NEW e \in Address, e.form = "clean", SignUp(n, e)
  PROVE  MigrationInv'
<1>1. /\ phase = "up" /\ n \notin DOMAIN email
      /\ \A other \in DOMAIN email : Lower(email[other]) # e
      /\ email' = [k \in DOMAIN email \cup {n} |-> IF k = n THEN e ELSE email[k]]
      /\ UNCHANGED <<original, backup, phase, todo>>
  BY DEF SignUp
<1>2. \A id : NewEmail(id)' = NewEmail(id) /\ Target(id)' = Target(id)
  BY <1>1, MeantStays
<1>3. /\ DOMAIN email' = DOMAIN email \cup {n} /\ email'[n] = e
      /\ \A a \in DOMAIN email : email'[a] = email[a]
  BY <1>1
<1>4. n \notin OldIds /\ OldIds \subseteq DOMAIN email
  BY <1>1, MigrationAssumption DEF MigrationInv, MigrationTypeOK
<1>5. \A a \in DOMAIN email : email[a] # e
  BY <1>1, AllFolded
<1>6. \A id \in OldIds : Target(id) # e
  <2> SUFFICES ASSUME NEW id \in OldIds
               PROVE  Target(id) # e
    OBVIOUS
  <2>1. PICK w \in OldIds : w = Winner(Target(id)) /\ Target(w) = Target(id)
    BY WinnerOfGroup
  <2>2. email[w] = NewEmail(w)
    BY <1>1 DEF MigrationInv, UpRewrites
  <2>3. NewEmail(w) = Target(id)
    BY <2>1 DEF NewEmail
  <2> QED
    BY <1>4, <1>5, <2>2, <2>3
<1>7. MigrationTypeOK'
  BY <1>1, <1>3, <1>4 DEF MigrationInv, MigrationTypeOK
<1>8. AddressesUnique' /\ NothingYet'
  BY <1>1, <1>3, <1>5 DEF MigrationInv, AddressesUnique, NothingYet
<1>9. UpRewrites'
  BY <1>1, <1>2, <1>3, <1>4 DEF MigrationInv, UpRewrites
<1>10. SignUpsApart'
  BY <1>1, <1>2, <1>3, <1>6 DEF MigrationInv, SignUpsApart
<1>11. DownRestores' /\ FailsForAMark'
  BY <1>1 DEF MigrationInv, DownRestores, FailsForAMark
<1> QED
  BY <1>7, <1>8, <1>9, <1>10, <1>11 DEF MigrationInv

(* Of the two passes of down each begins with every row of the backup, the   *)
(* second with all of them out of the way.                                   *)
LEMMA BeginPassStep ==
  ASSUME MigrationInv,
         BeginPass("up", "vacate") \/ (todo = {} /\ BeginPass("vacate", "restore"))
  PROVE  MigrationInv'
<1>1. /\ todo' = DOMAIN backup /\ UNCHANGED <<email, original, backup>>
      /\ \/ phase = "up" /\ phase' = "vacate"
         \/ phase = "vacate" /\ phase' = "restore" /\ todo = {}
  BY DEF BeginPass
<1>2. \A id : Target(id)' = Target(id)
  BY <1>1, MeantStays
<1>3. MigrationTypeOK' /\ AddressesUnique' /\ NothingYet'
  BY <1>1 DEF MigrationInv, MigrationTypeOK, AddressesUnique, NothingYet
<1>4. SignUpsApart' /\ FailsForAMark' /\ UpRewrites'
  BY <1>1, <1>2 DEF MigrationInv, SignUpsApart, FailsForAMark, UpRewrites
<1>5. DownRestores'
  BY <1>1 DEF MigrationInv, UpRewrites, DownRestores
<1> QED
  BY <1>3, <1>4, <1>5 DEF MigrationInv

LEMMA VacateRowStep ==
  ASSUME MigrationInv, NEW id \in OldIds, VacateRow(id)
  PROVE  MigrationInv'
<1>1. /\ phase = "vacate" /\ id \in todo /\ todo' = todo \ {id}
      /\ UNCHANGED <<original, backup>> /\ Write(id, Placeholder(id), "stuck")
  BY DEF VacateRow, Vacated
<1>2. \A k : Target(k)' = Target(k)
  BY <1>1, MeantStays
<1>3. /\ OldIds \subseteq DOMAIN email /\ DOMAIN email \subseteq OldIds \cup NewIds
      /\ todo \subseteq DOMAIN backup /\ DOMAIN backup \subseteq OldIds
  BY <1>1 DEF MigrationInv, MigrationTypeOK, DownRestores
<1>4. Free(id, Placeholder(id))
  <2>1. \A other \in DOMAIN email : other \in Nat /\ id \in Nat
    BY <1>3, MigrationAssumption
  <2>2. \A other \in DOMAIN email : email[other] \in Address \cup {Placeholder(other)}
    BY DEF MigrationInv, MigrationTypeOK
  <2> QED
    BY <2>1, <2>2, PlaceholderApart DEF Free
<1>5. /\ DOMAIN email' = DOMAIN email /\ UNCHANGED phase
      /\ \A a \in DOMAIN email : email'[a] \in Address \cup {Placeholder(a)}
      /\ \A a \in DOMAIN email \ {id} : email'[a] = email[a]
      /\ \A a, b \in DOMAIN email : email'[a] = email'[b] => a = b
      /\ email'[id] = Placeholder(id)
  BY <1>1, <1>3, <1>4, RowWritten
<1>6. MigrationTypeOK' /\ AddressesUnique' /\ NothingYet'
  BY <1>1, <1>5 DEF MigrationInv, MigrationTypeOK, AddressesUnique, NothingYet
<1>7. SignUpsApart' /\ FailsForAMark' /\ UpRewrites'
  BY <1>1, <1>2, <1>5 DEF MigrationInv, SignUpsApart, FailsForAMark, UpRewrites
<1>8. DownRestores'
  <2>1. \A k : Placeholder(k)' = Placeholder(k)
    BY DEF Placeholder
  <2> QED
    BY <1>1, <1>3, <1>5, <2>1 DEF MigrationInv, DownRestores
<1> QED
  BY <1>6, <1>7, <1>8 DEF MigrationInv

LEMMA RestoreRowStep ==
  ASSUME MigrationInv, NEW id \in OldIds, RestoreRow(id)
  PROVE  MigrationInv'
<1>1. /\ phase = "restore" /\ id \in todo /\ todo' = todo \ {id}
      /\ UNCHANGED <<original, backup>> /\ Write(id, backup[id], "stuck")
  BY DEF RestoreRow
<1>2. \A k : Target(k)' = Target(k)
  BY <1>1, MeantStays
<1>3. /\ OldIds \subseteq DOMAIN email /\ DOMAIN email \subseteq OldIds \cup NewIds
      /\ todo \subseteq DOMAIN backup /\ DOMAIN backup \subseteq OldIds
      /\ original \in [OldIds -> OldAddress]
  BY <1>1 DEF MigrationInv, MigrationTypeOK, DownRestores
<1>4. backup[id] = original[id] /\ original[id] \in Address
  BY <1>1, <1>3, OldAddressesTyped DEF MigrationInv, MigrationTypeOK
<1>5. \A other \in OldIds \ {id} : email[other] # original[id]
  <2> SUFFICES ASSUME NEW other \in OldIds \ {id}
               PROVE  email[other] # original[id]
    OBVIOUS
  <2>1. email[other] \in {Placeholder(other), original[other]}
    BY <1>1 DEF MigrationInv, DownRestores
  <2>2. Placeholder(other) \notin Address
    BY PlaceholderApart, MigrationAssumption
  <2>3. original[other] # original[id]
    BY <1>3 DEF MigrationInv, AddressesUnique
  <2> QED
    BY <1>4, <2>1, <2>2, <2>3
<1>6. \A other \in DOMAIN email \ OldIds : email[other] # original[id]
  <2> SUFFICES ASSUME NEW other \in DOMAIN email \ OldIds, email[other] = original[id]
               PROVE  FALSE
    OBVIOUS
  <2>1. original[id].form = "clean" /\ original[id] # Target(id)
    BY DEF MigrationInv, SignUpsApart
  <2> QED
    BY <1>4, <2>1, FoldedTyped DEF Target
<1>7. Free(id, original[id])
  BY <1>3, <1>5, <1>6 DEF Free
<1>8. /\ DOMAIN email' = DOMAIN email /\ UNCHANGED phase
      /\ \A a \in DOMAIN email : email'[a] \in Address \cup {Placeholder(a)}
      /\ \A a \in DOMAIN email \ {id} : email'[a] = email[a]
      /\ \A a, b \in DOMAIN email : email'[a] = email'[b] => a = b
      /\ email'[id] = original[id]
  BY <1>1, <1>3, <1>4, <1>7, RowWritten
<1>9. MigrationTypeOK' /\ AddressesUnique' /\ NothingYet'
  BY <1>1, <1>8 DEF MigrationInv, MigrationTypeOK, AddressesUnique, NothingYet
<1>10. SignUpsApart' /\ FailsForAMark' /\ UpRewrites'
  BY <1>1, <1>2, <1>8 DEF MigrationInv, SignUpsApart, FailsForAMark, UpRewrites
<1>11. DownRestores'
  <2>1. \A k : Placeholder(k)' = Placeholder(k)
    BY DEF Placeholder
  <2> QED
    BY <1>1, <1>3, <1>8, <2>1 DEF MigrationInv, DownRestores
<1> QED
  BY <1>9, <1>10, <1>11 DEF MigrationInv

LEMMA EndDownStep ==
  ASSUME MigrationInv, EndDown
  PROVE  MigrationInv'
<1>1. /\ phase = "restore" /\ todo = {} /\ phase' = "down" /\ backup' = <<>>
      /\ UNCHANGED <<email, original, todo>>
  BY DEF EndDown
<1>2. \A k : Target(k)' = Target(k)
  BY <1>1, MeantStays
<1>3. MigrationTypeOK' /\ AddressesUnique' /\ NothingYet'
  BY <1>1 DEF MigrationInv, MigrationTypeOK, AddressesUnique, NothingYet
<1>4. SignUpsApart' /\ FailsForAMark' /\ UpRewrites'
  BY <1>1, <1>2 DEF MigrationInv, SignUpsApart, FailsForAMark, UpRewrites
<1>5. DownRestores'
  BY <1>1 DEF MigrationInv, DownRestores
<1> QED
  BY <1>3, <1>4, <1>5 DEF MigrationInv

LEMMA AlwaysMigrationInv == MigrationSpec => []MigrationInv
<1>1. MigrationInit => MigrationInv
  BY DEF MigrationInit, MigrationInv, MigrationTypeOK, AddressesUnique, NothingYet,
     UpRewrites, SignUpsApart, DownRestores, FailsForAMark
<1>2. MigrationInv /\ [MigrationNext]_migrationVars => MigrationInv'
  <2> SUFFICES ASSUME MigrationInv, [MigrationNext]_migrationVars
               PROVE  MigrationInv'
    OBVIOUS
  <2>1. CASE OldSignUps \/ NextGroup \/ RewriteRow \/ EndGroup \/ Guard \/ EndDown
    BY <2>1, OldSignUpsStep, NextGroupStep, RewriteRowStep, EndGroupStep, GuardStep,
       EndDownStep
  <2>2. ASSUME NEW id \in NewIds, NEW box \in Mailboxes, NEW dup \in OldMarks,
               SignUp(id, [box |-> box, dup |-> dup, form |-> "clean"])
        PROVE  MigrationInv'
    <3>1. PICK e : e = [box |-> box, dup |-> dup, form |-> "clean"]
      OBVIOUS
    <3>2. e \in Address /\ e.form = "clean"
      BY <3>1, MigrationAssumption DEF Address, Forms
    <3> QED
      BY <2>2, <3>1, <3>2, SignUpStep
  <2>3. CASE BeginPass("up", "vacate") \/ (todo = {} /\ BeginPass("vacate", "restore"))
    BY <2>3, BeginPassStep
  <2>4. ASSUME NEW id \in OldIds, VacateRow(id) \/ RestoreRow(id)
        PROVE  MigrationInv'
    BY <2>4, VacateRowStep, RestoreRowStep
  <2>5. CASE UNCHANGED migrationVars
    <3>1. UNCHANGED <<email, original, backup, phase, todo>>
      BY <2>5 DEF migrationVars
    <3>2. /\ \A id : NewEmail(id)' = NewEmail(id) /\ Target(id)' = Target(id)
          /\ \A t : Group(t)' = Group(t)
      BY <3>1, MeantStays
    <3>3. \A t : GroupUnderway(t) => GroupUnderway(t)'
      BY <3>1, <3>2 DEF GroupUnderway
    <3>4. MigrationTypeOK' /\ AddressesUnique' /\ NothingYet' /\ SignUpsApart'
      BY <3>1, <3>2 DEF MigrationInv, MigrationTypeOK, AddressesUnique, NothingYet, SignUpsApart
    <3>5. DownRestores' /\ FailsForAMark'
      BY <3>1 DEF MigrationInv, DownRestores, FailsForAMark
    <3>6. UpRewrites'
      BY <3>1, <3>2, <3>3 DEF MigrationInv, UpRewrites
    <3> QED
      BY <3>4, <3>5, <3>6 DEF MigrationInv
  <2> QED
    BY <2>1, <2>2, <2>3, <2>4, <2>5 DEF MigrationNext
<1> QED
  BY <1>1, <1>2, PTL DEF MigrationSpec

(* The table, the backup and the phases have their types. *)
THEOREM MigrationTypeCorrect == MigrationSpec => []MigrationTypeOK
BY AlwaysMigrationInv, PTL DEF MigrationInv

(* However many accounts, and however their addresses collide: up fails only *)
(* over an earlier mark, leaves no two addresses alike and every winner its  *)
(* own; down never breaks the unique index and undoes up.                    *)
THEOREM MigrationReversible == MigrationSpec => []MigrationSound
<1>1. MigrationInv => MigrationSound
  <2> SUFFICES ASSUME MigrationInv
               PROVE  MigrationSound
    OBVIOUS
  <2>1. phase = "up" => \A id \in OldIds : id = Winner(Target(id)) => email[id] = Target(id)
    BY DEF MigrationInv, UpRewrites, NewEmail
  <2>2. phase \in {"guard", "up"} => Remaining = {}
    BY NoneRemain
  <2> QED
    BY <2>1, <2>2 DEF MigrationSound, MigrationInv, FailsForAMark, DownRestores
<1> QED
  BY <1>1, AlwaysMigrationInv, PTL

-------------------------------------------------------------------------------
(***************************************************************************)
(* Image analysis.  Every reply on its way already is what the client may  *)
(* rely on, so it does not matter which one comes first; and a handler     *)
(* that has still to ask the model has a reason for every earlier call.    *)
(***************************************************************************)
FromAnswer(attributes) ==
  \E a \in said :
    /\ attributes.labels \subseteq {f \in LabelFields : a.label[f] = "allowed"}
    /\ attributes.texts \subseteq {f \in TextFields : a.text[f] = "given"}
    /\ attributes.clothing \/ attributes.texts # {} => a.clothing = "true"

ReplySound(reply) ==
  /\ reply.status # 0
  /\ reply.status = 200 => FromAnswer(reply.attributes)
  /\ reply.status = 400 <=> upload = "empty"
  /\ reply.status = 500 => tally["errors"] > 0

DeliverySound ==
  /\ upload \notin {"empty", "photo"} => delivery = "absent"
  /\ upload # "photo" => delivery \in {"absent", "validate", "acked"}
  /\ delivery \in {"ack", "reply"} => FromAnswer(analysed)

ResponseSound ==
  /\ upload = "none" => response.status = 0
  /\ upload \in {"missing", "oversized"} => response.status = 400
  /\ upload = "empty" => response.status \in {0, 400, 408}

RepliesSound == \A i \in 1..Len(replies) : ReplySound(replies[i])

BilledOnce ==
  delivery \in {"absent", "validate", "model", "unacked"} =>
    tally["billed"] <= tally["errors"] + tally["interrupted"]

AnalysisInv ==
  /\ AnalysisTypeOK
  /\ DeliverySound
  /\ RepliesSound
  /\ upload \notin {"empty", "photo"} => replies = <<>>
  /\ ResponseSound
  /\ AnswerHonest
  /\ BilledOnce
  /\ CostsHaveCause

LEMMA TallyTyped ==
  ASSUME AnalysisTypeOK
  PROVE  \A t \in Tallies : tally[t] \in Nat
  BY DEF AnalysisTypeOK

(* What is said and counted is never taken back, so what was sound stays so. *)
LEMMA SoundStays ==
  ASSUME AnalysisTypeOK, RepliesSound, UNCHANGED upload, said \subseteq said',
         AnalysisTypeOK', tally'["errors"] >= tally["errors"]
  PROVE  /\ \A attributes : FromAnswer(attributes) => FromAnswer(attributes)'
         /\ \A reply : (\E i \in 1..Len(replies) : reply = replies[i]) => ReplySound(reply)'
<1>1. ASSUME NEW attributes, FromAnswer(attributes) PROVE FromAnswer(attributes)'
  BY <1>1 DEF FromAnswer
<1>2. tally["errors"] \in Nat /\ tally'["errors"] \in Nat
  BY DEF AnalysisTypeOK, Tallies
<1>3. ASSUME NEW reply, ReplySound(reply) PROVE ReplySound(reply)'
  BY <1>1, <1>2, <1>3 DEF ReplySound
<1> QED
  BY <1>1, <1>3 DEF RepliesSound

LEMMA RepliesFollow ==
  ASSUME \A i \in 1..Len(replies') : \A r : r = replies'[i] => ReplySound(r)'
  PROVE  RepliesSound'
<1> SUFFICES ASSUME NEW i \in 1..Len(replies') PROVE ReplySound(replies[i])'
  BY DEF RepliesSound
<1> PICK q : q = replies'[i]
  OBVIOUS
<1>1. ReplySound(q)'
  OBVIOUS
<1> QED
  BY <1>1 DEF ReplySound, FromAnswer

LEMMA RepliesKept ==
  ASSUME AnalysisTypeOK, UNCHANGED replies,
         \A reply : (\E i \in 1..Len(replies) : reply = replies[i]) => ReplySound(reply)'
  PROVE  RepliesSound'
<1>1. \A i \in 1..Len(replies') : \A r : r = replies'[i] => ReplySound(r)'
  OBVIOUS
<1> QED
  BY <1>1, RepliesFollow

LEMMA ReplyAdded ==
  ASSUME AnalysisTypeOK, NEW new \in HttpReply, replies' = Append(replies, new),
         \A reply : (\E i \in 1..Len(replies) : reply = replies[i]) => ReplySound(reply)',
         ReplySound(new)'
  PROVE  replies' \in Seq(HttpReply) /\ RepliesSound'
<1>1. /\ replies' \in Seq(HttpReply) /\ Len(replies') = Len(replies) + 1
      /\ \A i \in 1..Len(replies) : replies'[i] = replies[i]
      /\ replies'[Len(replies) + 1] = new /\ Len(replies) \in Nat
  BY AppendProperties, LenProperties DEF AnalysisTypeOK
<1>2. \A i \in 1..Len(replies') : \A r : r = replies'[i] => ReplySound(r)'
  <2> SUFFICES ASSUME NEW i \in 1..Len(replies'), NEW r, r = replies'[i]
               PROVE  ReplySound(r)'
    OBVIOUS
  <2>1. i \in 1..Len(replies) \/ r = new
    BY <1>1
  <2> QED
    BY <1>1, <2>1
<1> QED
  BY <1>1, <1>2, RepliesFollow

LEMMA Emitted ==
  ASSUME AnalysisTypeOK, NEW severity, Emit(severity)
  PROVE  reports' \in Nat /\ (reports' = reports \/ reports' = reports + 1)
  BY DEF Emit, AnalysisTypeOK

LEMMA AnswerTyped ==
  /\ \A status \in {0, 400, 408, 500} :
       Refusal(status) \in HttpReply /\ Refusal(status).status = status
  /\ \A a \in Answer : ToAttributes(a) \in Attributes
  /\ NoAttributes \in Attributes
  /\ \A a \in Attributes : [status |-> 200, attributes |-> a] \in HttpReply
<1>1. NoAttributes \in Attributes
  BY DEF NoAttributes, Attributes
<1>2. \A status \in {0, 400, 408, 500} :
        Refusal(status) \in HttpReply /\ Refusal(status).status = status
  BY <1>1 DEF Refusal, HttpReply
<1>3. ASSUME NEW a \in Answer PROVE ToAttributes(a) \in Attributes
  <2>1. (a.clothing = "true") \in BOOLEAN
    BY Zenon
  <2> QED
    BY <2>1 DEF ToAttributes, Attributes
<1>4. \A a \in Attributes : [status |-> 200, attributes |-> a] \in HttpReply
  BY DEF HttpReply
<1> QED
  BY <1>1, <1>2, <1>3, <1>4

LEMMA GatewayTyped ==
  ASSUME AnalysisTypeOK, NEW r \in HttpReply, Answered(r)
  PROVE  /\ response' = r /\ reports' \in Nat /\ tally' \in [Tallies -> Nat]
         /\ reports' + tally["filtered"] <= reports + tally'["filtered"]
         /\ \A t \in Tallies \ {"filtered"} : tally'[t] = tally[t]
<1>1. tally \in [Tallies -> Nat] /\ reports \in Nat /\ "filtered" \in Tallies
  BY DEF AnalysisTypeOK, Tallies
<1> QED
  BY <1>1, Emitted DEF Answered

(* What a step counts. *)
Counts(S) ==
  /\ tally' \in [Tallies -> Nat]
  /\ \A t \in Tallies : tally'[t] = IF t \in S THEN tally[t] + 1 ELSE tally[t]

LEMMA Counted ==
  ASSUME AnalysisTypeOK
  PROVE  /\ \A a \in Tallies : tally' = [tally EXCEPT ![a] = @ + 1] => Counts({a})
         /\ \A a, b \in Tallies : a # b /\ tally' = [tally EXCEPT ![a] = @ + 1, ![b] = @ + 1]
              => Counts({a, b})
         /\ \A a, b, c \in Tallies :
              /\ a # b /\ a # c /\ b # c
              /\ tally' = [tally EXCEPT ![a] = @ + 1, ![b] = @ + 1, ![c] = @ + 1]
              => Counts({a, b, c})
<1>1. tally \in [Tallies -> Nat]
  BY DEF AnalysisTypeOK
<1>2. ASSUME NEW a \in Tallies, tally' = [tally EXCEPT ![a] = @ + 1]
      PROVE  Counts({a})
  BY <1>1, <1>2 DEF Counts
<1>3. ASSUME NEW a \in Tallies, NEW b \in Tallies, a # b,
             tally' = [tally EXCEPT ![a] = @ + 1, ![b] = @ + 1]
      PROVE  Counts({a, b})
  BY <1>1, <1>3 DEF Counts
<1>4. ASSUME NEW a \in Tallies, NEW b \in Tallies, NEW c \in Tallies,
             a # b, a # c, b # c,
             tally' = [tally EXCEPT ![a] = @ + 1, ![b] = @ + 1, ![c] = @ + 1]
      PROVE  Counts({a, b, c})
  BY <1>1, <1>4 DEF Counts
<1> QED
  BY <1>2, <1>3, <1>4

LEMMA StepsCount ==
  ASSUME AnalysisTypeOK
  PROVE  /\ ModelAnswers => Counts({"billed"})
         /\ ModelTimesOut => Counts({"billed", "filtered"})
         /\ ModelFails => Counts({"billed", "filtered", "errors"})
         /\ ValidateRequest /\ upload # "photo" => Counts({"filtered"})
         /\ RestartAnalysis /\ delivery # "unacked" => Counts({"replays", "interrupted"})
         /\ RestartAnalysis /\ delivery = "unacked" => Counts({"replays"})
         /\ WriteReport => Counts({"rows"}) \/ Counts({"dropped"})
         /\ CrashLogger => Counts({"rows", "logCrashes"})
<1>1. /\ "billed" \in Tallies /\ "filtered" \in Tallies /\ "errors" \in Tallies
      /\ "replays" \in Tallies /\ "interrupted" \in Tallies /\ "rows" \in Tallies
      /\ "dropped" \in Tallies /\ "logCrashes" \in Tallies
  BY DEF Tallies
<1>2. ModelAnswers => Counts({"billed"})
  BY <1>1, Counted DEF ModelAnswers
<1>3. ModelTimesOut => Counts({"billed", "filtered"})
  BY <1>1, Counted DEF ModelTimesOut
<1>4. ModelFails => Counts({"billed", "filtered", "errors"})
  BY <1>1, Counted DEF ModelFails
<1>5. ValidateRequest /\ upload # "photo" => Counts({"filtered"})
  BY <1>1, Counted DEF ValidateRequest
<1>6. RestartAnalysis /\ delivery # "unacked" => Counts({"replays", "interrupted"})
  BY <1>1, Counted DEF RestartAnalysis
<1>7. RestartAnalysis /\ delivery = "unacked" => Counts({"replays"})
  <2>1. tally \in [Tallies -> Nat] /\ tally["interrupted"] \in Nat
    BY <1>1 DEF AnalysisTypeOK
  <2> QED
    BY <1>1, <2>1 DEF RestartAnalysis, Counts
<1>8. WriteReport => Counts({"rows"}) \/ Counts({"dropped"})
  BY <1>1, Counted DEF WriteReport
<1>9. CrashLogger => Counts({"rows", "logCrashes"})
  BY <1>1, Counted DEF CrashLogger
<1> QED
  BY <1>2, <1>3, <1>4, <1>5, <1>6, <1>7, <1>8, <1>9

LEMMA AnalysisTypeStep ==
  ASSUME AnalysisTypeOK, [AnalysisNext]_analysisVars
  PROVE  AnalysisTypeOK'
<1> USE AnswerTyped DEF AnalysisTypeOK
<1>1. CASE RefuseUpload
  <2>1. Refusal(400) \in HttpReply
    OBVIOUS
  <2> QED
    BY <1>1, <2>1, GatewayTyped DEF RefuseUpload
<1>2. CASE AnalyzeImage
  BY <1>2 DEF AnalyzeImage
<1>3. CASE TakeReply
  <2>1. Head(replies) \in HttpReply /\ Tail(replies) \in Seq(HttpReply)
    BY <1>3, HeadTailProperties DEF TakeReply
  <2> QED
    BY <1>3, <2>1, GatewayTyped DEF TakeReply
<1>4. CASE GiveUpWaiting
  <2>1. Refusal(408) \in HttpReply
    OBVIOUS
  <2> QED
    BY <1>4, <2>1, GatewayTyped DEF GiveUpWaiting
<1>5. CASE ValidateRequest \/ ModelTimesOut \/ ModelFails
  <2>1. /\ replies' = replies \/ \E status \in {400, 408, 500} :
             replies' = Append(replies, Refusal(status))
        /\ reports' \in Nat
        /\ delivery' \in {"acked", "unacked", "model"}
        /\ UNCHANGED <<upload, response, analysed, said>>
    BY <1>5, Emitted DEF ValidateRequest, ModelTimesOut, ModelFails, Filtered, AfterTimeout
  <2>2. tally' \in [Tallies -> Nat]
    BY <1>5, StepsCount DEF ValidateRequest, Counts
  <2>3. replies' \in Seq(HttpReply)
    <3>1. ASSUME NEW status \in {400, 408, 500}, replies' = Append(replies, Refusal(status))
          PROVE  replies' \in Seq(HttpReply)
      <4>1. Refusal(status) \in HttpReply /\ replies \in Seq(HttpReply)
        OBVIOUS
      <4> QED
        BY <3>1, <4>1, AppendProperties
    <3> QED
      BY <2>1, <3>1
  <2> QED
    BY <2>1, <2>2, <2>3
<1>6. CASE ModelAnswers
  BY <1>6, StepsCount DEF ModelAnswers, Counts
<1>7. CASE AckAnalysis
  BY <1>7 DEF AckAnalysis
<1>8. CASE ReplyAttributes
  <2>1. [status |-> 200, attributes |-> analysed] \in HttpReply
    OBVIOUS
  <2> QED
    BY <1>8, <2>1, AppendProperties DEF ReplyAttributes
<1>9. CASE RestartAnalysis
  <2>1. tally' \in [Tallies -> Nat]
    BY <1>9, StepsCount DEF Counts
  <2> QED
    BY <1>9, <2>1 DEF RestartAnalysis
<1>10. CASE WriteReport \/ CrashLogger
  BY <1>10, StepsCount DEF WriteReport, CrashLogger, Counts
<1>11. CASE UNCHANGED analysisVars
  BY <1>11 DEF analysisVars
<1> QED
  BY <1>1, <1>2, <1>3, <1>4, <1>5, <1>6, <1>7, <1>8, <1>9, <1>10, <1>11 DEF AnalysisNext

LEMMA CostsStep ==
  ASSUME AnalysisInv, [AnalysisNext]_analysisVars
  PROVE  BilledOnce' /\ CostsHaveCause'
<1> USE DEF BilledOnce, CostsHaveCause
<1>1. /\ AnalysisTypeOK /\ BilledOnce /\ CostsHaveCause /\ DeliverySound
      /\ tally \in [Tallies -> Nat] /\ reports \in Nat
      /\ \A t \in Tallies : tally[t] \in Nat
      /\ Tallies = {"billed", "errors", "replays", "interrupted", "filtered",
                    "rows", "dropped", "logCrashes"}
  BY DEF AnalysisInv, AnalysisTypeOK, Tallies
<1>2. ASSUME NEW r \in HttpReply, Answered(r), UNCHANGED <<upload, delivery>>
      PROVE  BilledOnce' /\ CostsHaveCause'
  BY <1>1, <1>2, GatewayTyped
<1>3. CASE RefuseUpload
  <2>1. Refusal(400) \in HttpReply /\ upload' # "photo" /\ tally["billed"] = 0
        /\ UNCHANGED delivery /\ Answered(Refusal(400))
    BY <1>1, <1>3, AnswerTyped DEF RefuseUpload
  <2> QED
    BY <1>1, <2>1, GatewayTyped
<1>4. CASE AnalyzeImage
  BY <1>1, <1>4 DEF AnalyzeImage
<1>5. CASE TakeReply
  <2>1. Head(replies) \in HttpReply
    BY <1>1, <1>5, HeadTailProperties DEF TakeReply, AnalysisTypeOK
  <2> QED
    BY <1>2, <1>5, <2>1 DEF TakeReply
<1>6. CASE GiveUpWaiting
  BY <1>2, <1>6, AnswerTyped DEF GiveUpWaiting
<1>7. CASE ValidateRequest
  <2>1. CASE upload = "photo"
    BY <1>1, <1>7, <2>1 DEF ValidateRequest
  <2>2. CASE upload # "photo"
    <3>1. /\ UNCHANGED upload /\ delivery' = "acked"
          /\ reports' \in Nat /\ (reports' = reports \/ reports' = reports + 1)
      BY <1>1, <1>7, <2>2, Emitted DEF ValidateRequest, Filtered
    <3>2. Counts({"filtered"})
      BY <1>1, <1>7, <2>2, StepsCount
    <3> QED
      BY <1>1, <3>1, <3>2 DEF Counts
  <2> QED
    BY <2>1, <2>2
<1>8. CASE ModelAnswers
  BY <1>1, <1>8, StepsCount DEF ModelAnswers, DeliverySound, Counts
<1>9. CASE ModelTimesOut
  <2>1. /\ UNCHANGED upload /\ upload = "photo" /\ delivery = "model" /\ delivery' = "acked"
        /\ reports' \in Nat /\ (reports' = reports \/ reports' = reports + 1)
    BY <1>1, <1>9, Emitted DEF ModelTimesOut, Filtered, AfterTimeout, DeliverySound
  <2>2. Counts({"billed", "filtered"})
    BY <1>1, <1>9, StepsCount
  <2> QED
    BY <1>1, <2>1, <2>2 DEF Counts
<1>10. CASE ModelFails
  <2>1. /\ UNCHANGED upload /\ upload = "photo" /\ delivery = "model" /\ delivery' = "unacked"
        /\ reports' \in Nat /\ (reports' = reports \/ reports' = reports + 1)
    BY <1>1, <1>10, Emitted DEF ModelFails, Filtered, DeliverySound
  <2>2. Counts({"billed", "filtered", "errors"})
    BY <1>1, <1>10, StepsCount
  <2> QED
    BY <1>1, <2>1, <2>2 DEF Counts
<1>11. CASE AckAnalysis \/ ReplyAttributes
  BY <1>1, <1>11 DEF AckAnalysis, ReplyAttributes
<1>12. CASE RestartAnalysis
  BY <1>1, <1>12, StepsCount DEF RestartAnalysis, Counts
<1>13. CASE WriteReport
  BY <1>1, <1>13, StepsCount DEF WriteReport, Counts
<1>14. CASE CrashLogger
  BY <1>1, <1>14, StepsCount DEF CrashLogger, Counts
<1>15. CASE UNCHANGED analysisVars
  BY <1>1, <1>15 DEF analysisVars
<1> QED
  BY <1>3, <1>4, <1>5, <1>6, <1>7, <1>8, <1>9, <1>10, <1>11, <1>12, <1>13, <1>14, <1>15
  DEF AnalysisNext

(* Steps that leave the client's answer and the upload alone. *)
LEMMA AnswerStays ==
  ASSUME AnalysisInv, AnalysisTypeOK', UNCHANGED <<upload, response>>, said \subseteq said',
         tally'["errors"] >= tally["errors"]
  PROVE  ResponseSound' /\ AnswerHonest'
<1>1. tally["errors"] \in Nat /\ tally'["errors"] \in Nat
  BY DEF AnalysisInv, AnalysisTypeOK, Tallies
<1> QED
  BY <1>1 DEF AnalysisInv, ResponseSound, AnswerHonest

AnalysisSound ==
  /\ DeliverySound /\ RepliesSound /\ ResponseSound /\ AnswerHonest
  /\ upload \notin {"empty", "photo"} => replies = <<>>

LEMMA NoRepliesSound == replies = <<>> => RepliesSound
  BY DEF RepliesSound

LEMMA RefuseUploadStep ==
  ASSUME AnalysisInv, RefuseUpload
  PROVE  AnalysisSound'
<1>1. /\ Answered(Refusal(400)) /\ Refusal(400).status = 400
      /\ upload' \in {"missing", "oversized"} /\ upload = "none"
      /\ UNCHANGED <<replies, delivery, analysed, said>>
  BY AnswerTyped DEF RefuseUpload
<1>2. response' = Refusal(400)
  BY <1>1 DEF Answered
<1>3. replies' = <<>> /\ delivery' = "absent"
  BY <1>1 DEF AnalysisInv, DeliverySound
<1>4. RepliesSound'
  BY <1>3 DEF RepliesSound
<1> QED
  BY <1>1, <1>2, <1>3, <1>4 DEF AnalysisSound, DeliverySound, ResponseSound, AnswerHonest

LEMMA AnalyzeImageStep ==
  ASSUME AnalysisInv, AnalyzeImage
  PROVE  AnalysisSound'
<1>1. replies' = <<>> /\ response'.status = 0
  BY DEF AnalyzeImage, AnalysisInv, ResponseSound
<1>2. RepliesSound'
  BY <1>1 DEF RepliesSound
<1> QED
  BY <1>1, <1>2 DEF AnalyzeImage, AnalysisSound, DeliverySound, ResponseSound, AnswerHonest

LEMMA TakeReplyStep ==
  ASSUME AnalysisInv, TakeReply, AnalysisTypeOK'
  PROVE  AnalysisSound'
<1> PICK r : r = Head(replies)
  OBVIOUS
<1>1. /\ r \in HttpReply /\ ReplySound(r) /\ Len(replies) \in Nat /\ Len(replies) > 0
      /\ Len(replies') = Len(replies) - 1
      /\ \A i \in 1..Len(replies') : replies'[i] = replies[i + 1]
  <2>1. replies \in Seq(HttpReply) /\ replies # <<>> /\ replies' = Tail(replies)
    BY DEF AnalysisInv, AnalysisTypeOK, TakeReply
  <2>2. /\ Len(replies) \in Nat \ {0} /\ Len(replies') = Len(replies) - 1
        /\ \A i \in 1..Len(replies') : replies'[i] = replies[i + 1]
    BY <2>1
  <2>3. r \in HttpReply /\ r = replies[1] /\ 1 \in 1..Len(replies)
    BY <2>1, <2>2, HeadTailProperties
  <2> QED
    BY <2>2, <2>3 DEF AnalysisInv, RepliesSound
<1>2. response' = r /\ tally'["errors"] = tally["errors"] /\ tally["errors"] \in Nat
  BY <1>1, GatewayTyped DEF TakeReply, AnalysisInv, AnalysisTypeOK, Tallies
<1>3. /\ upload \in {"empty", "photo"} /\ UNCHANGED <<upload, delivery, analysed, said>>
  BY DEF TakeReply, Waiting
<1>4. ReplySound(r)'
  BY <1>1, <1>2, <1>3 DEF ReplySound, FromAnswer
<1>5. RepliesSound'
  <2>1. \A i \in 1..Len(replies') : \A q : q = replies'[i] => ReplySound(q)'
    <3> SUFFICES ASSUME NEW i \in 1..Len(replies'), NEW q, q = replies'[i]
                 PROVE  ReplySound(q)'
      OBVIOUS
    <3>1. q = replies[i + 1] /\ i + 1 \in 1..Len(replies)
      BY <1>1
    <3>2. ReplySound(q)
      BY <3>1 DEF AnalysisInv, RepliesSound
    <3> QED
      BY <1>2, <1>3, <3>2 DEF ReplySound, FromAnswer
  <2> QED
    BY <2>1, RepliesFollow
<1>6. DeliverySound'
  BY <1>3 DEF AnalysisInv, DeliverySound, FromAnswer
<1>7. ResponseSound' /\ AnswerHonest'
  BY <1>1, <1>2, <1>3, <1>4
  DEF ResponseSound, AnswerHonest, ReplySound, FromAnswer, HttpReply
<1> QED
  BY <1>3, <1>5, <1>6, <1>7 DEF AnalysisSound

LEMMA GiveUpWaitingStep ==
  ASSUME AnalysisInv, GiveUpWaiting
  PROVE  AnalysisSound'
<1>1. /\ Refusal(408) \in HttpReply /\ Refusal(408).status = 408
      /\ Answered(Refusal(408)) /\ AnalysisTypeOK
  BY AnswerTyped DEF GiveUpWaiting, AnalysisInv
<1>2. /\ response'.status = 408 /\ tally'["errors"] = tally["errors"]
  BY <1>1, GatewayTyped DEF Tallies
<1>3. /\ upload \in {"empty", "photo"} /\ UNCHANGED <<upload, replies, delivery, analysed, said>>
  BY DEF GiveUpWaiting, Waiting
<1>4. RepliesSound'
  BY <1>2, <1>3 DEF AnalysisInv, RepliesSound, ReplySound, FromAnswer
<1> QED
  BY <1>2, <1>3, <1>4
  DEF AnalysisInv, AnalysisSound, DeliverySound, ResponseSound, AnswerHonest, FromAnswer

(* Steps of the service: at most one reply is added. *)
LEMMA ServiceStep ==
  ASSUME AnalysisInv, AnalysisTypeOK', UNCHANGED <<upload, response>>,
         said \subseteq said', tally'["errors"] >= tally["errors"],
         upload \in {"empty", "photo"} \/ UNCHANGED <<replies, delivery>>,
         \/ UNCHANGED replies
         \/ \E new \in HttpReply : replies' = Append(replies, new) /\ ReplySound(new)',
         DeliverySound'
  PROVE  AnalysisSound'
<1>1. AnalysisTypeOK /\ RepliesSound
  BY DEF AnalysisInv
<1>2. \A reply : (\E i \in 1..Len(replies) : reply = replies[i]) => ReplySound(reply)'
  BY <1>1, SoundStays
<1>3. RepliesSound'
  BY <1>1, <1>2, RepliesKept, ReplyAdded
<1>4. ResponseSound' /\ AnswerHonest'
  BY AnswerStays
<1> QED
  BY <1>3, <1>4 DEF AnalysisSound, AnalysisInv

LEMMA AnalysisSoundStep ==
  ASSUME AnalysisInv, [AnalysisNext]_analysisVars
  PROVE  AnalysisSound'
<1>1. /\ AnalysisTypeOK /\ AnalysisTypeOK' /\ DeliverySound
      /\ "errors" \in Tallies /\ tally["errors"] \in Nat
  BY AnalysisTypeStep DEF AnalysisInv, AnalysisTypeOK, Tallies
<1>2. CASE ValidateRequest
  <2>1. CASE upload = "photo"
    <3>1. DeliverySound'
      BY <1>1, <1>2, <2>1 DEF ValidateRequest, DeliverySound
    <3> QED
      BY <1>1, <1>2, <2>1, <3>1, ServiceStep DEF ValidateRequest
  <2>2. CASE upload # "photo"
    <3>1. upload = "empty" /\ UNCHANGED <<upload, response, said>> /\ delivery' = "acked"
      BY <1>1, <1>2, <2>2 DEF ValidateRequest, DeliverySound
    <3>2. tally'["errors"] = tally["errors"]
      BY <1>1, <1>2, <2>2, StepsCount DEF Counts
    <3> PICK new : new = Refusal(400)
      OBVIOUS
    <3>3. new \in HttpReply /\ new.status = 400
      BY AnswerTyped
    <3>4. replies' = Append(replies, new)
      BY <1>2, <2>2 DEF ValidateRequest, Filtered
    <3>5. ReplySound(new)' /\ DeliverySound'
      BY <3>1, <3>3 DEF ReplySound, DeliverySound
    <3> QED
      BY <1>1, <3>1, <3>2, <3>3, <3>4, <3>5, ServiceStep
  <2> QED
    BY <2>1, <2>2
<1>3. CASE ModelAnswers
  <2>1. upload = "photo" /\ UNCHANGED <<upload, response, replies>> /\ delivery' = "ack"
    BY <1>1, <1>3 DEF ModelAnswers, DeliverySound
  <2>2. tally'["errors"] = tally["errors"]
    BY <1>1, <1>3, StepsCount DEF Counts
  <2>3. PICK a \in Answer : said' = said \cup {a} /\ analysed' = ToAttributes(a)
    BY <1>3 DEF ModelAnswers
  <2>4. (analysed'.clothing <=> a.clothing = "true")
        /\ analysed'.labels = {f \in LabelFields : a.label[f] = "allowed"}
        /\ analysed'.texts = {f \in TextFields : a.clothing = "true" /\ a.text[f] = "given"}
    BY <2>3, Zenon DEF ToAttributes
  <2>5. FromAnswer(analysed)'
    BY <2>3, <2>4 DEF FromAnswer
  <2>6. DeliverySound'
    BY <2>1, <2>5 DEF DeliverySound
  <2> QED
    BY <1>1, <2>1, <2>2, <2>3, <2>6, ServiceStep
<1>4. CASE ModelTimesOut
  <2>1. upload = "photo" /\ UNCHANGED <<upload, response, said>> /\ delivery' = "acked"
    BY <1>1, <1>4 DEF ModelTimesOut, DeliverySound, AfterTimeout
  <2>2. tally'["errors"] = tally["errors"]
    BY <1>1, <1>4, StepsCount DEF Counts
  <2> PICK new : new = Refusal(408)
    OBVIOUS
  <2>3. new \in HttpReply /\ new.status = 408 /\ replies' = Append(replies, new)
    BY <1>4, AnswerTyped DEF ModelTimesOut, Filtered
  <2>4. ReplySound(new)' /\ DeliverySound'
    BY <2>1, <2>3 DEF ReplySound, DeliverySound
  <2> QED
    BY <1>1, <2>1, <2>2, <2>3, <2>4, ServiceStep
<1>5. CASE ModelFails
  <2>1. upload = "photo" /\ UNCHANGED <<upload, response, said>> /\ delivery' = "unacked"
    BY <1>1, <1>5 DEF ModelFails, DeliverySound
  <2>2. tally'["errors"] = tally["errors"] + 1
    BY <1>1, <1>5, StepsCount DEF Counts
  <2> PICK new : new = Refusal(500)
    OBVIOUS
  <2>3. new \in HttpReply /\ new.status = 500 /\ replies' = Append(replies, new)
    BY <1>5, AnswerTyped DEF ModelFails, Filtered
  <2>4. ReplySound(new)' /\ DeliverySound'
    BY <1>1, <2>1, <2>2, <2>3 DEF ReplySound, DeliverySound
  <2> QED
    BY <1>1, <2>1, <2>2, <2>3, <2>4, ServiceStep
<1>6. CASE AckAnalysis
  <2>1. DeliverySound' /\ upload = "photo"
    BY <1>1, <1>6 DEF AckAnalysis, DeliverySound, FromAnswer
  <2> QED
    BY <1>1, <1>6, <2>1, ServiceStep DEF AckAnalysis
<1>7. CASE ReplyAttributes
  <2>1. /\ upload = "photo" /\ UNCHANGED <<upload, response, said, tally>>
        /\ delivery' = "acked" /\ FromAnswer(analysed) /\ analysed \in Attributes
    BY <1>1, <1>7 DEF ReplyAttributes, DeliverySound, AnalysisTypeOK
  <2> PICK new : new = [status |-> 200, attributes |-> analysed]
    OBVIOUS
  <2>2. /\ new \in HttpReply /\ new.status = 200 /\ new.attributes = analysed
        /\ replies' = Append(replies, new)
    BY <1>7, <2>1, AnswerTyped DEF ReplyAttributes
  <2>3. ReplySound(new)' /\ DeliverySound'
    BY <2>1, <2>2 DEF ReplySound, DeliverySound, FromAnswer
  <2> QED
    BY <1>1, <2>1, <2>2, <2>3, ServiceStep
<1>8. CASE RestartAnalysis
  <2>1. DeliverySound' /\ upload \in {"empty", "photo"}
    BY <1>1, <1>8 DEF RestartAnalysis, DeliverySound
  <2>2. tally'["errors"] = tally["errors"]
    BY <1>1, <1>8, StepsCount DEF Counts
  <2> QED
    BY <1>1, <1>8, <2>1, <2>2, ServiceStep DEF RestartAnalysis
<1>9. CASE WriteReport \/ CrashLogger
  <2>1. tally'["errors"] = tally["errors"]
    BY <1>1, <1>9, StepsCount DEF Counts
  <2>2. UNCHANGED <<upload, response, replies, delivery, analysed, said>>
    BY <1>9 DEF WriteReport, CrashLogger
  <2>3. DeliverySound'
    BY <1>1, <2>2 DEF DeliverySound, FromAnswer
  <2> QED
    BY <1>1, <2>1, <2>2, <2>3, ServiceStep
<1>10. CASE UNCHANGED analysisVars
  <2>1. DeliverySound' /\ UNCHANGED <<upload, response, replies, delivery, said, tally>>
    BY <1>1, <1>10 DEF DeliverySound, FromAnswer, analysisVars
  <2> QED
    BY <1>1, <2>1, ServiceStep
<1> QED
  BY <1>1, <1>2, <1>3, <1>4, <1>5, <1>6, <1>7, <1>8, <1>9, <1>10, RefuseUploadStep,
     AnalyzeImageStep, TakeReplyStep, GiveUpWaitingStep
  DEF AnalysisNext

LEMMA AlwaysAnalysisInv == AnalysisSpec => []AnalysisInv
<1>1. AnalysisInit => AnalysisInv
  <2> SUFFICES ASSUME AnalysisInit PROVE AnalysisInv
    OBVIOUS
  <2>1. AnalysisTypeOK
    BY AnswerTyped DEF AnalysisInit, AnalysisTypeOK
  <2>2. response.status = 0 /\ replies = <<>> /\ delivery = "absent" /\ upload = "none"
    BY AnswerTyped DEF AnalysisInit
  <2>3. \A t \in Tallies : tally[t] = 0
    BY DEF AnalysisInit
  <2>4. BilledOnce /\ CostsHaveCause /\ reports = 0
    BY <2>3 DEF AnalysisInit, BilledOnce, CostsHaveCause, Tallies
  <2> QED
    BY <2>1, <2>2, <2>4, NoRepliesSound
    DEF AnalysisInv, DeliverySound, ResponseSound, AnswerHonest
<1>2. AnalysisInv /\ [AnalysisNext]_analysisVars => AnalysisInv'
  BY AnalysisTypeStep, CostsStep, AnalysisSoundStep DEF AnalysisInv, AnalysisSound
<1> QED
  BY <1>1, <1>2, PTL DEF AnalysisSpec

(* Whatever is redelivered, late or lost, the counts and messages of an      *)
(* analysis keep their types.                                                *)
THEOREM AnalysisTypeCorrect == AnalysisSpec => []AnalysisTypeOK
  BY AlwaysAnalysisInv, PTL DEF AnalysisInv

(* The gateway's answer to analyze-image is one the client can rely on.      *)
THEOREM AnswersHonest == AnalysisSpec => []AnswerHonest
  BY AlwaysAnalysisInv, PTL DEF AnalysisInv

(* The model is paid again, and an error reported, only for a reason.        *)
THEOREM CostsCaused == AnalysisSpec => []CostsHaveCause
  BY AlwaysAnalysisInv, PTL DEF AnalysisInv

-------------------------------------------------------------------------------
(* The run that has them all.                                                *)

(* Checking the services one at a time, in one product of their variables,   *)
(* adds no behaviour to any of them: each goes by its own specification.     *)
THEOREM ServicesSeparate ==
  ServicesSpec => /\ AssistantSpec /\ LoopSpec /\ LogSpec /\ AccountsSpec
                  /\ MigrationSpec /\ AnalysisSpec
<1>1. ServicesInit => /\ ConversationInit /\ LoopInit /\ LogInit /\ AccountsInit
                      /\ MigrationInit /\ AnalysisInit
  BY DEF ServicesInit
<1>2. ASSUME [ServicesNext]_serviceVars
      PROVE  /\ [AssistantNext]_allVars /\ [LoopNext]_loopVars /\ [LogNext]_logVars
             /\ [AccountsNext]_accountVars /\ [MigrationNext]_migrationVars
             /\ [AnalysisNext]_analysisVars
  BY <1>2 DEF ServicesNext, serviceVars
<1> QED
  BY <1>1, <1>2, PTL
  DEF ServicesSpec, AssistantSpec, LoopSpec, LogSpec, AccountsSpec, MigrationSpec, AnalysisSpec

(* The variables of all six have their types throughout.                     *)
THEOREM ServicesTypeCorrect == ServicesSpec => []ServicesTypeOK
<1>1. ConversationTypeOK /\ LoopTypeOK /\ LogTypeOK /\ AccountsTypeOK /\ MigrationTypeOK
        /\ AnalysisTypeOK => ServicesTypeOK
  BY DEF ServicesTypeOK
<1> QED
  BY <1>1, ServicesSeparate, ConversationTypeCorrect, LoopTypeCorrect, LogTypeCorrect,
     AccountsTypeCorrect, MigrationTypeCorrect, AnalysisTypeCorrect, PTL

===============================================================================
