---------------------------- MODULE WebhookProofs ----------------------------
(***************************************************************************)
(* Theorems about the webhook queue, for any number of jobs, attempts and  *)
(* faults.                                                                 *)
(***************************************************************************)
EXTENDS WebhookQueue, TLAPS

(* What the dispatcher holds is what the table says: nobody else writes a    *)
(* job that has been scheduled.                                              *)
CopyCurrent ==
  /\ pc \in {"claim", "send", "sent", "rejected"} =>
       /\ current.id \in 1..scheduled
       /\ current.row = table[current.id]
  /\ pc = "claim" =>
       /\ table[current.id].status = "pending" /\ table[current.id].due
       /\ \A j \in JobIds : j < current.id => table[j].attempts > 0
  /\ pc \in {"send", "sent", "rejected"} =>
       table[current.id].status = "processing"
  /\ pc = "sent" => received[current.id] > 0

(* The life of a job: not yet scheduled, not yet tried, or tried. *)
RowsSane ==
  \A j \in JobIds :
    /\ j > scheduled <=> table[j].status = "none"
    /\ table[j].status = "none" => table[j].attempts = 0
    /\ table[j].status = "pending" => table[j].attempts < MaxAttempts
    /\ table[j].status = "pending" /\ table[j].attempts = 0 => table[j].due
    /\ table[j].status \notin {"none", "pending"} => table[j].attempts > 0

(* What holds however the run ends: also with the crashes of the service that *)
(* Conversation adds, which strand jobs without counting as faults here.      *)
QueueInv ==
  /\ TypeOK
  /\ CopyCurrent
  /\ RowsSane
  /\ DeliveriesCounted
  /\ OutcomesEarned
  /\ FirstComeFirstTried

IInv == QueueInv /\ NoneStranded

LEMMA RowTypes ==
  ASSUME NEW r \in Row
  PROVE  /\ NoJob \in Row /\ NewJob \in Row
         /\ r.attempts < MaxAttempts => Claimed(r) \in Row
         /\ AfterFailure(r) \in Row
         /\ [r EXCEPT !.due = TRUE] \in Row
         /\ [r EXCEPT !.status = "succeeded"] \in Row
<1>1. NoJob \in Row /\ NewJob \in Row
  BY WebhookAssumption DEF NoJob, NewJob, Row, Status
<1>2. r.attempts < MaxAttempts => Claimed(r) \in Row
  <2>1. r.attempts < MaxAttempts => r.attempts + 1 \in 0..MaxAttempts
    BY WebhookAssumption DEF Row
  <2> QED
    BY <2>1 DEF Claimed, Row, Status
<1>3. AfterFailure(r) \in Row
  <2>1. [r EXCEPT !.status = "failed"] \in Row
    BY DEF Row, Status
  <2>2. [r EXCEPT !.status = "pending", !.due = FALSE] \in Row
    BY DEF Row, Status
  <2> QED
    BY <2>1, <2>2 DEF AfterFailure
<1>4. [r EXCEPT !.due = TRUE] \in Row /\ [r EXCEPT !.status = "succeeded"] \in Row
  BY DEF Row, Status
<1> QED
  BY <1>1, <1>2, <1>3, <1>4

LEMMA ScheduledIds == TypeOK => 1..scheduled \subseteq JobIds
  BY WebhookAssumption DEF TypeOK, JobIds

LEMMA InitQueueInv == Init => QueueInv
<1> SUFFICES ASSUME Init PROVE QueueInv
  OBVIOUS
<1>1. NoJob \in Row
  BY WebhookAssumption DEF NoJob, Row, Status
<1>2. TypeOK
  BY <1>1, WebhookAssumption DEF Init, TypeOK
<1>3. \A j \in JobIds :
        table[j].status = "none" /\ table[j].attempts = 0 /\ received[j] = 0
  BY DEF Init, NoJob
<1> QED
  BY <1>2, <1>3
  DEF Init, QueueInv, CopyCurrent, RowsSane, DeliveriesCounted, Held,
      OutcomesEarned, FirstComeFirstTried, JobIds

LEMMA ScheduleJobStep ==
  ASSUME QueueInv, ScheduleJob
  PROVE  QueueInv'
<1>1. NewJob \in Row /\ NewJob.status = "pending" /\ NewJob.due /\ NewJob.attempts = 0
  BY WebhookAssumption DEF NewJob, Row, Status
<1>2. /\ scheduled \in Nat /\ scheduled + 1 \in JobIds
      /\ scheduled' = scheduled + 1
      /\ table \in [JobIds -> Row] /\ table' = [table EXCEPT ![scheduled + 1] = NewJob]
      /\ UNCHANGED <<pc, current, received, faults>>
  BY WebhookAssumption DEF ScheduleJob, QueueInv, TypeOK, JobIds
<1>3. /\ table'[scheduled + 1] = NewJob /\ table[scheduled + 1].status = "none"
      /\ \A j \in JobIds : j # scheduled + 1 => table'[j] = table[j]
  BY <1>2 DEF QueueInv, RowsSane
<1>4. TypeOK'
  BY <1>1, <1>2 DEF QueueInv, TypeOK, JobIds
<1>5. CopyCurrent'
  BY <1>2, <1>3 DEF QueueInv, CopyCurrent, JobIds
<1>6. RowsSane'
  BY <1>1, <1>2, <1>3, WebhookAssumption DEF QueueInv, RowsSane, JobIds
<1>7. DeliveriesCounted' /\ OutcomesEarned'
  BY <1>1, <1>2, <1>3
  DEF QueueInv, TypeOK, RowsSane, DeliveriesCounted, OutcomesEarned,
      Held, JobIds
<1>8. FirstComeFirstTried'
  BY <1>1, <1>2, <1>3 DEF QueueInv, FirstComeFirstTried, JobIds
<1> QED
  BY <1>4, <1>5, <1>6, <1>7, <1>8 DEF QueueInv

LEMMA BecomeDueStep ==
  ASSUME QueueInv, NEW j \in JobIds, BecomeDue(j)
  PROVE  QueueInv'
<1> DEFINE m == [table[j] EXCEPT !.due = TRUE]
<1>1. /\ table \in [JobIds -> Row] /\ table[j] \in Row
      /\ table[j].status = "pending" /\ ~table[j].due
      /\ UNCHANGED <<scheduled, pc, current, received, faults>>
  BY DEF QueueInv, TypeOK, BecomeDue
<1>2. /\ m \in Row /\ m.status = "pending" /\ m.attempts = table[j].attempts
      /\ m.due
  BY <1>1, RowTypes DEF Row
<1>3. table' = [table EXCEPT ![j] = m]
  BY DEF BecomeDue
<1> HIDE DEF m
<1>4. /\ table'[j] = m
      /\ \A k \in JobIds : k # j => table'[k] = table[k]
  BY <1>1, <1>3
(* The job the dispatcher is about to claim was due already. *)
<1>5. TypeOK'
  BY <1>1, <1>2, <1>3 DEF QueueInv, TypeOK
<1>6. pc \in {"claim", "send", "sent", "rejected"} => current.id # j
  BY <1>1 DEF QueueInv, CopyCurrent
<1>7. CopyCurrent'
  BY <1>1, <1>2, <1>4, <1>6, ScheduledIds DEF QueueInv, CopyCurrent
<1>8. RowsSane'
  BY <1>1, <1>2, <1>4 DEF QueueInv, RowsSane
<1>9. DeliveriesCounted' /\ OutcomesEarned'
  BY <1>1, <1>2, <1>4
  DEF QueueInv, DeliveriesCounted, OutcomesEarned, Held
<1>10. FirstComeFirstTried'
  BY <1>1, <1>2, <1>4, ScheduledIds DEF QueueInv, FirstComeFirstTried
<1> QED
  BY <1>5, <1>7, <1>8, <1>9, <1>10 DEF QueueInv

LEMMA FindJobStep ==
  ASSUME QueueInv, HandleQueue \/ FindJob
  PROVE  QueueInv'
<1>1. UNCHANGED <<table, scheduled, received, faults>> /\ pc \in {"idle", "find"}
  BY DEF HandleQueue, FindJob
<1>2. CASE pc' \in {"idle", "find"} /\ UNCHANGED current
  <2>1. \A j \in JobIds : ~Held(j) /\ ~Held(j)'
    BY <1>1, <1>2 DEF Held
  <2> QED
    BY <1>1, <1>2, <2>1
    DEF QueueInv, TypeOK, CopyCurrent, RowsSane, DeliveriesCounted, OutcomesEarned,
        FirstComeFirstTried
<1>3. CASE \E j \in Ready : /\ IsNext(j)
                            /\ current' = [id |-> j, row |-> table[j]]
                            /\ pc' = "claim"
  <2>1. PICK j \in Ready :
          /\ IsNext(j)
          /\ current' = [id |-> j, row |-> table[j]]
          /\ pc' = "claim"
    BY <1>3
  <2>2. j \in JobIds /\ table[j].status = "pending" /\ table[j].due /\ table[j] \in Row
    BY DEF Ready, QueueInv, TypeOK
  <2>3. j \in 1..scheduled
    BY <2>2 DEF QueueInv, TypeOK, RowsSane, JobIds
  <2>4. \A k \in JobIds : k < j => table[k].attempts > 0
    <3>1. \A k \in JobIds : k < j => k <= scheduled /\ table[k].attempts \in Nat
      BY <2>3 DEF JobIds, QueueInv, TypeOK, Row
    <3>2. \A k \in Ready : j <= k
      BY <2>1 DEF IsNext
    <3>3. \A k \in JobIds : k < j => k \notin Ready
      BY <2>2, <3>2 DEF JobIds
    <3>4. \A k \in JobIds : k < j /\ table[k].attempts = 0 => k \in Ready
      BY <3>1 DEF Ready, QueueInv, RowsSane, TypeOK, JobIds
    <3> QED
      BY <3>1, <3>3, <3>4
  <2>5. TypeOK' /\ CopyCurrent'
    BY <1>1, <2>1, <2>2, <2>3, <2>4 DEF QueueInv, TypeOK, CopyCurrent
  <2>6. \A k \in JobIds : ~Held(k) /\ ~Held(k)'
    BY <1>1, <2>1 DEF Held
  <2> QED
    BY <1>1, <2>5, <2>6
    DEF QueueInv, RowsSane, DeliveriesCounted, OutcomesEarned,
        FirstComeFirstTried
<1> QED
  BY <1>2, <1>3 DEF HandleQueue, FindJob

LEMMA ClaimJobStep ==
  ASSUME QueueInv, ClaimJob
  PROVE  QueueInv'
<1> DEFINE c == current.id
           m == Claimed(current.row)
<1>1. /\ c \in JobIds /\ c \in 1..scheduled /\ current.row = table[c]
      /\ table \in [JobIds -> Row] /\ table[c] \in Row /\ scheduled \in Nat
      /\ table[c].status = "pending" /\ table[c].attempts < MaxAttempts
      /\ pc = "claim" /\ pc' = "send"
      /\ UNCHANGED <<scheduled, received, faults>>
      /\ \A j \in JobIds : j < c => table[j].attempts > 0
  BY DEF QueueInv, TypeOK, CopyCurrent, RowsSane, ClaimJob, JobIds
<1>2. /\ m \in Row /\ m.status = "processing"
      /\ m.attempts = table[c].attempts + 1
  <2>1. m \in Row
    BY <1>1, RowTypes
  <2> QED
    BY <1>1, <2>1 DEF Claimed, Row
<1>3. current' = [current EXCEPT !.row = m] /\ table' = [table EXCEPT ![c] = m]
  BY DEF ClaimJob
<1> HIDE DEF m
<1>4. /\ table'[c] = m /\ \A j \in JobIds : j # c => table'[j] = table[j]
      /\ current'.id = c /\ current'.row = m
      /\ current' \in [id : JobIds \cup {0}, row : Row]
  BY <1>1, <1>2, <1>3 DEF QueueInv, TypeOK
<1>5. \A j \in JobIds : table[j].attempts \in Nat /\ received[j] \in Nat
  BY <1>1 DEF Row, QueueInv, TypeOK
<1>6. TypeOK' /\ CopyCurrent'
  <2>1. table' \in [JobIds -> Row]
    BY <1>1, <1>2, <1>3
  <2>2. TypeOK'
    BY <1>1, <1>4, <2>1 DEF QueueInv, TypeOK
  <2>3. CopyCurrent'
    BY <1>1, <1>2, <1>4 DEF CopyCurrent
  <2> QED
    BY <2>2, <2>3
<1>7. RowsSane'
  BY <1>1, <1>2, <1>4, <1>5 DEF QueueInv, RowsSane, JobIds
<1>8. \A j \in JobIds : ~Held(j) /\ (Held(j)' <=> j = c)
  BY <1>1, <1>4 DEF Held
<1>9. DeliveriesCounted' /\ OutcomesEarned'
  BY <1>1, <1>2, <1>4, <1>5, <1>8
  DEF QueueInv, DeliveriesCounted, OutcomesEarned
<1>10. FirstComeFirstTried'
  <2> SUFFICES ASSUME NEW j \in 1..scheduled, NEW k \in 1..scheduled, j < k,
                      table'[k].attempts > 0
               PROVE  table'[j].attempts > 0
    BY <1>1 DEF FirstComeFirstTried
  <2>1. j \in JobIds /\ k \in JobIds
    BY ScheduledIds DEF QueueInv
  <2>2. table[j].attempts > 0 => table'[j].attempts > 0
    BY <1>1, <1>2, <1>4, <1>5, <2>1
  <2>3. CASE k = c
    BY <1>1, <2>1, <2>2, <2>3
  <2>4. CASE k # c
    BY <1>4, <2>1, <2>2, <2>4 DEF QueueInv, FirstComeFirstTried
  <2> QED
    BY <2>3, <2>4
<1> QED
  BY <1>6, <1>7, <1>9, <1>10 DEF QueueInv

LEMMA SendPayloadStep ==
  ASSUME QueueInv, SendPayload
  PROVE  QueueInv'
<1>1. /\ pc = "send" /\ pc' \in {"sent", "rejected"}
      /\ current.id \in JobIds /\ received \in [JobIds -> Nat]
      /\ UNCHANGED <<table, scheduled, current, faults>>
  BY DEF QueueInv, TypeOK, CopyCurrent, SendPayload, JobIds
<1>2. /\ \A j \in JobIds : j # current.id => received'[j] = received[j]
      /\ received'[current.id] \in {received[current.id], received[current.id] + 1}
      /\ pc' = "sent" => received'[current.id] = received[current.id] + 1
      /\ received' \in [JobIds -> Nat]
  BY <1>1 DEF SendPayload
<1>3. \A j \in JobIds : table[j].attempts \in Nat /\ received[j] \in Nat
  BY <1>1 DEF Row, QueueInv, TypeOK
<1>4. \A j \in JobIds : (Held(j) <=> j = current.id) /\ (Held(j)' <=> j = current.id)
  BY <1>1 DEF Held
<1>5. TypeOK' /\ CopyCurrent' /\ RowsSane'
  BY <1>1, <1>2, <1>3 DEF QueueInv, TypeOK, CopyCurrent, RowsSane
<1>6. DeliveriesCounted'
  BY <1>1, <1>2, <1>3, <1>4 DEF QueueInv, DeliveriesCounted
<1>7. OutcomesEarned' /\ FirstComeFirstTried'
  BY <1>1, <1>2, <1>3, <1>4
  DEF QueueInv, OutcomesEarned, FirstComeFirstTried
<1> QED
  BY <1>5, <1>6, <1>7 DEF QueueInv

LEMMA MarkSucceededStep ==
  ASSUME QueueInv, MarkSucceeded
  PROVE  QueueInv'
<1> DEFINE c == current.id
           m == [table[c] EXCEPT !.status = "succeeded"]
<1>1. /\ c \in 1..scheduled /\ c \in JobIds /\ table[c].status = "processing"
      /\ pc = "sent" /\ received[c] > 0
      /\ table \in [JobIds -> Row] /\ table[c] \in Row
      /\ UNCHANGED <<scheduled, current, received>>
  BY ScheduledIds DEF QueueInv, TypeOK, CopyCurrent, MarkSucceeded
<1>2. \A j \in JobIds : Held(j) <=> j = c
  BY <1>1 DEF Held
<1>3. CASE Fault /\ pc' = "rejected" /\ UNCHANGED table
  <2>1. faults' \in 0..MaxFaults /\ faults' # 0
    BY <1>3, WebhookAssumption DEF Fault, QueueInv, TypeOK
  <2>2. \A j \in JobIds : Held(j)' <=> j = c
    BY <1>1, <1>3 DEF Held
  <2> QED
    BY <1>1, <1>2, <1>3, <2>1, <2>2
    DEF QueueInv, TypeOK, CopyCurrent, RowsSane, DeliveriesCounted, OutcomesEarned,
        FirstComeFirstTried
<1>4. CASE table' = [table EXCEPT ![c] = m] /\ pc' = "find" /\ UNCHANGED faults
  <2>1. m \in Row /\ m.status = "succeeded" /\ m.attempts = table[c].attempts
    BY <1>1, RowTypes DEF Row
  <2> HIDE DEF m
  <2>2. table'[c] = m /\ \A j \in JobIds : j # c => table'[j] = table[j]
    BY <1>1, <1>4
  <2>3. \A j \in JobIds : ~Held(j)'
    BY <1>4 DEF Held
  <2>4. TypeOK' /\ CopyCurrent'
    BY <1>1, <1>4, <2>1 DEF QueueInv, TypeOK, CopyCurrent
  <2>5. RowsSane'
    BY <1>1, <2>1, <2>2 DEF QueueInv, RowsSane
  <2>6. DeliveriesCounted' /\ OutcomesEarned'
    BY <1>1, <1>2, <1>4, <2>1, <2>2, <2>3
    DEF QueueInv, DeliveriesCounted, OutcomesEarned
  <2>7. FirstComeFirstTried'
    BY <1>1, <2>1, <2>2, ScheduledIds DEF QueueInv, FirstComeFirstTried
  <2> QED
    BY <2>4, <2>5, <2>6, <2>7 DEF QueueInv
<1>5. table' = [table EXCEPT ![c].status = "succeeded"] => table' = [table EXCEPT ![c] = m]
  OBVIOUS
<1> QED
  BY <1>3, <1>4, <1>5 DEF MarkSucceeded

LEMMA MarkFailedStep ==
  ASSUME QueueInv, MarkFailed
  PROVE  QueueInv'
<1> DEFINE c == current.id
           m == AfterFailure(table[c])
<1>1. /\ c \in 1..scheduled /\ c \in JobIds /\ table[c].status = "processing"
      /\ pc = "rejected" /\ pc' = "find" /\ current.row = table[c]
      /\ table \in [JobIds -> Row] /\ table[c] \in Row
      /\ UNCHANGED <<scheduled, current, received, faults>>
  BY ScheduledIds DEF QueueInv, TypeOK, CopyCurrent, MarkFailed
<1>2. table[c].attempts \in 1..MaxAttempts
  BY <1>1, WebhookAssumption DEF QueueInv, RowsSane, Row
<1>3. /\ m \in Row /\ m.attempts = table[c].attempts
      /\ m.status = "failed" => table[c].attempts = MaxAttempts
      /\ m.status = "pending" => table[c].attempts < MaxAttempts
      /\ m.status \in {"failed", "pending"}
  <2>1. m \in Row
    BY <1>1, RowTypes
  <2>2. CASE table[c].attempts >= MaxAttempts
    BY <1>1, <1>2, <2>1, <2>2, WebhookAssumption DEF AfterFailure, Row
  <2>3. CASE ~(table[c].attempts >= MaxAttempts)
    BY <1>1, <1>2, <2>1, <2>3, WebhookAssumption DEF AfterFailure, Row
  <2> QED
    BY <2>2, <2>3
<1>4. table' = [table EXCEPT ![c] = m]
  BY <1>1 DEF MarkFailed
<1> HIDE DEF m
<1>5. table'[c] = m /\ \A j \in JobIds : j # c => table'[j] = table[j]
  BY <1>1, <1>4
<1>6. \A j \in JobIds : (Held(j) <=> j = c) /\ ~Held(j)'
  BY <1>1 DEF Held
<1>7. TypeOK' /\ CopyCurrent'
  BY <1>1, <1>3, <1>4 DEF QueueInv, TypeOK, CopyCurrent
<1>8. RowsSane'
  BY <1>1, <1>2, <1>3, <1>5, WebhookAssumption DEF QueueInv, RowsSane
<1>9. DeliveriesCounted' /\ OutcomesEarned'
  BY <1>1, <1>3, <1>5, <1>6
  DEF QueueInv, DeliveriesCounted, OutcomesEarned
<1>10. FirstComeFirstTried'
  BY <1>1, <1>3, <1>5, ScheduledIds DEF QueueInv, FirstComeFirstTried
<1> QED
  BY <1>7, <1>8, <1>9, <1>10 DEF QueueInv

(* The run ends where it was: by a fault, or by a crash of the service.       *)
LEMMA StopStep ==
  ASSUME QueueInv, pc' = "idle", faults' \in 0..MaxFaults,
         UNCHANGED <<table, scheduled, current, received>>
  PROVE  QueueInv'
<1>1. \A j \in JobIds : ~Held(j)' /\ table[j].attempts \in Nat /\ received[j] \in Nat
  BY DEF Held, QueueInv, TypeOK, Row
<1>2. DeliveriesCounted'
  BY <1>1 DEF QueueInv, DeliveriesCounted
<1> QED
  BY <1>1, <1>2
  DEF QueueInv, TypeOK, CopyCurrent, RowsSane, OutcomesEarned,
      FirstComeFirstTried

LEMMA FaultCounted ==
  ASSUME QueueInv, Fault
  PROVE  faults' \in 0..MaxFaults /\ faults' # 0
  BY WebhookAssumption DEF Fault, QueueInv, TypeOK

LEMMA DispatcherStep ==
  ASSUME QueueInv, Dispatcher
  PROVE  QueueInv'
  BY FindJobStep, ClaimJobStep, SendPayloadStep, MarkSucceededStep, MarkFailedStep
  DEF Dispatcher

LEMMA QueueUnchanged ==
  ASSUME QueueInv, UNCHANGED vars
  PROVE  QueueInv'
  BY DEF QueueInv, TypeOK, CopyCurrent, RowsSane, DeliveriesCounted, OutcomesEarned,
         FirstComeFirstTried, Held, vars

LEMMA QueueStep ==
  ASSUME QueueInv, [Next]_vars
  PROVE  QueueInv'
<1>1. ASSUME Abort PROVE QueueInv'
  BY <1>1, FaultCounted, StopStep DEF Abort
<1> QED
  BY <1>1, QueueUnchanged, ScheduleJobStep, BecomeDueStep, DispatcherStep DEF Next

(* Only the dispatcher makes a job processing, and it lets go of a job only   *)
(* when it gives it another status; or a fault has happened.                  *)
LEMMA NoneStrandedStep ==
  ASSUME IInv, [Next]_vars
  PROVE  NoneStranded'
<1> DEFINE c == current.id
<1>1. /\ table \in [JobIds -> Row] /\ scheduled \in Nat /\ c \in JobIds \cup {0}
      /\ pc \in {"claim", "send", "sent", "rejected"} =>
           c \in JobIds /\ current.row = table[c] /\ table[c] \in Row
  BY ScheduledIds DEF IInv, QueueInv, TypeOK, CopyCurrent
<1>2. ASSUME faults' # 0 PROVE NoneStranded'
  BY <1>2 DEF NoneStranded
<1>3. CASE ScheduleJob
  <2>1. table'[scheduled + 1].status = "pending" \/ scheduled + 1 \notin JobIds
    BY <1>1, <1>3 DEF ScheduleJob, NewJob
  <2> QED
    BY <1>1, <1>3, <2>1 DEF ScheduleJob, IInv, NoneStranded, Held
<1>4. ASSUME NEW j \in JobIds, BecomeDue(j) PROVE NoneStranded'
  BY <1>1, <1>4 DEF BecomeDue, IInv, NoneStranded, Held
<1>5. CASE HandleQueue \/ FindJob
  <2>1. UNCHANGED <<table, faults>> /\ \A j \in JobIds : ~Held(j)
    BY <1>5 DEF HandleQueue, FindJob, Held
  <2> QED
    BY <2>1 DEF IInv, NoneStranded
<1>6. CASE ClaimJob
  <2>1. \A j \in JobIds : j # c => table'[j] = table[j] /\ ~Held(j)
    BY <1>1, <1>6 DEF ClaimJob, Held
  <2>2. current'.id = c /\ UNCHANGED faults
    BY <1>6 DEF ClaimJob, IInv, QueueInv, TypeOK
  <2>3. Held(c)'
    BY <1>6, <2>2 DEF ClaimJob, Held
  <2> QED
    BY <2>1, <2>2, <2>3 DEF IInv, NoneStranded
<1>7. CASE SendPayload
  BY <1>7 DEF SendPayload, IInv, NoneStranded, Held
<1>8. CASE MarkSucceeded \/ MarkFailed
  <2>1. CASE Fault
    BY <2>1, <1>2, FaultCounted DEF IInv
  <2>2. CASE UNCHANGED faults
    <3>1. \A j \in JobIds : j # c => table'[j] = table[j] /\ ~Held(j)
      BY <1>1, <1>8 DEF MarkSucceeded, MarkFailed, Held
    <3>2. ~Fault
      BY <2>2, FaultCounted DEF Fault, IInv, QueueInv, TypeOK
    <3>3. table'[c].status # "processing"
      <4>1. CASE MarkSucceeded
        BY <1>1, <3>2, <4>1 DEF MarkSucceeded, Row
      <4>2. CASE MarkFailed
        <5>1. AfterFailure(current.row).status \in {"failed", "pending"}
          BY <1>1, <4>2 DEF AfterFailure, MarkFailed, Row
        <5>2. table' = [table EXCEPT ![c] = AfterFailure(current.row)] /\ c \in JobIds
          BY <1>1, <4>2 DEF MarkFailed
        <5>3. table'[c] = AfterFailure(current.row)
          BY <1>1, <5>2
        <5> QED
          BY <5>1, <5>3
      <4> QED
        BY <1>8, <4>1, <4>2
    <3> QED
      BY <2>2, <3>1, <3>3 DEF IInv, NoneStranded
  <2> QED
    BY <1>8, <2>1, <2>2 DEF MarkSucceeded, MarkFailed
<1>9. CASE Abort
  BY <1>9, <1>2, FaultCounted DEF Abort, IInv
<1>10. CASE UNCHANGED vars
  BY <1>10 DEF IInv, NoneStranded, Held, vars
<1> QED
  BY <1>3, <1>4, <1>5, <1>6, <1>7, <1>8, <1>9, <1>10 DEF Next, Dispatcher

LEMMA AlwaysIInv == Spec => []IInv
<1>1. Init => IInv
  BY InitQueueInv DEF IInv, Init, NoneStranded, NoJob
<1>2. IInv /\ [Next]_vars => IInv'
  BY QueueStep, NoneStrandedStep DEF IInv
<1> QED
  BY <1>1, <1>2, PTL DEF Spec

(* For any number of jobs and faults the rows keep their types; in particular *)
(* attempt_count never passes the configured maximum.                         *)
THEOREM WebhookTypeCorrect == Spec => []TypeOK
  BY AlwaysIInv, PTL DEF IInv, QueueInv

(* The endpoint never gets a job more often than it was attempted, whatever   *)
(* crashes, time-outs and lost answers happen.                                *)
THEOREM DeliveriesBounded == Spec => []DeliveriesCounted
  BY AlwaysIInv, PTL DEF IInv, QueueInv

(* A job marked failed has used every attempt; one marked succeeded was       *)
(* received.                                                                  *)
THEOREM OutcomesAreEarned == Spec => []OutcomesEarned
  BY AlwaysIInv, PTL DEF IInv, QueueInv

(* Only a crash or a database error strands a job in 'processing'.            *)
THEOREM OnlyFaultsStrand == Spec => []NoneStranded
  BY AlwaysIInv, PTL DEF IInv, QueueInv

(* First attempts are made in the order in which jobs were created.           *)
THEOREM FirstTriedInOrder == Spec => []FirstComeFirstTried
  BY AlwaysIInv, PTL DEF IInv, QueueInv

=============================================================================
