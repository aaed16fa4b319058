---------------------------- MODULE WebhookQueue ----------------------------
(***************************************************************************)
(* The webhook queue of the ai-assistant service: a table of jobs, written *)
(* by the conversation handlers, and the dispatcher that every ten seconds *)
(* drains it to the assistant's webhook.  The dispatcher takes one step    *)
(* per await; it, its database and the endpoint may fail at each of them.  *)
(***************************************************************************)
EXTENDS Naturals

CONSTANTS
  MaxJobs,      (* Jobs ever scheduled: bounds the model.                    *)
  MaxAttempts,  (* WEBHOOK_MAX_ATTEMPTS.                                     *)
  MaxFaults     (* Crashes and database errors: bounds the model.            *)

ASSUME WebhookAssumption ==
  /\ MaxJobs \in Nat
  /\ MaxAttempts \in Nat \ {0}
  /\ MaxFaults \in Nat

(* Jobs are numbered in the order of their created_at. *)
JobIds == 1..MaxJobs

VARIABLES
  table,     (* assistant_webhook_job; time is abstracted to whether         *)
             (* scheduled_at has passed.                                     *)
  scheduled, (* How many jobs have been scheduled.                           *)
  pc,        (* The dispatcher; `running` is pc # "idle".                    *)
  current,   (* The id of the job it holds, and its copy of the row.         *)
  received,  (* Times the endpoint got each job.                             *)
  faults

vars == <<table, scheduled, pc, current, received, faults>>

Status == {"none", "pending", "processing", "succeeded", "failed"}
Row == [status : Status, attempts : 0..MaxAttempts, due : BOOLEAN]
NoJob == [status |-> "none", attempts |-> 0, due |-> FALSE]
NewJob == [status |-> "pending", attempts |-> 0, due |-> TRUE]

TypeOK ==
  /\ table \in [JobIds -> Row]
  /\ scheduled \in 0..MaxJobs
  /\ pc \in {"idle", "find", "claim", "send", "sent", "rejected"}
  /\ current \in [id : JobIds \cup {0}, row : Row]
  /\ received \in [JobIds -> Nat]
  /\ faults \in 0..MaxFaults

Init ==
  /\ table = [j \in JobIds |-> NoJob]
  /\ scheduled = 0
  /\ pc = "idle"
  /\ current = [id |-> 0, row |-> NoJob]
  /\ received = [j \in JobIds |-> 0]
  /\ faults = 0

-----------------------------------------------------------------------------
Fault == faults < MaxFaults /\ faults' = faults + 1

(* Mistaken forms of the definitions below, one per property: a claim that   *)
(* does not count the attempt; a failure whose status is outside the enum,   *)
(* that gives up one attempt early, or that leaves the job as it is; a query *)
(* that takes the newest job.                                                *)
ClaimedUncounted(r) == [r EXCEPT !.status = "processing"]
AfterFailureAsError(r) == [r EXCEPT !.status = "error"]
AfterFailureEarly(r) ==
  [r EXCEPT !.status = IF r.attempts >= MaxAttempts - 1 THEN "failed" ELSE "pending",
            !.due = FALSE]
AfterFailureForgotten(r) == r
IsNewest(j) ==
  /\ table[j].status = "pending" /\ table[j].due
  /\ \A k \in JobIds : table[k].status = "pending" /\ table[k].due => k <= j

(* What takeNextJob makes of the row it found. *)
Claimed(r) ==
  [r EXCEPT !.status = "processing", !.attempts = @ + 1]

(* What markFailed makes of it: another attempt an interval later, or none. *)
AfterFailure(r) ==
  IF r.attempts >= MaxAttempts
  THEN [r EXCEPT !.status = "failed"]
  ELSE [r EXCEPT !.status = "pending", !.due = FALSE]

(* takeNextJob's query. *)
Ready == {j \in JobIds : table[j].status = "pending" /\ table[j].due}
IsNext(j) == j \in Ready /\ \A k \in Ready : j <= k

-----------------------------------------------------------------------------
ScheduleJob ==
  /\ scheduled < MaxJobs
  /\ scheduled' = scheduled + 1
  /\ table' = [table EXCEPT ![scheduled + 1] = NewJob]
  /\ UNCHANGED <<pc, current, received, faults>>

(* WEBHOOK_RETRY_INTERVAL_MS passes. *)
BecomeDue(j) ==
  /\ table[j].status = "pending"
  /\ ~table[j].due
  /\ table' = [table EXCEPT ![j].due = TRUE]
  /\ UNCHANGED <<scheduled, pc, current, received, faults>>

(* The timer fires; a run still in progress makes it a no-op. *)
HandleQueue ==
  /\ pc = "idle"
  /\ Ready # {}
  /\ pc' = "find"
  /\ UNCHANGED <<table, scheduled, current, received, faults>>

(* takeNextJob reads the oldest due job, *)
FindJob ==
  /\ pc = "find"
  /\ IF Ready = {}
     THEN pc' = "idle" /\ UNCHANGED current
     ELSE \E j \in Ready : /\ IsNext(j)
                           /\ current' = [id |-> j, row |-> table[j]]
                           /\ pc' = "claim"
  /\ UNCHANGED <<table, scheduled, received, faults>>

(* and saves it as processing. *)
ClaimJob ==
  /\ pc = "claim"
  /\ pc' = "send"
  /\ current' = [current EXCEPT !.row = Claimed(@)]
  /\ table' = [table EXCEPT ![current.id] = Claimed(current.row)]
  /\ UNCHANGED <<scheduled, received, faults>>

(* The endpoint may get a payload whose answer is an error or comes after   *)
(* the request's ten seconds, or not get it at all.                         *)
SendPayload ==
  /\ pc = "send"
  /\ \/ /\ received' = [received EXCEPT ![current.id] = @ + 1]
        /\ pc' \in {"sent", "rejected"}
     \/ /\ pc' = "rejected"
        /\ UNCHANGED received
  /\ UNCHANGED <<table, scheduled, current, faults>>

(* It shares sendPayload's try: a database error here counts as a failed    *)
(* delivery.                                                                *)
MarkSucceeded ==
  /\ pc = "sent"
  /\ \/ /\ table' = [table EXCEPT ![current.id].status = "succeeded"]
        /\ pc' = "find"
        /\ UNCHANGED faults
     \/ /\ Fault
        /\ pc' = "rejected"
        /\ UNCHANGED table
  /\ UNCHANGED <<scheduled, current, received>>

MarkFailed ==
  /\ pc = "rejected"
  /\ table' = [table EXCEPT ![current.id] = AfterFailure(current.row)]
  /\ pc' = "find"
  /\ UNCHANGED <<scheduled, current, received, faults>>

(* A database error ends the run, a crash the process: whatever the job had *)
(* become stays in the table.                                               *)
Abort ==
  /\ pc # "idle"
  /\ Fault
  /\ pc' = "idle"
  /\ UNCHANGED <<table, scheduled, current, received>>

Dispatcher ==
  \/ HandleQueue \/ FindJob \/ ClaimJob \/ SendPayload \/ MarkSucceeded
  \/ MarkFailed

Next ==
  \/ ScheduleJob
  \/ \E j \in JobIds : BecomeDue(j)
  \/ Dispatcher
  \/ Abort

Spec == Init /\ [][Next]_vars

(* The timer, the clock and the run go on; a request ends after at most ten *)
(* seconds.                                                                 *)
FairSpec ==
  /\ Spec
  /\ WF_vars(Dispatcher)
  /\ \A j \in JobIds : WF_vars(BecomeDue(j))

-----------------------------------------------------------------------------
(* The dispatcher holds `j` and has not put its row back. *)
Held(j) == current.id = j /\ pc \in {"send", "sent", "rejected"}

(* The endpoint gets a job at most once per attempt, crashes, time-outs and  *)
(* lost answers included, and so at most MaxAttempts times.                  *)
DeliveriesCounted ==
  \A j \in JobIds :
    received[j] + (IF Held(j) /\ pc = "send" THEN 1 ELSE 0) <= table[j].attempts

(* A job is given up only after all its attempts, and is a success only if   *)
(* the endpoint got it.                                                      *)
OutcomesEarned ==
  \A j \in JobIds :
    /\ table[j].status = "failed" => table[j].attempts = MaxAttempts
    /\ table[j].status = "succeeded" => received[j] > 0

(* A job is stranded in 'processing', where no query finds it again, only by *)
(* a crash or a database error.                                              *)
NoneStranded ==
  faults = 0 => \A j \in JobIds : table[j].status = "processing" => Held(j)

(* However many older jobs are retried, no job is tried for the first time   *)
(* before one created earlier.                                               *)
FirstComeFirstTried ==
  \A j, k \in 1..scheduled :
    j < k /\ table[k].attempts > 0 => table[j].attempts > 0

(* Unless a fault interrupts a run, every job ends, delivered or given up:   *)
(* neither a failing endpoint nor a backlog of retries keeps one from it.    *)
JobsSettle ==
  \A j \in JobIds :
    table[j].status = "pending" ~>
      table[j].status \in {"succeeded", "failed"} \/ faults > 0

=============================================================================
