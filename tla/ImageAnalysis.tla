----------------------------- MODULE ImageAnalysis -----------------------------
(***************************************************************************)
(* One analyze-image request on its way through the gateway, the           *)
(* ai-assistant service and the model, with the two exception filters it   *)
(* may end in and the reports they send to the error log.  The gateway     *)
(* waits for a limited time; a message that is not acked is handled again  *)
(* after a restart, when the gateway may long have answered.               *)
(***************************************************************************)
EXTENDS Naturals, Sequences

CONSTANTS
  LabelFields,  (* Attributes with a closed set of values: type, color, ...  *)
  TextFields,   (* Free ones: name, brand, ...                               *)
  MinSeverity,  (* ERROR_LOG_MIN_SEVERITY, by rank: 0 warn, 1 error, 2 fatal *)
  MaxReplays,   (* Restarts of ai-assistant: bounds the model.               *)
  MaxLogCrashes (* Restarts of the logger service: bounds the model.         *)

ASSUME AnalysisAssumption ==
  MinSeverity \in 0..2 /\ MaxReplays \in Nat /\ MaxLogCrashes \in Nat

(* An answer of the model, field by field; one that is empty or not JSON is  *)
(* an answer without fields.                                                 *)
Answer == [clothing : {"true", "false", "other"},
           label : [LabelFields -> {"allowed", "outside", "absent"}],
           text : [TextFields -> {"given", "blank", "absent"}]]
Attributes == [clothing : BOOLEAN, labels : SUBSET LabelFields, texts : SUBSET TextFields]
NoAttributes == [clothing |-> FALSE, labels |-> {}, texts |-> {}]

HttpReply == [status : {0, 200, 400, 408, 500}, attributes : Attributes]
Refusal(status) == [status |-> status, attributes |-> NoAttributes]

VARIABLES
  upload,   (* The file the client sent.                                     *)
  response, (* What the gateway answered; status 0: not yet.                 *)
  replies,  (* From the service to the gateway.                              *)
  delivery, (* Progress of the message in the service.                       *)
  analysed, (* The attributes the handler holds.                             *)
  said,     (* The answers of the model.                                     *)
  reports,  (* Messages in the logger's queue.                               *)
  tally     (* Counts: model calls; errors other than time-outs; restarts,   *)
            (* and those that interrupted the handler; errors answered by    *)
            (* a filter; reports written and dropped; logger restarts.       *)

analysisVars == <<upload, response, replies, delivery, analysed, said, reports, tally>>

Tallies == {"billed", "errors", "replays", "interrupted", "filtered",
            "rows", "dropped", "logCrashes"}

AnalysisTypeOK ==
  /\ upload \in {"none", "missing", "oversized", "empty", "photo"}
  /\ response \in HttpReply
  /\ replies \in Seq(HttpReply)
  /\ delivery \in {"absent", "validate", "model", "ack", "reply", "acked", "unacked"}
  /\ analysed \in Attributes
  /\ said \subseteq Answer
  /\ reports \in Nat
  /\ tally \in [Tallies -> Nat]

AnalysisInit ==
  /\ upload = "none"
  /\ response = Refusal(0)
  /\ replies = <<>>
  /\ delivery = "absent"
  /\ analysed = NoAttributes
  /\ said = {}
  /\ reports = 0
  /\ tally = [t \in Tallies |-> 0]

-------------------------------------------------------------------------------
(* ErrorLoggerService.log: an event nobody waits for, which may be lost.     *)
Emit(severity) ==
  IF severity < MinSeverity THEN UNCHANGED reports ELSE reports' \in {reports, reports + 1}

Warn == 0
Error == 1
Fatal == 2
SeverityOf(status) == IF status >= 500 THEN Fatal ELSE Warn

(* Mistaken forms: texts of a photo that shows no clothing are passed on; a  *)
(* time-out is left unacked like any other error.                            *)
ToAttributesTexts(a) ==
  [clothing |-> a.clothing = "true",
   labels |-> {f \in LabelFields : a.label[f] = "allowed"},
   texts |-> {f \in TextFields : a.text[f] = "given"}]
AfterTimeoutAsError == "unacked"

(* toAttributes: what cannot be read as a boolean is not clothing; a value   *)
(* outside its set or a blank text is left out, and every text of what is    *)
(* not clothing.                                                             *)
ToAttributes(a) ==
  [clothing |-> a.clothing = "true",
   labels |-> {f \in LabelFields : a.label[f] = "allowed"},
   texts |-> {f \in TextFields : a.clothing = "true" /\ a.text[f] = "given"}]

(* RequestTimeoutException is an HttpException: the filter acks it. *)
AfterTimeout == "acked"

-------------------------------------------------------------------------------
(* The gateway.  AllExceptionsFilter answers and reports an error.           *)
Answered(r) ==
  /\ response' = r
  /\ IF r.status = 200 THEN UNCHANGED <<reports, tally>>
     ELSE /\ Emit(SeverityOf(r.status))
          /\ tally' = [tally EXCEPT !["filtered"] = @ + 1]

RefuseUpload ==
  /\ upload = "none"
  /\ upload' \in {"missing", "oversized"}
  /\ Answered(Refusal(400))
  /\ UNCHANGED <<replies, delivery, analysed, said>>

AnalyzeImage ==
  /\ upload = "none"
  /\ upload' \in {"empty", "photo"}
  /\ delivery' = "validate"
  /\ UNCHANGED <<response, replies, analysed, said, reports, tally>>

Waiting == upload \in {"empty", "photo"} /\ response.status = 0

(* The first reply answers the client, the others find nobody. *)
TakeReply ==
  /\ Waiting
  /\ replies # <<>>
  /\ Answered(Head(replies))
  /\ replies' = Tail(replies)
  /\ UNCHANGED <<upload, delivery, analysed, said>>

(* ANALYZE_IMAGE_RMQ_TIMEOUT_MS *)
GiveUpWaiting ==
  /\ Waiting
  /\ Answered(Refusal(408))
  /\ UNCHANGED <<upload, replies, delivery, analysed, said>>

-------------------------------------------------------------------------------
(* The service.  MicroserviceExceptionFilter replies and reports; it acks an *)
(* HttpException only.                                                       *)
Filtered(status, severity) ==
  /\ replies' = Append(replies, Refusal(status))
  /\ Emit(severity)

ValidateRequest ==
  /\ delivery = "validate"
  /\ IF upload = "photo"
     THEN delivery' = "model" /\ UNCHANGED <<replies, reports, tally>>
     ELSE /\ delivery' = "acked"
          /\ Filtered(400, Warn)
          /\ tally' = [tally EXCEPT !["filtered"] = @ + 1]
  /\ UNCHANGED <<upload, response, analysed, said>>

ModelAnswers ==
  /\ delivery = "model"
  /\ delivery' = "ack"
  /\ \E a \in Answer : said' = said \cup {a} /\ analysed' = ToAttributes(a)
  /\ tally' = [tally EXCEPT !["billed"] = @ + 1]
  /\ UNCHANGED <<upload, response, replies, reports>>

ModelTimesOut ==
  /\ delivery = "model"
  /\ delivery' = AfterTimeout
  /\ Filtered(408, Warn)
  /\ tally' = [tally EXCEPT !["billed"] = @ + 1, !["filtered"] = @ + 1]
  /\ UNCHANGED <<upload, response, analysed, said>>

(* Any other error is answered without a status and not acked. *)
ModelFails ==
  /\ delivery = "model"
  /\ delivery' = "unacked"
  /\ Filtered(500, Error)
  /\ tally' = [tally EXCEPT !["billed"] = @ + 1, !["filtered"] = @ + 1, !["errors"] = @ + 1]
  /\ UNCHANGED <<upload, response, analysed, said>>

AckAnalysis ==
  /\ delivery = "ack"
  /\ delivery' = "reply"
  /\ UNCHANGED <<upload, response, replies, analysed, said, reports, tally>>

ReplyAttributes ==
  /\ delivery = "reply"
  /\ delivery' = "acked"
  /\ replies' = Append(replies, [status |-> 200, attributes |-> analysed])
  /\ analysed' = NoAttributes
  /\ UNCHANGED <<upload, response, said, reports, tally>>

RestartAnalysis ==
  /\ delivery \notin {"absent", "acked"}
  /\ tally["replays"] < MaxReplays
  /\ delivery' = IF delivery = "reply" THEN "acked" ELSE "validate"
  /\ analysed' = NoAttributes
  /\ tally' = [tally EXCEPT !["replays"] = @ + 1,
                            !["interrupted"] = @ + (IF delivery = "unacked" THEN 0 ELSE 1)]
  /\ UNCHANGED <<upload, response, replies, said, reports>>

-------------------------------------------------------------------------------
(* The logger service acks a report whether its row was written, refused or  *)
(* could not be.  Its filter has no error logger: it reports nothing.        *)
WriteReport ==
  /\ reports > 0
  /\ reports' = reports - 1
  /\ \E end \in {"rows", "dropped"} : tally' = [tally EXCEPT ![end] = @ + 1]
  /\ UNCHANGED <<upload, response, replies, delivery, analysed, said>>

(* It dies after the insert, before the ack. *)
CrashLogger ==
  /\ reports > 0
  /\ tally["logCrashes"] < MaxLogCrashes
  /\ tally' = [tally EXCEPT !["rows"] = @ + 1, !["logCrashes"] = @ + 1]
  /\ UNCHANGED <<upload, response, replies, delivery, analysed, said, reports>>

AnalysisNext ==
  \/ RefuseUpload \/ AnalyzeImage \/ TakeReply \/ GiveUpWaiting
  \/ ValidateRequest \/ ModelAnswers \/ ModelTimesOut \/ ModelFails
  \/ AckAnalysis \/ ReplyAttributes \/ RestartAnalysis
  \/ WriteReport \/ CrashLogger

AnalysisSpec == AnalysisInit /\ [][AnalysisNext]_analysisVars

-------------------------------------------------------------------------------
(* The client can rely on its answer, redeliveries and late replies          *)
(* included: attributes all come from one answer of the model, texts and     *)
(* "clothing" only if that said so in so many words; an image is called bad  *)
(* only if it is; 500 means an error other than a missed deadline.           *)
AnswerHonest ==
  LET r == response IN
  /\ r.status = 200 => \E a \in said :
       /\ r.attributes.labels \subseteq {f \in LabelFields : a.label[f] = "allowed"}
       /\ r.attributes.texts \subseteq {f \in TextFields : a.text[f] = "given"}
       /\ r.attributes.clothing \/ r.attributes.texts # {} => a.clothing = "true"
  /\ r.status = 400 <=> upload \notin {"none", "photo"} /\ r.status \notin {0, 408}
  /\ r.status = 500 => tally["errors"] > 0

(* What a request costs has a cause: the model is paid again only after an   *)
(* unexpected error or a handler that was interrupted, never for a missed    *)
(* deadline or an empty image; each error is reported at most once, and no   *)
(* trouble of the logger makes another report.                               *)
CostsHaveCause ==
  /\ tally["billed"] <= 1 + tally["errors"] + tally["interrupted"]
  /\ upload # "photo" => tally["billed"] = 0
  /\ reports + tally["rows"] + tally["dropped"] <= tally["filtered"] + tally["logCrashes"]

===============================================================================
