----------------------------- MODULE Conversation -----------------------------
(***************************************************************************)
(* Conversations of the ai-assistant service: the chat and outfit requests *)
(* that write sessions, messages, suggestions and webhook jobs, one await  *)
(* at a time, and the requests that delete them.  A request is acked when  *)
(* it is done or refused; any other error leaves it unacked, and a restart *)
(* delivers it again from its beginning.  The jobs go on to the dispatcher *)
(* of WebhookQueue, and the model's part is the result Exchange promises.  *)
(***************************************************************************)
EXTENDS WebhookQueue, Sequences, FiniteSets

CONSTANTS
  Accounts,
  ItemsOf,       (* The wardrobe of each account.                            *)
  Named,         (* The items an outfit request names, of any account.       *)
  MaxRequests,   (* Requests ever made: bounds the model.                    *)
  MaxOpeners,    (* Those that open a session: bounds the model.             *)
  HistoryLimit,  (* AI_HISTORY_MESSAGE_LIMIT                                 *)
  MaxCrashes     (* Restarts of the service: bounds the model.               *)

Requests == 1..MaxRequests
WardrobeItems == UNION {ItemsOf[a] : a \in Accounts}

ASSUME ConversationAssumption ==
  /\ ItemsOf \in [Accounts -> SUBSET WardrobeItems]
  /\ Named \subseteq WardrobeItems
  /\ MaxOpeners \in Nat /\ MaxRequests \in Nat /\ HistoryLimit \in Nat /\ MaxCrashes \in Nat

(* Rows have ids that nobody else has: a row written in the nth delivery of  *)
(* request r is known by <<r, n>>, as a request writes one row of a kind.    *)
Id == Requests \X (1..(MaxCrashes + 1))
NoId == <<0, 0>>

VARIABLES
  sessions,     (* assistant_session                                         *)
  messages,     (* assistant_message                                         *)
  suggestions,  (* assistant_outfit_suggestion; its message has the same id. *)
  payloads,     (* Of each webhook job: the id of the answer it announces.   *)
  asked,        (* Requests made; they are numbered in that order.           *)
  request,      (* Their progress.                                           *)
  crashes

tables == <<sessions, messages, suggestions, payloads>>
chatVars == <<tables, asked, request, crashes>>
allVars == <<vars, chatVars>>

Session == [id : Id, account : Accounts]
(* `rank` is the message's place in its session, in the order of created_at. *)
Message == [id : Id, session : Id, role : {"user", "assistant"}, rank : Nat]
Suggestion == [id : Id, session : Id, items : SUBSET WardrobeItems, proposed : BOOLEAN]

(* `target` is the session, or for discard the suggestion, the request       *)
(* names, `named` the items; outcome and outfit are the model's result.      *)
Ended == {"answered", "refused", "unacked"}
Request == [kind : {"chat", "outfit", "forget", "discard"},
            account : Accounts, target : Id \cup {NoId}, named : SUBSET WardrobeItems,
            pc : {"start", "history", "question", "model", "answer", "suggest",
                  "announce", "drop", "ack"} \cup Ended,
            delivery : 1..(MaxCrashes + 1),
            session : Id \cup {NoId}, history : SUBSET Message,
            outcome : {"none", "text", "outfit"}, outfit : SUBSET WardrobeItems]

ConversationTypeOK ==
  /\ TypeOK
  /\ sessions \subseteq Session
  /\ messages \subseteq Message
  /\ suggestions \subseteq Suggestion
  /\ payloads \in [JobIds -> Id \cup {NoId}]
  /\ asked \in 0..MaxRequests
  /\ request \in [1..asked -> Request]
  /\ crashes \in 0..MaxCrashes

ConversationInit ==
  /\ Init
  /\ sessions = {}
  /\ messages = {}
  /\ suggestions = {}
  /\ payloads = [j \in JobIds |-> NoId]
  /\ asked = 0
  /\ request = <<>>
  /\ crashes = 0

-------------------------------------------------------------------------------
(* Mistaken forms of the next three definitions: no foreign key; a session   *)
(* of anybody; messages of every session.                                    *)
SessionUnguarded(s) == TRUE
AnySession(account) == {s.id : s \in sessions}
HistoryOfAll(s) == messages

(* The foreign key on session_id.                                            *)
SessionExists(s) == s \in {known.id : known \in sessions}

(* ensureSessionOwnership *)
SessionsOf(account) == {s.id : s \in {t \in sessions : t.account = account}}

(* loadChatHistory: the newest of the session's messages. *)
Saved(s) == Cardinality({m \in messages : m.session = s})
History(s) ==
  {m \in messages : m.session = s /\ m.rank + HistoryLimit > Saved(s)}

MyId(r) == <<r, request[r].delivery>>
Goto(r, next) == request' = [request EXCEPT ![r].pc = next]
At(r, where) == request[r].pc = where

(* A request as delivered: without what its handler had in hand. *)
Delivered(q) ==
  [q EXCEPT !.session = NoId, !.history = {}, !.outcome = "none", !.outfit = {}]
End(r, how) == request' = [request EXCEPT ![r] = [Delivered(@) EXCEPT !.pc = how]]

-------------------------------------------------------------------------------
(* Requests that open a session. *)
Openers == {r \in 1..asked : request[r].target = NoId}

Targets(kind) ==
  {row.id : row \in IF kind = "discard" THEN suggestions ELSE sessions}
  \cup (IF kind \in {"chat", "outfit"} /\ Cardinality(Openers) < MaxOpeners
        THEN {NoId} ELSE {})

Ask ==
  /\ asked < MaxRequests
  /\ asked' = asked + 1
  /\ \E kind \in {"chat", "outfit", "forget", "discard"}, a \in Accounts :
       \E target \in Targets(kind) :
         request' = Append(request,
           [kind |-> kind, account |-> a, target |-> target,
            named |-> IF kind = "outfit" THEN Named ELSE {},
            pc |-> "start", delivery |-> 1, session |-> NoId, history |-> {},
            outcome |-> "none", outfit |-> {}])
  /\ UNCHANGED <<vars, tables, crashes>>

(* handleChat and handleOutfitSuggestion, await by await.  The session is    *)
(* one of the account's, or a new one; else the request is refused, like a   *)
(* chat without text and attachments.                                        *)
RefuseEmptyChat(r) ==
  /\ At(r, "start")
  /\ request[r].kind = "chat"
  /\ End(r, "refused")
  /\ UNCHANGED <<vars, tables, asked, crashes>>

ResolveSession(r) ==
  /\ At(r, "start")
  /\ request[r].kind \in {"chat", "outfit"}
  /\ IF request[r].target = NoId
     THEN /\ sessions' = sessions \cup {[id |-> MyId(r), account |-> request[r].account]}
          /\ request' = [request EXCEPT ![r].pc = "history", ![r].session = MyId(r)]
     ELSE /\ request' = IF request[r].target \in SessionsOf(request[r].account)
                        THEN [request EXCEPT ![r].pc = "history", ![r].session = request[r].target]
                        ELSE [request EXCEPT ![r].pc = "refused"]
          /\ UNCHANGED sessions
  /\ UNCHANGED <<vars, messages, suggestions, payloads, asked, crashes>>

(* The history is read before the question is saved. *)
LoadHistory(r) ==
  /\ At(r, "history")
  /\ request' = [request EXCEPT ![r].pc = "question",
                                ![r].history = History(request[r].session)]
  /\ UNCHANGED <<vars, tables, asked, crashes>>

SaveMessage(r, role) ==
  /\ SessionExists(request[r].session)
  /\ messages' = messages \cup
       {[id |-> MyId(r), session |-> request[r].session, role |-> role,
         rank |-> Saved(request[r].session) + 1]}
  /\ UNCHANGED <<vars, sessions, suggestions, payloads, asked, crashes>>

SaveQuestion(r) ==
  /\ At(r, "question")
  /\ Goto(r, "model")
  /\ SaveMessage(r, "user")

(* The model's result; an error is left to Stumble. *)
Model(a, r) ==
  INSTANCE Exchange WITH Mine <- ItemsOf[a], outcome <- request[r].outcome,
                         outfit <- request[r].outfit

Generate(r) ==
  /\ At(r, "model")
  /\ \E a \in Accounts :
       /\ request[r].account = a
       /\ \E result \in Model(a, r)!Result :
            /\ result.outcome # "error"
            /\ request' = [request EXCEPT ![r].pc = "answer", ![r].history = {},
                                          ![r].outcome = result.outcome,
                                          ![r].outfit = result.outfit]
  /\ UNCHANGED <<vars, tables, asked, crashes>>

(* A chat has a suggestion if the model proposed one, an outfit request      *)
(* always.                                                                   *)
Suggests(q) == q.kind = "outfit" \/ q.outcome = "outfit"

(* Without a proposal an outfit request falls back on the items it named.    *)
(* (A mistaken form that does not stores no list of ids.)                    *)
SuggestedOrNull(q) == IF q.outcome = "outfit" THEN q.outfit ELSE {NoId}
Suggested(q) == IF q.outcome = "outfit" THEN q.outfit ELSE q.named

(* Mistaken forms: every suggestion with items is marked proposed; the       *)
(* request is acked before its job is scheduled.                             *)
MarkedProposed(q) == Suggested(q) # {}
AckUnannounced(q) == "ack"

Proposed(q) == q.outcome = "outfit"
AfterAnswer(q) == IF Suggests(q) THEN "suggest" ELSE "announce"

SaveAnswer(r) ==
  /\ At(r, "answer")
  /\ Goto(r, AfterAnswer(request[r]))
  /\ SaveMessage(r, "assistant")

SaveSuggestion(r) ==
  /\ At(r, "suggest")
  /\ SessionExists(request[r].session)
  /\ suggestions' = suggestions \cup
       {[id |-> MyId(r), session |-> request[r].session,
         items |-> Suggested(request[r]), proposed |-> Proposed(request[r])]}
  /\ Goto(r, "announce")
  /\ UNCHANGED <<vars, sessions, messages, payloads, asked, crashes>>

Announce(r) ==
  /\ At(r, "announce")
  /\ ScheduleJob
  /\ payloads' = [payloads EXCEPT ![scheduled'] = MyId(r)]
  /\ Goto(r, "ack")
  /\ UNCHANGED <<sessions, messages, suggestions, asked, crashes>>

(* deleteSession *)
FindSession(r) ==
  /\ At(r, "start")
  /\ request[r].kind = "forget"
  /\ Goto(r, IF request[r].target \in SessionsOf(request[r].account) THEN "drop" ELSE "refused")
  /\ UNCHANGED <<vars, tables, asked, crashes>>

(* One transaction; the suggestions go by the foreign key's cascade. *)
DropSession(r) ==
  /\ At(r, "drop")
  /\ request[r].kind = "forget"
  /\ sessions' = {s \in sessions : s.id # request[r].target}
  /\ messages' = {m \in messages : m.session # request[r].target}
  /\ suggestions' = {s \in suggestions : s.session # request[r].target}
  /\ Goto(r, "ack")
  /\ UNCHANGED <<vars, payloads, asked, crashes>>

(* deleteOutfitSuggestion *)
DeletableByAll(s, account) == TRUE
Deletable(s, account) == s.session \in SessionsOf(account)

FindSuggestion(r) ==
  /\ At(r, "start")
  /\ request[r].kind = "discard"
  /\ Goto(r, IF \E s \in suggestions : /\ s.id = request[r].target
                                       /\ Deletable(s, request[r].account)
             THEN "drop" ELSE "refused")
  /\ UNCHANGED <<vars, tables, asked, crashes>>

DropSuggestion(r) ==
  /\ At(r, "drop")
  /\ request[r].kind = "discard"
  /\ suggestions' = {s \in suggestions : s.id # request[r].target}
  /\ Goto(r, "ack")
  /\ UNCHANGED <<vars, sessions, messages, payloads, asked, crashes>>

AckAnswer(r) ==
  /\ At(r, "ack")
  /\ End(r, "answered")
  /\ UNCHANGED <<vars, tables, asked, crashes>>

(* A save whose session is gone fails by the foreign key. *)
Orphaned(r) == request[r].session # NoId /\ ~SessionExists(request[r].session)

(* An error of the database or of the model ends the handler. *)
Stumble(r) ==
  /\ request[r].pc \notin Ended \cup {"ack"}
  /\ \/ Orphaned(r) /\ UNCHANGED crashes
     \/ crashes < MaxCrashes /\ crashes' = crashes + 1
  /\ End(r, "unacked")
  /\ UNCHANGED <<vars, tables, asked>>

(* The service crashes; the broker redelivers what was not acked.  (If no    *)
(* handler had begun, that changes nothing.)                                 *)
Unacked == {r \in 1..asked : request[r].pc \notin {"answered", "refused"}}

CrashAssistant ==
  /\ \E r \in Unacked : ~At(r, "start")
  /\ crashes < MaxCrashes
  /\ crashes' = crashes + 1
  /\ pc' = "idle"
  /\ request' = [r \in 1..asked |->
       IF r \in Unacked
       THEN [Delivered(request[r]) EXCEPT !.pc = "start", !.delivery = @ + 1]
       ELSE request[r]]
  /\ UNCHANGED <<table, scheduled, current, received, faults,
                 sessions, messages, suggestions, payloads, asked>>

Work(r) ==
  \/ ResolveSession(r) \/ LoadHistory(r) \/ SaveQuestion(r) \/ Generate(r)
  \/ SaveAnswer(r) \/ SaveSuggestion(r) \/ Announce(r)
  \/ FindSession(r) \/ DropSession(r) \/ FindSuggestion(r) \/ DropSuggestion(r)
  \/ AckAnswer(r) \/ Stumble(r)

ConversationNext ==
  \/ Ask
  \/ \E r \in 1..asked : RefuseEmptyChat(r) \/ Work(r)
  \/ CrashAssistant

ConversationSpec == ConversationInit /\ [][ConversationNext]_allVars

(* With the dispatcher at work on its jobs.  The event loop runs handlers    *)
(* and dispatcher on; the database, the model and the endpoint answer or     *)
(* fail.                                                                     *)
Deliver(step) == step /\ UNCHANGED chatVars

AssistantNext ==
  \/ ConversationNext
  \/ Deliver(Dispatcher)
  \/ \E j \in JobIds : Deliver(BecomeDue(j))

AssistantSpec == ConversationInit /\ [][AssistantNext]_allVars

AssistantFairness ==
  /\ \A r \in Requests : WF_allVars(r <= asked /\ Work(r))
  /\ WF_allVars(Deliver(Dispatcher))
  /\ \A j \in JobIds : WF_allVars(Deliver(BecomeDue(j)))

-------------------------------------------------------------------------------
AccountOf(id) == request[id[1]].account
SessionOf(id) == IF request[id[1]].target = NoId THEN id ELSE request[id[1]].target

(* Every message and suggestion belongs to a session that exists, whenever   *)
(* in a request its session is deleted, and a suggestion to its answer.      *)
Known == {s.id : s \in sessions}
NoOrphans ==
  /\ \A m \in messages : m.session \in Known
  /\ \A s \in suggestions :
       /\ s.session \in Known
       /\ \E m \in messages :
            m.id = s.id /\ m.session = s.session /\ m.role = "assistant"

(* The model gets the past of one session of the account that asks: never a  *)
(* message of another session, nor the question it is about to be asked,     *)
(* though an earlier delivery of it may be there.                            *)
HistoryIsPast ==
  \A r \in 1..asked : \A m \in request[r].history :
    /\ m.session = request[r].session
    /\ AccountOf(m.session) = request[r].account
    /\ m.id # MyId(r)

(* An acked chat or outfit request has a webhook job; every job announces an *)
(* answer that was saved, and no answer is announced twice.                  *)
AnswersAnnounced ==
  /\ \A r \in 1..asked :
       request[r].kind \in {"chat", "outfit"} /\ At(r, "answered") =>
         \E j \in 1..scheduled : payloads[j] = MyId(r)
  /\ \A j, k \in 1..scheduled : j # k => payloads[j] # payloads[k]
  /\ \A j \in 1..scheduled :
       \/ \E m \in messages : m.id = payloads[j] /\ m.role = "assistant"
       \/ SessionOf(payloads[j]) \notin Known

(* A suggestion marked proposed names only items of the account, although an *)
(* outfit request may name any.                                              *)
ProposedMeansOwn ==
  \A s \in suggestions : s.proposed => s.items \subseteq ItemsOf[AccountOf(s.id)]

(* What a request deletes was its own account's, and a message goes only     *)
(* with its session.                                                         *)
OnlyOwnerDeletes ==
  [][/\ \A s \in (sessions \ sessions') \cup (suggestions \ suggestions') :
          \E r \in 1..asked : At(r, "drop") /\ ~At(r, "drop")'
                              /\ request[r].account = AccountOf(s.id)
     /\ \A m \in messages \ messages' : m.session \notin Known']_chatVars

(* A request ends, delivered again if need be, and when a chat or outfit     *)
(* request was answered its job ends too: the endpoint got the answer, or    *)
(* all attempts to send it failed, or a crash has stranded the job.          *)
Announced(r) ==
  \E j \in 1..scheduled :
    /\ payloads[j] = MyId(r)
    /\ table[j].status \in {"succeeded", "failed"}
         \cup (IF crashes > 0 THEN {"processing"} ELSE {})
Settled(r) ==
  /\ r <= asked
  /\ \/ request[r].pc \in {"refused", "unacked"}
     \/ At(r, "answered") /\ (request[r].kind \in {"forget", "discard"} \/ Announced(r))
AnswersDelivered ==
  \A r \in Requests : r <= asked ~> Settled(r)

===============================================================================
