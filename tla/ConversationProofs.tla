------------------------- MODULE ConversationProofs -------------------------
(***************************************************************************)
(* Theorems about conversations, for any accounts, wardrobes, numbers of   *)
(* requests, restarts and jobs, and with the dispatcher of the webhook     *)
(* queue at work among the handlers.                                       *)
(***************************************************************************)
EXTENDS Conversation, WebhookProofs, FiniteSetTheorems, SequenceTheorems

(* A delivery is known by its id: <<r, n>> is the nth of request r.  `Past`  *)
(* says of one that it has left the places of its handler named: since a    *)
(* handler never returns to them, it never will be there again.              *)
Past(id, places) ==
  /\ id \in Id /\ id[1] <= asked
  /\ \/ id[2] < request[id[1]].delivery
     \/ id[2] = request[id[1]].delivery /\ request[id[1]].pc \notin places

Unresolved == {"start"}
Unasked == {"start", "history", "question"}
Unannounced ==
  {"start", "history", "question", "model", "answer", "suggest", "announce", "drop",
   "refused", "unacked"}

(* The answer of delivery `id` is in session s, unless the session is gone.  *)
AnswerIn(id, s) ==
  \/ \E m \in messages : m.id = id /\ m.session = s /\ m.role = "assistant"
  \/ s \notin Known

ChatTypeOK ==
  /\ scheduled \in 0..MaxJobs
  /\ sessions \subseteq Session
  /\ messages \subseteq Message
  /\ IsFiniteSet(messages)
  /\ suggestions \subseteq Suggestion
  /\ payloads \in [JobIds -> Id \cup {NoId}]
  /\ asked \in 0..MaxRequests
  /\ request \in [1..asked -> Request]
  /\ crashes \in 0..MaxCrashes

(* Rows refer to deliveries that got far enough to write them, and belong to *)
(* the account that asked for them.                                          *)
SessionOK(s) == Past(s.id, Unresolved) /\ s.account = AccountOf(s.id)

MessageOK(m) ==
  /\ Past(m.id, Unasked)
  /\ m.session = SessionOf(m.id)
  /\ Past(m.session, Unresolved)

SuggestionOK(g) ==
  /\ Past(g.id, Unresolved)
  /\ Past(g.session, Unresolved)
  /\ AccountOf(g.session) = AccountOf(g.id)
  /\ g.proposed => g.items \subseteq ItemsOf[AccountOf(g.id)]

JobOK(j) ==
  /\ Past(payloads[j], Unannounced)
  /\ AnswerIn(payloads[j], SessionOf(payloads[j]))

(* What request r may hold, being at q: things of its own account, no        *)
(* message of this delivery; once its answer is saved that is in the session *)
(* or the session gone, and once it is to be acked it has its job.           *)
InSession == {"history", "question", "model", "answer", "suggest", "announce"}
RequestOK(r, q) ==
  /\ q.target # NoId => Past(q.target, Unresolved)
  /\ q.pc \in InSession => q.session # NoId
  /\ q.session # NoId =>
       /\ q.session = SessionOf(MyId(r))
       /\ Past(q.session, Unresolved)
       /\ AccountOf(q.session) = q.account
  /\ q.pc = "drop" => q.target # NoId /\ AccountOf(q.target) = q.account
  /\ q.outcome = "outfit" => q.outfit \subseteq ItemsOf[q.account]
  /\ \A m \in q.history : m.session = q.session /\ m.id # MyId(r) /\ q.session # NoId
  /\ q.pc \in {"suggest", "announce"} => AnswerIn(MyId(r), q.session)
  /\ q.kind \in {"chat", "outfit"} /\ q.pc \in {"ack", "answered"} =>
       \E j \in 1..scheduled : payloads[j] = MyId(r)

ChatInv ==
  /\ ChatTypeOK
  /\ \A s \in sessions : SessionOK(s)
  /\ \A m \in messages : MessageOK(m)
  /\ \A g \in suggestions : SuggestionOK(g)
  /\ \A j \in 1..scheduled : JobOK(j)
  /\ \A j, k \in 1..scheduled : j # k => payloads[j] # payloads[k]
  /\ \A r \in 1..asked : RequestOK(r, request[r])
  /\ \A r \in 1..asked : request[r].delivery <= crashes + 1
  /\ NoOrphans

(***************************************************************************)
(* What every step leaves: requests go on, answers last as long as their   *)
(* session, jobs keep their answers.                                       *)
(***************************************************************************)
Later ==
  /\ asked <= asked'
  /\ \A r \in 1..asked :
       LET q == request[r]
           n == request'[r]
       IN  /\ n.kind = q.kind /\ n.account = q.account /\ n.target = q.target
           /\ n.delivery >= q.delivery
           /\ n.delivery = q.delivery =>
                /\ q.pc \notin Unresolved => n.pc \notin Unresolved
                /\ q.pc \notin Unasked => n.pc \notin Unasked
                /\ q.pc \notin Unannounced => n.pc \notin Unannounced

Lasting ==
  /\ Later
  /\ \A s \in Known' : Past(s, Unresolved) =>
       /\ s \in Known
       /\ \A m \in messages : m.session = s => m \in messages'
  /\ scheduled <= scheduled' /\ crashes <= crashes'
  /\ \A j \in 1..scheduled : payloads'[j] = payloads[j]

LEMMA PastRequest ==
  ASSUME ChatTypeOK, NEW id, NEW P, Past(id, P)
  PROVE  /\ id \in Id /\ id[1] \in 1..asked /\ id[2] \in Nat
         /\ request[id[1]] \in Request
  BY ConversationAssumption DEF Past, Id, Requests, ChatTypeOK

LEMMA RequestFields ==
  ASSUME ChatTypeOK, NEW r \in 1..asked
  PROVE  /\ asked \in Nat /\ r \in Requests /\ request[r] \in Request
         /\ request[r].delivery \in 1..(MaxCrashes + 1)
         /\ MyId(r) \in Id /\ MyId(r)[1] = r /\ MyId(r)[2] = request[r].delivery
         /\ AccountOf(MyId(r)) = request[r].account
<1>1. /\ asked \in Nat /\ r \in Requests /\ request[r] \in Request
      /\ request[r].delivery \in 1..(MaxCrashes + 1)
  BY ConversationAssumption DEF ChatTypeOK, Requests, Request
<1> QED
  BY <1>1 DEF MyId, Id, AccountOf

LEMMA PastLater ==
  ASSUME ChatTypeOK, ChatTypeOK', Later,
         NEW P \in {Unresolved, Unasked, Unannounced}, NEW id, Past(id, P)
  PROVE  Past(id, P)' /\ AccountOf(id)' = AccountOf(id) /\ SessionOf(id)' = SessionOf(id)
<1>1. /\ id \in Id /\ id[1] \in 1..asked /\ id[2] \in Nat
      /\ request[id[1]] \in Request
  BY PastRequest
<1>2. asked \in Nat /\ asked' \in Nat /\ asked <= asked'
  BY ConversationAssumption DEF ChatTypeOK, Later
<1>3. id[1] \in 1..asked' /\ request'[id[1]] \in Request
  BY <1>1, <1>2 DEF ChatTypeOK
<1>4. /\ request[id[1]].delivery \in Nat /\ request'[id[1]].delivery \in Nat
  BY <1>1, <1>3, ConversationAssumption DEF Request
<1>5. Past(id, P)'
  BY <1>1, <1>2, <1>3, <1>4 DEF Past, Later
<1> QED
  BY <1>1, <1>5 DEF Later, AccountOf, SessionOf

LEMMA PastEarly ==
  ASSUME NEW id, Past(id, Unasked) \/ Past(id, Unannounced)
  PROVE  Past(id, Unresolved)
  BY DEF Past, Unresolved, Unasked, Unannounced

(* The session of a delivery that got past its first step is one, too. *)
LEMMA SessionPast ==
  ASSUME ChatInv, NEW id, Past(id, Unresolved)
  PROVE  Past(SessionOf(id), Unresolved)
<1>1. id[1] \in 1..asked
  BY PastRequest DEF ChatInv
<1> QED
  BY <1>1 DEF ChatInv, RequestOK, SessionOf

LEMMA AnswersLast ==
  ASSUME Lasting
  PROVE  \A id, s : Past(s, Unresolved) /\ AnswerIn(id, s) => AnswerIn(id, s)'
  BY DEF Lasting, AnswerIn

LEMMA RowsKept ==
  ASSUME ChatInv, ChatTypeOK', Later
  PROVE  /\ \A s \in sessions : SessionOK(s)'
         /\ \A m \in messages : MessageOK(m)'
         /\ \A g \in suggestions : SuggestionOK(g)'
<1>1. ASSUME NEW s \in sessions PROVE SessionOK(s)'
  BY PastLater DEF ChatInv, SessionOK
<1>2. ASSUME NEW m \in messages PROVE MessageOK(m)'
  BY PastLater DEF ChatInv, MessageOK
<1>3. ASSUME NEW g \in suggestions PROVE SuggestionOK(g)'
  BY PastLater DEF ChatInv, SuggestionOK
<1> QED
  BY <1>1, <1>2, <1>3

LEMMA JobsKept ==
  ASSUME ChatInv, ChatTypeOK', Lasting, NEW j \in 1..scheduled
  PROVE  JobOK(j)'
<1> DEFINE id == payloads[j]
<1>1. payloads'[j] = id /\ Later
  BY DEF Lasting
<1>2. Past(id, Unannounced) /\ AnswerIn(id, SessionOf(id))
  BY DEF ChatInv, JobOK
<1>3. Past(id, Unannounced)' /\ SessionOf(id)' = SessionOf(id)
  BY <1>1, <1>2, PastLater DEF ChatInv
<1>4. Past(SessionOf(id), Unresolved)
  BY <1>2, PastEarly, SessionPast
<1>5. \A i, t : i = id /\ t = SessionOf(id) => AnswerIn(i, t)'
  BY <1>2, <1>4, AnswersLast
<1> QED
  BY <1>1, <1>3, <1>5 DEF JobOK, AnswerIn

LEMMA FitsLast ==
  ASSUME ChatInv, ChatTypeOK', Lasting, NEW r \in 1..asked,
         request'[r].delivery = request[r].delivery, NEW q, RequestOK(r, q)
  PROVE  RequestOK(r, q)'
<1>1. Later /\ ChatTypeOK
  BY DEF Lasting, ChatInv
<1>2. MyId(r)' = MyId(r) /\ SessionOf(MyId(r))' = SessionOf(MyId(r))
  BY RequestFields, <1>1 DEF MyId, SessionOf, Later
<1>3. q.target # NoId => /\ Past(q.target, Unresolved)'
                         /\ AccountOf(q.target)' = AccountOf(q.target)
  BY <1>1, PastLater DEF RequestOK
<1>4. q.session # NoId => /\ Past(q.session, Unresolved)
                          /\ Past(q.session, Unresolved)'
                          /\ AccountOf(q.session)' = AccountOf(q.session)
  BY <1>1, PastLater DEF RequestOK
<1>5. q.pc \in {"suggest", "announce"} =>
        \A i, t : i = MyId(r) /\ t = q.session => AnswerIn(i, t)'
  <2>1. q.pc \in {"suggest", "announce"} =>
          q.session # NoId /\ AnswerIn(MyId(r), q.session)
    BY DEF RequestOK, InSession
  <2> QED
    BY <1>4, <2>1, AnswersLast
<1>6. (\E j \in 1..scheduled : payloads[j] = MyId(r))
        => (\E j \in 1..scheduled' : payloads'[j] = MyId(r))
  <2>1. 1..scheduled \subseteq 1..scheduled'
    BY <1>1, WebhookAssumption DEF Lasting, ChatTypeOK
  <2> QED
    BY <2>1 DEF Lasting
<1> QED
  BY <1>1, <1>2, <1>3, <1>4, <1>5, <1>6 DEF RequestOK, AnswerIn

(***************************************************************************)
(* Steps of one handler: request r goes on to q.                           *)
(***************************************************************************)
Moves(r, q) ==
  LET p == request[r] IN
  /\ request' = [request EXCEPT ![r] = q] /\ UNCHANGED asked
  /\ q \in Request
  /\ q.kind = p.kind /\ q.account = p.account /\ q.target = p.target
  /\ q.delivery = p.delivery
  /\ p.pc \notin Unresolved => q.pc \notin Unresolved
  /\ p.pc \notin Unasked => q.pc \notin Unasked
  /\ p.pc \notin Unannounced => q.pc \notin Unannounced

LEMMA MovesOn ==
  ASSUME ChatTypeOK, NEW r \in 1..asked, NEW q, Moves(r, q)
  PROVE  /\ Later
         /\ request' \in [1..asked' -> Request]
         /\ request'[r] = q
         /\ \A t \in 1..asked : t # r => request'[t] = request[t]
         /\ MyId(r)' = MyId(r) /\ SessionOf(MyId(r))' = SessionOf(MyId(r))
         /\ AccountOf(MyId(r))' = request[r].account
         /\ \A t \in 1..asked : request'[t].delivery = request[t].delivery
<1>1. /\ asked \in Nat /\ request \in [1..asked -> Request]
      /\ \A t \in 1..asked : request[t].delivery \in Nat
  BY ConversationAssumption DEF ChatTypeOK, Request
<1>2. /\ request' \in [1..asked' -> Request] /\ asked' = asked
      /\ request'[r] = q /\ \A t \in 1..asked : t # r => request'[t] = request[t]
  BY <1>1 DEF Moves
<1>3. \A t \in 1..asked : request'[t].delivery = request[t].delivery
  BY <1>2 DEF Moves
<1>4. Later
  BY <1>1, <1>2 DEF Moves, Later
<1> QED
  BY <1>2, <1>3, <1>4 DEF Moves, MyId, SessionOf, AccountOf

LEMMA PastNow ==
  ASSUME ChatTypeOK, NEW r \in 1..asked, NEW q, Moves(r, q), NEW P, q.pc \notin P
  PROVE  \A id : id = MyId(r) => Past(id, P)'
<1>1. /\ MyId(r)' = MyId(r) /\ MyId(r) \in Id /\ MyId(r)[1] = r
      /\ MyId(r)[2] = request[r].delivery /\ request'[r] = q /\ asked' = asked
      /\ q.delivery = request[r].delivery /\ asked \in Nat
  BY MovesOn, RequestFields DEF Moves
<1> QED
  BY <1>1 DEF Past

LEMMA HandlerStep ==
  ASSUME ChatInv, NEW r \in 1..asked, NEW q, Moves(r, q),
         ChatTypeOK', Lasting, NoOrphans', RequestOK(r, q)',
         \A s \in sessions' \ sessions : SessionOK(s)',
         \A m \in messages' \ messages : MessageOK(m)',
         \A g \in suggestions' \ suggestions : SuggestionOK(g)',
         \A j \in 1..scheduled' : j > scheduled => JobOK(j)',
         \A j, k \in 1..scheduled' : j # k => payloads'[j] # payloads'[k]
  PROVE  ChatInv'
<1>1. ChatTypeOK /\ scheduled \in Nat /\ scheduled' \in Nat /\ Later
  BY WebhookAssumption DEF ChatInv, ChatTypeOK, Lasting
<1>2. \A t \in 1..asked' : RequestOK(t, request[t]) \/ t = r
  BY DEF ChatInv, Moves
<1>3. \A t \in 1..asked' : \A p : p = request'[t] => RequestOK(t, p)'
  <2> SUFFICES ASSUME NEW t \in 1..asked', NEW p, p = request'[t]
               PROVE  RequestOK(t, p)'
    OBVIOUS
  <2>1. t \in 1..asked /\ (t = r => p = q) /\ (t # r => p = request[t])
    BY <1>1, MovesOn DEF Moves
  <2>2. CASE t = r
    BY <2>1, <2>2
  <2>3. CASE t # r
    BY <1>1, <1>2, <2>1, <2>3, FitsLast, MovesOn
  <2> QED
    BY <2>2, <2>3
<1>4. /\ \A s \in sessions' : SessionOK(s)'
      /\ \A m \in messages' : MessageOK(m)'
      /\ \A g \in suggestions' : SuggestionOK(g)'
  BY <1>1, RowsKept
<1>5. \A j \in 1..scheduled' : JobOK(j)'
  BY <1>1, JobsKept
<1>6. (\A t \in 1..asked : RequestOK(t, request[t]))'
  BY <1>3 DEF RequestOK
<1>7. (\A t \in 1..asked : request[t].delivery <= crashes + 1)'
  <2>1. \A t \in 1..asked : request'[t].delivery = request[t].delivery
    BY <1>1, MovesOn
  <2>2. crashes \in Nat /\ crashes' \in Nat /\ crashes <= crashes'
    BY ConversationAssumption DEF ChatInv, ChatTypeOK, Lasting
  <2>3. \A t \in 1..asked : request[t].delivery \in Nat
    BY <1>1, RequestFields, ConversationAssumption
  <2> QED
    BY <2>1, <2>2, <2>3 DEF ChatInv, Moves
<1> QED
  BY <1>4, <1>5, <1>6, <1>7 DEF ChatInv

(* When no table changes, what fits now will still fit. *)
LEMMA QuietStep ==
  ASSUME ChatInv, NEW r \in 1..asked, NEW q, Moves(r, q), RequestOK(r, q),
         UNCHANGED <<tables, scheduled>>, crashes' \in crashes..MaxCrashes
  PROVE  ChatInv'
<1>1. ChatTypeOK'
  BY MovesOn, ConversationAssumption DEF ChatInv, ChatTypeOK, tables, Moves
<1>2. Lasting
  BY MovesOn, WebhookAssumption, ConversationAssumption
  DEF Lasting, tables, Known, ChatInv, ChatTypeOK
<1>3. RequestOK(r, q)'
  BY <1>1, <1>2, MovesOn, FitsLast DEF ChatInv
<1>4. NoOrphans'
  BY DEF ChatInv, NoOrphans, Known, tables
<1> QED
  BY <1>1, <1>2, <1>3, <1>4, HandlerStep, WebhookAssumption
  DEF tables, ChatInv, ChatTypeOK

LEMMA CrashesSoFar == ChatTypeOK => crashes \in crashes..MaxCrashes
  BY ConversationAssumption DEF ChatTypeOK

LEMMA EndStep ==
  ASSUME ChatInv, NEW r \in 1..asked, NEW how \in Ended, End(r, how),
         how = "answered" <=> At(r, "ack"), how # "answered" => ~At(r, "answered"),
         UNCHANGED <<tables, scheduled, asked>>, crashes' \in crashes..MaxCrashes
  PROVE  ChatInv'
<1> DEFINE p == request[r]
           q == [Delivered(p) EXCEPT !.pc = how]
<1>1. p \in Request /\ RequestOK(r, p)
  BY RequestFields DEF ChatInv
<1>2. /\ q \in Request /\ q.pc = how /\ q.kind = p.kind /\ q.account = p.account
      /\ q.target = p.target /\ q.delivery = p.delivery /\ q.session = NoId
      /\ q.history = {} /\ q.outcome = "none"
  BY <1>1 DEF Delivered, Request, Ended
<1>3. request' = [request EXCEPT ![r] = q]
  BY DEF End
<1> HIDE DEF q
<1>4. Moves(r, q)
  <2>1. p.pc \notin Unannounced => q.pc \notin Unannounced
    BY <1>1, <1>2 DEF Unannounced, Request, At, Ended
  <2> QED
    BY <1>2, <1>3, <2>1 DEF Moves, Unresolved, Unasked, Ended
<1>5. RequestOK(r, q)
  BY <1>1, <1>2 DEF RequestOK, At, Ended, InSession
<1> QED
  BY <1>4, <1>5, QuietStep

LEMMA RefuseEmptyChatStep ==
  ASSUME ChatInv, NEW r \in 1..asked, RefuseEmptyChat(r)
  PROVE  ChatInv'
  BY EndStep, CrashesSoFar DEF RefuseEmptyChat, At, Ended, vars, ChatInv

LEMMA AckAnswerStep ==
  ASSUME ChatInv, NEW r \in 1..asked, AckAnswer(r)
  PROVE  ChatInv'
  BY EndStep, CrashesSoFar DEF AckAnswer, At, Ended, vars, ChatInv

LEMMA StumbleStep ==
  ASSUME ChatInv, NEW r \in 1..asked, Stumble(r)
  PROVE  ChatInv'
<1>1. crashes' \in crashes..MaxCrashes
  BY ConversationAssumption DEF Stumble, ChatInv, ChatTypeOK
<1> QED
  BY <1>1, EndStep DEF Stumble, At, Ended, vars

(* Steps that only go on from one place to another. *)
LEMMA GotoStep ==
  ASSUME ChatInv, NEW r \in 1..asked, NEW next, Goto(r, next),
         next \in {"drop", "refused"}, At(r, "start"),
         next = "drop" => AccountOf(request[r].target) = request[r].account
                          /\ request[r].target # NoId,
         UNCHANGED <<tables, scheduled, asked, crashes>>
  PROVE  ChatInv'
<1> DEFINE p == request[r]
           q == [p EXCEPT !.pc = next]
<1>1. p \in Request /\ RequestOK(r, p)
  BY RequestFields DEF ChatInv
<1>2. /\ q \in Request /\ q.pc = next /\ q.kind = p.kind /\ q.account = p.account
      /\ q.target = p.target /\ q.delivery = p.delivery /\ q.session = p.session
      /\ q.history = p.history /\ q.outcome = p.outcome /\ q.outfit = p.outfit
  BY <1>1 DEF Request, Ended
<1>3. request' = [request EXCEPT ![r] = q]
  BY DEF Goto
<1> HIDE DEF q
<1>4. Moves(r, q)
  BY <1>2, <1>3 DEF Moves, At, Unresolved, Unasked, Unannounced
<1>5. RequestOK(r, q)
  BY <1>1, <1>2 DEF RequestOK, At, InSession
<1> QED
  BY <1>4, <1>5, QuietStep, ConversationAssumption DEF ChatInv, ChatTypeOK

LEMMA SessionsOwned ==
  ASSUME ChatInv, NEW account, NEW id \in SessionsOf(account)
  PROVE  AccountOf(id) = account /\ id # NoId
<1>1. \A s \in sessions : s.account = AccountOf(s.id) /\ s.id \in Id
  BY DEF ChatInv, SessionOK, Past
<1>2. NoId \notin Id
  BY DEF NoId, Id, Requests
<1> QED
  BY <1>1, <1>2 DEF SessionsOf

LEMMA FindSessionStep ==
  ASSUME ChatInv, NEW r \in 1..asked, FindSession(r)
  PROVE  ChatInv'
  BY SessionsOwned, GotoStep DEF FindSession, vars

LEMMA FindSuggestionStep ==
  ASSUME ChatInv, NEW r \in 1..asked, FindSuggestion(r)
  PROVE  ChatInv'
<1> DEFINE found == \E s \in suggestions : /\ s.id = request[r].target
                                           /\ Deletable(s, request[r].account)
<1>1. found => AccountOf(request[r].target) = request[r].account /\ request[r].target # NoId
  <2> SUFFICES ASSUME NEW s \in suggestions, s.id = request[r].target,
                      s.session \in SessionsOf(request[r].account)
               PROVE  AccountOf(s.id) = request[r].account /\ s.id # NoId
    BY DEF Deletable
  <2>1. AccountOf(s.session) = request[r].account
    BY SessionsOwned
  <2>2. AccountOf(s.session) = AccountOf(s.id) /\ s.id \in Id
    BY DEF ChatInv, SuggestionOK, Past
  <2>3. NoId \notin Id
    BY DEF NoId, Id, Requests
  <2> QED
    BY <2>1, <2>2, <2>3
<1> QED
  BY <1>1, GotoStep DEF FindSuggestion, vars

(* A request that has not asked yet has no message. *)
LEMMA OwnUnsaved ==
  ASSUME ChatInv, NEW r \in 1..asked, request[r].pc \in Unasked, NEW m \in messages
  PROVE  m.id # MyId(r)
<1>1. Past(m.id, Unasked)
  BY DEF ChatInv, MessageOK
<1>2. /\ MyId(r)[1] = r /\ MyId(r)[2] = request[r].delivery
      /\ request[r].delivery \in Nat
  BY RequestFields, ConversationAssumption DEF ChatInv
<1> QED
  BY <1>1, <1>2 DEF Past

LEMMA LoadHistoryStep ==
  ASSUME ChatInv, NEW r \in 1..asked, LoadHistory(r)
  PROVE  ChatInv'
<1> DEFINE p == request[r]
           q == [p EXCEPT !.pc = "question", !.history = History(p.session)]
<1>1. p \in Request /\ RequestOK(r, p) /\ p.pc = "history"
  BY RequestFields DEF ChatInv, LoadHistory, At
<1>2. \A m \in History(p.session) :
        m \in Message /\ m.session = p.session /\ m.id # MyId(r)
  BY <1>1, OwnUnsaved DEF History, ChatInv, ChatTypeOK, Unasked
<1>3. /\ q \in Request /\ q.pc = "question" /\ q.kind = p.kind /\ q.account = p.account
      /\ q.target = p.target /\ q.delivery = p.delivery /\ q.session = p.session
      /\ q.history = History(p.session) /\ q.outcome = p.outcome /\ q.outfit = p.outfit
  BY <1>1, <1>2 DEF Request
<1>4. request' = [request EXCEPT ![r] = q]
  BY DEF LoadHistory
<1> HIDE DEF q
<1>5. Moves(r, q)
  BY <1>1, <1>3, <1>4 DEF Moves, LoadHistory, Unresolved, Unasked, Unannounced
<1>6. RequestOK(r, q)
  BY <1>1, <1>2, <1>3 DEF RequestOK, InSession
<1> QED
  BY <1>5, <1>6, QuietStep, ConversationAssumption
  DEF LoadHistory, vars, ChatInv, ChatTypeOK

LEMMA GenerateStep ==
  ASSUME ChatInv, NEW r \in 1..asked, Generate(r)
  PROVE  ChatInv'
<1> DEFINE p == request[r]
<1>1. p \in Request /\ RequestOK(r, p) /\ p.pc = "model"
  BY RequestFields DEF ChatInv, Generate, At
<1>a. PICK a \in Accounts : /\ p.account = a
        /\ \E result \in Model(a, r)!Result :
            /\ result.outcome # "error"
            /\ request' = [request EXCEPT ![r].pc = "answer", ![r].history = {},
                                          ![r].outcome = result.outcome,
                                          ![r].outfit = result.outfit]
  BY DEF Generate
<1>b. PICK result \in Model(a, r)!Result :
        /\ result.outcome # "error"
        /\ request' = [request EXCEPT ![r].pc = "answer", ![r].history = {},
                                      ![r].outcome = result.outcome,
                                      ![r].outfit = result.outfit]
  BY <1>a
<1>2. /\ result.outcome \in {"text", "outfit"}
      /\ result.outfit \subseteq ItemsOf[p.account]
      /\ p.account \in Accounts
  BY <1>a, <1>b DEF Model!Result
<1> DEFINE q == [p EXCEPT !.pc = "answer", !.history = {}, !.outcome = result.outcome,
                          !.outfit = result.outfit]
<1>3. result.outfit \subseteq WardrobeItems
  BY <1>2, ConversationAssumption
<1>4. /\ q \in Request /\ q.pc = "answer" /\ q.kind = p.kind /\ q.account = p.account
      /\ q.target = p.target /\ q.delivery = p.delivery /\ q.session = p.session
      /\ q.history = {} /\ q.outfit = result.outfit
  BY <1>1, <1>2, <1>3 DEF Request
<1>5. request' = [request EXCEPT ![r] = q]
  BY <1>b
<1> HIDE DEF q
<1>6. Moves(r, q)
  BY <1>1, <1>4, <1>5 DEF Moves, Generate, Unresolved, Unasked, Unannounced
<1>7. RequestOK(r, q)
  BY <1>1, <1>2, <1>4 DEF RequestOK, InSession
<1> QED
  BY <1>6, <1>7, QuietStep, ConversationAssumption DEF Generate, vars, ChatInv, ChatTypeOK

(* A message is saved: the question, or the answer to it. *)
LEMMA SaveStep ==
  ASSUME ChatInv, NEW r \in 1..asked, NEW next, NEW role,
         Goto(r, next), SaveMessage(r, role),
         \/ role = "user" /\ At(r, "question") /\ next = "model"
         \/ role = "assistant" /\ At(r, "answer") /\ next \in {"suggest", "announce"}
  PROVE  ChatInv'
<1> PICK p : p = request[r]
  OBVIOUS
<1> PICK q : q = [p EXCEPT !.pc = next]
  OBVIOUS
<1> PICK m : m = [id |-> MyId(r), session |-> p.session, role |-> role,
                  rank |-> Saved(p.session) + 1]
  OBVIOUS
<1>1. ChatTypeOK /\ p \in Request /\ RequestOK(r, p) /\ MyId(r) \in Id
  BY RequestFields DEF ChatInv
<1>2. /\ q \in Request /\ q.pc = next /\ q.kind = p.kind /\ q.account = p.account
      /\ q.target = p.target /\ q.delivery = p.delivery /\ q.session = p.session
      /\ q.history = p.history /\ q.outcome = p.outcome /\ q.outfit = p.outfit
  BY <1>1 DEF Request
<1>3. request' = [request EXCEPT ![r] = q]
  BY DEF Goto
<1>4. Moves(r, q)
  BY <1>2, <1>3 DEF Moves, At, Unresolved, Unasked, Unannounced, SaveMessage
<1>5. /\ p.session \in Id /\ p.session = SessionOf(MyId(r))
      /\ Past(p.session, Unresolved)
  BY <1>1 DEF RequestOK, InSession, At, Past
<1>6. m \in Message
  <2>1. Saved(p.session) \in Nat
    BY FS_CardinalityType, FS_Subset DEF Saved, ChatInv, ChatTypeOK
  <2> QED
    BY <1>1, <1>5, <2>1 DEF Message
<1>7. /\ messages' = messages \cup {m} /\ p.session \in Known
      /\ UNCHANGED <<sessions, suggestions, payloads, scheduled, asked, crashes>>
      /\ m.id = MyId(r) /\ m.session = p.session /\ m.role = role
  BY DEF SaveMessage, vars, SessionExists, Known
<1>8. ChatTypeOK'
  <2>1. IsFiniteSet(messages')
    BY <1>7, FS_AddElement DEF ChatInv, ChatTypeOK
  <2> QED
    BY <1>1, <1>4, <1>6, <1>7, <2>1, MovesOn DEF ChatTypeOK
<1>9. Lasting
  BY <1>1, <1>4, <1>7, MovesOn, WebhookAssumption, ConversationAssumption
  DEF Lasting, Known, ChatTypeOK
<1>10. NoOrphans'
  BY <1>7 DEF ChatInv, NoOrphans, Known
<1>11. MessageOK(m)'
  <2>1. q.pc \notin Unasked
    BY <1>2 DEF Unasked
  <2>4. Past(m.id, Unasked)'
    BY <1>1, <1>4, <1>7, <2>1, PastNow
  <2>2. SessionOf(MyId(r))' = p.session /\ MyId(r)' = MyId(r)
    BY <1>1, <1>4, <1>5, MovesOn
  <2>3. Past(p.session, Unresolved)'
    BY <1>1, <1>4, <1>5, <1>8, MovesOn, PastLater
  <2> QED
    BY <1>7, <2>2, <2>3, <2>4 DEF MessageOK, SessionOf
<1>12. RequestOK(r, q)'
  <2>1. \A t : t = p => RequestOK(r, t)'
    BY <1>1, <1>4, <1>8, <1>9, MovesOn, FitsLast
  <2>2. role = "assistant" => \A i : i = MyId(r) => AnswerIn(i, q.session)'
    BY <1>2, <1>7 DEF AnswerIn
  <2>3. MyId(r)' = MyId(r)
    BY <1>1, <1>4, MovesOn
  <2> QED
    BY <1>2, <2>1, <2>2, <2>3 DEF RequestOK, InSession, At
<1>13. \A x \in messages' \ messages : MessageOK(x)'
  BY <1>7, <1>11 DEF MessageOK
<1>14. /\ \A j \in 1..scheduled' : ~(j > scheduled)
       /\ \A j, k \in 1..scheduled' : j # k => payloads'[j] # payloads'[k]
  BY <1>1, <1>7, WebhookAssumption DEF ChatInv, ChatTypeOK
<1> QED
  BY <1>4, <1>7, <1>8, <1>9, <1>10, <1>12, <1>13, <1>14, HandlerStep

LEMMA SaveQuestionStep ==
  ASSUME ChatInv, NEW r \in 1..asked, SaveQuestion(r)
  PROVE  ChatInv'
  BY SaveStep DEF SaveQuestion

LEMMA SaveAnswerStep ==
  ASSUME ChatInv, NEW r \in 1..asked, SaveAnswer(r)
  PROVE  ChatInv'
  BY SaveStep DEF SaveAnswer, AfterAnswer

LEMMA SaveSuggestionStep ==
  ASSUME ChatInv, NEW r \in 1..asked, SaveSuggestion(r)
  PROVE  ChatInv'
<1> PICK p : p = request[r]
  OBVIOUS
<1> PICK q : q = [p EXCEPT !.pc = "announce"]
  OBVIOUS
<1> PICK g : g = [id |-> MyId(r), session |-> p.session,
                  items |-> Suggested(p), proposed |-> Proposed(p)]
  OBVIOUS
<1>1. /\ ChatTypeOK /\ p \in Request /\ RequestOK(r, p) /\ MyId(r) \in Id
      /\ p.pc = "suggest" /\ AccountOf(MyId(r)) = p.account
  BY RequestFields DEF ChatInv, SaveSuggestion, At
<1>2. /\ q \in Request /\ q.pc = "announce" /\ q.kind = p.kind /\ q.account = p.account
      /\ q.target = p.target /\ q.delivery = p.delivery /\ q.session = p.session
      /\ q.history = p.history /\ q.outcome = p.outcome /\ q.outfit = p.outfit
  BY <1>1 DEF Request
<1>3. request' = [request EXCEPT ![r] = q]
  BY DEF SaveSuggestion, Goto
<1>4. Moves(r, q)
  BY <1>1, <1>2, <1>3 DEF Moves, SaveSuggestion, Unresolved, Unasked, Unannounced
<1>5. /\ p.session \in Id /\ Past(p.session, Unresolved)
      /\ AccountOf(p.session) = p.account /\ AnswerIn(MyId(r), p.session)
  BY <1>1 DEF RequestOK, InSession, Past
<1>6. /\ suggestions' = suggestions \cup {g} /\ p.session \in Known
      /\ UNCHANGED <<sessions, messages, payloads, scheduled, asked, crashes>>
      /\ g.id = MyId(r) /\ g.session = p.session
      /\ g.items = Suggested(p) /\ g.proposed = Proposed(p)
  BY DEF SaveSuggestion, vars, SessionExists, Known
<1>7. ChatTypeOK'
  <2>1. Suggested(p) \subseteq WardrobeItems /\ Proposed(p) \in BOOLEAN
    BY <1>1 DEF Suggested, Proposed, Request
  <2>2. g \in Suggestion
    BY <1>1, <1>5, <2>1 DEF Suggestion
  <2> QED
    BY <1>1, <1>4, <1>6, <2>2, MovesOn DEF ChatTypeOK
<1>8. Lasting
  BY <1>1, <1>4, <1>6, MovesOn, WebhookAssumption, ConversationAssumption
  DEF Lasting, Known, ChatTypeOK
<1>9. NoOrphans'
  <2>1. \E m \in messages : m.id = g.id /\ m.session = g.session /\ m.role = "assistant"
    BY <1>5, <1>6 DEF AnswerIn
  <2> QED
    BY <1>6, <2>1 DEF ChatInv, NoOrphans, Known
<1>10. SuggestionOK(g)'
  <2>1. Past(g.id, Unresolved)' /\ AccountOf(g.id)' = p.account
    <3>1. q.pc \notin Unresolved
      BY <1>2 DEF Unresolved
    <3> QED
      BY <1>1, <1>4, <1>6, <3>1, PastNow, MovesOn DEF AccountOf
  <2>2. Past(g.session, Unresolved)' /\ AccountOf(g.session)' = p.account
    BY <1>1, <1>4, <1>5, <1>6, <1>7, MovesOn, PastLater
  <2>3. g.proposed => g.items \subseteq ItemsOf[p.account]
    BY <1>1, <1>6 DEF Proposed, Suggested, RequestOK
  <2> QED
    BY <2>1, <2>2, <2>3 DEF SuggestionOK, AccountOf
<1>11. \A x \in suggestions' \ suggestions : SuggestionOK(x)'
  BY <1>6, <1>10 DEF SuggestionOK
<1>12. RequestOK(r, q)'
  <2>1. \A t : t = p => RequestOK(r, t)'
    BY <1>1, <1>4, <1>7, <1>8, MovesOn, FitsLast
  <2> QED
    BY <1>1, <1>2, <2>1 DEF RequestOK, InSession
<1>13. /\ \A j \in 1..scheduled' : ~(j > scheduled)
       /\ \A j, k \in 1..scheduled' : j # k => payloads'[j] # payloads'[k]
  BY <1>1, <1>6, WebhookAssumption DEF ChatInv, ChatTypeOK
<1> QED
  BY <1>4, <1>6, <1>7, <1>8, <1>9, <1>11, <1>12, <1>13, HandlerStep

LEMMA AnnounceStep ==
  ASSUME ChatInv, NEW r \in 1..asked, Announce(r)
  PROVE  ChatInv'
<1> PICK p : p = request[r]
  OBVIOUS
<1> PICK q : q = [p EXCEPT !.pc = "ack"]
  OBVIOUS
<1>1. /\ ChatTypeOK /\ p \in Request /\ RequestOK(r, p) /\ MyId(r) \in Id
      /\ p.pc = "announce" /\ scheduled \in Nat
  BY RequestFields, WebhookAssumption DEF ChatInv, ChatTypeOK, Announce, At
<1>2. /\ q \in Request /\ q.pc = "ack" /\ q.kind = p.kind /\ q.account = p.account
      /\ q.target = p.target /\ q.delivery = p.delivery /\ q.session = p.session
      /\ q.history = p.history /\ q.outcome = p.outcome /\ q.outfit = p.outfit
  BY <1>1 DEF Request
<1>3. request' = [request EXCEPT ![r] = q]
  BY DEF Announce, Goto
<1>4. Moves(r, q)
  BY <1>1, <1>2, <1>3 DEF Moves, Announce, Unresolved, Unasked, Unannounced
<1>5. /\ p.session = SessionOf(MyId(r)) /\ AnswerIn(MyId(r), p.session)
      /\ Past(p.session, Unresolved)
  BY <1>1 DEF RequestOK, InSession
<1>6. /\ scheduled' = scheduled + 1 /\ scheduled' \in JobIds
      /\ payloads \in [JobIds -> Id \cup {NoId}]
      /\ payloads' = [payloads EXCEPT ![scheduled'] = MyId(r)]
      /\ UNCHANGED <<sessions, messages, suggestions, asked, crashes>>
  BY <1>1, WebhookAssumption DEF Announce, ScheduleJob, ChatTypeOK, JobIds
<1>7. /\ payloads'[scheduled'] = MyId(r)
      /\ \A j \in 1..scheduled : payloads'[j] = payloads[j]
  BY <1>1, <1>6, WebhookAssumption DEF JobIds
<1>8. ChatTypeOK'
  BY <1>1, <1>4, <1>6, MovesOn, WebhookAssumption DEF ChatTypeOK, JobIds
<1>9. Lasting
  BY <1>1, <1>4, <1>6, <1>7, MovesOn, ConversationAssumption
  DEF Lasting, Known, ChatTypeOK
<1>10. NoOrphans'
  BY <1>6 DEF ChatInv, NoOrphans, Known
<1>11. ASSUME NEW j \in 1..scheduled PROVE payloads[j] # MyId(r)
  <2>1. Past(payloads[j], Unannounced)
    BY DEF ChatInv, JobOK
  <2> QED
    BY <1>1, <2>1, RequestFields, ConversationAssumption DEF Past, Unannounced
<1>12. \A j, k \in 1..scheduled' : j # k => payloads'[j] # payloads'[k]
  BY <1>1, <1>6, <1>7, <1>11 DEF ChatInv
<1>13. \A j \in 1..scheduled' : j > scheduled => JobOK(j)'
  <2>1. q.pc \notin Unannounced
    BY <1>2 DEF Unannounced
  <2>2. \A i : i = MyId(r) => Past(i, Unannounced)'
    BY <1>1, <1>4, <2>1, PastNow
  <2>3. \A i, s : i = MyId(r) /\ s = p.session => AnswerIn(i, s)'
    BY <1>5, <1>9, AnswersLast
  <2>4. SessionOf(MyId(r))' = p.session /\ MyId(r)' = MyId(r)
    BY <1>1, <1>4, <1>5, MovesOn
  <2>5. \A i : i = MyId(r) => SessionOf(i)' = p.session
    BY <2>4 DEF SessionOf
  <2>6. \A j \in 1..scheduled' : j > scheduled => j = scheduled'
    BY <1>1, <1>6
  <2> QED
    BY <1>7, <2>2, <2>3, <2>5, <2>6 DEF JobOK, Past, AnswerIn, SessionOf
<1>14. RequestOK(r, q)'
  <2>1. \A t : t = p => RequestOK(r, t)'
    BY <1>1, <1>4, <1>8, <1>9, MovesOn, FitsLast
  <2>2. scheduled' \in 1..scheduled' /\ MyId(r)' = MyId(r)
    BY <1>1, <1>4, <1>6, MovesOn
  <2> QED
    BY <1>1, <1>2, <1>7, <2>1, <2>2 DEF RequestOK, InSession
<1> QED
  BY <1>4, <1>6, <1>8, <1>9, <1>10, <1>12, <1>13, <1>14, HandlerStep

LEMMA OpenSessionStep ==
  ASSUME ChatInv, NEW r \in 1..asked, ResolveSession(r), request[r].target = NoId
  PROVE  ChatInv'
<1> PICK p : p = request[r]
  OBVIOUS
<1> PICK q : q = [p EXCEPT !.pc = "history", !.session = MyId(r)]
  OBVIOUS
<1> PICK s : s = [id |-> MyId(r), account |-> p.account]
  OBVIOUS
<1>1. /\ ChatTypeOK /\ p \in Request /\ RequestOK(r, p) /\ MyId(r) \in Id
      /\ p.pc = "start" /\ MyId(r)[1] = r /\ MyId(r)[2] = p.delivery
      /\ AccountOf(MyId(r)) = p.account
  BY RequestFields DEF ChatInv, ResolveSession, At
<1>2. /\ q \in Request /\ q.pc = "history" /\ q.kind = p.kind /\ q.account = p.account
      /\ q.target = p.target /\ q.delivery = p.delivery /\ q.session = MyId(r)
      /\ q.history = p.history /\ q.outcome = p.outcome /\ q.outfit = p.outfit
  BY <1>1 DEF Request
<1>3. /\ request' = [request EXCEPT ![r] = q]
      /\ sessions' = sessions \cup {s}
      /\ UNCHANGED <<messages, suggestions, payloads, scheduled, asked, crashes>>
      /\ s.id = MyId(r) /\ s.account = p.account
  BY DEF ResolveSession, vars
<1>4. Moves(r, q)
  BY <1>1, <1>2, <1>3 DEF Moves, Unresolved, Unasked, Unannounced
<1>5. ChatTypeOK'
  <2>1. s \in Session
    BY <1>1 DEF Session, Request
  <2> QED
    BY <1>1, <1>3, <1>4, <2>1, MovesOn DEF ChatTypeOK
<1>6. Known' = Known \cup {MyId(r)}
  BY <1>3 DEF Known
<1>7. Lasting
  <2>1. ~Past(MyId(r), Unresolved)
    BY <1>1, ConversationAssumption DEF Past, Unresolved, Request
  <2> QED
    BY <1>1, <1>3, <1>4, <1>6, <2>1, MovesOn, WebhookAssumption,
     ConversationAssumption
  DEF Lasting, ChatTypeOK
<1>8. NoOrphans'
  BY <1>3, <1>6 DEF ChatInv, NoOrphans
<1>9. /\ \A i : i = MyId(r) => Past(i, Unresolved)'
      /\ \A i : i = MyId(r) => AccountOf(i)' = p.account
  <2>1. q.pc \notin Unresolved
    BY <1>2 DEF Unresolved
  <2> QED
    BY <1>1, <1>4, <2>1, PastNow, MovesOn DEF AccountOf
<1>10. \A x \in sessions' \ sessions : SessionOK(x)'
  BY <1>3, <1>9 DEF SessionOK, AccountOf
<1>11. RequestOK(r, q)'
  <2>1. \A t : t = p => RequestOK(r, t)'
    BY <1>1, <1>4, <1>5, <1>7, MovesOn, FitsLast
  <2>2. SessionOf(MyId(r)) = MyId(r) /\ MyId(r) # NoId
    BY <1>1 DEF SessionOf, NoId, Id, Requests
  <2>3. \A i : i = MyId(r) => MyId(r)' = i /\ SessionOf(MyId(r))' = i
    BY <1>1, <1>4, <2>2, MovesOn
  <2>4. \A m \in q.history : m.session = MyId(r) /\ m.id # MyId(r)
    BY <1>1, <1>2, <2>2 DEF RequestOK
  <2> QED
    BY <1>1, <1>2, <1>9, <2>1, <2>2, <2>3, <2>4 DEF RequestOK
<1>12. /\ \A j \in 1..scheduled' : ~(j > scheduled)
       /\ \A j, k \in 1..scheduled' : j # k => payloads'[j] # payloads'[k]
  BY <1>1, <1>3, WebhookAssumption DEF ChatInv, ChatTypeOK
<1> QED
  BY <1>3, <1>4, <1>5, <1>7, <1>8, <1>10, <1>11, <1>12, HandlerStep

LEMMA ResolveSessionStep ==
  ASSUME ChatInv, NEW r \in 1..asked, ResolveSession(r)
  PROVE  ChatInv'
<1> DEFINE p == request[r]
           q == [p EXCEPT !.pc = "history", !.session = p.target]
           mine == p.target \in SessionsOf(p.account)
<1>1. CASE p.target = NoId
  BY <1>1, OpenSessionStep
<1>2. CASE p.target # NoId /\ ~mine
  BY <1>2, GotoStep DEF ResolveSession, Goto, vars, tables
<1>3. CASE p.target # NoId /\ mine
  <2>1. p \in Request /\ RequestOK(r, p) /\ p.pc = "start"
    BY RequestFields DEF ChatInv, ResolveSession, At
  <2>2. /\ q \in Request /\ q.pc = "history" /\ q.kind = p.kind /\ q.account = p.account
        /\ q.target = p.target /\ q.delivery = p.delivery /\ q.session = p.target
        /\ q.history = p.history /\ q.outcome = p.outcome /\ q.outfit = p.outfit
    BY <2>1 DEF Request
  <2>3. request' = [request EXCEPT ![r] = q]
    BY <1>3 DEF ResolveSession
  <2>4. AccountOf(p.target) = p.account
    BY <1>3, SessionsOwned
  <2>5. SessionOf(MyId(r)) = p.target
    BY <1>3 DEF SessionOf, MyId
  <2> HIDE DEF q
  <2>6. Moves(r, q)
    BY <2>1, <2>2, <2>3 DEF Moves, ResolveSession, Unresolved, Unasked, Unannounced
  <2>7. RequestOK(r, q)
    BY <1>3, <2>1, <2>2, <2>4, <2>5 DEF RequestOK
  <2> QED
    BY <1>3, <2>6, <2>7, QuietStep, ConversationAssumption
    DEF ResolveSession, vars, tables, ChatInv, ChatTypeOK
<1> QED
  BY <1>1, <1>2, <1>3

(* Rows go, and the request that deletes them is done. *)
LEMMA DropStep ==
  ASSUME ChatInv, NEW r \in 1..asked, At(r, "drop"), Goto(r, "ack"),
         request[r].kind \in {"forget", "discard"},
         sessions' \subseteq sessions, messages' \subseteq messages,
         suggestions' \subseteq suggestions,
         \A m \in messages : m.session \in Known' => m \in messages',
         \A m \in messages' : m.session \in Known',
         \A g \in suggestions' : g.session \in Known',
         UNCHANGED <<payloads, scheduled, asked, crashes>>
  PROVE  ChatInv'
<1> PICK p : p = request[r]
  OBVIOUS
<1> PICK q : q = [p EXCEPT !.pc = "ack"]
  OBVIOUS
<1>1. ChatTypeOK /\ p \in Request /\ RequestOK(r, p) /\ p.pc = "drop"
  BY RequestFields DEF ChatInv, At
<1>2. /\ q \in Request /\ q.pc = "ack" /\ q.kind = p.kind /\ q.account = p.account
      /\ q.target = p.target /\ q.delivery = p.delivery /\ q.session = p.session
      /\ q.history = p.history /\ q.outcome = p.outcome /\ q.outfit = p.outfit
  BY <1>1 DEF Request
<1>3. request' = [request EXCEPT ![r] = q]
  BY DEF Goto
<1>4. Moves(r, q)
  BY <1>1, <1>2, <1>3 DEF Moves, Unresolved, Unasked, Unannounced
<1>5. ChatTypeOK'
  <2>1. IsFiniteSet(messages')
    BY <1>1, FS_Subset DEF ChatTypeOK
  <2> QED
    BY <1>1, <1>4, <2>1, MovesOn DEF ChatTypeOK
<1>6. Known' \subseteq Known
  BY DEF Known
<1>7. Lasting
  BY <1>1, <1>4, <1>6, MovesOn, WebhookAssumption,
     ConversationAssumption
  DEF Lasting, ChatTypeOK
<1>8. NoOrphans'
  BY DEF ChatInv, NoOrphans
<1>9. RequestOK(r, q)'
  <2>1. \A t : t = p => RequestOK(r, t)'
    BY <1>1, <1>4, <1>5, <1>7, MovesOn, FitsLast
  <2> QED
    BY <1>1, <1>2, <2>1 DEF RequestOK, InSession
<1>10. /\ \A j \in 1..scheduled' : ~(j > scheduled)
       /\ \A j, k \in 1..scheduled' : j # k => payloads'[j] # payloads'[k]
  BY <1>1, WebhookAssumption DEF ChatInv, ChatTypeOK
<1> QED
  BY <1>4, <1>5, <1>7, <1>8, <1>9, <1>10, HandlerStep

LEMMA DropSessionStep ==
  ASSUME ChatInv, NEW r \in 1..asked, DropSession(r)
  PROVE  ChatInv'
<1>1. Known' = Known \ {request[r].target}
  BY DEF DropSession, Known
<1> QED
  BY <1>1, DropStep DEF DropSession, vars, ChatInv, NoOrphans

LEMMA DropSuggestionStep ==
  ASSUME ChatInv, NEW r \in 1..asked, DropSuggestion(r)
  PROVE  ChatInv'
<1>1. Known' = Known
  BY DEF DropSuggestion, Known
<1> QED
  BY <1>1, DropStep DEF DropSuggestion, vars, ChatInv, NoOrphans

(***************************************************************************)
(* The other steps: a request is made, the service restarts, the           *)
(* dispatcher works.                                                       *)
(***************************************************************************)
LEMMA AskStep ==
  ASSUME ChatInv, Ask
  PROVE  ChatInv'
<1>1. PICK n : /\ n.target # NoId => Past(n.target, Unresolved)
               /\ n \in Request /\ n.pc = "start" /\ n.delivery = 1 /\ n.session = NoId
               /\ n.history = {} /\ n.outcome = "none"
               /\ request' = Append(request, n)
  <2>1. PICK kind \in {"chat", "outfit", "forget", "discard"}, a \in Accounts :
          \E target \in Targets(kind) :
            request' = Append(request,
              [kind |-> kind, account |-> a, target |-> target,
               named |-> IF kind = "outfit" THEN Named ELSE {},
               pc |-> "start", delivery |-> 1, session |-> NoId, history |-> {},
               outcome |-> "none", outfit |-> {}])
    BY DEF Ask
  <2>2. PICK target \in Targets(kind) :
          request' = Append(request,
            [kind |-> kind, account |-> a, target |-> target,
             named |-> IF kind = "outfit" THEN Named ELSE {},
             pc |-> "start", delivery |-> 1, session |-> NoId, history |-> {},
             outcome |-> "none", outfit |-> {}])
    BY <2>1
  <2>3. target = NoId \/ Past(target, Unresolved)
    BY DEF Targets, ChatInv, SessionOK, SuggestionOK
  <2>4. target \in Id \cup {NoId}
    BY <2>3 DEF Past
  <2>5. 1 \in 1..(MaxCrashes + 1)
    BY ConversationAssumption
  <2> QED
    BY <2>2, <2>3, <2>4, <2>5, ConversationAssumption DEF Request, Ended
<1>2. /\ ChatTypeOK /\ asked \in Nat /\ asked' = asked + 1 /\ asked' \in 0..MaxRequests
      /\ UNCHANGED <<sessions, messages, suggestions, payloads, scheduled, crashes>>
  BY ConversationAssumption DEF ChatInv, ChatTypeOK, Ask, vars, tables
<1>3. /\ request' \in [1..asked' -> Request] /\ request'[asked'] = n
      /\ \A t \in 1..asked : request'[t] = request[t]
  <2>1. request \in Seq(Request) /\ Len(request) = asked
    BY <1>2 DEF ChatTypeOK
  <2>2. /\ request' \in Seq(Request) /\ Len(request') = asked + 1
        /\ request'[asked + 1] = n
        /\ \A t \in 1..asked : request'[t] = request[t]
    BY <1>1, <2>1, AppendProperties
  <2> QED
    BY <1>2, <2>2
<1>4. ChatTypeOK'
  BY <1>2, <1>3 DEF ChatTypeOK
<1>5. Later
  BY <1>2, <1>3, RequestFields, ConversationAssumption DEF Later
<1>6. Lasting
  BY <1>2, <1>5, WebhookAssumption, ConversationAssumption DEF Lasting, Known, ChatTypeOK
<1>7. \A t \in 1..asked' : \A p : p = request'[t] => RequestOK(t, p)'
  <2> SUFFICES ASSUME NEW t \in 1..asked', NEW p, p = request'[t]
               PROVE  RequestOK(t, p)'
    OBVIOUS
  <2>1. CASE t \in 1..asked
    BY <1>3, <1>4, <1>6, <2>1, FitsLast DEF ChatInv
  <2>2. CASE t = asked'
    <3>1. n.target # NoId => Past(n.target, Unresolved)
      BY <1>1
    <3>2. n.target # NoId => Past(n.target, Unresolved)'
      BY <1>2, <1>4, <1>5, <3>1, PastLater
    <3> QED
      BY <1>1, <1>3, <2>2, <3>2 DEF RequestOK, InSession
  <2> QED
    BY <1>2, <2>1, <2>2
<1>8. (\A t \in 1..asked : RequestOK(t, request[t]))'
  BY <1>7 DEF RequestOK
<1>9. (\A t \in 1..asked : request[t].delivery <= crashes + 1)'
  BY <1>1, <1>2, <1>3, ConversationAssumption DEF ChatInv, ChatTypeOK
<1>10. NoOrphans'
  BY <1>2 DEF ChatInv, NoOrphans, Known
<1>11. /\ \A s \in sessions' : SessionOK(s)'
       /\ \A m \in messages' : MessageOK(m)'
       /\ \A g \in suggestions' : SuggestionOK(g)'
  BY <1>2, <1>4, <1>5, RowsKept
<1>12. \A j \in 1..scheduled' : JobOK(j)'
  BY <1>2, <1>4, <1>6, JobsKept
<1> QED
  BY <1>2, <1>4, <1>8, <1>9, <1>10, <1>11, <1>12 DEF ChatInv

LEMMA CrashAssistantStep ==
  ASSUME ChatInv, CrashAssistant
  PROVE  ChatInv'
<1> DEFINE again(r) ==
      [Delivered(request[r]) EXCEPT !.pc = "start", !.delivery = @ + 1]
<1>1. /\ ChatTypeOK /\ asked \in Nat /\ crashes \in Nat /\ crashes < MaxCrashes
      /\ crashes' = crashes + 1 /\ crashes' \in 0..MaxCrashes
      /\ UNCHANGED <<sessions, messages, suggestions, payloads, scheduled, asked>>
  <2>1. asked \in Nat /\ crashes \in Nat /\ ChatTypeOK
    BY ConversationAssumption DEF ChatInv, ChatTypeOK
  <2>2. /\ crashes < MaxCrashes /\ crashes' = crashes + 1
        /\ UNCHANGED <<sessions, messages, suggestions, payloads, scheduled, asked>>
    BY DEF CrashAssistant
  <2> QED
    BY <2>1, <2>2, ConversationAssumption
<1>2. ASSUME NEW r \in 1..asked
      PROVE  /\ again(r) \in Request /\ again(r).pc = "start" /\ again(r).session = NoId
             /\ again(r).kind = request[r].kind /\ again(r).account = request[r].account
             /\ again(r).target = request[r].target
             /\ again(r).delivery = request[r].delivery + 1
             /\ request[r].delivery \in Nat /\ request[r].delivery <= crashes + 1
             /\ again(r).history = {} /\ again(r).outcome = "none"
  <2>1. request[r] \in Request /\ request[r].delivery \in 1..(MaxCrashes + 1)
    BY <1>1, RequestFields
  <2>2. request[r].delivery <= crashes + 1
    BY DEF ChatInv
  <2>3. request[r].delivery + 1 \in 1..(MaxCrashes + 1)
    BY <1>1, <2>1, <2>2, ConversationAssumption
  <2> DEFINE d == Delivered(request[r])
  <2>4. /\ d \in Request /\ d.kind = request[r].kind /\ d.account = request[r].account
        /\ d.target = request[r].target /\ d.delivery = request[r].delivery
        /\ d.session = NoId /\ d.history = {} /\ d.outcome = "none"
    BY <2>1 DEF Delivered, Request
  <2>5. again(r) = [d EXCEPT !.pc = "start", !.delivery = request[r].delivery + 1]
    BY <2>4
  <2> HIDE DEF d, again
  <2> PICK e, k, f : e = d /\ k = request[r].delivery + 1 /\ f = again(r)
    OBVIOUS
  <2>6. /\ f \in Request /\ f.pc = "start" /\ f.delivery = k
        /\ f.kind = e.kind /\ f.account = e.account
        /\ f.target = e.target /\ f.session = e.session
        /\ f.history = e.history /\ f.outcome = e.outcome
    <3>1. /\ e \in Request /\ k \in 1..(MaxCrashes + 1)
          /\ f = [e EXCEPT !.pc = "start", !.delivery = k]
      BY <2>3, <2>4, <2>5
    <3> QED
      BY <3>1 DEF Request
  <2> QED
    <3>1. request[r].delivery \in Nat
      BY <2>1, ConversationAssumption
    <3> QED
      BY <2>2, <2>3, <2>4, <2>5, <2>6, <3>1
<1>3. request' = [r \in 1..asked |-> IF r \in Unacked THEN again(r) ELSE request[r]]
  BY DEF CrashAssistant
<1> HIDE DEF again
<1>4. /\ request' \in [1..asked' -> Request]
      /\ \A r \in 1..asked : \/ request'[r] = again(r)
                             \/ request'[r] = request[r]
  BY <1>1, <1>2, <1>3, RequestFields
<1>5. ChatTypeOK'
  BY <1>1, <1>4 DEF ChatTypeOK
<1>6. Later
  BY <1>1, <1>2, <1>4 DEF Later
<1>7. Lasting
  BY <1>1, <1>6, WebhookAssumption DEF Lasting, Known, ChatTypeOK
<1>8. \A t \in 1..asked' : \A p : p = request'[t] => RequestOK(t, p)'
  <2> SUFFICES ASSUME NEW t \in 1..asked, NEW p, p = request'[t]
               PROVE  RequestOK(t, p)'
    BY <1>1
  <2>1. CASE p = request[t]
    BY <1>5, <1>7, <2>1, FitsLast DEF ChatInv
  <2>2. CASE p = again(t)
    <3>1. p.target # NoId => Past(p.target, Unresolved)'
      BY <1>1, <1>2, <1>5, <1>6, <2>2, PastLater DEF ChatInv, RequestOK
    <3> QED
      BY <1>2, <2>2, <3>1 DEF RequestOK, InSession
  <2> QED
    BY <1>4, <2>1, <2>2
<1>9. (\A t \in 1..asked : RequestOK(t, request[t]))'
  BY <1>8 DEF RequestOK
<1>10. (\A t \in 1..asked : request[t].delivery <= crashes + 1)'
  BY <1>1, <1>2, <1>4
<1>11. NoOrphans'
  BY <1>1 DEF ChatInv, NoOrphans, Known
<1>12. /\ \A s \in sessions' : SessionOK(s)'
       /\ \A m \in messages' : MessageOK(m)'
       /\ \A g \in suggestions' : SuggestionOK(g)'
  BY <1>1, <1>5, <1>6, RowsKept
<1>13. \A j \in 1..scheduled' : JobOK(j)'
  BY <1>1, <1>5, <1>7, JobsKept
<1> QED
  BY <1>1, <1>5, <1>9, <1>10, <1>11, <1>12, <1>13 DEF ChatInv

LEMMA ChatUnchanged ==
  ASSUME ChatInv, UNCHANGED <<chatVars, scheduled>>
  PROVE  ChatInv'
<1>1. UNCHANGED <<sessions, messages, suggestions, payloads, scheduled, asked, request,
                  crashes>>
  BY DEF chatVars, tables
<1>2. ChatTypeOK' /\ NoOrphans'
  BY <1>1 DEF ChatInv, ChatTypeOK, NoOrphans, Known
<1>3. /\ \A s \in sessions' : SessionOK(s)'
      /\ \A m \in messages' : MessageOK(m)'
      /\ \A g \in suggestions' : SuggestionOK(g)'
  BY <1>1 DEF ChatInv, SessionOK, MessageOK, SuggestionOK, Past, AccountOf, SessionOf
<1>4. \A j \in 1..scheduled' : JobOK(j)'
  BY <1>1 DEF ChatInv, JobOK, Past, AnswerIn, SessionOf, Known
<1>5. (\A r \in 1..asked : RequestOK(r, request[r]))'
  BY <1>1 DEF ChatInv, RequestOK, Past, AnswerIn, SessionOf, AccountOf, MyId, Known
<1> QED
  BY <1>1, <1>2, <1>3, <1>4, <1>5 DEF ChatInv

(* The conversations and the queue together. *)
AssistantInv == QueueInv /\ ChatInv

LEMMA InitAssistantInv == ConversationInit => AssistantInv
<1> SUFFICES ASSUME ConversationInit PROVE AssistantInv
  OBVIOUS
<1>1. /\ asked = 0 /\ request = <<>> /\ scheduled = 0 /\ crashes = 0
      /\ sessions = {} /\ messages = {} /\ suggestions = {}
      /\ payloads = [j \in JobIds |-> NoId]
  BY DEF ConversationInit, Init
<1>2. request \in [1..asked -> Request]
  BY <1>1
<1>3. ChatTypeOK
  BY <1>1, <1>2, FS_EmptySet, WebhookAssumption, ConversationAssumption DEF ChatTypeOK
<1>4. ChatInv
  BY <1>1, <1>3 DEF ChatInv, NoOrphans
<1> QED
  BY <1>4, InitQueueInv DEF AssistantInv, ConversationInit

LEMMA WorkStep ==
  ASSUME AssistantInv, NEW r \in 1..asked, RefuseEmptyChat(r) \/ Work(r)
  PROVE  AssistantInv'
<1>1. ChatInv'
  BY RefuseEmptyChatStep, ResolveSessionStep, LoadHistoryStep, SaveQuestionStep,
     GenerateStep, SaveAnswerStep, SaveSuggestionStep, AnnounceStep, FindSessionStep,
     DropSessionStep, FindSuggestionStep, DropSuggestionStep, AckAnswerStep, StumbleStep
  DEF AssistantInv, Work
<1>2. CASE Announce(r)
  BY <1>1, <1>2, ScheduleJobStep DEF AssistantInv, Announce
<1>3. CASE ~Announce(r)
  <2>1. UNCHANGED vars
    BY <1>3
    DEF Work, RefuseEmptyChat, ResolveSession, LoadHistory, SaveQuestion, Generate,
        SaveAnswer, SaveMessage, SaveSuggestion, FindSession, DropSession,
        FindSuggestion, DropSuggestion, AckAnswer, Stumble
  <2> QED
    BY <1>1, <2>1, QueueUnchanged DEF AssistantInv
<1> QED
  BY <1>2, <1>3

LEMMA AssistantStep ==
  ASSUME AssistantInv, [AssistantNext]_allVars
  PROVE  AssistantInv'
<1>1. CASE Ask
  BY <1>1, AskStep, QueueUnchanged DEF AssistantInv, Ask
<1>2. CASE CrashAssistant
  BY <1>2, CrashAssistantStep, StopStep DEF AssistantInv, CrashAssistant, QueueInv, TypeOK
<1>3. CASE Deliver(Dispatcher)
  <2>1. UNCHANGED scheduled
    BY <1>3
    DEF Deliver, Dispatcher, HandleQueue, FindJob, ClaimJob, SendPayload, MarkSucceeded,
        MarkFailed
  <2> QED
    BY <1>3, <2>1, DispatcherStep, ChatUnchanged DEF AssistantInv, Deliver
<1>4. ASSUME NEW j \in JobIds, Deliver(BecomeDue(j)) PROVE AssistantInv'
  <2>1. UNCHANGED scheduled
    BY <1>4 DEF Deliver, BecomeDue
  <2> QED
    BY <1>4, <2>1, BecomeDueStep, ChatUnchanged DEF AssistantInv, Deliver
<1>5. CASE UNCHANGED allVars
  BY <1>5, QueueUnchanged, ChatUnchanged DEF AssistantInv, allVars, vars
<1> QED
  BY <1>1, <1>2, <1>3, <1>4, <1>5, WorkStep DEF AssistantNext, ConversationNext

LEMMA AlwaysAssistantInv == AssistantSpec => []AssistantInv
<1>1. AssistantInv /\ [AssistantNext]_allVars => AssistantInv'
  BY AssistantStep
<1> QED
  BY <1>1, InitAssistantInv, PTL DEF AssistantSpec

(* What is proved with the dispatcher at work holds without it.              *)
THEOREM WithoutDispatcher == ConversationSpec => AssistantSpec
<1>1. [ConversationNext]_allVars => [AssistantNext]_allVars
  BY DEF AssistantNext
<1> QED
  BY <1>1, PTL DEF ConversationSpec, AssistantSpec

(* The rows, the requests and the queue keep their types.                    *)
THEOREM ConversationTypeCorrect == AssistantSpec => []ConversationTypeOK
<1>1. AssistantInv => ConversationTypeOK
  BY DEF AssistantInv, QueueInv, ChatInv, ChatTypeOK, ConversationTypeOK
<1> QED
  BY <1>1, AlwaysAssistantInv, PTL

(* No handler leaves a message without its session or a suggestion without   *)
(* its answer, however it interleaves with the deletion of the session.      *)
THEOREM NothingOrphaned == AssistantSpec => []NoOrphans
<1>1. AssistantInv => NoOrphans
  BY DEF AssistantInv, ChatInv
<1> QED
  BY <1>1, AlwaysAssistantInv, PTL

(* The history handleChat gives the model is of one session, of the account  *)
(* that asks, and without the question itself.                               *)
THEOREM HistoryKept == AssistantSpec => []HistoryIsPast
<1>1. AssistantInv => HistoryIsPast
  BY DEF AssistantInv, ChatInv, RequestOK, HistoryIsPast
<1> QED
  BY <1>1, AlwaysAssistantInv, PTL

(* Whatever crashes and is delivered again, an acked request has its webhook *)
(* job, no answer has two, and none is announced that was not saved.         *)
THEOREM AnnouncedOnce == AssistantSpec => []AnswersAnnounced
<1>1. AssistantInv => AnswersAnnounced
  BY DEF AssistantInv, ChatInv, RequestOK, JobOK, AnswerIn, At, AnswersAnnounced
<1> QED
  BY <1>1, AlwaysAssistantInv, PTL

(* A suggestion is marked proposed only with items of the account.           *)
THEOREM OnlyOwnProposed == AssistantSpec => []ProposedMeansOwn
<1>1. AssistantInv => ProposedMeansOwn
  BY DEF AssistantInv, ChatInv, SuggestionOK, ProposedMeansOwn
<1> QED
  BY <1>1, AlwaysAssistantInv, PTL

LEMMA DropsOwn ==
  ASSUME ChatInv, NEW r \in 1..asked, At(r, "drop"), Goto(r, "ack")
  PROVE  /\ ~At(r, "drop")'
         /\ \A s \in sessions : s.id = request[r].target =>
              AccountOf(s.id) = request[r].account
         /\ \A g \in suggestions :
              g.id = request[r].target \/ g.session = request[r].target =>
                AccountOf(g.id) = request[r].account
<1>1. AccountOf(request[r].target) = request[r].account
  BY DEF ChatInv, RequestOK, At
<1>2. request'[r].pc = "ack"
  BY RequestFields DEF Goto, ChatInv, ChatTypeOK
<1> QED
  BY <1>1, <1>2 DEF ChatInv, SuggestionOK, At

(* What a request deletes was its own account's, and a message goes only     *)
(* with its session, whoever else is at work in it.                          *)
THEOREM DeletedByOwner == AssistantSpec => OnlyOwnerDeletes
<1> DEFINE Kept == /\ sessions \subseteq sessions' /\ suggestions \subseteq suggestions'
                   /\ messages \subseteq messages'
           A == /\ \A s \in (sessions \ sessions') \cup (suggestions \ suggestions') :
                     \E r \in 1..asked : At(r, "drop") /\ ~At(r, "drop")'
                                         /\ request[r].account = AccountOf(s.id)
                /\ \A m \in messages \ messages' : m.session \notin Known'
<1>1. Kept => A
  OBVIOUS
<1>2. ASSUME AssistantInv, NEW r \in 1..asked, RefuseEmptyChat(r) \/ Work(r) PROVE A
  <2>1. CASE DropSession(r)
    <3>1. At(r, "drop") /\ Goto(r, "ack") /\ ChatInv
      BY <1>2, <2>1 DEF DropSession, AssistantInv
    <3>2. \A m \in messages \ messages' : m.session \notin Known'
      BY <2>1 DEF DropSession, Known
    <3> QED
      BY <2>1, <3>1, <3>2, DropsOwn DEF DropSession
  <2>2. CASE DropSuggestion(r)
    <3>1. At(r, "drop") /\ Goto(r, "ack") /\ ChatInv
      BY <1>2, <2>2 DEF DropSuggestion, AssistantInv
    <3> QED
      BY <2>2, <3>1, DropsOwn DEF DropSuggestion
  <2>3. CASE ~DropSession(r) /\ ~DropSuggestion(r)
    <3>1. Kept
      BY <1>2, <2>3
      DEF Work, RefuseEmptyChat, ResolveSession, LoadHistory, SaveQuestion, Generate,
          SaveAnswer, SaveMessage, SaveSuggestion, Announce, FindSession,
          FindSuggestion, AckAnswer, Stumble, tables
    <3> QED
      BY <1>1, <3>1
  <2> QED
    BY <2>1, <2>2, <2>3
<1>3. ASSUME Ask \/ CrashAssistant \/ UNCHANGED chatVars PROVE Kept
  BY <1>3 DEF Ask, CrashAssistant, chatVars, tables
<1>4. AssistantInv /\ [AssistantNext]_allVars => [A]_chatVars
  <2> SUFFICES ASSUME AssistantInv, [AssistantNext]_allVars PROVE A
    OBVIOUS
  <2>1. \/ Ask \/ CrashAssistant \/ UNCHANGED chatVars
        \/ \E r \in 1..asked : RefuseEmptyChat(r) \/ Work(r)
    BY DEF AssistantNext, ConversationNext, Deliver, allVars
  <2> QED
    BY <1>1, <1>2, <1>3, <2>1
<1> QED
  BY <1>4, AlwaysAssistantInv, PTL DEF AssistantSpec, OnlyOwnerDeletes

(* The guarantees of the webhook queue survive its composition with the      *)
(* handlers that fill it and with restarts of the service.                   *)
THEOREM QueueKeepsPromises ==
  AssistantSpec => [](DeliveriesCounted /\ OutcomesEarned /\ FirstComeFirstTried)
<1>1. AssistantInv => DeliveriesCounted /\ OutcomesEarned /\ FirstComeFirstTried
  BY DEF AssistantInv, QueueInv
<1> QED
  BY <1>1, AlwaysAssistantInv, PTL

=============================================================================
