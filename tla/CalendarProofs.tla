---------------------------- MODULE CalendarProofs ----------------------------
(***************************************************************************)
(* Theorems about a calendar connection, for any number of fetches, day    *)
(* counts, grants and cache entries.                                       *)
(***************************************************************************)
EXTENDS GoogleCalendar, SequenceTheorems, TLAPS

LEMMA IdleTyped == Idle \in Fetch
<1>1. (CHOOSE d \in DaysAhead : TRUE) \in DaysAhead
  BY CalendarAssumption
<1> QED
  BY <1>1, CalendarAssumption DEF Idle, Fetch, Token

LEMMA FetchTyped ==
  ASSUME fetch \in [Fetchers -> Fetch], NEW f \in Fetchers,
         NEW pc \in {"idle", "credential", "refresh", "save", "revoked", "get", "write"}
  PROVE  /\ FetchGoto(f, pc) => fetch' \in [Fetchers -> Fetch]
         /\ FetchDone(f) => fetch' \in [Fetchers -> Fetch]
<1>1. [fetch[f] EXCEPT !.pc = pc] \in Fetch
  BY DEF Fetch
<1> QED
  BY <1>1, IdleTyped DEF FetchGoto, FetchDone

-------------------------------------------------------------------------------
(* The cache as a sequence: what its operations put where. *)
LEMMA StoredEntries ==
  ASSUME NEW es \in Seq(Entry), NEW e \in Entry
  PROVE  /\ Stored(es, e) \in Seq(Entry)
         /\ \A i \in DOMAIN Stored(es, e) :
              Stored(es, e)[i] = e \/ \E j \in DOMAIN es : Stored(es, e)[i] = es[j]
<1> DEFINE known == {i \in DOMAIN es : es[i].days = e.days}
<1>1. CASE known # {}
  <2> DEFINE new == [i \in DOMAIN es |-> IF i \in known THEN e ELSE es[i]]
  <2>1. Stored(es, e) = new
    BY <1>1 DEF Stored
  <2>2. new \in Seq(Entry)
    OBVIOUS
  <2> QED
    BY <2>1, <2>2
<1>2. CASE known = {}
  <2> DEFINE rest == IF Len(es) >= MaxEntries THEN Tail(es) ELSE es
  <2>1. Stored(es, e) = Append(rest, e)
    BY <1>2 DEF Stored
  <2>2. /\ rest \in Seq(Entry)
        /\ \A i \in 1..Len(rest) : \E j \in DOMAIN es : rest[i] = es[j]
    <3>1. CASE Len(es) >= MaxEntries
      <4>1. es # <<>>
        BY <3>1, CalendarAssumption
      <4>2. Len(Tail(es)) = Len(es) - 1 /\ Tail(es) \in Seq(Entry)
        BY <4>1
      <4>3. \A i \in 1..Len(Tail(es)) : Tail(es)[i] = es[i + 1] /\ i + 1 \in DOMAIN es
        BY <4>1, <4>2
      <4> QED
        BY <3>1, <4>2, <4>3
    <3>2. CASE ~(Len(es) >= MaxEntries)
      BY <3>2
    <3> QED
      BY <3>1, <3>2
  <2> HIDE DEF rest
  <2>3. Append(rest, e) \in Seq(Entry)
    BY <2>2
  <2>4. \A i \in DOMAIN Append(rest, e) :
          \/ Append(rest, e)[i] = e
          \/ i \in 1..Len(rest) /\ Append(rest, e)[i] = rest[i]
    BY <2>2
  <2> QED
    BY <2>1, <2>2, <2>3, <2>4
<1> QED
  BY <1>1, <1>2

LEMMA RemovedEntries ==
  ASSUME NEW es \in Seq(Entry), NEW k \in DOMAIN es
  PROVE  /\ RemoveAt(es, k) \in Seq(Entry)
         /\ Len(RemoveAt(es, k)) = Len(es) - 1
         /\ \A i \in 1..Len(es) - 1 :
              RemoveAt(es, k)[i] = es[IF i < k THEN i ELSE i + 1]
<1> DEFINE left == SubSeq(es, 1, k - 1)
           right == SubSeq(es, k + 1, Len(es))
<1>1. k \in 1..Len(es) /\ Len(es) \in Nat
  OBVIOUS
<1>2. left \in Seq(Entry) /\ Len(left) = k - 1 /\ \A i \in 1..k - 1 : left[i] = es[i]
  BY <1>1
<1>3. /\ right \in Seq(Entry) /\ Len(right) = Len(es) - k
      /\ \A i \in 1..Len(es) - k : right[i] = es[k + i]
  BY <1>1
<1> HIDE DEF left, right
<1>4. left \o right \in Seq(Entry) /\ Len(left \o right) = Len(es) - 1
  BY <1>1, <1>2, <1>3
<1>5. \A i \in 1..Len(es) - 1 : (left \o right)[i] = es[IF i < k THEN i ELSE i + 1]
  <2> SUFFICES ASSUME NEW i \in 1..Len(es) - 1
               PROVE  (left \o right)[i] = es[IF i < k THEN i ELSE i + 1]
    OBVIOUS
  <2>1. CASE i < k
    BY <1>1, <1>2, <1>3, <2>1
  <2>2. CASE ~(i < k)
    <3>1. i - (k - 1) \in 1..Len(es) - k
      BY <1>1, <2>2
    <3>2. (left \o right)[i] = right[i - (k - 1)]
      <4>1. i \in 1..Len(left) + Len(right) /\ ~(i <= Len(left))
        BY <1>1, <1>2, <1>3, <2>2
      <4>2. (left \o right)[i] = right[i - Len(left)]
        BY <1>2, <1>3, <4>1, ConcatProperties
      <4> QED
        BY <1>2, <4>2
    <3>3. right[i - (k - 1)] = es[k + (i - (k - 1))]
      BY <1>3, <3>1
    <3>4. k + (i - (k - 1)) = i + 1
      BY <1>1
    <3> QED
      BY <2>2, <3>2, <3>3, <3>4
  <2> QED
    BY <2>1, <2>2
<1> QED
  BY <1>4, <1>5 DEF RemoveAt, left, right

LEMMA ExpiredEntries ==
  ASSUME NEW es \in Seq(Entry), NEW k \in DOMAIN es
  PROVE  /\ [es EXCEPT ![k].fresh = FALSE] \in Seq(Entry)
         /\ Len([es EXCEPT ![k].fresh = FALSE]) = Len(es)
         /\ \A i \in DOMAIN es :
              LET new == [es EXCEPT ![k].fresh = FALSE][i]
              IN new.days = es[i].days /\ new.found = es[i].found /\ new.late = es[i].late
<1>1. \A i \in 1..Len(es) : es[i] \in Entry
  OBVIOUS
<1>2. [es[k] EXCEPT !.fresh = FALSE] \in Entry
  <2>1. es[k] \in Entry
    BY <1>1
  <2> QED
    BY <2>1 DEF Entry
<1>3. [es EXCEPT ![k] = [es[k] EXCEPT !.fresh = FALSE]] \in Seq(Entry)
  BY <1>2
<1> QED
  BY <1>1, <1>3 DEF Entry

LEMMA EvictedEntries ==
  ASSUME NEW es \in Seq(Entry), es # <<>>
  PROVE  /\ Tail(es) \in Seq(Entry)
         /\ Len(Tail(es)) = Len(es) - 1
         /\ \A i \in 1..Len(es) - 1 : Tail(es)[i] = es[i + 1]
OBVIOUS

-------------------------------------------------------------------------------
(* Types, one lemma per actor. *)
LEMMA CalendarInitType == CalendarInit => CalendarTypeOK
BY CalendarAssumption, IdleTyped
   DEF CalendarInit, CalendarTypeOK, NoCredential, Row, Token, NoCallback, NoQuery, Query

LEMMA CredentialTyped ==
  ASSUME CalendarTypeOK, NEW token \in Token
  PROVE  /\ NoCredential \in Row /\ Refreshed(token) \in Row /\ Revoked \in Row
         /\ \A access \in {0, token} :
              [status |-> "active", refresh |-> token, access |-> access] \in Row
<1>1. row \in Row /\ 0 \in Token
  BY CalendarAssumption DEF CalendarTypeOK, Token
<1>2. NoCredential \in Row /\ [status |-> "revoked", refresh |-> 0, access |-> 0] \in Row
  BY <1>1 DEF NoCredential, Row
<1>3. [row EXCEPT !.status = "active", !.access = token] \in Row
  BY <1>1 DEF Row
<1>4. \A access \in {0, token} :
        [status |-> "active", refresh |-> token, access |-> access] \in Row
  BY <1>1 DEF Row
<1> QED
  BY <1>1, <1>2, <1>3, <1>4 DEF Refreshed, Revoked, Where

LEMMA FetchStepType ==
  ASSUME CalendarTypeOK, NEW f \in Fetchers, FetchStep(f)
  PROVE  CalendarTypeOK'
<1> USE DEF CalendarTypeOK
<1>1. fetch[f] \in Fetch /\ events \in Seq(Entry) /\ 0 \in Token
  BY CalendarAssumption DEF Token
<1>2. ASSUME NEW d \in DaysAhead, AskForEvents(f, d)
      PROVE  CalendarTypeOK'
  <2>1. [Idle EXCEPT !.pc = "credential", !.days = d] \in Fetch
    BY IdleTyped DEF Fetch
  <2>2. events' \in Seq(Entry)
    BY <1>1, <1>2, RemovedEntries DEF AskForEvents
  <2> QED
    BY <1>2, <2>1, <2>2 DEF AskForEvents
<1>3. CASE ReadCredential(f)
  <2>1. CASE row.status # "active"
    BY <1>3, <2>1, FetchTyped DEF ReadCredential
  <2>2. CASE row.status = "active"
    <3> DEFINE usable == row.access # 0
               next == IF usable THEN "get" ELSE "refresh"
               token == IF usable THEN row.access ELSE row.refresh
    <3>1. next \in {"get", "refresh"} /\ token \in Token
      BY DEF Row
    <3>2. fetch' = [fetch EXCEPT ![f].pc = next, ![f].token = token]
      BY <1>3, <2>2 DEF ReadCredential
    <3> HIDE DEF next, token
    <3>3. [fetch[f] EXCEPT !.pc = next, !.token = token] \in Fetch
      BY <1>1, <3>1 DEF Fetch
    <3>4. fetch' \in [Fetchers -> Fetch]
      BY <3>2, <3>3
    <3> QED
      BY <1>3, <3>4 DEF ReadCredential
  <2> QED
    BY <2>1, <2>2
<1>4. CASE RefreshToken(f)
  <2>1. \A next \in RefreshOutcomes(fetch[f].token) : next \in {"revoked", "save", "idle"}
    BY DEF RefreshOutcomes
  <2> QED
    BY <1>4, <2>1, FetchTyped DEF RefreshToken
<1>5. CASE SaveToken(f) \/ MarkRevoked(f)
  <2>1. row' \in Row
    BY <1>1, <1>5, CredentialTyped DEF SaveToken, MarkRevoked, Fetch
  <2> QED
    BY <1>5, <2>1, FetchTyped DEF SaveToken, MarkRevoked
<1>6. CASE GetEvents(f)
  <2> DEFINE honoured == fetch[f].token \in live
  <2>1. PICK found \in {FALSE, honoured} :
          fetch' = [fetch EXCEPT ![f].pc = "write", ![f].token = 0, ![f].found = found]
    BY <1>6 DEF GetEvents
  <2>2. honoured \in BOOLEAN
    OBVIOUS
  <2> HIDE DEF honoured
  <2>3. [fetch[f] EXCEPT !.pc = "write", !.token = 0, !.found = found] \in Fetch
    BY <1>1, <2>2 DEF Fetch
  <2>4. fetch' \in [Fetchers -> Fetch]
    BY <2>1, <2>3
  <2> QED
    BY <1>6, <2>4 DEF GetEvents
<1>7. CASE WriteCache(f)
  <2>1. [days |-> fetch[f].days, found |-> fetch[f].found,
         fresh |-> TRUE, late |-> fetch[f].late] \in Entry
    BY <1>1 DEF Fetch, Entry
  <2>2. events' \in Seq(Entry)
    BY <1>1, <1>7, <2>1, StoredEntries DEF WriteCache
  <2> QED
    BY <1>7, <2>2, FetchTyped DEF WriteCache
<1> QED
  BY <1>2, <1>3, <1>4, <1>5, <1>6, <1>7 DEF FetchStep

LEMMA UserStepType ==
  ASSUME CalendarTypeOK, UserStep
  PROVE  CalendarTypeOK'
<1> USE DEF CalendarTypeOK
<1>1. /\ row \in Row /\ 0 \in Token
      /\ NoCallback \in [pc : {"idle", "exchange", "handback", "store"},
                         token : Token, query : Query]
  BY CalendarAssumption DEF Token, NoCallback, NoQuery, Query
<1>2. CASE Disconnect
  BY <1>1, <1>2 DEF Disconnect, Row
<1>3. CASE RevokeToken \/ DeleteCredential
  <2>1. NoCredential \in Row
    BY <1>1, CredentialTyped
  <2> QED
    BY <1>1, <1>3, <2>1 DEF RevokeToken, DeleteCredential
<1>4. CASE InvalidateAccount
  <2>1. \A f \in Fetchers : [fetch[f] EXCEPT !.late = TRUE] \in Fetch
    BY DEF Fetch
  <2> QED
    BY <1>1, <1>4, <2>1 DEF InvalidateAccount, Invalidated
<1>5. CASE HandleCallback
  BY <1>5 DEF HandleCallback
<1>6. CASE ExchangeCode
  <2>1. CASE callback' = NoCallback /\ UNCHANGED <<live, issued>>
    BY <1>1, <1>6, <2>1 DEF ExchangeCode
  <2>2. ASSUME NEW g \in Grants, NEW granted \in {"calendar", "other"},
               issued' = [issued EXCEPT ![g] =
                            IF Covers(callback.query, granted) THEN "calendar" ELSE "other"],
               live' = live \cup {g},
               NEW next \in AfterExchange(granted),
               callback' = IF next = "idle" THEN NoCallback
                           ELSE [NoCallback EXCEPT !.pc = next, !.token = g]
        PROVE  CalendarTypeOK'
    <3>1. next \in {"store", "idle", "handback"} /\ g \in Token
      BY CalendarAssumption DEF AfterExchange, Grants, Token
    <3>2. [NoCallback EXCEPT !.pc = next, !.token = g]
            \in [pc : {"idle", "exchange", "handback", "store"}, token : Token, query : Query]
         \/ next = "idle"
      BY <1>1, <3>1
    <3> QED
      BY <1>1, <1>6, <2>2, <3>2 DEF ExchangeCode
  <2> QED
    BY <1>6, <2>1, <2>2 DEF ExchangeCode
<1>7. CASE HandBackGrant
  BY <1>1, <1>7 DEF HandBackGrant
<1>8. CASE StoreCredential
  <2>1. row' \in Row
    BY <1>8, CredentialTyped DEF StoreCredential
  <2> QED
    BY <1>1, <1>8, <2>1 DEF StoreCredential
<1> QED
  BY <1>2, <1>3, <1>4, <1>5, <1>6, <1>7, <1>8 DEF UserStep

LEMMA OutsideStepType ==
  ASSUME CalendarTypeOK, OutsideStep
  PROVE  CalendarTypeOK'
<1> USE DEF CalendarTypeOK
<1>1. CASE AccessTokenExpires
  BY <1>1, CalendarAssumption DEF AccessTokenExpires, Row, Token
<1>2. ASSUME NEW i \in DOMAIN events, EntryExpires(i)
      PROVE  CalendarTypeOK'
  BY <1>2, ExpiredEntries DEF EntryExpires
<1>3. CASE EvictedByOthers
  BY <1>3, EvictedEntries DEF EvictedByOthers
<1>4. ASSUME NEW g \in live, RevokedAtGoogle(g)
      PROVE  CalendarTypeOK'
  BY <1>4 DEF RevokedAtGoogle
<1> QED
  BY <1>1, <1>2, <1>3, <1>4 DEF OutsideStep

LEMMA CalendarTypeStep ==
  CalendarTypeOK /\ [CalendarNext]_calendarVars => CalendarTypeOK'
<1>1. ASSUME CalendarTypeOK, UNCHANGED calendarVars
      PROVE  CalendarTypeOK'
  BY <1>1 DEF CalendarTypeOK, calendarVars
<1> QED
  BY <1>1, FetchStepType, UserStepType, OutsideStepType DEF CalendarNext

(* Row, cache, fetches, disconnect and callback have their types. *)
THEOREM CalendarTypeCorrect == CalendarSpec => []CalendarTypeOK
BY CalendarInitType, CalendarTypeStep, PTL DEF CalendarSpec

-------------------------------------------------------------------------------
(* Grants.  A grant covers the calendar for ever once it was issued so, and  *)
(* a callback on its way to the row has had its query checked.               *)
Tokens == {row.refresh, row.access} \cup {fetch[f].token : f \in Fetchers}

CallbackChecked ==
  /\ callback.pc = "exchange" => callback.query.state = "valid" /\ ~callback.query.error
  /\ callback.pc = "store" => callback.token # 0 /\ issued[callback.token] = "calendar"

Consented == CallbackChecked /\ OnlyConsentConnects

LEMMA CallbackStep ==
  ASSUME CalendarTypeOK, CallbackChecked, CalendarNext
  PROVE  CallbackChecked'
<1> USE DEF CallbackChecked
<1>1. callback \in [pc : {"idle", "exchange", "handback", "store"},
                    token : Token, query : Query]
  BY DEF CalendarTypeOK
<1>2. CASE UNCHANGED <<callback, issued>>
  BY <1>2
<1>3. CASE HandleCallback
  BY <1>1, <1>3 DEF HandleCallback, MayExchange
<1>4. CASE ExchangeCode
  <2>1. CASE callback' = NoCallback
    BY <2>1 DEF NoCallback
  <2>2. ASSUME NEW g \in Grants, NEW granted \in {"calendar", "other"},
               issued' = [issued EXCEPT ![g] =
                            IF Covers(callback.query, granted) THEN "calendar" ELSE "other"],
               NEW next \in AfterExchange(granted),
               next # "idle",
               callback' = [NoCallback EXCEPT !.pc = next, !.token = g]
        PROVE  CallbackChecked'
    <3>1. next \in {"store", "handback"} /\ (next = "store" => granted = "calendar")
      BY <2>2 DEF AfterExchange
    <3>2. granted = "calendar" => Covers(callback.query, granted)
      BY <1>4 DEF ExchangeCode, Covers
    <3>3. callback'.pc = next /\ callback'.token = g
      BY <2>2 DEF NoCallback
    <3>4. g # 0 /\ (granted = "calendar" => issued'[g] = "calendar")
      BY <2>2, <3>2, CalendarAssumption DEF CalendarTypeOK, Grants
    <3> QED
      BY <3>1, <3>3, <3>4
  <2> QED
    BY <1>4, <2>1, <2>2 DEF ExchangeCode
<1>5. CASE HandBackGrant \/ StoreCredential
  BY <1>5 DEF HandBackGrant, StoreCredential, NoCallback
<1> QED
  BY <1>2, <1>3, <1>4, <1>5
     DEF CalendarNext, FetchStep, UserStep, OutsideStep,
         AskForEvents, ReadCredential, RefreshToken, SaveToken, MarkRevoked, GetEvents,
         WriteCache, Disconnect, RevokeToken, DeleteCredential, InvalidateAccount,
         AccessTokenExpires, EntryExpires, EvictedByOthers, RevokedAtGoogle

(* No step takes a consent back. *)
LEMMA ConsentLasts ==
  ASSUME CalendarTypeOK, CalendarNext
  PROVE  \A g \in Grants : issued[g] # "none" => issued'[g] = issued[g]
<1>1. CASE UNCHANGED issued
  BY <1>1
<1>2. CASE ExchangeCode
  BY <1>2 DEF ExchangeCode, CalendarTypeOK
<1> QED
  BY <1>1, <1>2
     DEF CalendarNext, FetchStep, UserStep, OutsideStep,
         AskForEvents, ReadCredential, RefreshToken, SaveToken, MarkRevoked, GetEvents,
         WriteCache, Disconnect, RevokeToken, DeleteCredential, InvalidateAccount,
         HandleCallback, HandBackGrant, StoreCredential,
         AccessTokenExpires, EntryExpires, EvictedByOthers, RevokedAtGoogle

(* A step brings no token into the row or a fetch but the one a checked      *)
(* callback stores.                                                          *)
LEMMA TokensStep ==
  ASSUME CalendarTypeOK, CalendarNext
  PROVE  \A g \in Tokens' :
           g \in Tokens \cup {0} \/ (callback.pc = "store" /\ g = callback.token)
<1> USE DEF Tokens
<1>1. row \in Row /\ fetch \in [Fetchers -> Fetch]
  BY DEF CalendarTypeOK
<1>2. CASE UNCHANGED <<row, fetch>>
  BY <1>2
<1>3. ASSUME NEW f \in Fetchers, FetchStep(f)
      PROVE  \A g \in Tokens' : g \in Tokens \cup {0}
  <2>1. \A h \in Fetchers \ {f} : fetch'[h] = fetch[h]
    BY <1>1, <1>3
       DEF FetchStep, AskForEvents, ReadCredential, RefreshToken, SaveToken, MarkRevoked,
           GetEvents, WriteCache, FetchDone, FetchGoto
  <2>2. fetch[f] \in Fetch
    BY <1>1
  <2>3. fetch'[f].token \in {0, fetch[f].token, row.access, row.refresh}
    <3>1. ASSUME NEW d \in DaysAhead, AskForEvents(f, d)
          PROVE  fetch'[f].token = 0
      BY <1>1, <3>1 DEF AskForEvents, Idle
    <3>2. CASE ReadCredential(f)
      BY <1>1, <2>2, <3>2 DEF ReadCredential, FetchDone, Idle, Fetch
    <3>3. CASE RefreshToken(f) \/ SaveToken(f) \/ MarkRevoked(f)
      BY <1>1, <2>2, <3>3
         DEF RefreshToken, SaveToken, MarkRevoked, FetchDone, FetchGoto, Idle, Fetch
    <3>4. CASE GetEvents(f)
      BY <1>1, <2>2, <3>4 DEF GetEvents, Fetch
    <3>5. CASE WriteCache(f)
      BY <1>1, <3>5 DEF WriteCache, FetchDone, Idle
    <3> QED
      BY <1>3, <3>1, <3>2, <3>3, <3>4, <3>5 DEF FetchStep
  <2>4. row'.refresh \in {0, row.refresh} /\ row'.access \in {0, row.access, fetch[f].token}
    <3>1. CASE SaveToken(f)
      BY <1>1, <3>1 DEF SaveToken, Refreshed, Where, Row
    <3>2. CASE MarkRevoked(f)
      BY <1>1, <3>2 DEF MarkRevoked, Revoked, Where
    <3>3. CASE UNCHANGED row
      BY <3>3
    <3> QED
      BY <1>3, <3>1, <3>2, <3>3
         DEF FetchStep, AskForEvents, ReadCredential, RefreshToken, GetEvents, WriteCache
  <2> QED
    BY <2>1, <2>3, <2>4
<1>4. CASE DeleteCredential
  BY <1>4 DEF DeleteCredential, NoCredential
<1>5. CASE StoreCredential
  BY <1>5 DEF StoreCredential
<1>6. CASE InvalidateAccount
  <2>1. \A f \in Fetchers : fetch'[f].token = fetch[f].token
    BY <1>1, <1>6 DEF InvalidateAccount, Fetch
  <2> QED
    BY <1>6, <2>1 DEF InvalidateAccount
<1>7. CASE AccessTokenExpires
  BY <1>1, <1>7 DEF AccessTokenExpires, Row
<1> QED
  BY <1>2, <1>3, <1>4, <1>5, <1>6, <1>7
     DEF CalendarNext, UserStep, OutsideStep, Disconnect, RevokeToken, HandleCallback,
         ExchangeCode, HandBackGrant, EntryExpires, EvictedByOthers, RevokedAtGoogle

LEMMA ConsentedStep ==
  ASSUME CalendarTypeOK, Consented, [CalendarNext]_calendarVars
  PROVE  Consented'
<1>1. CASE UNCHANGED calendarVars
  BY <1>1 DEF Consented, CallbackChecked, OnlyConsentConnects, calendarVars
<1>2. CASE CalendarNext
  <2>1. CallbackChecked'
    BY <1>2, CallbackStep DEF Consented
  <2>2. ASSUME NEW g \in Tokens', g # 0
        PROVE  issued'[g] = "calendar"
    <3>1. g \in Grants
      BY <1>2, <2>2, CalendarTypeStep, CalendarAssumption
         DEF CalendarTypeOK, Tokens, Row, Fetch, Token, Grants
    <3>2. issued[g] = "calendar"
      BY <1>2, <2>2, TokensStep DEF Consented, CallbackChecked, OnlyConsentConnects, Tokens
    <3> QED
      BY <1>2, <3>1, <3>2, ConsentLasts
  <2> QED
    BY <2>1, <2>2 DEF Consented, OnlyConsentConnects, Tokens
<1> QED
  BY <1>1, <1>2

-------------------------------------------------------------------------------
(* Giving a grant up.  A fetch about to mark the row revoked, or to refresh  *)
(* without a token, has seen a grant that Google refused.                    *)
Condemned(f) ==
  fetch[f].pc = "revoked" \/ (fetch[f].pc = "refresh" /\ fetch[f].token = 0)

GivenUp ==
  /\ RevokedForCause
  /\ \A f \in Fetchers : Condemned(f) => SomeGrantDead

(* A dead grant stays dead. *)
LEMMA DeadStaysDead ==
  ASSUME CalendarTypeOK, SomeGrantDead, CalendarNext
  PROVE  SomeGrantDead'
<1>1. PICK g \in Grants : issued[g] # "none" /\ g \notin live
  BY DEF SomeGrantDead
<1>2. issued'[g] = issued[g]
  BY <1>1, ConsentLasts
<1>3. g \notin live'
  <2>1. CASE live' \subseteq live
    BY <1>1, <2>1
  <2>2. CASE ExchangeCode
    BY <1>1, <2>2 DEF ExchangeCode
  <2> QED
    BY <2>1, <2>2
       DEF CalendarNext, FetchStep, UserStep, OutsideStep,
           AskForEvents, ReadCredential, RefreshToken, SaveToken, MarkRevoked, GetEvents,
           WriteCache, Disconnect, RevokeToken, DeleteCredential, InvalidateAccount,
           HandleCallback, HandBackGrant, StoreCredential,
           AccessTokenExpires, EntryExpires, EvictedByOthers, RevokedAtGoogle
<1> QED
  BY <1>1, <1>2, <1>3 DEF SomeGrantDead

(* What a step makes of the row. *)
LEMMA RowStep ==
  ASSUME CalendarTypeOK, CalendarNext
  PROVE  \/ UNCHANGED row
         \/ row' = NoCredential
         \/ \E f \in Fetchers : SaveToken(f) \/ MarkRevoked(f)
         \/ StoreCredential
         \/ AccessTokenExpires
BY DEF CalendarNext, FetchStep, UserStep, OutsideStep,
       AskForEvents, ReadCredential, RefreshToken, GetEvents,
       WriteCache, Disconnect, RevokeToken, DeleteCredential, InvalidateAccount,
       HandleCallback, HandBackGrant, ExchangeCode, EntryExpires, EvictedByOthers,
       RevokedAtGoogle

LEMMA RevokedForCauseStep ==
  ASSUME CalendarTypeOK, CallbackChecked, GivenUp, CalendarNext
  PROVE  RevokedForCause'
<1> USE DEF RevokedForCause
<1>1. row \in Row /\ (SomeGrantDead => SomeGrantDead') /\ RevokedForCause
  BY DeadStaysDead DEF CalendarTypeOK, GivenUp
<1>2. CASE UNCHANGED row
  BY <1>1, <1>2
<1>3. CASE row' = NoCredential
  BY <1>3 DEF NoCredential
<1>4. ASSUME NEW f \in Fetchers, SaveToken(f)
      PROVE  RevokedForCause'
  BY <1>1, <1>4 DEF SaveToken, Refreshed, Where, Row
<1>5. ASSUME NEW f \in Fetchers, MarkRevoked(f)
      PROVE  RevokedForCause'
  <2>1. SomeGrantDead'
    BY <1>1, <1>5 DEF MarkRevoked, Condemned, GivenUp
  <2> QED
    BY <1>1, <1>5, <2>1 DEF MarkRevoked, Revoked, Where
<1>6. CASE StoreCredential
  BY <1>6 DEF StoreCredential, CallbackChecked
<1>7. CASE AccessTokenExpires
  BY <1>1, <1>7 DEF AccessTokenExpires, Row
<1> QED
  BY <1>2, <1>3, <1>4, <1>5, <1>6, <1>7, RowStep

(* What a step of a fetch does to it and to the others. *)
LEMMA OthersWait ==
  ASSUME CalendarTypeOK, NEW f \in Fetchers, FetchStep(f)
  PROVE  \A h \in Fetchers \ {f} : fetch'[h] = fetch[h]
BY DEF CalendarTypeOK, FetchStep, AskForEvents, ReadCredential, RefreshToken, SaveToken,
       MarkRevoked, GetEvents, WriteCache, FetchDone, FetchGoto

LEMMA CondemnedStep ==
  ASSUME CalendarTypeOK, OnlyConsentConnects, GivenUp, CalendarNext,
         NEW h \in Fetchers, Condemned(h)'
  PROVE  SomeGrantDead'
<1>1. fetch \in [Fetchers -> Fetch] /\ fetch[h] \in Fetch /\ row \in Row
  BY DEF CalendarTypeOK
<1>2. CASE Condemned(h)
  BY <1>2, DeadStaysDead DEF GivenUp
<1>3. ASSUME ~Condemned(h), FetchStep(h)
      PROVE  SomeGrantDead
  <2>1. ASSUME NEW d \in DaysAhead, AskForEvents(h, d)
        PROVE  FALSE
    BY <1>1, <2>1 DEF AskForEvents, Condemned, Idle
  <2>2. CASE ReadCredential(h)
    <3>1. row.status = "active" /\ row.access = 0 /\ row.refresh = 0
      BY <1>1, <2>2 DEF ReadCredential, Condemned, FetchDone, Idle, Fetch
    <3> QED
      BY <3>1 DEF GivenUp, RevokedForCause
  <2>3. CASE RefreshToken(h)
    <3>1. fetch'[h].pc = "revoked" /\ "revoked" \in RefreshOutcomes(fetch[h].token)
      BY <1>1, <2>3 DEF RefreshToken, RefreshOutcomes, Condemned, FetchDone, FetchGoto, Idle, Fetch
    <3>2. fetch[h].token # 0 /\ fetch[h].token \notin live
      BY <1>3, <2>3, <3>1 DEF RefreshToken, RefreshOutcomes, Condemned
    <3>3. fetch[h].token \in Grants /\ issued[fetch[h].token] = "calendar"
      BY <1>1, <3>2, CalendarAssumption DEF OnlyConsentConnects, Fetch, Token, Grants
    <3> QED
      BY <3>2, <3>3 DEF SomeGrantDead
  <2>4. CASE SaveToken(h) \/ MarkRevoked(h) \/ GetEvents(h) \/ WriteCache(h)
    BY <1>1, <2>4
       DEF SaveToken, MarkRevoked, GetEvents, WriteCache, Condemned, FetchDone, FetchGoto, Idle,
           Fetch
  <2> QED
    BY <1>3, <2>1, <2>2, <2>3, <2>4 DEF FetchStep
<1>4. ASSUME NEW f \in Fetchers \ {h}, FetchStep(f)
      PROVE  Condemned(h)
  BY <1>4, OthersWait DEF Condemned
<1>5. ASSUME InvalidateAccount
      PROVE  Condemned(h)
  BY <1>1, <1>5 DEF InvalidateAccount, Condemned, Fetch
<1>6. ASSUME UNCHANGED fetch
      PROVE  Condemned(h)
  BY <1>6 DEF Condemned
<1> QED
  BY <1>2, <1>3, <1>4, <1>5, <1>6, DeadStaysDead
     DEF GivenUp, CalendarNext, UserStep, OutsideStep, Disconnect, RevokeToken, DeleteCredential,
         HandleCallback, ExchangeCode, HandBackGrant, StoreCredential,
         AccessTokenExpires, EntryExpires, EvictedByOthers, RevokedAtGoogle

LEMMA GivenUpStep ==
  ASSUME CalendarTypeOK, Consented, GivenUp, [CalendarNext]_calendarVars
  PROVE  GivenUp'
<1>1. CASE UNCHANGED calendarVars
  BY <1>1 DEF GivenUp, RevokedForCause, Condemned, SomeGrantDead, calendarVars
<1>2. CASE CalendarNext
  BY <1>2, RevokedForCauseStep, CondemnedStep DEF GivenUp, Consented
<1> QED
  BY <1>1, <1>2

-------------------------------------------------------------------------------
(* The cache.  While nothing is connected and no disconnect is under way,    *)
(* whoever still has a token in hand was there when the cache was cleared.   *)
AtWork == {"refresh", "save", "revoked", "get", "write"}

Cleared ==
  /\ CacheCleared
  /\ disconnect.pc \in {"revoke", "delete"} => row.status # "none"
  /\ row.status = "none" /\ disconnect.pc = "idle" =>
       \A f \in Fetchers : fetch[f].pc \in AtWork => fetch[f].late

(* Every entry after a step was there before, but for what a fetch writes. *)
LEMMA EntriesStep ==
  ASSUME CalendarTypeOK, CalendarNext, NEW i \in DOMAIN events', events'[i].found
  PROVE  \/ \E j \in DOMAIN events : events[j].found /\ events[j].late = events'[i].late
         \/ \E f \in Fetchers : fetch[f].pc = "write" /\ events'[i].late = fetch[f].late
<1>1. events \in Seq(Entry) /\ fetch \in [Fetchers -> Fetch]
  BY DEF CalendarTypeOK
<1>2. CASE UNCHANGED events
  BY <1>2
<1>3. ASSUME NEW k \in DOMAIN events, events' = RemoveAt(events, k)
      PROVE  \E j \in DOMAIN events : events[j].found /\ events[j].late = events'[i].late
  <2>1. i \in 1..Len(events) - 1 /\ k \in 1..Len(events)
    BY <1>1, <1>3, RemovedEntries
  <2> DEFINE j == IF i < k THEN i ELSE i + 1
  <2>2. j \in DOMAIN events
    BY <1>1, <2>1
  <2>3. events'[i] = events[j]
    BY <1>1, <1>3, <2>1, RemovedEntries
  <2> QED
    BY <2>2, <2>3
<1>4. ASSUME NEW f \in Fetchers, WriteCache(f)
      PROVE  \/ \E j \in DOMAIN events : events[j].found /\ events[j].late = events'[i].late
             \/ fetch[f].pc = "write" /\ events'[i].late = fetch[f].late
  <2> DEFINE e == [days |-> fetch[f].days, found |-> fetch[f].found,
                   fresh |-> TRUE, late |-> fetch[f].late]
  <2>1. e \in Entry
    BY <1>1 DEF Fetch, Entry
  <2>2. events' = Stored(events, e) /\ fetch[f].pc = "write" /\ e.late = fetch[f].late
    BY <1>4 DEF WriteCache
  <2>3. events'[i] = e \/ \E j \in DOMAIN events : events'[i] = events[j]
    BY <1>1, <2>1, <2>2, StoredEntries
  <2> QED
    BY <2>2, <2>3
<1>5. CASE events' = <<>>
  BY <1>5
<1>6. ASSUME NEW k \in DOMAIN events, EntryExpires(k)
      PROVE  \E j \in DOMAIN events : events[j].found /\ events[j].late = events'[i].late
  <2>1. events' = [events EXCEPT ![k].fresh = FALSE] /\ i \in DOMAIN events
    BY <1>1, <1>6 DEF EntryExpires
  <2>2. events'[i].found = events[i].found /\ events'[i].late = events[i].late
    BY <1>1, <2>1, ExpiredEntries
  <2> QED
    BY <2>1, <2>2
<1>7. CASE EvictedByOthers
  <2>1. events' = Tail(events) /\ events # <<>>
    BY <1>7 DEF EvictedByOthers
  <2>2. i \in 1..Len(events) - 1 /\ events'[i] = events[i + 1] /\ i + 1 \in DOMAIN events
    BY <1>1, <2>1, EvictedEntries
  <2> QED
    BY <2>2
<1> QED
  BY <1>2, <1>3, <1>4, <1>5, <1>6, <1>7
     DEF CalendarNext, FetchStep, UserStep, OutsideStep, AskForEvents, ReadCredential,
         RefreshToken, SaveToken, MarkRevoked, GetEvents,
         Disconnect, RevokeToken, DeleteCredential, InvalidateAccount, Invalidated,
         HandleCallback, HandBackGrant, ExchangeCode, StoreCredential,
         AccessTokenExpires, RevokedAtGoogle

LEMMA ClearedStep ==
  ASSUME CalendarTypeOK, Cleared, [CalendarNext]_calendarVars
  PROVE  Cleared'
<1>1. row \in Row /\ fetch \in [Fetchers -> Fetch]
  BY DEF CalendarTypeOK
<1>2. CASE UNCHANGED calendarVars
  BY <1>2 DEF Cleared, CacheCleared, calendarVars
<1>3. ASSUME CalendarNext,
             disconnect'.pc \in {"revoke", "delete"} => row'.status # "none",
             row'.status = "none" /\ disconnect'.pc = "idle" =>
               /\ row.status = "none" /\ disconnect.pc = "idle"
               /\ \A f \in Fetchers : fetch'[f].pc \in AtWork => fetch'[f].late
      PROVE  Cleared'
  <2> SUFFICES ASSUME row'.status = "none", disconnect'.pc = "idle",
                      NEW i \in DOMAIN events', events'[i].found
               PROVE  events'[i].late
    BY <1>3 DEF Cleared, CacheCleared
  <2>1. CASE \E j \in DOMAIN events : events[j].found /\ events[j].late = events'[i].late
    BY <1>3, <2>1 DEF Cleared, CacheCleared
  <2>2. CASE \E f \in Fetchers : fetch[f].pc = "write" /\ events'[i].late = fetch[f].late
    BY <1>3, <2>2 DEF Cleared, AtWork
  <2> QED
    BY <1>3, <2>1, <2>2, EntriesStep
<1>4. ASSUME NEW f \in Fetchers, FetchStep(f)
      PROVE  Cleared'
  <2>1. UNCHANGED disconnect
    BY <1>4 DEF FetchStep, AskForEvents, ReadCredential, RefreshToken, SaveToken, MarkRevoked,
       GetEvents, WriteCache
  <2>2. row'.status = "none" <=> row.status = "none"
    <3>1. CASE SaveToken(f) \/ MarkRevoked(f)
      <4>1. CASE row.status = "none"
        BY <3>1, <4>1 DEF SaveToken, MarkRevoked, Refreshed, Revoked, Where
      <4>2. CASE row.status # "none" /\ SaveToken(f)
        <5>1. row' = [row EXCEPT !.status = "active", !.access = fetch[f].token]
          BY <4>2 DEF SaveToken, Refreshed, Where
        <5>2. row'.status = "active"
          BY <1>1, <5>1 DEF Row
        <5> QED
          BY <4>2, <5>2
      <4>3. CASE row.status # "none" /\ MarkRevoked(f)
        BY <4>3 DEF MarkRevoked, Revoked, Where
      <4> QED
        BY <3>1, <4>1, <4>2, <4>3
    <3>2. CASE UNCHANGED row
      BY <3>2
    <3> QED
      BY <1>4, <3>1, <3>2
         DEF FetchStep, AskForEvents, ReadCredential, RefreshToken, GetEvents, WriteCache
  <2>3. ASSUME row.status = "none", fetch'[f].pc \in AtWork
        PROVE  fetch[f].pc \in AtWork /\ fetch'[f].late = fetch[f].late
    <3>1. ASSUME NEW d \in DaysAhead, AskForEvents(f, d)
          PROVE  FALSE
      BY <1>1, <2>3, <3>1 DEF AskForEvents, Idle, AtWork
    <3>2. CASE ReadCredential(f)
      BY <1>1, <2>3, <3>2 DEF ReadCredential, FetchDone, Idle, AtWork
    <3>3. CASE RefreshToken(f) \/ SaveToken(f) \/ MarkRevoked(f)
      BY <1>1, <2>3, <3>3
         DEF RefreshToken, SaveToken, MarkRevoked, FetchDone, FetchGoto, Idle, AtWork, Fetch
    <3>4. CASE GetEvents(f)
      BY <1>1, <3>4 DEF GetEvents, AtWork, Fetch
    <3>5. CASE WriteCache(f)
      BY <1>1, <2>3, <3>5 DEF WriteCache, FetchDone, Idle, AtWork
    <3> QED
      BY <1>4, <3>1, <3>2, <3>3, <3>4, <3>5 DEF FetchStep
  <2>4. CalendarNext
    BY <1>4 DEF CalendarNext
  <2> QED
    BY <1>3, <1>4, <2>1, <2>2, <2>3, <2>4, OthersWait DEF Cleared
<1>5. CASE InvalidateAccount
  <2>1. \A f \in Fetchers : fetch'[f].pc \in AtWork => fetch'[f].late
    BY <1>1, <1>5 DEF InvalidateAccount, AtWork, Fetch
  <2> QED
    BY <1>5, <2>1 DEF InvalidateAccount, Invalidated, Cleared, CacheCleared
<1>6. ASSUME UserStep \/ OutsideStep, ~InvalidateAccount
      PROVE  Cleared'
  <2>1. UNCHANGED fetch
    BY <1>6
       DEF UserStep, OutsideStep, Disconnect, RevokeToken, DeleteCredential,
           HandleCallback, ExchangeCode, HandBackGrant, StoreCredential,
           AccessTokenExpires, EntryExpires, EvictedByOthers, RevokedAtGoogle
  <2>2. CASE Disconnect \/ RevokeToken \/ DeleteCredential
    <3>1. disconnect'.pc # "idle"
      BY <2>2 DEF Disconnect, RevokeToken, DeleteCredential, CalendarTypeOK
    <3>2. disconnect'.pc \in {"revoke", "delete"} => row'.status # "none"
      BY <2>2 DEF Disconnect, RevokeToken, DeleteCredential, Cleared, CalendarTypeOK
    <3> QED
      BY <3>1, <3>2 DEF Cleared, CacheCleared
  <2>3. CASE UNCHANGED disconnect /\ (row'.status = "none" => row.status = "none")
    BY <1>3, <1>6, <2>1, <2>3 DEF Cleared, CalendarNext
  <2>4. CASE StoreCredential
    <3>1. row'.status = "active"
      BY <2>4 DEF StoreCredential
    <3> QED
      BY <2>3, <2>4, <3>1 DEF StoreCredential
  <2>5. CASE AccessTokenExpires
    <3>1. row'.status = row.status
      BY <1>1, <2>5 DEF AccessTokenExpires, Row
    <3> QED
      BY <2>3, <2>5, <3>1 DEF AccessTokenExpires
  <2>6. CASE UNCHANGED <<row, disconnect>>
    BY <2>3, <2>6
  <2> QED
    BY <1>6, <2>2, <2>4, <2>5, <2>6
       DEF UserStep, OutsideStep, HandleCallback, ExchangeCode, HandBackGrant,
           EntryExpires, EvictedByOthers, RevokedAtGoogle
<1> QED
  BY <1>2, <1>4, <1>5, <1>6 DEF CalendarNext

-------------------------------------------------------------------------------
(* The limit of the cache. *)
Bounded(es) ==
  /\ Len(es) <= MaxEntries
  /\ \A i, j \in DOMAIN es : es[i].days = es[j].days => i = j

LEMMA StoredBounded ==
  ASSUME NEW es \in Seq(Entry), NEW e \in Entry, Bounded(es)
  PROVE  Bounded(Stored(es, e))
<1> DEFINE known == {i \in DOMAIN es : es[i].days = e.days}
<1>1. CASE known # {}
  <2> DEFINE new == [i \in DOMAIN es |-> IF i \in known THEN e ELSE es[i]]
  <2>1. Stored(es, e) = new
    BY <1>1 DEF Stored
  <2>2. Len(new) = Len(es) /\ DOMAIN new = DOMAIN es
    OBVIOUS
  <2>3. \A i \in DOMAIN es : new[i].days = es[i].days
    OBVIOUS
  <2> QED
    BY <2>1, <2>2, <2>3 DEF Bounded
<1>2. CASE known = {}
  <2> DEFINE rest == IF Len(es) >= MaxEntries THEN Tail(es) ELSE es
  <2>1. Stored(es, e) = Append(rest, e)
    BY <1>2 DEF Stored
  <2>2. /\ rest \in Seq(Entry)
        /\ Len(rest) + 1 <= MaxEntries
        /\ \A i, j \in 1..Len(rest) : rest[i].days = rest[j].days => i = j
        /\ \A i \in 1..Len(rest) : rest[i].days # e.days
    <3>1. CASE Len(es) >= MaxEntries
      <4>1. es # <<>>
        BY <3>1, CalendarAssumption
      <4>2. Len(Tail(es)) = Len(es) - 1 /\ Tail(es) \in Seq(Entry)
        BY <4>1, EvictedEntries
      <4>3. \A i \in 1..Len(Tail(es)) : Tail(es)[i] = es[i + 1] /\ i + 1 \in DOMAIN es
        BY <4>1, <4>2, EvictedEntries
      <4> QED
        BY <1>2, <3>1, <4>2, <4>3, CalendarAssumption DEF Bounded
    <3>2. CASE ~(Len(es) >= MaxEntries)
      BY <1>2, <3>2, CalendarAssumption DEF Bounded
    <3> QED
      BY <3>1, <3>2
  <2> HIDE DEF rest
  <2>3. /\ Len(Append(rest, e)) = Len(rest) + 1
        /\ DOMAIN Append(rest, e) = 1..Len(rest) + 1
        /\ Append(rest, e)[Len(rest) + 1] = e
        /\ \A i \in 1..Len(rest) : Append(rest, e)[i] = rest[i]
    BY <2>2
  <2> QED
    BY <2>1, <2>2, <2>3 DEF Bounded
<1> QED
  BY <1>1, <1>2

LEMMA CacheBoundedStep ==
  ASSUME CalendarTypeOK, CacheBounded, [CalendarNext]_calendarVars
  PROVE  CacheBounded'
<1>1. events \in Seq(Entry) /\ fetch \in [Fetchers -> Fetch] /\ Bounded(events)
  BY DEF CalendarTypeOK, CacheBounded, Bounded
<1> SUFFICES Bounded(events')
  BY DEF CacheBounded, Bounded
<1>2. CASE UNCHANGED events
  BY <1>1, <1>2
<1>3. ASSUME NEW k \in DOMAIN events, events' = RemoveAt(events, k)
      PROVE  Bounded(events')
  <2>1. /\ events' \in Seq(Entry) /\ Len(events') = Len(events) - 1 /\ k \in 1..Len(events)
        /\ \A i \in 1..Len(events) - 1 : events'[i] = events[IF i < k THEN i ELSE i + 1]
    BY <1>1, <1>3, RemovedEntries
  <2>2. DOMAIN events' = 1..Len(events) - 1
    BY <2>1
  <2>3. ASSUME NEW i \in 1..Len(events) - 1, NEW j \in 1..Len(events) - 1,
               events'[i].days = events'[j].days
        PROVE  i = j
    <3> DEFINE At(n) == IF n < k THEN n ELSE n + 1
    <3>1. At(i) \in DOMAIN events /\ At(j) \in DOMAIN events
      BY <1>1, <2>1
    <3>2. events[At(i)].days = events[At(j)].days
      BY <2>1, <2>3
    <3>3. At(i) = At(j)
      BY <1>1, <3>1, <3>2 DEF Bounded
    <3> QED
      BY <2>1, <3>3
  <2> QED
    BY <1>1, <2>1, <2>2, <2>3, CalendarAssumption DEF Bounded
<1>4. ASSUME NEW f \in Fetchers, WriteCache(f)
      PROVE  Bounded(events')
  <2>1. [days |-> fetch[f].days, found |-> fetch[f].found,
         fresh |-> TRUE, late |-> fetch[f].late] \in Entry
    BY <1>1 DEF Fetch, Entry
  <2> QED
    BY <1>1, <1>4, <2>1, StoredBounded DEF WriteCache
<1>5. CASE events' = <<>>
  BY <1>5, CalendarAssumption DEF Bounded
<1>6. ASSUME NEW k \in DOMAIN events, EntryExpires(k)
      PROVE  Bounded(events')
  <2>1. events' = [events EXCEPT ![k].fresh = FALSE]
    BY <1>6 DEF EntryExpires
  <2>2. /\ DOMAIN events' = DOMAIN events /\ Len(events') = Len(events)
        /\ \A i \in DOMAIN events : events'[i].days = events[i].days
    BY <1>1, <2>1, ExpiredEntries
  <2> QED
    BY <1>1, <2>2 DEF Bounded
<1>7. CASE EvictedByOthers
  <2>1. /\ events' \in Seq(Entry) /\ Len(events') = Len(events) - 1
        /\ \A i \in 1..Len(events) - 1 : events'[i] = events[i + 1]
    BY <1>1, <1>7, EvictedEntries DEF EvictedByOthers
  <2>2. DOMAIN events' = 1..Len(events) - 1 /\ \A i \in 1..Len(events) - 1 : i + 1 \in DOMAIN events
    BY <1>1, <2>1
  <2>3. ASSUME NEW i \in 1..Len(events) - 1, NEW j \in 1..Len(events) - 1,
               events'[i].days = events'[j].days
        PROVE  i = j
    <3>1. events[i + 1].days = events[j + 1].days
      BY <2>1, <2>3
    <3>2. i + 1 \in DOMAIN events /\ j + 1 \in DOMAIN events
      BY <2>2
    <3>3. i + 1 = j + 1
      BY <1>1, <3>1, <3>2 DEF Bounded
    <3> QED
      BY <3>3
  <2> QED
    BY <1>1, <2>1, <2>2, <2>3, CalendarAssumption DEF Bounded
<1> QED
  BY <1>2, <1>3, <1>4, <1>5, <1>6, <1>7
     DEF CalendarNext, FetchStep, UserStep, OutsideStep, AskForEvents, ReadCredential,
         RefreshToken, SaveToken, MarkRevoked, GetEvents,
         Disconnect, RevokeToken, DeleteCredential, InvalidateAccount, Invalidated,
         HandleCallback, HandBackGrant, ExchangeCode, StoreCredential,
         AccessTokenExpires, RevokedAtGoogle, calendarVars

-------------------------------------------------------------------------------
CalendarInv == CalendarTypeOK /\ Consented /\ GivenUp /\ Cleared /\ CacheBounded

LEMMA CalendarInvariant == CalendarSpec => []CalendarInv
<1>1. CalendarInit => CalendarInv
  <2> SUFFICES ASSUME CalendarInit
               PROVE  CalendarInv
    OBVIOUS
  <2> USE DEF CalendarInit
  <2>1. \A f \in Fetchers : fetch[f].pc = "idle" /\ fetch[f].token = 0
    BY DEF Idle
  <2>2. Consented
    BY <2>1 DEF Consented, CallbackChecked, OnlyConsentConnects, NoCallback, NoCredential
  <2>3. GivenUp
    BY <2>1 DEF GivenUp, RevokedForCause, Condemned, NoCredential
  <2>4. Cleared
    BY <2>1 DEF Cleared, CacheCleared, AtWork
  <2>5. CacheBounded
    BY CalendarAssumption DEF CacheBounded
  <2> QED
    BY <2>2, <2>3, <2>4, <2>5, CalendarInitType DEF CalendarInv
<1>2. CalendarInv /\ [CalendarNext]_calendarVars => CalendarInv'
  BY CalendarTypeStep, ConsentedStep, GivenUpStep, ClearedStep, CacheBoundedStep
     DEF CalendarInv
<1> QED
  BY <1>1, <1>2, PTL DEF CalendarSpec

(* Every token the service keeps in the row or holds in a fetch is of a      *)
(* grant that covers the calendar and came through a checked callback.       *)
THEOREM TokensConsented == CalendarSpec => []OnlyConsentConnects
<1>1. CalendarInv => OnlyConsentConnects
  BY DEF CalendarInv, Consented
<1> QED
  BY <1>1, CalendarInvariant, PTL

(* A connection is marked revoked, or is active without a refresh token,     *)
(* only after Google has refused a grant.                                    *)
THEOREM NoOutageRevokes == CalendarSpec => []RevokedForCause
<1>1. CalendarInv => RevokedForCause
  BY DEF CalendarInv, GivenUp
<1> QED
  BY <1>1, CalendarInvariant, PTL

(* After a disconnect the cache holds events only of fetches that were in    *)
(* flight when it was cleared.                                               *)
THEOREM CacheIsCleared == CalendarSpec => []CacheCleared
<1>1. CalendarInv => CacheCleared
  BY DEF CalendarInv, Cleared
<1> QED
  BY <1>1, CalendarInvariant, PTL

(* The cache never exceeds its limit nor holds two entries for one key.      *)
THEOREM CacheIsBounded == CalendarSpec => []CacheBounded
<1>1. CalendarInv => CacheBounded
  BY DEF CalendarInv
<1> QED
  BY <1>1, CalendarInvariant, PTL

(* A late refresh never brings a deleted credential back.                    *)
THEOREM OnlyCallbackConnects == CalendarSpec => DisconnectSticks
<1>1. CalendarTypeOK /\ [CalendarNext]_calendarVars =>
        [row.status = "none" /\ row'.status # "none" => callback.pc = "store"]_calendarVars
  <2> SUFFICES ASSUME CalendarTypeOK, CalendarNext, row.status = "none", row'.status # "none"
               PROVE  callback.pc = "store"
    OBVIOUS
  <2>1. row \in Row
    BY DEF CalendarTypeOK
  <2> QED
    BY <2>1, RowStep
       DEF NoCredential, SaveToken, MarkRevoked, Refreshed, Revoked, Where, StoreCredential,
           AccessTokenExpires, Row
<1> QED
  BY <1>1, CalendarTypeCorrect, PTL DEF CalendarSpec, DisconnectSticks
==============================================================================
