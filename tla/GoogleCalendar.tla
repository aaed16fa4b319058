---------------------------- MODULE GoogleCalendar ----------------------------
(***************************************************************************)
(* An account's Google Calendar connection in the ai-assistant service: the *)
(* OAuth callback that stores a credential, the token service that refreshes *)
(* and revokes it, and the event cache in front of Google.  Fetches, a       *)
(* disconnect and a callback interleave at every await; the cache belongs to *)
(* the one process and is read and written without one.                      *)
(***************************************************************************)
EXTENDS Naturals, SequencesExt

CONSTANTS
  Fetchers,    (* Requests for events in progress at once: chat tools and   *)
               (* the home screen.                                          *)
  DaysAhead,   (* The clamped daysAhead of the requests.                    *)
  MaxGrants,   (* Consents the user gives: bounds the model.                *)
  MaxEntries   (* CALENDAR_CACHE_MAX_ENTRIES.                               *)

ASSUME CalendarAssumption ==
  DaysAhead # {} /\ MaxGrants \in Nat /\ MaxEntries \in Nat \ {0}

(* A grant is known by its refresh token; 0 is a column that is null. *)
Grants == 1..MaxGrants
Token == 0..MaxGrants

VARIABLES
  row,        (* google_calendar_credential of the account.  `access` names  *)
              (* the grant of the access token and is 0 as soon as that is   *)
              (* within ACCESS_TOKEN_SKEW_MS of its expiry.                  *)
  live,       (* Grants that Google honours.                                 *)
  issued,     (* What each grant was given for; "none": not yet issued.      *)
  events,     (* GoogleCalendarService.cache, in the Map's order.  `late`    *)
              (* marks what a fetch wrote that was in flight when the cache  *)
              (* was last invalidated.                                       *)
  fetch,      (* Progress of fetchMappedEvents, by fetcher.                  *)
  disconnect, (* Progress of CalendarController.disconnect.                  *)
  callback    (* Progress of GoogleOAuthService.resolveCallback.             *)

calendarVars == <<row, live, issued, events, fetch, disconnect, callback>>

Row == [status : {"none", "active", "revoked"},
        refresh : Token, access : Token]
NoCredential == [status |-> "none", refresh |-> 0, access |-> 0]
Entry == [days : DaysAhead, found : BOOLEAN, fresh : BOOLEAN, late : BOOLEAN]
Fetch == [pc : {"idle", "credential", "refresh", "save", "revoked", "get", "write"},
          days : DaysAhead, token : Token, found : BOOLEAN, late : BOOLEAN]
(* The query of the redirect from Google: scope tells what was granted, if   *)
(* it is there.                                                              *)
Query == [error : BOOLEAN, state : {"valid", "expired", "forged"},
          code : BOOLEAN, scope : {"calendar", "other", "absent"}]
NoQuery == [error |-> FALSE, state |-> "valid", code |-> FALSE, scope |-> "absent"]
NoCallback == [pc |-> "idle", token |-> 0, query |-> NoQuery]
Idle == [pc |-> "idle", days |-> CHOOSE d \in DaysAhead : TRUE,
         token |-> 0, found |-> FALSE, late |-> FALSE]

CalendarTypeOK ==
  /\ row \in Row
  /\ live \subseteq Grants
  /\ issued \in [Grants -> {"none", "calendar", "other"}]
  /\ events \in Seq(Entry)
  /\ fetch \in [Fetchers -> Fetch]
  /\ disconnect \in [pc : {"idle", "revoke", "delete", "invalidate"}, token : Token]
  /\ callback \in [pc : {"idle", "exchange", "handback", "store"},
                   token : Token, query : Query]

CalendarInit ==
  /\ row = NoCredential
  /\ live = {}
  /\ issued = [g \in Grants |-> "none"]
  /\ events = <<>>
  /\ fetch = [f \in Fetchers |-> Idle]
  /\ disconnect = [pc |-> "idle", token |-> 0]
  /\ callback = NoCallback

-------------------------------------------------------------------------------
(* Updates of the credential row: a WHERE that finds no row changes nothing. *)
Where(r) == IF row.status = "none" THEN row ELSE r

(* Mistaken forms of the next definitions: a refresh that inserts the row it *)
(* no longer finds; a cache that holds one entry too many; an invalidation   *)
(* of the default number of days only; any failed refresh taken for a        *)
(* revoked grant; a revoked row whose status is outside the column's enum; a *)
(* callback whose state nobody looks at.                                     *)
RefreshedOrInserted(token) ==
  [row EXCEPT !.status = "active", !.access = token]
StoredOverLimit(es, e) ==
  LET known == {i \in DOMAIN es : es[i].days = e.days}
  IN IF known # {} THEN [i \in DOMAIN es |-> IF i \in known THEN e ELSE es[i]]
     ELSE Append(IF Len(es) > MaxEntries THEN Tail(es) ELSE es, e)
WithoutDefault(es) == SelectSeq(es, LAMBDA e : e.days # Idle.days)
RevokedAsExpired == Where([status |-> "expired", refresh |-> 0, access |-> 0])
RefreshOutcomesAnyError(token) == IF token \in live THEN {"save", "revoked"} ELSE {"revoked"}
MayExchangeAnyState(q) == ~q.error /\ q.code /\ q.scope # "other"

Refreshed(token) ==
  Where([row EXCEPT !.status = "active", !.access = token])

Revoked == Where([status |-> "revoked", refresh |-> 0, access |-> 0])

(* writeCache: the Map keeps a known key in its place; a new key takes the   *)
(* place of the oldest one if the cache is full.                             *)
Stored(es, e) ==
  LET known == {i \in DOMAIN es : es[i].days = e.days}
  IN IF known # {} THEN [i \in DOMAIN es |-> IF i \in known THEN e ELSE es[i]]
     ELSE Append(IF Len(es) >= MaxEntries THEN Tail(es) ELSE es, e)

(* invalidateAccount: every entry here is the account's. *)
Invalidated(es) == <<>>

-------------------------------------------------------------------------------
FetchGoto(f, pc) == fetch' = [fetch EXCEPT ![f].pc = pc]
FetchDone(f) == fetch' = [fetch EXCEPT ![f] = Idle]

(* readCache: a hit is answered at once; an expired entry is dropped. *)
AskForEvents(f, days) ==
  /\ fetch[f].pc = "idle"
  /\ \/ /\ \A i \in DOMAIN events : events[i].days # days
        /\ UNCHANGED events
     \/ \E i \in DOMAIN events :
          /\ events[i].days = days /\ ~events[i].fresh
          /\ events' = RemoveAt(events, i)
  /\ fetch' = [fetch EXCEPT ![f] = [Idle EXCEPT !.pc = "credential", !.days = days]]
  /\ UNCHANGED <<row, live, issued, disconnect, callback>>

(* getAccessToken: no active credential, a usable access token, or a refresh *)
(* with what was just read.                                                  *)
ReadCredential(f) ==
  /\ fetch[f].pc = "credential"
  /\ IF row.status # "active" THEN FetchDone(f)
     ELSE LET usable == row.access # 0
          IN fetch' = [fetch EXCEPT ![f].pc = IF usable THEN "get" ELSE "refresh",
                                    ![f].token = IF usable THEN row.access ELSE row.refresh]
  /\ UNCHANGED <<row, live, issued, events, disconnect, callback>>

(* What comes of a refresh: "idle" is an error that only last_error records. *)
RefreshOutcomes(token) ==
  IF token = 0 THEN {"revoked"}
  ELSE IF token \in live THEN {"save", "idle"}
  ELSE {"revoked", "idle"}

RefreshToken(f) ==
  /\ fetch[f].pc = "refresh"
  /\ \E next \in RefreshOutcomes(fetch[f].token) :
       IF next = "idle" THEN FetchDone(f) ELSE FetchGoto(f, next)
  /\ UNCHANGED <<row, live, issued, events, disconnect, callback>>

SaveToken(f) ==
  /\ fetch[f].pc = "save"
  /\ row' = Refreshed(fetch[f].token)
  /\ FetchGoto(f, "get")
  /\ UNCHANGED <<live, issued, events, disconnect, callback>>

MarkRevoked(f) ==
  /\ fetch[f].pc = "revoked"
  /\ row' = Revoked
  /\ FetchDone(f)
  /\ UNCHANGED <<live, issued, events, disconnect, callback>>

(* Google answers with events if it honours the token; an error or a         *)
(* time-out is cached as "no events" (found = FALSE).                        *)
GetEvents(f) ==
  /\ fetch[f].pc = "get"
  /\ \E found \in {FALSE, fetch[f].token \in live} :
       fetch' = [fetch EXCEPT ![f].pc = "write", ![f].token = 0, ![f].found = found]
  /\ UNCHANGED <<row, live, issued, events, disconnect, callback>>

WriteCache(f) ==
  /\ fetch[f].pc = "write"
  /\ events' = Stored(events, [days |-> fetch[f].days, found |-> fetch[f].found,
                               fresh |-> TRUE, late |-> fetch[f].late])
  /\ FetchDone(f)
  /\ UNCHANGED <<row, live, issued, disconnect, callback>>

-------------------------------------------------------------------------------
(* GoogleTokenService.disconnect: a row without a refresh token has nothing  *)
(* to revoke, no row nothing to delete.                                      *)
Disconnect ==
  /\ disconnect.pc = "idle"
  /\ disconnect' = [pc |-> IF row.status = "none" THEN "invalidate"
                           ELSE IF row.refresh = 0 THEN "delete" ELSE "revoke",
                    token |-> row.refresh]
  /\ UNCHANGED <<row, live, issued, events, fetch, callback>>

(* revokeToken is best effort. *)
RevokeToken ==
  /\ disconnect.pc = "revoke"
  /\ live' \in {live, live \ {disconnect.token}}
  /\ disconnect' = [pc |-> "delete", token |-> 0]
  /\ UNCHANGED <<row, issued, events, fetch, callback>>

DeleteCredential ==
  /\ disconnect.pc = "delete"
  /\ row' = NoCredential
  /\ disconnect' = [disconnect EXCEPT !.pc = "invalidate"]
  /\ UNCHANGED <<live, issued, events, fetch, callback>>

InvalidateAccount ==
  /\ disconnect.pc = "invalidate"
  /\ events' = Invalidated(events)
  /\ disconnect' = [pc |-> "idle", token |-> 0]
  /\ fetch' = [f \in Fetchers |->
                 IF fetch[f].pc = "idle" THEN fetch[f]
                 ELSE [fetch[f] EXCEPT !.late = TRUE]]
  /\ UNCHANGED <<row, live, issued, callback>>

-------------------------------------------------------------------------------
(* A query that fails a check ends in a redirect and changes nothing; a      *)
(* missing scope lets the exchange decide.                                   *)
MayExchange(q) == ~q.error /\ q.state = "valid" /\ q.code /\ q.scope # "other"

HandleCallback ==
  /\ callback.pc = "idle"
  /\ \E q \in Query :
       /\ MayExchange(q)
       /\ callback' = [callback EXCEPT !.pc = "exchange", !.query = q]
  /\ UNCHANGED <<row, live, issued, events, fetch, disconnect>>

(* What becomes of a grant, by its scope; "idle": it came without a refresh  *)
(* token and is not kept.                                                    *)
AfterExchange(granted) ==
  IF granted = "calendar" THEN {"store", "idle"} ELSE {"handback"}

Covers(q, granted) == granted = "calendar" /\ q.state = "valid" /\ ~q.error

(* The exchange fails, or Google issues a grant. *)
ExchangeCode ==
  /\ callback.pc = "exchange"
  /\ \/ /\ callback' = NoCallback
        /\ UNCHANGED <<live, issued>>
     \/ \E g \in Grants, granted \in {"calendar", "other"} :
          /\ callback.query.scope \in {granted, "absent"}
          /\ issued[g] = "none"
          /\ \A h \in Grants : h < g => issued[h] # "none"
          /\ issued' = [issued EXCEPT ![g] =
                          IF Covers(callback.query, granted) THEN "calendar" ELSE "other"]
          /\ live' = live \cup {g}
          /\ \E next \in AfterExchange(granted) :
               callback' = IF next = "idle" THEN NoCallback
                           ELSE [NoCallback EXCEPT !.pc = next, !.token = g]
  /\ UNCHANGED <<row, events, fetch, disconnect>>

HandBackGrant ==
  /\ callback.pc = "handback"
  /\ live' \in {live, live \ {callback.token}}
  /\ callback' = NoCallback
  /\ UNCHANGED <<row, issued, events, fetch, disconnect>>

(* storeCredential writes every column, over a row that may exist.  The      *)
(* response may lack an access token.                                        *)
StoreCredential ==
  /\ callback.pc = "store"
  /\ \E access \in {0, callback.token} :
       row' = [status |-> "active", refresh |-> callback.token, access |-> access]
  /\ callback' = NoCallback
  /\ UNCHANGED <<live, issued, events, fetch, disconnect>>

-------------------------------------------------------------------------------
(* Time, other accounts and the user at Google. *)
AccessTokenExpires ==
  /\ row.access # 0
  /\ row' = [row EXCEPT !.access = 0]
  /\ UNCHANGED <<live, issued, events, fetch, disconnect, callback>>

EntryExpires(i) ==
  /\ events[i].fresh
  /\ events' = [events EXCEPT ![i].fresh = FALSE]
  /\ UNCHANGED <<row, live, issued, fetch, disconnect, callback>>

EvictedByOthers ==
  /\ events # <<>>
  /\ events' = Tail(events)
  /\ UNCHANGED <<row, live, issued, fetch, disconnect, callback>>

RevokedAtGoogle(g) ==
  /\ g \in live
  /\ live' = live \ {g}
  /\ UNCHANGED <<row, issued, events, fetch, disconnect, callback>>

FetchStep(f) ==
  \/ \E d \in DaysAhead : AskForEvents(f, d)
  \/ ReadCredential(f) \/ RefreshToken(f) \/ SaveToken(f) \/ MarkRevoked(f)
  \/ GetEvents(f) \/ WriteCache(f)

UserStep ==
  \/ Disconnect \/ RevokeToken \/ DeleteCredential \/ InvalidateAccount
  \/ HandleCallback \/ ExchangeCode \/ HandBackGrant \/ StoreCredential

OutsideStep ==
  \/ AccessTokenExpires
  \/ \E i \in DOMAIN events : EntryExpires(i)
  \/ EvictedByOthers
  \/ \E g \in live : RevokedAtGoogle(g)

CalendarNext == (\E f \in Fetchers : FetchStep(f)) \/ UserStep \/ OutsideStep

CalendarSpec == CalendarInit /\ [][CalendarNext]_calendarVars

-------------------------------------------------------------------------------
(* Once the account is disconnected, the cache keeps no events of it except  *)
(* those that a fetch brought home that was already in flight.               *)
CacheCleared ==
  row.status = "none" /\ disconnect.pc = "idle" =>
    \A i \in DOMAIN events : events[i].found => events[i].late

(* invalidateAccount's promise as its comment puts it, for fetches in flight *)
(* too: a disconnected account is not served events out of the cache.        *)
NothingServed ==
  row.status = "none" /\ disconnect.pc = "idle" =>
    \A i \in DOMAIN events : ~(events[i].found /\ events[i].fresh)

(* A grant is given up for dead only when Google has refused one: an outage  *)
(* or a time-out never disconnects a calendar, and a row without a refresh   *)
(* token says "active" only in the wake of such a refusal.                   *)
SomeGrantDead == \E g \in Grants : issued[g] # "none" /\ g \notin live
RevokedForCause ==
  /\ row.status = "revoked" => SomeGrantDead /\ row.refresh = 0 /\ row.access = 0
  /\ row.status = "active" /\ row.refresh = 0 => SomeGrantDead

(* A refresh that ends after the disconnect does not bring the credential    *)
(* back: only the user's consent makes a row.                                *)
DisconnectSticks ==
  [][row.status = "none" /\ row'.status # "none" => callback.pc = "store"]_calendarVars

(* The service keeps and uses only grants that cover the calendar.           *)
OnlyConsentConnects ==
  \A g \in {row.refresh, row.access} \cup {fetch[f].token : f \in Fetchers} :
    g # 0 => issued[g] = "calendar"

(* The cache stays within its limit and holds one entry per key.             *)
CacheBounded ==
  /\ Len(events) <= MaxEntries
  /\ \A i, j \in DOMAIN events : events[i].days = events[j].days => i = j

===============================================================================
