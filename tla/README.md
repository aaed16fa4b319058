# Wardrobka backend: verification project

TLA+ models of the Wardrobka backend, model-checked with TLC and proved with
TLAPS. Every definition is translated from the TypeScript sources; `PROJECT.json`
("map") names the lines each one stands for. Paths below are relative to `src/`.

## 1. The system

Six NestJS processes. Clients talk HTTP to the API gateway, which turns every
request into a RabbitMQ message; the services answer RPCs on durable queues,
emit events to each other, and share one PostgreSQL database and one S3 bucket.

| Component | State it keeps | Operations | Modelled by |
|---|---|---|---|
| Wardrobe items (`apps/wardrobe/src/wardrobe`) | `wardrobe_item` rows; image columns `img_path`, `image_status`, `temp_image_key`, `image_pending_since` | create, update, retry image generation, delete, `applyGeneratedImage`; reads | `WardrobeImages` |
| Stale-image sweep (`apps/wardrobe/src/jobs`) | a timer | fail items pending for more than ten minutes | `WardrobeImages` (`Sweep`) |
| Product-image consumer (`apps/ai-assistant/.../product-image.controller.ts`, `product-image-generator.service.ts`) | messages in flight | check the item, load the original, run the model, store the result, send it, clean up, ack | `ImagePipeline` |
| Media storage (`apps/media-storage`) | the bucket and its lifecycle rule | upload, delete, exists, signed URLs | `MediaStorage` |
| Acknowledgement (`libs/common/src/rmq`, `exception-filter`) | unacked messages | ack on return or `HttpException` | in the above |
| Webhook queue (`webhook-queue.service.ts`, `webhook-dispatcher.job.ts`, `webhook-http.service.ts`) | `assistant_webhook_job` | schedule, take, deliver, retry, give up | `WebhookQueue` |
| Conversations (`conversation.service.ts`) | `assistant_session`, `assistant_message`, `assistant_outfit_suggestion` | chat, outfit request, delete a session, delete a suggestion | `Conversation` |
| Gemini tool loop (`gemini-client.service.ts`, handlers in `context-builder.service.ts`, `wardrobe-tools.ts`) | rounds, budget and cached results of one exchange | ask the model, run the calls it makes, accept an outfit | `Exchange`, `ToolLoop` |
| Google calendar (`apps/ai-assistant/src/calendar`) | `google_calendar_credential`, the event cache | OAuth callback, refresh, revocation, disconnect, fetch | `GoogleCalendar` |
| Outfit log (`apps/wardrobe/src/outfit-log`) | `outfit_log`, `outfit_log_item` | create, update, delete; removal of an item's join rows | `OutfitLog` |
| Accounts (`apps/auth`, `upsertWebhookKey`) | `user_account` | sign up, sign in, profile, push token, webhook key | `EmailAddress`, `UserAccounts` |
| E-mail migration (`libs/common/.../migrations`) | the `email` column and its backup | `up`, `down` | `EmailMigration` |
| Image analysis (`image-analyzer.service.ts`), the gateway's wait for it, both exception filters, error log | a message, its replies, reports | analyse, refuse, time out, report | `ImageAnalysis` |
| Weather, prompt context, HTTP client, encryption | a forecast cache | calls to external services | not modelled (section 8) |

How they interact in the image pipeline, the system's core:

```
client -> gateway -> wardrobe  --generateProductImage (event)-->  ai-assistant
                      |   ^                                         |   |
                      |   +------- findOne, applyGeneratedImage ----+   |
                      v                                                 v
                    media-storage (bucket: tmp/ originals, user images)
```

A create or update with `generate_image` stores the photo under `tmp/`, saves the
row as `pending` and emits a job. The consumer reads the item back, generates an
image, stores it and sends the outcome as an RPC. The wardrobe service applies it
with one guarded UPDATE and answers `applied`, `not_pending` or `not_found`; the
answer decides which files the consumer deletes. A sweep fails what was pending
too long, and the bucket removes `tmp/` objects after seven days.

A chat or outfit request comes as an RPC too. Its handler saves the question, lets the
model answer (the tool loop reads items, logs, the forecast and the calendar over
further RPCs), saves the answer and perhaps an outfit suggestion, schedules a webhook
job and only then acks. The dispatcher delivers the job to the account's endpoint.

### What is hard

* Handlers work on a copy of a row read several awaits earlier, and save it whole.
* Every message is delivered at least once; a handler may run twice, also at once.
* Either service may die between a database write and its ack.
* The outcome RPC may time out and be carried out later.
* File deletions by name cannot be undone, and happen before or after the row
  that refers to the file changes.
* A publish is fire-and-forget: an item may be pending with no job.
* The webhook dispatcher marks a job before it sends it, and has no recovery.
* A chat handler writes four tables, one await after the other, without a transaction;
  the session it writes to may be deleted meanwhile, and a redelivery starts over.
* A calendar fetch may outlive the connection it began under, and the cache is cleared
  and filled without a lock.
* Join rows of the outfit log have no foreign key; an item and a log naming it are
  written and removed by different requests.
* Whole rows of `user_account` are saved by two services that share no lock.
* The migration rewrites unique addresses row by row, each statement under the
  constraint it is about to replace.
* The gateway stops waiting for an analysis the service is still at, or will repeat.

`PROJECT.json` ("hazards") lists each at its line with the properties aimed at it.

### What makes each component correct

* Items and images: the image columns agree; the shown image and the retained
  original exist; nothing is orphaned; a ready item is changed by clients only;
  no item is pending for ever.
* Consumer: only a winner's files survive, a loser touches nothing shared, every
  message is acked.
* Bucket: shown images are never under the expiring prefix; no two items share an
  object.
* Webhook queue: at most one delivery per counted attempt, no outcome without its
  reason, first tries in order, every job ends unless a fault interferes.
* Conversations: no row without its session, no history of somebody else, every
  answered request announced by exactly one job, only the owner deletes.
* Tool loop: budgets hold whatever the model asks for, every call is answered, a
  proposed outfit names the account's own items, the exchange ends.
* Calendar: a disconnect sticks, only consented grants are used, only a refused grant
  is given up, the cache is bounded and cleared.
* Outfit log: entries name items that exist and are the account's.
* Accounts: one account per address however it is typed, before and after the
  migration; concurrent requests undo nothing they have not read.
* Image analysis: the client's answer is the model's or an honest refusal; a photo is
  paid for again only after an error or an interruption.

## 2. Modules

| Module | What it is |
|---|---|
| `MediaStorage` | the bucket: `prefix`, `stored`, `expired`; `Upload`, `DeleteObject`, `Exists`, `ExpireObject` |
| `WardrobeImages` | the wardrobe service: rows, requests, RPC slots, job slots; one action per await of each handler |
| `ImagePipeline` | composes the two with the consumer, the broker and the faults; `Spec` |
| `ItemLifecycle` | abstract specification: what a client is promised about its items' images, and which request each change needs |
| `ImageProperties` | properties, refinement mapping, fairness |
| `MCImages` + 7 cfgs | TLC instances |
| `ImageProofs` | proofs: types, answers, what holds in every interleaving |
| `ImageStorageProofs` | proofs: where objects lie and whose they are |
| `ImageLifecycleProofs` | proofs: what a client who waits for answers can rely on; the refinement |
| `WebhookQueue`, `MCWebhook` + cfg, `WebhookProofs` | the webhook queue, its instance, its proofs |
| `Exchange` | abstract specification: what an exchange with the model promises the conversation |
| `ToolLoop`, `ToolLoopProofs` | the exchange in detail; implements `Exchange`; proofs |
| `Conversation`, `MCConversation` + cfg, `ConversationProofs` | requests on sessions; extends `WebhookQueue` with the jobs it schedules, takes the model's result from `Exchange` |
| `GoogleCalendar`, `MCCalendar` + 2 cfgs, `CalendarProofs` | credential, grants and cache of one account |
| `OutfitLog` | logs and join rows |
| `EmailAddress` | an address as its normalised parts and the form it is typed in |
| `UserAccounts` | rows of `user_account` under racing requests |
| `EmailMigration` | the migration as an algorithm on rows |
| `ImageAnalysis` | one request from gateway to error log |
| `ServiceProofs` | proofs of `OutfitLog`, `UserAccounts`, `EmailMigration`, `ImageAnalysis`, and of `MCServices` |
| `MCServices` + cfg | instance of `ToolLoop`, `Conversation`, `OutfitLog`, `UserAccounts`, `EmailMigration`, `ImageAnalysis`, one at a time |

### How the model corresponds to the code

*Rows.* `row[i]` holds the four image columns; `status = "absent"` is no row. Time is
abstracted to what the sweep tests: `since` is `none`, `fresh` or `stale`.

*Handlers.* A request is a record with a program counter, the loaded entity (`entity`)
and its previous original (`old`). Each action is the code between two awaits, so
interleaving happens exactly where the event loop may switch:

| Code | Actions |
|---|---|
| `create` | `Submit`, `StorePhoto`, `Save`, `Reply` |
| `update` / `replaceStoredImage` | `UpdateFind`, `DeleteImage`, `StorePhoto`, `DeleteOriginal`, `Save`, `Reply` |
| `retryImageGeneration` / `hasTempOriginal` | `RetryFind`, `CheckOriginal`, `Save`, `Reply` |
| `delete` | `DeleteFind`, `DeleteImage`, `DeleteOriginal`, `DeleteRow` |
| `findOneByOrFail` of a missing row | `FindMissing` (the filter does not ack it) |
| `emitGenerationRequest` | `Emit`, part of `Save` |
| `applyGeneratedImage` | `ApplyUpdate` (the UPDATE), `ApplyLookup`, `ApplyFinish` |
| `failStalePendingImages` | `Sweep`; `BecomeStale` is the passing of ten minutes |
| `generateProductImage` | `CheckPending`, `SkipUnreadable`, `LoadOriginal`, `GenerationFails`, `StoreGenerated`, `GenerationSucceeds`, `OutcomeTimeout`, `DiscardImage`, `DeleteTempOriginal` |

*Messages.* `call` holds the `applyGeneratedImage` RPCs, `job` the generation jobs from
emit to ack. An error that is no `HttpException` leaves a message `unacked`; it runs
again when the service restarts (`WardrobeCrash`).

*Faults.* `storage` (one storage call fails), `publish` (an emit is lost), `timeout` (an
RPC outlasts `WARDROBE_RPC_TIMEOUT_MS`, at any job), `redeliver` (a job comes again while
its first handler works), `consumerCrash`, `wardrobeCrash`, `expiry` (the seven-day rule).

*Webhook queue.* `table` is `assistant_webhook_job`, time abstracted to whether
`scheduled_at` has passed (`due`). The dispatcher's `running` flag is `pc # "idle"`.
`current` is its in-memory copy of the row. A failing endpoint (`SendPayload`, with or
without having got the payload) is normal and unbounded; crashes and database errors are faults.

*Conversation.* Again one action per await:

| Code | Actions |
|---|---|
| `handleChat`, `handleOutfitSuggestion` | `RefuseEmptyChat`, `ResolveSession`, `LoadHistory`, `SaveQuestion`, `Generate`, `SaveAnswer`, `SaveSuggestion`, `Announce`, `AckAnswer` |
| `deleteSession` | `FindSession`, `DropSession` (one transaction), `AckAnswer` |
| `deleteOutfitSuggestion` | `FindSuggestion`, `DropSuggestion`, `AckAnswer` |
| any other error, and the filter that does not ack it | `Stumble` |
| restart and redelivery | `CrashAssistant` |

A row is known by the request and delivery that wrote it. `messages` is a set; `rank` is a
message's place in its session by `created_at`, so that `loadChatHistory`'s "newest
`HistoryLimit`" is a comparison of ranks with the number of saved messages. `Generate` takes any result
`Exchange` allows; `ToolLoop`, checked against `Exchange`, is what produces it. A save whose
session is gone is refused by the foreign key, so `SaveMessage` has the session as a guard
and `Stumble` the error.

*Tool loop.* `Send` is one turn of the round loop, `HandleCall` one pass of `executeToolCall`
(ignored, refused, repeated from the cache, or run), `EndRound` the end of a round,
`FinalAnswer` the request without tools. A call stands for its canonical JSON key.

*Calendar.* `AskForEvents` … `WriteCache` are `fetchMappedEvents` and `getAccessToken`;
`Disconnect`, `RevokeToken`, `DeleteCredential`, `InvalidateAccount` the disconnect route;
`HandleCallback`, `ExchangeCode`, `HandBackGrant`, `StoreCredential` the callback. A grant is
known by its refresh token; an access token within the skew of its expiry is no token.

*Outfit log.* `SaveLog`, `FindLog`, `ClearEntries`, `CheckOwned`, `InsertEntries`, `SaveUpdate`,
`FindDoomedLog`, `DropLog` are the awaits of the three handlers, `RemoveJoinRows` and
`RemoveItemRow` those of the removal of an item.

*Accounts.* `CheckEmail` and `CreateUser` are a sign-up, `ReadAccount` and `SaveAccount` the
requests that save a whole row, `UpsertPushToken` the one that updates a column. A write's
value is the number of the request that made it.

*Migration.* One action per row written: `todo` holds the rows the statement at work has
still to write and `NextOf` picks the next, in a group the losers by id and then the winner. `Free` is the exact UNIQUE constraint, `Remaining`
the guard's query.

*Image analysis.* The answer of the model is chosen field by field; `ToAttributes` is the
parsing. `Filtered` and `Answered` are the two exception filters with their reports.

## 3. Runs

| Run | Instance | What it shows |
|---|---|---|
| `pipeline` | 1 item, 4 keys, 3 requests one at a time, 2 job slots, 2 RPC slots, one fault of six kinds plus any time-outs; updates stay clear of running jobs | originals and images are kept and accounted for; refinement of `ItemLifecycle` |
| `concurrent` | 2 items, 3 keys, 3 requests two at a time, 1 job, 2 RPC slots, updates during jobs, one of wardrobe crash, storage error, lost publish | what holds in every interleaving |
| `liveness` | 1 item, 3 keys, 2 requests, 2 jobs, 4 RPC slots, publish, time-out and consumer crash | `PendingResolves`, `JobsDrain` |
| `webhook` | 3 jobs, 3 attempts, 2 faults | all properties of the queue |
| `conversation` | 2 accounts with an item each (swapped by symmetry), 2 requests of any kind, at most 2 of them opening a session, history of 1 message, 1 error or restart | `NoOrphans`, `HistoryIsPast`, `AnswersAnnounced`, `ProposedMeansOwn`, `OnlyOwnerDeletes` |
| `calendar` | 2 fetches (symmetric), 2 day counts, 2 grants, a cache of 1 entry, one disconnect and one callback at a time | the six calendar properties |
| `services` | six services that share no state, one at a time (below) | the rest |
| `edit`, `newphoto`, `restart`, `doubleretry`, `revoked` | small instances | five disagreements of doc and code (section 4) |

### Properties

Always (run `concurrent`):

* `RowsConsistent`: status, time stamp, retained original and image agree.
* `PrefixesKept`: shown images never lie under `tmp/`, retained originals always do.
* `NoSharedObject`: no two items refer to one object.
* `ReadyLeftAlone`: no job, late RPC or sweep changes a ready item.

While updates stay clear of jobs and the wardrobe service stays up (run `pipeline`):

* `OriginalRetained`: a pending or failed item has its original, or the rule took it.
* `ImageStored`: the image an item shows is in the bucket.
* `OriginalsAccounted`: without a fault nothing under `tmp/` is ownerless.
* `ImagesAccounted`: a stored image loses its last owner only in three named cases: a
  fault, a result nobody waits for any more, a delete that overtook a job.
* `LifecycleSpec`: the refinement of `ItemLifecycle`, whose variables are each item's state
  and image and the requests still open. Rows map to the first two (`ItemStates`,
  `ItemImages`), requests in progress to the third (`Asks`). Apart from the outcome of a
  generation of a pending item (`Succeed`, `Fail`), an item changes only by an open request of
  the right kind for that very item, which the change uses up: a failed item becomes pending
  by a retry or a new photo, a ready one changes by a new photo or a removal, a removed one
  never comes back. So a late result that makes a failed item ready, or swaps the image of a
  ready one, has no abstract step to map to. One step of the code keeps less than
  this and is an action of its own, `Edit`: an edit without a photo that read the item as
  pending saves it as pending although the sweep has failed it since.

The two premises are not decoration: runs `edit` and `newphoto` drop the first, run
`restart` the second, and each shows the property that then fails. A fifth property,
`NoSecondJob` (a retry never queues a second generation of a pending item), needs retries
to come one at a time; run `doubleretry` shows what two overlapping ones do.

Liveness: `PendingResolves` (an item does not stay pending), `JobsDrain` (a job is acked
even if the wardrobe service never answers). Webhooks: `DeliveriesCounted`,
`OutcomesEarned`, `NoneStranded`, `FirstComeFirstTried`, `JobsSettle`.

Conversations (run `conversation`; two requests overlap at every await, a request may be
delivered twice, its session may go at any moment):

* `NoOrphans`: every message and suggestion has its session, every suggestion its answer.
* `HistoryIsPast`: the model sees messages of one session of the account that asks, and not
  the question it is about to be asked.
* `AnswersAnnounced`: an acked request has a job, no answer has two, and a job's answer is
  stored unless its session was deleted.
* `ProposedMeansOwn`: a suggestion marked as the model's names the account's own items.
* `OnlyOwnerDeletes` (action property): nothing is deleted but by a request of its owner.
* `AnswersDelivered` (liveness, run `services`): a request ends, and its job too.

Calendar (run `calendar`): `CacheCleared` (after a disconnect only a fetch that was in
flight has left events), `RevokedForCause` (only a grant Google refused is given up, never
for an outage), `OnlyConsentConnects` (every token kept or used belongs to a grant that
covers the calendar), `CacheBounded`, `DisconnectSticks` (a refresh that ends late does not
bring the credential back).

Run `services`: `BudgetsKept` and `CallsAnswered` (tool loop), `ExchangeKept` (the refinement
of `Exchange`, its liveness included), `NoDanglingEntries` (outfit log), `LoginFindsOne` and
`ColumnsKept` (accounts), `MigrationSound`, `AnswerHonest` and `CostsHaveCause` (image analysis).

Each property of a passing run has a mutant in `PROJECT.json`: a plausible mistake in
the code (a dropped guard, a forgotten column, a wrong cleanup) under which TLC finds the
property violated. The mistaken forms stand beside the definitions they replace;
`Next` uses none of them.

### Bounds

Keys, items, requests, job and RPC slots are finite sets. Two job slots are what two
simultaneous deliveries need; two requests at a time are what a race of handlers needs;
three requests let an item be created, fail and be retried or replaced; two items are what
sharing needs. An action that finds no free slot waits, so the bounds only cut behaviours
short. In `liveness` the number of RPC slots (4) is what two jobs can send with one consumer crash, so that no job waits for a slot. `MaxFaults` bounds how many kinds of
fault one behaviour sees.

`services` checks services that share no variable. Its product would multiply their states
without a new behaviour, so the variable `service` lets one act at a time: the tool loop
first and, from the state its first failed request leaves, one of the others. Bounds: 2 rounds,
3 calls, up to 3 calls in an answer and 4 different ones (so that a budget ends within a
batch, and a call is repeated within and across rounds); 2 log requests, 1 log, 2 items, 1
restart; 3 account requests, 1 mailbox in every form, 1 outage; 3 old addresses and 1 new one,
marks none, `+dup2`, `+dup3` (so that a winner, two losers and a clash with an existing mark
occur); one analysis, 1 replay, 1 logger crash; 1 conversation with its job and 2 attempts.
In `conversation` two requests are what a race needs, and a second delivery of either is the
one restart. In `calendar` two grants are what a reconnect needs, a cache of one entry what
an eviction needs.

Deadlock is not checked: a system whose clients have sent all
they will send does stop.

### Fairness

`FairSpec` of the pipeline assumes weak fairness of the sweep (an `@Interval` timer), of the clock (`BecomeStale`) and of each job's consumer (a promise continuation
runs; media-storage, the model and the time-outs answer or fail). Nothing is assumed of
clients, of `ApplyResult`, of redelivery or of the broker. `PendingResolves` therefore rests
on the sweep alone. The consumer's calls to media-storage have no time-out of their own
(`apps/wardrobe/src/media-storage/media-storage.service.ts`), so its fairness includes that
media-storage answers. `FairSpec` of the webhook queue assumes the ten-second timer and
the run go on (`axios` gives up after ten seconds) and that due times arrive.
`LoopFairness` assumes that the exchange goes on: a request to the model ends and a tool's
RPC times out (`context-builder.service.ts:38`). `AssistantFairness` assumes the same of each
request's handler, and of dispatcher and due times as above; nothing of clients and restarts.
No fairness of `RefuseEmptyChat` is assumed: a chat is empty or not.

## 4. Findings

1. `edit` (`wardrobe.service.ts:425`): an edit that overlaps the end of a job writes back
   the `pending` row it read. The original is already deleted, so the item ends as failed
   with nothing to retry from, against `wardrobe.service.ts:331`.
2. `newphoto` (`wardrobe.service.ts:214`): a result is applied to whatever is pending under
   that id. The job of a replaced photo ends the new photo's state; the new original stays
   under `tmp/` with no crash, against `media-storage.service.ts:46`.
3. `restart` (`product-image.controller.ts:175`): the wardrobe service dies between UPDATE
   and ack; the same RPC, delivered again, is answered `not_pending`, and the consumer
   deletes the image the item shows, against the comment at line 168.
4. `doubleretry` (`wardrobe.service.ts:292`): a retry tests the status on a copy, awaits the
   bucket and saves without testing again; of two overlapping retries both queue a paid job,
   against the test `wardrobe.service.spec.ts:216`, which covers one retry alone.

5. `revoked` (`google-calendar.service.ts:196`): a fetch that was in flight during a disconnect
   writes its events into the cache that was just cleared; the next request is served from it,
   against `google-calendar.service.ts:126`.

Seen while modelling, without a run: the comment in `assistant-outfit-suggestion.entity.ts`
says the outfit request leaves `messageId` unset, but `handleOutfitSuggestion` sets it
(`conversation.service.ts:212`); `positiveInt` (`context-builder.service.ts:412`) turns a limit
between 0 and 1 into 0 rows; a forecast request that fails after a later one succeeded
replaces the fresh forecast by its failure.

## 5. Proofs

All theorems hold for every value of the constants allowed by the ASSUMEs; tlapm 1.4.5
proves every leaf.

**Image pipeline, in every interleaving** (`ImageProofs`, `ImageStorageProofs`)

* `TypeCorrect`: `Spec => []TypeOK`. One lemma per action.
* `AnswersMatched`: an RPC with a sender belongs to a job that waits (`RepliesMatched`), and
  carries that job's item and image (`RepliesCarried`). This is what makes `AfterOutcome`
  act on the right files.
* `ImageColumnsAgree`: `Spec => []RowsConsistent`. Not inductive alone: a handler saves a
  copy, so the invariant `Agree` also says that every entity a handler will save is
  consistent; one lemma characterises what the row writers may write.
* `ReadyIsFinal`: `Spec => ReadyLeftAlone`. Lemma `RowWriters` lists the five kinds of step
  that write a row; the UPDATE's and the sweep's WHERE, and `since = "none"` in ready rows
  (from `ImageColumnsAgree`'s invariant), leave a client's `Save` and `DeleteRow`.
* `ImagesOutliveTheRule`: `Spec => []PrefixesKept`. The strengthening `Placement` follows
  a key through entities, jobs and RPCs (and their previous image) back to the upload that
  chose its prefix, and uses that a prefix never changes once given.
* `ItemsShareNothing`: `Spec => []NoSharedObject`. An item's names are those in its row, in
  copies of the row, in its jobs and its RPCs, also in those that are only going to delete
  the file. `Apart` says that no name belongs to two items, and that every name in use has
  been uploaded (so the next upload is nobody's). Each step either gives nobody a name or
  gives one fresh name to one item.

**Image pipeline, one client request at a time** (`ImageLifecycleProofs`). These theorems have
the hypothesis `OneAtATime`, which is what run `pipeline` assumes: an update starts only while
no job of its item runs (`QuietUpdates`), the client waits for each answer (`Concurrent <= 1`,
`Requests` finite, so that the requests in progress can be counted), and the wardrobe service
does not die. Runs `edit`, `newphoto`, `restart` and `doubleretry` show why: each drops one of
these and finds a violation. Redelivered jobs and results, time-outs, the sweep, lost
publishes, storage errors, the rule and consumer crashes stay arbitrary, and so do the numbers
of items, jobs, RPCs, keys and requests. The invariant is in two halves: `Ground`, which needs no hypothesis, collects
the facts above; `Tidy` says that at most one handler is at work and what it may hold
(`Single`: its copy is the row, up to what the sweep changed), that leftovers lie under their
prefixes (`Leavings`), that a result still to be applied is an image no row and no handler has
(`ResultsApart`) and that a ready item has one (`ReadyNamed`).

* `LifecycleKept`: `Spec => LifecycleSpec`, the refinement of `ItemLifecycle`: the initial
  state maps to its initial state, and each step to one of its actions or to a stutter. A
  handler's request is open until it writes the row (`OpenAsk`) and over from then on
  (`SettledAsk`); a job, the broker and the sweep leave all requests as they are (`AsksKept`).
* `ShownImagesStored`: `Spec => []ImageStored`, by `ImagesThere`, which adds the image a handler
  has uploaded and not yet saved.
* `OriginalsKept`: `Spec => []OriginalRetained`, by `OriginalsThere` and `DoomedGone`: the original a job is about to delete, or will delete when the answer
  arrives, is no longer in any row and will not be saved into one.
* `OriginalsAreAccounted`: `Spec => []OriginalsAccounted`, by `OriginalsHeld` (each original is
  in a row, with the handler that uploaded it, or its deletion is on its way) and `Careful`,
  which says what handlers have deleted before they save, and that without a fault no result
  loses its sender.
* `ImagesAreAccounted`: `Spec => ImagesAccounted`. For each kind of owner one lemma says in which
  steps it stops being one and who takes over.

**Webhook queue** (`WebhookProofs`): the invariant `QueueInv`, that the dispatcher's
copy equals the row while it holds a job (`CopyCurrent`), that each row's status fits its
attempts (`RowsSane`), and three of the properties, holds also under the crashes
`Conversation` adds; `IInv` adds `NoneStranded`. Theorems `WebhookTypeCorrect`,
`DeliveriesBounded`, `OutcomesAreEarned`, `OnlyFaultsStrand`, `FirstTriedInOrder`.

**Conversations** (`ConversationProofs`), for the assistant composed with the dispatcher
(`AssistantSpec`; `WithoutDispatcher` carries the results over to `ConversationSpec`). The
invariant `AssistantInv` is `QueueInv` and `ChatInv`: what each request's program counter says
of the rows it has written (`RequestOK`), that every row was written by a delivery that got
that far (`Past`), so that the next write has a new id, and that every job announces an
answer (`JobOK`). Each step moves requests only forward and keeps answers as long as their
session (`Lasting`), which is what carries the invariant over the other handlers' rows. It gives
`ConversationTypeCorrect`, `NothingOrphaned`, `HistoryKept`, `AnnouncedOnce`, `OnlyOwnProposed`,
`DeletedByOwner` (an action property) and `QueueKeepsPromises`.

**Outfit log** (`ServiceProofs`). `EntriesNameItems`: `LogSpec => []NoDanglingEntries`. The
strengthening says what a removal in progress keeps true: once it has deleted an item's
join rows, only rows marked late name that item; and a request about to insert has had its
items checked. `LogTypeCorrect`: types, and that no log, join row or request has an id no log
was ever written under (`OnlyWritten`); it needs that a request past its first step names a log
(`LogKnown`).

**Accounts** (`ServiceProofs`). `LoginUnambiguous` rests on `AddressesDiffer` (stored addresses
are folded and distinct) and on `SignUpsNamed`; `ColumnsRespected`, an action property, on
`SettingsKnown` and `PushesOnly` (what each request may set). `AccountsTypeCorrect`.

**E-mail migration** (`ServiceProofs`). `MigrationReversible`: `MigrationSpec => []MigrationSound`
for any accounts, addresses and marks. `UpRewrites` says that just the rows in the backup have their new address and that
the group at work is right but for `todo`; `FailsForAMark` shows that a failing write met an older
mark, `SignUpsApart` that accounts made meanwhile meet no old address, and `DownRestores` that
neither pass of `down` can meet the index. `MigrationTypeCorrect`.

**Image analysis** (`ServiceProofs`). `AnswersHonest` and `CostsCaused`: each delivery, response
and reply in flight carries what the model said of this upload (`DeliverySound`,
`ResponseSound`, `RepliesSound`), and the tallies match what has happened (`BilledOnce`).
`AnalysisTypeCorrect`.

**Run `services`** (`ServiceProofs`). `ServicesSeparate`: a behaviour of the run's product is one
of each of the six specifications, so checking them one at a time adds nothing to any;
`ServicesTypeCorrect` follows.

**Calendar** (`CalendarProofs`). One invariant of five parts, each with a step lemma:
`Consented` (a callback on its way to the row has had its query checked, and no step brings
another token into row or fetches: `TokensStep`), `GivenUp` (a fetch about to mark the row
revoked has seen a refused grant, and a dead grant stays dead), `Cleared` (while nothing is
connected, whoever still holds a token was there when the cache was cleared), the types and
`CacheBounded`. Theorems `TokensConsented`, `NoOutageRevokes`, `CacheIsCleared`,
`CacheIsBounded`, `OnlyCallbackConnects` (the action property `DisconnectSticks`).

**Tool loop** (`ToolLoopProofs`). `Accounted` ties the counters to the cache (a call is cached
exactly if it ran once; runs are charged), `Outstanding` the responses to the calls left,
`Checked` an accepted outfit, also one taken from the cache, to the account's items.
Theorems `BudgetsAreKept`, `NoCallLeftOpen`, and `LoopRefinesExchange`: the initial state and
every step of the loop map to `Exchange` or a stutter. That the exchange ends is TLC's.

Only model-checked: liveness, since fairness and ENABLED are out of tlapm's reach
(`PendingResolves`, `JobsDrain`, `JobsSettle`, `AnswersDelivered`, the last conjunct of
`ExchangeKept`, whose safety part is `LoopRefinesExchange`). Every other property of a passing
run is a theorem. The library's theorems that take an operator
(induction over data among them) cannot be used; where a proof needs an induction it takes the
least counterexample, and what is computed by folds or recursion (`SelectSeq`, sorting a set)
is stated in the models by what it yields: a rank, the next row to write.

## 6. Assumptions

* TypeORM's `save` is one atomic write of the whole row, an insert if the row is gone. (It
  is a SELECT, a diff and an UPDATE or INSERT.)
* `entityManager.query` resolves to the rows of RETURNING, as its declared type and the unit
  tests (`wardrobe.service.spec.ts:74`) have it. This deserves a test against a real
  database: if the driver resolves an UPDATE to a pair of rows and count, `rows.length` is
  never 0 and every outcome becomes `applied`.
* A save of a loaded entity writes each column that differs from the table's.
* `uuidv4` never repeats.
* Requests to the model end, with an answer or an error, and so do the RPCs of the tools.
* A token response without `scope` granted what was asked for (RFC 6749, 5.1).
* E-mail migration: the marks of old addresses are sequences of ids, and no mailbox is the
  placeholder `restore`, which has no "@" (`MigrationAssumption`). Addresses without "@" and names that outgrow `varchar(100)` are left out,
  and so is the rollback after an error, since nothing follows it.
* One disconnect and one OAuth callback of an account are at work at a time.
* One process per service. `created_at` order is the order in which jobs are scheduled.
* `WEBHOOK_MAX_ATTEMPTS` is at least 1.
* A consumer crash also requeues a second, detached delivery of the same job: more
  behaviours than the broker shows.
* An upload either happens and is reported, or does not happen: a PUT that succeeds with
  its answer lost is not modelled, nor is media-storage's own redelivered upload.

## 7. Plan and order

1. Done: bucket, wardrobe images, pipeline, abstract lifecycle, webhook queue.
2. Done: `Conversation` on the webhook queue, `Exchange` and `ToolLoop`, `GoogleCalendar`,
   `OutfitLog`, `UserAccounts`, `EmailMigration`, `ImageAnalysis`; proofs of section 5.
3. `Weather`: the forecast cache, whose overlapping asks overwrite each other.
4. `Delivery`: the ack discipline of controllers and filter as an abstract at-least-once
   queue that the handlers' modules implement.
5. Done: every safety and action property of a passing run is a theorem.
6. Proofs of what the new modules of 3 and 4 promise.

## 8. Not modelled

* Weather: a cache of one value per city; the tool loop takes any forecast, or none.
* Prompts: the seed summary, reference images, history formatting, JSON schemas of tools.
* The gateway's other routes: stateless proxies, guards and validators.
* HTTP wrapper, encryption of protected data, passwords and access tokens, signed URLs.
* DTO validation, the descriptive columns of items, and queries that change nothing
  (`findAll`, `findOne`, listing of sessions, messages and logs).
* Order and content of query results: a tool returns any subset of the right size.
  A limit between 0 and 1 is taken as none.

None of them takes part in the interleavings or failures the properties are about.

## 9. Running

```
tlc -config MCImages_pipeline.cfg MCImages      # about one minute on four cores
tlc -config MCWebhook.cfg MCWebhook
tlc -config MCConversation.cfg MCConversation
tlc -config MCCalendar.cfg MCCalendar           # two minutes on two cores
tlc -config MCServices.cfg MCServices
tlapm CalendarProofs.tla                        # likewise the other *Proofs.tla
```
