# Verification of agente-inmo

The repository is a multi-tenant WhatsApp agent for real-estate agencies: a lead
writes, the bot qualifies it, searches properties, proposes a visit and hands the
lead to an adviser, who works from a web panel. This directory holds TLA+ models of
the system, TLC runs on small instances and TLAPS proofs for every value of the
constants. Paths below are relative to the repository (`src/` here is the whole
repository, so the backend is `src/src` and the panel `src/frontend`).

## 1. Inventory

| Component | State it keeps | Operations | Hard behaviour | What makes it correct | Module |
|---|---|---|---|---|---|
| Webhook (`webhook/`) | `WebhookEvent`, `Message` IN | `handlePayload`, `handleMessage`, `handleCalendlyPayload`, `handleStatus` | WhatsApp repeats; errors are swallowed and answered 200; a request dies | each message is given to one worker, and lost only by its own fault | `MessageFlow`, `Visits` |
| Turn pipeline (`pipeline/`, `media/media.processor.ts`) | Redis list and lock per lead, BullMQ jobs with fixed ids | `push`, `tryFlush`, `withLeadLock`, `purgeLead` | replicas, panel and media workers interleave command by command; lock expiry; death of a worker | one owner of the lead; every message in one turn, in order | `TurnPipeline` |
| Conversation engine (`conversation/`) | the `Lead` row | `handleTurn`, guardrails, five handlers, `persistLeadUpdate` | a turn holds a row it read seconds ago; panel writes meanwhile; the clock | opt-out final, bot silent in a handoff, notice once | `LeadConversation` |
| What is said and remembered (handlers, `*.util.ts`, `llm/extraction.schema.ts`) | filters, score, `lastSearchIds`, questions asked | five handlers, merge of filters, score, sanitising | long dialogues; the LLM repeats and invents; stock changes; a turn dies | a number picks the card shown; one link per choice; score of the row | `Dialogue`, `Extraction` |
| Search (`properties/`) | none | `search`, teaser, stock and range of a zone | order of relaxation, two currencies, limit of candidates | nothing better stays out | `PropertySearch`, `Catalog` |
| Outbound messaging (`messaging/`) | outbound queue, `Message` OUT | `enqueue`, `process`, `sendAndPersist` | 5 attempts with backoff, each may have been accepted; death; suppression | the timeline shows what was sent | `MessageFlow` |
| Leads (`leads/`) | `Lead` | `findOrCreateByPhone` | refreshes `lastMessageAt` at every message, in or out | | `LeadConversation`, `MessageFlow` |
| Panel, lead actions (`admin/leads/`) | the `Lead` row, `Message` OUT | `sendManual`, `optOut`, `release`, `suppress`; marks, notes, assignment | the checks and the sending are steps; only `sendManual` takes the lock | no bot or adviser after an opt-out | `LeadConversation`, `TurnPipeline`, `MessageFlow` |
| Appointments (`appointments/`, `admin/appointments/`, Calendly) | `Appointment` | propose; confirm, reschedule, cancel, done, no-show; public and Calendly confirmation | several writers, each reads and then writes | matrix of `src/specs/B1-appointments-backend/spec.md` | `Visits` |
| Auth (`auth/`) | `Person`, `Session`, login counter in Redis | login, logout, bootstrap, create, deactivate, reset; three guards | login across a reset; INCR and EXPIRE; two deactivations | no session of somebody who left, always an owner | `Accounts` |
| Properties, CSV, photos (`admin/properties/`) | `Property`, photos | POST, PATCH, status, DELETE, import | two transactions at once; an import that dies and is repeated | visits keep their property; an import converges | `Catalog` |
| Tenants (`tenants/`, `admin/tenants/`) | `Tenant` | create, configure | unique columns met by retries | | `Onboarding`, `Panel` |
| Maintenance | `WebhookEvent` | daily purge | a message repeated after it | | `MessageFlow` |
| Panel and public agenda (`src/frontend`) | one browser tab | session, screens, forms, wizard, customer's page | answers late, out of order, lost; logins over calls under way | refused tokens stay out; nothing put back; nothing written twice | `PanelClient`, `PanelScreens`, `Onboarding`, `PublicAgenda`, `Panel` |
| Media, STT, LLM | none | external calls | failures, any answer | the code accepts any | inputs of the models |
| Metrics, push, alert, templates, health, wiring | none or best effort | | | | not modelled |

Interactions. The webhook saves a message and adds a job; the inbound worker (text)
or the media worker (audio, image) pushes it into the lead's Redis buffer and
reschedules the lead's delayed job; that job takes the lead's lock, empties the
buffer and calls `ConversationEngine.handleTurn`, which reads and writes the `Lead`
row, searches the stock, enqueues answers and may create an `Appointment`. The panel
takes the same lock for a manual message, and no lock for anything else. The outbound
worker delivers answers and touches the lead again. The panel changes the stock the
bot searches; a customer confirms a visit on a public page.

## 2. Modules

| Module | Role |
|---|---|
| `TurnDelivery` | abstract: what enters the buffer is handed over in order, once |
| `TurnPipeline`, `MCTurnPipeline`, `TurnPipelineProofs` | pipeline of one lead, one Redis or BullMQ command per step |
| `LeadLifecycle` | abstract: how the state of a lead may move |
| `LeadConversation`, `LeadConversationProofs` | turn, guardrails, unsupported answer, panel and clock on one lead |
| `VisitLifecycle` | abstract: the matrix of visit states, one step per request |
| `Visits`, `VisitsProofs` | every writer of a lead's visits, read and write apart |
| `OutboundDelivery` | abstract: what the outbound queue promises of a message |
| `MessageFlow`, `MCMessageFlow`, `MessageFlowProofs` | a lead's messages from the webhook to the jobs, and from the outbound queue to WhatsApp |
| `AccountLifecycle` | abstract: who is in, whose session is open |
| `Accounts`, `MCAccounts`, `AccountsProofs` | people, sessions, login counter, guards |
| `PropertySearch` | the search as operators over a stock |
| `Extraction` | from a message and what the LLM made of it to what a handler gets |
| `Dialogue`, `MCDialogue`, `DialogueProofs` | the handlers in detail, over `Extraction` and `PropertySearch` |
| `Catalog`, `MCCatalog`, `CatalogProofs` | the stock as the panel changes it, and what a search of it answers |
| `PanelClient` -> `PanelScreens` -> `Onboarding` -> `PublicAgenda` -> `Panel`, `MCPanel`, `PanelProofs` | one browser tab, composed by extension: session and calls; screens; wizard; customer's page; server, person and the others |

Every key, job id and row carries tenant and lead, so one lead is enough for the
pipeline, the conversation, the dialogue and the flow. `Accounts` has several tenants,
for emails and guards cross them.

### TurnPipeline

`queue`, `job`, `buffer`, `lock` are BullMQ's queues, the two jobs with fixed id
(`turnJobId`, `retryJobId`), `debounce:<tenant>:<lead>` and `debounce:lock:...`.
`lock` holds who set it, which the code does not store: the model needs it to say
when an expiry is premature, and `releaseLock` deletes it whoever it is, as in the
code. `pc`, `work`, `batch` are each worker's next command, job and popped entries.
Each action is one command of `debounce-buffer.service.ts`: `RPush`,
`CancelPendingRetry`, `DropTurn`, `AddTurn` (push); `Acquire`/`AcquireBusy`,
`LRange`, `DelBuffer`, `Dispatch`, `Release` (tryFlush); `PurgeBuffer` ... (purge).
BullMQ and Redis are external and modelled by how the code depends on them: `add` of
an id that exists adds nothing, in any state; `remove` of an active job throws and the
code swallows it; a completed job keeps its id; a stalled job runs again; a key
expires. `arrived`, `handled`, `lost` are history variables.

Left out: texts, timestamps of entries (only logged), the 6 s delay (a delayed job may
fall due at any time), other leads.

### LeadConversation

`lead` has the columns that steer the conversation: `state`, `handoffAt`,
`lastMessageAt`, whether `lastSearchIds` is filled and `greetedAt` set. Dates are ages
in ticks of about a day, each counted up to the limit the code compares it with.
A turn is split where the code awaits: `BeginTurn` (read and guardrails),
`ExpireSession`, extraction (`ExtractNothing` or `Resolve`, the handler of the state,
with its own writes), `SendAction` (one per answer), `SaveStop`, `SaveReformulate`,
`persistLeadUpdate` (which writes over the row as it is now, as an unconditional
`lead.update` does). The handlers (`greetingHandle`, ...) return every result the code
can reach, abstracting filters, score and stock to a choice: `Dialogue` has them in
detail. `TurnThrows` is an exception at any await. Nothing is switched off: turns throw
and `optOut` and `release` come inside them in the same run. `late` is history: of those
who are about to write to the lead on a row they have read (the turn, the adviser's
message after its lock, the answer without text), the ones whose row somebody else has
since changed the state of. The properties say of the others that the row still
allows what they do, and of late turns that they alone undo an opt-out. `CheckManual`, `CommitManual`,
`SendManual` are the phases of `sendManual`; `ReadRelease`, `WriteRelease` the two
statements of `release`; `ReadUnsupported`, `SendUnsupported` those of
`respondUnsupported`; `sendAndPersist` the outbound delivery, which refreshes
`lastMessageAt`.

That a turn and a manual message never overlap (`LockFree`) is `LeadLockExcludes` of
`TurnPipelineProofs`, with that theorem's conditions.

### Visits

`pending[r]` is what request `r` has found and will write. `assertTransition` is the
first reading with the table `VALID_ORIGINS`; `updateOrThrowConflict` the `updateMany`
whose `where` repeats the condition; `findProposed`/`findNewest` and `confirmPublic`
the reading and the unconditional `update` of the public agenda and of Calendly;
`refusePerson` the 400 for an unknown assignee; `suppress` the cascade.

### MessageFlow

`req[r]` is a webhook request: the messages left of its payload and its next await
(`recordWebhookEvent`, `findOrCreateByPhone`, `SaveMessage`, `handleMessage`);
`HandlerThrows` is an exception at any of them, which `handleChange` logs and goes on
from; `RequestDies` ends the process with no 200. `waiting` holds the jobs of the inbound
and media queues, whose workers either ignore, push, fail or answer (`JobStep`).
`outbound`, `state`, `attempts`, `sender` are the outbound queue, its jobs and its
workers: `Send` is Meta's acceptance, then `UpdateManual` (a manual message, stored
before) or `UpsertLead` and `InsertRow`; `AttemptFails` throws anywhere, with Meta
having accepted or not; a job whose backoff ends comes back at either end of the list.
`CommitManual` ... `PanelDies` are `sendManual` with its compensating delete.
`suppress` cascades to the rows and leaves the jobs. `MonthPasses` makes events old:
WhatsApp repeats for days, not for a month (an assumption on WhatsApp, in `receive`).
The order of the buffer, the lock and what a turn answers are the other modules'.

### Accounts

A request runs its guards in one step (they only read) and then each query as a step.
The transactions of `deactivate` and `resetPassword` are READ COMMITTED and run statement
by statement: `FindTarget`, `UpdateTarget` (which waits for the row lock of another
transaction), `DeleteSessions` (which keeps in `doomed` the sessions it finds), and the
COMMIT, `Deactivate` or `ResetPassword`, from which on the others see it all. A login takes
no lock they hold. Passwords are versions. Of a session, `raced` remembers that the
password had been replaced when it was written, `windowed` that a reset had run its
`deleteMany` and not its COMMIT; `cut` that the process died between INCR and EXPIRE. The unique email and the partial unique index on
the active owner (migration 20260723172000) are `Collides`. Tokens and hashes are
opaque, emails come normalised.

### PropertySearch, Extraction, Dialogue

`search` yields the outcomes a query may have (a sort may break ties either way):
hard filters, +10 %, +25 % or +50 %, rooms given up, first three of the sort, with the
sort in memory limited to `CandidateLimit` rows. `sanitizeExtraction` keeps of the
LLM's record what the text mentions. A message is a record of both: what was written
and what the LLM made of it, so that it may repeat, invent and go out of range.
What `wantsGarage` and `wantsPetsAllowed` do is alike, so `garage` stands for both.
`Dialogue` splits a turn at its queries: `TakeTurn` (guardrails that change the row,
the handler of the state), `Search`/`Teaser`/`Schedule` (which write the row or an
appointment on their own), `Deliver`, `Save`. `TurnDies` at any of them. `StockChanges`
pauses, reactivates or deletes a property; `Release`, `AskForHuman`, `VisitCloses`,
`SessionExpires` are what the others do to the lead. A `HandlerResult` is compared with
`LeadConversation!resolveResult` by `HandlersFollowConversation`.

### Catalog

`req[r]` is a request of `admin-properties.controller.ts` at its next query. A
transaction's writes are seen when it commits; a statement waits for rows another
transaction has touched (`Holders`), and of two that wait for each other one is aborted
(`Deadlock`). `Resolve` and `Book` are the bot's proposal for a property. The import is
`NextRow`: look up, upsert, next. `still` states are searched with every filter.

### Panel

`calls` are fetches under way, unordered; an answer may be refused, come late, or never
(`Lose`). `page` is the mounted screen, what is typed and busy; a continuation runs
even if its component is gone (`Unmounted`). `valid`, `row`, `made`, `held` are the
server. `Plans` bounds a behaviour: a screen with its forms or buttons and how often
each thing may happen.

## 3. Runs

| Run | Question | Distinct states |
|---|---|---|
| `pipeline_text` | one replica, texts and a short manual message: conservation and order of the texts, nothing stranded, every message answered, implements `TurnDelivery` | 3 thousand |
| `pipeline_replicas` | two replicas, audio, panel, failing providers, one death anywhere: `MutualExclusion`, `AtMostOnce`, `Accounted` | 2.6 million |
| `pipeline_purge` | a suppression amid messages and slow owners: the lead comes to rest | 0.5 million |
| `lead_turns` | turns that throw anywhere, unsupported messages, every clock limit, `optOut`, `release` and the adviser's message at any moment: an opt-out is undone only by a turn that had read the row before it, whoever writes to the lead may unless overtaken, the notice goes once, refinement of `LeadLifecycle` | 1.2 million |
| `lead_optout_race` (violation) | "Terminal" of an opt-out: the adviser's, given during a turn, is overwritten | |
| `visits_requests` | two panel and two public requests: dates, only a reschedule moves, refinement of `VisitLifecycle` | 33 thousand |
| `flow_messages` | two overlapping requests with the same audio and sticker, an answer of the bot, a manual message, one error or death anywhere, a suppression, the purge: each message to one worker, lost only by its own fault, the timeline true, overtaking only after a failure, refinement of `OutboundDelivery` | 1.2 million |
| `accounts` | two requests at once over two tenants, people and tokens, with a death: stale sessions only by a login that overlaps the reset, counters expire, an owner stays, refinement of `AccountLifecycle` | 0.85 million |
| `accounts_window` (violation) | "sin ventana" of a reset: a session opened between its `deleteMany` and its COMMIT lives on | |
| `dialogue` | five turns, a change of stock, a death, an LLM that invents: the number picks the card seen, the visit is for the chosen card, one link per choice, score of the row, nothing made up, handlers follow `LeadConversation` | 3.2 million |
| `catalog` | three requests, two at once, a visit being booked and a death: visits keep their property, imports converge; and from every stock of five properties of eight kinds, 72 queries are answered under the strictest terms there is stock for, with nothing better left out | 0.14 million |
| `panel` | seventeen plans of one tab: refused tokens, saves, inserts, the agenda's hours, what the customer is told, and no waiting for ever | 0.28 million |

Each takes under two minutes with two workers. Deadlock checking is off where inputs are finite and
the system may come to rest; it is on in the conversation runs, where a lead can always
write again. `TypeOK` of each module also holds in its run; it is left out of the
configurations of the modules that have a theorem `TypeCorrect`, and in `MessageFlow`,
`Dialogue`, `Catalog` and `Panel` it is checked by adding `INVARIANT TypeOK` to the run.

### Bounds

- `Texts`, `Medias`: three texts where order and liveness are asked, two texts and an
  audio with several kinds of worker. A message is pushed before, during or after the
  flush of another; a further one adds no new relation between two.
- `Inbound`: one or two replicas; `Media`, `Panel`: one. Exclusion is pairwise, and
  its proof is for any number.
- `MaxCrashes` = 1: BullMQ fails a job that stalls twice. `MaxPurges`: 1. `MaxManual`: 1,
  which matters for `NoStrandedEntry` and `EveryMessageAnswered` (section 5).
- `ServiceWindow` = 1, `HandoffTimeout` = 2, `SessionExpiration` = 3 ticks keep the
  order 24 h < 48 h < 30 days; each age takes every relation to its limit.
- `MaxReplies` = 2: a turn is interrupted before, between and after its answers.
- Two visits, two times: closing one while the other is proposed (Calendly's choice),
  and two confirmations with different times.
- `MessageFlow`: `MaxDeliveries` = 2, one payload of two messages: a repeat before, in
  and after the first, with a message behind the one that fails. `Attempts` = 2 (the
  code has 5): a first and a last one. The safety properties are proved for any.
- `Accounts`: `MaxFailures` = 1 (LOGIN_MAX_FAILED_ATTEMPTS is larger): the first failure
  opens the window and fills the counter. All four properties are proved for any.
- `Dialogue`: five turns reach search, choice, two questions and the link; three
  properties of two zones and both operations, one with a garage; thirteen messages, one per kind of
  reading of a handler, with the LLM's mistakes.
- `Catalog`: prices at and just above each cap for a budget of 100; `CandidateLimit` = 4
  with five properties, so that the limit is met.
- `Panel`: three tokens, four calls at once, two columns, two drafts, two days of two
  hours, one lost or refused answer (two in the wizard).

Switches (constants) name what a run lets happen: `SlowHolders` (an owner outlives
LOCK_TTL_MS), `HoldersBeatRetry` (an owner ends before the 2 s retry), `ProvidersFail`,
`PublicOverlaps` (something is written between the reading and the write of a public
confirmation).

### Fairness

The pipeline's liveness (`FairSpec`) has weak fairness of each worker (a BullMQ worker
with a job in its queue runs it, delayed jobs fall due), of the end of a panel request,
and of the expiry of a key whose owner is dead (Redis' PX). Nothing is assumed of
arrivals, panel requests or crashes. `pipeline_text` sets `HoldersBeatRetry`; without it
the retry collides as told in section 5. The panel's (`FairSpec` of `Panel`) has weak
fairness of the server's answer to each call and of the browser's continuation of each
fetch: `http-client.ts` sets no timeout, so a call that is neither answered nor broken
would wait for ever, and the browser breaks it. Nothing is assumed of the person.

## 4. Proofs

All theorems hold for every value of the constants under the named assumptions of the
modules (`ConstantsAssumption`, `ConversationAssumption`, `VisitsAssumption`,
`FlowAssumption`, `TenantsAssumption`, `PeopleAssumption`, `BoundsAssumption`,
`SearchAssumption`, `DialogueAssumption`, `CatalogAssumption`, `NumbersAssumption`,
`PanelAssumption`, `PlansAssumption`), which TLC evaluates; a condition beyond these stands
in the theorem's own statement.

*Pipeline.* With one death at most (`ConstantsAssumption`: BullMQ fails a job that stalls
twice), and any number of workers, messages and manual messages: `TypeCorrect`.
`EveryMessageAccounted`: a message that arrived is in a queue,
in a worker's hands, in the buffer, handed over or known to be lost.
`LeadLockExcludes`: with `~SlowHolders` and no suppression,
`MutualExclusion`. The invariant is not inductive alone: `OwnerInv` says that a process
whose next command is an owner's is the value of `lock` (so two of them are equal),
together with `NoPurge`, for `purgeLead` deletes the key. A crash turns the lock into
`Stale`, which only expiry frees. TLC shows the two conditions are needed.
`EachMessageOnce` needs the same two: `OnceInv` says, until somebody dies, that a message
is in one place only (queue, hand, buffer, turn, answered), and that what LRANGE read is
still in the buffer while its DEL has not come; this holds of one owner at a time, so it
rests on `OwnerInv`. `TextsKeepTheirOrder` and `ImplementsTurnDelivery` are of one replica
that dies nowhere and whose turns do not throw, with any number of texts, manual messages
and slow owners: with `OrderInv` what was answered, what is in the turn, the buffer, the
hand and the queue are, joined in this order, the texts that arrived; so a turn is a prefix
of what waited. `NothingStranded` is of one replica whose owners end before the 2 s retry,
and of one manual message at most: the invariant follows who holds the lock, which of the
two jobs there is, and whether the manual message has been spent (`JobInv`, `RetryInv`,
`StrandInv`). With a second one TLC refutes it (section 5).

*Conversation.* No conditions: turns throw, and the panel acts inside them. The inductive
invariant `IInv` says what holds of whoever has not been overtaken: only who is at work can
be late (`LateInv`); while a turn is in progress no adviser's message is past its lock, and
a turn that is not late works for a lead that is not opted out (`LockInv`); the turn's
action fits where it stands (`ActionInv`); a turn that finds HUMAN_HANDOFF is an opt-out or
found the time over (`HandoffInv`); the row the turn holds agrees with the stored one where
it is written back (`RowInv`); and the adviser's message and the answer without text go to
a lead in the state they read (`ManualInv`, `UnsupportedInv`). From it `OptOutFinal`,
`SpeakOnlyWhenAllowed` (with `OutInv`: an idle turn has nothing to send),
`HandoffStaysDated` and `ImplementsLifecycle`, whose refinement maps `quiet` to the age of
`handoffAt` and `overtaken` to a late turn. `NoticeSentOnce` needs `NoticeInv` besides: a
notice that was sent is in the row or about to be, and what a turn has to send holds one at
most; nothing but the turn writes `greetedAt`, so no request disturbs it.

*Visits.* `TypeCorrect` and `VisitsDated` without conditions; `ImplementsVisitLifecycle`,
`ClosedStaysClosed` and `MovedByReschedule` when nothing is written between the reading
and the write of a public confirmation. `PublicInv`: what a public request found is
still PROPOSED and no other public request holds it. The panel's requests may overlap
freely: the `where` of their update carries the proof.

*Messages.* No conditions, but for the last theorem. From the webhook (`InInv`): a message that is held past the
table of events or has a job is in the table, or so old that nobody repeats it
(`KnownInv`, `FreshInv`); so of several requests one alone holds it, before any job of it
(`OneHolder`, `HolderFirst`): `HandledOnce`. What is known, or has a row, was enqueued,
threw or is still held (`SeenInv`, `RowInv`), and a lead is missing only by a suppression,
which counts as the message's own fault (`LeadInv`): `NoCollateralLoss`. To WhatsApp
(`OutInv`): the wait list holds waiting jobs, each once, a running job is in one worker's
hands (`QueueInv`, `SenderInv`), and a worker that still has to write has an acceptance
not yet in the rows (`WriteInv`): `TimelineTrue`, and with the same invariant
`ImplementsOutboundDelivery`, where waiting, running and backing off are all "queued".
`StatusInv` says where the job of each state is (in the list, in a worker's hands) and what
it tells of its attempts; with it `OrderInv`, inductive only when `Senders` has one member:
a job never tried is still ahead, in the list or in that worker's hands, of every job queued
later, which waits and was never accepted. `OneSenderKeepsOrder` has that condition, which is
one replica of the service; of two workers the property is false.

*Accounts.* No conditions. `IInv`: what a login found is a row of the version it read or
older (`LoginInv`), what a service step is about was checked for its tenant
(`ServiceInv`, `CallerInv`), a session has a holder (`HolderInv`), and a tenant has one
active owner at most (`OneOwner`). That last part, the partial index, is what makes
counting and then deactivating safe: with one owner nobody else can be the other of "two".
`TxInv` is about the statements of a transaction: what it has read of its target still
holds, and what it deletes is the target's. From it `OwnerStays`, `OwnerChangesPeople`,
`NoLastingBlock` and `ImplementsAccountLifecycle`. `ResetEndsSessions` adds `WindowInv`: of a
person whose reset has run its `deleteMany`, the sessions that live are those it deletes
and those opened in the window; so the theorem says that this window and the login that
writes after the COMMIT are the only ways to a session of a replaced password.

*Dialogue.* `DialogueInv`, for any stock, messages, turns and deaths: the cards about to
be sent are those of the row, and between turns the row lists what was seen (`ScreenInv`);
a link without a death leaves the state that proposes it (`LinkInv`); what is pending is
what was chosen last, in the row and in the turn's copy of it (`PendingInv`); the row the
turn will write adds to the stored one only what the message gave (`RowInv`); and a turn
that goes on to a query comes from a state that does (`PlanInv`). From it `ChoiceWasSeen`,
`VisitForTheChosen`, `OneLink`, `ScoreCurrent`. `NothingInvented` assumes `WrittenIsMeant`
of the messages: who writes all the words of a place means that place, and who writes the
name the LLM took gives it. The sanitising compares words and cannot know more; TLC
evaluates that the messages of the run satisfy it. `HandlersAllowed` is the bridge to
*Conversation*: each result of the handlers in detail is one of
`LeadConversation!resolveResult`, so the theorems there speak of these handlers too.
`InOrder` and `Passing` give the sort and the filter by what they return, since the
library's own are recursive.

*Catalog.* No conditions. `StockInv`: a removal that has looked for visits goes on with
none but those booked since (`RemovalInv`), and the unique index holds whatever overlaps
(`RefsInv`): `PropertyOutlivesVisits`. `ImportInv`: an import that has met nobody has placed
the last good row of each external ref among those behind it, and what it looked up still
holds (`Progress`): `ImportsConverge`, by the step from n rows to n + 1. `NumbersInv`: the rows
have their prices and rooms because what requests carry has (`NumbersAssumption`: the
DTO's `@IsNumber`, `@IsInt`, and `parseRow`). `BestIsShown` needs nothing else of the
state; its lemmas are about the operators: `Ordered` (a sort by rank lists each id once, in
order), `FirstAreBest` (nothing that stays out of the first three precedes one of them),
`AttemptsOf` (the six attempts, which are made before which, and which are made at all),
`HitsAre` (what an attempt finds is what is for sale under its terms), `MissedTerms` (what
there is no stock for once the attempts before the n-th have failed, whence the label is
that of the strictest terms, `StrictestLabel`, worked out from the stock) and `QueryBest` (the sort's key
against pesos and rooms: with a pinned currency the bare price orders as pesos do).

*Panel.* No conditions. `PageInv` says of each screen which calls it may await: a flag of
`busy` stands for one call that its form still holds, and a call outlives its form only as
`page`, `gone` or `dropped`. `TokenInv`: a token is the tab's, a stored one or that of one call
under way, so the 401 that ends a session names no other one; `TokensStayOut`. `AgendaInv`
follows the customer's page: while the hours asked for are under way none of them can be
picked, unless days were picked over each other (`PickedWasOffered`); a confirmation goes out
from a page that has none open (`SaysWhatHappened`). `DraftInv` counts inserts: a draft is in one
box and in one request, in that of the form that holds the box while it still does
(`BoxInv`, `WireInv`), and one that may still be inserted was not, or was by a call whose answer
has not come, or by as many as were lost (`CountInv`); so `TypedOnceInsertedOnce`. `NothingPutBack` is a
step's property and follows from `NewsInv`: what is touched in a form, in the body of a save or
in an upload is apart from all that was heard of. For that to last, each is on its way in one
call only, and still entered only in the form that awaits it (`OneWayInv`), which forgets it as
it hears; the boxes' drafts are numbers of their own (`Lines`), and what is typed next is of
none of these (`ReachInv`). `RowsInv` adds that records have every column and that a push
prompt carries nothing. Together `TypingInv`; `SavesPutNothingBack`.

Model-checked only: liveness (`EveryMessageAnswered`, `QuietAfterSuppression`,
`NothingWaitsForEver`; the prover does no fairness or ENABLED).

## 5. Disagreements between the code and its documents

With a run: `lead_optout_race` and `accounts_window`; `PROJECT.json` quotes the lines. The rest were met while
modelling, each reproduced by a change of a run or by reading the two sides.

Pipeline:

- Lock expiry: `SlowHolders = TRUE` in `pipeline_text`, with `MutualExclusion` added to
  its invariants, refutes it. An owner slower than 60 s shares the lead, and its `DEL`
  frees the next owner's key, against `debounce-buffer.service.ts:98`
  ("garantizando ...").
- Retry collision: `HoldersBeatRetry = FALSE` in `pipeline_text` refutes
  `NoStrandedEntry`. A retry that meets the lock again cannot requeue itself, its own
  id being active, against the comment at line 52. So may a second manual message that
  follows the first within the 2 s: `MaxManual = 2` refutes it too.
- An audio pushed during a turn has no job until the next message: `add` of the id of an
  active job adds nothing (`debounce-buffer.service.ts:173` against `:38`).
- An entry pushed between LRANGE and DEL (`:158`) is lost, against
  `src/docs/01-ARQUITECTURA.md:67`. Both with one audio and a media worker in
  `pipeline_text`: `NoStrandedEntry` and `Conservation` fail.
- A suppression may leave a message behind: `purgeLead` empties the buffer and then removes
  the job, and a push between the two commands keeps its entry in Redis, which has no TTL,
  with no job to flush it (`pipeline_purge` with the temporal property
  `~leadExists ~> buffer = <<>>` shows it; `QuietAfterSuppression` asks for rest only).
- Provider failure: `ProvidersFail = TRUE` refutes `EveryMessageAnswered`. The buffer
  is emptied before the handler runs and the job has no attempts
  (`src/docs/01-ARQUITECTURA.md:11` speaks of automatic retries).

Conversation:

- A returning lead never restarts: `findOrCreateByPhone` refreshes `lastMessageAt`
  (`leads.service.ts:14`) before the guardrail looks at its age
  (`guardrails.service.ts:38-41`).
- The first answer may come without the notice of Ley 25.326, when it reformulates or
  meets a buying signal (`conversation.engine.ts:170` against `greeting.handler.ts:120`
  and `src/docs/03-CONVERSACION.md:184`).
- After the panel's opt-out, a turn that had begun and an adviser's message past its lock
  still send, against `src/docs/03-CONVERSACION.md:75` ("No se envía nada más, nunca"):
  `SpeaksUnlessOvertaken` has to except them, and without `"turn" \notin late` TLC refutes it.
- `HandoffDated`, added to `lead_turns` as an invariant, is refuted: a turn that took a lead
  back after 48 h may save HUMAN_HANDOFF over a row released meanwhile, without a date. The
  transaction of `release` is READ COMMITTED and locks no row, so the state it goes back
  to may be that of an older row.
- The confirmation of an opt-out is sent before the state is written
  (`conversation.engine.ts:144-150`); if the write throws, the job is not retried, and a
  lead that was told it will hear no more is not opted out.
- A turn that resumes after 48 h and ends in a new handoff keeps the old `handoffAt`
  (`conversation.engine.ts:553` compares with the stored state, still HUMAN_HANDOFF).
- `respondUnsupported` sends outside the lock on a state read earlier.
- "de contado", the answer to a commercial question, is taken for a buying signal and
  lost (`conversation.engine.ts:259` against `commercial-qualification.handler.ts:52-56`);
  whatever else that turn's message said is lost with it.
- The score stays that of the old session when it expires on a message that is not
  understood; a visit may be proposed for a paused property; a teaser that finds nothing
  empties `lastSearchIds`; a question with a number in it never reaches the branch of
  `search-match.handler.ts` meant for it.

Visits and panel:

- `PublicOverlaps = TRUE` in `visits_requests` refutes `ClosedIsFinal`: `confirmPublic`
  and Calendly revive a cancelled visit (`appointments.service.ts:127`,
  `webhook.service.ts:111` against `src/specs/B1-appointments-backend/spec.md:54`).
- The server never looks at the slot again when a visit is confirmed
  (`appointments.service.ts:127`): two customers may take one.
- No tenant can have a second active owner: the partial index answers 409 "Ya existe una
  persona con ese email" (`people.service.ts:148`), against
  `src/specs/A1-auth-personas/spec.md:197`.
- The photos of two PATCHes of one property mix (`properties-admin.service.ts:154-156`).
- `handleStatus` (`webhook.service.ts:265`) may leave the older of two statuses.
- A 401 of an old token signs out the new session (`AuthContext.tsx:64`), and so does a
  late answer to a logout.
- The wizard's "Reintentar" never succeeds after the answer to a bootstrap was lost: the
  owner exists; after a lost answer to the creation the tenant stays without owner.
- Answers of `useApi` come out of order: an old lead, an old list, or a closed form
  (`PropertiesPage.tsx:172`) replace newer ones; the text of a note is emptied by the
  answer to an earlier one; a photo list is built on the one before the upload
  (`PhotoListEditor.tsx:105`).
- The public page's error is terminal though the visit was confirmed, when the answer was
  lost, and shows the hours of one day under another (`PublicSchedulingPage.tsx:42`).
- After `contacted`, `optOut` or an assignment the reply box is disabled until a reload
  (`LeadDetailPage.tsx:239`).

## 6. Not modelled, and why

- Wording: templates, copy variants, formality, prompts, the validator of the texts the
  model writes: functions from data to text that nothing else depends on.
- LLM, STT, ffmpeg, Meta, Calendly: external; the models take any result.
- `handleStatus`, metrics, health, lists and search boxes of the panel: they read, or
  write what is only shown.
- Lead alert and push: best effort; nothing waits for the result.
- API keys, signature of the webhook and throttling: comparisons of one request.
- Configuration, module wiring, seeds, scripts and migrations: start-up.
- The CSV parser: a parser of text; `Catalog` takes the records it yields.

## 7. Plan

Done: every component that keeps state or decides something, five abstract specifications
with their refinements, and theorems that state every safety property of the runs. What is
left is breadth: the parts of section 6, and the wording the model abstracts from.
