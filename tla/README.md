# nuglabsbot in TLA+

A verification development of nuglabsbot, a Telegram bot in Go: TLA+ modules
of its stateful core, TLC runs over small instances, and TLAPS proofs for all
instances. `PROJECT.json` maps every definition to the source lines it
translates and lists the runs, the mutants that show each property can fail,
the hazards of the code and the theorems.

Lines below are of the repository; `handle-strain.go` is
`use-cases/handle-message/handle-strain.go`, and the two `root.go` of the
broadcasts and the presses are named by their package.

## The system

One process, composed in `app.go`, with PostgreSQL, the Telegram Bot API and
the NugLabs strain index around it. Its goroutines:

| goroutine | runs | state it owns |
|---|---|---|
| poller (Bot API library) | getUpdates, writes a buffered channel | the offset |
| update router | `routes/root.go:80`, one update at a time | none across updates |
| deferred-write worker | `utils/db/deferred.go:40`, one closure at a time | a channel of 512 closures |
| broadcast ticker | `bg-services/handle-broadcast.go:29` -> `RunOnce` | none across runs |
| analytics worker | `use-cases/handle-events/root.go:31` | a channel of 2048 events |
| log writer | `utils/logger.go:26` | a channel of 512 lines |
| strain index sync (SDK) | external | the strain index |

They meet in the database (`assets/db.sql`) and in the channels. Nothing else
is shared but the read cache of `utils/db/database.go`.

### Inventory

**Broadcast scheduler** (`handle-broadcast/root.go`). No state in memory
between runs. Operations: close the strain rows of unsubscribed chats; select
a page of due rows; for each row post to Telegram, then record the post or
close the row. Hard: the post and its record are two steps; the answer to
either can be lost; the run's context expires; the page is a snapshot. Correct
when posts are bounded by requests and lost records, closed rows have a cause,
and every sendable row settles.

**Strain-search fan-out** (`handle-strain.go:757`). A search upserts one
outgoing row per subscriber, several statements without a transaction, by the
worker, or by the router when the queue is full. Hard: find-then-insert of the
broadcasts row; old snapshots of subscribers; a sweep in between. Correct when
it does to the outgoing rows only what the scheduler can cope with, and makes
one broadcasts row per body.

**Deferred write queue** (`utils/db/deferred.go`). Bounded, never blocks, one
consumer, dropped at shutdown. Its users fall back to a synchronous write.
Correct when closures run once and in order, except for the fallback.

**Subscriptions** (`/subscribe`, `handle-subscribe/root.go`). A toggle of one
row by read then write. Hard: a command that is lost, or handed out again after
a restart. Correct when a chat's subscription follows its commands, and a chat
that unsubscribed gets no cards once the system has noticed.

**Campaign converter** (`zz-ops/convert-broadcasts-yml.go`). An operator's
tool: seeds outgoing rows of a campaign once per chat, and skips payloads that
exist already. Correct when a repeated or interrupted run changes nothing.

**Update intake** (`routes/root.go:80`, the Bot API library, `app.go`).
Long polling with an offset in memory. Hard: an update is confirmed when it is
in the channel and not when it is handled, so a restart loses some and repeats
others. Correct when losses and repeats are bounded and every update leaves.

**Strain cards and presses** (`handle-strain.go:281`,
`handle-strain-press/root.go`). Tables `strain_press_tokens` and
`strain_collection_encounters`. A private search mints a token; a press
toggles an encounter in one transaction, by the parity of the rows without a
token (parity cards) or by the row that names this token (additive cards);
then the press is answered, subscribers get the plain card and the presser a
new one. Hard: toggles under redelivery, a COMMIT whose answer is lost, several
buttons for one strain. Correct when a card ties at most one encounter to a
user, every press counts while nothing fails, and subscribers hear of finds
only.

**Strain lookup** (`handle-strain.go:81`), **formatting**
(`handle-strain.go`, `strain_collection_copy.go`, `utils/telegram_html.go`).
Sequential functions without state of their own. Correct when exact names win,
a single hit is taken as the strain, and several are offered.

**User middleware** (`middleware/handle-user.go`). Upserts of users and group
chats through the deferred queue. Hard: the synchronous fallback overtakes the
queue; two statements, of which the second may fail; what is queued at
shutdown is gone. Correct when every request counts once and the last name
wins, but for fallbacks and failures.

**Read cache** (`utils/db/cache.go`, `database.go:40-110`). Query results with
a lifetime, cleared by every `ExecContext` that succeeds. Hard: a read that
began before the clearing stores its rows after it; tools of the operators
write past it. Correct when only such a read leaves an old entry, no reader sees
a query's result go back, and old results go.

**Analytics** (`utils/analytics.go`, `handle-events/root.go`), **logger**
(`utils/logger.go`), **lifecycle** (`app.go`). Bounded channels that drop or
fall back when full, workers that flush at cancellation while main returns.
Correct when an accepted item is processed, or its loss is accounted for.

**Dispatch** (`routes`, `controllers`), **URL messages**, **unknown messages**,
**inline queries**, **commands and policies**, **chat members and empty
messages**. No state of their own: each turns an update into statements,
cached reads, closures and events, in an order that matters to the others.
Correct when nobody is told that there is no response while there is one.

**Result scanning**, **environment and YAML**, **other operator tools**: value
conversion, I/O and text. `PROJECT.json` lists each with its reason.

## Modules

```
BroadcastStore        tables broadcast_outgoing and subscriptions, one operator per statement
  BroadcastRun        the scheduler; everything else is its environment; implements Outbox
    StrainBroadcast   search, queue, fan-out, worker, router, crashes: implements BroadcastRun
    CampaignConverter the operator's converter, file by file: implements BroadcastRun
UpdateIntake          polling, channel, router loop, restarts
  StrainPress         what happens between taking an update and its end: implements UpdateIntake
  SubscribeCommand    the same of /subscribe, in its two statements
BotProcess            router, workers, ticker and signal of one process, composed of
  ReadCache           the cache of query results
  UserUpserts         EnsureUser, the deferred queue and its worker
  DrainedChannel      a channel drained at shutdown; instantiated for analytics and for the log
  Handlers            no state: the plans an update can lead to
```

`...Proofs` hold the theorems, `...MC` small instances for TLC.

Four abstract specifications say what a part promises. `Outbox` is the
scheduler without tables, pages and clocks: messages delivered one at a time,
never while they are not in the outbox, and not again but after a delivery
nobody heard of or that was forgotten, or when put in anew. It does not promise
that a message is delivered at all: any may be closed. What is closed has a
cause (`ClosedForCause`), and what is due is dealt with (`EveryRowSettles`);
those are properties of `BroadcastRun` itself, which implements `Outbox` with
`open` as the pending rows, `sent` as the posts, and `inHand` as the row between
its post and its record. `BroadcastRun` in turn is
what the scheduler copes with: its `Queue` upserts any strain row at any
moment, its `Seed` seeds any campaign. `StrainBroadcast` replaces the one and
`CampaignConverter` the other by the code that performs it, and each is shown to
implement it, so the bounds on posts carry over. `UpdateIntake` says what the
intake promises to whatever handler runs (an update is taken, and some time
later over), and `StrainPress` is one such handler. `ReadCache` says what the
cache does to one reader and anybody who clears, and `BotProcess`, where
clearing is part of the steps of four goroutines, is shown to implement it.
But for `Outbox`, the variables of the abstract specification are variables of
the detailed one, and those refinements are `Spec => AbstractSpec` without
substitution.

### BroadcastStore

`stored`, `pending` (`sent_time IS NULL`) and `hasMsgId`
(`telegram_message_id IS NOT NULL`) are sets of rows; a row is a (broadcast,
chat) pair, the table's unique key. `scheduledAt` 0 stands for NULL: the
code's tests treat both as "due". `clock` is the database's `NOW()`, assumed
monotone; processes read times in `1..clock`. `Page(limit)` is ORDER BY
created_at DESC LIMIT: any choice among ties. Columns that no code reads are
left out.

### BroadcastRun

`RunOnce` is a process with the program counter `pc`:

| pc | action | code (`handle-broadcast/root.go`) |
|---|---|---|
| idle | `Sweep` | the tick, and `closeStrainOutgoingWithoutSubscription` |
| select | `SelectPage` | the batch SELECT, line 99 |
| loop | `SkipRow`, `PostAccepted`, `PostAnswerLost`, `PostRefused`, `EndOfPage` | lines 107-175: nothing to send or a transient error; posted; posted with the answer lost; refused for good |
| mark | `RecordPost` | the recording UPDATE, line 212 |
| abort | `AbortRow` | `abortUndeliverableOutgoing` |

`RunFails` is a statement without effect whose error ends the run,
`StatementAnswerLost` one that took effect, `Expire` the run's timeout, `Crash`
the death of the process anywhere. Which Telegram errors are permanent is a
matter of their text: here any sendable row may be refused for good.
`posts`, `puts`, `unrecorded`, `refusers`, `leavers` and `wanted` are
observers: they record what the outside saw, and no guard of the code's
actions reads them.

### StrainBroadcast

`queue` is the deferred queue, `exec` the two possible executors of a fan-out.
The queue is shared with the user upserts of every update: `Ensure` puts one in
(`Other`), `RunOther` is the worker that runs it, in one step since it touches
none of these tables. `Search` enqueues, or finds the queue full and starts the
fan-out in the router; a fan-out is `ReadSubscribers`, then per chat `FindBroadcast`,
`InsertBroadcast` if none was found, and `QueueChat`; `FanoutFails` is a
statement that fails, or the INSERT whose answer is lost. The set `todo` of
chats left abstracts the order in which the code visits them (by
telegram_id). `ProcessDies` empties the queue and both executors.
`broadcasts.id` is a fresh value; its `created_at` is what
`createdAtFromBroadcastID` orders by. `overlapped` observes whether the two
executors were ever in a fan-out at the same time.

### UpdateIntake

Updates are numbered. `kept` is the lowest number Telegram still keeps,
`offset` what the next poll names, and the channel holds `next..offset-1`,
always consecutive numbers, so its two ends stand for it. The library polls
again when its whole last batch is in the channel: `MayPoll`. `Restart` is any
death of the process. The poller is code of the library and of Telegram,
modelled from its use here and marked external in the map.

### SubscribeCommand

Every update is a `/subscribe` of some chat. `ReadState` is the SELECT, past the
cache, and `WriteState` the INSERT or UPDATE of the opposite;
`StatementFails` and `WriteAnswerLost` are their failures, `Reply` the return of
`HandleUpdate`, `Dies` a restart. To the scheduler of `BroadcastRun` the toggle
is one step, since nobody else writes the row between the two.

### StrainPress

An update is a search or a press; `step` is where the router is in it.
`EnsureUserFails`, `BuildReply`, `Reply` handle a search; `Press` is the whole
transaction (one step: the rows of the press are written by this one goroutine
only), `PressFails` its roll-back, `PressAnswerLost` a commit whose answer is
lost; `Answer`, `AnswerRefused`, `FanOut`, `BuildCard`, `PostCard`,
`LookupFails`, `FollowUp` are what `routes/root.go:202-220` and
`NotifyAfterStrainCollected` do with the outcome. `encounters` counts rows per
user, strain and source token, 0 for NULL; `Legacy[u]` such rows of each strain
are there from the start, of a time before tokens. A minted token reaches a
chat or not (`shown`), and anybody may press what was shown (the package comment
of `handle-strain-press`, line 10: "Shared tokens are not consumed";
`db.sql:106`, "One-time callback tokens", and `logging.md:53`,
"duplicate consume", speak of tokens that are used up, which no code does: the
model follows the code). A token whose INSERT took effect though its answer was
lost exists and is shown to nobody. The fan-out to subscribers is one step, its
sends being independent and only logged. A press whose payload does not parse or
whose token does not exist changes nothing and is left out.

### CampaignConverter

A file is a number, by its name's place in the alphabet, with its campaign,
order and flags as constants. `Start` lists and sorts (`Before`); `ConvertFile`
is the transaction of the next file, `MoveFile` its rename; `ConverterFails` is
any fault (a statement, the rename, the 20 seconds, a kill), `CommitAnswerLost`
the commit that took effect and panicked all the same, `BrokenFileFails` a file
that can never be converted. Everything the transaction does is in
`AudienceRows`, the pairs its INSERT offers, and `Seed`, which leaves rows that
are there alone. `members` is the audience, users and group chats together;
which of them a file's filter admits is in `Rows`. `DropFile` is the operator,
`Join` the middleware of a chat's first update.

### BotProcess and its parts

What the goroutines of one process share in memory, from their start to main's
return, but for the poller's channel (`UpdateIntake`) and the SDK's index. The
router takes an update and one of the
`Plans` that Telegram, the strain index, Gemini and web servers may make of it:
a sequence of steps `ensure`, `event`, `fanout`, `exec` (a statement that clears
the cache) and `read`, and a reply. A read's result changes what is left of
the plan (`AfterRead`). What a handler keeps to itself (text, HTTP) is left out,
presses and fan-outs are taken apart in `StrainPress` and `StrainBroadcast`.

`ReadCache`: `Select` and `Store` are the two halves of a miss, with anybody
between them; `late` marks a read or an entry that straddled a clearing; `Pass`
ages entries past their lifetime; `Change` is a tool of the operators. A result
is a version number, since those tools only insert and update.

`Ticker` is what the scheduler's runs do to the others: a statement that clears
the cache, an event. A run under way goes on after the signal, its context being
its own; what it does to the tables is `BroadcastRun`.

`UserUpserts`: `EnsureQueued`, or with a full queue `EnsureItself` and
`FallbackRecordsChat`; the worker takes a closure and makes its two statements
(`WorkerUpserts`, `WorkerRecordsChat`). `...Fails` is a statement without effect,
`...AnswerLost` one that took effect and reports an error, which drops the
second statement. `WorkerStops` leaves the queue as it is: closures in it then
never run. The accounts (`RequestsAccounted` and its like) count them as waiting
and `BotProcess` says until when that is worth something: while nobody has told
the process to stop, the worker is there (`EveryRequestCounts`, `LastNameWins`,
`GroupsAreKnown`); afterwards what is forgotten is bounded
(`ShutdownForgetsAQueueful`).

`DrainedChannel`: an item is `early` or `late`, sent before or after the signal;
`NoticeStop` is the case of the worker's select, `StopEmpty` the end of its
drain.

`Signal` cancels the context; every goroutine then stops in its own time, and
`Exit`, main's return, may come before any of them. A statement of the router
carries the context and may fail from then on. Failures at start-up end the
process before any of this runs.

## Runs

| run | instance | shows |
|---|---|---|
| `scheduler_safety` | two chats, a strain and a campaign, two puts per row, one fault of any kind at any point | the safety properties of `BroadcastRun`, its inductive invariant, and that it is an outbox |
| `scheduler_liveness` | a strain row and a campaign row beside a quiz that can never be sent, two clock values, window 0 | `EveryRowSettles` |
| `pipeline` | one chat, two searches, two ids, user upserts, a queue of one, and either a campaign or time with one crash, fault or failing statement | refinement, `NoCardAfterSweep`, and one broadcasts row per body until fan-outs overlap |
| `pipeline_full_queue` | queue of one, three searches | violation: two rows with one body |
| `pipeline_requeue_absorbed` | a second search during the first post | violation: the repeated search is swallowed |
| `intake` | three `/subscribe` commands of two chats, channel of one, two restarts, a failing statement | bounds on repeats and losses, `SubscriptionFollowsCommands`, `EveryUpdateLeaves` |
| `press_safety` | two users, one with two legacy rows, three updates, three tokens, shared cards, a restart and a fault, fairness | the press properties, the refinement of the intake, and that a handler whose calls end ends |
| `press_redelivered` | one press, one restart | violation: the press removes what it added |
| `converter` | five files of four campaigns: two of one payload, one template, one with the skip flag, one that always fails; two drops, one fault, the scheduler at work | one campaign per payload, moved means seeded, refinement, and that every file in front of the broken one gets through |
| `process` | queue and channels of one, two users, two chats; some thirty days of one to three updates | the ten properties of cache, upserts, drains and replies |
| `process_exit` | the same days | violation: main returns with an item in a buffer |
| `process_stale_read` | the same days | violation: an entry older than the last Exec |

Each takes between a second and some two minutes. `PROJECT.json` names for every
property a mutated definition under which the same run finds it violated.

### Why the bounds are enough

Two puts of a row are what a repeated search or a re-run converter needs; one
fault already separates post from record, and the proofs cover any number. The
page limit of the two scheduler runs is below the number of rows, so rows do
wait. A third clock value adds nothing `Window` 0 and 1 do not show with two.
Three tokens are enough for a card of each kind and for the refreshed
card of a press, in one strain; three
updates are enough for a search, a press and a press again, by one user or by
two, and a restart repeats one of them. Three commands are an on, an off and
another chat's. In `pipeline` the ids of broadcasts are symmetric, being
generated and never compared, and `FewEvents` keeps a campaign apart from time
and failures, the proofs covering all of it at once. A channel of one
distinguishes an update in the channel, in the router, and still at Telegram; two restarts let one update be repeated twice.
Two drops put one file down twice, or two files of one payload in either
order; one fault is enough to separate commit from rename, and a run may be
started any number of times. `Legacy` is 2 for the first user of `press_safety`
and 0 for everybody else (`StrainPressMC`): even, so that a first parity press
adds, and with one user who comes to a first find and its follow-up; an odd
number would start by removing, which the second press of each run already
does, and the theorem covers every `Legacy`.
`BotProcess` is bounded by its *days* (`MCDays`): each is a list of updates with
what the outside may do meanwhile, chosen for one conflict: three reads of the
whitelist while it changes; a text answered twice while its response is
corrected; a text without a response while one is added; three updates of one
user with two names in two chats, or a search between two updates, with a queue
of one, a failing statement and a signal; log lines around a signal; a statement
or an event of the ticker around a read and a signal; one update
of every kind. A queue of one is full as soon as one closure waits, so the router overtakes
it; a lifetime of one tick puts an entry on either side of its end.

`MaxUpdates`, `MaxTokens`, `MaxClock`, `MaxPuts`, `MaxSearches`, `MaxFaults`,
`MaxFailures`, `MaxCrashes`, `MaxDrops`, `MaxStops`, `MaxChanges`, `MaxItems` and the
`budget` of a day are the only counters, and bounds of the model,
not of the program. At `MaxTokens` the minting INSERT counts as failing, which
the code allows at any time.

Deadlock is checked in every run. A `BotProcess` that has exited is no deadlock:
time still passes.

### Fairness

The code bounds its statements where a context has a deadline (a run of the
scheduler, the deferred worker, the converter). It does not bound calls to
Telegram, whose client has no timeout (`app.go:63`), nor anything the router
does, whose context has no deadline (`routes/root.go:102`). That those end is an
assumption about Telegram and the database, and is named as one.

- `BroadcastRun`: weak fairness of the run (the ticker loop never returns
  before cancellation, and each statement ends by its context); strong fairness
  of a definitive answer for each sendable row: Telegram may fail as often as it
  likes, not for ever. That every send returns is the assumption. `EveryRowSettles`
  needs fewer than `Limit` rows that can never be sent: such rows keep their
  place in the page, newest first, until their window ends, and with `Limit` of
  them the code does starve the others.
- `UpdateIntake`: weak fairness of an answered poll and of taking an update,
  loops of goroutines that return only at shutdown. `EveryUpdateLeaves` is
  conditional: if handlers return (`HandlersReturn`), every update leaves.
  Without it one call that hangs holds up all updates for good.
- `StrainPress`: `CallsEnd`, weak fairness of the handler's next step, whatever
  that step is, failures included. From it `ImplementsFairIntake` derives
  `HandlersReturn`: the handler adds no way of its own to keep the router.
- `CampaignConverter`: weak fairness of a run's steps, each of which ends within
  the tool's 20 seconds, and of starting the tool while a file lies there: the
  operators' part. Nothing is assumed of the scheduler.
- `BotProcess`: weak fairness of time, none of any goroutine. `OldResultsGo`
  needs no more: an entry ends with its lifetime.
- No fairness is assumed of users, of crashes or of faults.

### What the code does not do

Five runs show the code and its own comments apart.

1. `handle-strain.go:757` promises a single broadcasts row per identical body.
   With the queue full the router fans out beside the worker; both look before
   either inserts, and nothing in the schema forbids the second row.
2. `handle-strain.go:758` promises that repeat searches re-queue. An upsert
   that falls between Telegram's answer and the recording UPDATE is absorbed:
   the row is marked sent, and the new request goes with it.
3. `handle-strain-press/root.go:7` promises that a second press removes. The
   toggle cannot tell a second press from the first one handed out again after
   a restart, which removes the encounter.
4. `logger.go:23` and `handle-events/root.go:1` promise that the buffers are
   drained. main waits for neither worker, and both stop at the first empty
   channel while others still add to it. `EarlyIsDrained` is what does hold: a
   worker that came to its end has dealt with everything from before the signal.
5. `database.go:17` promises a cached result until an Exec invalidates it. A
   read that straddles the clearing stores its rows after it, and the entry is
   served until its lifetime ends. `OnlyLateFillsAreStale` says that this is the
   only way, `ReadsMoveForward` and `OldResultsGo` why it does little harm: there
   is one reader, and the lifetime ends.

## Proofs

All seven proof modules are checked to the last leaf, from the named
assumptions on constants only (`Rows` a finite set of pairs, the bounds natural
numbers, `Limit` and the pipeline's `QueueSize` positive, `PutsSuffice` and
`SeedsFit`, by which the model's bound on puts never blocks a fan-out or a
conversion, and that the cached queries `Whitelist` and `Default` are two).

**BroadcastRunProofs.** `IInv` is inductive. `PostsBounded` alone is not: a
pending row still owes a post, and between post and record it owes none though
it is still pending. `Accounted` counts that debt (`Owed`), and `InFlight`
remembers that the row being recorded was posted and the chat of the row being
closed refused; `SweptRowsWanted` says what a sweep leaves pending, which is
what `CardsWanted` needs. Theorems: `TypeCorrect`, `PostsAreBounded`,
`MsgIdsAreHonest`, `ClosingHasCause`, `PageIsNeverStale`,
`CardsReachWantedChats` (an action property), `IInvAlways`.
`RunImplementsOutbox` maps each step to a step of the outbox or a stutter:
a page is no step at all, a post with a lost answer is a delivery unheard of, and
`InFlight` is what tells a record or a crash at `mark` from every other step.

**StrainBroadcastProofs.** `PipelineImplementsRun`: initial states map to
initial states, and every step is a step of `BroadcastRun` or leaves its
variables alone (`StepSimulation`). An upsert is a `Queue` because a fan-out at
its upsert holds an existing id, a chat, and a time that has been
(`FanoutsWellFormed`, invariant together with the types of queue and
executors), the clock only moving forward. `PipelinePostsBounded` follows.
`PipelineTypes` adds that a fan-out that runs has a payload (`PayloadsOK`).

One broadcasts row per body is not true of the code (above), and
`DuplicatesNeedOverlap` says exactly what it takes: nothing but two fan-outs at
the same time. Until then one executor at most is in a fan-out, whichever it is,
and what its SELECT did not find is still not there at the INSERT
(`AboutToInsert`), whatever else fills the queue, crashes or fails.

`UnsubscribingIsFinal` is about three tables and a page: a chat swept while it was
unsubscribed and held by no fan-out stays out of every fan-out's hands and has no
pending strain row until it subscribes again (`QuietOK`), and whatever a run
posts, from however old a page, is still pending (`PageStillPending`).

**UpdateIntakeProofs.** `RepeatsNeedRestarts` is not inductive: what this
process has begun lies below its channel, so an update has one repeat to spare
until the channel has passed it (`Credit`). `LossIsBounded` rests on Telegram
having confirmed at most a channel full ahead of the router (`Ahead`) and
nothing behind it that was not begun (`Behind`): a restart loses at most the
gap between them. Theorems: `IntakeTypeCorrect`, `RepeatsAreRestarts`,
`LossesAreBounded`.

**StrainPressProofs.** `PressImplementsIntake`, whence the intake's invariant
holds of it too and says that the update in the router exists. `PInv` adds that
a press among the updates names an existing token, that the handler holds an
outcome just between commit and return, and that an addition whose fan-out is
still to come is a find not yet used (`Due`). A press is shown to touch one
count only, to leave it 0 or 1 if its card is additive and within its pair if
it is a parity card (`ToggleFacts`). Theorems: `CardsTieOneEncounter`,
`ParityStaysInPair`, `FanoutsFollowFinds`,
`PressesAreRepeatedByRestarts` (the intake's bounds).

`EveryPressIsCounted` speaks of moments when the router is idle, so it is far
from inductive. `CountInv` says at every moment that each count has the parity
of the presses of it that are `Done`: begun, and past their transaction. The
intake's `Credit` supplies that without a restart an update not yet taken was
not begun before, so that taking it adds one press and not a repeat.
`COUNT(*)` is the size of a set of rows (`RowsOf`), from which `PressMovesOneRow`
(a commit changes the presser's total by one and no other total) and
`PressTypes` follow.

**CampaignConverterProofs.** `CInv` is inductive: the two properties, and
between commit and rename `MovingMeansSeeded`, which is `MovedMeansSeeded` one
step early. That the converter is a `Seed` needs that a row it offers anew has
never been put (`SeededOnce`): nothing else puts a campaign's rows and no row is
ever deleted. Theorems: `ConverterInvariant`, `ConverterTypes`,
`ConverterIsASeeder`, `PayloadsAreSentOnce`, `MovedFilesAreSeeded`, and from
`SeededOnce` with the scheduler's invariant `CampaignPostsAreBounded`: a chat
gets a campaign once, and once more per lost record, however often the converter
runs.

**BotProcessProofs.** `CacheInv` is inductive for `ReadCache` alone: an entry is
what was served last, which is no newer than the table. `RouterInv`, that the
router's plan is one of `Handlers` for its update and so reads keys of the
cache only (`PlansFit`), makes every step of the process a step of `ReadCache`
(`ProcessImplementsCache`), and `StaleEntriesAreLate` and `AnswersMoveForward`
follow. `DrainInv` adds to `EarlyIsDrained` that no worker leaves its loop
before the signal, which is never taken back (`AcceptedIsDrained`).
`UpsertInv` is the upserts' types with `GroupsAccounted`, a closure being
in the queue, in the worker's hand, in the router's fallback, or done with.
`WorkerInv`, that the worker stops only after a signal, turns the account into
`GroupsAreKnown` (`GroupsRemainKnown`). `BusyInv` ties a read between its halves to the step the
router is at (`ProcessTypes`).

`FallbackComesLast` ties three goroutines' tables and caches to a moment that has
passed, the one at which the text was taken. `AnswerInv`: if there was a response
then, one of the two queries still to be read has a row now and will be found to
have one (`WillAnswer`). It rests on `MissesNotKept` (the cache keeps no
`ErrNoRows`), on rows being added and changed but never deleted, and on what is
left of a plan being one of four `Stages`.

**UserUpsertsProofs.** `AccountInv` reads a user's row together with the closures
that wait for it, in the worker's hand and in the queue: `Counted` adds their
number to the requests, `Named` looks at the last of them that has a name. Taking
a closure from the front, putting one at the end, and letting one overtake all
are lemmas about any sequence of closures. Theorems: `RequestsAreCounted`,
`LastNameIsKept`, and, from the accounts and the capacity of the queue,
`ShutdownIsBounded`: whatever moment ends the process, what is forgotten is one
queue, one closure in hand and one fallback, however long it ran.

### Only model-checked

Liveness (`EveryRowSettles`, `EveryUpdateLeaves`, `EveryFileCompletes`,
`OldResultsGo`, and the fairness in `ImplementsFairIntake`, whose safety part is
`PressImplementsIntake`), since TLAPS reasons about neither fairness nor ENABLED;
and `SubscribeCommand`'s types and `SubscriptionFollowsCommands`.
Every other property of a passing run is a theorem. The five properties that
the code violates are TLC's counterexamples.

## Not modelled

Wording, HTML, what Gemini and the SDK answer, the analytics catalogue,
Grafana and the conversion of driver values keep no state that anything else
relies on. What a search finds, and which URLs a whitelist entry matches, are
inputs here. `HandleDeeplink` reaches the same code as a search with parity
tokens, and is a search of that kind. An analytics event may be dropped when
its channel is full; nothing reads events back, so no property is about that.

Concurrent processes of the bot (two pollers) are not modelled: Telegram
refuses the second poller. Of the converter: two runs at once, a payload edited
under its old id, and a file that does not parse, which ends a run before it
has begun. Of unknown messages: a response whose message is empty or equal to
the fallback. The other operator tools appear as what they do to a cached
query.

## Plan

1. `StrainLookup`: the single-hit rule, `ParseTokenID` and
   `createdAtFromBroadcastID` as pure operators against reference definitions.
2. Proofs: `SubscriptionFollowsCommands`, along the lines of
   `EveryPressIsCounted`; that `UserUpserts` implements an abstract account of requests and
   names, of which `RequestsAreCounted` and `LastNameIsKept` would be instances.
