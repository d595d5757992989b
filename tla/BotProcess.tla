----------------------------- MODULE BotProcess -----------------------------
(***************************************************************************)
(* One process of the bot (app.go), from the start of its goroutines to    *)
(* the return of main, with what they share: the update router, which      *)
(* carries out one plan of Handlers at a time; the worker of the deferred  *)
(* writes; the ticker of the scheduler, whose runs BroadcastRun takes      *)
(* apart; the analytics worker; the asynchronous logger.  All but the last *)
(* issue statements on one database handle, and so clear the one read      *)
(* cache; only the router reads through it.  A signal cancels the context, *)
(* upon which every goroutine returns when it notices, in any order, and   *)
(* main, which waits for none of them, ends the process.                   *)
(***************************************************************************)
EXTENDS ReadCache, UserUpserts

CONSTANTS
  Whitelist, Default, NoKey, Nobody, MaxItems,  \* see Handlers
  EventSize, LineSize,  \* capacities of the analytics channel and of the logger's
  Updates,              \* records with a kind, a user, a name, a chat, and what the kind has
  NoUpdate,
  Days                  \* the updates of a behaviour, and its bounds

\* Bounds: queries that operators' tools change, statements that fail, lines that are logged,
\* steps of the scheduler, and whether the process is ever told to stop.
Budgets == [tools : SUBSET Keys, fails : Nat, lines : Nat, ticks : Nat, signal : BOOLEAN]

ASSUME ProcessAssumption ==
  /\ {EventSize, LineSize, MaxItems} \subseteq Nat
  /\ {Whitelist, Default} \subseteq Keys /\ Whitelist # Default /\ NoKey \notin Keys
  /\ RowKeys = Keys \ {Whitelist}
  /\ Nobody \notin Users
  /\ \A u \in Updates :
       /\ u.user \in Users \cup {Nobody} /\ u.name \in Names \cup {NoName} /\ u.chat \in Chats
       /\ u.kind \in {"command", "text", "url", "bare", "callback", "inline", "chat_member"}
       /\ u.kind = "text" => u.key \in (Keys \ {Whitelist}) \cup {NoKey}
  /\ Days \subseteq [inbox : Seq(Updates), budget : Budgets]

VARIABLES
  phase,  \* "running", "stopping" (the context is cancelled) or "exited"
  inbox,  \* updates that are not handed out yet
  router, \* "idle" (in its select), "busy" or "stopped"
  update, \* the update being handled
  plan,   \* what is left of its handling
  eventChan, eventHand, eventWorker,  \* analytics
  lineChan, lineHand, lineWorker,     \* log
  budget,      \* bounds of this behaviour
  hadResponse  \* observer: a response for the update existed when it was taken

INSTANCE Handlers

Cancelled == phase # "running"

Analytics ==
  INSTANCE DrainedChannel WITH
    Size <- EventSize, stopping <- Cancelled,
    chan <- eventChan, hand <- eventHand, worker <- eventWorker

Log ==
  INSTANCE DrainedChannel WITH
    Size <- LineSize, stopping <- Cancelled,
    chan <- lineChan, hand <- lineHand, worker <- lineWorker

userVars == <<upsertVars, askVars>>
routerVars == <<router, update, plan, hadResponse>>
eventVars == <<eventChan, eventHand, eventWorker>>
lineVars == <<lineChan, lineHand, lineWorker>>
vars == <<phase, inbox, budget, routerVars, userVars, cacheVars, eventVars, lineVars>>

NoPlan == Plan(<<>>, "none")

ProcessTypeOK ==
  /\ CacheTypeOK /\ UpsertTypeOK
  /\ Analytics!ChannelTypeOK /\ Log!ChannelTypeOK
  /\ inbox \in Seq(Updates)
  /\ phase \in {"running", "stopping", "exited"}
  /\ router \in {"idle", "busy", "stopped"}
  /\ budget \in Budgets
  /\ router # "busy" => update = NoUpdate /\ plan = NoPlan /\ reading = NoRead /\ fallback = NoChat
  /\ hadResponse \in BOOLEAN

Init ==
  /\ CacheInit /\ UpsertInit /\ Analytics!ChannelInit /\ Log!ChannelInit
  /\ phase = "running"
  /\ \E d \in Days : inbox = d.inbox /\ budget = d.budget
  /\ router = "idle" /\ update = NoUpdate /\ plan = NoPlan
  /\ hadResponse = FALSE

Alive == phase # "exited"

-----------------------------------------------------------------------------
(* The router                                                              *)

Exists(k) == k \in Keys /\ table[k] # Absent

Take ==
  /\ Alive /\ router = "idle" /\ inbox # <<>>
  /\ update' = Head(inbox) /\ inbox' = Tail(inbox)
  /\ plan' \in Plans(update')
  /\ router' = "busy"
  /\ hadResponse' = (update'.kind = "text" /\ (Exists(update'.key) \/ Exists(Default)))
  /\ UNCHANGED <<phase, budget, userVars, cacheVars, eventVars, lineVars>>

\* The reply is sent, or not; the router is back in its select.
Finish ==
  /\ Alive /\ router = "busy" /\ plan.todo = <<>>
  /\ router' = "idle" /\ update' = NoUpdate /\ plan' = NoPlan /\ hadResponse' = FALSE
  /\ UNCHANGED <<phase, inbox, budget, userVars, cacheVars, eventVars, lineVars>>

RouterStops ==
  /\ Alive /\ router = "idle" /\ Cancelled
  /\ router' = "stopped"
  /\ UNCHANGED <<phase, inbox, budget, update, plan, hadResponse, userVars, cacheVars, eventVars, lineVars>>

At(s) ==
  /\ Alive /\ router = "busy" /\ fallback = NoChat
  /\ plan.todo # <<>> /\ Head(plan.todo).step = s

Continue(p) == plan' = p /\ UNCHANGED <<phase, inbox, router, update, hadResponse, lineVars>>
Proceed == Continue(Plan(Tail(plan.todo), plan.reply))
Stay == Continue(plan)
Abort == Continue(Plan(<<>>, "error"))

SpendFail == budget.fails > 0 /\ budget' = [budget EXCEPT !.fails = @ - 1]

\* The statements of the router carry the context, and fail once it is cancelled.
RouterFails == IF Cancelled THEN UNCHANGED budget ELSE SpendFail

Sender == [user |-> update.user, name |-> update.name, chat |-> update.chat]

RouterEnsures ==
  /\ At("ensure")
  /\ \/ EnsureQueued(Sender) /\ Proceed /\ UNCHANGED <<budget, cacheVars>>
     \/ /\ EnsureItself(Sender) /\ Clear /\ UNCHANGED budget
        /\ IF InGroup(update) THEN Stay ELSE Proceed
     \/ EnsureAnswerLost(Sender) /\ RouterFails /\ Abort /\ UNCHANGED cacheVars
     \/ EnsureFails(Sender) /\ RouterFails /\ Abort /\ UNCHANGED cacheVars
  /\ UNCHANGED eventVars

RouterRecordsChat ==
  /\ Alive
  /\ \/ FallbackRecordsChat /\ Clear /\ Proceed /\ UNCHANGED budget
     \/ (FallbackRecordsChat \/ FallbackChatFails) /\ RouterFails /\ Abort /\ UNCHANGED cacheVars
  /\ UNCHANGED eventVars

\* The event is dropped when the channel is full.
TrackEvent == Analytics!TrySend \/ (Analytics!IsFull /\ UNCHANGED eventVars)

RouterTracks ==
  /\ At("event") /\ TrackEvent /\ Proceed
  /\ UNCHANGED <<budget, userVars, cacheVars>>

\* A full queue makes the router fan out itself; some of its statements may succeed.
RouterFansOut ==
  /\ At("fanout")
  /\ \/ Enqueue(FanoutWork) /\ UNCHANGED cacheVars
     \/ QueueIsFull /\ UNCHANGED deferred /\ (Clear \/ UNCHANGED cacheVars)
  /\ Proceed
  /\ UNCHANGED <<budget, work, workAt, fallback, users, groupChats, askVars, eventVars>>

RouterExecs ==
  /\ At("exec")
  /\ \/ Clear /\ Proceed /\ UNCHANGED budget
     \/ RouterFails /\ Abort /\ UNCHANGED cacheVars
  /\ UNCHANGED <<userVars, eventVars>>

Resume(v) == Continue(AfterRead(update, plan, v # Absent)) /\ UNCHANGED budget

RouterReads ==
  /\ At("read")
  /\ LET k == Head(plan.todo).key
     IN  \/ Hit(k) /\ Resume(entry[k].value)
         \/ Select(k) /\ Stay /\ UNCHANGED budget
         \/ Store /\ Resume(reading.value)
         \/ ReadFails /\ RouterFails /\ Abort
  /\ UNCHANGED <<userVars, eventVars>>

Router ==
  \/ Take \/ Finish \/ RouterStops
  \/ RouterEnsures \/ RouterRecordsChat \/ RouterTracks \/ RouterFansOut \/ RouterExecs
  \/ RouterReads

-----------------------------------------------------------------------------
(* The worker of the deferred writes                                       *)

DeferredWorker ==
  /\ Alive
  /\ \/ WorkerTakes /\ UNCHANGED <<budget, cacheVars>>
     \/ WorkerUpserts /\ Clear /\ UNCHANGED budget
     \/ WorkerRecordsChat /\ Clear /\ UNCHANGED budget
     \/ WorkerRecordsChat /\ SpendFail /\ UNCHANGED cacheVars
     \/ WorkerAnswerLost /\ SpendFail /\ UNCHANGED cacheVars
     \/ WorkerFails /\ SpendFail /\ UNCHANGED cacheVars
     \/ WorkerFansOut /\ (Clear \/ UNCHANGED cacheVars) /\ UNCHANGED budget
     \/ Cancelled /\ WorkerStops /\ UNCHANGED <<budget, cacheVars>>
  /\ UNCHANGED <<phase, inbox, routerVars, eventVars, lineVars>>

-----------------------------------------------------------------------------
(* The ticker of the scheduler                                             *)

\* What a run does to the others: its statements clear the cache, its outcomes are events.
\* The context of a run is its own (handle-broadcast/root.go:78), so one that is under way
\* goes on after the signal.
Ticker ==
  /\ Alive /\ budget.ticks > 0
  /\ budget' = [budget EXCEPT !.ticks = @ - 1]
  /\ \/ Clear /\ UNCHANGED eventVars
     \/ TrackEvent /\ UNCHANGED cacheVars
  /\ UNCHANGED <<phase, inbox, routerVars, userVars, lineVars>>

-----------------------------------------------------------------------------
(* Analytics and log                                                       *)

AnalyticsWorker ==
  /\ Alive
  /\ \/ Analytics!Receive /\ UNCHANGED <<budget, cacheVars>>
     \/ Analytics!Process /\ Clear /\ UNCHANGED budget
     \/ Analytics!Process /\ SpendFail /\ UNCHANGED cacheVars
     \/ (Analytics!NoticeStop \/ Analytics!StopEmpty) /\ UNCHANGED <<budget, cacheVars>>
  /\ UNCHANGED <<phase, inbox, routerVars, userVars, lineVars>>

\* Any goroutine, at any time.  A line that finds the channel full, or the context
\* cancelled, may be written at once.
LogLine ==
  /\ Alive /\ budget.lines > 0
  /\ Log!TrySend \/ ((Log!IsFull \/ Cancelled) /\ UNCHANGED lineVars)
  /\ budget' = [budget EXCEPT !.lines = @ - 1]
  /\ UNCHANGED <<phase, inbox, routerVars, userVars, cacheVars, eventVars>>

LogWorker ==
  /\ Alive
  /\ Log!Receive \/ Log!Process \/ Log!NoticeStop \/ Log!StopEmpty
  /\ UNCHANGED <<phase, inbox, budget, routerVars, userVars, cacheVars, eventVars>>

-----------------------------------------------------------------------------
(* The process and its surroundings                                        *)

Signal ==
  /\ phase = "running" /\ budget.signal
  /\ phase' = "stopping"
  /\ UNCHANGED <<inbox, budget, routerVars, userVars, cacheVars, eventVars, lineVars>>

\* main returns.
Exit ==
  /\ phase = "stopping" /\ phase' = "exited"
  /\ UNCHANGED <<inbox, budget, routerVars, userVars, cacheVars, eventVars, lineVars>>

Operators ==
  /\ \E k \in budget.tools : Change(k)
  /\ UNCHANGED <<phase, inbox, budget, routerVars, userVars, eventVars, lineVars>>

Time ==
  /\ Pass
  /\ UNCHANGED <<phase, inbox, budget, routerVars, userVars, eventVars, lineVars>>

Next ==
  \/ Router \/ DeferredWorker \/ Ticker \/ AnalyticsWorker \/ LogLine \/ LogWorker
  \/ Signal \/ Exit \/ Operators \/ Time

Spec == Init /\ [][Next]_vars

\* Time does not stop.  Nothing is assumed of the goroutines.
FairSpec == Spec /\ WF_vars(Time)

-----------------------------------------------------------------------------
(* Properties                                                              *)

\* While the process is not told to stop, a call of EnsureUser (middleware/handle-user.go:47)
\* is counted once in the row of its user, or failed, or waits in a closure that the worker
\* is still there to run.
EveryRequestCounts == ~Cancelled => workAt # "stopped" /\ RequestsAccounted

\* Until then the last name given wins, once what waits is done, unless a statement failed or
\* the router overtook a closure of the same user (handle-user.go:50-60): only a full queue
\* leaves a stale name.  Closures dropped at the stop are another reason (deferred.go:48).
LastNameWins == ~Cancelled => workAt # "stopped" /\ NamesAccounted

\* Until then a group somebody wrote in is recorded, or a statement failed, or it waits in a
\* closure that the worker is still there to run, or in the router's fallback: the audience
\* of campaigns misses no other.
GroupsAreKnown == ~Cancelled => workAt # "stopped" /\ GroupsAccounted

\* Whenever the process ends (app.go:121), in the middle of what it does or with a worker
\* that dropped its queue (deferred.go:47-51), it forgets of every user and of the groups no
\* more than a queue, a closure in the worker's hand and a fallback of the router hold: of a
\* longer time nothing is forgotten.
ShutdownForgetsAQueueful ==
  /\ \A u \in Users :
       LET made == users[u].requests + lost[u]
       IN  made <= asked[u] /\ asked[u] <= made + QueueSize + 1
  /\ Cardinality(askedIn \ (groupChats \cup lostChats)) <= QueueSize + 2

\* What logger.go:23 says of the buffer, for it and for the events (handle-events/root.go:1):
\* when the process ends nothing is left in them.
NothingIsLeftBehind == phase = "exited" => Analytics!Drained /\ Log!Drained

\* What database.go:17 says of an entry: it is used "until invalidation on Exec", so what the
\* cache would serve was read after the last statement that succeeded.
ExecInvalidates == \A k \in Keys : Usable(k) => entry[k].value >= clearedAt[k]

\* What analytics and log had accepted before the signal is out when their workers return
\* (handle-events/root.go:44, "the buffer is drained", logger.go:23), whatever is added
\* meanwhile; main may return before.
EarlyIsDrained == Analytics!EarlyIsDrained /\ Log!EarlyIsDrained

\* A miss is not cached (database.go:94), so nobody is put off with an old one: somebody is
\* told that there is no response only in a private chat, and only if there was none when the
\* update was taken.
FallbackIsLastResort ==
  router = "busy" /\ plan.reply = "fallback" => ~InGroup(update) /\ ~hadResponse

\* All that goroutines and tools do to the cache and what it caches are steps of ReadCache.
ImplementsCache == CacheSpec

=============================================================================
