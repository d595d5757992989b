-------------------------- MODULE StrainBroadcast ---------------------------
(***************************************************************************)
(* The strain-search -> broadcast pipeline, whole.  A strain search makes  *)
(* the update router ask for a fan-out: the closure goes to the deferred   *)
(* write queue, whose single worker runs it, or, when the queue is full,   *)
(* the router runs it itself before it takes the next update.  The user    *)
(* upsert of every update fills the same queue.  A fan-out                 *)
(* (queueStrainSubscriptionBroadcastsWithStore) is several statements, not *)
(* a transaction: it reads the subscribed chats, and for each of them      *)
(* finds or inserts the broadcasts row and upserts the outgoing row.  The  *)
(* scheduler of BroadcastRun works on the same tables meanwhile.  This     *)
(* specification replaces BroadcastRun's Queue action, which happens at    *)
(* will, by the fan-out that performs it, and implements BroadcastRun.     *)
(***************************************************************************)
EXTENDS BroadcastRun, Sequences

CONSTANTS
  Bodies,      \* payloads: one per strain that is searched
  None,        \* no payload, no chat, no broadcast
  Other,       \* a queued closure that is no fan-out: the user upsert of an update
  QueueSize,   \* deferredWriteQueueSize
  MaxSearches, \* bound: strain searches
  MaxFailures  \* bound: failing statements of the fan-out

ASSUME NoneAssumption == None \notin Bodies \cup Chats \cup StrainBroadcasts
ASSUME OtherAssumption == Other \notin Bodies
ASSUME RowsForStrains == StrainBroadcasts \X Chats \subseteq Rows
ASSUME QueueSizeAssumption == QueueSize \in Nat \ {0}
\* A fan-out queues a row at most once, so the bound on puts never blocks it.
ASSUME PutsSuffice == MaxSearches \in Nat /\ MaxSearches <= MaxPuts /\ MaxFailures \in Nat

VARIABLES
  body,     \* payload of each broadcasts row, None before it is inserted
  bornAt,   \* its created_at
  queue,    \* the deferred write queue: bodies to fan out, and other closures
  exec,     \* the fan-out the worker and the router are in
  searches, failures,  \* counters of the bounds
  \* Observers.
  quiet,    \* chats a sweep found unsubscribed while no fan-out held them, and still so
  owed,     \* rows queued since they were last posted
  overlapped \* the worker and the router were both in a fan-out at some time

fanVars == <<body, bornAt, queue, exec, searches, failures>>
allVars == <<vars, fanVars, quiet, owed, overlapped>>

Executors == {"worker", "router"}
Idle == [step |-> "idle", body |-> None, at |-> 0, todo |-> {}, chat |-> None, id |-> None]

FanoutStates ==
  [step : {"idle", "read", "next", "insert", "upsert"}, body : Bodies \cup {None}, at : Nat,
   todo : SUBSET Chats, chat : Chats \cup {None}, id : StrainBroadcasts \cup {None}]

PipelineTypeOK ==
  /\ TypeOK
  /\ body \in [StrainBroadcasts -> Bodies \cup {None}]
  /\ bornAt \in [StrainBroadcasts -> Nat]
  /\ queue \in Seq(Bodies \cup {Other}) /\ Len(queue) <= QueueSize
  /\ exec \in [Executors -> FanoutStates]
  /\ quiet \subseteq Chats
  /\ owed \subseteq Rows
  /\ overlapped \in BOOLEAN

PipelineInit ==
  /\ Init
  /\ body = [b \in StrainBroadcasts |-> None]
  /\ bornAt = [b \in StrainBroadcasts |-> 0]
  /\ queue = <<>>
  /\ exec = [w \in Executors |-> Idle]
  /\ searches = 0 /\ failures = 0
  /\ quiet = {} /\ owed = {} /\ overlapped = FALSE

-----------------------------------------------------------------------------
(* Asking for a fan-out                                                    *)

RouterFree == exec["router"] = Idle

\* Executor w goes on in fan-out state e.
Become(w, e) == exec' = [exec EXCEPT ![w] = e]

Begin(w, k) == Become(w, [Idle EXCEPT !.step = "read", !.body = k])

\* queueStrainSubscriptionBroadcasts: Enqueue, or run it in the router when the queue is full.
Search(k) ==
  /\ RouterFree
  /\ searches < MaxSearches /\ searches' = searches + 1
  /\ \/ /\ Len(queue) < QueueSize
        /\ queue' = Append(queue, k)
        /\ UNCHANGED exec
     \/ /\ Len(queue) = QueueSize
        /\ Begin("router", k)
        /\ UNCHANGED queue
  /\ UNCHANGED <<vars, body, bornAt, failures>>

\* EnsureUser queues the upsert of an update's user; in a full queue it takes no room.
Ensure ==
  /\ RouterFree
  /\ Len(queue) < QueueSize
  /\ queue' = Append(queue, Other)
  /\ UNCHANGED <<vars, body, bornAt, exec, searches, failures>>

\* The worker receives a user upsert and runs it: no table of this model changes.
RunOther ==
  /\ exec["worker"] = Idle /\ queue # <<>> /\ Head(queue) = Other
  /\ queue' = Tail(queue)
  /\ UNCHANGED <<vars, body, bornAt, exec, searches, failures>>

\* The worker receives the next fan-out.
Dequeue ==
  /\ exec["worker"] = Idle /\ queue # <<>> /\ Head(queue) \in Bodies
  /\ Begin("worker", Head(queue))
  /\ queue' = Tail(queue)
  /\ UNCHANGED <<vars, body, bornAt, searches, failures>>

-----------------------------------------------------------------------------
(* The fan-out, one statement at a time                                    *)

\* A fan-out to chats that are not subscribed, and one that schedules ahead of the clock.
ReadAllChats(w) ==
  /\ exec[w].step = "read"
  /\ Become(w, [exec[w] EXCEPT !.step = "next", !.at = clock, !.todo = Chats])
  /\ UNCHANGED <<vars, body, bornAt, queue, searches, failures>>

ReadAheadOfTime(w) ==
  /\ exec[w].step = "read"
  /\ Become(w, [exec[w] EXCEPT !.step = "next", !.at = clock + 1, !.todo = subs])
  /\ UNCHANGED <<vars, body, bornAt, queue, searches, failures>>

\* SELECT the enabled subscriptions; the row set is a snapshot, and now is read after it.
ReadSubscribers(w) ==
  /\ exec[w].step = "read"
  /\ Become(w, [exec[w] EXCEPT !.step = "next", !.at = clock, !.todo = subs])
  /\ UNCHANGED <<vars, body, bornAt, queue, searches, failures>>

\* A lookup that never finds an equal payload.
WithNoBody(k) == {b \in StrainBroadcasts : body[b] = k /\ k = None}

WithBody(k) == {b \in StrainBroadcasts : body[b] = k}

\* The next chat: ensureBroadcastForPayload looks for the oldest broadcast with this body.
FindBroadcast(w, c) ==
  /\ exec[w].step = "next" /\ c \in exec[w].todo
  /\ LET found == WithBody(exec[w].body)
         skip  == [exec[w] EXCEPT !.todo = @ \ {c}, !.chat = c]
     IN  \/ /\ found = {}
            /\ Become(w, [skip EXCEPT !.step = "insert"])
         \/ \E b \in found :
              /\ \A d \in found : bornAt[b] <= bornAt[d]
              /\ Become(w, [skip EXCEPT !.step = "upsert", !.id = b])
  /\ UNCHANGED <<vars, body, bornAt, queue, searches, failures>>

\* An INSERT with its parameters swapped.
InsertSwapped(w, b) ==
  /\ exec[w].step = "insert" /\ body[b] = None
  /\ body' = [body EXCEPT ![b] = exec[w].chat]
  /\ bornAt' = [bornAt EXCEPT ![b] = exec[w].at]
  /\ Become(w, [exec[w] EXCEPT !.step = "upsert", !.id = b])
  /\ UNCHANGED <<vars, queue, searches, failures>>

\* INSERT INTO broadcasts under a fresh id.
InsertBroadcast(w, b) ==
  /\ exec[w].step = "insert" /\ body[b] = None
  /\ body' = [body EXCEPT ![b] = exec[w].body]
  /\ bornAt' = [bornAt EXCEPT ![b] = exec[w].at]
  /\ Become(w, [exec[w] EXCEPT !.step = "upsert", !.id = b])
  /\ UNCHANGED <<vars, queue, searches, failures>>

NextChat(w) == Become(w, [exec[w] EXCEPT !.step = "next", !.chat = None, !.id = None])

\* Upsert the outgoing row: BroadcastRun's Queue.
QueueChat(w) ==
  /\ exec[w].step = "upsert"
  /\ Queue(<<exec[w].id, exec[w].chat>>, exec[w].at)
  /\ NextChat(w)
  /\ UNCHANGED <<body, bornAt, queue, searches, failures>>

EndFanout(w) ==
  /\ exec[w].step = "next" /\ exec[w].todo = {}
  /\ Become(w, Idle)
  /\ UNCHANGED <<vars, body, bornAt, queue, searches, failures>>

\* A statement fails, or its context expired: without the snapshot the fan-out gives up, and
\* otherwise it skips the chat.  The INSERT may have taken effect although its answer was
\* lost; an upsert that did is a QueueChat.
FanoutFails(w) ==
  /\ failures < MaxFailures /\ failures' = failures + 1
  /\ \/ /\ exec[w].step \in {"read", "next"}
        /\ Become(w, Idle)
        /\ UNCHANGED <<body, bornAt>>
     \/ \E c \in exec[w].todo :
        /\ exec[w].step = "next"
        /\ Become(w, [exec[w] EXCEPT !.todo = @ \ {c}])
        /\ UNCHANGED <<body, bornAt>>
     \/ /\ exec[w].step \in {"insert", "upsert"}
        /\ NextChat(w)
        /\ UNCHANGED <<body, bornAt>>
     \/ \E b \in StrainBroadcasts :
        /\ exec[w].step = "insert" /\ body[b] = None
        /\ body' = [body EXCEPT ![b] = exec[w].body]
        /\ bornAt' = [bornAt EXCEPT ![b] = exec[w].at]
        /\ NextChat(w)
  /\ UNCHANGED <<vars, queue, searches>>

-----------------------------------------------------------------------------
(* The rest: the scheduler, the router's other work, time, a crash         *)

SchedulerStep ==
  /\ RunStep \/ (\E r \in Rows : PostAnswerLost(r)) \/ RunFails \/ StatementAnswerLost \/ Expire
  /\ UNCHANGED fanVars

\* /subscribe is an update like any other: the router handles it when it is free.
Subscribe(c) == RouterFree /\ Toggle(c) /\ UNCHANGED fanVars

Campaign(b, R, at) == Seed(b, R, at) /\ UNCHANGED fanVars

Time == Tick /\ UNCHANGED fanVars

\* The process dies: the queue and the fan-outs in progress are gone.
ProcessDies ==
  /\ Crash
  /\ queue' = <<>>
  /\ exec' = [w \in Executors |-> Idle]
  /\ UNCHANGED <<body, bornAt, searches, failures>>

Fanout(w) ==
  \/ ReadSubscribers(w)
  \/ \E c \in Chats : FindBroadcast(w, c)
  \/ \E b \in StrainBroadcasts : InsertBroadcast(w, b)
  \/ QueueChat(w) \/ EndFanout(w) \/ FanoutFails(w)

\* Chats a fan-out took from its snapshot and may still queue for.
Held == UNION {exec[w].todo \cup {exec[w].chat} : w \in Executors}

\* The observers follow every step.
Observe ==
  /\ quiet' = (IF pc = "idle" /\ pc' = "select" THEN quiet \cup (Chats \ (subs \cup Held))
               ELSE quiet) \ subs'
  /\ owed' = {r \in Rows : \/ puts'[r] > puts[r]
                           \/ r \in owed /\ posts'[r] = posts[r]}
  /\ overlapped' = (overlapped \/ \A w \in Executors : exec'[w] # Idle)

PipelineNext ==
  \/ \E k \in Bodies : Search(k) /\ Observe
  \/ Ensure /\ Observe
  \/ RunOther /\ Observe
  \/ Dequeue /\ Observe
  \/ \E w \in Executors : Fanout(w) /\ Observe
  \/ SchedulerStep /\ Observe
  \/ \E c \in Chats : Subscribe(c) /\ Observe
  \/ \E b \in Broadcasts, R \in SUBSET Rows, at \in 0 .. MaxClock : Campaign(b, R, at) /\ Observe
  \/ Time /\ Observe
  \/ ProcessDies /\ Observe

PipelineSpec == PipelineInit /\ [][PipelineNext]_allVars

-----------------------------------------------------------------------------
(* Properties                                                              *)

\* A fan-out upserts under the id and the time it holds: both are there, and the time has
\* been, when it gets to the upsert.  This is what makes its upsert a Queue of BroadcastRun.
FanoutsWellFormed ==
  /\ clock >= 1
  /\ \A w \in Executors :
       /\ exec[w].step \in {"next", "insert", "upsert"} => exec[w].at \in Times
       /\ exec[w].step \in {"insert", "upsert"} => exec[w].chat \in Chats
       /\ exec[w].step = "upsert" => exec[w].id \in StrainBroadcasts

\* The pipeline implements BroadcastRun, so what is proved of BroadcastRun holds of it.
ImplementsBroadcastRun == Spec

\* One broadcasts row per identical body (handle-strain.go:757).  SELECT and INSERT are two
\* statements, and no constraint on payload backs them.
OneBroadcastPerBody ==
  \A b, d \in StrainBroadcasts : body[b] = body[d] /\ body[b] # None => b = d

\* Two broadcasts of one body need two fan-outs at once, the worker's and one the router makes
\* when the queue is full.  Fan-outs one after the other, by either of them, reuse the row
\* whatever failed, was lost or died before (handle-strain.go:852).
OneBroadcastUnlessOverlapped == ~overlapped => OneBroadcastPerBody

\* Unsubscribing is final: once a run swept while a chat was unsubscribed, and no fan-out then
\* still held it from an older read, the chat gets no strain card until it subscribes again.
NoCardAfterSweep ==
  [][\A r \in StrainRows : posts'[r] # posts[r] => ChatOf(r) \notin quiet]_allVars

\* A repeated search re-queues the card (handle-strain.go:758): a row that was queued after
\* its last post is not left marked as delivered.
RequeueIsResent == \A r \in owed : r \in hasMsgId => r \in pending

=============================================================================
