----------------------------- MODULE UserUpserts -----------------------------
(***************************************************************************)
(* The rows every update leaves about its sender (middleware/              *)
(* handle-user.go): EnsureUser hands a closure to the deferred write queue *)
(* (utils/db/deferred.go), or performs it itself when the queue is full.   *)
(* The closure is two statements: count the request and keep the last      *)
(* non-empty name of the user, then record the chat if it is a group.  One *)
(* worker runs the closures in order; what fails is logged and dropped,    *)
(* and what is queued when the worker stops is never run.                  *)
(***************************************************************************)
EXTENDS Naturals, Sequences, SequencesExt

CONSTANTS
  Users, Names,
  Chats, Groups,  \* group chats have a negative id
  NoName,         \* the empty string, and the column of a user without a name
  NoWork,         \* the worker has no closure in hand
  NoChat,         \* the router is not in a fallback of its own
  FanoutWork,     \* the other closure that is queued: the fan-out of a search
  QueueSize

ASSUME UpsertAssumption ==
  /\ Groups \subseteq Chats /\ NoName \notin Names /\ NoChat \notin Chats
  /\ QueueSize \in Nat
  /\ {NoWork, FanoutWork} \cap [user : Users, name : Names \cup {NoName}, chat : Chats] = {}
  /\ NoWork # FanoutWork

VARIABLES
  deferred,   \* the channel of closures
  work,       \* the worker's closure
  workAt,     \* its next statement: "user" or "chat"; "stopped" when the worker returned
  fallback,   \* the chat that the router's fallback has yet to record
  users,      \* table users
  groupChats, \* table group_chats
  \* Observers
  asked,      \* calls of EnsureUser per user
  lost,       \* of these, upserts that failed without effect
  askedIn,    \* groups they came from
  lostChats,  \* groups that were not recorded because a statement failed
  lastName,   \* last non-empty name that was passed
  overtaken   \* users whose queued upsert was overtaken by a fallback

upsertVars == <<deferred, work, workAt, fallback, users, groupChats>>
askVars == <<asked, lost, askedIn, lostChats, lastName, overtaken>>

Upserts == [user : Users, name : Names \cup {NoName}, chat : Chats]
Closures == Upserts \cup {FanoutWork}

UpsertTypeOK ==
  /\ deferred \in Seq(Closures) /\ Len(deferred) <= QueueSize
  /\ work \in Closures \cup {NoWork}
  /\ workAt \in {"user", "chat", "stopped"}
  /\ workAt = "chat" => work \in Upserts /\ work.chat \in Groups
  /\ workAt = "stopped" => work = NoWork
  /\ fallback \in Groups \cup {NoChat}
  /\ users \in [Users -> [name : Names \cup {NoName}, requests : Nat]]
  /\ groupChats \subseteq Groups
  /\ asked \in [Users -> Nat] /\ lost \in [Users -> Nat]
  /\ askedIn \subseteq Groups /\ lostChats \subseteq Groups
  /\ lastName \in [Users -> Names \cup {NoName}]
  /\ overtaken \subseteq Users

UpsertInit ==
  /\ deferred = <<>> /\ work = NoWork /\ workAt = "user" /\ fallback = NoChat
  /\ users = [u \in Users |-> [name |-> NoName, requests |-> 0]]
  /\ groupChats = {}
  /\ asked = [u \in Users |-> 0] /\ lost = [u \in Users |-> 0]
  /\ askedIn = {} /\ lostChats = {}
  /\ lastName = [u \in Users |-> NoName]
  /\ overtaken = {}

-----------------------------------------------------------------------------
(* The statements                                                          *)

GroupsOf(x) == {x.chat} \cap Groups

\* An upsert that sets the name to whatever Telegram sent.
UpsertedBlindly(row, name) == [name |-> name, requests |-> row.requests + 1]

\* COALESCE(NULLIF(EXCLUDED.username, ''), users.username), total_requests + 1
Upserted(row, name) ==
  [name |-> IF name = NoName THEN row.name ELSE name, requests |-> row.requests + 1]

UpsertUser(x) == users' = [users EXCEPT ![x.user] = Upserted(@, x.name)]

-----------------------------------------------------------------------------
(* EnsureUser, by the router                                               *)

QueueIsFull == Len(deferred) >= QueueSize

\* A queue that grows instead of refusing.
EnqueueAnyway(c) == deferred' = Append(deferred, c)

Enqueue(c) == ~QueueIsFull /\ deferred' = Append(deferred, c)

\* Closures that are accepted and whose first statement is not yet made, in order.
Waiting == (IF work # NoWork /\ workAt = "user" THEN <<work>> ELSE <<>>) \o deferred

\* Where in that order the upserts of user u are.
PendingUpserts(u) == {i \in DOMAIN Waiting : Waiting[i] # FanoutWork /\ Waiting[i].user = u}

Ask(x) ==
  /\ asked' = [asked EXCEPT ![x.user] = @ + 1]
  /\ askedIn' = askedIn \cup GroupsOf(x)
  /\ lastName' = IF x.name = NoName THEN lastName ELSE [lastName EXCEPT ![x.user] = x.name]

EnsureQueued(x) ==
  /\ fallback = NoChat /\ Enqueue(x)
  /\ Ask(x)
  /\ UNCHANGED <<work, workAt, fallback, users, groupChats, lost, lostChats, overtaken>>

\* A full queue that is taken for a queued upsert.
EnsureDropped(x) ==
  /\ fallback = NoChat /\ QueueIsFull
  /\ Ask(x)
  /\ UNCHANGED <<upsertVars, lost, lostChats, overtaken>>

\* The queue is full: the router makes the upsert before those that are queued.
EnsureItself(x) ==
  /\ fallback = NoChat /\ QueueIsFull
  /\ UpsertUser(x)
  /\ fallback' = IF x.chat \in Groups THEN x.chat ELSE NoChat
  /\ Ask(x)
  /\ overtaken' = IF PendingUpserts(x.user) = {} THEN overtaken ELSE overtaken \cup {x.user}
  /\ UNCHANGED <<deferred, work, workAt, groupChats, lost, lostChats>>

\* The router's upsert failed, and with it the update.
EnsureFails(x) ==
  /\ fallback = NoChat /\ QueueIsFull
  /\ Ask(x)
  /\ lost' = [lost EXCEPT ![x.user] = @ + 1] /\ lostChats' = lostChats \cup GroupsOf(x)
  /\ UNCHANGED <<upsertVars, overtaken>>

\* The upsert took effect and its answer was lost: the router returns the error.
EnsureAnswerLost(x) ==
  /\ fallback = NoChat /\ QueueIsFull
  /\ UpsertUser(x)
  /\ Ask(x)
  /\ overtaken' = IF PendingUpserts(x.user) = {} THEN overtaken ELSE overtaken \cup {x.user}
  /\ lostChats' = lostChats \cup GroupsOf(x)
  /\ UNCHANGED <<deferred, work, workAt, fallback, groupChats, lost>>

FallbackRecordsChat ==
  /\ fallback # NoChat /\ fallback' = NoChat
  /\ groupChats' = groupChats \cup {fallback}
  /\ UNCHANGED <<deferred, work, workAt, users, askVars>>

FallbackChatFails ==
  /\ fallback # NoChat /\ fallback' = NoChat
  /\ lostChats' = lostChats \cup {fallback}
  /\ UNCHANGED <<deferred, work, workAt, users, groupChats, asked, lost, askedIn, lastName, overtaken>>

-----------------------------------------------------------------------------
(* The worker                                                              *)

WorkDone == work' = NoWork /\ workAt' = "user"

WorkerTakes ==
  /\ work = NoWork /\ workAt # "stopped" /\ deferred # <<>>
  /\ work' = Head(deferred) /\ deferred' = Tail(deferred)
  /\ UNCHANGED <<workAt, fallback, users, groupChats, askVars>>

\* A closure that is done after its first statement.
WorkerUpsertsOnly ==
  /\ work \in Upserts /\ workAt = "user"
  /\ UpsertUser(work) /\ WorkDone
  /\ UNCHANGED <<deferred, fallback, groupChats, askVars>>

WorkerUpserts ==
  /\ work \in Upserts /\ workAt = "user"
  /\ UpsertUser(work)
  /\ IF work.chat \in Groups THEN workAt' = "chat" /\ UNCHANGED work ELSE WorkDone
  /\ UNCHANGED <<deferred, fallback, groupChats, askVars>>

WorkerRecordsChat ==
  /\ work \in Upserts /\ workAt = "chat"
  /\ groupChats' = groupChats \cup {work.chat}
  /\ WorkDone
  /\ UNCHANGED <<deferred, fallback, users, askVars>>

\* The closure returns the error of a statement that did not take effect.
WorkerFails ==
  /\ work \in Upserts
  /\ lost' = IF workAt = "user" THEN [lost EXCEPT ![work.user] = @ + 1] ELSE lost
  /\ lostChats' = lostChats \cup GroupsOf(work)
  /\ WorkDone
  /\ UNCHANGED <<deferred, fallback, users, groupChats, asked, askedIn, lastName, overtaken>>

\* The first statement took effect and its answer was lost: the closure returns the error.
WorkerAnswerLost ==
  /\ work \in Upserts /\ workAt = "user"
  /\ UpsertUser(work)
  /\ lostChats' = lostChats \cup GroupsOf(work)
  /\ WorkDone
  /\ UNCHANGED <<deferred, fallback, groupChats, asked, lost, askedIn, lastName, overtaken>>

\* The closure of a fan-out, which StrainBroadcast takes apart.
WorkerFansOut ==
  /\ work = FanoutWork
  /\ WorkDone
  /\ UNCHANGED <<deferred, fallback, users, groupChats, askVars>>

\* The select finds the context done, with closures in the queue or not.
WorkerStops ==
  /\ work = NoWork /\ workAt = "user"
  /\ workAt' = "stopped"
  /\ UNCHANGED <<deferred, work, fallback, users, groupChats, askVars>>

-----------------------------------------------------------------------------
(* The accounts                                                            *)
(* They count a closure that waits, whoever works on the queue, and also   *)
(* when nobody does any more: what they are worth in a process that stops  *)
(* is up to BotProcess.                                                    *)

\* A request is counted in the row, or waits in a closure, or failed; none is twice.
RequestsAccounted ==
  \A u \in Users : users[u].requests + Cardinality(PendingUpserts(u)) + lost[u] = asked[u]

\* The name a user has once the closures that wait are done.
NameToCome(u) ==
  LET named == {i \in PendingUpserts(u) : Waiting[i].name # NoName}
  IN  IF named = {} THEN users[u].name ELSE Waiting[Max(named)].name

NamesAccounted ==
  \A u \in Users \ overtaken : lost[u] = 0 => NameToCome(u) = lastName[u]

\* A group somebody wrote in is recorded, or waits with a closure, the worker or the router,
\* or a statement failed.
GroupsAccounted ==
  askedIn \subseteq
    groupChats \cup lostChats \cup {fallback}
    \cup {c.chat : c \in Range(deferred) \ {FanoutWork}}
    \cup (IF work \in Upserts THEN {work.chat} ELSE {})

=============================================================================
