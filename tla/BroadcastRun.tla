---------------------------- MODULE BroadcastRun ----------------------------
(***************************************************************************)
(* The broadcast scheduler: one goroutine that, at every tick, runs        *)
(* RunOnce (use-cases/handle-broadcast/root.go) to its end.  RunOnce       *)
(* closes the strain rows of unsubscribed chats, selects a page of pending *)
(* rows, and for each of them posts to Telegram and then records that in   *)
(* the row.  Post and record are two steps; what may fall between them (a  *)
(* crash, a failed UPDATE, an expired run context) is what this module is  *)
(* about.  The fan-out, the converter, the /subscribe command and the      *)
(* passing of time appear as environment actions on the shared tables.     *)
(***************************************************************************)
EXTENDS BroadcastStore

CONSTANTS
  Limit,     \* LIMIT of the batch SELECT
  Poison,    \* rows with nothing to send: a malformed quiz, a card that never builds
  NoRow,     \* no row is being recorded
  MaxClock, MaxPuts, MaxFaults  \* bounds: clock, puts per row, faults in all

ASSUME LimitAssumption == Limit \in Nat \ {0}
ASSUME PoisonAssumption == Poison \subseteq Rows
ASSUME NoRowAssumption == NoRow \notin Rows
ASSUME BoundsAssumption == MaxClock \in Nat /\ MaxPuts \in Nat /\ MaxFaults \in Nat

VARIABLES
  pc,      \* where RunOnce is
  batch,   \* rows of the SELECT not yet yielded by rows.Next
  cur,     \* the row being recorded (mark) or closed (abort)
  expired, \* the run's context passed broadcastRunTimeout
  faults,  \* faults so far (bound)
  \* Observers: what the outside world saw.  No action's guard reads them, except
  \* puts, whose bound limits the environment.
  puts,       \* times a row was made pending
  posts,      \* times Telegram posted the row to its chat
  unrecorded, \* posts whose UPDATE never took effect
  refusers,   \* chats for which Telegram answered with a permanent error
  leavers,    \* chats that were at some time not subscribed
  wanted      \* chats this run may send strain cards to: subscribed when it swept, or
              \* subscribed or queued for since

runVars == <<pc, batch, cur, expired>>
obsVars == <<puts, posts, unrecorded, refusers, leavers, wanted>>
vars == <<storeVars, runVars, faults, obsVars>>

Phases == {"idle", "select", "loop", "mark", "abort"}

TypeOK ==
  /\ StoreTypeOK
  /\ pc \in Phases
  /\ batch \subseteq Rows
  /\ cur \in Rows \cup {NoRow} /\ (pc \in {"mark", "abort"} => cur \in Rows)
  /\ expired \in BOOLEAN
  /\ faults \in Nat
  /\ puts \in [Rows -> Nat]
  /\ posts \in [Rows -> Nat]
  /\ unrecorded \in [Rows -> Nat]
  /\ refusers \subseteq Chats
  /\ leavers \subseteq Chats
  /\ wanted \subseteq Chats

Init ==
  /\ StoreInit
  /\ pc = "idle" /\ batch = {} /\ cur = NoRow /\ expired = FALSE
  /\ faults = 0
  /\ puts = [r \in Rows |-> 0]
  /\ posts = [r \in Rows |-> 0]
  /\ unrecorded = [r \in Rows |-> 0]
  /\ refusers = {}
  /\ leavers = Chats \ subs
  /\ wanted = {}

-----------------------------------------------------------------------------
(* RunOnce                                                                 *)

\* RunOnce returns; the deferred rows.Close() and cancel() drop the page and the context.
Return ==
  /\ pc' = "idle" /\ batch' = {} /\ cur' = NoRow /\ expired' = FALSE
  /\ wanted' = {}

Bump(f, r) == [f EXCEPT ![r] = @ + 1]

\* A run that selects its page without closing anything first.
SweepNothing ==
  /\ pc = "idle"
  /\ pc' = "select"
  /\ wanted' = subs
  /\ UNCHANGED <<storeVars, batch, cur, expired, faults, puts, posts, unrecorded, refusers, leavers>>

\* The ticker fires: a new context, and the closing UPDATE commits.
Sweep ==
  /\ pc = "idle"
  /\ CloseRows(UnsubscribedRows)
  /\ pc' = "select"
  /\ wanted' = subs
  /\ UNCHANGED <<batch, cur, expired, faults, puts, posts, unrecorded, refusers, leavers>>

\* The SELECT; rows.Next then walks this snapshot.
SelectPage ==
  /\ pc = "select" /\ ~expired
  /\ batch' \in Page(Limit)
  /\ pc' = "loop"
  /\ UNCHANGED <<storeVars, cur, expired, faults, obsVars>>

\* rows.Next yields r.
Yield(r) == pc = "loop" /\ IsNewest(r, batch) /\ batch' = batch \ {r}

\* A strain payload has no text of its own: its card is built on the run's context.
Sendable(r) == r \notin Poison /\ (IsStrain(r) => ~expired)

\* Nothing to send, or an error that is not permanent: continue with the next row.
SkipRow(r) ==
  /\ Yield(r)
  /\ UNCHANGED <<storeVars, pc, cur, expired, faults, obsVars>>

\* Telegram posts the message and the answer arrives.
PostAccepted(r) ==
  /\ Yield(r) /\ Sendable(r)
  /\ pc' = "mark" /\ cur' = r
  /\ posts' = Bump(posts, r)
  /\ UNCHANGED <<storeVars, expired, faults, puts, unrecorded, refusers, leavers, wanted>>

\* Telegram posts the message but the answer is lost: the code sees a network error.
PostAnswerLost(r) ==
  /\ Yield(r) /\ Sendable(r)
  /\ faults < MaxFaults /\ faults' = faults + 1
  /\ posts' = Bump(posts, r)
  /\ unrecorded' = Bump(unrecorded, r)
  /\ UNCHANGED <<storeVars, pc, cur, expired, puts, refusers, leavers, wanted>>

\* Telegram refuses for good: permanentTelegramDeliveryError.
PostRefused(r) ==
  /\ Yield(r) /\ Sendable(r)
  /\ pc' = "abort" /\ cur' = r
  /\ refusers' = refusers \cup {ChatOf(r)}
  /\ UNCHANGED <<storeVars, expired, faults, puts, posts, unrecorded, leavers, wanted>>

\* A post that is not recorded: the UPDATE matches no row.
RecordNothing ==
  /\ pc = "mark" /\ ~expired
  /\ pc' = "loop" /\ cur' = NoRow
  /\ UNCHANGED <<storeVars, batch, expired, faults, obsVars>>

\* The UPDATE that records the post, with its message id.
RecordPost ==
  /\ pc = "mark" /\ ~expired
  /\ MarkSent(cur)
  /\ pc' = "loop" /\ cur' = NoRow
  /\ UNCHANGED <<batch, expired, faults, obsVars>>

\* Aborts that leave sent_time NULL, or that leave a message id behind.
AbortWithoutClosing ==
  /\ pc = "abort" /\ ~expired
  /\ pc' = "loop" /\ cur' = NoRow
  /\ UNCHANGED <<storeVars, batch, expired, faults, obsVars>>

AbortAsIfSent ==
  /\ pc = "abort" /\ ~expired
  /\ MarkSent(cur)
  /\ pc' = "loop" /\ cur' = NoRow
  /\ UNCHANGED <<batch, expired, faults, obsVars>>

\* abortUndeliverableOutgoing.
AbortRow ==
  /\ pc = "abort" /\ ~expired
  /\ CloseRows({cur})
  /\ pc' = "loop" /\ cur' = NoRow
  /\ UNCHANGED <<batch, expired, faults, obsVars>>

EndOfPage ==
  /\ pc = "loop" /\ batch = {}
  /\ Return
  /\ UNCHANGED <<storeVars, faults, puts, posts, unrecorded, refusers, leavers>>

-----------------------------------------------------------------------------
(* What goes wrong in a run                                                *)

\* A post whose record is given up for good.
ForgetPost == unrecorded' = IF pc = "mark" THEN Bump(unrecorded, cur) ELSE unrecorded

\* A statement did not take effect and its error ends the run: the context expired, or the
\* database or the connection failed.  In the loop this is rows.Scan or rows.Err.
RunFails ==
  /\ pc \in Phases \ {"idle"}
  /\ \/ expired /\ faults' = faults
     \/ faults < MaxFaults /\ faults' = faults + 1
  /\ ForgetPost
  /\ Return
  /\ UNCHANGED <<storeVars, puts, posts, refusers, leavers>>

\* A statement took effect but its answer was lost: the same error ends the run.
StatementAnswerLost ==
  /\ faults < MaxFaults /\ faults' = faults + 1
  /\ \/ pc = "idle" /\ CloseRows(UnsubscribedRows)
     \/ pc = "mark" /\ ~expired /\ MarkSent(cur)
     \/ pc = "abort" /\ ~expired /\ CloseRows({cur})
  /\ Return
  /\ UNCHANGED <<puts, posts, unrecorded, refusers, leavers>>

\* broadcastRunTimeout passes; a Telegram call in progress does not notice.
Expire ==
  /\ pc # "idle" /\ ~expired
  /\ faults < MaxFaults /\ faults' = faults + 1
  /\ expired' = TRUE
  /\ UNCHANGED <<storeVars, pc, batch, cur, obsVars>>

\* The process dies and is started again; main does not wait for the run.
Crash ==
  /\ faults < MaxFaults /\ faults' = faults + 1
  /\ ForgetPost
  /\ Return
  /\ UNCHANGED <<storeVars, puts, posts, refusers, leavers>>

-----------------------------------------------------------------------------
(* The rest of the system, acting on the tables                            *)

\* The fan-out of a strain search queues (again) a row for a chat; at is when it began.
Queue(r, at) ==
  /\ IsStrain(r) /\ puts[r] < MaxPuts
  /\ UpsertOutgoing(r, at)
  /\ puts' = Bump(puts, r)
  /\ wanted' = IF pc = "idle" THEN wanted ELSE wanted \cup {ChatOf(r)}
  /\ UNCHANGED <<runVars, faults, posts, unrecorded, refusers, leavers>>

\* convert-broadcasts seeds the audience R of campaign b, to be sent from at on.
Seed(b, R, at) ==
  /\ b \notin StrainBroadcasts /\ R # {}
  /\ \A r \in R : r[1] = b /\ puts[r] < MaxPuts
  /\ SeedOutgoing(R, at)
  /\ puts' = [r \in Rows |-> IF r \in R \ stored THEN puts[r] + 1 ELSE puts[r]]
  /\ UNCHANGED <<runVars, faults, posts, unrecorded, refusers, leavers, wanted>>

\* /subscribe.
Toggle(c) ==
  /\ SetSubscribed(c, c \notin subs)
  /\ leavers' = IF c \in subs THEN leavers \cup {c} ELSE leavers
  /\ wanted' = IF c \in subs \/ pc = "idle" THEN wanted ELSE wanted \cup {c}
  /\ UNCHANGED <<runVars, faults, puts, posts, unrecorded, refusers>>

Tick ==
  /\ clock < MaxClock
  /\ clock' = clock + 1
  /\ UNCHANGED <<stored, pending, hasMsgId, scheduledAt, createdAt, subs, runVars, faults, obsVars>>

-----------------------------------------------------------------------------
RunStep ==
  \/ Sweep \/ SelectPage
  \/ \E r \in Rows : SkipRow(r) \/ PostAccepted(r) \/ PostRefused(r)
  \/ RecordPost \/ AbortRow \/ EndOfPage

Fault ==
  \/ \E r \in Rows : PostAnswerLost(r)
  \/ RunFails \/ StatementAnswerLost \/ Expire \/ Crash

Environment ==
  \/ \E r \in Rows, at \in Times : Queue(r, at)
  \/ \E b \in Broadcasts, R \in SUBSET Rows, at \in 0 .. MaxClock : Seed(b, R, at)
  \/ \E c \in Chats : Toggle(c)
  \/ Tick

Next == RunStep \/ Fault \/ Environment

Spec == Init /\ [][Next]_vars

\* Telegram's definitive answer about a row: posted, or refused for good.
Answer(r) == PostAccepted(r) \/ PostRefused(r)

\* The ticker and the goroutine keep running; an expired run stops at its next statement.
\* The rest is an assumption about Telegram and the network, not a fact of this code: a send
\* has no timeout (the client of app.go:63), and the fairness says that every send returns,
\* and that a row offered again and again is some day answered definitively.
Fairness ==
  /\ WF_vars(RunStep \/ RunFails)
  /\ \A r \in Rows \ Poison : SF_vars(Answer(r))

FairSpec == Spec /\ Fairness

-----------------------------------------------------------------------------
(* Properties                                                              *)

\* Repeats are bounded: a chat gets a message at most once for each time the row was queued,
\* and once more for each post whose record was lost (root.go:141 -> 212).
PostsBounded == \A r \in Rows : posts[r] <= puts[r] + unrecorded[r]

\* A telegram_message_id (Grafana's "delivered") is there only for a message that was posted.
MsgIdMeansPosted == \A r \in hasMsgId : posts[r] > 0

\* A row closed without a message id has a cause the code documents: Telegram refused the
\* chat for good, or the chat was unsubscribed from strain cards.
ClosedForCause ==
  \A r \in stored \ (pending \cup hasMsgId) :
    \/ ChatOf(r) \in refusers
    \/ IsStrain(r) /\ ChatOf(r) \in leavers

\* While a run works through its page, the rows it has yet to handle are still pending: no
\* other writer closes a row, so no row is sent that somebody else already dealt with.
PageStillPending ==
  /\ batch \subseteq pending
  /\ pc \in {"mark", "abort"} => cur \in pending \ batch

\* A strain card goes to a chat only if it was subscribed when this run swept, or was
\* subscribed or queued for after that; the page is a stale copy, but never staler.
CardsWanted ==
  [][\A r \in StrainRows : posts'[r] # posts[r] => ChatOf(r) \in wanted]_vars

\* Every row that is due is, in the end, dealt with or out of its 12 hours: failing rows and
\* dead chats do not hold up the others, as long as fewer than Limit rows are unsendable.
EveryRowSettles == \A r \in Rows \ Poison : Eligible(r) ~> ~Eligible(r)

-----------------------------------------------------------------------------
(* What all this implements                                                *)

\* The row that is being recorded is the message in hand.
Box == INSTANCE Outbox WITH
  open <- pending, sent <- posts, inHand <- IF pc = "mark" THEN {cur} ELSE {}

\* Pages, runs that fail, expired contexts and answers that are lost come to an outbox: a chat
\* is sent a message only while its row is pending, a row is marked sent only right after its
\* post, which nobody repeats unless that record fails, and between a post and its record no
\* row is closed (root.go:140-221, 276-288).
ImplementsOutbox == Box!OutboxSpec

-----------------------------------------------------------------------------
(* The inductive invariant                                                 *)

\* The post a pending row can still cause; the one being recorded was made already.
Owed(r) == IF r \in pending /\ ~(pc = "mark" /\ cur = r) THEN 1 ELSE 0

\* Every post, made or owed, is paid for by a put or by an unrecorded post.
Accounted == \A r \in Rows : posts[r] + Owed(r) <= puts[r] + unrecorded[r]

\* What the step that led to mark or abort leaves behind.
InFlight ==
  /\ pc = "idle" => batch = {}
  /\ pc = "mark" => posts[cur] > 0
  /\ pc = "abort" => ChatOf(cur) \in refusers

\* After its sweep a run finds only wanted strain rows pending.
SweptRowsWanted == pc # "idle" => \A r \in pending : IsStrain(r) => ChatOf(r) \in wanted

\* All the properties above at once, strong enough for each step to preserve it: Accounted
\* counts the post a pending row still owes, and InFlight remembers, across the two steps
\* of post and record, that the row being recorded was posted (root.go:141 and 212).
IInv ==
  /\ TypeOK
  /\ PageStillPending
  /\ Accounted
  /\ InFlight
  /\ SweptRowsWanted
  /\ Chats \ subs \subseteq leavers
  /\ MsgIdMeansPosted
  /\ ClosedForCause

=============================================================================
