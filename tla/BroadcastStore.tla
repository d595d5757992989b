--------------------------- MODULE BroadcastStore ---------------------------
(***************************************************************************)
(* The tables the broadcast pipeline shares (assets/db.sql): one row of    *)
(* broadcast_outgoing per (broadcast, chat), and the subscriptions.  The   *)
(* operators are the SQL statements of the Go code, one operator each.     *)
(* Every statement is one atomic step: it runs outside a transaction, on   *)
(* PostgreSQL, which makes a single statement atomic.                      *)
(***************************************************************************)
EXTENDS Integers, FiniteSets

CONSTANTS
  Broadcasts,       \* ids of table broadcasts
  StrainBroadcasts, \* those whose id matches '^strain-'
  Chats,            \* telegram chat ids (broadcast_outgoing.user_id)
  Rows,             \* the (broadcast, chat) pairs that may get an outgoing row
  Window            \* clock units in the 12 hours a pending row stays eligible

ASSUME StrainAssumption == StrainBroadcasts \subseteq Broadcasts
ASSUME RowsAssumption == Rows \subseteq Broadcasts \X Chats /\ IsFiniteSet(Rows)
ASSUME WindowAssumption == Window \in Nat

VARIABLES
  stored,      \* rows present in broadcast_outgoing
  pending,     \* rows with sent_time IS NULL
  hasMsgId,    \* rows with telegram_message_id IS NOT NULL
  scheduledAt, \* scheduled_at; 0 is NULL, which every test reads as -infinity
  createdAt,   \* created_at, written once, by the INSERT
  subs,        \* chats with a subscriptions row that is enabled
  clock        \* the database's NOW()

storeVars == <<stored, pending, hasMsgId, scheduledAt, createdAt, subs, clock>>

Times == 1 .. clock   \* what a process could have read from its clock

ChatOf(r) == r[2]
IsStrain(r) == r[1] \in StrainBroadcasts
StrainRows == {r \in Rows : IsStrain(r)}

StoreTypeOK ==
  /\ stored \subseteq Rows
  /\ pending \subseteq stored
  /\ hasMsgId \subseteq stored
  /\ scheduledAt \in [Rows -> Nat]
  /\ createdAt \in [Rows -> Nat]
  /\ subs \subseteq Chats
  /\ clock \in Nat

StoreInit ==
  /\ stored = {}
  /\ pending = {}
  /\ hasMsgId = {}
  /\ scheduledAt = [r \in Rows |-> 0]
  /\ createdAt = [r \in Rows |-> 0]
  /\ subs \in SUBSET Chats
  /\ clock = 1

-----------------------------------------------------------------------------
(* Reads                                                                   *)

Later(a, b) == IF a >= b THEN a ELSE b

\* A SELECT that forgot sent_time IS NULL.
EligibleThoughSent(r) ==
  /\ r \in stored
  /\ scheduledAt[r] <= clock
  /\ Later(scheduledAt[r], createdAt[r]) + Window >= clock

\* WHERE clause of the batch SELECT: pending, due, and not older than the window.
Eligible(r) ==
  /\ r \in pending
  /\ scheduledAt[r] <= clock
  /\ Later(scheduledAt[r], createdAt[r]) + Window >= clock

EligibleRows == {r \in Rows : Eligible(r)}

\* ORDER BY created_at DESC LIMIT limit: what the SELECT may return (ties in any order).
Page(limit) ==
  {S \in SUBSET EligibleRows :
     /\ Cardinality(S) <= limit
     /\ S # EligibleRows => Cardinality(S) = limit
     /\ \A s \in S, t \in EligibleRows \ S : createdAt[s] >= createdAt[t]}

\* The row of a page that rows.Next yields first.
IsNewest(r, S) == r \in S /\ \A s \in S : createdAt[r] >= createdAt[s]

-----------------------------------------------------------------------------
(* Writes                                                                  *)

\* A fan-out that only updates, where no row is to be updated.
UpsertWithoutInsert(r, at) ==
  /\ pending' = pending \cup {r}
  /\ scheduledAt' = [scheduledAt EXCEPT ![r] = at]
  /\ UNCHANGED <<stored, createdAt, hasMsgId, subs, clock>>

\* INSERT ... ON CONFLICT DO UPDATE SET scheduled_at, sent_time = NULL (fan-out).
\* telegram_message_id and created_at of an existing row stay as they are.
UpsertOutgoing(r, at) ==
  /\ stored' = stored \cup {r}
  /\ pending' = pending \cup {r}
  /\ scheduledAt' = [scheduledAt EXCEPT ![r] = at]
  /\ createdAt' = IF r \in stored THEN createdAt ELSE [createdAt EXCEPT ![r] = clock]
  /\ UNCHANGED <<hasMsgId, subs, clock>>

\* INSERT ... ON CONFLICT DO NOTHING (convert-broadcasts): only missing rows.
SeedOutgoing(R, at) ==
  LET new == R \ stored
  IN  /\ stored' = stored \cup R
      /\ pending' = pending \cup new
      /\ scheduledAt' = [r \in Rows |-> IF r \in new THEN at ELSE scheduledAt[r]]
      /\ createdAt' = [r \in Rows |-> IF r \in new THEN clock ELSE createdAt[r]]
      /\ UNCHANGED <<hasMsgId, subs, clock>>

\* UPDATE ... SET sent_time = NOW(), telegram_message_id = $3 WHERE sent_time IS NULL
MarkSent(r) ==
  /\ pending' = pending \ {r}
  /\ hasMsgId' = IF r \in pending THEN hasMsgId \cup {r} ELSE hasMsgId
  /\ UNCHANGED <<stored, scheduledAt, createdAt, subs, clock>>

\* UPDATE ... SET sent_time = NOW(), telegram_message_id = NULL WHERE sent_time IS NULL
CloseRows(R) ==
  /\ pending' = pending \ R
  /\ hasMsgId' = hasMsgId \ (R \cap pending)
  /\ UNCHANGED <<stored, scheduledAt, createdAt, subs, clock>>

\* A closing UPDATE without its test b.id ~ '^strain-'.
UnsubscribedRowsOfAnyKind == {r \in pending : ChatOf(r) \notin subs}

\* The rows closeStrainOutgoingWithoutSubscription closes.
UnsubscribedRows == {r \in pending : IsStrain(r) /\ ChatOf(r) \notin subs}

\* UPDATE subscriptions SET enabled, or its first INSERT with enabled = TRUE.
SetSubscribed(c, on) ==
  /\ subs' = IF on THEN subs \cup {c} ELSE subs \ {c}
  /\ UNCHANGED <<stored, pending, hasMsgId, scheduledAt, createdAt, clock>>

=============================================================================
