---------------------------- MODULE UpdateIntake ----------------------------
(***************************************************************************)
(* How an update reaches the bot: long polling.  Telegram keeps the        *)
(* updates of the bot, numbered, until a getUpdates call names a higher    *)
(* offset; the polling goroutine of the Bot API library takes whatever     *)
(* Telegram keeps, writes it to a buffered channel one by one and polls    *)
(* again with the offset behind it; the router goroutine (UpdateRouter.Run)*)
(* takes one update at a time from the channel and handles it to the end.  *)
(* The offset lives in memory: a process that starts asks with offset 0.   *)
(* Polling confirms an update when it is in the channel, not when it is    *)
(* handled, so a process that dies loses some and is handed others again.  *)
(*                                                                         *)
(* The channel always holds consecutive numbers, next .. offset - 1, so    *)
(* its two ends stand for it.                                              *)
(***************************************************************************)
EXTENDS Naturals, FiniteSets

CONSTANTS
  Buffer,      \* capacity of the library's update channel
  MaxUpdates,  \* bound: updates sent to the bot
  MaxCrashes   \* bound: deaths of the process

ASSUME IntakeAssumption == Buffer \in Nat /\ MaxUpdates \in Nat /\ MaxCrashes \in Nat

VARIABLES
  arrived,   \* updates 1 .. arrived have been sent to the bot
  kept,      \* lowest number Telegram still keeps
  offset,    \* UpdateConfig.Offset: 0, or one above the highest number received
  next,      \* the number at the head of the channel
  handling,  \* the update the router is in, 0 if none
  crashes,
  begun      \* observer: how often the router has begun each update

intakeVars == <<arrived, kept, offset, next, handling, crashes, begun>>

Ids == 1..MaxUpdates

IntakeTypeOK ==
  /\ arrived \in 0..MaxUpdates
  /\ kept \in 1..MaxUpdates + 1
  /\ offset \in 0..MaxUpdates + 1 /\ next \in 0..MaxUpdates + 1
  /\ handling \in 0..MaxUpdates
  /\ crashes \in 0..MaxCrashes
  /\ begun \in [Ids -> Nat]

IntakeInit ==
  /\ arrived = 0
  /\ kept = 1
  /\ offset = 0 /\ next = 0
  /\ handling = 0
  /\ crashes = 0
  /\ begun = [i \in Ids |-> 0]

\* What a getUpdates call with this offset leaves Telegram with.
KeptAfterPoll == IF offset > kept THEN offset ELSE kept

\* A user sends the bot an update.
Arrive ==
  /\ arrived < MaxUpdates
  /\ arrived' = arrived + 1
  /\ UNCHANGED <<kept, offset, next, handling, crashes, begun>>

\* The library polls again once the whole of its last batch is in the channel.
MayPoll == offset - next <= Buffer

\* getUpdates is answered, with every update Telegram keeps or, at its timeout, with none.
Poll ==
  /\ MayPoll
  /\ kept' = KeptAfterPoll
  /\ IF kept' <= arrived
     THEN /\ offset' = arrived + 1
          /\ next' = IF offset = next THEN kept' ELSE next
     ELSE UNCHANGED <<offset, next>>
  /\ UNCHANGED <<arrived, handling, crashes, begun>>

\* getUpdates reaches Telegram and its answer is lost: the library polls again as before.
PollUnanswered ==
  /\ MayPoll
  /\ kept' = KeptAfterPoll
  /\ UNCHANGED <<arrived, offset, next, handling, crashes, begun>>

\* A router that does not wait for the channel to have an update.
TakeWithoutWaiting ==
  /\ handling = 0
  /\ handling' = next
  /\ next' = next + 1
  /\ begun' = [begun EXCEPT ![next] = @ + 1]
  /\ UNCHANGED <<arrived, kept, offset, crashes>>

\* A router that leaves the last update in the channel.
TakeAllButLast ==
  /\ handling = 0
  /\ next + 1 < offset
  /\ handling' = next
  /\ next' = next + 1
  /\ begun' = [begun EXCEPT ![next] = @ + 1]
  /\ UNCHANGED <<arrived, kept, offset, crashes>>

\* UpdateRouter.Run takes the next update from the channel.
TakeUpdate ==
  /\ handling = 0
  /\ next < offset
  /\ handling' = next
  /\ next' = next + 1
  /\ begun' = [begun EXCEPT ![next] = @ + 1]
  /\ UNCHANGED <<arrived, kept, offset, crashes>>

\* A router that puts an update back when its handler returns.
EndByRequeueing ==
  /\ handling # 0
  /\ handling' = 0
  /\ next' = handling
  /\ UNCHANGED <<arrived, kept, offset, crashes, begun>>

\* HandleUpdate returns, with an error or without: the router goes on with the next update.
EndUpdate ==
  /\ handling # 0
  /\ handling' = 0
  /\ UNCHANGED <<arrived, kept, offset, next, crashes, begun>>

\* A process that starts behind the updates that came before it.
RestartSkipping ==
  /\ crashes < MaxCrashes
  /\ crashes' = crashes + 1
  /\ offset' = arrived + 1 /\ next' = arrived + 1
  /\ handling' = 0
  /\ UNCHANGED <<arrived, kept, begun>>

\* The process stops, by a signal or a crash, and starts again with an empty channel.
Restart ==
  /\ crashes < MaxCrashes
  /\ crashes' = crashes + 1
  /\ offset' = 0 /\ next' = 0
  /\ handling' = 0
  /\ UNCHANGED <<arrived, kept, begun>>

IntakeNext ==
  Arrive \/ Poll \/ PollUnanswered \/ TakeUpdate \/ EndUpdate \/ Restart

IntakeSpec == IntakeInit /\ [][IntakeNext]_intakeVars

\* What the program runs for ever: the polling goroutine asks again after every answer and
\* every error, and the router goroutine takes the next update.  Telegram answers some poll.
IntakeFairness == WF_intakeVars(Poll) /\ WF_intakeVars(TakeUpdate)

FairIntakeSpec == IntakeSpec /\ IntakeFairness

-----------------------------------------------------------------------------
(* What the intake promises                                                *)

InChannel(i) == next <= i /\ i < offset

\* Updates nobody will ever handle: confirmed to Telegram, and never begun.
Lost == {i \in 1..arrived : i < kept /\ begun[i] = 0 /\ ~InChannel(i)}

\* One process never handles an update twice: only a restart can repeat one, and each
\* restart repeats it at most once (the offset of UpdateRouter.Run's channel only grows).
RepeatsNeedRestarts == \A i \in Ids : begun[i] <= 1 + crashes

\* A death of the process loses at most a channel full of updates, those that a later poll
\* had already confirmed; without one nothing is ever lost.
LossIsBounded == Cardinality(Lost) <= crashes * Buffer

\* An assumption about Telegram and the database, not a fact of the code: the client has no
\* timeout (app.go:63) and the router's context no deadline (routes/root.go:102), so a call
\* that is never answered keeps its update, and with it the router, for ever.
HandlersReturn == []<>(handling = 0)

\* One call that hangs holds up all updates, and nothing else does: if handlers return, every
\* update leaves the intake.  Telegram has then forgotten it, and the bot neither holds it in
\* its channel nor is in it.
EveryUpdateLeaves ==
  HandlersReturn =>
    \A i \in Ids : arrived >= i ~> (i < kept /\ ~InChannel(i) /\ handling # i)

=============================================================================
