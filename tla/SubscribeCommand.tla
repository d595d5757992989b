-------------------------- MODULE SubscribeCommand --------------------------
(***************************************************************************)
(* The /subscribe command (use-cases/handle-subscribe/root.go) on top of   *)
(* the intake: every update here is such a command of some chat.  It is a  *)
(* toggle in two statements, a SELECT of the chat's row and a write of the *)
(* opposite, so it matters whether a command is handled once, twice, or    *)
(* half.  Updates come and go as UpdateIntake has them.                    *)
(***************************************************************************)
EXTENDS UpdateIntake, Sequences

CONSTANTS
  Chats,     \* who sends the command
  MaxFaults  \* bound: failing statements and calls

ASSUME SubscribeAssumption == MaxFaults \in Nat

VARIABLES
  sender,    \* the chat of each update
  enabled,   \* subscriptions.enabled of each chat, "none" without a row
  step,      \* where the router is in the command
  read,      \* what its SELECT returned
  faults,
  disturbed  \* observer: commands in which something failed or the process died

commandVars == <<sender, enabled, step, read, faults, disturbed>>
vars == <<intakeVars, commandVars>>

States == {"none", "on", "off"}

TypeOK ==
  /\ IntakeTypeOK
  /\ sender \in Seq(Chats) /\ Len(sender) = arrived
  /\ enabled \in [Chats -> States]
  /\ step \in {"idle", "taken", "write", "reply"}
  /\ step = "idle" <=> handling = 0
  /\ read \in States
  /\ faults \in 0..MaxFaults
  /\ disturbed \subseteq 1..arrived

Init ==
  /\ IntakeInit
  /\ sender = <<>>
  /\ enabled = [c \in Chats |-> "none"]
  /\ step = "idle" /\ read = "none"
  /\ faults = 0 /\ disturbed = {}

-----------------------------------------------------------------------------
Command(c) ==
  /\ Arrive
  /\ sender' = Append(sender, c)
  /\ UNCHANGED <<enabled, step, read, faults, disturbed>>

Polls == (Poll \/ PollUnanswered) /\ UNCHANGED commandVars

Take ==
  /\ TakeUpdate
  /\ step' = "taken"
  /\ UNCHANGED <<sender, enabled, read, faults, disturbed>>

\* HandleUpdate returns.
Return == EndUpdate /\ step' = "idle" /\ read' = "none"

\* Something fails, and with it the command.
Fails ==
  /\ faults < MaxFaults /\ faults' = faults + 1
  /\ disturbed' = disturbed \cup {handling}
  /\ Return

\* A row that is read from a cache filled before anybody subscribed.
ReadOutdated ==
  /\ step = "taken"
  /\ step' = "write" /\ read' = "none"
  /\ UNCHANGED <<intakeVars, sender, enabled, faults, disturbed>>

\* SELECT enabled, past the cache (a lifetime of 0).
ReadState ==
  /\ step = "taken"
  /\ step' = "write" /\ read' = enabled[sender[handling]]
  /\ UNCHANGED <<intakeVars, sender, enabled, faults, disturbed>>

\* INSERT ... ON CONFLICT DO UPDATE SET enabled = TRUE, or UPDATE ... SET enabled = NOT read.
Written == [enabled EXCEPT ![sender[handling]] = IF read = "on" THEN "off" ELSE "on"]

WriteState ==
  /\ step = "write"
  /\ enabled' = Written
  /\ step' = "reply"
  /\ UNCHANGED <<intakeVars, sender, read, faults, disturbed>>

\* The write took effect and its answer was lost: the chat gets no reply.
WriteAnswerLost ==
  /\ step = "write"
  /\ enabled' = Written
  /\ Fails
  /\ UNCHANGED sender

\* EnsureUser, the SELECT or the write fails without effect.
StatementFails ==
  /\ step \in {"taken", "write"}
  /\ Fails
  /\ UNCHANGED <<sender, enabled>>

\* The reply is sent or not; the error of a send ends the update all the same.
Reply ==
  /\ step = "reply"
  /\ Return
  /\ UNCHANGED <<sender, enabled, faults, disturbed>>

Dies ==
  /\ Restart
  /\ step' = "idle" /\ read' = "none"
  /\ disturbed' = disturbed \cup ({handling} \ {0})
  /\ UNCHANGED <<sender, enabled, faults>>

Next ==
  \/ \E c \in Chats : Command(c)
  \/ Polls \/ Take
  \/ ReadState \/ WriteState \/ WriteAnswerLost \/ StatementFails \/ Reply
  \/ Dies

Spec == Init /\ [][Next]_vars

\* The intake's own fairness; that the command returns is left to HandlersReturn.
FairSpec == Spec /\ WF_vars(Poll /\ UNCHANGED commandVars) /\ WF_vars(Take)

-----------------------------------------------------------------------------
(* Properties                                                              *)

\* The commands of chat c that the bot has begun.
BegunBy(c) == {i \in 1..arrived : sender[i] = c /\ begun[i] > 0}

\* A chat is subscribed after an odd number of commands and not after an even one, whatever
\* other chats' commands go through, unless one of its own was handed out again by a restart
\* (routes/root.go:84), which flips it back, or failed or was cut short: lost commands and
\* other restarts never turn a subscription round (handle-subscribe/root.go:31-64).
SubscriptionFollowsCommands ==
  handling = 0 =>
    \A c \in Chats :
      \/ (enabled[c] = "on") = (Cardinality(BegunBy(c)) % 2 = 1)
      \/ \E i \in BegunBy(c) : begun[i] > 1 \/ i \in disturbed

=============================================================================
