---------------------------- MODULE StrainPress -----------------------------
(***************************************************************************)
(* Strain cards and their collection button.  A search in a private chat   *)
(* answers with a card whose button carries a token; a press of the button *)
(* comes back as an update, and handle-strain-press toggles the presser's  *)
(* encounters of the strain in one transaction.  There are two kinds of    *)
(* token: "parity" ones (deep links) add or remove an encounter that names *)
(* no token, "additive" ones (searches, refreshed cards) the encounter     *)
(* that names this very token.  The press is answered, subscribers get the *)
(* plain card when something was added, and the presser a refreshed card   *)
(* with a token of its own.                                                *)
(*                                                                         *)
(* Updates come and go as UpdateIntake has them: this module says what an  *)
(* update is and what happens between TakeUpdate and EndUpdate.            *)
(***************************************************************************)
EXTENDS UpdateIntake, Sequences

CONSTANTS
  Users,       \* who talks to the bot
  Strains,
  Legacy,      \* by user, the encounters of each strain that predate source_token_id
  MaxTokens,   \* bound: rows of strain_press_tokens
  MaxFaults    \* bound: failing statements and calls

ASSUME PressAssumption == Legacy \in [Users -> Nat] /\ MaxTokens \in Nat /\ MaxFaults \in Nat

VARIABLES
  updates,     \* what update i is: a search or a press
  tokens,      \* strain_press_tokens, by id
  shown,       \* tokens on a card that reached a chat
  encounters,  \* rows of strain_collection_encounters per user, strain and source (0 is NULL)
  step,        \* where the router is in the update
  button,      \* token of the card the router is about to send, 0 if it has no button
  outcome,     \* StrainCollectConfirm of a committed press, or None
  faults,
  \* Observers.
  finds,       \* additions committed, per strain
  fanouts      \* plain fan-outs to subscribers, per strain

pressVars == <<updates, tokens, shown, encounters, step, button, outcome, faults, finds, fanouts>>
vars == <<intakeVars, pressVars>>

Kinds == {"parity", "additive"}
TokenIds == 1..MaxTokens
Sources == 0..MaxTokens

Searches == [what : {"search"}, user : Users, strain : Strains, kind : Kinds]
Presses == [what : {"press"}, user : Users, token : TokenIds, private : BOOLEAN]

None == [user |-> 0]
Outcomes ==
  [user : Users, strain : Strains, private : BOOLEAN, removed : BOOLEAN, followUp : BOOLEAN]

TypeOK ==
  /\ IntakeTypeOK
  /\ updates \in Seq(Searches \cup Presses) /\ Len(updates) = arrived
  /\ tokens \in Seq([strain : Strains, kind : Kinds]) /\ Len(tokens) <= MaxTokens
  /\ shown \subseteq 1..Len(tokens)
  /\ encounters \in [Users \X Strains \X Sources -> Nat]
  /\ step \in {"idle", "taken", "reply", "answer", "fanout", "build", "card", "followup"}
  /\ button \in 0..Len(tokens)
  /\ outcome \in Outcomes \cup {None}
  /\ faults \in 0..MaxFaults
  /\ finds \in [Strains -> Nat] /\ fanouts \in [Strains -> Nat]

Init ==
  /\ IntakeInit
  /\ updates = <<>> /\ tokens = <<>> /\ shown = {}
  /\ encounters = [k \in Users \X Strains \X Sources |-> IF k[3] = 0 THEN Legacy[k[1]] ELSE 0]
  /\ step = "idle" /\ button = 0 /\ outcome = None
  /\ faults = 0
  /\ finds = [s \in Strains |-> 0] /\ fanouts = [s \in Strains |-> 0]

-----------------------------------------------------------------------------
(* Tables                                                                  *)

\* A user's encounters of a strain, row by row, and the SELECT COUNT(*) of them.
RowsOf(e, u, s) == UNION {{src} \X (1..e[<<u, s, src>>]) : src \in Sources}
Total(e, u, s) == Cardinality(RowsOf(e, u, s))

\* A press that ties its row to the token whatever the token's kind.
SourceAlways(t) == t

\* The source_token_id a press of token t reads and writes.
SourceOf(t) == IF tokens[t].kind = "additive" THEN t ELSE 0

\* A press that takes a row away whenever there is one.
RemovesAny(u, t) == encounters[<<u, tokens[t].strain, SourceOf(t)>>] > 0

\* A press that never adds.
RemovesAlways(u, t) == TRUE

\* A press that looks at everybody's rows.
RemovesAnybodys(u, t) ==
  \E v \in Users : encounters[<<v, tokens[t].strain, SourceOf(t)>>] % 2 = 1

\* Does a press of t take away: an additive one if the token has a row, a parity one if odd.
Removes(u, t) ==
  LET n == encounters[<<u, tokens[t].strain, SourceOf(t)>>]
  IN IF tokens[t].kind = "additive" THEN n > 0 ELSE n % 2 = 1

\* The INSERT or DELETE of a press.  An additive DELETE takes every row of the token, a
\* parity DELETE the youngest.
Toggled(u, t) ==
  [encounters EXCEPT ![<<u, tokens[t].strain, SourceOf(t)>>] =
     IF ~Removes(u, t) THEN @ + 1
     ELSE IF tokens[t].kind = "additive" THEN 0 ELSE @ - 1]

-----------------------------------------------------------------------------
(* Users                                                                   *)

\* Anybody may search, and press any button that was ever shown.
Send(m) ==
  /\ Arrive
  /\ updates' = Append(updates, m)
  /\ UNCHANGED <<tokens, shown, encounters, step, button, outcome, faults, finds, fanouts>>

UserSearches == \E m \in Searches : Send(m)
UserPresses == \E m \in Presses : m.token \in shown /\ Send(m)

-----------------------------------------------------------------------------
(* The router's handling of an update                                      *)

Current == updates[handling]

Take ==
  /\ TakeUpdate
  /\ step' = "taken"
  /\ UNCHANGED <<updates, tokens, shown, encounters, button, outcome, faults, finds, fanouts>>

\* A handler that leaves its update in the channel.
ReturnToChannel ==
  /\ handling # 0
  /\ handling' = 0 /\ next' = next - 1
  /\ UNCHANGED <<arrived, kept, offset, crashes, begun>>
  /\ step' = "idle" /\ button' = 0 /\ outcome' = None

\* HandleUpdate returns.
Return == EndUpdate /\ step' = "idle" /\ button' = 0 /\ outcome' = None

\* A statement or a call fails.
Fault == faults < MaxFaults /\ faults' = faults + 1

\* The user can neither be queued for the worker nor be written: the update is dropped.
EnsureUserFails ==
  /\ step = "taken"
  /\ Fault
  /\ Return
  /\ UNCHANGED <<updates, tokens, shown, encounters, finds, fanouts>>

\* insertStrainPressToken for the next card: it returns the id of the new row, or it fails,
\* with or without a row, and the card goes out without a button.  At the bound on tokens it
\* always fails.
MintButton(s, k) ==
  LET minted == Append(tokens, [strain |-> s, kind |-> k])
  IN  \/ /\ Len(tokens) < MaxTokens
         /\ tokens' = minted /\ button' = Len(minted)
         /\ UNCHANGED faults
      \/ /\ Fault /\ Len(tokens) < MaxTokens
         /\ tokens' = minted /\ button' = 0
      \/ /\ Fault \/ (Len(tokens) = MaxTokens /\ UNCHANGED faults)
         /\ tokens' = tokens /\ button' = 0

\* fullStrainOutbound for a search in a private chat.
BuildReply ==
  /\ step = "taken" /\ Current.what = "search"
  /\ MintButton(Current.strain, Current.kind)
  /\ step' = "reply"
  /\ UNCHANGED <<intakeVars, updates, shown, encounters, outcome, finds, fanouts>>

\* The card is sent; only one that arrives has a button to press.
SendCard ==
  \/ shown' = shown \cup ({button} \ {0}) /\ UNCHANGED faults
  \/ Fault /\ UNCHANGED shown

\* sendChatOutbound of the reply.
Reply ==
  /\ step = "reply"
  /\ SendCard
  /\ Return
  /\ UNCHANGED <<updates, tokens, encounters, finds, fanouts>>

\* StrainCollectConfirm of a committed press.  The follow-up is decided here, by the counts
\* of the transaction; the total on the card is counted anew when the card is built.
OutcomeOf(m) ==
  LET s == tokens[m.token].strain
      before == Total(encounters, m.user, s)
      after == Total(Toggled(m.user, m.token), m.user, s)
      removed == Removes(m.user, m.token)
  IN [user |-> m.user, strain |-> s, private |-> m.private, removed |-> removed,
      followUp |-> m.private /\ ~removed /\ before = 0 /\ after = 1]

\* The transaction's writes, counted.
CommitPress(m) ==
  LET s == tokens[m.token].strain
  IN /\ encounters' = Toggled(m.user, m.token)
     /\ finds' = [finds EXCEPT ![s] = @ + (IF Removes(m.user, m.token) THEN 0 ELSE 1)]

\* The transaction commits and Handle returns its outcome.
Press ==
  /\ step = "taken" /\ Current.what = "press"
  /\ CommitPress(Current)
  /\ step' = "answer" /\ outcome' = OutcomeOf(Current)
  /\ UNCHANGED <<intakeVars, updates, tokens, shown, button, faults, fanouts>>

\* A Handle that reports an outcome whether or not its transaction committed.
PressReportedAnyway ==
  /\ step = "taken" /\ Current.what = "press"
  /\ Fault
  /\ step' = "answer" /\ outcome' = OutcomeOf(Current)
  /\ UNCHANGED <<intakeVars, updates, tokens, shown, encounters, button, finds, fanouts>>

\* A statement of the transaction fails and it is rolled back: the presser is told "expired".
PressFails ==
  /\ step = "taken" /\ Current.what = "press"
  /\ Fault
  /\ step' = "answer" /\ outcome' = None
  /\ UNCHANGED <<intakeVars, updates, tokens, shown, encounters, button, finds, fanouts>>

\* The transaction commits and the answer to COMMIT is lost: "expired" all the same.
PressAnswerLost ==
  /\ step = "taken" /\ Current.what = "press"
  /\ Fault
  /\ CommitPress(Current)
  /\ step' = "answer" /\ outcome' = None
  /\ UNCHANGED <<intakeVars, updates, tokens, shown, button, fanouts>>

\* answerCallbackQuery is refused: HandleUpdate returns the error, and nothing follows.
AnswerRefused ==
  /\ step = "answer"
  /\ Fault
  /\ Return
  /\ UNCHANGED <<updates, tokens, shown, encounters, finds, fanouts>>

\* An answer that knows what to do next only when there is an outcome.
AnswerOnlyOutcomes ==
  /\ step = "answer" /\ outcome # None
  /\ step' = (IF outcome.removed THEN "build" ELSE "fanout")
  /\ UNCHANGED <<intakeVars, updates, tokens, shown, encounters, button, outcome, faults, finds, fanouts>>

\* answerCallbackQuery succeeds: the follow-up begins if the press had an outcome.
Answer ==
  /\ step = "answer"
  /\ IF outcome = None THEN Return
     ELSE /\ step' = (IF outcome.removed THEN "build" ELSE "fanout")
          /\ UNCHANGED <<intakeVars, button, outcome>>
  /\ UNCHANGED <<updates, tokens, shown, encounters, faults, finds, fanouts>>

\* fanOutPlainStrainAfterCollection: each subscriber gets the plain card or does not; errors
\* are logged.
FanOut ==
  /\ step = "fanout"
  /\ step' = "build"
  /\ fanouts' = [fanouts EXCEPT ![outcome.strain] = @ + 1]
  /\ UNCHANGED <<intakeVars, updates, tokens, shown, encounters, button, outcome, faults, finds>>

\* The presser's refreshed card: in a private chat with a fresh count and a token of its own.
BuildCard ==
  /\ step = "build"
  /\ IF outcome.private THEN MintButton(outcome.strain, "additive") ELSE UNCHANGED <<tokens, button, faults>>
  /\ step' = "card"
  /\ UNCHANGED <<intakeVars, updates, shown, encounters, outcome, finds, fanouts>>

\* The refreshed card is posted or not; the follow-up is posted all the same.
PostCard ==
  /\ step = "card"
  /\ SendCard
  /\ IF outcome.followUp
     THEN step' = "followup" /\ UNCHANGED <<intakeVars, button, outcome>>
     ELSE Return
  /\ UNCHANGED <<updates, tokens, encounters, finds, fanouts>>

\* The strain cannot be looked up: neither card nor follow-up.
LookupFails ==
  /\ step = "build"
  /\ Fault
  /\ Return
  /\ UNCHANGED <<updates, tokens, shown, encounters, finds, fanouts>>

\* The follow-up notice of a first find, posted or not.
FollowUp ==
  /\ step = "followup"
  /\ Return
  /\ UNCHANGED <<updates, tokens, shown, encounters, faults, finds, fanouts>>

Dies ==
  /\ Restart
  /\ step' = "idle" /\ button' = 0 /\ outcome' = None
  /\ UNCHANGED <<updates, tokens, shown, encounters, faults, finds, fanouts>>

Polls == (Poll \/ PollUnanswered) /\ UNCHANGED pressVars

HandlerStep ==
  \/ EnsureUserFails \/ BuildReply \/ Reply
  \/ Press \/ PressFails \/ PressAnswerLost \/ AnswerRefused \/ Answer
  \/ FanOut \/ BuildCard \/ PostCard \/ LookupFails \/ FollowUp

Next == UserSearches \/ UserPresses \/ Polls \/ Take \/ HandlerStep \/ Dies

Spec == Init /\ [][Next]_vars

\* An assumption about Telegram and the database, not a fact of the code: each call and each
\* statement of the handler ends, in whatever way.  None of them has a timeout (app.go:63,
\* routes/root.go:102).
CallsEnd == WF_vars(HandlerStep)

\* The goroutines of the library and of the router keep running.
FairSpec == Spec /\ WF_vars(Poll /\ UNCHANGED pressVars) /\ WF_vars(Take) /\ CallsEnd

-----------------------------------------------------------------------------
(* Properties                                                              *)

\* Whatever is pressed, redelivered, or lost, a card's token never ties more than one
\* encounter to a user, and none of another strain or of a parity token.
OneEncounterPerCard ==
  \A u \in Users, s \in Strains, t \in TokenIds :
    /\ encounters[<<u, s, t>>] <= 1
    /\ encounters[<<u, s, t>>] = 1 =>
         t <= Len(tokens) /\ tokens[t] = [strain |-> s, kind |-> "additive"]

\* Parity presses swing a user's token-less encounters between two neighbouring numbers,
\* the ones the legacy rows put them between: legacy rows are never eaten up nor do
\* toggles pile up.
ParityKeepsItsPair ==
  \A u \in Users, s \in Strains : encounters[<<u, s, 0>>] \div 2 = Legacy[u] \div 2

\* Subscribers are told of a strain at most once for each encounter that was added: not for
\* a removal, nor for a press that was rolled back.
FanoutsAreFinds == \A s \in Strains : fanouts[s] <= finds[s]

\* Presses of token t by user u among the updates handled so far.
PressCount(u, ts) ==
  Cardinality({i \in 1..arrived : begun[i] > 0 /\ updates[i].what = "press"
                                   /\ updates[i].user = u /\ updates[i].token \in ts})

\* While nothing failed and no process died, every press counted exactly once: a row is there
\* after an odd number of presses of its card, and parity cards of a strain share one count.
EveryPressCounts ==
  crashes = 0 /\ faults = 0 /\ handling = 0 =>
    \A u \in Users, s \in Strains :
      LET mine == {t \in 1..Len(tokens) : tokens[t].strain = s}
          parity == {t \in mine : tokens[t].kind = "parity"}
      IN /\ \A t \in mine \ parity : encounters[<<u, s, t>>] = PressCount(u, {t}) % 2
         /\ encounters[<<u, s, 0>>] % 2 = (Legacy[u] + PressCount(u, parity)) % 2

\* The package comment: a press of an additive card adds one, a second press removes it.  So
\* a row is only ever removed by somebody who pressed its card twice.
RemovedBySecondPress ==
  [][\A u \in Users, s \in Strains, t \in TokenIds :
       encounters'[<<u, s, t>>] < encounters[<<u, s, t>>] =>
         Cardinality({i \in 1..arrived : updates[i].what = "press" /\ updates[i].user = u
                                           /\ updates[i].token = t}) >= 2]_vars

\* The handler never takes, ends or repeats an update but as the intake says.
ImplementsIntake == IntakeSpec

\* Nor does a handler whose calls end keep the router for good, whatever fails on the way:
\* this is what the intake leaves to its handlers, and its promise that every update leaves
\* holds of presses (root.go:202-220, handle-strain.go:327-372).
ImplementsFairIntake == FairIntakeSpec /\ HandlersReturn
=============================================================================
