------------------------- MODULE StrainPressProofs --------------------------
(***************************************************************************)
(* StrainPress for every number of users, strains, tokens, updates,        *)
(* restarts and faults.  It implements UpdateIntake, so that the bounds on *)
(* repeated and lost updates hold of its presses too; a card ties at most  *)
(* one encounter to a user; parity presses stay in their pair; subscribers *)
(* hear of a strain at most once per find.                                 *)
(*                                                                         *)
(* The invariant below adds to these what they rest on: an update of the   *)
(* channel exists and a press names an existing token (Sound), a handler   *)
(* holds an outcome exactly between the commit and its return (InStep),    *)
(* and an outcome that was not a removal is a find whose fan-out is still  *)
(* due until it is made (Due).                                             *)
(*                                                                         *)
(* While nothing fails every press counts: CountInv follows each press     *)
(* from the channel to its commit.  A press changes the rows it names by   *)
(* one and no others (PressMovesOneRow).                                   *)
(***************************************************************************)
EXTENDS StrainPress, UpdateIntakeProofs, SequenceTheorems

-----------------------------------------------------------------------------
(* The handler's steps as the intake sees them                             *)

LEMMA StepSimulation == [Next]_vars => [IntakeNext]_intakeVars
<1> SUFFICES ASSUME [Next]_vars PROVE [IntakeNext]_intakeVars OBVIOUS
<1> USE DEF IntakeNext
<1>1. CASE UserSearches BY <1>1 DEF UserSearches, Send
<1>2. CASE UserPresses BY <1>2 DEF UserPresses, Send
<1>3. CASE Polls BY <1>3 DEF Polls
<1>4. CASE Take BY <1>4 DEF Take
<1>5. CASE HandlerStep
  <2>1. CASE EnsureUserFails BY <2>1 DEF EnsureUserFails, Return
  <2>2. CASE BuildReply BY <2>2 DEF BuildReply
  <2>3. CASE Reply BY <2>3 DEF Reply, Return
  <2>4. CASE Press BY <2>4 DEF Press
  <2>5. CASE PressFails BY <2>5 DEF PressFails
  <2>6. CASE PressAnswerLost BY <2>6 DEF PressAnswerLost
  <2>7. CASE AnswerRefused BY <2>7 DEF AnswerRefused, Return
  <2>8. CASE Answer BY <2>8 DEF Answer, Return
  <2>9. CASE FanOut BY <2>9 DEF FanOut
  <2>10. CASE BuildCard BY <2>10 DEF BuildCard
  <2>11. CASE PostCard BY <2>11 DEF PostCard, Return
  <2>12. CASE LookupFails BY <2>12 DEF LookupFails, Return
  <2>13. CASE FollowUp BY <2>13 DEF FollowUp, Return
  <2> QED
    BY <1>5, <2>1, <2>2, <2>3, <2>4, <2>5, <2>6, <2>7, <2>8, <2>9, <2>10, <2>11, <2>12, <2>13
    DEF HandlerStep
<1>6. CASE Dies BY <1>6 DEF Dies
<1>7. CASE UNCHANGED vars BY <1>7 DEF vars
<1> QED BY <1>1, <1>2, <1>3, <1>4, <1>5, <1>6, <1>7 DEF Next

\* Whatever a press or a search does, the router takes, ends and repeats updates only as
\* UpdateIntake has it.
THEOREM PressImplementsIntake == Spec => ImplementsIntake
<1>1. Init => IntakeInit BY DEF Init
<1>2. [Next]_vars => [IntakeNext]_intakeVars BY StepSimulation
<1> QED BY <1>1, <1>2, PTL DEF Spec, ImplementsIntake, IntakeSpec

-----------------------------------------------------------------------------
(* The invariant                                                           *)

Tables ==
  /\ updates \in Seq(Searches \cup Presses) /\ Len(updates) = arrived
  /\ tokens \in Seq([strain : Strains, kind : Kinds]) /\ Len(tokens) <= MaxTokens
  /\ shown \subseteq 1..Len(tokens) /\ button \in 0..Len(tokens)
  /\ encounters \in [Users \X Strains \X Sources -> Nat]
  /\ finds \in [Strains -> Nat] /\ fanouts \in [Strains -> Nat]

\* A press names a token that exists, and the router is in an update that exists.
Sound ==
  /\ \A i \in 1..Len(updates) :
       updates[i] \in Presses => updates[i].token \in 1..Len(tokens)
  /\ handling <= arrived

InStep ==
  /\ step = "idle" <=> handling = 0
  /\ step \in {"idle", "taken", "reply"} => outcome = None
  /\ step \in {"fanout", "build", "card", "followup"} => outcome # None
  /\ step = "fanout" => ~outcome.removed
  /\ outcome # None => outcome.user \in Users /\ outcome.strain \in Strains

\* A find whose fan-out has not been made yet.
Pending(s) ==
  IF step \in {"answer", "fanout"} /\ outcome # None /\ outcome.strain = s /\ ~outcome.removed
  THEN 1 ELSE 0

Due == \A s \in Strains : fanouts[s] + Pending(s) <= finds[s]

PInv ==
  Tables /\ Sound /\ InStep /\ Due /\ OneEncounterPerCard /\ ParityKeepsItsPair

LEMMA PressInit == Init => PInv
<1> SUFFICES ASSUME Init PROVE PInv OBVIOUS
<1> USE PressAssumption, IntakeAssumption DEF Init, IntakeInit
<1>1. Tables BY DEF Tables, Sources
<1>2. Sound /\ InStep /\ Due BY DEF Sound, InStep, Due, Pending
<1>0. \A u \in Users, s \in Strains, t \in Sources :
        encounters[<<u, s, t>>] = IF t = 0 THEN Legacy[u] ELSE 0
  <2> SUFFICES ASSUME NEW u \in Users, NEW s \in Strains, NEW t \in Sources
               PROVE  encounters[<<u, s, t>>] = IF t = 0 THEN Legacy[u] ELSE 0
    OBVIOUS
  <2>1. <<u, s, t>> \in Users \X Strains \X Sources OBVIOUS
  <2>2. <<u, s, t>>[3] = t OBVIOUS
  <2> QED BY <2>1, <2>2
<1>3. OneEncounterPerCard
  <2> HIDE DEF Init
  <2>1. \A t \in TokenIds : t \in Sources /\ t # 0 BY DEF TokenIds, Sources
  <2>2. \A u \in Users, s \in Strains, t \in TokenIds : encounters[<<u, s, t>>] = 0 BY <1>0, <2>1
  <2>3. \A u \in Users, s \in Strains, t \in TokenIds :
          encounters[<<u, s, t>>] <= 1 /\ encounters[<<u, s, t>>] # 1
    <3> SUFFICES ASSUME NEW u \in Users, NEW s \in Strains, NEW t \in TokenIds
                 PROVE  encounters[<<u, s, t>>] <= 1 /\ encounters[<<u, s, t>>] # 1
      OBVIOUS
    <3>1. encounters[<<u, s, t>>] = 0 BY <2>2
    <3> HIDE DEF IntakeInit
    <3> QED BY ONLY <3>1, SMT
  <2> QED BY <2>3, Zenon DEF OneEncounterPerCard
<1>4. ParityKeepsItsPair
  <2>1. 0 \in Sources BY DEF Sources
  <2> QED BY <1>0, <2>1 DEF ParityKeepsItsPair
<1> QED BY <1>1, <1>2, <1>3, <1>4 DEF PInv

\* A toggle that follows the parity of a count stays between an even number and its successor.
LEMMA TogglePair ==
  ASSUME NEW n \in Nat
  PROVE  /\ n % 2 = 1 => n - 1 \in Nat /\ (n - 1) \div 2 = n \div 2
         /\ n % 2 # 1 => (n + 1) \div 2 = n \div 2
<1> DEFINE q == n \div 2
<1>1. q \in Nat /\ n = 2 * q + (n % 2) /\ n % 2 \in {0, 1} OBVIOUS
<1> HIDE DEF q
<1>2. (2 * q) \div 2 = q /\ (2 * q + 1) \div 2 = q BY <1>1
<1>3. n % 2 = 1 => n - 1 = 2 * q /\ n - 1 \in Nat BY <1>1
<1>4. n % 2 # 1 => n + 1 = 2 * q + 1 BY <1>1
<1> QED BY <1>2, <1>3, <1>4 DEF q

\* What a press does to one user's encounters of the token's strain, and to no others.
LEMMA ToggleFacts ==
  ASSUME PInv, NEW u \in Users, NEW t \in 1..Len(tokens)
  PROVE  /\ tokens[t] \in [strain : Strains, kind : Kinds]
         /\ SourceOf(t) \in Sources
         /\ Toggled(u, t) \in [Users \X Strains \X Sources -> Nat]
         /\ \A k \in Users \X Strains \X Sources :
              k # <<u, tokens[t].strain, SourceOf(t)>> => Toggled(u, t)[k] = encounters[k]
         /\ tokens[t].kind = "additive" =>
              /\ SourceOf(t) = t
              /\ Toggled(u, t)[<<u, tokens[t].strain, t>>] \in {0, 1}
         /\ tokens[t].kind # "additive" =>
              /\ SourceOf(t) = 0
              /\ Toggled(u, t)[<<u, tokens[t].strain, 0>>] \div 2
                   = encounters[<<u, tokens[t].strain, 0>>] \div 2
<1> USE PressAssumption DEF PInv, Tables
<1>1. tokens[t] \in [strain : Strains, kind : Kinds]
  <2>1. tokens \in Seq([strain : Strains, kind : Kinds]) OBVIOUS
  <2> QED BY <2>1, ElementOfSeq
<1>2. SourceOf(t) \in Sources BY DEF SourceOf, Sources
<1> DEFINE key == <<u, tokens[t].strain, SourceOf(t)>>
           n == encounters[key]
<1>3. key \in Users \X Strains \X Sources BY <1>1, <1>2
<1>4. n \in Nat BY <1>3
<1>5. Removes(u, t) <=> IF tokens[t].kind = "additive" THEN n > 0 ELSE n % 2 = 1
  BY DEF Removes
<1> DEFINE new == IF ~Removes(u, t) THEN n + 1 ELSE IF tokens[t].kind = "additive" THEN 0 ELSE n - 1
<1>6. Toggled(u, t) = [encounters EXCEPT ![key] = new] BY <1>3 DEF Toggled
<1>7. new \in Nat /\ (tokens[t].kind = "additive" => new \in {0, 1})
      /\ (tokens[t].kind # "additive" => new \div 2 = n \div 2)
  <2> HIDE DEF n, key
  <2>1. CASE tokens[t].kind = "additive" BY <1>4, <1>5, <2>1
  <2>2. CASE tokens[t].kind # "additive"
    <3> QED BY <1>4, <1>5, <2>2, TogglePair
  <2> QED BY <2>1, <2>2
<1> HIDE DEF new
<1>8. Toggled(u, t) \in [Users \X Strains \X Sources -> Nat]
      /\ Toggled(u, t)[key] = new
      /\ \A k \in Users \X Strains \X Sources : k # key => Toggled(u, t)[k] = encounters[k]
  <2> HIDE DEF key
  <2> QED BY <1>3, <1>6, <1>7
<1>9. SourceOf(t) = IF tokens[t].kind = "additive" THEN t ELSE 0 BY DEF SourceOf
<1> QED BY <1>1, <1>2, <1>7, <1>8, <1>9

\* A committed press keeps the tables' invariants.
LEMMA PressKeepsTables ==
  ASSUME PInv, NEW m \in Presses, m.token \in 1..Len(tokens), CommitPress(m),
         UNCHANGED <<updates, tokens, shown, button, fanouts, arrived>>
  PROVE  Tables' /\ OneEncounterPerCard' /\ ParityKeepsItsPair'
<1> DEFINE u == m.user
           t == m.token
           s0 == tokens[t].strain
           key == <<u, s0, SourceOf(t)>>
<1>1. u \in Users /\ t \in 1..Len(tokens) BY DEF Presses
<1>2. /\ tokens[t] \in [strain : Strains, kind : Kinds]
      /\ encounters' = Toggled(u, t)
      /\ SourceOf(t) \in Sources
      /\ encounters' \in [Users \X Strains \X Sources -> Nat]
      /\ \A k \in Users \X Strains \X Sources : k # key => encounters'[k] = encounters[k]
      /\ tokens[t].kind = "additive" => SourceOf(t) = t /\ encounters'[<<u, s0, t>>] \in {0, 1}
      /\ tokens[t].kind # "additive" =>
           SourceOf(t) = 0 /\ encounters'[<<u, s0, 0>>] \div 2 = encounters[<<u, s0, 0>>] \div 2
  BY <1>1, ToggleFacts DEF CommitPress
<1>3. Tables'
  <2>1. finds' \in [Strains -> Nat]
    <3>1. finds \in [Strains -> Nat] BY DEF PInv, Tables
    <3>2. s0 \in Strains BY <1>2
    <3>3. finds' = [finds EXCEPT ![s0] = @ + (IF Removes(u, t) THEN 0 ELSE 1)] BY DEF CommitPress
    <3>4. \A n \in {0, 1}, s \in Strains : [finds EXCEPT ![s] = @ + n] \in [Strains -> Nat]
      BY ONLY <3>1
    <3> QED BY <3>2, <3>3, <3>4
  <2> QED BY <1>2, <2>1 DEF PInv, Tables
<1>4. OneEncounterPerCard'
  <2> SUFFICES ASSUME NEW v \in Users, NEW s \in Strains, NEW i \in TokenIds
               PROVE  /\ encounters'[<<v, s, i>>] <= 1
                      /\ encounters'[<<v, s, i>>] = 1 =>
                           i <= Len(tokens) /\ tokens[i] = [strain |-> s, kind |-> "additive"]
    BY DEF OneEncounterPerCard
  <2>1. i \in Sources /\ i # 0 BY PressAssumption DEF TokenIds, Sources
  <2>2. CASE <<v, s, i>> # key
    <3>1. encounters'[<<v, s, i>>] = encounters[<<v, s, i>>] BY <1>2, <2>1, <2>2
    <3> QED BY <3>1 DEF PInv, OneEncounterPerCard
  <2>3. CASE <<v, s, i>> = key
    <3>1. v = u /\ s = s0 /\ i = SourceOf(t) BY <2>3
    <3>2. tokens[t].kind = "additive" /\ i = t BY <1>2, <2>1, <3>1
    <3>3. tokens[t] = [strain |-> s0, kind |-> "additive"] BY <1>2, <3>2
    <3> QED BY <1>1, <1>2, <3>1, <3>2, <3>3
  <2> QED BY <2>2, <2>3
<1>5. ParityKeepsItsPair'
  <2> SUFFICES ASSUME NEW v \in Users, NEW s \in Strains
               PROVE  encounters'[<<v, s, 0>>] \div 2 = Legacy[v] \div 2
    BY DEF ParityKeepsItsPair
  <2>1. 0 \in Sources BY PressAssumption DEF Sources
  <2>2. encounters[<<v, s, 0>>] \div 2 = Legacy[v] \div 2 BY DEF PInv, ParityKeepsItsPair
  <2>3. CASE <<v, s, 0>> # key BY <1>2, <2>1, <2>2, <2>3
  <2>4. CASE <<v, s, 0>> = key
    <3>1. v = u /\ s = s0 /\ SourceOf(t) = 0 BY <2>4
    <3>2. tokens[t].kind # "additive" BY <1>1, <1>2, <3>1
    <3> QED BY <1>2, <2>2, <3>1, <3>2
  <2> QED BY <2>3, <2>4
<1> QED BY <1>3, <1>4, <1>5

\* A step that leaves the tables alone, shown cards aside.
LEMMA QuietKeepsTables ==
  ASSUME PInv, UNCHANGED <<updates, tokens, encounters, arrived, finds, fanouts>>,
         shown' \subseteq 1..Len(tokens), button' \in 0..Len(tokens)
  PROVE  Tables' /\ OneEncounterPerCard' /\ ParityKeepsItsPair'
<1>1. Tables' BY DEF PInv, Tables
<1>2. OneEncounterPerCard' BY DEF PInv, OneEncounterPerCard
<1>3. ParityKeepsItsPair' BY DEF PInv, ParityKeepsItsPair
<1> QED BY <1>1, <1>2, <1>3

\* A handler that returns, or dies, with the tables as they are.
LEMMA ReturnKeeps ==
  ASSUME PInv, IInv', handling' = 0, step' = "idle", button' = 0, outcome' = None,
         UNCHANGED <<updates, tokens, encounters, arrived, finds, fanouts>>,
         shown' \subseteq 1..Len(tokens)
  PROVE  PInv'
<1>1. Tables' /\ OneEncounterPerCard' /\ ParityKeepsItsPair'
  <2>1. button' \in 0..Len(tokens) BY LenProperties DEF PInv, Tables
  <2> QED BY <2>1, QuietKeepsTables
<1>2. Sound' BY DEF PInv, Sound, IInv, IntakeTypeOK
<1>3. InStep' BY DEF InStep
<1>4. Due'
  <2>1. \A s \in Strains : fanouts[s] \in Nat /\ Pending(s) \in Nat /\ finds[s] \in Nat
    BY DEF PInv, Tables, Pending
  <2>2. \A s \in Strains : Pending(s)' = 0 BY DEF Pending
  <2>3. \A s \in Strains : fanouts[s] + Pending(s) <= finds[s] BY DEF PInv, Due
  <2>4. \A s \in Strains : fanouts'[s] + Pending(s)' <= finds'[s] BY <2>1, <2>2, <2>3
  <2> QED BY <2>4 DEF Due
<1> QED BY <1>1, <1>2, <1>3, <1>4 DEF PInv

\* A new token leaves those there are as they are, whether it gets its row and button or not.
LEMMA MintKeepsTables ==
  ASSUME PInv, NEW s \in Strains, NEW k \in Kinds, MintButton(s, k),
         UNCHANGED <<updates, shown, encounters, arrived, finds, fanouts>>
  PROVE  /\ Tables' /\ OneEncounterPerCard' /\ ParityKeepsItsPair'
         /\ Len(tokens) \in Nat /\ Len(tokens') \in Nat /\ Len(tokens') >= Len(tokens)
<1>1. CASE Len(tokens) < MaxTokens /\ tokens' = Append(tokens, [strain |-> s, kind |-> k])
           /\ button' \in {0, Len(tokens')}
  <2>1. tokens \in Seq([strain : Strains, kind : Kinds]) /\ Len(tokens) \in Nat
    BY LenProperties DEF PInv, Tables
  <2>2. /\ tokens' \in Seq([strain : Strains, kind : Kinds])
        /\ Len(tokens') = Len(tokens) + 1
        /\ \A i \in 1..Len(tokens) : tokens'[i] = tokens[i]
    BY <1>1, <2>1, AppendProperties
  <2>3. Tables'
    BY <1>1, <2>1, <2>2, PressAssumption DEF PInv, Tables
  <2>4. OneEncounterPerCard'
    <3> SUFFICES ASSUME NEW u \in Users, NEW r \in Strains, NEW t \in TokenIds
                 PROVE  /\ encounters[<<u, r, t>>] <= 1
                        /\ encounters[<<u, r, t>>] = 1 =>
                             t <= Len(tokens') /\ tokens'[t] = [strain |-> r, kind |-> "additive"]
      BY DEF OneEncounterPerCard
    <3>1. /\ encounters[<<u, r, t>>] <= 1
          /\ encounters[<<u, r, t>>] = 1 =>
               t <= Len(tokens) /\ tokens[t] = [strain |-> r, kind |-> "additive"]
      BY DEF PInv, OneEncounterPerCard
    <3>2. t \in Nat /\ t >= 1 BY PressAssumption DEF TokenIds
    <3>3. t <= Len(tokens) => t <= Len(tokens') /\ tokens'[t] = tokens[t] BY <2>1, <2>2, <3>2
    <3> QED BY <3>1, <3>3
  <2>5. ParityKeepsItsPair' BY DEF PInv, ParityKeepsItsPair
  <2> QED BY <2>1, <2>2, <2>3, <2>4, <2>5
<1>2. CASE button' = 0 /\ UNCHANGED tokens
  <2>1. Len(tokens) \in Nat BY LenProperties DEF PInv, Tables
  <2>2. shown' \subseteq 1..Len(tokens) /\ button' \in 0..Len(tokens)
    BY <1>2, <2>1 DEF PInv, Tables
  <2> QED BY <1>2, <2>1, <2>2, QuietKeepsTables
<1> QED BY <1>1, <1>2 DEF MintButton

\* The update in the router exists, and a press among the updates names an existing token.
LEMMA InRouter ==
  ASSUME PInv, IInv, step # "idle"
  PROVE  /\ handling \in 1..Len(updates)
         /\ Current \in Searches \cup Presses
         /\ Current \in Presses => Current.token \in 1..Len(tokens)
<1>1. handling \in 1..Len(updates)
  BY DEF PInv, InStep, Sound, Tables, IInv, IntakeTypeOK
<1>2. updates \in Seq(Searches \cup Presses) BY DEF PInv, Tables
<1>3. Current \in Searches \cup Presses BY <1>1, <1>2, ElementOfSeq DEF Current
<1> QED BY <1>1, <1>3 DEF PInv, Sound, Current

\* Before the next step of the handler nothing is owed but to the press it is in.
LEMMA DueFacts ==
  ASSUME PInv, NEW s \in Strains
  PROVE  /\ fanouts[s] \in Nat /\ finds[s] \in Nat
         /\ Pending(s) \in {0, 1} /\ fanouts[s] + Pending(s) <= finds[s]
BY DEF PInv, Tables, Pending, Due

\* A step of the handler that leaves the outcome and what is owed for it alone.
LEMMA SameOutcome ==
  ASSUME PInv, UNCHANGED <<finds, fanouts>>,
         \A s \in Strains : Pending(s)' = Pending(s)
  PROVE  Due'
BY DEF PInv, Due

\* A transaction that committed, answered or not.
LEMMA CommitKeeps ==
  ASSUME PInv, IInv, Press \/ PressAnswerLost
  PROVE  PInv'
<1> USE DEF Press, PressAnswerLost
<1> DEFINE m == Current
           r == tokens[m.token].strain
<1>1. /\ step = "taken" /\ m.what = "press" /\ CommitPress(m) /\ step' = "answer"
      /\ UNCHANGED <<updates, tokens, shown, button, fanouts, arrived, handling>>
  BY DEF intakeVars
<1>2. m \in Presses /\ m.user \in Users /\ m.token \in 1..Len(tokens)
  <2>1. m \in Searches \cup Presses /\ (m \in Presses => m.token \in 1..Len(tokens))
    BY <1>1, InRouter
  <2>2. m \notin Searches BY <1>1 DEF Searches
  <2>3. m \in Presses BY <2>1, <2>2
  <2> QED BY <2>1, <2>3 DEF Presses
<1>3. Tables' /\ OneEncounterPerCard' /\ ParityKeepsItsPair' BY <1>1, <1>2, PressKeepsTables
<1>4. r \in Strains
  <2>1. tokens[m.token] \in [strain : Strains, kind : Kinds]
    BY <1>2, ElementOfSeq DEF PInv, Tables
  <2> QED BY <2>1
<1>5. Sound' BY <1>1 DEF PInv, Sound
<1>6. InStep'
  <2>1. handling # 0 BY <1>1 DEF PInv, InStep
  <2>2. outcome' # None => outcome'.user = m.user /\ outcome'.strain = r
    BY DEF OutcomeOf
  <2> QED BY <1>1, <1>2, <1>4, <2>1, <2>2 DEF InStep
<1>7. Due'
  <2> SUFFICES ASSUME NEW s \in Strains PROVE fanouts'[s] + Pending(s)' <= finds'[s]
    BY DEF Due
  <2> DEFINE found == IF Removes(m.user, m.token) THEN 0 ELSE 1
  <2>1. Pending(s) = 0 BY <1>1 DEF Pending
  <2>2. fanouts[s] \in Nat /\ finds[s] \in Nat /\ fanouts[s] <= finds[s]
    BY <2>1, DueFacts
  <2>3. finds'[s] = finds[s] + (IF s = r THEN found ELSE 0)
    <3>1. finds \in [Strains -> Nat] BY DEF PInv, Tables
    <3> QED BY <1>1, <1>4, <2>2, <3>1 DEF CommitPress
  <2>4. Pending(s)' <= (IF s = r THEN found ELSE 0)
    <3>1. CASE Press
      <4>1. outcome'.strain = r /\ (outcome'.removed <=> Removes(m.user, m.token))
        BY <3>1 DEF OutcomeOf
      <4> QED BY <1>1, <4>1 DEF Pending
    <3>2. CASE PressAnswerLost BY <3>2 DEF Pending
    <3> QED BY <3>1, <3>2
  <2>5. Pending(s)' \in {0, 1} /\ found \in {0, 1} BY DEF Pending
  <2>6. fanouts'[s] = fanouts[s] BY <1>1
  <2> HIDE DEF found
  <2> QED BY <2>2, <2>3, <2>4, <2>5, <2>6
<1> QED BY <1>3, <1>5, <1>6, <1>7 DEF PInv

\* An update arrives: whoever presses a button was shown it.
LEMMA SendKeeps ==
  ASSUME PInv, IInv, UserSearches \/ UserPresses
  PROVE  PInv'
<1>1. PICK m \in Searches \cup Presses : Send(m) /\ (m \in Presses => m.token \in 1..Len(tokens))
  <2>1. shown \subseteq 1..Len(tokens) BY DEF PInv, Tables
  <2>2. ASSUME UserSearches PROVE \E m \in Searches : Send(m) /\ m \notin Presses
    BY <2>2 DEF UserSearches, Searches, Presses
  <2>3. ASSUME UserPresses PROVE \E m \in Presses : Send(m) /\ m.token \in 1..Len(tokens)
    BY <2>1, <2>3 DEF UserPresses
  <2> QED BY <2>2, <2>3
<1>2. /\ updates' = Append(updates, m) /\ arrived' = arrived + 1
      /\ UNCHANGED <<tokens, shown, encounters, step, button, outcome, finds, fanouts, handling>>
  BY <1>1 DEF Send, Arrive
<1>3. updates \in Seq(Searches \cup Presses) /\ Len(updates) = arrived /\ arrived \in Nat
  BY DEF PInv, Tables, IInv, IntakeTypeOK
<1>4. /\ updates' \in Seq(Searches \cup Presses) /\ Len(updates') = Len(updates) + 1
      /\ \A i \in 1..Len(updates) : updates'[i] = updates[i]
      /\ updates'[Len(updates) + 1] = m
  BY <1>2, <1>3, AppendProperties
<1>5. Tables' BY <1>2, <1>3, <1>4 DEF PInv, Tables
<1>6. Sound'
  <2>1. ASSUME NEW i \in 1..Len(updates'), updates'[i] \in Presses
        PROVE  updates'[i].token \in 1..Len(tokens')
    <3>1. CASE i \in 1..Len(updates) BY <1>2, <1>4, <2>1, <3>1 DEF PInv, Sound
    <3>2. CASE i = Len(updates) + 1 BY <1>1, <1>2, <1>4, <2>1, <3>2
    <3> QED BY <1>3, <1>4, <3>1, <3>2
  <2>2. handling' <= arrived' BY <1>2, <1>3 DEF PInv, Sound, IInv, IntakeTypeOK
  <2> QED BY <2>1, <2>2 DEF Sound
<1>7. InStep' BY <1>2 DEF PInv, InStep
<1>8. OneEncounterPerCard' /\ ParityKeepsItsPair'
  BY <1>2 DEF PInv, OneEncounterPerCard, ParityKeepsItsPair
<1>9. Due' BY <1>2, SameOutcome DEF Pending
<1> QED BY <1>5, <1>6, <1>7, <1>8, <1>9 DEF PInv

\* A card is about to be built, with its token.
LEMMA BuildKeeps ==
  ASSUME PInv, IInv, BuildReply \/ BuildCard
  PROVE  PInv'
<1> USE DEF BuildReply, BuildCard
<1>1. /\ step # "idle" /\ step' \in {"reply", "card"} /\ step \in {"taken", "build"}
      /\ step' = "card" <=> step = "build"
      /\ UNCHANGED <<updates, shown, encounters, outcome, finds, fanouts, arrived, handling>>
  BY DEF intakeVars
<1>2. /\ Tables' /\ OneEncounterPerCard' /\ ParityKeepsItsPair'
      /\ Len(tokens) \in Nat /\ Len(tokens') \in Nat /\ Len(tokens') >= Len(tokens)
  <2>1. CASE BuildReply
    <3>1. Current \in Searches \cup Presses BY <1>1, InRouter
    <3>2. Current \in Searches BY <2>1, <3>1 DEF Presses
    <3>3. Current.strain \in Strains /\ Current.kind \in Kinds BY <3>2 DEF Searches
    <3> QED BY <1>1, <2>1, <3>3, MintKeepsTables
  <2>2. CASE BuildCard /\ outcome.private
    <3>1. outcome.strain \in Strains BY <2>2 DEF PInv, InStep
    <3>2. "additive" \in Kinds BY DEF Kinds
    <3> QED BY <1>1, <2>2, <3>1, <3>2, MintKeepsTables
  <2>3. CASE BuildCard /\ ~outcome.private
    <3>1. Len(tokens) \in Nat /\ tokens' = tokens BY <2>3, LenProperties DEF PInv, Tables
    <3>2. shown' \subseteq 1..Len(tokens) /\ button' \in 0..Len(tokens)
      BY <1>1, <2>3 DEF PInv, Tables
    <3> QED BY <1>1, <3>1, <3>2, QuietKeepsTables
  <2> QED BY <2>1, <2>2, <2>3
<1>3. Sound' BY <1>1, <1>2 DEF PInv, Sound
<1>4. InStep' BY <1>1 DEF PInv, InStep
<1>5. Due' BY <1>1, SameOutcome DEF Pending
<1> QED BY <1>2, <1>3, <1>4, <1>5 DEF PInv

\* The handler's steps between commit and return, and its roll-back.
LEMMA GoesOn ==
  ASSUME PInv, IInv,
         \/ PressFails
         \/ Answer /\ outcome # None
         \/ FanOut
         \/ PostCard /\ outcome.followUp
  PROVE  PInv'
<1> USE DEF PressFails, Answer, FanOut, PostCard, SendCard
<1>1. /\ step \in {"taken", "answer", "fanout", "card"}
      /\ step' \in {"answer", "fanout", "build", "followup"}
      /\ UNCHANGED <<updates, tokens, encounters, finds, button, arrived, handling>>
  BY DEF intakeVars
<1>2. shown' \subseteq 1..Len(tokens) /\ button \in 0..Len(tokens)
  <2>1. shown \subseteq 1..Len(tokens) /\ button \in 0..Len(tokens) /\ Len(tokens) \in Nat
    BY LenProperties DEF PInv, Tables
  <2>2. shown' = shown \/ shown' = shown \cup ({button} \ {0}) OBVIOUS
  <2>3. {button} \ {0} \subseteq 1..Len(tokens) BY <2>1
  <2> QED BY <2>1, <2>2, <2>3
<1>3. OneEncounterPerCard' /\ ParityKeepsItsPair'
  BY <1>1 DEF PInv, OneEncounterPerCard, ParityKeepsItsPair
<1>4. fanouts' \in [Strains -> Nat]
  <2>1. fanouts \in [Strains -> Nat] BY DEF PInv, Tables
  <2>2. CASE FanOut
    <3>1. outcome.strain \in Strains BY <2>2 DEF PInv, InStep
    <3> QED BY <2>1, <2>2, <3>1
  <2>3. CASE ~FanOut BY <2>1, <2>3
  <2> QED BY <2>2, <2>3
<1>5. Tables' BY <1>1, <1>2, <1>4 DEF PInv, Tables
<1>6. Sound' BY <1>1 DEF PInv, Sound
<1>7. InStep'
  <2>1. CASE PressFails
    <3>1. step' = "answer" /\ outcome' = None /\ handling # 0 BY <2>1 DEF PInv, InStep
    <3> QED BY <1>1, <3>1 DEF InStep
  <2>2. CASE ~PressFails /\ UNCHANGED outcome
    BY <1>1, <2>2 DEF PInv, InStep
  <2> QED BY <2>1, <2>2
<1>8. Due'
  <2> SUFFICES ASSUME NEW s \in Strains PROVE fanouts'[s] + Pending(s)' <= finds'[s]
    BY DEF Due
  <2>1. /\ fanouts[s] \in Nat /\ finds[s] \in Nat
        /\ Pending(s) \in {0, 1} /\ fanouts[s] + Pending(s) <= finds[s]
    BY DueFacts
  <2>2. CASE FanOut
    <3>1. Pending(s)' = 0 BY <2>2 DEF Pending
    <3>2. Pending(s) = IF s = outcome.strain THEN 1 ELSE 0 BY <2>2 DEF Pending, PInv, InStep
    <3>3. fanouts'[s] = fanouts[s] + (IF s = outcome.strain THEN 1 ELSE 0)
      BY <2>1, <2>2 DEF PInv, Tables
    <3> QED BY <1>1, <2>1, <3>1, <3>2, <3>3
  <2>3. CASE ~FanOut
    <3>1. fanouts' = fanouts /\ finds' = finds BY <2>3
    <3>2. Pending(s)' \in {0, Pending(s)} BY <1>1, <2>3 DEF Pending
    <3> QED BY <2>1, <3>1, <3>2
  <2> QED BY <2>2, <2>3
<1> QED BY <1>3, <1>5, <1>6, <1>7, <1>8 DEF PInv

\* The router's own steps: a poll, and an update taken from the channel.
LEMMA IntakeKeeps ==
  ASSUME PInv, IInv, IInv', Polls \/ Take
  PROVE  PInv'
<1>1. /\ UNCHANGED <<updates, tokens, shown, encounters, button, outcome, finds, fanouts, arrived>>
      /\ handling' # handling => Take
  BY DEF Polls, Take, TakeUpdate, Poll, PollUnanswered, pressVars
<1>2. Tables' /\ OneEncounterPerCard' /\ ParityKeepsItsPair'
  BY <1>1, QuietKeepsTables DEF PInv, Tables
<1>3. handling' <= arrived
  <2>1. CASE Take BY <2>1 DEF Take, TakeUpdate, IInv, IntakeTypeOK, Ordered
  <2>2. CASE ~Take BY <1>1, <2>2 DEF PInv, Sound
  <2> QED BY <2>1, <2>2
<1>4. Sound' BY <1>1, <1>3 DEF PInv, Sound
<1>5. InStep'
  <2>1. CASE Take
    <3>1. step' = "taken" /\ handling' # 0 /\ handling = 0
      BY <2>1 DEF Take, TakeUpdate, IInv, IntakeTypeOK, Ordered
    <3> QED BY <1>1, <3>1 DEF PInv, InStep
  <2>2. CASE Polls BY <2>2 DEF PInv, InStep, Polls, Poll, PollUnanswered, pressVars
  <2> QED BY <2>1, <2>2
<1>6. \A s \in Strains : Pending(s)' = Pending(s)
  <2>1. CASE Take
    <3>1. step = "idle" BY <2>1 DEF Take, TakeUpdate, PInv, InStep
    <3> QED BY <2>1, <3>1 DEF Take, Pending
  <2>2. CASE Polls BY <2>2 DEF Polls, pressVars, Pending
  <2> QED BY <2>1, <2>2
<1>7. Due' BY <1>1, <1>6, SameOutcome
<1> QED BY <1>2, <1>4, <1>5, <1>7 DEF PInv

LEMMA PressStep == PInv /\ IInv /\ IInv' /\ [Next]_vars => PInv'
<1> SUFFICES ASSUME PInv, IInv, IInv', [Next]_vars PROVE PInv' OBVIOUS
<1> DEFINE Quiet == UNCHANGED <<updates, tokens, encounters, arrived, finds, fanouts>>
           Gone == handling' = 0 /\ step' = "idle" /\ button' = 0 /\ outcome' = None
<1>1. ASSUME Quiet, Gone, shown' \subseteq 1..Len(tokens) PROVE PInv'
  BY <1>1, ReturnKeeps
<1>2. shown \subseteq 1..Len(tokens) /\ shown \cup ({button} \ {0}) \subseteq 1..Len(tokens)
  BY LenProperties DEF PInv, Tables
<1>3. ASSUME Return PROVE Gone /\ arrived' = arrived BY <1>3 DEF Return, EndUpdate
<1>4. CASE UserSearches \/ UserPresses BY <1>4, SendKeeps
<1>5. CASE Polls \/ Take BY <1>5, IntakeKeeps
<1>6. CASE HandlerStep
  <2>1. CASE EnsureUserFails \/ AnswerRefused \/ LookupFails \/ FollowUp
    BY <1>1, <1>2, <1>3, <2>1 DEF EnsureUserFails, AnswerRefused, LookupFails, FollowUp
  <2>2. CASE Reply BY <1>1, <1>2, <1>3, <2>2 DEF Reply, SendCard
  <2>3. CASE BuildReply \/ BuildCard BY <2>3, BuildKeeps
  <2>4. CASE Press \/ PressAnswerLost BY <2>4, CommitKeeps
  <2>5. CASE PressFails \/ FanOut BY <2>5, GoesOn
  <2>6. CASE Answer
    <3>1. CASE outcome = None BY <1>1, <1>2, <1>3, <2>6, <3>1 DEF Answer
    <3>2. CASE outcome # None BY <2>6, <3>2, GoesOn
    <3> QED BY <3>1, <3>2
  <2>7. CASE PostCard
    <3>1. CASE outcome.followUp BY <2>7, <3>1, GoesOn
    <3>2. CASE ~outcome.followUp BY <1>1, <1>2, <1>3, <2>7, <3>2 DEF PostCard, SendCard
    <3> QED BY <3>1, <3>2
  <2> QED BY <1>6, <2>1, <2>2, <2>3, <2>4, <2>5, <2>6, <2>7 DEF HandlerStep
<1>7. CASE Dies BY <1>1, <1>2, <1>7 DEF Dies, Restart
<1>8. CASE UNCHANGED vars
  <2>1. UNCHANGED <<updates, tokens, shown, encounters, step, button, outcome, finds, fanouts,
                    arrived, handling>>
    BY <1>8 DEF vars, pressVars, intakeVars
  <2>2. Tables' /\ OneEncounterPerCard' /\ ParityKeepsItsPair'
    BY <2>1, QuietKeepsTables DEF PInv, Tables
  <2>3. Sound' /\ InStep' BY <2>1 DEF PInv, Sound, InStep
  <2>4. Due' BY <2>1, SameOutcome DEF Pending
  <2> QED BY <2>2, <2>3, <2>4 DEF PInv
<1> QED BY <1>4, <1>5, <1>6, <1>7, <1>8 DEF Next

-----------------------------------------------------------------------------
(* Every press counts once                                                 *)

\* Updates the handler has dealt with: begun, and past the transaction if there is one.
Done == {i \in 1..arrived : begun[i] > 0 /\ ~(i = handling /\ step = "taken")}

\* The presses among them that went to one counter of a user's encounters of a strain.
Pressed(u, s, src) ==
  {i \in Done : /\ updates[i].what = "press" /\ updates[i].user = u
                /\ tokens[updates[i].token].strain = s
                /\ SourceOf(updates[i].token) = src}

Start(u, src) == IF src = 0 THEN Legacy[u] ELSE 0

\* Each counter is odd or even as its presses and its legacy rows make it.
Counted ==
  \A u \in Users, s \in Strains, src \in Sources :
    encounters[<<u, s, src>>] % 2 = (Start(u, src) + Cardinality(Pressed(u, s, src))) % 2

CountInv ==
  /\ faults \in Nat
  /\ step = "taken" => begun[handling] > 0
  /\ crashes = 0 /\ faults = 0 => Counted

\* A press among the updates is one of Presses, and of an existing token.
LEMMA PressAt ==
  ASSUME PInv, NEW i \in 1..arrived, updates[i].what = "press"
  PROVE  updates[i] \in Presses /\ updates[i].user \in Users /\ updates[i].token \in 1..Len(tokens)
<1>1. updates[i] \in Searches \cup Presses BY ElementOfSeq DEF PInv, Tables
<1>2. updates[i] \notin Searches BY DEF Searches
<1>3. updates[i] \in Presses BY <1>1, <1>2
<1> QED BY <1>3 DEF PInv, Tables, Sound, Presses

LEMMA PressedFinite ==
  ASSUME IInv, NEW u, NEW s, NEW src
  PROVE  IsFiniteSet(Pressed(u, s, src)) /\ Cardinality(Pressed(u, s, src)) \in Nat
<1>1. Pressed(u, s, src) \subseteq 1..arrived BY DEF Pressed, Done
<1>2. IsFiniteSet(1..arrived) BY FS_Interval DEF IInv, IntakeTypeOK
<1>3. IsFiniteSet(Pressed(u, s, src)) BY <1>1, <1>2, FS_Subset
<1> QED BY <1>3, FS_CardinalityType

\* Nothing has been begun at or above the head of the channel, while no process died.
LEMMA FreshUpdates ==
  ASSUME IInv, crashes = 0, NEW i \in Ids, i >= next
  PROVE  begun[i] = 0
BY DEF IInv, Credit, IntakeTypeOK, Ids

\* A step that deals with no press, and only adds updates and tokens, leaves all counts.
LEMMA SameCounts ==
  ASSUME PInv, CountInv, UNCHANGED encounters, faults' \in Nat, faults' = 0 => faults = 0,
         crashes' = 0 => crashes = 0,
         step' = "taken" => begun'[handling'] > 0,
         arrived \in Nat, arrived' \in Nat, arrived <= arrived',
         \A i \in 1..arrived : updates'[i] = updates[i],
         \A t \in 1..Len(tokens) : tokens'[t] = tokens[t],
         crashes' = 0 /\ faults' = 0 =>
           /\ Done' \subseteq 1..arrived
           /\ \A i \in 1..arrived : updates[i].what = "press" => (i \in Done' <=> i \in Done)
  PROVE  CountInv'
<1> SUFFICES ASSUME crashes' = 0, faults' = 0,
                    NEW u \in Users, NEW s \in Strains, NEW src \in Sources
             PROVE  Pressed(u, s, src)' = Pressed(u, s, src)
  BY DEF CountInv, Counted, Start
<1>1. \A i \in 1..arrived : updates[i].what = "press" =>
        SourceOf(updates[i].token)' = SourceOf(updates[i].token)
  BY PressAt DEF SourceOf
<1>2. ASSUME NEW i \in 1..arrived, updates[i].what = "press"
      PROVE  i \in Pressed(u, s, src)' <=> i \in Pressed(u, s, src)
  <2>1. updates'[i] = updates[i] /\ updates[i].token \in 1..Len(tokens) BY <1>2, PressAt
  <2>2. tokens'[updates[i].token] = tokens[updates[i].token] BY <2>1
  <2>3. SourceOf(updates[i].token)' = IF tokens'[updates'[i].token].kind = "additive" THEN updates'[i].token ELSE 0
    BY DEF SourceOf
  <2>4. SourceOf(updates[i].token) = IF tokens[updates[i].token].kind = "additive" THEN updates[i].token ELSE 0
    BY DEF SourceOf
  <2> QED BY <1>2, <2>1, <2>2, <2>3, <2>4 DEF Pressed
<1>3. Pressed(u, s, src)' \subseteq {i \in 1..arrived : updates[i].what = "press"}
  BY DEF Pressed
<1>4. Pressed(u, s, src) \subseteq {i \in 1..arrived : updates[i].what = "press"}
  BY DEF Pressed, Done
<1> QED BY <1>2, <1>3, <1>4

LEMMA OddEven ==
  ASSUME NEW a \in Nat, NEW b \in Nat, a % 2 = b % 2
  PROVE  (a + 1) % 2 = (b + 1) % 2
OBVIOUS

\* A press turns its counter from odd to even or back.
LEMMA ToggleFlips ==
  ASSUME PInv, NEW u \in Users, NEW t \in 1..Len(tokens)
  PROVE  LET key == <<u, tokens[t].strain, SourceOf(t)>>
         IN  /\ encounters[key] \in Nat
             /\ Toggled(u, t)[key] % 2 = (encounters[key] + 1) % 2
<1> DEFINE key == <<u, tokens[t].strain, SourceOf(t)>>
           n == encounters[key]
<1>1. key \in Users \X Strains \X Sources BY ToggleFacts
<1>2. n \in Nat BY <1>1 DEF PInv, Tables
<1>3. Toggled(u, t)[key] = IF ~Removes(u, t) THEN n + 1
                           ELSE IF tokens[t].kind = "additive" THEN 0 ELSE n - 1
  BY <1>1 DEF PInv, Tables, Toggled
<1>4. Removes(u, t) <=> IF tokens[t].kind = "additive" THEN n > 0 ELSE n % 2 = 1
  BY DEF Removes
<1>5. tokens[t].kind = "additive" => n <= 1
  <2> SUFFICES ASSUME tokens[t].kind = "additive" PROVE n <= 1 OBVIOUS
  <2>1. SourceOf(t) = t /\ tokens[t].strain \in Strains BY ToggleFacts
  <2>2. t \in TokenIds BY PressAssumption DEF PInv, Tables, TokenIds
  <2> QED BY <2>1, <2>2 DEF PInv, OneEncounterPerCard
<1>6. n % 2 = 1 => (n - 1) % 2 = (n + 1) % 2 BY <1>2
<1> HIDE DEF n, key
<1>7. Toggled(u, t)[key] % 2 = (n + 1) % 2
  <2>1. CASE tokens[t].kind = "additive" /\ n = 0 BY <1>3, <1>4, <2>1
  <2>2. CASE tokens[t].kind = "additive" /\ n = 1 BY <1>3, <1>4, <2>2
  <2>3. CASE tokens[t].kind # "additive" BY <1>2, <1>3, <1>4, <1>6, <2>3
  <2> QED BY <1>2, <1>5, <2>1, <2>2, <2>3
<1> QED BY <1>2, <1>7 DEF n, key

\* A committed press is one more on its counter.
LEMMA PressCounts ==
  ASSUME PInv, IInv, CountInv, Press
  PROVE  CountInv'
<1> DEFINE m == Current
           key == <<m.user, tokens[m.token].strain, SourceOf(m.token)>>
<1>1. /\ step = "taken" /\ step' = "answer" /\ m.what = "press" /\ encounters' = Toggled(m.user, m.token)
      /\ UNCHANGED <<updates, tokens, arrived, handling, begun, crashes, faults>>
  BY DEF Press, CommitPress, intakeVars
<1>2. handling \in 1..arrived /\ m = updates[handling]
  BY <1>1, InRouter DEF Current, PInv, Tables
<1>3. m.user \in Users /\ m.token \in 1..Len(tokens) BY <1>1, <1>2, PressAt
<1>4. begun[handling] > 0 /\ handling \notin Done BY <1>1 DEF CountInv, Done
<1>5. Done' = Done \cup {handling} BY <1>1, <1>2, <1>4 DEF Done
<1> SUFFICES ASSUME crashes = 0, faults = 0, NEW u \in Users, NEW s \in Strains, NEW src \in Sources
             PROVE  encounters'[<<u, s, src>>] % 2
                      = (Start(u, src) + Cardinality(Pressed(u, s, src)')) % 2
  BY <1>1 DEF CountInv, Counted, Start
<1> DEFINE P == Pressed(u, s, src)
<1>6. encounters[<<u, s, src>>] % 2 = (Start(u, src) + Cardinality(P)) % 2 BY DEF CountInv, Counted
<1>7. IsFiniteSet(P) /\ Cardinality(P) \in Nat /\ Start(u, src) \in Nat
  BY PressedFinite, PressAssumption DEF Start
<1>8. \A t : SourceOf(t)' = SourceOf(t) BY <1>1 DEF SourceOf
<1>9. Pressed(u, s, src)' = P \cup (IF <<u, s, src>> = key THEN {handling} ELSE {})
  <2>1. handling \in Pressed(u, s, src)' <=> <<u, s, src>> = key
    BY <1>1, <1>2, <1>5, <1>8 DEF Pressed
  <2>2. \A i : i # handling => (i \in Pressed(u, s, src)' <=> i \in P)
    BY <1>1, <1>5, <1>8 DEF Pressed
  <2>3. handling \notin P BY <1>4 DEF Pressed
  <2> QED BY <2>1, <2>2, <2>3
<1>10. CASE <<u, s, src>> = key
  <2>1. handling \notin P BY <1>4 DEF Pressed
  <2>2. Cardinality(Pressed(u, s, src)') = Cardinality(P) + 1
    BY <1>7, <1>9, <1>10, <2>1, FS_AddElement
  <2>3. encounters[key] \in Nat /\ encounters'[key] % 2 = (encounters[key] + 1) % 2
    BY <1>1, <1>3, ToggleFlips
  <2> HIDE DEF P
  <2>4. (encounters[key] + 1) % 2 = (Start(u, src) + Cardinality(P) + 1) % 2
    BY <1>6, <1>7, <1>10, <2>3, OddEven
  <2> QED BY <1>7, <1>10, <2>2, <2>3, <2>4
<1>11. CASE <<u, s, src>> # key
  <2>1. encounters'[<<u, s, src>>] = encounters[<<u, s, src>>] BY <1>1, <1>3, <1>11, ToggleFacts
  <2> QED BY <1>6, <1>9, <1>11, <2>1
<1> QED BY <1>10, <1>11

\* The other steps deal with no press; those that fail, or die, leave the claim's premises.
LEMMA CountStep == PInv /\ IInv /\ PInv' /\ IInv' /\ CountInv /\ [Next]_vars => CountInv'
<1> SUFFICES ASSUME PInv, IInv, PInv', IInv', CountInv, [Next]_vars PROVE CountInv' OBVIOUS
<1> DEFINE Fixed == UNCHANGED <<updates, tokens, encounters, arrived, begun, crashes, faults>>
<1>0. /\ faults \in Nat /\ crashes \in Nat /\ arrived \in Nat /\ arrived' \in Nat
      /\ Len(tokens) \in Nat /\ Len(updates) = arrived
  BY LenProperties DEF CountInv, PInv, Tables, IInv, IntakeTypeOK
<1>1. ASSUME step # "taken", step' # "taken", UNCHANGED <<updates, encounters, arrived, begun, crashes>>,
             \A t \in 1..Len(tokens) : tokens'[t] = tokens[t], faults' \in {faults, faults + 1}
      PROVE  CountInv'
  <2>1. Done' = Done BY <1>1 DEF Done
  <2>2. Done \subseteq 1..arrived BY DEF Done
  <2> QED BY <1>0, <1>1, <2>1, <2>2, SameCounts
<1>2. ASSUME faults' = faults + 1, step' # "taken" PROVE CountInv'
  <2>1. faults' \in Nat /\ faults' # 0 BY <1>0, <1>2
  <2> QED BY <1>2, <2>1 DEF CountInv
<1>3. CASE UserSearches \/ UserPresses
  <2>1. PICK m : Send(m) BY <1>3 DEF UserSearches, UserPresses
  <2>2. /\ updates' = Append(updates, m) /\ arrived' = arrived + 1
        /\ UNCHANGED <<tokens, encounters, step, handling, begun, crashes, faults, next>>
    BY <2>1 DEF Send, Arrive
  <2>3. \A i \in 1..arrived : updates'[i] = updates[i]
    BY <1>0, <2>2, AppendProperties DEF PInv, Tables
  <2>4. crashes = 0 => begun[arrived + 1] = 0
    <3>1. arrived + 1 \in Ids /\ arrived + 1 >= next
      BY <2>1, IntakeAssumption DEF Send, Arrive, IInv, IntakeTypeOK, Ordered, Ids
    <3> QED BY <3>1, FreshUpdates
  <2>5. crashes = 0 => Done' = Done
    <3>1. \A i \in 1..arrived' : i \in 1..arrived \/ i = arrived + 1 BY <1>0, <2>2
    <3>2. 1..arrived \subseteq 1..arrived' BY <1>0, <2>2
    <3> QED BY <2>2, <2>4, <3>1, <3>2 DEF Done
  <2>6. Done \subseteq 1..arrived BY DEF Done
  <2>7. step' = "taken" => begun'[handling'] > 0 BY <2>2 DEF CountInv
  <2>8. /\ UNCHANGED encounters /\ faults' \in Nat /\ arrived <= arrived'
        /\ faults' = 0 => faults = 0
        /\ crashes' = 0 => crashes = 0
        /\ \A t \in 1..Len(tokens) : tokens'[t] = tokens[t]
        /\ crashes' = 0 /\ faults' = 0 => Done' = Done
    BY <1>0, <2>2, <2>5
  <2> QED BY <1>0, <2>3, <2>6, <2>7, <2>8, SameCounts
<1>4. CASE Polls
  <2>1. Fixed /\ UNCHANGED <<step, handling>> BY <1>4 DEF Polls, Poll, PollUnanswered, pressVars
  <2>2. Done' = Done /\ Done \subseteq 1..arrived BY <2>1 DEF Done
  <2> QED BY <1>0, <2>1, <2>2, SameCounts DEF CountInv
<1>5. CASE Take
  <2>1. /\ handling = 0 /\ handling' = next /\ step' = "taken" /\ next \in Ids
        /\ begun' = [begun EXCEPT ![next] = @ + 1] /\ step = "idle"
        /\ UNCHANGED <<updates, tokens, encounters, arrived, crashes, faults>>
    BY <1>5, IntakeAssumption
    DEF Take, TakeUpdate, PInv, InStep, IInv, IntakeTypeOK, Ordered, Ids
  <2>2. /\ begun[next] \in Nat
        /\ \A i \in Ids : begun'[i] = IF i = next THEN begun[i] + 1 ELSE begun[i]
        /\ arrived <= MaxUpdates
    BY <2>1, IntakeAssumption DEF IInv, IntakeTypeOK
  <2>3. crashes = 0 => begun[next] = 0 BY <2>1, FreshUpdates DEF Ids
  <2>4. 1..arrived \subseteq Ids BY <1>0, <2>2, IntakeAssumption DEF Ids
  <2>5. crashes = 0 => Done' = Done BY <2>1, <2>2, <2>3, <2>4 DEF Done
  <2>6. Done \subseteq 1..arrived /\ begun'[handling'] > 0 BY <2>1, <2>2 DEF Done
  <2>7. /\ UNCHANGED encounters /\ faults' \in Nat /\ arrived <= arrived'
        /\ faults' = 0 => faults = 0
        /\ crashes' = 0 => crashes = 0
        /\ \A t \in 1..Len(tokens) : tokens'[t] = tokens[t]
        /\ \A i \in 1..arrived : updates'[i] = updates[i]
        /\ crashes' = 0 /\ faults' = 0 => Done' = Done
    BY <1>0, <2>1, <2>5
  <2> QED BY <1>0, <2>6, <2>7, SameCounts
<1>6. CASE HandlerStep
  <2>1. CASE EnsureUserFails \/ PressFails \/ PressAnswerLost \/ AnswerRefused \/ LookupFails
    BY <1>2, <2>1 DEF EnsureUserFails, PressFails, PressAnswerLost, AnswerRefused, LookupFails, Fault,
       Return
  <2>2. CASE Press BY <2>2, PressCounts
  <2>3. ASSUME NEW s, NEW k, MintButton(s, k)
        PROVE  /\ \A t \in 1..Len(tokens) : tokens'[t] = tokens[t]
               /\ faults' \in {faults, faults + 1}
    <3>1. tokens \in Seq([strain : Strains, kind : Kinds]) BY DEF PInv, Tables
    <3>2. UNCHANGED tokens \/ \E x : tokens' = Append(tokens, x) BY <2>3 DEF MintButton
    <3>3. ASSUME NEW x, tokens' = Append(tokens, x), NEW t \in 1..Len(tokens)
          PROVE  tokens'[t] = tokens[t]
      BY <3>1, <3>3
    <3>4. faults' \in {faults, faults + 1} BY <2>3 DEF MintButton, Fault
    <3> QED BY <3>2, <3>3, <3>4
  <2>4. CASE BuildReply
    <3>1. /\ step = "taken" /\ step' = "reply" /\ Current.what = "search"
          /\ UNCHANGED <<updates, encounters, arrived, begun, crashes, handling>>
          /\ \A t \in 1..Len(tokens) : tokens'[t] = tokens[t]
          /\ faults' \in {faults, faults + 1}
      BY <2>3, <2>4 DEF BuildReply, intakeVars
    <3>2. \A i \in 1..arrived : updates[i].what = "press" => i # handling
      BY <3>1 DEF Current
    <3>3. \A i \in 1..arrived : updates[i].what = "press" => (i \in Done' <=> i \in Done)
      BY <3>1, <3>2 DEF Done
    <3>4. Done' \subseteq 1..arrived BY <3>1 DEF Done
    <3> QED BY <1>0, <3>1, <3>3, <3>4, SameCounts
  <2>5. CASE BuildCard
    <3>1. /\ \A t \in 1..Len(tokens) : tokens'[t] = tokens[t]
          /\ faults' \in {faults, faults + 1}
      BY <2>3, <2>5 DEF BuildCard
    <3> QED BY <1>1, <2>5, <3>1 DEF BuildCard, intakeVars
  <2>6. CASE Reply \/ Answer \/ FanOut \/ PostCard \/ FollowUp
    BY <1>1, <2>6 DEF Reply, Answer, FanOut, PostCard, FollowUp, SendCard, Fault, Return, EndUpdate,
       intakeVars
  <2> QED BY <1>6, <2>1, <2>2, <2>4, <2>5, <2>6 DEF HandlerStep
<1>7. CASE Dies
  <2>1. crashes' # 0 /\ step' = "idle" /\ faults' = faults BY <1>0, <1>7 DEF Dies, Restart
  <2> QED BY <1>0, <2>1 DEF CountInv
<1>8. CASE UNCHANGED vars
  <2>1. Fixed /\ UNCHANGED <<step, handling>> BY <1>8 DEF vars, pressVars, intakeVars
  <2>2. Done' = Done /\ Done \subseteq 1..arrived BY <2>1 DEF Done
  <2> QED BY <1>0, <2>1, <2>2, SameCounts DEF CountInv
<1> QED BY <1>3, <1>4, <1>5, <1>6, <1>7, <1>8 DEF Next

LEMMA CountInit == Init => CountInv
<1> SUFFICES ASSUME Init PROVE CountInv OBVIOUS
<1>1. faults \in Nat /\ step # "taken" /\ arrived = 0 BY DEF Init, IntakeInit
<1> SUFFICES ASSUME NEW u \in Users, NEW s \in Strains, NEW src \in Sources
             PROVE  encounters[<<u, s, src>>] % 2
                      = (Start(u, src) + Cardinality(Pressed(u, s, src))) % 2
  BY <1>1 DEF CountInv, Counted
<1>2. Pressed(u, s, src) = {} BY <1>1 DEF Pressed, Done
<1>3. Cardinality(Pressed(u, s, src)) = 0 BY <1>2, FS_EmptySet
<1>4. encounters[<<u, s, src>>] = Start(u, src)
  <2>1. <<u, s, src>> \in Users \X Strains \X Sources /\ <<u, s, src>>[3] = src OBVIOUS
  <2> QED BY <2>1 DEF Init, Start
<1> QED BY <1>3, <1>4, PressAssumption DEF Start

-----------------------------------------------------------------------------
(* The outcome of a press                                                  *)

\* A user's rows of a strain are finitely many, so that they can be counted.
LEMMA RowsFinite ==
  ASSUME NEW e \in [Users \X Strains \X Sources -> Nat], NEW u \in Users, NEW s \in Strains
  PROVE  IsFiniteSet(RowsOf(e, u, s)) /\ Total(e, u, s) \in Nat
<1> DEFINE f == [src \in Sources |-> {src} \X (1..e[<<u, s, src>>])]
           Parts == {{src} \X (1..e[<<u, s, src>>]) : src \in Sources}
<1>1. IsFiniteSet(Sources) BY PressAssumption, FS_Interval DEF Sources
<1>2. f \in Surjection(Sources, Parts) BY DEF Surjection
<1>3. IsFiniteSet(Parts) BY <1>1, <1>2, FS_Surjection
<1>4. \A T \in Parts : IsFiniteSet(T)
  <2> SUFFICES ASSUME NEW src \in Sources PROVE IsFiniteSet({src} \X (1..e[<<u, s, src>>]))
    OBVIOUS
  <2>1. e[<<u, s, src>>] \in Nat OBVIOUS
  <2>2. IsFiniteSet(1..e[<<u, s, src>>]) BY <2>1, FS_Interval
  <2>3. IsFiniteSet({src}) BY FS_Singleton
  <2> QED BY <2>2, <2>3, FS_Product
<1>5. IsFiniteSet(UNION Parts) BY <1>3, <1>4, FS_UNION
<1>6. IsFiniteSet(RowsOf(e, u, s)) BY <1>5 DEF RowsOf
<1> QED BY <1>6, FS_CardinalityType DEF Total

\* What a row is: a source, and a number up to the source's count.
LEMMA RowIn ==
  \A e, u, s, r : r \in RowsOf(e, u, s) <=> \E x \in Sources : r \in {x} \X (1..e[<<u, s, x>>])
BY DEF RowsOf

\* Every row is a source with a number.
LEMMA RowsArePairs ==
  \A e, u, s, r : r \in RowsOf(e, u, s) => \E x, i : r = <<x, i>>
<1> SUFFICES ASSUME NEW e, NEW u, NEW s, NEW r, r \in RowsOf(e, u, s)
             PROVE  \E x, i : r = <<x, i>>
  OBVIOUS
<1> DEFINE Numbers(y) == 1..e[<<u, s, y>>]
<1>1. PICK x \in Sources : r \in {x} \X Numbers(x) BY RowIn
<1> HIDE DEF Numbers
<1> QED BY <1>1

\* Which pairs are rows.
LEMMA PairIn ==
  \A e, u, s, x, i : <<x, i>> \in RowsOf(e, u, s) <=> x \in Sources /\ i \in 1..e[<<u, s, x>>]
<1> SUFFICES ASSUME NEW e, NEW u, NEW s, NEW x, NEW i
             PROVE  <<x, i>> \in RowsOf(e, u, s) <=> x \in Sources /\ i \in 1..e[<<u, s, x>>]
  OBVIOUS
<1> DEFINE Numbers(y) == 1..e[<<u, s, y>>]
<1>1. <<x, i>> \in RowsOf(e, u, s) <=> \E y \in Sources : <<x, i>> \in {y} \X Numbers(y)
  BY RowIn
<1> HIDE DEF Numbers
<1>2. \A y : <<x, i>> \in {y} \X Numbers(y) <=> x = y /\ i \in Numbers(y) OBVIOUS
<1>3. <<x, i>> \in RowsOf(e, u, s) <=> x \in Sources /\ i \in Numbers(x) BY <1>1, <1>2
<1> QED BY <1>3 DEF Numbers

\* One row more of one source is one row more in all.
LEMMA OneRowMore ==
  ASSUME NEW e \in [Users \X Strains \X Sources -> Nat], NEW d \in [Users \X Strains \X Sources -> Nat],
         NEW u \in Users, NEW s \in Strains, NEW src \in Sources,
         d[<<u, s, src>>] = e[<<u, s, src>>] + 1,
         \A x \in Sources : x # src => d[<<u, s, x>>] = e[<<u, s, x>>]
  PROVE  Total(d, u, s) = Total(e, u, s) + 1
<1> DEFINE n == e[<<u, s, src>>]
           row == <<src, n + 1>>
<1>1. n \in Nat /\ \A x \in Sources : e[<<u, s, x>>] \in Nat OBVIOUS
<1>2. 1..(n + 1) = (1..n) \cup {n + 1} /\ n + 1 \notin 1..n BY <1>1
<1> HIDE DEF n
<1>3. \A x, i : <<x, i>> \in RowsOf(e, u, s) <=> x \in Sources /\ i \in 1..e[<<u, s, x>>]
  BY PairIn
<1>4. \A x, i : <<x, i>> \in RowsOf(d, u, s) <=> x \in Sources /\ i \in 1..d[<<u, s, x>>]
  BY PairIn
<1>5. \A r : r \in RowsOf(e, u, s) \/ r \in RowsOf(d, u, s) => \E x, i : r = <<x, i>>
  BY RowsArePairs
<1>6. d[<<u, s, src>>] = n + 1 /\ e[<<u, s, src>>] = n BY DEF n
<1>7. row \notin RowsOf(e, u, s) BY <1>2, <1>3, <1>6
<1>8. RowsOf(d, u, s) = RowsOf(e, u, s) \cup {row}
  <2>1. ASSUME NEW x, NEW i
        PROVE  <<x, i>> \in RowsOf(d, u, s) <=> <<x, i>> \in RowsOf(e, u, s) \/ <<x, i>> = row
    <3>1. CASE x = src
      <4>1. i \in 1..(n + 1) <=> i \in 1..n \/ i = n + 1 BY <1>2
      <4> QED BY <1>3, <1>4, <1>6, <3>1, <4>1
    <3>2. CASE x # src BY <1>3, <1>4, <3>2
    <3> QED BY <3>1, <3>2
  <2>2. \E x, i : row = <<x, i>> OBVIOUS
  <2> HIDE DEF row
  <2> QED BY <1>5, <2>1, <2>2
<1> HIDE DEF row
<1> QED BY <1>7, <1>8, RowsFinite, FS_AddElement DEF Total

\* A press adds one row or takes one away, whatever the rows of other cards are.
LEMMA ToggleMovesOneRow ==
  ASSUME PInv, NEW u \in Users, NEW t \in 1..Len(tokens)
  PROVE  LET s == tokens[t].strain
         IN  /\ Total(encounters, u, s) \in Nat
             /\ Removes(u, t) => Total(Toggled(u, t), u, s) = Total(encounters, u, s) - 1
             /\ ~Removes(u, t) => Total(Toggled(u, t), u, s) = Total(encounters, u, s) + 1
<1> DEFINE s == tokens[t].strain
           src == SourceOf(t)
           key == <<u, s, src>>
           n == encounters[key]
           d == Toggled(u, t)
<1>1. s \in Strains /\ src \in Sources /\ d \in [Users \X Strains \X Sources -> Nat]
  BY ToggleFacts
<1>2. encounters \in [Users \X Strains \X Sources -> Nat] /\ n \in Nat BY <1>1 DEF PInv, Tables
<1>3. ASSUME NEW x \in Sources, x # src PROVE d[<<u, s, x>>] = encounters[<<u, s, x>>]
  <2>1. <<u, s, x>> \in Users \X Strains \X Sources BY <1>1
  <2>2. <<u, s, x>> # <<u, s, src>> BY <1>3
  <2> QED BY <2>1, <2>2, ToggleFacts
<1>4. d[key] = IF ~Removes(u, t) THEN n + 1 ELSE IF tokens[t].kind = "additive" THEN 0 ELSE n - 1
  BY <1>1, <1>2 DEF Toggled
<1>5. Removes(u, t) <=> IF tokens[t].kind = "additive" THEN n > 0 ELSE n % 2 = 1
  BY DEF Removes
<1>6. tokens[t].kind = "additive" => n <= 1
  <2>1. ASSUME tokens[t].kind = "additive" PROVE src = t BY <2>1, ToggleFacts
  <2>2. t \in TokenIds BY PressAssumption DEF PInv, Tables, TokenIds
  <2> QED BY <1>1, <2>1, <2>2 DEF PInv, OneEncounterPerCard
<1>7. Total(encounters, u, s) \in Nat /\ Total(d, u, s) \in Nat BY <1>1, <1>2, RowsFinite
<1> HIDE DEF n, d, s, src
<1>8. CASE ~Removes(u, t)
  <2>1. d[key] = n + 1 BY <1>4, <1>8
  <2>2. Total(d, u, s) = Total(encounters, u, s) + 1
    BY <1>1, <1>2, <1>3, <2>1, OneRowMore DEF n
  <2> QED BY <1>7, <1>8, <2>2 DEF s, d
<1>9. CASE Removes(u, t)
  <2>1. n = d[key] + 1 /\ d[key] \in Nat
    <3>1. n > 0 BY <1>2, <1>5, <1>9
    <3>2. d[key] = n - 1 BY <1>2, <1>4, <1>5, <1>6, <1>9, <3>1
    <3> QED BY <1>2, <3>1, <3>2
  <2>2. encounters[<<u, s, src>>] = d[<<u, s, src>>] + 1 BY <2>1 DEF n
  <2>3. Total(encounters, u, s) = Total(d, u, s) + 1
    BY <1>1, <1>2, <1>3, <2>2, OneRowMore
  <2> QED BY <1>7, <1>9, <2>3 DEF s, d
<1> QED BY <1>8, <1>9

\* The rows of other users, and of other strains, are untouched.
LEMMA ToggleMovesNoOther ==
  ASSUME PInv, NEW u \in Users, NEW t \in 1..Len(tokens), NEW v \in Users, NEW r \in Strains,
         <<v, r>> # <<u, tokens[t].strain>>
  PROVE  Total(Toggled(u, t), v, r) = Total(encounters, v, r)
<1>1. ASSUME NEW src \in Sources PROVE Toggled(u, t)[<<v, r, src>>] = encounters[<<v, r, src>>]
  <2>1. <<v, r, src>> \in Users \X Strains \X Sources OBVIOUS
  <2>2. <<v, r, src>> # <<u, tokens[t].strain, SourceOf(t)>> OBVIOUS
  <2> QED BY <2>1, <2>2, ToggleFacts
<1>2. RowsOf(Toggled(u, t), v, r) = RowsOf(encounters, v, r) BY <1>1 DEF RowsOf
<1> QED BY <1>2 DEF Total

\* What the types need besides the tables.
HandlerTypes ==
  /\ step \in {"idle", "taken", "reply", "answer", "fanout", "build", "card", "followup"}
  /\ outcome \in Outcomes \cup {None}
  /\ faults \in 0..MaxFaults

LEMMA OutcomeTyped ==
  ASSUME PInv, NEW m \in Presses, m.token \in 1..Len(tokens)
  PROVE  OutcomeOf(m) \in Outcomes
<1>1. m.user \in Users /\ m.private \in BOOLEAN BY DEF Presses
<1>2. tokens[m.token].strain \in Strains BY <1>1, ToggleFacts
<1>3. Removes(m.user, m.token) \in BOOLEAN
  <2>1. CASE tokens[m.token].kind = "additive" BY <2>1 DEF Removes
  <2>2. CASE tokens[m.token].kind # "additive" BY <2>2 DEF Removes
  <2> QED BY <2>1, <2>2
<1> QED BY <1>1, <1>2, <1>3 DEF OutcomeOf, Outcomes

LEMMA HandlerTypesStep ==
  ASSUME PInv, IInv, HandlerTypes, [Next]_vars
  PROVE  HandlerTypes'
<1> USE DEF HandlerTypes
<1>1. MaxFaults \in Nat BY PressAssumption
<1>2. Fault => faults' \in 0..MaxFaults BY <1>1 DEF Fault
<1>3. CASE UserSearches \/ UserPresses BY <1>3 DEF UserSearches, UserPresses, Send
<1>4. CASE Polls BY <1>4 DEF Polls, pressVars
<1>5. CASE Take BY <1>5 DEF Take
<1>6. CASE HandlerStep
  <2>1. CASE EnsureUserFails \/ AnswerRefused \/ LookupFails \/ FollowUp
    BY <1>2, <2>1 DEF EnsureUserFails, AnswerRefused, LookupFails, FollowUp, Return
  <2>2. ASSUME NEW s, NEW k, MintButton(s, k) PROVE faults' \in 0..MaxFaults
    BY <1>2, <2>2 DEF MintButton
  <2>3. CASE BuildReply \/ BuildCard BY <2>2, <2>3 DEF BuildReply, BuildCard
  <2>4. SendCard => faults' \in 0..MaxFaults BY <1>2 DEF SendCard
  <2>5. CASE Reply \/ PostCard BY <2>4, <2>5 DEF Reply, PostCard, Return
  <2>6. CASE Press
    <3>1. Current \in Presses /\ Current.token \in 1..Len(tokens)
      BY <2>6, InRouter DEF Press, Searches
    <3>2. OutcomeOf(Current) \in Outcomes BY <3>1, OutcomeTyped
    <3> QED BY <2>6, <3>2 DEF Press
  <2>7. CASE PressFails \/ PressAnswerLost BY <1>2, <2>7 DEF PressFails, PressAnswerLost
  <2>8. CASE Answer \/ FanOut BY <2>8 DEF Answer, FanOut, Return
  <2> QED BY <1>6, <2>1, <2>3, <2>5, <2>6, <2>7, <2>8 DEF HandlerStep
<1>7. CASE Dies BY <1>7 DEF Dies
<1>8. CASE UNCHANGED vars BY <1>8 DEF vars, pressVars
<1> QED BY <1>3, <1>4, <1>5, <1>6, <1>7, <1>8 DEF Next

-----------------------------------------------------------------------------
(* Theorems                                                                *)

\* The inductive invariant of presses, with the intake's, from which the theorems below follow.
THEOREM PressInvariant == Spec => [](PInv /\ IInv)
<1>1. Spec => []IInv BY PressImplementsIntake, IntakeInvariant, PTL DEF ImplementsIntake
<1>2. Init => PInv BY PressInit
<1>3. PInv /\ IInv /\ IInv' /\ [Next]_vars => PInv' BY PressStep
<1> QED BY <1>1, <1>2, <1>3, PTL DEF Spec

\* What the intake promises of updates holds of searches and presses: one is begun again only
\* by a restart, and a restart loses at most a channel of them.
THEOREM PressesAreRepeatedByRestarts == Spec => [](RepeatsNeedRestarts /\ LossIsBounded)
<1> QED BY PressImplementsIntake, RepeatsAreRestarts, LossesAreBounded, PTL DEF ImplementsIntake

\* A card's token ties at most one encounter to a user, whatever is pressed, lost or repeated.
THEOREM CardsTieOneEncounter == Spec => []OneEncounterPerCard
<1>1. PInv => OneEncounterPerCard BY DEF PInv
<1> QED BY <1>1, PressInvariant, PTL

\* Parity presses never leave the pair of counts that the legacy rows put them in.
THEOREM ParityStaysInPair == Spec => []ParityKeepsItsPair
<1>1. PInv => ParityKeepsItsPair BY DEF PInv
<1> QED BY <1>1, PressInvariant, PTL

\* Subscribers hear of a strain at most once per encounter that was added.
THEOREM FanoutsFollowFinds == Spec => []FanoutsAreFinds
<1>1. PInv => FanoutsAreFinds
  <2> SUFFICES ASSUME PInv, NEW s \in Strains PROVE fanouts[s] <= finds[s]
    BY DEF FanoutsAreFinds
  <2> QED BY DueFacts
<1> QED BY <1>1, PressInvariant, PTL

\* Of each user's presses of a card, and of the parity cards of a strain together, every one
\* counted exactly once as long as nothing failed: none is lost between the channel and the
\* commit, and none is counted twice.
THEOREM EveryPressIsCounted == Spec => []EveryPressCounts
<1>1. PInv /\ IInv /\ CountInv => EveryPressCounts
  <2> SUFFICES ASSUME PInv, IInv, CountInv, crashes = 0, faults = 0, handling = 0,
                      NEW u \in Users, NEW s \in Strains
               PROVE  LET mine == {t \in 1..Len(tokens) : tokens[t].strain = s}
                          parity == {t \in mine : tokens[t].kind = "parity"}
                      IN /\ \A t \in mine \ parity : encounters[<<u, s, t>>] = PressCount(u, {t}) % 2
                         /\ encounters[<<u, s, 0>>] % 2 = (Legacy[u] + PressCount(u, parity)) % 2
    BY DEF EveryPressCounts
  <2> DEFINE mine == {t \in 1..Len(tokens) : tokens[t].strain = s}
             parity == {t \in mine : tokens[t].kind = "parity"}
             P(ts) == {i \in 1..arrived : begun[i] > 0 /\ updates[i].what = "press"
                                            /\ updates[i].user = u /\ updates[i].token \in ts}
  <2>1. Done = {i \in 1..arrived : begun[i] > 0}
    BY DEF Done, PInv, InStep
  <2>2. \A t \in 1..Len(tokens) : tokens[t] \in [strain : Strains, kind : Kinds] /\ t # 0
    <3>1. tokens \in Seq([strain : Strains, kind : Kinds]) BY DEF PInv, Tables
    <3>2. ASSUME NEW t \in 1..Len(tokens)
          PROVE  tokens[t] \in [strain : Strains, kind : Kinds] /\ t # 0
      <4>1. t # 0 OBVIOUS
      <4> QED BY ONLY <3>1, <4>1, ElementOfSeq, t \in 1..Len(tokens)
    <3> QED BY <3>2
  <2>3. 1..Len(tokens) \subseteq Sources /\ 0 \in Sources /\ 1..Len(tokens) \subseteq TokenIds
    BY PressAssumption, LenProperties DEF PInv, Tables, Sources, TokenIds
  <2>4. ASSUME NEW t \in mine \ parity PROVE encounters[<<u, s, t>>] = PressCount(u, {t}) % 2
    <3>1. tokens[t].kind = "additive" BY <2>2 DEF Kinds
    <3>2. Pressed(u, s, t) = P({t})
      <4>1. \A i \in 1..arrived : updates[i].what = "press" =>
              (updates[i].token = t <=> tokens[updates[i].token].strain = s
                                          /\ SourceOf(updates[i].token) = t)
        BY <2>2, <3>1, PressAt DEF SourceOf
      <4> QED BY <2>1, <4>1 DEF Pressed
    <3>3. encounters[<<u, s, t>>] % 2 = Cardinality(Pressed(u, s, t)) % 2
      <4>1. Start(u, t) = 0 /\ Cardinality(Pressed(u, s, t)) \in Nat BY <2>2, PressedFinite DEF Start
      <4>2. encounters[<<u, s, t>>] % 2 = (Start(u, t) + Cardinality(Pressed(u, s, t))) % 2
        BY <2>3 DEF CountInv, Counted
      <4> QED BY <4>1, <4>2
    <3>4. encounters[<<u, s, t>>] \in Nat /\ encounters[<<u, s, t>>] <= 1
      BY <2>3 DEF PInv, Tables, OneEncounterPerCard
    <3>5. encounters[<<u, s, t>>] % 2 = encounters[<<u, s, t>>] BY <3>4
    <3> QED BY <3>2, <3>3, <3>5 DEF PressCount
  <2>5. encounters[<<u, s, 0>>] % 2 = (Legacy[u] + PressCount(u, parity)) % 2
    <3>1. Pressed(u, s, 0) = P(parity)
      <4>1. \A i \in 1..arrived : updates[i].what = "press" =>
              (updates[i].token \in parity <=> tokens[updates[i].token].strain = s
                                                 /\ SourceOf(updates[i].token) = 0)
        BY <2>2, PressAt DEF SourceOf, Kinds
      <4> QED BY <2>1, <4>1 DEF Pressed
    <3>2. encounters[<<u, s, 0>>] % 2 = (Start(u, 0) + Cardinality(Pressed(u, s, 0))) % 2
      BY <2>3 DEF CountInv, Counted
    <3> QED BY <3>1, <3>2 DEF PressCount, Start
  <2> QED BY <2>4, <2>5
<1>2. PInv /\ IInv /\ (PInv /\ IInv)' /\ CountInv /\ [Next]_vars => CountInv' BY CountStep
<1> QED BY <1>1, <1>2, CountInit, PressInvariant, PTL DEF Spec

\* Every card, row, token and outcome is what its table says, whatever is sent and lost.
THEOREM PressTypes == Spec => []TypeOK
<1>1. Init => HandlerTypes BY PressAssumption DEF Init, HandlerTypes
<1>2. PInv /\ IInv /\ HandlerTypes /\ [Next]_vars => HandlerTypes' BY HandlerTypesStep
<1>3. PInv /\ IInv /\ HandlerTypes => TypeOK BY DEF PInv, Tables, IInv, HandlerTypes, TypeOK
<1> QED BY <1>1, <1>2, <1>3, PressInvariant, PTL DEF Spec

\* A press that commits moves the presser's total of the strain by exactly one row, and no
\* other total: a pile of old rows is never wiped by one removal, and no press counts twice.
THEOREM PressMovesOneRow ==
  Spec => [][Press \/ PressAnswerLost =>
               \A u \in Users, s \in Strains :
                 LET before == Total(encounters, u, s)
                     after == Total(encounters', u, s)
                 IN  IF <<u, s>> = <<Current.user, tokens[Current.token].strain>>
                     THEN after \in {before - 1, before + 1}
                     ELSE after = before]_vars
<1> DEFINE Moves(u, s) ==
             LET before == Total(encounters, u, s)
                 after == Total(encounters', u, s)
             IN  IF <<u, s>> = <<Current.user, tokens[Current.token].strain>>
                 THEN after \in {before - 1, before + 1}
                 ELSE after = before
           AllMove == Press \/ PressAnswerLost => \A u \in Users, s \in Strains : Moves(u, s)
<1>1. ASSUME PInv, IInv, Press \/ PressAnswerLost, NEW u \in Users, NEW s \in Strains
      PROVE  Moves(u, s)
  <2>1. step = "taken" /\ Current.what = "press" /\ encounters' = Toggled(Current.user, Current.token)
    BY <1>1 DEF Press, PressAnswerLost, CommitPress
  <2>2. Current \in Presses /\ Current.token \in 1..Len(tokens)
    BY <1>1, <2>1, InRouter DEF Searches
  <2>3. Current.user \in Users BY <2>2 DEF Presses
  <2>4. CASE <<u, s>> = <<Current.user, tokens[Current.token].strain>>
    BY <1>1, <2>1, <2>2, <2>3, <2>4, ToggleMovesOneRow
  <2>5. CASE <<u, s>> # <<Current.user, tokens[Current.token].strain>>
    BY <1>1, <2>1, <2>2, <2>3, <2>5, ToggleMovesNoOther
  <2> QED BY <2>4, <2>5
<1>2. PInv /\ IInv /\ [Next]_vars => [AllMove]_vars BY <1>1
<1> QED BY <1>2, PressInvariant, PTL DEF Spec
=============================================================================
