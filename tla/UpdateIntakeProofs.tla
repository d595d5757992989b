------------------------- MODULE UpdateIntakeProofs -------------------------
(***************************************************************************)
(* UpdateIntake for every buffer and every number of updates and restarts: *)
(* an update is begun at most once per process, and a restart loses at     *)
(* most a channel full.                                                    *)
(*                                                                         *)
(* Neither bound is inductive.  RepeatsNeedRestarts holds because what a   *)
(* process has begun lies below its channel, so the count of an update has *)
(* one to spare until the channel has passed it (Credit).  LossIsBounded   *)
(* holds because Telegram's confirmation runs at most a channel full ahead *)
(* of the router (Ahead), and all that it has confirmed behind the router  *)
(* was begun (Behind).                                                     *)
(***************************************************************************)
EXTENDS UpdateIntake, FiniteSetTheorems, TLAPS

Ordered ==
  /\ kept <= arrived + 1 /\ offset <= arrived + 1 /\ next <= offset
  /\ offset > 0 => next > 0 /\ kept <= offset

\* Begun once per earlier process, and once by this one below its channel.
Credit == \A i \in Ids : begun[i] <= crashes + (IF i < next THEN 1 ELSE 0)

\* Telegram forgets at most Buffer updates the router has still to begin.
Ahead == offset > 0 => kept <= next + Buffer

\* What this process has taken out of its channel and not confirmed, it has begun.
Behind == offset > 0 => \A i \in Ids : kept <= i /\ i < next => begun[i] > 0

LossIInv == IsFiniteSet(Lost) /\ LossIsBounded

IInv == IntakeTypeOK /\ Ordered /\ Credit /\ Ahead /\ Behind /\ LossIInv

\* The size of an interval.
LEMMA IntervalSize ==
  ASSUME NEW a \in Nat, NEW b \in Nat
  PROVE  IsFiniteSet(a..b) /\ Cardinality(a..b) = IF a <= b THEN b - a + 1 ELSE 0
BY FS_Interval

LEMMA InitEstablishes == IntakeInit => IInv
<1> SUFFICES ASSUME IntakeInit PROVE IInv OBVIOUS
<1> USE IntakeAssumption DEF IntakeInit
<1>1. Lost = {} BY DEF Lost
<1>2. LossIInv
  <2>1. crashes * Buffer = 0 OBVIOUS
  <2> QED BY <1>1, <2>1, FS_EmptySet DEF LossIInv, LossIsBounded
<1>3. IntakeTypeOK BY DEF IntakeTypeOK, Ids
<1> QED BY <1>2, <1>3 DEF IInv, Ordered, Credit, Ahead, Behind

\* A step that loses nothing new keeps the bound on losses.
LEMMA NothingNewLost ==
  ASSUME IInv, Lost' \subseteq Lost, crashes' = crashes
  PROVE  LossIInv'
<1>1. IsFiniteSet(Lost) /\ Cardinality(Lost) <= crashes * Buffer
  BY DEF IInv, LossIInv, LossIsBounded
<1>2. IsFiniteSet(Lost') /\ Cardinality(Lost') <= Cardinality(Lost)
  BY <1>1, FS_Subset
<1>3. Cardinality(Lost') \in Nat /\ Cardinality(Lost) \in Nat
  BY <1>1, <1>2, FS_CardinalityType
<1>4. crashes * Buffer \in Nat
  BY IntakeAssumption DEF IInv, IntakeTypeOK
<1>5. Cardinality(Lost') <= crashes * Buffer
  BY <1>1, <1>2, <1>3, <1>4
<1> QED BY <1>2, <1>5 DEF LossIInv, LossIsBounded

\* A restart loses what its channel held below Telegram's confirmation.
LEMMA RestartLoses ==
  ASSUME IInv, Restart
  PROVE  LossIInv'
<1> USE IntakeAssumption DEF IInv, IntakeTypeOK
<1> DEFINE Gap == IF offset > 0 THEN next..(kept - 1) ELSE {}
<1>1. IsFiniteSet(Lost) /\ Cardinality(Lost) <= crashes * Buffer
  BY DEF LossIInv, LossIsBounded
<1>2. Lost' \subseteq Lost \cup Gap
  BY DEF Lost, InChannel, Restart, Ids
<1>3. IsFiniteSet(Gap) /\ Cardinality(Gap) <= Buffer
  <2>1. CASE offset > 0
    <3>1. kept - 1 \in Nat /\ next \in Nat /\ kept <= next + Buffer
      BY <2>1 DEF Ahead
    <3>2. IsFiniteSet(next..(kept - 1))
          /\ Cardinality(next..(kept - 1)) = IF next <= kept - 1 THEN (kept - 1) - next + 1 ELSE 0
      BY <3>1, IntervalSize
    <3> QED BY <2>1, <3>1, <3>2
  <2>2. CASE ~(offset > 0)
    BY <2>2, FS_EmptySet
  <2> QED BY <2>1, <2>2
<1>4. IsFiniteSet(Lost \cup Gap) /\ Cardinality(Lost \cup Gap) <= Cardinality(Lost) + Cardinality(Gap)
  <2> HIDE DEF Gap
  <2>1. /\ IsFiniteSet(Lost \cup Gap)
        /\ Cardinality(Lost \cup Gap) = Cardinality(Lost) + Cardinality(Gap) - Cardinality(Lost \cap Gap)
    BY <1>1, <1>3, FS_Union
  <2>2. IsFiniteSet(Lost \cap Gap) BY <1>1, FS_Intersection
  <2>3. Cardinality(Lost) \in Nat /\ Cardinality(Gap) \in Nat /\ Cardinality(Lost \cap Gap) \in Nat
    BY <1>1, <1>3, <2>2, FS_CardinalityType
  <2> QED BY <2>1, <2>3
<1>5. IsFiniteSet(Lost') /\ Cardinality(Lost') <= Cardinality(Lost \cup Gap)
  BY <1>2, <1>4, FS_Subset
<1>6. Cardinality(Lost') <= (crashes + 1) * Buffer
  <2> HIDE DEF Gap
  <2>1. /\ Cardinality(Lost) \in Nat /\ Cardinality(Gap) \in Nat
        /\ Cardinality(Lost \cup Gap) \in Nat /\ Cardinality(Lost') \in Nat
    BY <1>1, <1>3, <1>4, <1>5, FS_CardinalityType
  <2>2. (crashes + 1) * Buffer = crashes * Buffer + Buffer /\ crashes * Buffer \in Nat
    OBVIOUS
  <2> QED BY <1>1, <1>3, <1>4, <1>5, <2>1, <2>2
<1> QED BY <1>5, <1>6 DEF LossIInv, LossIsBounded, Restart

\* A poll, answered or not, moves the confirmation at most up to the offset.
LEMMA PollKeeps ==
  ASSUME IInv, MayPoll, kept' = KeptAfterPoll
  PROVE  /\ kept' \in 1..MaxUpdates + 1 /\ kept <= kept' /\ kept' <= arrived + 1
         /\ offset > 0 => kept' = offset /\ kept' <= next + Buffer
         /\ offset = 0 => kept' = kept
BY IntakeAssumption DEF IInv, IntakeTypeOK, Ordered, MayPoll, KeptAfterPoll

\* A poll loses nothing: below the offset an update is in the channel, or was begun.
LEMMA PollLosesNothing ==
  ASSUME IInv, Poll \/ PollUnanswered
  PROVE  Lost' \subseteq Lost
<1> USE IntakeAssumption DEF IInv, IntakeTypeOK, Ordered
<1>1. MayPoll /\ kept' = KeptAfterPoll BY DEF Poll, PollUnanswered
<1>2. /\ offset > 0 => kept' = offset
      /\ offset = 0 => kept' = kept
  BY <1>1, PollKeeps
<1>3. kept' \in Nat BY <1>1, PollKeeps
<1>4. begun' = begun /\ arrived' = arrived BY DEF Poll, PollUnanswered
<1> SUFFICES ASSUME NEW i \in Lost' PROVE i \in Lost OBVIOUS
<1>5. i \in 1..arrived /\ i \in Ids /\ i < kept' /\ begun[i] = 0 /\ ~InChannel(i)'
  BY <1>4 DEF Lost, Ids
<1>6. CASE offset = 0
  BY <1>2, <1>5, <1>6 DEF Lost, InChannel
<1>7. CASE offset > 0
  <2>1. next' = next /\ offset <= offset'
    BY <1>2, <1>7 DEF Poll, PollUnanswered
  <2>2. i < next BY <1>2, <1>3, <1>5, <1>7, <2>1 DEF InChannel, Poll, PollUnanswered
  <2>3. i < kept BY <1>5, <1>7, <2>2 DEF Behind
  <2> QED BY <1>5, <2>2, <2>3 DEF Lost, InChannel
<1> QED BY <1>6, <1>7

LEMMA StepPreserves == IInv /\ [IntakeNext]_intakeVars => IInv'
<1> SUFFICES ASSUME IInv, [IntakeNext]_intakeVars PROVE IInv' OBVIOUS
<1> USE IntakeAssumption
<1>1. CASE Arrive
  <2>1. Lost' \subseteq Lost
    BY <1>1 DEF IInv, IntakeTypeOK, Ordered, Lost, InChannel, Arrive
  <2>2. LossIInv' BY <1>1, <2>1, NothingNewLost DEF Arrive
  <2> QED BY <1>1, <2>2 DEF IInv, IntakeTypeOK, Ordered, Credit, Ahead, Behind, Arrive
<1>2. CASE Poll
  <2>1. /\ kept' \in 1..MaxUpdates + 1 /\ kept <= kept' /\ kept' <= arrived + 1
        /\ offset > 0 => kept' = offset /\ kept' <= next + Buffer
        /\ offset = 0 => kept' = kept
    BY <1>2, PollKeeps DEF Poll
  <2>2. LossIInv' BY <1>2, PollLosesNothing, NothingNewLost DEF Poll
  <2>3. IntakeTypeOK' /\ Ordered'
    BY <1>2, <2>1 DEF IInv, IntakeTypeOK, Ordered, Poll
  <2>4. offset > 0 => next' = next
    BY <1>2, <2>1 DEF Poll, IInv, IntakeTypeOK
  <2>5. offset = 0 => (offset' = 0 /\ next' = 0) \/ next' = kept'
    BY <1>2, <2>1 DEF Poll, IInv, IntakeTypeOK, Ordered
  <2>6. offset = 0 => next = 0 BY DEF IInv, IntakeTypeOK, Ordered
  <2>7. Credit' BY <1>2, <2>4, <2>5, <2>6, <2>3 DEF IInv, IntakeTypeOK, Credit, Poll, Ids
  <2>8. Ahead'
    <3>1. CASE offset > 0 BY <3>1, <2>1, <2>4 DEF Ahead
    <3>2. CASE offset = 0 BY <3>2, <2>1, <2>5 DEF Ahead
    <3> QED BY <3>1, <3>2 DEF IInv, IntakeTypeOK
  <2>9. Behind'
    BY <1>2, <2>1, <2>3, <2>4, <2>5 DEF IInv, IntakeTypeOK, Behind, Ordered, Poll, Ids
  <2> QED BY <2>2, <2>3, <2>7, <2>8, <2>9 DEF IInv
<1>3. CASE PollUnanswered
  <2>1. /\ kept' \in 1..MaxUpdates + 1 /\ kept <= kept' /\ kept' <= arrived + 1
        /\ offset > 0 => kept' = offset /\ kept' <= next + Buffer
        /\ offset = 0 => kept' = kept
    BY <1>3, PollKeeps DEF PollUnanswered
  <2>2. LossIInv' BY <1>3, PollLosesNothing, NothingNewLost DEF PollUnanswered
  <2> QED BY <1>3, <2>1, <2>2 DEF IInv, IntakeTypeOK, Ordered, Credit, Ahead, Behind, PollUnanswered, Ids
<1>4. CASE TakeUpdate
  <2>1. next \in Ids BY <1>4 DEF IInv, IntakeTypeOK, Ordered, TakeUpdate, Ids
  <2>2. begun' = [begun EXCEPT ![next] = begun[next] + 1] /\ begun \in [Ids -> Nat]
    BY <1>4 DEF TakeUpdate, IInv, IntakeTypeOK
  <2>3. IntakeTypeOK' BY <1>4, <2>1, <2>2 DEF TakeUpdate, IInv, IntakeTypeOK, Ordered, Ids
  <2>4. Lost' \subseteq Lost
    BY <1>4, <2>1, <2>2 DEF IInv, IntakeTypeOK, Lost, InChannel, TakeUpdate, Ids
  <2>5. LossIInv' BY <1>4, <2>4, NothingNewLost DEF TakeUpdate
  <2>6. Credit' BY <1>4, <2>1, <2>2 DEF IInv, IntakeTypeOK, Credit, TakeUpdate, Ids
  <2>7. Behind' BY <1>4, <2>1, <2>2 DEF IInv, IntakeTypeOK, Behind, TakeUpdate, Ids
  <2>8. Ordered' /\ Ahead' BY <1>4 DEF IInv, IntakeTypeOK, Ordered, Ahead, TakeUpdate
  <2> QED BY <2>3, <2>5, <2>6, <2>7, <2>8 DEF IInv
<1>5. CASE EndUpdate
  <2>1. Lost' \subseteq Lost BY <1>5 DEF Lost, InChannel, EndUpdate
  <2>2. LossIInv' BY <1>5, <2>1, NothingNewLost DEF EndUpdate
  <2> QED BY <1>5, <2>2 DEF IInv, IntakeTypeOK, Ordered, Credit, Ahead, Behind, EndUpdate
<1>6. CASE Restart
  <2>1. LossIInv' BY <1>6, RestartLoses
  <2>2. Credit' BY <1>6 DEF IInv, IntakeTypeOK, Credit, Restart, Ids
  <2> QED BY <1>6, <2>1, <2>2 DEF IInv, IntakeTypeOK, Ordered, Ahead, Behind, Restart
<1>7. CASE UNCHANGED intakeVars
  <2>1. Lost' \subseteq Lost BY <1>7 DEF Lost, InChannel, intakeVars
  <2>2. LossIInv' BY <1>7, <2>1, NothingNewLost DEF intakeVars
  <2> QED BY <1>7, <2>2 DEF IInv, IntakeTypeOK, Ordered, Credit, Ahead, Behind, intakeVars
<1> QED BY <1>1, <1>2, <1>3, <1>4, <1>5, <1>6, <1>7 DEF IntakeNext

\* The inductive invariant of the intake holds in every reachable state.
THEOREM IntakeInvariant == IntakeSpec => []IInv
<1>1. IntakeInit => IInv BY InitEstablishes
<1>2. IInv /\ [IntakeNext]_intakeVars => IInv' BY StepPreserves
<1> QED BY <1>1, <1>2, PTL DEF IntakeSpec

\* Type correctness of the intake.
THEOREM IntakeTypeCorrect == IntakeSpec => []IntakeTypeOK
<1>1. IInv => IntakeTypeOK BY DEF IInv
<1> QED BY <1>1, IntakeInvariant, PTL

\* However many updates and restarts, an update is begun once, and once more per restart at
\* most (UpdateRouter.Run over the library's offset).
THEOREM RepeatsAreRestarts == IntakeSpec => []RepeatsNeedRestarts
<1>1. IInv => RepeatsNeedRestarts
  BY DEF IInv, IntakeTypeOK, Credit, RepeatsNeedRestarts, Ids
<1> QED BY <1>1, IntakeInvariant, PTL

\* However large the channel, restarts lose at most that many updates each, and a process
\* that keeps running loses none.
THEOREM LossesAreBounded == IntakeSpec => []LossIsBounded
<1>1. IInv => LossIsBounded BY DEF IInv, LossIInv
<1> QED BY <1>1, IntakeInvariant, PTL
=============================================================================
