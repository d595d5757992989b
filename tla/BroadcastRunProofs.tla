------------------------- MODULE BroadcastRunProofs -------------------------
(***************************************************************************)
(* Theorems about the broadcast scheduler, for every set of rows and       *)
(* chats, every page limit and every bound.                                *)
(***************************************************************************)
EXTENDS BroadcastRun, TLAPS

(* The chat of a row is a chat.                                            *)
LEMMA ChatOfRow == ASSUME NEW r \in Rows PROVE ChatOf(r) \in Chats
BY RowsAssumption DEF ChatOf

(* The SELECT returns pending rows only.                                   *)
LEMMA PageIsPending == ASSUME NEW S \in Page(Limit) PROVE S \subseteq Rows /\ S \subseteq pending
BY DEF Page, EligibleRows, Eligible

(* Counting one more keeps a counter a counter.                            *)
LEMMA BumpType ==
  ASSUME NEW f \in [Rows -> Nat], NEW r \in Rows
  PROVE  /\ Bump(f, r) \in [Rows -> Nat]
         /\ \A x \in Rows : Bump(f, r)[x] = IF x = r THEN f[x] + 1 ELSE f[x]
BY DEF Bump

-----------------------------------------------------------------------------
(* Type correctness                                                        *)

LEMMA TypeInit == Init => TypeOK
<1> SUFFICES ASSUME Init PROVE TypeOK
  OBVIOUS
<1>1. StoreTypeOK
  BY DEF Init, StoreInit, StoreTypeOK
<1>2. puts \in [Rows -> Nat] /\ posts \in [Rows -> Nat] /\ unrecorded \in [Rows -> Nat]
  BY DEF Init
<1>3. QED
  BY <1>1, <1>2 DEF Init, TypeOK, Phases, StoreInit

(* Giving up a record counts one more unrecorded post, of the row at hand.  *)
LEMMA ForgetType ==
  ASSUME TypeOK, ForgetPost
  PROVE  /\ unrecorded' \in [Rows -> Nat]
         /\ \A x \in Rows : unrecorded'[x] =
                IF pc = "mark" /\ x = cur THEN unrecorded[x] + 1 ELSE unrecorded[x]
<1>1. CASE pc = "mark"
  <2>1. cur \in Rows /\ unrecorded \in [Rows -> Nat]
    BY <1>1 DEF TypeOK
  <2>2. unrecorded' = Bump(unrecorded, cur)
    BY <1>1 DEF ForgetPost
  <2>3. QED
    BY <1>1, <2>1, <2>2, BumpType
<1>2. CASE pc # "mark"
  BY <1>2 DEF TypeOK, ForgetPost
<1>3. QED
  BY <1>1, <1>2

LEMMA TypeStep == TypeOK /\ [Next]_vars => TypeOK'
<1> SUFFICES ASSUME TypeOK, [Next]_vars PROVE TypeOK'
  OBVIOUS
<1> USE DEF TypeOK, StoreTypeOK, Phases
<1>1. CASE Sweep
  BY <1>1 DEF Sweep, CloseRows
<1>2. CASE SelectPage
  BY <1>2, PageIsPending DEF SelectPage, storeVars, obsVars
<1>3. ASSUME NEW r \in Rows, SkipRow(r) PROVE TypeOK'
  BY <1>3 DEF SkipRow, Yield, storeVars, obsVars
<1>4. ASSUME NEW r \in Rows, PostAccepted(r) PROVE TypeOK'
  BY <1>4, BumpType DEF PostAccepted, Yield, storeVars
<1>5. ASSUME NEW r \in Rows, PostRefused(r) PROVE TypeOK'
  BY <1>5, ChatOfRow DEF PostRefused, Yield, storeVars
<1>6. ASSUME NEW r \in Rows, PostAnswerLost(r) PROVE TypeOK'
  BY <1>6, BumpType DEF PostAnswerLost, Yield, storeVars
<1>7. CASE RecordPost
  BY <1>7 DEF RecordPost, MarkSent, obsVars
<1>8. CASE AbortRow
  BY <1>8 DEF AbortRow, CloseRows, obsVars
<1>9. CASE EndOfPage
  BY <1>9 DEF EndOfPage, Return, storeVars
<1>10. CASE RunFails
  <2>1. unrecorded' \in [Rows -> Nat]
    BY <1>10, ForgetType DEF RunFails
  <2>2. faults' \in Nat
    BY <1>10 DEF RunFails
  <2>3. Return /\ UNCHANGED <<storeVars, puts, posts, refusers, leavers>>
    BY <1>10 DEF RunFails
  <2>4. QED
    BY <2>1, <2>2, <2>3 DEF Return, storeVars
<1>11. CASE StatementAnswerLost
  <2>1. StoreTypeOK'
    BY <1>11 DEF StatementAnswerLost, CloseRows, MarkSent
  <2>2. faults' \in Nat /\ Return /\ UNCHANGED <<puts, posts, unrecorded, refusers, leavers>>
    BY <1>11 DEF StatementAnswerLost
  <2>3. QED
    BY <2>1, <2>2 DEF Return
<1>12. CASE Expire
  BY <1>12 DEF Expire, storeVars, obsVars
<1>13. CASE Crash
  <2>1. unrecorded' \in [Rows -> Nat]
    BY <1>13, ForgetType DEF Crash
  <2>2. faults' \in Nat /\ Return /\ UNCHANGED <<storeVars, puts, posts, refusers, leavers>>
    BY <1>13 DEF Crash
  <2>3. QED
    BY <2>1, <2>2 DEF Return, storeVars
<1>14. ASSUME NEW r \in Rows, NEW at \in Times, Queue(r, at) PROVE TypeOK'
  BY <1>14, ChatOfRow, BumpType DEF Queue, UpsertOutgoing, Times, runVars
<1>15. ASSUME NEW b \in Broadcasts, NEW R \in SUBSET Rows, NEW at \in 0 .. MaxClock, Seed(b, R, at)
       PROVE TypeOK'
  BY <1>15, BoundsAssumption DEF Seed, SeedOutgoing, runVars
<1>16. ASSUME NEW c \in Chats, Toggle(c) PROVE TypeOK'
  BY <1>16 DEF Toggle, SetSubscribed, runVars
<1>17. CASE Tick
  BY <1>17 DEF Tick, runVars, obsVars
<1>18. CASE UNCHANGED vars
  BY <1>18 DEF vars, storeVars, runVars, obsVars
<1>19. QED
  BY <1>1, <1>2, <1>3, <1>4, <1>5, <1>6, <1>7, <1>8, <1>9, <1>10, <1>11, <1>12, <1>13, <1>14,
     <1>15, <1>16, <1>17, <1>18 DEF Next, RunStep, Fault, Environment

(* The variables of the scheduler and of the tables keep their types.      *)
THEOREM TypeCorrect == Spec => []TypeOK
<1>1. QED
  BY TypeInit, TypeStep, PTL DEF Spec

-----------------------------------------------------------------------------
(* The inductive invariant                                                 *)

(* A yielded row comes from the page and leaves it.                        *)
LEMMA YieldFromPage ==
  ASSUME NEW r, Yield(r)
  PROVE  pc = "loop" /\ r \in batch /\ batch' = batch \ {r}
BY DEF Yield, IsNewest

(* IInv holds of the empty tables.                                         *)
LEMMA IInvInit == Init => IInv
<1> SUFFICES ASSUME Init PROVE IInv
  OBVIOUS
<1>1. TypeOK
  BY TypeInit
<1>2. PageStillPending /\ InFlight /\ SweptRowsWanted /\ Chats \ subs \subseteq leavers
  BY DEF Init, StoreInit, PageStillPending, InFlight, SweptRowsWanted
<1>3. Accounted
  BY DEF Init, StoreInit, Accounted, Owed
<1>4. MsgIdMeansPosted /\ ClosedForCause
  BY DEF Init, StoreInit, MsgIdMeansPosted, ClosedForCause
<1>5. QED
  BY <1>1, <1>2, <1>3, <1>4 DEF IInv

(* IInv is inductive: every step, whatever the actor, preserves it.         *)
LEMMA IInvStep == IInv /\ [Next]_vars => IInv'
<1> SUFFICES ASSUME IInv, [Next]_vars PROVE IInv'
  OBVIOUS
<1> USE DEF IInv, TypeOK, StoreTypeOK
<1>0. TypeOK'
  BY TypeStep
<1>1. CASE Sweep
  <2>1. PageStillPending'
    BY <1>1 DEF Sweep, CloseRows, UnsubscribedRows, obsVars, PageStillPending, InFlight
  <2>2. Accounted'
    BY <1>1
    DEF Sweep, CloseRows, UnsubscribedRows, obsVars, Accounted, Owed, PageStillPending, InFlight
  <2>3. SweptRowsWanted'
    BY <1>1 DEF Sweep, CloseRows, UnsubscribedRows, obsVars, SweptRowsWanted, PageStillPending
  <2>4. MsgIdMeansPosted'
    BY <1>1 DEF Sweep, CloseRows, UnsubscribedRows, obsVars, MsgIdMeansPosted, InFlight
  <2>5. ClosedForCause'
    BY <1>1, ChatOfRow
    DEF Sweep, CloseRows, UnsubscribedRows, obsVars, ClosedForCause, InFlight, PageStillPending
  <2>6. QED
    BY <1>0, <1>1, <2>1, <2>2, <2>3, <2>4, <2>5
    DEF Sweep, CloseRows, UnsubscribedRows, obsVars, InFlight, PageStillPending
<1>2. CASE SelectPage
  <2>1. PageStillPending'
    BY <1>2, PageIsPending DEF SelectPage, storeVars, obsVars, PageStillPending, InFlight
  <2>2. QED
    BY <1>0, <1>2, <2>1
    DEF SelectPage, storeVars, obsVars, Accounted, Owed, PageStillPending, InFlight,
        SweptRowsWanted, MsgIdMeansPosted, ClosedForCause
<1>3. ASSUME NEW r \in Rows, SkipRow(r)
      PROVE  IInv'
  <2>1. PageStillPending'
    BY <1>3 DEF SkipRow, Yield, storeVars, obsVars, PageStillPending, InFlight
  <2>2. QED
    BY <1>0, <1>3, <2>1
    DEF SkipRow, Yield, storeVars, obsVars, Accounted, Owed, PageStillPending, InFlight,
        SweptRowsWanted, MsgIdMeansPosted, ClosedForCause
<1>4. ASSUME NEW r \in Rows, PostAccepted(r)
      PROVE  IInv'
  <2>0. UNCHANGED <<stored, pending, hasMsgId, subs, puts, refusers, leavers, wanted>>
    BY <1>4 DEF PostAccepted, storeVars
  <2>1. pc = "loop" /\ r \in pending /\ pc' = "mark" /\ cur' = r
    BY <1>4, YieldFromPage DEF PostAccepted, PageStillPending
  <2>2. \A x \in Rows : posts'[x] = IF x = r THEN posts[x] + 1 ELSE posts[x]
    BY <1>4, BumpType DEF PostAccepted
  <2>3. Accounted'
    <3> SUFFICES ASSUME NEW x \in Rows
                 PROVE  posts'[x] + Owed(x)' <= puts'[x] + unrecorded'[x]
      BY DEF Accounted
    <3>1. posts[x] + Owed(x) <= puts[x] + unrecorded[x]
      BY DEF Accounted
    <3>2. Owed(x) \in {0, 1} /\ Owed(x)' = IF x = r THEN 0 ELSE Owed(x)
      BY <2>1, <1>4 DEF Owed, PostAccepted, storeVars
    <3>3. x = r => Owed(x) = 1
      BY <2>1 DEF Owed
    <3>4. UNCHANGED <<puts, unrecorded>>
      BY <1>4 DEF PostAccepted
    <3>5. QED
      BY <2>2, <3>1, <3>2, <3>3, <3>4
  <2>4. PageStillPending'
    BY <1>4, YieldFromPage DEF PostAccepted, storeVars, PageStillPending, InFlight
  <2>5. InFlight'
    BY <2>1, <2>2, <1>4, YieldFromPage DEF InFlight, PageStillPending
  <2>6. MsgIdMeansPosted'
    <3>1. \A x \in Rows : posts'[x] >= posts[x]
      BY <2>2
    <3>2. QED
      BY <3>1, <2>0, <1>0 DEF MsgIdMeansPosted
  <2>7. SweptRowsWanted' /\ ClosedForCause'
    BY <2>0, <2>1 DEF SweptRowsWanted, ClosedForCause
  <2>8. QED
    BY <1>0, <2>0, <2>3, <2>4, <2>5, <2>6, <2>7
<1>5. ASSUME NEW r \in Rows, PostRefused(r)
      PROVE  IInv'
  <2>0. /\ UNCHANGED <<stored, pending, hasMsgId, subs, puts, posts, unrecorded, leavers, wanted>>
        /\ pc' = "abort" /\ cur' = r /\ refusers' = refusers \cup {ChatOf(r)}
    BY <1>5 DEF PostRefused, storeVars
  <2>1. pc = "loop" /\ r \in batch /\ batch' = batch \ {r}
    BY <1>5, YieldFromPage DEF PostRefused
  <2>2. PageStillPending' /\ InFlight'
    BY <2>0, <2>1 DEF PageStillPending, InFlight
  <2>3. Accounted'
    BY <2>0, <2>1 DEF Accounted, Owed
  <2>4. SweptRowsWanted' /\ MsgIdMeansPosted'
    BY <2>0, <2>1 DEF SweptRowsWanted, MsgIdMeansPosted
  <2>5. ClosedForCause'
    BY <2>0 DEF ClosedForCause
  <2>6. QED
    BY <1>0, <2>0, <2>2, <2>3, <2>4, <2>5
<1>6. ASSUME NEW r \in Rows, PostAnswerLost(r)
      PROVE  IInv'
  <2>0. UNCHANGED <<stored, pending, hasMsgId, subs, puts, refusers, leavers, wanted>>
    BY <1>6 DEF PostAnswerLost, storeVars
  <2>1. pc = "loop" /\ pc' = "loop" /\ r \in pending
    BY <1>6, YieldFromPage DEF PostAnswerLost, storeVars, PageStillPending
  <2>2. \A x \in Rows : /\ posts'[x] = IF x = r THEN posts[x] + 1 ELSE posts[x]
                        /\ unrecorded'[x] = IF x = r THEN unrecorded[x] + 1 ELSE unrecorded[x]
    BY <1>6, BumpType DEF PostAnswerLost
  <2>3. Accounted'
    <3> SUFFICES ASSUME NEW x \in Rows
                 PROVE  posts'[x] + Owed(x)' <= puts'[x] + unrecorded'[x]
      BY DEF Accounted
    <3>1. Owed(x)' = Owed(x) /\ Owed(x) \in {0, 1}
      BY <2>0, <2>1, <1>6, YieldFromPage DEF Owed
    <3>2. posts[x] + Owed(x) <= puts[x] + unrecorded[x]
      BY DEF Accounted
    <3>3. QED
      BY <2>0, <2>2, <3>1, <3>2
  <2>4. PageStillPending'
    BY <1>6, YieldFromPage DEF PostAnswerLost, storeVars, PageStillPending, InFlight
  <2>5. InFlight'
    BY <2>1, <2>2, <1>6, YieldFromPage DEF InFlight, PageStillPending
  <2>6. MsgIdMeansPosted'
    <3>1. \A x \in Rows : posts'[x] >= posts[x]
      BY <2>2
    <3>2. QED
      BY <3>1, <2>0, <1>0 DEF MsgIdMeansPosted
  <2>7. SweptRowsWanted' /\ ClosedForCause'
    BY <2>0, <2>1 DEF SweptRowsWanted, ClosedForCause
  <2>8. QED
    BY <1>0, <2>0, <2>3, <2>4, <2>5, <2>6, <2>7
<1>7. CASE RecordPost
  <2>1. PageStillPending'
    BY <1>7 DEF RecordPost, MarkSent, obsVars, PageStillPending, InFlight
  <2>2. Accounted'
    BY <1>7 DEF RecordPost, MarkSent, obsVars, Accounted, Owed, PageStillPending, InFlight
  <2>3. InFlight'
    BY <1>7 DEF RecordPost, MarkSent, obsVars, InFlight, PageStillPending
  <2>4. SweptRowsWanted'
    BY <1>7 DEF RecordPost, MarkSent, obsVars, SweptRowsWanted, PageStillPending
  <2>5. MsgIdMeansPosted'
    BY <1>7 DEF RecordPost, MarkSent, obsVars, MsgIdMeansPosted, InFlight
  <2>6. ClosedForCause'
    BY <1>7 DEF RecordPost, MarkSent, obsVars, ClosedForCause, InFlight, PageStillPending
  <2>7. QED
    BY <1>0, <1>7, <2>1, <2>2, <2>3, <2>4, <2>5, <2>6 DEF RecordPost, MarkSent, obsVars
<1>8. CASE AbortRow
  <2>1. PageStillPending'
    BY <1>8 DEF AbortRow, CloseRows, obsVars, PageStillPending, InFlight
  <2>2. Accounted'
    BY <1>8 DEF AbortRow, CloseRows, obsVars, Accounted, Owed, PageStillPending, InFlight
  <2>3. InFlight'
    BY <1>8 DEF AbortRow, CloseRows, obsVars, InFlight, PageStillPending
  <2>4. SweptRowsWanted'
    BY <1>8 DEF AbortRow, CloseRows, obsVars, SweptRowsWanted, PageStillPending
  <2>5. MsgIdMeansPosted'
    BY <1>8 DEF AbortRow, CloseRows, obsVars, MsgIdMeansPosted, InFlight
  <2>6. ClosedForCause'
    BY <1>8 DEF AbortRow, CloseRows, obsVars, ClosedForCause, InFlight, PageStillPending
  <2>7. QED
    BY <1>0, <1>8, <2>1, <2>2, <2>3, <2>4, <2>5, <2>6 DEF AbortRow, CloseRows, obsVars
<1>9. CASE EndOfPage
  <2>1. Accounted'
    BY <1>9 DEF EndOfPage, Return, storeVars, Accounted, Owed, PageStillPending, InFlight
  <2>2. InFlight'
    BY <1>9 DEF EndOfPage, Return, storeVars, InFlight, PageStillPending
  <2>3. QED
    BY <1>0, <1>9, <2>1, <2>2
    DEF EndOfPage, Return, storeVars, PageStillPending, InFlight, SweptRowsWanted,
        MsgIdMeansPosted, ClosedForCause
<1>10. CASE RunFails
  <2>1. Accounted'
    BY <1>10, ForgetType
    DEF RunFails, Return, storeVars, Accounted, Owed, PageStillPending, InFlight
  <2>2. InFlight'
    BY <1>10 DEF RunFails, Return, storeVars, InFlight, PageStillPending
  <2>3. QED
    BY <1>0, <1>10, <2>1, <2>2
    DEF RunFails, Return, storeVars, PageStillPending, InFlight, SweptRowsWanted, MsgIdMeansPosted,
        ClosedForCause
<1>11. CASE StatementAnswerLost
  <2>1. Accounted'
    BY <1>11
    DEF StatementAnswerLost, Return, CloseRows, MarkSent, UnsubscribedRows, Accounted, Owed,
        PageStillPending, InFlight
  <2>2. MsgIdMeansPosted'
    BY <1>11
    DEF StatementAnswerLost, Return, CloseRows, MarkSent, UnsubscribedRows, MsgIdMeansPosted,
        InFlight
  <2>3. ClosedForCause'
    BY <1>11, ChatOfRow
    DEF StatementAnswerLost, Return, CloseRows, MarkSent, UnsubscribedRows, ClosedForCause,
        InFlight, PageStillPending
  <2>4. QED
    BY <1>0, <1>11, <2>1, <2>2, <2>3
    DEF StatementAnswerLost, Return, CloseRows, MarkSent, UnsubscribedRows, PageStillPending,
        InFlight, SweptRowsWanted
<1>12. CASE Expire
  BY <1>0, <1>12
  DEF Expire, storeVars, obsVars, PageStillPending, InFlight, Accounted, Owed, SweptRowsWanted,
      MsgIdMeansPosted, ClosedForCause
<1>13. CASE Crash
  <2>1. Accounted'
    BY <1>13, ForgetType DEF Crash, Return, storeVars, Accounted, Owed, PageStillPending, InFlight
  <2>2. InFlight'
    BY <1>13 DEF Crash, Return, storeVars, InFlight, PageStillPending
  <2>3. QED
    BY <1>0, <1>13, <2>1, <2>2
    DEF Crash, Return, storeVars, PageStillPending, InFlight, SweptRowsWanted, MsgIdMeansPosted,
        ClosedForCause
<1>14. ASSUME NEW r \in Rows, NEW at \in Times, Queue(r, at)
      PROVE  IInv'
  <2>1. PageStillPending'
    BY <1>14 DEF Queue, UpsertOutgoing, Times, runVars, PageStillPending, InFlight
  <2>2. Accounted'
    BY <1>14, BumpType
    DEF Queue, UpsertOutgoing, Times, runVars, Accounted, Owed, PageStillPending, InFlight
  <2>3. SweptRowsWanted'
    BY <1>14, ChatOfRow DEF Queue, UpsertOutgoing, Times, runVars, SweptRowsWanted, PageStillPending
  <2>4. MsgIdMeansPosted'
    BY <1>14 DEF Queue, UpsertOutgoing, Times, runVars, MsgIdMeansPosted, InFlight
  <2>5. ClosedForCause'
    BY <1>14 DEF Queue, UpsertOutgoing, Times, runVars, ClosedForCause, InFlight, PageStillPending
  <2>6. QED
    BY <1>0, <1>14, <2>1, <2>2, <2>3, <2>4, <2>5
    DEF Queue, UpsertOutgoing, Times, runVars, InFlight, PageStillPending
<1>15. ASSUME NEW b \in Broadcasts, NEW R \in SUBSET Rows, NEW at \in 0 .. MaxClock, Seed(b, R, at)
      PROVE  IInv'
  <2>1. PageStillPending'
    BY <1>15 DEF Seed, SeedOutgoing, runVars, PageStillPending, InFlight
  <2>2. Accounted'
    BY <1>15 DEF Seed, SeedOutgoing, runVars, Accounted, Owed, PageStillPending, InFlight
  <2>3. SweptRowsWanted'
    BY <1>15 DEF Seed, SeedOutgoing, runVars, SweptRowsWanted, PageStillPending, IsStrain
  <2>4. MsgIdMeansPosted'
    BY <1>15 DEF Seed, SeedOutgoing, runVars, MsgIdMeansPosted, InFlight
  <2>5. ClosedForCause'
    BY <1>15 DEF Seed, SeedOutgoing, runVars, ClosedForCause, InFlight, PageStillPending
  <2>6. QED
    BY <1>0, <1>15, <2>1, <2>2, <2>3, <2>4, <2>5
    DEF Seed, SeedOutgoing, runVars, InFlight, PageStillPending
<1>16. ASSUME NEW c \in Chats, Toggle(c)
      PROVE  IInv'
  <2>1. SweptRowsWanted'
    BY <1>16 DEF Toggle, SetSubscribed, runVars, SweptRowsWanted, PageStillPending
  <2>2. (Chats \ subs \subseteq leavers)'
    BY <1>16 DEF Toggle, SetSubscribed, runVars
  <2>3. ClosedForCause'
    BY <1>16 DEF Toggle, SetSubscribed, runVars, ClosedForCause, InFlight, PageStillPending
  <2>4. QED
    BY <1>0, <1>16, <2>1, <2>2, <2>3
    DEF Toggle, SetSubscribed, runVars, PageStillPending, InFlight, Accounted, Owed,
        MsgIdMeansPosted
<1>17. CASE Tick
  BY <1>0, <1>17
  DEF Tick, runVars, obsVars, PageStillPending, InFlight, Accounted, Owed, SweptRowsWanted,
      MsgIdMeansPosted, ClosedForCause
<1>18. CASE UNCHANGED vars
  BY <1>0, <1>18
  DEF vars, storeVars, runVars, obsVars, PageStillPending, InFlight, Accounted, Owed,
      SweptRowsWanted, MsgIdMeansPosted, ClosedForCause
<1>19. QED
  BY <1>1, <1>2, <1>3, <1>4, <1>5, <1>6, <1>7, <1>8, <1>9, <1>10, <1>11, <1>12, <1>13, <1>14, <1>15, <1>16, <1>17, <1>18
     DEF Next, RunStep, Fault, Environment

(* The strengthened invariant of the scheduler holds throughout: posts and   *)
(* debts balance across the gap between a post and its record.             *)
THEOREM IInvAlways == Spec => []IInv
<1>1. QED
  BY IInvInit, IInvStep, PTL DEF Spec

-----------------------------------------------------------------------------
(* What follows                                                            *)

(* A chat gets a row at most once per put, and once more per post whose    *)
(* record was lost.                                                        *)
THEOREM PostsAreBounded == Spec => []PostsBounded
<1>1. IInv => PostsBounded
  <2> SUFFICES ASSUME IInv, NEW r \in Rows PROVE posts[r] <= puts[r] + unrecorded[r]
    BY DEF PostsBounded
  <2>1. posts[r] + Owed(r) <= puts[r] + unrecorded[r] /\ Owed(r) \in {0, 1}
    BY DEF IInv, Accounted, Owed
  <2>2. QED
    BY <2>1 DEF IInv, TypeOK
<1>2. QED
  BY <1>1, IInvAlways, PTL

(* telegram_message_id is set only on rows that were posted.               *)
THEOREM MsgIdsAreHonest == Spec => []MsgIdMeansPosted
<1>1. IInv => MsgIdMeansPosted
  BY DEF IInv
<1>2. QED
  BY <1>1, IInvAlways, PTL

(* A row closed without a message id was refused by Telegram, or belongs   *)
(* to a chat that was not subscribed to strain cards.                      *)
THEOREM ClosingHasCause == Spec => []ClosedForCause
<1>1. IInv => ClosedForCause
  BY DEF IInv
<1>2. QED
  BY <1>1, IInvAlways, PTL

(* The page of a run, though a snapshot, holds only rows still to be sent. *)
THEOREM PageIsNeverStale == Spec => []PageStillPending
<1>1. IInv => PageStillPending
  BY DEF IInv
<1>2. QED
  BY <1>1, IInvAlways, PTL

(* Only a row that rows.Next just yielded is ever posted.                  *)
LEMMA PostsByYield ==
  ASSUME [Next]_vars
  PROVE  UNCHANGED posts \/ \E q \in Rows : Yield(q) /\ posts' = Bump(posts, q)
<1>1. CASE RunStep
  BY <1>1 DEF RunStep, Sweep, SelectPage, SkipRow, PostAccepted, PostRefused, RecordPost,
              AbortRow, EndOfPage, obsVars
<1>2. CASE Fault
  BY <1>2 DEF Fault, PostAnswerLost, RunFails, StatementAnswerLost, Expire, Crash, obsVars
<1>3. CASE Environment
  BY <1>3 DEF Environment, Queue, Seed, Toggle, Tick, obsVars
<1>4. QED
  BY <1>1, <1>2, <1>3 DEF Next, vars, obsVars

(* Strain cards reach only chats that were subscribed when the run swept,  *)
(* or subscribed or queued for since.                                      *)
THEOREM CardsReachWantedChats == Spec => CardsWanted
<1> DEFINE Fair(r) == posts'[r] # posts[r] => ChatOf(r) \in wanted
<1>1. ASSUME IInv, [Next]_vars, NEW r \in StrainRows PROVE Fair(r)
  <2>1. r \in Rows /\ IsStrain(r)
    BY DEF StrainRows
  <2>2. ASSUME NEW q \in Rows, Yield(q), posts' = Bump(posts, q) PROVE Fair(r)
    <3>1. pc = "loop" /\ q \in pending
      BY <2>2, YieldFromPage, <1>1 DEF IInv, PageStillPending
    <3>2. CASE r = q
      BY <3>1, <3>2, <2>1, <1>1 DEF IInv, SweptRowsWanted
    <3>3. CASE r # q
      BY <3>3, <2>1, <2>2, BumpType, <1>1 DEF IInv, TypeOK
    <3>4. QED
      BY <3>2, <3>3
  <2>3. CASE UNCHANGED posts
    BY <2>3
  <2>4. UNCHANGED posts \/ \E q \in Rows : Yield(q) /\ posts' = Bump(posts, q)
    BY <1>1, PostsByYield
  <2>5. QED
    BY <2>2, <2>3, <2>4
<1>2. IInv /\ [Next]_vars => [\A r \in StrainRows : Fair(r)]_vars
  BY <1>1
<1>3. QED
  BY <1>2, IInvAlways, PTL DEF Spec, CardsWanted

-----------------------------------------------------------------------------
(* The scheduler implements an outbox                                      *)

Hand == IF pc = "mark" THEN {cur} ELSE {}

LEMMA OutboxInitially == Init => Box!OutboxInit
BY DEF Init, StoreInit, Box!OutboxInit

(* A yielded row is open, and nothing is in hand.                          *)
LEMMA YieldedIsOpen ==
  ASSUME IInv, NEW r \in Rows, Yield(r)
  PROVE  r \in pending /\ Hand = {}
<1>1. pc = "loop" /\ r \in batch
  BY YieldFromPage
<1>2. batch \subseteq pending
  BY DEF IInv, PageStillPending
<1>3. QED
  BY <1>1, <1>2 DEF Hand

(* Closing rows while nothing is being recorded.                           *)
LEMMA ClosingCloses ==
  ASSUME NEW R, CloseRows(R), pc # "mark", pc' # "mark", UNCHANGED posts
  PROVE  Box!Close
BY DEF CloseRows, Box!Close

(* Every step of a run delivers, takes out, or closes.                     *)
LEMMA OutboxRunStep ==
  ASSUME IInv, RunStep
  PROVE  Box!OutboxNext \/ UNCHANGED <<pending, Hand, posts>>
<1>1. CASE Sweep
  <2>1. pc # "mark" /\ pc' # "mark" /\ CloseRows(UnsubscribedRows) /\ UNCHANGED posts
    BY <1>1 DEF Sweep
  <2>2. Box!Close
    BY <2>1, ClosingCloses
  <2>3. QED
    BY <2>2 DEF Box!OutboxNext
<1>2. CASE SelectPage
  BY <1>2 DEF SelectPage, storeVars, obsVars, Hand
<1>3. ASSUME NEW r \in Rows, SkipRow(r) PROVE UNCHANGED <<pending, Hand, posts>>
  BY <1>3 DEF SkipRow, storeVars, obsVars, Hand
<1>4. ASSUME NEW r \in Rows, PostAccepted(r) PROVE Box!OutboxNext
  <2>1. r \in pending /\ Hand = {} /\ pc' = "mark" /\ cur' = r
    BY <1>4, YieldedIsOpen DEF PostAccepted
  <2>2. posts' = [posts EXCEPT ![r] = @ + 1] /\ UNCHANGED pending
    BY <1>4 DEF PostAccepted, Bump, storeVars
  <2>3. Box!Deliver(r)
    BY <2>1, <2>2 DEF Box!Deliver, Box!Delivery, Hand
  <2>4. QED
    BY <2>3 DEF Box!OutboxNext
<1>5. ASSUME NEW r \in Rows, PostRefused(r) PROVE UNCHANGED <<pending, Hand, posts>>
  <2>1. Hand = {}
    BY <1>5, YieldedIsOpen DEF PostRefused
  <2>2. QED
    BY <1>5, <2>1 DEF PostRefused, storeVars, Hand
<1>6. CASE RecordPost
  <2>1. pc = "mark" /\ pc' = "loop" /\ pending' = pending \ {cur} /\ UNCHANGED posts
    BY <1>6 DEF RecordPost, MarkSent, obsVars
  <2>2. Box!TakeOut
    BY <2>1 DEF Box!TakeOut
  <2>3. QED
    BY <2>2 DEF Box!OutboxNext
<1>7. CASE AbortRow
  <2>1. pc # "mark" /\ pc' # "mark" /\ CloseRows({cur}) /\ UNCHANGED posts
    BY <1>7 DEF AbortRow, obsVars
  <2>2. Box!Close
    BY <2>1, ClosingCloses
  <2>3. QED
    BY <2>2 DEF Box!OutboxNext
<1>8. CASE EndOfPage
  BY <1>8 DEF EndOfPage, Return, storeVars, Hand
<1>9. QED
  BY <1>1, <1>2, <1>3, <1>4, <1>5, <1>6, <1>7, <1>8 DEF RunStep

(* A run that ends where it recorded has forgotten; elsewhere nothing moved. *)
LEMMA EndingForgets ==
  ASSUME Return, UNCHANGED <<pending, posts>>
  PROVE  Box!OutboxNext \/ UNCHANGED <<pending, Hand, posts>>
<1>1. pc' = "idle"
  BY DEF Return
<1>2. CASE pc = "mark"
  <2>1. Box!Forget
    BY <1>1, <1>2 DEF Box!Forget
  <2>2. QED
    BY <2>1 DEF Box!OutboxNext
<1>3. CASE pc # "mark"
  BY <1>1, <1>3 DEF Hand
<1>4. QED
  BY <1>2, <1>3

(* Whatever goes wrong, the outbox only delivers unheard, forgets, takes out or closes. *)
LEMMA OutboxFault ==
  ASSUME IInv, Fault
  PROVE  Box!OutboxNext \/ UNCHANGED <<pending, Hand, posts>>
<1>1. ASSUME NEW r \in Rows, PostAnswerLost(r) PROVE Box!OutboxNext
  <2>1. r \in pending /\ Hand = {} /\ Hand' = {}
    BY <1>1, YieldedIsOpen DEF PostAnswerLost, Hand
  <2>2. posts' = [posts EXCEPT ![r] = @ + 1] /\ UNCHANGED pending
    BY <1>1 DEF PostAnswerLost, Bump, storeVars
  <2>3. Box!DeliverUnheard(r)
    BY <2>1, <2>2 DEF Box!DeliverUnheard, Box!Delivery, Hand
  <2>4. QED
    BY <2>3 DEF Box!OutboxNext
<1>2. CASE RunFails
  <2>1. Return /\ UNCHANGED <<pending, posts>>
    BY <1>2 DEF RunFails, storeVars
  <2>2. QED
    BY <2>1, EndingForgets
<1>3. CASE StatementAnswerLost
  <2>1. pc' = "idle" /\ UNCHANGED posts
    BY <1>3 DEF StatementAnswerLost, Return
  <2>2. CASE pc = "mark"
    <3>1. pending' = pending \ {cur}
      BY <1>3, <2>2 DEF StatementAnswerLost, MarkSent
    <3>2. Box!TakeOut
      BY <2>1, <2>2, <3>1 DEF Box!TakeOut
    <3>3. QED
      BY <3>2 DEF Box!OutboxNext
  <2>3. CASE pc # "mark"
    <3>1. pending' \subseteq pending
      BY <1>3, <2>3 DEF StatementAnswerLost, CloseRows
    <3>2. Box!Close
      BY <2>1, <2>3, <3>1 DEF Box!Close
    <3>3. QED
      BY <3>2 DEF Box!OutboxNext
  <2>4. QED
    BY <2>2, <2>3
<1>4. CASE Expire
  BY <1>4 DEF Expire, storeVars, obsVars, Hand
<1>5. CASE Crash
  <2>1. Return /\ UNCHANGED <<pending, posts>>
    BY <1>5 DEF Crash, storeVars
  <2>2. QED
    BY <2>1, EndingForgets
<1>6. QED
  BY <1>1, <1>2, <1>3, <1>4, <1>5 DEF Fault

(* The rest of the system only puts rows in.                               *)
LEMMA OutboxEnvironment ==
  ASSUME TypeOK', Environment
  PROVE  Box!OutboxNext \/ UNCHANGED <<pending, Hand, posts>>
<1>1. UNCHANGED <<pc, cur, posts>>
  BY DEF Environment, Queue, Seed, Toggle, Tick, runVars, obsVars
<1>2. pending \subseteq pending'
  BY DEF Environment, Queue, UpsertOutgoing, Seed, SeedOutgoing, Toggle, SetSubscribed, Tick
<1>3. pending' \in SUBSET Rows
  BY DEF TypeOK, StoreTypeOK
<1>4. Box!Put
  BY <1>1, <1>2, <1>3 DEF Box!Put
<1>5. QED
  BY <1>4 DEF Box!OutboxNext

(* The scheduler, with all its failures, is an outbox that delivers at     *)
(* least once and never what is not pending.                               *)
THEOREM RunImplementsOutbox == Spec => ImplementsOutbox
<1>1. IInv /\ IInv' /\ [Next]_vars => [Box!OutboxNext]_(Box!outboxVars)
  <2> SUFFICES ASSUME IInv, IInv', [Next]_vars
               PROVE  Box!OutboxNext \/ UNCHANGED <<pending, Hand, posts>>
    BY DEF Box!outboxVars, Hand
  <2>1. CASE UNCHANGED vars
    BY <2>1 DEF vars, storeVars, runVars, obsVars, Hand
  <2>2. CASE Next
    BY <2>2, OutboxRunStep, OutboxFault, OutboxEnvironment DEF Next, IInv
  <2>3. QED
    BY <2>1, <2>2
<1>2. QED
  BY <1>1, OutboxInitially, IInvAlways, PTL DEF Spec, ImplementsOutbox, Box!OutboxSpec

=============================================================================
