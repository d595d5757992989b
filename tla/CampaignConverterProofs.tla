----------------------- MODULE CampaignConverterProofs -----------------------
(***************************************************************************)
(* Theorems about the campaign converter, for every set of files with      *)
(* their ids, orders and flags, and every payload they share.              *)
(***************************************************************************)
EXTENDS CampaignConverter, BroadcastRunProofs

(* The scheduler writes no outgoing row that was not there.                *)
LEMMA SchedulerLeavesRows ==
  ASSUME SchedulerStep
  PROVE  UNCHANGED <<stored, puts, converterVars>>
<1>1. CASE RunStep
  BY <1>1 DEF SchedulerStep, RunStep, Sweep, SelectPage, SkipRow, PostAccepted, PostRefused,
     RecordPost, AbortRow, EndOfPage, storeVars, obsVars, CloseRows, MarkSent
<1>2. CASE Fault
  BY <1>2 DEF SchedulerStep, Fault, PostAnswerLost, RunFails, StatementAnswerLost, Expire, Crash,
     storeVars, obsVars, CloseRows, MarkSent
<1>3. CASE Tick
  BY <1>3 DEF SchedulerStep, Tick, obsVars
<1>4. QED
  BY <1>1, <1>2, <1>3 DEF SchedulerStep

(* A commit seeds the rows it offers, once each, or leaves the tables alone. *)
LEMMA CommitSeeds ==
  ASSUME ConverterTypeOK, NEW f \in Files, CommitFile(f)
  PROVE  /\ [Next]_vars
         /\ stored' = stored \cup AudienceRows(f)
         /\ \A r \in Rows : puts'[r] = IF r \in AudienceRows(f) \ stored THEN puts[r] + 1 ELSE puts[r]
<1>1. CASE AudienceRows(f) = {}
  <2>1. UNCHANGED vars
    BY <1>1 DEF CommitFile
  <2>2. QED
    BY <1>1, <2>1 DEF vars, storeVars, obsVars
<1>2. CASE AudienceRows(f) # {}
  <2>1. Seed(IdOf[f], AudienceRows(f), StartAt[f])
    BY <1>2 DEF CommitFile
  <2>2. IdOf[f] \in Broadcasts /\ AudienceRows(f) \in SUBSET Rows /\ StartAt[f] \in 0 .. MaxClock
    BY FilesAssumption DEF AudienceRows
  <2>3. Environment
    BY <2>1, <2>2 DEF Environment
  <2>4. QED
    BY <2>1, <2>3 DEF Next, Seed, SeedOutgoing
<1>3. QED
  BY <1>1, <1>2

(* Every step of the tool and its surroundings is one of BroadcastRun's.   *)
LEMMA ConverterSimulation == ConverterTypeOK /\ [ConverterNext]_allVars => [Next]_vars
<1> SUFFICES ASSUME ConverterTypeOK, [ConverterNext]_allVars PROVE [Next]_vars
  OBVIOUS
<1>1. CASE Start \/ MoveFile \/ ConverterFails \/ BrokenFileFails
  BY <1>1 DEF Start, MoveFile, ConverterFails, BrokenFileFails
<1>2. ASSUME NEW f \in Files, ConvertFile(f) \/ CommitAnswerLost(f) \/ DropFile(f) PROVE [Next]_vars
  BY <1>2, CommitSeeds DEF ConvertFile, CommitAnswerLost, DropFile
<1>3. ASSUME NEW c \in Chats, Join(c) PROVE [Next]_vars
  BY <1>3 DEF Join
<1>4. CASE SchedulerStep
  BY <1>4 DEF SchedulerStep, Next, Environment
<1>5. CASE UNCHANGED allVars
  BY <1>5 DEF allVars
<1>6. QED
  BY <1>1, <1>2, <1>3, <1>4, <1>5 DEF ConverterNext

(* A file that seeds offers a row for everybody it was promised to.        *)
LEMMA PromiseIsOffered ==
  ASSUME ConverterTypeOK, NEW f \in Files, Seeding(f),
         NEW r \in Rows, r[1] = IdOf[f], r[2] \in promised[f]
  PROVE  r \in AudienceRows(f)
<1>1. r[2] \in members
  BY DEF ConverterTypeOK
<1>2. HasDuplicate(IdOf[f]) => f \in Exempt
  BY DEF HasDuplicate, Seeding, ConverterTypeOK
<1>3. QED
  BY <1>1, <1>2 DEF AudienceRows, Seeding

-----------------------------------------------------------------------------
(* The invariant, one part at a time                                       *)

LEMMA CInvInit == ConverterInit => CInv
<1> SUFFICES ASSUME ConverterInit PROVE CInv
  OBVIOUS
<1>1. TypeOK /\ stored = {} /\ puts = [r \in Rows |-> 0]
  BY TypeInit DEF ConverterInit, Init, StoreInit
<1>2. ConverterTypeOK
  BY <1>1 DEF ConverterTypeOK, ConverterInit
<1>3. SeededOnce /\ OnePayloadOneCampaign
  BY <1>1 DEF SeededOnce, OnePayloadOneCampaign
<1>4. MovedMeansSeeded /\ MovingMeansSeeded
  BY DEF MovedMeansSeeded, MovingMeansSeeded, ConverterInit
<1>5. QED
  BY <1>2, <1>3, <1>4 DEF CInv

(* What a commit of f leaves behind.                                       *)
LEMMA CommitFacts ==
  ASSUME CInv, NEW f \in Files, CommitFile(f), TypeOK'
  PROVE  /\ loaded' \subseteq Broadcasts /\ \A r \in stored' : r[1] \in loaded'
         /\ SeededOnce'
         /\ OnePayloadOneCampaign'
         /\ Seeding(f) => \A r \in Rows : r[1] = IdOf[f] /\ r[2] \in promised[f] => r \in stored'
<1> DEFINE b == IdOf[f]
<1>1. /\ stored' = stored \cup AudienceRows(f)
      /\ \A r \in Rows : puts'[r] = IF r \in AudienceRows(f) \ stored THEN puts[r] + 1 ELSE puts[r]
  BY CommitSeeds DEF CInv
<1>2. loaded' = loaded \cup {b} /\ b \in Broadcasts
  BY FilesAssumption DEF CommitFile
<1>3. \A r \in AudienceRows(f) : r \in Rows /\ r[1] = b /\ (HasDuplicate(b) => f \in Exempt)
  BY DEF AudienceRows
<1>4. loaded' \subseteq Broadcasts /\ \A r \in stored' : r[1] \in loaded'
  BY <1>1, <1>2, <1>3 DEF CInv, ConverterTypeOK
<1>5. SeededOnce'
  BY <1>1 DEF CInv, SeededOnce, ConverterTypeOK, TypeOK
<1>6. OnePayloadOneCampaign'
  <2> SUFFICES ASSUME NEW r \in stored', NEW s \in stored',
                      PayloadOf[r[1]] = PayloadOf[s[1]], r[1] # s[1]
               PROVE  \E g \in Exempt : IdOf[g] \in {r[1], s[1]}
    BY DEF OnePayloadOneCampaign
  <2>1. \A q \in stored : q[1] \in loaded
    BY DEF CInv, ConverterTypeOK
  <2>2. CASE r \in stored /\ s \in stored
    BY <2>2 DEF CInv, OnePayloadOneCampaign
  <2>3. CASE r \notin stored \/ s \notin stored
    <3>1. r[1] = b \/ s[1] = b
      BY <2>3, <1>1, <1>3
    <3>2. HasDuplicate(b)
      BY <3>1, <2>1, <1>1, <1>3 DEF HasDuplicate
    <3>3. f \in Exempt
      BY <2>3, <3>2, <1>1, <1>3
    <3>4. QED
      BY <3>1, <3>3
  <2>4. QED
    BY <2>2, <2>3
<1>7. Seeding(f) => \A r \in Rows : r[1] = b /\ r[2] \in promised[f] => r \in stored'
  BY <1>1, PromiseIsOffered DEF CInv
<1>8. QED
  BY <1>4, <1>5, <1>6, <1>7

(* A file is being moved only while it lies in the directory.              *)
LEMMA MovingIsThere ==
  ASSUME ConverterTypeOK, moving # NoFile
  PROVE  moving \in dir /\ moving \in Files /\ moving \notin todo
BY DEF ConverterTypeOK

LEMMA CInvStep == CInv /\ [ConverterNext]_allVars => CInv'
<1> SUFFICES ASSUME CInv, [ConverterNext]_allVars PROVE CInv'
  OBVIOUS
<1>t. TypeOK'
  BY ConverterSimulation, TypeStep DEF CInv, ConverterTypeOK
<1> USE DEF CInv
<1>1. ASSUME UNCHANGED <<stored, puts, loaded, promised, members>>,
             dir' \subseteq Files, todo' \subseteq dir', moving' \in (dir' \ todo') \cup {NoFile},
             drops' \in Nat, stops' \in Nat,
             MovedMeansSeeded', MovingMeansSeeded'
      PROVE  CInv'
  BY <1>1, <1>t DEF ConverterTypeOK, SeededOnce, OnePayloadOneCampaign
<1>2. CASE Start
  <2>1. MovedMeansSeeded' /\ MovingMeansSeeded'
    BY <1>2 DEF Start, MovedMeansSeeded, MovingMeansSeeded, vars, storeVars, Seeding
  <2>2. QED
    BY <1>1, <1>2, <2>1 DEF Start, ConverterTypeOK, vars, storeVars, obsVars
<1>3. CASE MoveFile
  <2>1. moving \in dir /\ moving \in Files
    BY <1>3, MovingIsThere DEF MoveFile
  <2>2. MovedMeansSeeded' /\ MovingMeansSeeded'
    BY <1>3, <2>1 DEF MoveFile, MovedMeansSeeded, MovingMeansSeeded, vars, storeVars, Seeding
  <2>3. QED
    BY <1>1, <1>3, <2>2 DEF MoveFile, ConverterTypeOK, vars, storeVars, obsVars
<1>4. CASE ConverterFails \/ BrokenFileFails
  <2>1. MovedMeansSeeded' /\ MovingMeansSeeded'
    BY <1>4 DEF ConverterFails, BrokenFileFails, Stop, MovedMeansSeeded, MovingMeansSeeded, vars,
                storeVars, Seeding
  <2>2. stops' \in Nat /\ drops' \in Nat
    BY <1>4 DEF ConverterFails, BrokenFileFails, UseStop, ConverterTypeOK
  <2>3. QED
    BY <1>1, <1>4, <2>1, <2>2 DEF ConverterFails, BrokenFileFails, Stop, ConverterTypeOK, vars,
                                  storeVars, obsVars
<1>5. ASSUME NEW f \in Files, CommitFile(f), todo' \subseteq todo,
             stops' \in Nat, moving' \in ({f} \ todo') \cup {NoFile}
      PROVE  CInv'
  <2>1. f \in dir /\ UNCHANGED <<dir, members, drops, promised>>
    BY <1>5 DEF CommitFile, IsNext, ConverterTypeOK
  <2>2. /\ loaded' \subseteq Broadcasts /\ \A r \in stored' : r[1] \in loaded'
        /\ SeededOnce' /\ OnePayloadOneCampaign'
        /\ Seeding(f) => \A r \in Rows : r[1] = IdOf[f] /\ r[2] \in promised[f] => r \in stored'
    BY <1>5, <1>t, CommitFacts
  <2>3. ConverterTypeOK'
    BY <1>5, <1>t, <2>1, <2>2 DEF ConverterTypeOK
  <2>4. stored \subseteq stored'
    BY <1>5, CommitSeeds
  <2>5. MovedMeansSeeded'
    BY <2>1, <2>4 DEF MovedMeansSeeded, Seeding
  <2>6. MovingMeansSeeded'
    BY <1>5, <2>1, <2>2 DEF MovingMeansSeeded, Seeding
  <2>7. QED
    BY <2>2, <2>3, <2>5, <2>6
<1>6. ASSUME NEW f \in Files, ConvertFile(f) PROVE CInv'
  <2>1. CommitFile(f) /\ todo' = todo \ {f} /\ moving' = f /\ stops' \in Nat
    BY <1>6 DEF ConvertFile, ConverterTypeOK
  <2>2. QED
    BY <1>5, <2>1
<1>7. ASSUME NEW f \in Files, CommitAnswerLost(f) PROVE CInv'
  <2>1. CommitFile(f) /\ todo' = {} /\ moving' = NoFile /\ stops' \in Nat
    BY <1>7 DEF CommitAnswerLost, UseStop, Stop, ConverterTypeOK
  <2>2. QED
    BY <1>5, <2>1
<1>8. ASSUME NEW f \in Files, DropFile(f) PROVE CInv'
  <2>1. moving # f
    BY <1>8, FilesAssumption, MovingIsThere DEF DropFile
  <2>2. /\ dir' = dir \cup {f} /\ f \notin dir
        /\ promised' = [promised EXCEPT ![f] = members] /\ drops' \in Nat
        /\ UNCHANGED <<vars, loaded, members, todo, moving, stops>>
    BY <1>8 DEF DropFile, ConverterTypeOK
  <2>3. UNCHANGED <<stored, puts>>
    BY <2>2 DEF vars, storeVars, obsVars
  <2>4. /\ promised' \in [Files -> SUBSET members]
        /\ \A g \in Files \ {f} : promised'[g] = promised[g]
    BY <2>2 DEF ConverterTypeOK
  <2>5. ConverterTypeOK'
    BY <1>t, <2>2, <2>3, <2>4 DEF ConverterTypeOK
  <2>6. MovedMeansSeeded'
    BY <2>2, <2>3, <2>4 DEF MovedMeansSeeded, Seeding
  <2>7. MovingMeansSeeded'
    BY <2>1, <2>2, <2>3, <2>4, MovingIsThere DEF MovingMeansSeeded, Seeding
  <2>8. SeededOnce' /\ OnePayloadOneCampaign'
    BY <2>3 DEF SeededOnce, OnePayloadOneCampaign
  <2>9. QED
    BY <2>5, <2>6, <2>7, <2>8
<1>9. ASSUME NEW c \in Chats, Join(c) PROVE CInv'
  <2>1. /\ members' = members \cup {c}
        /\ UNCHANGED <<stored, puts, dir, loaded, todo, moving, drops, stops, promised>>
    BY <1>9 DEF Join, vars, storeVars, obsVars
  <2>2. ConverterTypeOK'
    BY <1>t, <2>1 DEF ConverterTypeOK
  <2>3. SeededOnce' /\ OnePayloadOneCampaign' /\ MovedMeansSeeded' /\ MovingMeansSeeded'
    BY <2>1 DEF SeededOnce, OnePayloadOneCampaign, MovedMeansSeeded, MovingMeansSeeded, Seeding
  <2>4. QED
    BY <2>2, <2>3
<1>10. ASSUME UNCHANGED <<stored, puts, converterVars>> PROVE CInv'
  <2>1. ConverterTypeOK'
    BY <1>10, <1>t DEF ConverterTypeOK, converterVars
  <2>2. SeededOnce' /\ OnePayloadOneCampaign' /\ MovedMeansSeeded' /\ MovingMeansSeeded'
    BY <1>10 DEF SeededOnce, OnePayloadOneCampaign, MovedMeansSeeded, MovingMeansSeeded, Seeding,
                 converterVars
  <2>3. QED
    BY <2>1, <2>2
<1>11. CASE SchedulerStep
  BY <1>10, <1>11, SchedulerLeavesRows
<1>12. CASE UNCHANGED allVars
  BY <1>10, <1>12 DEF allVars, vars, storeVars, obsVars
<1>13. QED
  BY <1>2, <1>3, <1>4, <1>6, <1>7, <1>8, <1>9, <1>11, <1>12 DEF ConverterNext

(* The invariant of the converter, by which a conversion is never held up  *)
(* by the bound on puts, and a committed file has kept its promise.        *)
THEOREM ConverterInvariant == ConverterSpec => []CInv
<1>1. QED
  BY CInvInit, CInvStep, PTL DEF ConverterSpec

\* Types of the converter beside the scheduler; in particular every outgoing row belongs to
\* a campaign that is in the table, for any files and audience.
THEOREM ConverterTypes == ConverterSpec => []ConverterTypeOK
<1>1. CInv => ConverterTypeOK
  BY DEF CInv
<1>2. QED
  BY <1>1, ConverterInvariant, PTL

-----------------------------------------------------------------------------
(* What follows                                                            *)

(* The tool, however often it dies and is run again, changes the outgoing  *)
(* rows only by seeding, so the scheduler's theorems hold beside it.       *)
THEOREM ConverterIsASeeder == ConverterSpec => ConverterImplementsRun
<1>1. ConverterInit => Init
  BY DEF ConverterInit
<1>2. CInv /\ [ConverterNext]_allVars => [Next]_vars
  BY ConverterSimulation DEF CInv
<1>3. QED
  BY <1>1, <1>2, ConverterInvariant, PTL DEF ConverterSpec, ConverterImplementsRun, Spec

(* What a chat gets of one campaign: a single message, and one more for    *)
(* each post whose record was lost, however often the converter is run.    *)
(* The scheduler alone bounds it by puts; a campaign's row is put once.    *)
THEOREM CampaignPostsAreBounded ==
  ConverterSpec => [](\A r \in Rows : posts[r] <= 1 + unrecorded[r])
<1>1. ConverterSpec => []IInv
  BY ConverterIsASeeder, IInvAlways, PTL DEF ConverterImplementsRun
<1>2. CInv /\ IInv => \A r \in Rows : posts[r] <= 1 + unrecorded[r]
  <2> SUFFICES ASSUME CInv, IInv, NEW r \in Rows PROVE posts[r] <= 1 + unrecorded[r]
    OBVIOUS
  <2>1. puts[r] \in {0, 1}
    BY DEF CInv, SeededOnce
  <2>2. posts[r] + Owed(r) <= puts[r] + unrecorded[r] /\ Owed(r) \in {0, 1}
    BY DEF IInv, Accounted, Owed
  <2>3. posts[r] \in Nat /\ unrecorded[r] \in Nat
    BY DEF IInv, TypeOK
  <2>4. QED
    BY <2>1, <2>2, <2>3
<1>3. QED
  BY <1>1, <1>2, ConverterInvariant, PTL

(* No two campaigns of one payload are sent, unless a file asks for it.    *)
THEOREM PayloadsAreSentOnce == ConverterSpec => []OnePayloadOneCampaign
<1>1. CInv => OnePayloadOneCampaign
  BY DEF CInv
<1>2. QED
  BY <1>1, ConverterInvariant, PTL

(* A file leaves the directory only when its audience has its rows.        *)
THEOREM MovedFilesAreSeeded == ConverterSpec => []MovedMeansSeeded
<1>1. CInv => MovedMeansSeeded
  BY DEF CInv
<1>2. QED
  BY <1>1, ConverterInvariant, PTL

=============================================================================
