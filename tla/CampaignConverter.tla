-------------------------- MODULE CampaignConverter --------------------------
(***************************************************************************)
(* The operator's tool zz-ops/convert-broadcasts-yml.go beside the running *)
(* scheduler.  A run lists the campaign files in assets/broadcasts, sorts  *)
(* them, and for each commits one transaction (the broadcasts row and the  *)
(* outgoing rows of its audience) and then renames the file away.  Commit  *)
(* and rename are two steps and any error is a panic, so a file may be     *)
(* converted again by the next run, with chats that joined meanwhile.      *)
(* This module replaces BroadcastRun's Seed by the code that performs it.  *)
(*                                                                         *)
(* A file is the number of its name in alphabetical order.  Files of one   *)
(* campaign carry one payload: a payload edited under its old id is not    *)
(* covered.  Nor are two runs of the tool at once.                         *)
(***************************************************************************)
EXTENDS BroadcastRun

CONSTANTS
  Files,      \* the YAML files
  IdOf,       \* id: of each file
  PayloadOf,  \* the payload of each campaign
  OrderOf,    \* order: of each file, or NoOrder
  StartAt,    \* scheduled_at: of each file, 0 if it has none
  Templates,  \* files with seed_outgoing: false
  SkipSeeded, \* files with skip_outgoing_if_already_seeded: true
  Exempt,     \* files with outgoing_on_duplicate_payload: true
  Broken,     \* files whose conversion fails, whenever it is tried
  NoOrder, NoFile,
  MaxDrops, MaxStops  \* bounds: files put into the directory, runs of the tool that fail

ASSUME FilesAssumption ==
  /\ Files \subseteq Nat /\ NoFile \notin Files
  /\ IdOf \in [Files -> Broadcasts \ StrainBroadcasts]
  /\ DOMAIN PayloadOf = Broadcasts
  /\ NoOrder \notin Int /\ OrderOf \in [Files -> Int \cup {NoOrder}]
  /\ StartAt \in [Files -> 0 .. MaxClock]
  /\ MaxDrops \in Nat /\ MaxStops \in Nat
\* A campaign row is put at most once, so this bound never holds up a conversion.
ASSUME SeedsFit == MaxPuts >= 2

VARIABLES
  dir,      \* files in assets/broadcasts
  loaded,   \* ids in table broadcasts
  members,  \* the audience: chats in users (of the filter) and group_chats
  todo,     \* files of this run that are yet to be loaded
  moving,   \* the file that is committed and not renamed
  drops,    \* files put into the directory so far (bound)
  stops,    \* runs that failed by a fault so far (bound)
  promised  \* observer: the audience when each file was last put into the directory

converterVars == <<dir, loaded, members, todo, moving, drops, stops, promised>>
allVars == <<vars, converterVars>>

ConverterTypeOK ==
  /\ TypeOK
  /\ dir \subseteq Files
  /\ loaded \subseteq Broadcasts /\ \A r \in stored : r[1] \in loaded
  /\ members \subseteq Chats
  /\ todo \subseteq dir
  /\ moving \in (dir \ todo) \cup {NoFile}
  /\ drops \in Nat /\ stops \in Nat
  /\ promised \in [Files -> SUBSET members]

\* Subscriptions play no part: no row here is of a strain.
ConverterInit ==
  /\ Init /\ subs = {}
  /\ dir = {} /\ loaded = {} /\ members = {}
  /\ todo = {} /\ moving = NoFile
  /\ drops = 0 /\ stops = 0 /\ promised = [f \in Files |-> {}]

-----------------------------------------------------------------------------
(* The tool                                                                *)

\* sortBroadcastPathsByOrder: lower order first, files without one last, then by name.
Before(f, g) ==
  \/ OrderOf[f] # NoOrder /\ OrderOf[g] = NoOrder
  \/ OrderOf[f] # NoOrder /\ OrderOf[g] # NoOrder /\ OrderOf[f] < OrderOf[g]
  \/ OrderOf[f] = OrderOf[g] /\ f < g

\* Paths in the order of the directory listing.
IsNextByName(f) ==
  /\ moving = NoFile
  /\ f \in todo /\ \A g \in todo \ {f} : f < g

\* The file the loop of main comes to next.
IsNext(f) ==
  /\ moving = NoFile
  /\ f \in todo /\ \A g \in todo \ {f} : Before(f, g)

\* A duplicate check that only looks at what is still to be sent.
HasUnsentDuplicate(b) ==
  \E d \in loaded \ {b} : PayloadOf[d] = PayloadOf[b] /\ \E r \in pending : r[1] = d

\* SELECT EXISTS ... WHERE payload = $1 AND id <> $2
HasDuplicate(b) == \E d \in loaded \ {b} : PayloadOf[d] = PayloadOf[b]

HasRows(b) == \E r \in stored : r[1] = b

\* skip_outgoing_if_already_seeded taken for true.
AudienceOnce(f) ==
  {r \in Rows :
     /\ f \notin Templates
     /\ HasDuplicate(IdOf[f]) => f \in Exempt
     /\ ~HasRows(IdOf[f])
     /\ r[1] = IdOf[f] /\ r[2] \in members}

\* Which pairs the INSERT ... SELECT offers, if the code gets that far.
AudienceRows(f) ==
  {r \in Rows :
     /\ f \notin Templates
     /\ HasDuplicate(IdOf[f]) => f \in Exempt
     /\ f \in SkipSeeded => ~HasRows(IdOf[f])
     /\ r[1] = IdOf[f] /\ r[2] \in members}

\* The tool is started, lists the directory and sorts what it finds.
Start ==
  /\ todo = {} /\ moving = NoFile /\ dir # {}
  /\ todo' = dir
  /\ UNCHANGED <<vars, dir, loaded, members, moving, drops, stops, promised>>

\* A seeding that re-queues the rows that are there, ON CONFLICT DO UPDATE.
CommitRequeueing(f) ==
  /\ IsNext(f) /\ f \notin Broken
  /\ loaded' = loaded \cup {IdOf[f]}
  /\ stored' = stored \cup AudienceRows(f) /\ pending' = pending \cup AudienceRows(f)
  /\ UNCHANGED <<hasMsgId, scheduledAt, createdAt, subs, clock, runVars, faults, obsVars>>
  /\ UNCHANGED <<dir, members, drops, promised>>

\* A transaction that seeds without the upsert of its campaign.
CommitRowsOnly(f) ==
  /\ IsNext(f) /\ f \notin Broken
  /\ IF AudienceRows(f) = {} THEN UNCHANGED vars
     ELSE Seed(IdOf[f], AudienceRows(f), StartAt[f])
  /\ UNCHANGED <<loaded, dir, members, drops, promised>>

\* The transaction of file f takes effect: the upsert of its campaign, and the seeding.
CommitFile(f) ==
  /\ IsNext(f) /\ f \notin Broken
  /\ loaded' = loaded \cup {IdOf[f]}
  /\ IF AudienceRows(f) = {} THEN UNCHANGED vars
     ELSE Seed(IdOf[f], AudienceRows(f), StartAt[f])
  /\ UNCHANGED <<dir, members, drops, promised>>

\* The file is loaded; its rename comes next.
ConvertFile(f) ==
  /\ CommitFile(f)
  /\ todo' = todo \ {f} /\ moving' = f
  /\ UNCHANGED stops

\* moveBroadcastToComplete.
MoveFile ==
  /\ moving # NoFile
  /\ dir' = dir \ {moving} /\ moving' = NoFile
  /\ UNCHANGED <<vars, loaded, members, todo, drops, stops, promised>>

\* panic, or the death of the tool; a transaction that was open is rolled back.
Stop == todo' = {} /\ moving' = NoFile

UseStop == stops < MaxStops /\ stops' = stops + 1

\* A statement or a rename failed, the 20 seconds are over, or the tool was killed.
ConverterFails ==
  /\ todo # {} \/ moving # NoFile
  /\ UseStop /\ Stop
  /\ UNCHANGED <<vars, dir, loaded, members, drops, promised>>

\* The commit took effect and its answer was lost: a panic all the same.
CommitAnswerLost(f) == CommitFile(f) /\ UseStop /\ Stop

\* A file with an unreadable scheduled_at ends every run that reaches it.
BrokenFileFails ==
  /\ \E f \in Broken : IsNext(f)
  /\ Stop
  /\ UNCHANGED <<vars, dir, loaded, members, drops, stops, promised>>

-----------------------------------------------------------------------------
(* Around it                                                               *)

\* An operator puts a file into the directory, for the first time or again.
DropFile(f) ==
  /\ f \notin dir /\ drops < MaxDrops
  /\ dir' = dir \cup {f} /\ drops' = drops + 1
  /\ promised' = [promised EXCEPT ![f] = members]
  /\ UNCHANGED <<vars, loaded, members, todo, moving, stops>>

\* A chat's first update.
Join(c) ==
  /\ c \notin members
  /\ members' = members \cup {c}
  /\ UNCHANGED <<vars, dir, loaded, todo, moving, drops, stops, promised>>

SchedulerStep ==
  /\ RunStep \/ Fault \/ Tick
  /\ UNCHANGED converterVars

ConverterNext ==
  \/ Start \/ MoveFile \/ ConverterFails \/ BrokenFileFails
  \/ \E f \in Files : ConvertFile(f) \/ CommitAnswerLost(f) \/ DropFile(f)
  \/ \E c \in Chats : Join(c)
  \/ SchedulerStep

ConverterSpec == ConverterInit /\ [][ConverterNext]_allVars

\* Operators run the tool again while there is a file to convert.
ConverterFairness ==
  /\ WF_allVars(Start)
  /\ WF_allVars(MoveFile \/ BrokenFileFails \/ \E f \in Files : ConvertFile(f))

FairConverterSpec == ConverterSpec /\ ConverterFairness

-----------------------------------------------------------------------------
(* Properties                                                              *)

\* What the tool does to the tables and the scheduler is what BroadcastRun reckons with,
\* whatever crashes and repeated conversions do, so its bounds on posts hold here too.
ConverterImplementsRun == Spec

\* "same payload already exists on another broadcast id" (converter:261): no two campaigns of
\* one payload have outgoing rows, in whatever order, runs and crashes their files were
\* converted, unless a file asks for it.
OnePayloadOneCampaign ==
  \A r, s \in stored :
    PayloadOf[r[1]] = PayloadOf[s[1]] /\ r[1] # s[1] =>
      \E f \in Exempt : IdOf[f] \in {r[1], s[1]}

\* Whose payload no other campaign has, and which the flags do not keep from seeding.
Seeding(f) ==
  /\ f \notin Templates \cup SkipSeeded
  /\ f \in Exempt \/ \A b \in Broadcasts \ {IdOf[f]} : PayloadOf[b] # PayloadOf[IdOf[f]]

\* A file is out of the way only when its work is done: every chat that was in the audience
\* when the file was put there has its row (commit before rename, converter:313-317).
MovedMeansSeeded ==
  \A f \in Files : Seeding(f) /\ f \notin dir =>
    \A r \in Rows : r[1] = IdOf[f] /\ r[2] \in promised[f] => r \in stored

\* A file that fails for ever fails every run, and yet the files in front of it, by order: and
\* by name, are all converted and moved (converter:98 and 134-150).  The files of the model
\* are the ones that parse: a file that is no YAML panics in the sort (converter:137) before
\* any file is converted, and holds up all of them.
EveryFileCompletes ==
  \A f \in Files : f \notin Broken /\ (\A g \in Broken : Before(f, g)) =>
    (f \in dir ~> f \notin dir)

-----------------------------------------------------------------------------
(* The inductive invariant                                                 *)

\* Puts count rows, and rows belong to loaded campaigns.
SeededOnce == \A r \in Rows : puts[r] = IF r \in stored THEN 1 ELSE 0

\* A committed file that waits for its rename has seeded its audience.
MovingMeansSeeded ==
  moving # NoFile /\ Seeding(moving) =>
    \A r \in Rows : r[1] = IdOf[moving] /\ r[2] \in promised[moving] => r \in stored

CInv ==
  /\ ConverterTypeOK
  /\ SeededOnce
  /\ OnePayloadOneCampaign
  /\ MovedMeansSeeded
  /\ MovingMeansSeeded

=============================================================================
