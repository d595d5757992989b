----------------------- MODULE StrainBroadcastProofs ------------------------
(***************************************************************************)
(* The pipeline implements the scheduler's specification, for every set of *)
(* chats, ids and payloads and every queue size: the fan-out, several      *)
(* statements long and interrupted anywhere, does to the outgoing rows     *)
(* only what BroadcastRun's Queue action does.  Then the types of the      *)
(* whole pipeline, the one broadcasts row per body that holds until two    *)
(* fan-outs overlap, and that unsubscribing is final.                      *)
(***************************************************************************)
EXTENDS StrainBroadcast, BroadcastRunProofs

FanoutOK ==
  /\ queue \in Seq(Bodies \cup {Other})
  /\ exec \in [Executors -> FanoutStates]
  /\ FanoutsWellFormed

(* The clock only moves forward.                                           *)
LEMMA ClockForward ==
  ASSUME TypeOK, clock >= 1, [Next]_vars
  PROVE  clock' \in Nat /\ clock' >= clock
<1> USE DEF TypeOK, StoreTypeOK
<1>1. CASE RunStep
  BY <1>1 DEF RunStep, Sweep, SelectPage, SkipRow, PostAccepted, PostRefused, RecordPost,
     AbortRow, EndOfPage, storeVars, CloseRows, MarkSent
<1>2. CASE Fault
  BY <1>2 DEF Fault, PostAnswerLost, RunFails, StatementAnswerLost, Expire, Crash, storeVars,
     CloseRows, MarkSent
<1>3. CASE Environment
  BY <1>3 DEF Environment, Queue, UpsertOutgoing, Seed, SeedOutgoing, Toggle, SetSubscribed, Tick
<1>4. CASE UNCHANGED vars
  BY <1>4 DEF vars, storeVars
<1>5. QED
  BY <1>1, <1>2, <1>3, <1>4 DEF Next

(* An upsert of the fan-out is a Queue of BroadcastRun.                    *)
LEMMA UpsertIsQueue ==
  ASSUME FanoutOK, NEW w \in Executors, QueueChat(w)
  PROVE  Environment
<1> DEFINE r == <<exec[w].id, exec[w].chat>>
<1>1. r \in Rows
  BY RowsForStrains DEF QueueChat, FanoutOK, FanoutsWellFormed
<1>2. exec[w].at \in Times
  BY DEF QueueChat, FanoutOK, FanoutsWellFormed
<1>3. Queue(r, exec[w].at)
  BY DEF QueueChat
<1>4. QED
  BY <1>1, <1>2, <1>3 DEF Environment

(* Every step of the pipeline is a step of BroadcastRun, or a stutter.     *)
LEMMA StepSimulation == FanoutOK /\ [PipelineNext]_allVars => [Next]_vars
<1> SUFFICES ASSUME FanoutOK, [PipelineNext]_allVars PROVE [Next]_vars
  OBVIOUS
<1>1. ASSUME NEW k \in Bodies, Search(k) PROVE UNCHANGED vars
  BY <1>1 DEF Search
<1>2. CASE Ensure \/ RunOther \/ Dequeue
  BY <1>2 DEF Ensure, RunOther, Dequeue
<1>3. ASSUME NEW w \in Executors, Fanout(w) PROVE [Next]_vars
  <2>1. CASE QueueChat(w)
    BY <2>1, UpsertIsQueue DEF Next
  <2>2. CASE ~QueueChat(w)
    BY <1>3, <2>2 DEF Fanout, ReadSubscribers, FindBroadcast, InsertBroadcast, EndFanout, FanoutFails
  <2>3. QED
    BY <2>1, <2>2
<1>4. CASE SchedulerStep
  BY <1>4 DEF SchedulerStep, Next, Fault
<1>5. ASSUME NEW c \in Chats, Subscribe(c) PROVE Next
  BY <1>5 DEF Subscribe, Next, Environment
<1>6. ASSUME NEW b \in Broadcasts, NEW R \in SUBSET Rows, NEW at \in 0 .. MaxClock,
             Campaign(b, R, at)
      PROVE  Next
  BY <1>6 DEF Campaign, Next, Environment
<1>7. CASE Time
  BY <1>7 DEF Time, Next, Environment
<1>8. CASE ProcessDies
  BY <1>8 DEF ProcessDies, Next, Fault
<1>9. CASE UNCHANGED allVars
  BY <1>9 DEF allVars
<1>10. QED
  BY <1>1, <1>2, <1>3, <1>4, <1>5, <1>6, <1>7, <1>8, <1>9 DEF PipelineNext

(* A step that leaves the fan-outs alone leaves them well formed.          *)
LEMMA FanoutFrame ==
  ASSUME TypeOK, FanoutOK, [Next]_vars, UNCHANGED <<exec, queue>>
  PROVE  FanoutOK'
<1>1. clock' \in Nat /\ clock' >= clock
  BY ClockForward DEF FanoutOK, FanoutsWellFormed
<1>2. QED
  BY <1>1 DEF FanoutOK, FanoutsWellFormed, Times, TypeOK, StoreTypeOK

LEMMA FanoutInit == PipelineInit => FanoutOK
<1> SUFFICES ASSUME PipelineInit PROVE FanoutOK
  OBVIOUS
<1>1. Idle \in FanoutStates
  BY DEF Idle, FanoutStates
<1>2. exec \in [Executors -> FanoutStates] /\ \A w \in Executors : exec[w].step = "idle"
  BY <1>1 DEF PipelineInit, Idle
<1>3. clock >= 1
  BY DEF PipelineInit, Init, StoreInit
<1>4. QED
  BY <1>2, <1>3 DEF FanoutOK, FanoutsWellFormed, PipelineInit

(* A fan-out state that may be reached at time t.                          *)
Sound(e, t) ==
  /\ e \in FanoutStates
  /\ e.step \in {"next", "insert", "upsert"} => e.at \in 1 .. t
  /\ e.step \in {"insert", "upsert"} => e.chat \in Chats
  /\ e.step = "upsert" => e.id \in StrainBroadcasts

(* An executor may go on in any sound state.                               *)
LEMMA BecomeSound ==
  ASSUME FanoutOK, NEW w \in Executors, NEW e, Sound(e, clock), Become(w, e),
         UNCHANGED clock, queue' \in Seq(Bodies \cup {Other})
  PROVE  FanoutOK'
<1>1. exec' \in [Executors -> FanoutStates]
  BY DEF FanoutOK, Become, Sound
<1>2. \A v \in Executors : exec'[v] = IF v = w THEN e ELSE exec[v]
  BY DEF FanoutOK, Become
<1>3. FanoutsWellFormed'
  BY <1>2 DEF FanoutOK, FanoutsWellFormed, Sound, Times
<1>4. QED
  BY <1>1, <1>3 DEF FanoutOK

(* No fan-out has nothing to remember, and a new one only its payload.     *)
LEMMA IdleSound == Sound(Idle, clock)
BY DEF Sound, Idle, FanoutStates

LEMMA BeginSound ==
  ASSUME NEW k \in Bodies
  PROVE  Sound([Idle EXCEPT !.step = "read", !.body = k], clock)
BY DEF Sound, Idle, FanoutStates

(* A fan-out that takes the next chat keeps its time.                      *)
LEMMA NextSound ==
  ASSUME FanoutOK, NEW w \in Executors, exec[w].step \in {"next", "insert", "upsert"}, NextChat(w),
         UNCHANGED <<clock, queue>>
  PROVE  FanoutOK'
<1> DEFINE e == [exec[w] EXCEPT !.step = "next", !.chat = None, !.id = None]
<1>1. Sound(e, clock)
  BY DEF Sound, FanoutOK, FanoutsWellFormed, FanoutStates, Times
<1>2. QED
  BY <1>1, BecomeSound DEF NextChat, FanoutOK

(* A fan-out keeps itself well formed, statement after statement.          *)
LEMMA FanoutKeeps ==
  ASSUME TypeOK, FanoutOK, NEW w \in Executors, Fanout(w)
  PROVE  FanoutOK'
<1> USE DEF FanoutOK, FanoutsWellFormed, FanoutStates, Times
<1>0. clock \in Nat /\ subs \subseteq Chats /\ exec[w] \in FanoutStates
  BY DEF TypeOK, StoreTypeOK
<1>1. CASE ReadSubscribers(w)
  <2> DEFINE e == [exec[w] EXCEPT !.step = "next", !.at = clock, !.todo = subs]
  <2>1. Sound(e, clock)
    <3>1. e \in FanoutStates
      BY <1>0
    <3>2. e.step = "next" /\ e.at = clock
      BY <1>0
    <3>3. QED
      BY <1>0, <3>1, <3>2 DEF Sound
  <2>2. Become(w, e) /\ UNCHANGED <<clock, queue>>
    BY <1>1 DEF ReadSubscribers, vars, storeVars
  <2>3. QED
    BY <2>1, <2>2, BecomeSound
<1>2. ASSUME NEW c \in Chats, FindBroadcast(w, c) PROVE FanoutOK'
  <2> DEFINE skip == [exec[w] EXCEPT !.todo = @ \ {c}, !.chat = c]
  <2>1. exec[w].step = "next" /\ UNCHANGED <<clock, queue>>
    BY <1>2 DEF FindBroadcast, vars, storeVars
  <2>2. Sound([skip EXCEPT !.step = "insert"], clock)
    BY <1>0, <2>1 DEF Sound
  <2>3. ASSUME NEW b \in StrainBroadcasts
        PROVE  Sound([skip EXCEPT !.step = "upsert", !.id = b], clock)
    BY <1>0, <2>1 DEF Sound
  <2>4. \/ Become(w, [skip EXCEPT !.step = "insert"])
        \/ \E b \in StrainBroadcasts : Become(w, [skip EXCEPT !.step = "upsert", !.id = b])
    BY <1>2 DEF FindBroadcast, WithBody
  <2>5. QED
    BY <2>1, <2>2, <2>3, <2>4, BecomeSound
<1>3. ASSUME NEW b \in StrainBroadcasts, InsertBroadcast(w, b) PROVE FanoutOK'
  <2> DEFINE e == [exec[w] EXCEPT !.step = "upsert", !.id = b]
  <2>1. Sound(e, clock)
    BY <1>0, <1>3 DEF InsertBroadcast, Sound
  <2>2. Become(w, e) /\ UNCHANGED <<clock, queue>>
    BY <1>3 DEF InsertBroadcast, vars, storeVars
  <2>3. QED
    BY <2>1, <2>2, BecomeSound
<1>4. CASE QueueChat(w)
  <2>1. exec[w].step = "upsert" /\ NextChat(w) /\ UNCHANGED <<clock, queue>>
    BY <1>4 DEF QueueChat, Queue, UpsertOutgoing
  <2>2. QED
    BY <2>1, NextSound
<1>5. CASE EndFanout(w)
  <2>1. Become(w, Idle) /\ UNCHANGED <<clock, queue>>
    BY <1>5 DEF EndFanout, vars, storeVars
  <2>2. QED
    BY <2>1, IdleSound, BecomeSound
<1>6. CASE FanoutFails(w)
  <2>1. UNCHANGED <<clock, queue>>
    BY <1>6 DEF FanoutFails, vars, storeVars
  <2>2. \/ Become(w, Idle)
        \/ \E c \in Chats : exec[w].step = "next" /\ Become(w, [exec[w] EXCEPT !.todo = @ \ {c}])
        \/ exec[w].step \in {"insert", "upsert"} /\ NextChat(w)
    BY <1>0, <1>6 DEF FanoutFails
  <2>3. ASSUME NEW c \in Chats, exec[w].step = "next"
        PROVE  Sound([exec[w] EXCEPT !.todo = @ \ {c}], clock)
    BY <1>0, <2>3 DEF Sound
  <2>4. QED
    BY <2>1, <2>2, <2>3, IdleSound, BecomeSound, NextSound
<1>7. QED
  BY <1>1, <1>2, <1>3, <1>4, <1>5, <1>6 DEF Fanout

(* The fan-outs stay well formed whatever the system does.                 *)
LEMMA FanoutStep == TypeOK /\ FanoutOK /\ [PipelineNext]_allVars => FanoutOK'
<1> SUFFICES ASSUME TypeOK, FanoutOK, [PipelineNext]_allVars PROVE FanoutOK'
  OBVIOUS
<1>1. ASSUME NEW k \in Bodies, Search(k) PROVE FanoutOK'
  <2>1. UNCHANGED clock /\ "router" \in Executors
    BY <1>1 DEF Search, vars, storeVars, Executors
  <2>2. CASE UNCHANGED exec /\ queue' = Append(queue, k)
    BY <2>1, <2>2 DEF FanoutOK, FanoutsWellFormed, Times
  <2>3. CASE UNCHANGED queue /\ Begin("router", k)
    BY <2>1, <2>3, BeginSound, BecomeSound DEF Begin, FanoutOK
  <2>4. QED
    BY <1>1, <2>2, <2>3 DEF Search
<1>2. CASE Dequeue
  <2>1. UNCHANGED clock /\ "worker" \in Executors
    BY <1>2 DEF Dequeue, vars, storeVars, Executors
  <2>2. Head(queue) \in Bodies /\ queue' \in Seq(Bodies \cup {Other})
    BY <1>2 DEF Dequeue, FanoutOK
  <2>3. QED
    BY <1>2, <2>1, <2>2, BeginSound, BecomeSound DEF Dequeue, Begin
<1>3. ASSUME NEW w \in Executors, Fanout(w) PROVE FanoutOK'
  BY <1>3, FanoutKeeps
<1>4. CASE UNCHANGED <<exec, queue>>
  BY <1>4, StepSimulation, FanoutFrame
<1>5. CASE ProcessDies
  <2>1. \A w \in Executors : exec'[w] = Idle
    BY <1>5 DEF ProcessDies
  <2>2. exec' \in [Executors -> FanoutStates] /\ queue' \in Seq(Bodies \cup {Other})
    BY <1>5, IdleSound DEF ProcessDies, Sound
  <2>3. clock' >= 1
    BY <1>5 DEF ProcessDies, Crash, storeVars, FanoutOK, FanoutsWellFormed
  <2>4. QED
    BY <2>1, <2>2, <2>3 DEF FanoutOK, FanoutsWellFormed, Idle
<1>6. CASE Ensure \/ RunOther
  <2>1. UNCHANGED <<clock, exec>> /\ queue' \in Seq(Bodies \cup {Other})
    BY <1>6 DEF Ensure, RunOther, vars, storeVars, FanoutOK
  <2>2. QED
    BY <2>1 DEF FanoutOK, FanoutsWellFormed, Times
<1>7. QED
  <2>1. CASE SchedulerStep \/ (\E c \in Chats : Subscribe(c)) \/ Time
             \/ \E b \in Broadcasts, R \in SUBSET Rows, at \in 0 .. MaxClock : Campaign(b, R, at)
    BY <2>1, <1>4 DEF SchedulerStep, Subscribe, Time, Campaign, fanVars
  <2>2. CASE UNCHANGED allVars
    BY <2>2, <1>4 DEF allVars, fanVars
  <2>3. QED
    BY <1>1, <1>2, <1>3, <1>5, <1>6, <2>1, <2>2 DEF PipelineNext

(* Refinement: every behaviour of the pipeline is one of BroadcastRun.     *)
THEOREM PipelineImplementsRun == PipelineSpec => ImplementsBroadcastRun
<1>1. PipelineInit => Init /\ TypeOK /\ FanoutOK
  BY FanoutInit, TypeInit DEF PipelineInit
<1>2. TypeOK /\ FanoutOK /\ [PipelineNext]_allVars => [Next]_vars
  BY StepSimulation
<1>3. TypeOK /\ FanoutOK /\ [PipelineNext]_allVars => TypeOK' /\ FanoutOK'
  BY <1>2, TypeStep, FanoutStep
<1>4. QED
  BY <1>1, <1>2, <1>3, PTL DEF PipelineSpec, ImplementsBroadcastRun, Spec

(* So the bound on posts holds with the real fan-out as it does with any.  *)
THEOREM PipelinePostsBounded == PipelineSpec => []PostsBounded
<1>1. QED
  BY PipelineImplementsRun, PostsAreBounded, PTL DEF ImplementsBroadcastRun

-----------------------------------------------------------------------------
(* Type correctness of the whole pipeline                                  *)

(* What the types need besides: a fan-out that runs has a payload.         *)
PayloadsOK ==
  /\ body \in [StrainBroadcasts -> Bodies \cup {None}]
  /\ bornAt \in [StrainBroadcasts -> Nat]
  /\ Len(queue) <= QueueSize
  /\ \A w \in Executors : exec[w].step # "idle" => exec[w].body \in Bodies
  /\ quiet \subseteq Chats
  /\ owed \subseteq Rows
  /\ overlapped \in BOOLEAN

(* A fan-out keeps its payload until it ends.                              *)
LEMMA FanoutKeepsBody ==
  ASSUME FanoutOK, NEW w \in Executors, Fanout(w)
  PROVE  \E e : /\ Become(w, e)
                /\ e = Idle \/ (e.body = exec[w].body /\ exec[w].step # "idle")
<1>0. exec[w] \in FanoutStates
  BY DEF FanoutOK
<1>1. CASE ReadSubscribers(w)
  <2> DEFINE e == [exec[w] EXCEPT !.step = "next", !.at = clock, !.todo = subs]
  <2>1. Become(w, e) /\ e.body = exec[w].body /\ exec[w].step # "idle"
    BY <1>0, <1>1 DEF ReadSubscribers, FanoutStates
  <2>2. QED
    BY <2>1
<1>2. ASSUME NEW c \in Chats, FindBroadcast(w, c)
      PROVE  \E e : Become(w, e) /\ e.body = exec[w].body /\ exec[w].step # "idle"
  <2> DEFINE skip == [exec[w] EXCEPT !.todo = @ \ {c}, !.chat = c]
             e == [skip EXCEPT !.step = "insert"]
             f(b) == [skip EXCEPT !.step = "upsert", !.id = b]
  <2>1. e.body = exec[w].body /\ \A b : f(b).body = exec[w].body
    BY <1>0 DEF FanoutStates
  <2>2. exec[w].step # "idle"
    BY <1>2 DEF FindBroadcast
  <2>3. Become(w, e) \/ \E b \in StrainBroadcasts : Become(w, f(b))
    BY <1>2 DEF FindBroadcast, WithBody
  <2>4. QED
    BY <2>1, <2>2, <2>3
<1>3. ASSUME NEW b \in StrainBroadcasts, InsertBroadcast(w, b)
      PROVE  \E e : Become(w, e) /\ e.body = exec[w].body /\ exec[w].step # "idle"
  <2> DEFINE e == [exec[w] EXCEPT !.step = "upsert", !.id = b]
  <2>1. Become(w, e) /\ e.body = exec[w].body /\ exec[w].step # "idle"
    BY <1>0, <1>3 DEF InsertBroadcast, FanoutStates
  <2>2. QED
    BY <2>1
<1>4. ASSUME NextChat(w), exec[w].step # "idle"
      PROVE  \E e : Become(w, e) /\ e.body = exec[w].body /\ exec[w].step # "idle"
  <2> DEFINE e == [exec[w] EXCEPT !.step = "next", !.chat = None, !.id = None]
  <2>1. Become(w, e) /\ e.body = exec[w].body
    BY <1>0, <1>4 DEF NextChat, FanoutStates
  <2>2. QED
    BY <1>4, <2>1
<1>5. CASE QueueChat(w)
  BY <1>4, <1>5 DEF QueueChat
<1>6. CASE EndFanout(w)
  BY <1>6 DEF EndFanout
<1>7. CASE FanoutFails(w)
  <2>1. ASSUME NEW c, exec[w].step = "next", Become(w, [exec[w] EXCEPT !.todo = @ \ {c}])
        PROVE  \E e : Become(w, e) /\ e.body = exec[w].body /\ exec[w].step # "idle"
    <3>1. [exec[w] EXCEPT !.todo = @ \ {c}].body = exec[w].body
      BY <1>0 DEF FanoutStates
    <3>2. QED
      BY <2>1, <3>1
  <2>2. \/ Become(w, Idle)
        \/ \E c \in exec[w].todo :
             exec[w].step = "next" /\ Become(w, [exec[w] EXCEPT !.todo = @ \ {c}])
        \/ exec[w].step # "idle" /\ NextChat(w)
    BY <1>7 DEF FanoutFails
  <2>3. QED
    BY <1>4, <2>1, <2>2
<1>8. QED
  BY <1>1, <1>2, <1>3, <1>5, <1>6, <1>7 DEF Fanout

(* A fan-out that begins has the payload of its search, any other keeps it. *)
LEMMA BodiesOfFanouts ==
  ASSUME FanoutOK, PayloadsOK, [PipelineNext]_allVars
  PROVE  \A w \in Executors : exec'[w].step # "idle" => exec'[w].body \in Bodies
<1>0. exec \in [Executors -> FanoutStates] /\ Idle.step = "idle"
  BY DEF FanoutOK, Idle
<1>1. ASSUME NEW w \in Executors, NEW e, Become(w, e), e.step # "idle" => e.body \in Bodies
      PROVE  \A v \in Executors : exec'[v].step # "idle" => exec'[v].body \in Bodies
  BY <1>0, <1>1 DEF Become, PayloadsOK
<1>2. ASSUME NEW w \in Executors, NEW k \in Bodies, Begin(w, k)
      PROVE  \A v \in Executors : exec'[v].step # "idle" => exec'[v].body \in Bodies
  <2>1. [Idle EXCEPT !.step = "read", !.body = k].body = k
    BY DEF Idle
  <2>2. QED
    BY <1>1, <1>2, <2>1 DEF Begin
<1>3. CASE UNCHANGED exec
  BY <1>3 DEF PayloadsOK
<1>4. ASSUME NEW k \in Bodies, Search(k)
      PROVE  \A v \in Executors : exec'[v].step # "idle" => exec'[v].body \in Bodies
  BY <1>2, <1>3, <1>4 DEF Search, Executors
<1>5. CASE Dequeue
  <2>1. Head(queue) \in Bodies
    BY <1>5 DEF Dequeue, FanoutOK
  <2>2. QED
    BY <1>2, <1>5, <2>1 DEF Dequeue, Executors
<1>6. ASSUME NEW w \in Executors, Fanout(w)
      PROVE  \A v \in Executors : exec'[v].step # "idle" => exec'[v].body \in Bodies
  <2>1. PICK e : Become(w, e) /\ (e = Idle \/ (e.body = exec[w].body /\ exec[w].step # "idle"))
    BY <1>6, FanoutKeepsBody
  <2>2. e.step # "idle" => e.body \in Bodies
    BY <1>0, <2>1 DEF PayloadsOK
  <2>3. QED
    BY <1>1, <2>1, <2>2
<1>7. CASE ProcessDies
  BY <1>0, <1>7 DEF ProcessDies
<1>8. QED
  BY <1>3, <1>4, <1>5, <1>6, <1>7
  DEF PipelineNext, Ensure, RunOther, SchedulerStep, Subscribe, Time, Campaign, fanVars, allVars

(* The other conjuncts, of which a step disturbs one at most.              *)
LEMMA PayloadsStep ==
  ASSUME TypeOK, FanoutOK, PayloadsOK, [PipelineNext]_allVars
  PROVE  PayloadsOK'
<1>1. body' \in [StrainBroadcasts -> Bodies \cup {None}] /\ bornAt' \in [StrainBroadcasts -> Nat]
  <2>0. clock \in Nat /\ \A w \in Executors : exec[w].at \in Nat
    BY DEF TypeOK, StoreTypeOK, FanoutOK, FanoutStates
  <2>1. ASSUME NEW w \in Executors, Fanout(w)
        PROVE  body' \in [StrainBroadcasts -> Bodies \cup {None}] /\ bornAt' \in [StrainBroadcasts -> Nat]
    <3>1. ASSUME NEW b \in StrainBroadcasts, exec[w].step = "insert",
                 body' = [body EXCEPT ![b] = exec[w].body], bornAt' = [bornAt EXCEPT ![b] = exec[w].at]
          PROVE  /\ body' \in [StrainBroadcasts -> Bodies \cup {None}]
                 /\ bornAt' \in [StrainBroadcasts -> Nat]
      BY <2>0, <3>1 DEF PayloadsOK
    <3>2. CASE UNCHANGED <<body, bornAt>>
      BY <3>2 DEF PayloadsOK
    <3>3. QED
      BY <2>1, <3>1, <3>2
      DEF Fanout, ReadSubscribers, FindBroadcast, InsertBroadcast, QueueChat, EndFanout, FanoutFails
  <2>2. CASE UNCHANGED <<body, bornAt>>
    BY <2>2 DEF PayloadsOK
  <2>3. QED
    BY <2>1, <2>2
    DEF PipelineNext, Search, Ensure, RunOther, Dequeue, SchedulerStep, Subscribe, Time, Campaign, ProcessDies,
        fanVars, allVars
<1>2. Len(queue') <= QueueSize
  <2>0. queue \in Seq(Bodies \cup {Other}) /\ Len(queue) \in Nat /\ Len(queue) <= QueueSize /\ QueueSize \in Nat
    BY QueueSizeAssumption DEF FanoutOK, PayloadsOK
  <2>1. ASSUME NEW k \in Bodies, Search(k) PROVE Len(queue') <= QueueSize
    BY <2>0, <2>1 DEF Search
  <2>2. CASE Ensure \/ RunOther \/ Dequeue
    BY <2>0, <2>2 DEF Ensure, RunOther, Dequeue
  <2>3. CASE ProcessDies
    BY <2>0, <2>3 DEF ProcessDies
  <2>4. ASSUME NEW w \in Executors, Fanout(w) PROVE UNCHANGED queue
    BY <2>4 DEF Fanout, ReadSubscribers, FindBroadcast, InsertBroadcast, QueueChat, EndFanout,
       FanoutFails
  <2>5. QED
    BY <2>0, <2>1, <2>2, <2>3, <2>4
    DEF PipelineNext, SchedulerStep, Subscribe, Time, Campaign, fanVars, allVars
<1>3. quiet' \subseteq Chats /\ owed' \subseteq Rows /\ overlapped' \in BOOLEAN
  <2>1. CASE Observe
    BY <2>1 DEF Observe, PayloadsOK
  <2>2. CASE UNCHANGED allVars
    BY <2>2 DEF allVars, PayloadsOK
  <2>3. QED
    BY <2>1, <2>2 DEF PipelineNext
<1>4. QED
  BY <1>1, <1>2, <1>3, BodiesOfFanouts DEF PayloadsOK

LEMMA PayloadsInit == PipelineInit => PayloadsOK
<1> SUFFICES ASSUME PipelineInit PROVE PayloadsOK
  OBVIOUS
<1>1. \A w \in Executors : exec[w].step = "idle"
  BY DEF PipelineInit, Idle
<1>2. Len(queue) <= QueueSize
  BY QueueSizeAssumption DEF PipelineInit
<1>3. QED
  BY <1>1, <1>2 DEF PipelineInit, PayloadsOK

(* What every later argument about the pipeline starts from: the           *)
(* scheduler's invariant, by refinement, and the two above.                *)
LEMMA PipelineBasics == PipelineSpec => [](IInv /\ FanoutOK /\ PayloadsOK)
<1>1. PipelineInit => TypeOK /\ FanoutOK /\ PayloadsOK
  BY FanoutInit, PayloadsInit, TypeInit DEF PipelineInit
<1>2. TypeOK /\ FanoutOK /\ PayloadsOK /\ [PipelineNext]_allVars
        => TypeOK' /\ FanoutOK' /\ PayloadsOK'
  BY StepSimulation, TypeStep, FanoutStep, PayloadsStep
<1>3. PipelineSpec => []IInv
  BY PipelineImplementsRun, IInvAlways, PTL DEF ImplementsBroadcastRun
<1>4. QED
  BY <1>1, <1>2, <1>3, PTL DEF PipelineSpec

(* The queue holds payloads and never more than its capacity, a fan-out    *)
(* that runs knows what it is for, and an inserted broadcast has a payload. *)
THEOREM PipelineTypes == PipelineSpec => []PipelineTypeOK
<1>1. IInv /\ FanoutOK /\ PayloadsOK => PipelineTypeOK
  BY DEF IInv, FanoutOK, PayloadsOK, PipelineTypeOK
<1>2. QED
  BY <1>1, PipelineBasics, PTL

-----------------------------------------------------------------------------
(* One broadcast per body, until two fan-outs overlap                      *)

(* Between the SELECT that finds nothing and the INSERT, nobody else       *)
(* inserts this payload: true of an executor that fans out by itself.      *)
AboutToInsert(w) ==
  exec[w].step = "insert" => \A b \in StrainBroadcasts : body[b] # exec[w].body

Alone ==
  ~overlapped =>
    /\ OneBroadcastPerBody
    /\ \E w \in Executors : exec[w] = Idle
    /\ \A w \in Executors : AboutToInsert(w)

(* An idle executor takes no statement, and is about to insert nothing.    *)
LEMMA IdleRests ==
  ASSUME NEW w \in Executors, exec[w] = Idle
  PROVE  ~Fanout(w) /\ AboutToInsert(w)
<1>1. exec[w].step = "idle" /\ exec[w].todo = {}
  BY DEF Idle
<1>2. ~Fanout(w)
  BY <1>1 DEF Fanout, ReadSubscribers, FindBroadcast, InsertBroadcast, QueueChat, EndFanout, FanoutFails
<1>3. QED
  BY <1>1, <1>2 DEF AboutToInsert

(* A statement of a fan-out made alone keeps the payloads apart.           *)
LEMMA LoneFanoutKeeps ==
  ASSUME FanoutOK, PayloadsOK, NEW w \in Executors, Fanout(w),
         OneBroadcastPerBody, AboutToInsert(w)
  PROVE  OneBroadcastPerBody' /\ AboutToInsert(w)'
<1> DEFINE Kept == OneBroadcastPerBody' /\ AboutToInsert(w)'
<1>0. exec[w] \in FanoutStates /\ exec \in [Executors -> FanoutStates]
  BY DEF FanoutOK
<1>1. ASSUME NEW e, Become(w, e), e.step # "insert", UNCHANGED body
      PROVE  Kept
  BY <1>0, <1>1 DEF Become, OneBroadcastPerBody, AboutToInsert
<1>2. CASE ReadSubscribers(w)
  <2>1. [exec[w] EXCEPT !.step = "next", !.at = clock, !.todo = subs].step # "insert"
    BY <1>0 DEF FanoutStates
  <2>2. QED
    BY <1>1, <1>2, <2>1 DEF ReadSubscribers
<1>3. ASSUME NEW c \in Chats, FindBroadcast(w, c) PROVE Kept
  <2> DEFINE skip == [exec[w] EXCEPT !.todo = @ \ {c}, !.chat = c]
             e == [skip EXCEPT !.step = "insert"]
             f(b) == [skip EXCEPT !.step = "upsert", !.id = b]
  <2>1. e.body = exec[w].body /\ \A b : f(b).step # "insert"
    BY <1>0 DEF FanoutStates
  <2>2. UNCHANGED body
    BY <1>3 DEF FindBroadcast
  <2>3. CASE WithBody(exec[w].body) = {} /\ Become(w, e)
    <3>1. exec'[w] = e
      BY <1>0, <2>3 DEF Become
    <3>2. \A b \in StrainBroadcasts : body[b] # exec[w].body
      BY <2>3 DEF WithBody
    <3>3. QED
      BY <2>1, <2>2, <3>1, <3>2 DEF OneBroadcastPerBody, AboutToInsert
  <2>4. CASE \E b \in StrainBroadcasts : Become(w, f(b))
    BY <1>1, <2>1, <2>2, <2>4
  <2>5. QED
    BY <1>3, <2>3, <2>4 DEF FindBroadcast, WithBody
<1>4. ASSUME NEW b \in StrainBroadcasts, exec[w].step = "insert",
             body' = [body EXCEPT ![b] = exec[w].body], exec'[w].step # "insert"
      PROVE  Kept
  <2>1. \A d \in StrainBroadcasts : body[d] # exec[w].body
    BY <1>4 DEF AboutToInsert
  <2>2. \A d \in StrainBroadcasts : body'[d] = IF d = b THEN exec[w].body ELSE body[d]
    BY <1>4 DEF PayloadsOK
  <2>3. QED
    BY <1>4, <2>1, <2>2 DEF OneBroadcastPerBody, AboutToInsert
<1>5. ASSUME NEW b \in StrainBroadcasts, InsertBroadcast(w, b) PROVE Kept
  <2>1. exec'[w].step = "upsert"
    BY <1>0, <1>5 DEF InsertBroadcast, Become, FanoutStates
  <2>2. QED
    BY <1>4, <1>5, <2>1 DEF InsertBroadcast
<1>6. [exec[w] EXCEPT !.step = "next", !.chat = None, !.id = None].step # "insert"
  BY <1>0 DEF FanoutStates
<1>7. CASE QueueChat(w)
  BY <1>1, <1>6, <1>7 DEF QueueChat, NextChat
<1>8. CASE EndFanout(w)
  BY <1>1, <1>8 DEF EndFanout, Idle
<1>9. CASE FanoutFails(w)
  <2>1. NextChat(w) => exec'[w].step # "insert"
    BY <1>0, <1>6 DEF NextChat, Become
  <2>2. \A c : exec[w].step = "next" => [exec[w] EXCEPT !.todo = @ \ {c}].step # "insert"
    BY <1>0 DEF FanoutStates
  <2>3. Idle.step # "insert"
    BY DEF Idle
  <2>4. \/ Become(w, Idle) /\ UNCHANGED body
        \/ \E c : exec[w].step = "next" /\ Become(w, [exec[w] EXCEPT !.todo = @ \ {c}]) /\ UNCHANGED body
        \/ NextChat(w) /\ UNCHANGED body
        \/ \E b \in StrainBroadcasts :
             exec[w].step = "insert" /\ body' = [body EXCEPT ![b] = exec[w].body] /\ NextChat(w)
    BY <1>9 DEF FanoutFails
  <2>5. QED
    BY <1>1, <1>4, <1>6, <2>1, <2>2, <2>3, <2>4 DEF NextChat
<1>10. QED
  BY <1>2, <1>3, <1>5, <1>7, <1>8, <1>9 DEF Fanout

(* Whoever fans out alone keeps the payloads apart, and so does a fan-out  *)
(* that begins while nobody else is in one.                                *)
LEMMA AloneStep ==
  ASSUME FanoutOK, PayloadsOK, Alone, [PipelineNext]_allVars
  PROVE  Alone'
<1> SUFFICES ASSUME ~overlapped'
             PROVE  /\ OneBroadcastPerBody'
                    /\ \E w \in Executors : exec'[w] = Idle
                    /\ \A w \in Executors : AboutToInsert(w)'
  BY DEF Alone
<1>0. exec \in [Executors -> FanoutStates] /\ Executors = {"worker", "router"} /\ Idle.step = "idle"
  BY DEF FanoutOK, Executors, Idle
<1>1. ~overlapped /\ ((\E w \in Executors : exec'[w] = Idle) \/ UNCHANGED exec)
  <2>1. CASE Observe
    BY <2>1, Zenon DEF Observe
  <2>2. CASE UNCHANGED allVars
    BY <2>2 DEF allVars, fanVars
  <2>3. QED
    BY <2>1, <2>2 DEF PipelineNext
<1>2. OneBroadcastPerBody /\ (\E w \in Executors : exec[w] = Idle) /\ \A w \in Executors : AboutToInsert(w)
  BY <1>1 DEF Alone
<1>3. \E w \in Executors : exec'[w] = Idle
  BY <1>1, <1>2
<1>4. ASSUME UNCHANGED body, NEW w \in Executors, exec'[w].step # "insert" \/ exec'[w] = exec[w]
      PROVE  AboutToInsert(w)'
  BY <1>2, <1>4 DEF AboutToInsert
<1>5. ASSUME UNCHANGED body PROVE OneBroadcastPerBody'
  BY <1>2, <1>5 DEF OneBroadcastPerBody
<1>6. ASSUME NEW w \in Executors, NEW k \in Bodies, Begin(w, k)
      PROVE  \A v \in Executors : exec'[v].step # "insert" \/ exec'[v] = exec[v]
  BY <1>0, <1>6 DEF Begin, Become, Idle
<1>7. ASSUME NEW k \in Bodies, Search(k) PROVE \A w \in Executors : AboutToInsert(w)'
  BY <1>4, <1>6, <1>7 DEF Search, Executors
<1>8. ASSUME Dequeue PROVE \A w \in Executors : AboutToInsert(w)'
  BY <1>4, <1>6, <1>8 DEF Dequeue, Executors
<1>9. ASSUME ProcessDies PROVE \A w \in Executors : AboutToInsert(w)'
  BY <1>0, <1>4, <1>9 DEF ProcessDies
<1>10. ASSUME NEW w \in Executors, Fanout(w)
       PROVE  OneBroadcastPerBody' /\ \A v \in Executors : AboutToInsert(v)'
  <2>1. OneBroadcastPerBody' /\ AboutToInsert(w)'
    BY <1>2, <1>10, LoneFanoutKeeps
  <2>2. PICK e : Become(w, e)
    BY <1>10, FanoutKeepsBody
  <2>3. ASSUME NEW v \in Executors, v # w PROVE AboutToInsert(v)'
    <3>1. exec[v] = Idle
      BY <1>0, <1>2, <1>10, <2>3, IdleRests
    <3>2. exec'[v] = Idle
      BY <1>0, <2>2, <2>3, <3>1 DEF Become
    <3>3. QED
      BY <1>0, <3>2 DEF AboutToInsert
  <2>4. QED
    BY <2>1, <2>3
<1>11. ASSUME UNCHANGED <<body, exec>> PROVE \A w \in Executors : AboutToInsert(w)'
  BY <1>4, <1>11
<1>12. (\E k \in Bodies : Search(k)) \/ Dequeue \/ ProcessDies => UNCHANGED body
  BY DEF Search, Dequeue, ProcessDies
<1>13. OneBroadcastPerBody' /\ \A w \in Executors : AboutToInsert(w)'
  <2>1. \/ \E k \in Bodies : Search(k)
        \/ Dequeue \/ ProcessDies
        \/ \E w \in Executors : Fanout(w)
        \/ UNCHANGED <<body, exec>>
    BY DEF PipelineNext, Ensure, RunOther, SchedulerStep, Subscribe, Time, Campaign, fanVars, allVars
  <2>2. QED
    BY <2>1, <1>5, <1>7, <1>8, <1>9, <1>10, <1>11, <1>12
<1>14. QED
  BY <1>3, <1>13

LEMMA AloneInit == PipelineInit => Alone
<1> SUFFICES ASSUME PipelineInit PROVE Alone
  OBVIOUS
<1>1. \A w \in Executors : exec[w] = Idle /\ exec[w].step = "idle"
  BY DEF PipelineInit, Idle
<1>2. "worker" \in Executors /\ \A b \in StrainBroadcasts : body[b] = None
  BY DEF PipelineInit, Executors
<1>3. QED
  BY <1>1, <1>2 DEF Alone, OneBroadcastPerBody, AboutToInsert

(* SELECT-then-INSERT makes no duplicate until the worker and the router   *)
(* fan out at the same time: any number of fan-outs one after the other,   *)
(* through failed statements, lost answers, crashes and whatever else      *)
(* fills the queue, keep one broadcasts row per body.                      *)
THEOREM DuplicatesNeedOverlap == PipelineSpec => []OneBroadcastUnlessOverlapped
<1>1. Alone => OneBroadcastUnlessOverlapped
  BY DEF Alone, OneBroadcastUnlessOverlapped
<1>2. IInv /\ FanoutOK /\ PayloadsOK /\ Alone /\ [PipelineNext]_allVars => Alone'
  BY AloneStep
<1>3. QED
  BY <1>1, <1>2, AloneInit, PipelineBasics, PTL DEF PipelineSpec

-----------------------------------------------------------------------------
(* Unsubscribing is final once swept                                       *)

(* A chat that was swept while unsubscribed and unheld has no way back in  *)
(* but /subscribe: it is in no snapshot and has no pending strain card.    *)
QuietOK ==
  /\ quiet \cap subs = {}
  /\ quiet \cap Held = {}
  /\ \A r \in pending : IsStrain(r) => ChatOf(r) \notin quiet

LEMMA QuietInit == PipelineInit => QuietOK
BY DEF PipelineInit, QuietOK

(* A fan-out gets hold of subscribed chats only.                           *)
LEMMA HeldGrows ==
  ASSUME FanoutOK, [PipelineNext]_allVars
  PROVE  Held' \subseteq Held \cup subs \cup {None}
<1>0. exec \in [Executors -> FanoutStates] /\ Idle.todo = {} /\ Idle.chat = None
  BY DEF FanoutOK, Idle
<1>1. ASSUME NEW w \in Executors, NEW e, Become(w, e),
             e.todo \cup {e.chat} \subseteq Held \cup subs \cup {None}
      PROVE  Held' \subseteq Held \cup subs \cup {None}
  <2>1. \A v \in Executors : exec'[v] = IF v = w THEN e ELSE exec[v]
    BY <1>0, <1>1 DEF Become
  <2>2. QED
    BY <1>1, <2>1 DEF Held
<1>2. ASSUME NEW w \in Executors, NEW k, Begin(w, k)
      PROVE  Held' \subseteq Held \cup subs \cup {None}
  <2> DEFINE e == [Idle EXCEPT !.step = "read", !.body = k]
  <2>1. e.todo = {} /\ e.chat = None
    BY DEF Idle
  <2>2. QED
    BY <1>1, <1>2, <2>1 DEF Begin
<1>3. CASE UNCHANGED exec
  BY <1>3 DEF Held
<1>4. ASSUME NEW w \in Executors, Fanout(w)
      PROVE  Held' \subseteq Held \cup subs \cup {None}
  <2>0. exec[w] \in FanoutStates /\ exec[w].todo \cup {exec[w].chat} \subseteq Held
    BY <1>0 DEF Held
  <2>1. CASE ReadSubscribers(w)
    <3> DEFINE e == [exec[w] EXCEPT !.step = "next", !.at = clock, !.todo = subs]
    <3>1. e.todo = subs /\ e.chat = exec[w].chat
      BY <2>0 DEF FanoutStates
    <3>2. QED
      BY <1>1, <2>0, <2>1, <3>1 DEF ReadSubscribers
  <2>2. ASSUME NEW c \in Chats, FindBroadcast(w, c)
        PROVE  Held' \subseteq Held \cup subs \cup {None}
    <3> DEFINE skip == [exec[w] EXCEPT !.todo = @ \ {c}, !.chat = c]
               e == [skip EXCEPT !.step = "insert"]
               f(b) == [skip EXCEPT !.step = "upsert", !.id = b]
    <3>1. /\ e.todo \subseteq exec[w].todo /\ e.chat = c
          /\ \A b : f(b).todo \subseteq exec[w].todo /\ f(b).chat = c
      BY <2>0 DEF FanoutStates
    <3>2. c \in exec[w].todo
      BY <2>2 DEF FindBroadcast
    <3>3. Become(w, e) \/ \E b \in StrainBroadcasts : Become(w, f(b))
      BY <2>2 DEF FindBroadcast, WithBody
    <3>4. QED
      BY <1>1, <2>0, <3>1, <3>2, <3>3
  <2>3. ASSUME NEW b \in StrainBroadcasts, InsertBroadcast(w, b)
        PROVE  Held' \subseteq Held \cup subs \cup {None}
    <3> DEFINE e == [exec[w] EXCEPT !.step = "upsert", !.id = b]
    <3>1. e.todo = exec[w].todo /\ e.chat = exec[w].chat
      BY <2>0 DEF FanoutStates
    <3>2. QED
      BY <1>1, <2>0, <2>3, <3>1 DEF InsertBroadcast
  <2>4. ASSUME NextChat(w) PROVE Held' \subseteq Held \cup subs \cup {None}
    <3> DEFINE e == [exec[w] EXCEPT !.step = "next", !.chat = None, !.id = None]
    <3>1. e.todo = exec[w].todo /\ e.chat = None
      BY <2>0 DEF FanoutStates
    <3>2. QED
      BY <1>1, <2>0, <2>4, <3>1 DEF NextChat
  <2>5. ASSUME Become(w, Idle) PROVE Held' \subseteq Held \cup subs \cup {None}
    BY <1>0, <1>1, <2>5
  <2>6. CASE FanoutFails(w)
    <3>1. ASSUME NEW c, Become(w, [exec[w] EXCEPT !.todo = @ \ {c}])
          PROVE  Held' \subseteq Held \cup subs \cup {None}
      <4> DEFINE e == [exec[w] EXCEPT !.todo = @ \ {c}]
      <4>1. e.todo \subseteq exec[w].todo /\ e.chat = exec[w].chat
        BY <2>0 DEF FanoutStates
      <4>2. QED
        BY <1>1, <2>0, <3>1, <4>1
    <3>2. QED
      BY <2>4, <2>5, <2>6, <3>1 DEF FanoutFails
  <2>7. QED
    BY <1>4, <2>1, <2>2, <2>3, <2>4, <2>5, <2>6 DEF Fanout, QueueChat, EndFanout
<1>5. CASE ProcessDies
  <2>1. \A w \in Executors : exec'[w] = Idle
    BY <1>5 DEF ProcessDies
  <2>2. QED
    BY <1>0, <2>1 DEF Held
<1>6. ASSUME (\E k \in Bodies : Search(k)) \/ Dequeue
      PROVE  Held' \subseteq Held \cup subs \cup {None}
  BY <1>2, <1>3, <1>6 DEF Search, Dequeue, Executors
<1>7. QED
  BY <1>3, <1>4, <1>5, <1>6
  DEF PipelineNext, Ensure, RunOther, SchedulerStep, Subscribe, Time, Campaign, fanVars, allVars

(* A strain row becomes pending only for a chat some fan-out held.         *)
LEMMA PendingGrows ==
  ASSUME FanoutOK, [PipelineNext]_allVars
  PROVE  \A r \in pending' \ pending : IsStrain(r) => ChatOf(r) \in Held
<1>1. ASSUME NEW w \in Executors, QueueChat(w)
      PROVE  \A r \in pending' \ pending : ChatOf(r) \in Held
  BY <1>1 DEF QueueChat, Queue, UpsertOutgoing, ChatOf, Held
<1>2. ASSUME NEW b \in Broadcasts, NEW R \in SUBSET Rows, NEW at \in 0 .. MaxClock,
             Campaign(b, R, at)
      PROVE  \A r \in pending' \ pending : ~IsStrain(r)
  BY <1>2 DEF Campaign, Seed, SeedOutgoing, IsStrain
<1>3. CASE SchedulerStep \/ (\E c \in Chats : Subscribe(c)) \/ Time \/ ProcessDies
  BY <1>3
  DEF SchedulerStep, RunStep, Sweep, SelectPage, SkipRow, PostAccepted, PostRefused, RecordPost,
      AbortRow, EndOfPage, PostAnswerLost, RunFails, StatementAnswerLost, Expire, Subscribe,
      Toggle, SetSubscribed, Time, Tick, ProcessDies, Crash, storeVars, CloseRows, MarkSent
<1>4. ASSUME UNCHANGED vars PROVE pending' \ pending = {}
  BY <1>4 DEF vars, storeVars
<1>5. ASSUME NEW w \in Executors, Fanout(w), ~QueueChat(w) PROVE UNCHANGED vars
  BY <1>5 DEF Fanout, ReadSubscribers, FindBroadcast, InsertBroadcast, EndFanout, FanoutFails
<1>6. QED
  BY <1>1, <1>2, <1>3, <1>4, <1>5 DEF PipelineNext, Search, Ensure, RunOther, Dequeue, allVars

(* A run that leaves idle has closed the strain cards of the unsubscribed. *)
LEMMA SweepCloses ==
  ASSUME [PipelineNext]_allVars, FanoutOK, pc = "idle", pc' = "select"
  PROVE  /\ subs' = subs
         /\ \A r \in pending' : IsStrain(r) => ChatOf(r) \in subs
<1>1. [Next]_vars
  BY StepSimulation
<1>2. Sweep
  BY <1>1
  DEF Next, RunStep, SelectPage, SkipRow, PostAccepted, PostRefused, RecordPost, AbortRow,
      EndOfPage, Yield, Fault, PostAnswerLost, RunFails, StatementAnswerLost, Expire, Crash, Return,
      Environment, Queue, Seed, Toggle, Tick, runVars, vars
<1>3. QED
  BY <1>2 DEF Sweep, CloseRows, UnsubscribedRows

LEMMA QuietStep ==
  ASSUME FanoutOK, PayloadsOK, QuietOK, [PipelineNext]_allVars
  PROVE  QuietOK'
<1>1. CASE UNCHANGED allVars
  <2>1. UNCHANGED <<quiet, subs, exec, pending>>
    BY <1>1 DEF allVars, vars, storeVars, fanVars
  <2>2. QED
    BY <2>1 DEF QuietOK, Held
<1>2. CASE Observe
  <2>1. quiet' \subseteq Chats \ subs' /\ None \notin Chats
    BY <1>2, NoneAssumption DEF Observe, PayloadsOK
  <2>2. Held' \subseteq Held \cup subs \cup {None}
    BY HeldGrows
  <2>3. \A r \in pending' \ pending : IsStrain(r) => ChatOf(r) \in Held
    BY PendingGrows
  <2>4. CASE pc = "idle" /\ pc' = "select"
    <3>1. subs' = subs /\ \A r \in pending' : IsStrain(r) => ChatOf(r) \in subs
      BY <2>4, SweepCloses
    <3>2. quiet' \subseteq quiet \cup (Chats \ (subs \cup Held))
      BY <1>2, <2>4 DEF Observe
    <3>3. QED
      BY <2>1, <2>2, <3>1, <3>2 DEF QuietOK
  <2>5. CASE ~(pc = "idle" /\ pc' = "select")
    <3>1. quiet' \subseteq quiet
      BY <1>2, <2>5 DEF Observe
    <3>2. QED
      BY <2>1, <2>2, <2>3, <3>1 DEF QuietOK
  <2>6. QED
    BY <2>4, <2>5
<1>3. QED
  BY <1>1, <1>2 DEF PipelineNext

(* Unsubscribing is final: after the sweep of a chat that no fan-out still *)
(* holds, not even the stale page of a run or a fan-out begun before can   *)
(* get it a strain card.                                                   *)
THEOREM UnsubscribingIsFinal == PipelineSpec => NoCardAfterSweep
<1> DEFINE Unposted(r) == posts'[r] # posts[r] => ChatOf(r) \notin quiet
<1>1. ASSUME IInv, FanoutOK, QuietOK, [PipelineNext]_allVars, NEW r \in StrainRows
      PROVE  Unposted(r)
  <2>1. r \in Rows /\ IsStrain(r)
    BY DEF StrainRows
  <2>2. ASSUME NEW q \in Rows, Yield(q), posts' = Bump(posts, q), r = q PROVE Unposted(r)
    <3>1. q \in pending
      BY <1>1, <2>2, YieldFromPage DEF IInv, PageStillPending
    <3>2. QED
      BY <1>1, <2>1, <2>2, <3>1 DEF QuietOK
  <2>3. ASSUME NEW q \in Rows, posts' = Bump(posts, q), r # q PROVE Unposted(r)
    BY <1>1, <2>1, <2>3, BumpType DEF IInv, TypeOK
  <2>4. UNCHANGED posts \/ \E q \in Rows : Yield(q) /\ posts' = Bump(posts, q)
    BY <1>1, StepSimulation, PostsByYield
  <2>5. QED
    BY <2>2, <2>3, <2>4
<1>2. IInv /\ FanoutOK /\ QuietOK /\ [PipelineNext]_allVars
        => [\A r \in StrainRows : Unposted(r)]_allVars
  BY <1>1
<1>3. FanoutOK /\ PayloadsOK /\ QuietOK /\ [PipelineNext]_allVars => QuietOK'
  BY QuietStep
<1>4. QED
  BY <1>2, <1>3, QuietInit, PipelineBasics, PTL DEF PipelineSpec, NoCardAfterSweep

=============================================================================
